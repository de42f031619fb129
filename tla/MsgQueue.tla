------------------------------ MODULE MsgQueue ------------------------------
(***************************************************************************)
(* The message queue of cubelib/ex_module/sec_msgqueue.c, step by step     *)
(* under its rwlock.  Every module has two, one for each direction between *)
(* the module's thread and the router's; both threads loop over them.      *)
(*                                                                         *)
(* message_queue_getmsg takes the lock for reading although it unlinks a   *)
(* record, so nothing but the lock's exclusion of writers protects it.  The *)
(* program has one getter per queue (the module's thread, or the router's),*)
(* and it has to: see OneGetterAssumption.                                 *)
(***************************************************************************)
EXTENDS Integers, Sequences

CONSTANTS
    Putters,    \* threads that call message_queue_putmsg
    Getters,    \* the thread that calls message_queue_getmsg
    Msgs        \* the messages; each is put at most once

None == "none"
ASSUME PuttersAssumption == None \notin Putters
ASSUME MsgsAssumption == None \notin Msgs
ASSUME OneGetterAssumption == \A g, h \in Getters : g = h

VARIABLES
    list,       \* the records from head.next to head.prev
    num,        \* msg_num
    writer,     \* the thread that has the lock for writing, or None
    readers,    \* the threads that have it for reading
    ppc, pmsg,  \* a putter's step and message
    gpc, gmsg,  \* a getter's step and record
    put,        \* history: the messages linked so far, in that order
    taken       \* history: the messages returned, in that order

putter == <<ppc, pmsg>>
getter == <<gpc, gmsg>>
mqvars == <<list, num, writer, readers, putter, getter, put, taken>>

(* message_queue_init *)
MqInit ==
    /\ list = <<>> /\ num = 0 /\ writer = None /\ readers = {}
    /\ ppc = [p \in Putters |-> "idle"] /\ pmsg = [p \in Putters |-> None]
    /\ gpc = [g \in Getters |-> "idle"] /\ gmsg = [g \in Getters |-> None]
    /\ put = <<>> /\ taken = <<>>

-----------------------------------------------------------------------------
(* message_queue_putmsg *)

Elems(s) == {s[k] : k \in DOMAIN s}

Used == Elems(put) \cup {pmsg[p] : p \in Putters}

PutCall(p, m) ==
    /\ ppc[p] = "idle" /\ m \notin Used
    /\ ppc' = [ppc EXCEPT ![p] = "lock"] /\ pmsg' = [pmsg EXCEPT ![p] = m]
    /\ UNCHANGED <<list, num, writer, readers, getter, put, taken>>

(* Mutant: a lock for reading, as in the other function. *)
PutLock_Read(p) ==
    /\ ppc[p] = "lock" /\ writer = None
    /\ writer' = p
    /\ ppc' = [ppc EXCEPT ![p] = "count"]
    /\ UNCHANGED <<list, num, readers, pmsg, getter, put, taken>>

(* pthread_rwlock_wrlock *)
PutLock(p) ==
    /\ ppc[p] = "lock" /\ writer = None /\ readers = {}
    /\ writer' = p
    /\ ppc' = [ppc EXCEPT ![p] = "count"]
    /\ UNCHANGED <<list, num, readers, pmsg, getter, put, taken>>

PutCount(p) ==
    /\ ppc[p] = "count"
    /\ num' = num + 1
    /\ ppc' = [ppc EXCEPT ![p] = "link"]
    /\ UNCHANGED <<list, writer, readers, pmsg, getter, put, taken>>

(* List_add_tail *)
PutLink(p) ==
    /\ ppc[p] = "link"
    /\ list' = Append(list, pmsg[p]) /\ put' = Append(put, pmsg[p])
    /\ ppc' = [ppc EXCEPT ![p] = "unlock"]
    /\ UNCHANGED <<num, writer, readers, pmsg, getter, taken>>

PutUnlock(p) ==
    /\ ppc[p] = "unlock"
    /\ writer' = None
    /\ ppc' = [ppc EXCEPT ![p] = "idle"] /\ pmsg' = [pmsg EXCEPT ![p] = None]
    /\ UNCHANGED <<list, num, readers, getter, put, taken>>

-----------------------------------------------------------------------------
(* message_queue_getmsg *)

(* pthread_rwlock_rdlock *)
GetLock(g) ==
    /\ gpc[g] = "idle" /\ writer = None
    /\ readers' = readers \cup {g}
    /\ gpc' = [gpc EXCEPT ![g] = "test"]
    /\ UNCHANGED <<list, num, writer, putter, gmsg, put, taken>>

(* Mutant: the last message is never handed out. *)
GetEmpty_AtOne(g) ==
    /\ gpc[g] = "test" /\ num <= 1
    /\ readers' = readers \ {g}
    /\ gpc' = [gpc EXCEPT ![g] = "idle"]
    /\ UNCHANGED <<list, num, writer, putter, gmsg, put, taken>>

(* msg_num is 0: unlock, and return with no message. *)
GetEmpty(g) ==
    /\ gpc[g] = "test" /\ num = 0
    /\ readers' = readers \ {g}
    /\ gpc' = [gpc EXCEPT ![g] = "idle"]
    /\ UNCHANGED <<list, num, writer, putter, gmsg, put, taken>>

(* newrecord = head.prev, the last record; the head itself (None) if there *)
(* is no record.                                                           *)
GetPick(g) ==
    /\ gpc[g] = "test" /\ num # 0
    /\ gmsg' = [gmsg EXCEPT ![g] = IF list = <<>> THEN None ELSE list[Len(list)]]
    /\ gpc' = [gpc EXCEPT ![g] = "count"]
    /\ UNCHANGED <<list, num, writer, readers, putter, put, taken>>

GetCount(g) ==
    /\ gpc[g] = "count"
    /\ num' = num - 1
    /\ gpc' = [gpc EXCEPT ![g] = "unlink"]
    /\ UNCHANGED <<list, writer, readers, putter, gmsg, put, taken>>

(* List_del: the record leaves the list, wherever it is; one that is       *)
(* linked nowhere is left alone.                                           *)
Unlink(s, m) ==
    IF m \notin Elems(s) THEN s
    ELSE LET i == CHOOSE i \in DOMAIN s : s[i] = m
         IN  [j \in 1 .. Len(s) - 1 |-> IF j < i THEN s[j] ELSE s[j + 1]]

GetUnlink(g) ==
    /\ gpc[g] = "unlink"
    /\ list' = Unlink(list, gmsg[g])
    /\ gpc' = [gpc EXCEPT ![g] = "unlock"]
    /\ UNCHANGED <<num, writer, readers, putter, gmsg, put, taken>>

GetUnlock(g) ==
    /\ gpc[g] = "unlock"
    /\ readers' = readers \ {g}
    /\ taken' = Append(taken, gmsg[g])
    /\ gpc' = [gpc EXCEPT ![g] = "idle"] /\ gmsg' = [gmsg EXCEPT ![g] = None]
    /\ UNCHANGED <<list, num, writer, putter, put>>

-----------------------------------------------------------------------------
Put(p) == PutLock(p) \/ PutCount(p) \/ PutLink(p) \/ PutUnlock(p)

Get(g) == \/ GetLock(g) \/ GetEmpty(g) \/ GetPick(g)
          \/ GetCount(g) \/ GetUnlink(g) \/ GetUnlock(g)

MqNext ==
    \/ \E p \in Putters : (\E m \in Msgs : PutCall(p, m)) \/ Put(p)
    \/ \E g \in Getters : Get(g)

MqSpec == MqInit /\ [][MqNext]_mqvars

(* A thread that has entered a call finishes it, and the getter polls for  *)
(* ever.  A putter that waits for the lock gets it in the end, although    *)
(* the getter takes it again and again: the getter sleeps between calls    *)
(* (usleep in the router's loop and in the modules'), and its unlock wakes *)
(* the waiter; strong fairness stands for this.                            *)
MqFairSpec ==
    /\ MqSpec
    /\ \A p \in Putters : SF_mqvars(PutLock(p)) /\ WF_mqvars(Put(p))
    /\ \A g \in Getters : WF_mqvars(Get(g))

-----------------------------------------------------------------------------
(* Properties. *)

(* The messages a getter has unlinked and not returned yet. *)
InHand == {gmsg[g] : g \in {h \in Getters : gpc[h] = "unlock"}}

NoRepeats(s) == \A i, j \in DOMAIN s : s[i] = s[j] => i = j

(* Shape of the state, and the lock is held by those inside it. *)
MqTypeOK ==
    /\ list \in Seq(Msgs) /\ put \in Seq(Msgs) /\ taken \in Seq(Msgs) /\ num \in Int
    /\ pmsg \in [Putters -> Msgs \cup {None}] /\ gmsg \in [Getters -> Msgs \cup {None}]
    /\ ppc \in [Putters -> {"idle", "lock", "count", "link", "unlock"}]
    /\ gpc \in [Getters -> {"idle", "test", "count", "unlink", "unlock"}]
    /\ writer \in Putters \cup {None} /\ readers \subseteq Getters
    /\ \A g \in Getters : g \in readers <=> gpc[g] # "idle"

(* msg_num, which getmsg decides by, is the length of the list whenever a  *)
(* getter looks at it: neither a getter sees the half-done work of a       *)
(* putter, nor a putter that of a getter.                                  *)
NumIsLength == \A g \in Getters : gpc[g] = "test" => num = Len(list)

(* Every message put is in exactly one place: on the list, in the getter's *)
(* hand or handed out; none is lost, and none is handed out twice.         *)
NothingLostOrDoubled ==
    /\ Elems(put) = Elems(list) \cup InHand \cup Elems(taken)
    /\ Elems(list) \cap Elems(taken) = {}
    /\ InHand \cap (Elems(list) \cup Elems(taken)) = {}
    /\ NoRepeats(list) /\ NoRepeats(taken)

(* A message given to putmsg is handed out in the end: the getter, which   *)
(* takes the lock again and again, neither keeps the putter out for ever   *)
(* nor leaves a message behind.                                            *)
EveryMessageHandedOut ==
    \A m \in Msgs : (\E p \in Putters : pmsg[p] = m) ~> m \in Elems(taken)

(* The queue: the lock is held by those inside, the counter is the length  *)
(* when it is tested, and every message is in one place.                   *)
MqAccounted ==
    /\ MqTypeOK /\ NumIsLength /\ NothingLostOrDoubled
=============================================================================
