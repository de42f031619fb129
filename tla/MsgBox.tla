------------------------------- MODULE MsgBox -------------------------------
(***************************************************************************)
(* The message object (message.c) on its way through a line of instances,  *)
(* and the byte stream between two of them (message_output_blob at one     *)
(* end, message_read_from_src at the other).                               *)
(*                                                                         *)
(* A message has its records twice: decoded (precord) and as bytes, either *)
(* one by one (record) or together (blob); and its expands likewise.  An   *)
(* instance decodes the types its database has a template for; others it   *)
(* passes on as bytes.  A cipher module (symm_crypt.c) replaces the blob.  *)
(*                                                                         *)
(* The unit of the stream is one record or one expand; a head takes        *)
(* HeadLen units.  A unit never looks like a head.                         *)
(***************************************************************************)
EXTENDS Integers, Sequences, SequencesExt

CONSTANTS
    Final,      \* the instances are 1 .. Final; 1 creates the messages
    HeadLen,    \* units of a MSG_HEAD
    BufLen,     \* units of the 4096-byte buffers
    MaxMsgs,    \* bound: messages created
    RecCounts,  \* the numbers of records messages are created with
    MaxOps,     \* bound: changes modules make to messages
    MaxCuts     \* bound: connections that break

ASSUME FinalAssumption == Final \in Nat \ {0}
ASSUME HeadLenAssumption == HeadLen \in Nat \ {0}
ASSUME BufLenAssumption == BufLen \in Nat
ASSUME BoundsAssumption ==
    MaxMsgs \in Nat /\ RecCounts \subseteq Nat /\ MaxOps \in Nat /\ MaxCuts \in Nat

Inst == 1 .. Final

VARIABLES
    knowsRec,   \* the instances with a template for the record type
    knowsExp,   \* the instances with a template for the expand type
    cur,        \* per instance: <<the message its modules have>>, or <<>>
    loading,    \* per instance: <<head>> while its body is read, or <<>>
    wire,       \* per instance: the bytes on the way to it
    crashed,    \* instances killed by a null pointer
    made, ops, cuts,    \* counters for the bounds
    handed,     \* history: per instance, the messages handed to its modules
    torn        \* history: the instances at which a body was read in part

vars == <<knowsRec, knowsExp, cur, loading, wire, crashed, made, ops, cuts, handed, torn>>

-----------------------------------------------------------------------------
(* Units. *)

Null      == [kind |-> "null"]      \* an empty site of an array
Junk      == [kind |-> "junk"]      \* memory nobody has written
Rec(v)    == [kind |-> "rec", val |-> v]
Cipher(u) == [kind |-> "enc", of |-> u]
Exp(v)    == [kind |-> "exp", val |-> v]

Nulls(n) == [i \in 1 .. n |-> Null]

Plain(u) == IF u.kind = "enc" THEN u.of ELSE Junk

(* blob_2_struct and struct_2_blob: a record or an expand survives both;   *)
(* what is not one decodes to junk.                                        *)
Decode(u) == IF u.kind \in {"rec", "exp"} THEN u ELSE Junk

(* A message box.  record = <<>> with num > 0: the array is not allocated. *)
(* real is what its creator and the modules on its way put into it; part   *)
(* says that its body was read in part.  Both are history.                 *)
NewBox(id, real) ==
    [id |-> id, num |-> 0, size |-> 0, crypt |-> FALSE, hasBlob |-> FALSE, blob |-> <<>>,
     record |-> <<>>, precord |-> <<>>, expand |-> <<>>, pexpand |-> <<>>,
     real |-> real, part |-> FALSE]

(* message_add_record, for each of rs. *)
WithRecords(b, rs) ==
    [b EXCEPT !.num = Len(rs), !.record = Nulls(Len(rs)), !.precord = rs]

-----------------------------------------------------------------------------
(* Mutant: the arrays are not allocated. *)
LoadRecord_NoAlloc(n, b) ==
    IF n \notin knowsRec \/ \A i \in DOMAIN b.record : b.record[i] # Null THEN b
    ELSE [b EXCEPT !.record = [i \in 1 .. b.num |-> b.blob[i]],
                   !.precord = [i \in 1 .. b.num |->
                       IF b.precord[i] # Null THEN b.precord[i] ELSE Decode(b.blob[i])]]

(* message_load_record, at an instance with a template: the records are    *)
(* taken from the blob unless the sites are filled.                        *)
LoadRecord(n, b) ==
    LET sites == IF b.record = <<>> THEN Nulls(b.num) ELSE b.record
        ps    == IF b.record = <<>> THEN Nulls(b.num) ELSE b.precord
    IN  IF n \notin knowsRec \/ \A i \in 1 .. b.num : sites[i] # Null THEN b
        ELSE [b EXCEPT !.record = [i \in 1 .. b.num |-> b.blob[i]],
                       !.precord = [i \in 1 .. b.num |->
                           IF ps[i] # Null THEN ps[i] ELSE Decode(b.blob[i])]]

(* message_load_expand; an expand of an unknown type stays as it is. *)
LoadExpand(n, b) ==
    [b EXCEPT !.pexpand = [i \in DOMAIN b.expand |->
                              IF n \in knowsExp THEN Decode(b.expand[i]) ELSE Null]]

(* message_get_expand gives back a decoded expand only: what              *)
(* message_load_expand left as bytes has no template here.                 *)
GetExpand(b, i) == b.pexpand[i]

(* message_output_blob: can it, and the two parts of the body it writes.   *)
CanOutput(n, b) ==
    \/ b.hasBlob
    \/ ~b.crypt /\ n \in knowsRec
         /\ \A i \in 1 .. b.num : b.record[i] # Null \/ b.precord[i] # Null

(* Mutant: the decoded records come first. *)
OutputRecords_Decoded(b) ==
    IF b.hasBlob /\ (b.precord = <<>> \/ \E i \in DOMAIN b.precord : b.precord[i] = Null)
    THEN SubSeq(b.blob, 1, b.size)
    ELSE b.precord

OutputRecords(b) ==
    IF b.hasBlob THEN SubSeq(b.blob, 1, b.size)
    ELSE [i \in 1 .. b.num |-> IF b.record[i] # Null THEN b.record[i] ELSE b.precord[i]]

OutputExpands(b) ==
    [i \in DOMAIN b.expand |-> IF b.pexpand[i] # Null THEN b.pexpand[i] ELSE b.expand[i]]

Output(b) ==
    LET rs == OutputRecords(b)
        es == OutputExpands(b)
        h  == [id |-> b.id, num |-> b.num, size |-> Len(rs), exps |-> Len(es),
               crypt |-> b.crypt, real |-> b.real, part |-> b.part]
    IN  [k \in 1 .. HeadLen |-> [kind |-> "head", site |-> k, head |-> h]] \o rs \o es

-----------------------------------------------------------------------------
(* What the modules of an instance do with the message they have. *)

Holds(n) == cur[n] # <<>> /\ n \notin crashed
Put(n, b) == cur' = [cur EXCEPT ![n] = <<b>>]

(* message_create and message_add_record. *)
Create(k) ==
    /\ cur[1] = <<>> /\ made < MaxMsgs
    /\ LET rs == [i \in 1 .. k |-> Rec(<<made + 1, i>>)]
       IN  Put(1, WithRecords(NewBox(made + 1, [recs |-> rs, exps |-> <<>>]), rs))
    /\ made' = made + 1
    /\ UNCHANGED <<knowsRec, knowsExp, loading, wire, crashed, ops, cuts, handed, torn>>

Op(n) ==
    /\ Holds(n) /\ ops < MaxOps
    /\ ops' = ops + 1
    /\ UNCHANGED <<knowsRec, knowsExp, loading, wire, crashed, made, cuts, handed, torn>>

(* Room for one more unit in the buffer of message_output_blob; a larger   *)
(* message would overflow it, and the model does not make one.             *)
HasRoom(b) == HeadLen + Len(OutputRecords(b)) + Len(b.expand) < BufLen

(* Mutant: only the decoded array gets a site. *)
AddExpand_OneArray(n) ==
    /\ Op(n) /\ n \in knowsExp
    /\ LET b == cur[n][1]
           e == Exp(ops + 1)
       IN  HasRoom(b) /\ Put(n, [b EXCEPT !.pexpand = Append(@, e), !.real.exps = Append(@, e)])

(* message_add_expand_data, by a module that knows the type. *)
AddExpand(n) ==
    /\ Op(n) /\ n \in knowsExp
    /\ LET b == cur[n][1]
           e == Exp(ops + 1)
       IN  /\ HasRoom(b)
           /\ Put(n, [b EXCEPT !.expand = Append(@, Null), !.pexpand = Append(@, e),
                               !.real.exps = Append(@, e)])

(* message_remove_expand: the first expand of the type, decoded or not. *)
RemoveExpand(n) ==
    /\ Op(n) /\ cur[n][1].expand # <<>>
    /\ Put(n, [cur[n][1] EXCEPT !.expand = Tail(@), !.pexpand = Tail(@),
                                !.real.exps = Tail(@)])

(* proc_crypt_message.  A message that has no blob, one created in this    *)
(* instance, or no records is not sent on.                                 *)
Encrypt(n) ==
    /\ Op(n) /\ ~cur[n][1].crypt
    /\ LET b == cur[n][1]
       IN  IF b.hasBlob /\ b.size > 0
           THEN Put(n, [b EXCEPT !.blob = [i \in 1 .. b.size |-> Cipher(b.blob[i])],
                                 !.crypt = TRUE])
           ELSE cur' = [cur EXCEPT ![n] = <<>>]

(* proc_uncrypt_message *)
Decrypt(n) ==
    /\ Op(n) /\ cur[n][1].crypt
    /\ LET b == cur[n][1]
       IN  IF b.hasBlob /\ b.size > 0
           THEN Put(n, LoadRecord(n, [b EXCEPT !.blob = [i \in 1 .. b.size |-> Plain(b.blob[i])],
                                               !.crypt = FALSE]))
           ELSE cur' = [cur EXCEPT ![n] = <<>>]

(* The loop of message_clone over the expands: those that were not decoded *)
(* are left out.                                                           *)
Decoded(es) ==
    LET kept[k \in 0 .. Len(es)] ==
            IF k = 0 THEN <<>>
            ELSE IF es[k] # Null THEN Append(kept[k - 1], es[k]) ELSE kept[k - 1]
    IN  kept[Len(es)]

(* message_clone, which the router takes for a DUP branch; the model goes  *)
(* on with the copy.                                                       *)
CanClone(n, b) ==
    n \in knowsRec /\ IF b.crypt THEN b.hasBlob
                      ELSE Len(b.precord) = b.num /\ \A i \in 1 .. b.num : b.precord[i] # Null

Clone(n) ==
    /\ Op(n) /\ CanClone(n, cur[n][1])
    /\ LET b   == cur[n][1]
           es  == Decoded(b.pexpand)
           new == [NewBox(b.id, [recs |-> b.real.recs,
                                 exps |-> IF n \in knowsExp THEN b.real.exps ELSE <<>>])
                     EXCEPT !.expand = Nulls(Len(es)), !.pexpand = es,
                            !.crypt = b.crypt, !.part = b.part]
       IN  Put(n, IF b.crypt
                  THEN [new EXCEPT !.num = b.num, !.size = b.size, !.hasBlob = TRUE,
                                   !.blob = SubSeq(b.blob, 1, b.size)]
                  ELSE WithRecords(new, b.precord))

(* A new message with this one as its active message: the router gives it  *)
(* the expands (router_dup_activemsg_info).  Modules answer messages they  *)
(* can read.                                                               *)
Reply(n) ==
    /\ Op(n) /\ n \in knowsRec /\ ~cur[n][1].crypt /\ HasRoom(cur[n][1])
    /\ LET b  == cur[n][1]
           rs == <<Rec(<<b.id, "reply", ops + 1>>)>>
       IN  Put(n, [WithRecords(NewBox(b.id, [recs |-> rs, exps |-> b.real.exps]), rs)
                     EXCEPT !.expand = [i \in DOMAIN b.expand |->
                                           IF GetExpand(b, i) # Null THEN Null ELSE b.expand[i]],
                            !.pexpand = [i \in DOMAIN b.expand |-> GetExpand(b, i)],
                            !.part = b.part])

-----------------------------------------------------------------------------
(* The connection to the next instance. *)

(* Mutant: the message stays in the queue. *)
Send_Keeps(n) ==
    /\ Holds(n)
    /\ wire' = IF n < Final /\ CanOutput(n, cur[n][1])
               THEN [wire EXCEPT ![n + 1] = @ \o Output(cur[n][1])]
               ELSE wire
    /\ UNCHANGED <<knowsRec, knowsExp, cur, loading, crashed, made, ops, cuts, handed, torn>>

(* message_send; what cannot be put into a blob is not sent.  The last     *)
(* instance keeps the message.                                             *)
Send(n) ==
    /\ Holds(n)
    /\ wire' = IF n < Final /\ CanOutput(n, cur[n][1])
               THEN [wire EXCEPT ![n + 1] = @ \o Output(cur[n][1])]
               ELSE wire
    /\ cur' = [cur EXCEPT ![n] = <<>>]
    /\ UNCHANGED <<knowsRec, knowsExp, loading, crashed, made, ops, cuts, handed, torn>>

(* Mutant: ">" *)
Whole_Strict(h, got) == Len(got) > h.size + h.exps

(* The test of message_read_data; an empty body does not get there. *)
Whole(h, got) == Len(got) >= h.size + h.exps

(* message_read_data and the loads of message_read_from_conn, once got, of *)
(* the units of h's body, have been read.  A body read in part leaves the  *)
(* arrays unallocated: message_load_expand runs into a null pointer.       *)
HandOn(n, h, got) ==
    LET total == h.size + h.exps
        whole == Whole(h, got)
        raw   == [NewBox(h.id, h.real) EXCEPT
                    !.num = h.num, !.size = h.size, !.crypt = h.crypt, !.hasBlob = TRUE,
                    !.blob = got \o [i \in 1 .. total - Len(got) |-> Junk],
                    !.record = IF whole THEN Nulls(h.num) ELSE <<>>,
                    !.precord = IF whole THEN Nulls(h.num) ELSE <<>>,
                    !.expand = IF whole THEN SubSeq(got, h.size + 1, total) ELSE <<>>,
                    !.part = h.part \/ Len(got) < total]
        box   == LoadExpand(n, IF h.crypt THEN raw ELSE LoadRecord(n, raw))
    IN  /\ loading' = [loading EXCEPT ![n] = <<>>]
        /\ torn' = IF Len(got) < total THEN torn \cup {n} ELSE torn
        /\ IF ~whole /\ h.exps > 0
           THEN crashed' = crashed \cup {n} /\ UNCHANGED <<cur, handed>>
           ELSE /\ Put(n, box)
                /\ handed' = [handed EXCEPT ![n] = Append(@, h.id)]
                /\ UNCHANGED crashed

Idle(n) == cur[n] = <<>> /\ n \notin crashed

(* The head is read: m units have arrived by now.  Fewer than a head, or   *)
(* units without the tag at their front, are thrown away.                  *)
ReadHead(n, m) ==
    /\ Idle(n) /\ loading[n] = <<>> /\ m <= Len(wire[n])
    /\ LET us == SubSeq(wire[n], 1, m)
           ok == m = HeadLen /\ \A k \in 1 .. m : us[k].kind = "head" /\ us[k].site = k
       IN  IF ok /\ us[1].head.size + us[1].head.exps = 0
           THEN HandOn(n, us[1].head, <<>>)
           ELSE /\ loading' = [loading EXCEPT ![n] = IF ok THEN <<us[1].head>> ELSE <<>>]
                /\ UNCHANGED <<cur, crashed, handed, torn>>
    /\ wire' = [wire EXCEPT ![n] = SubSeq(@, m + 1, Len(@))]
    /\ UNCHANGED <<knowsRec, knowsExp, made, ops, cuts>>

(* The body is asked for in one read. *)
ReadBody(n, m) ==
    /\ Idle(n) /\ loading[n] # <<>>
    /\ m <= Len(wire[n]) /\ m <= loading[n][1].size + loading[n][1].exps
    /\ HandOn(n, loading[n][1], SubSeq(wire[n], 1, m))
    /\ wire' = [wire EXCEPT ![n] = SubSeq(@, m + 1, Len(@))]
    /\ UNCHANGED <<knowsRec, knowsExp, made, ops, cuts>>

(* The connection breaks: what it carried is lost, a read for a body       *)
(* returns 0, and the next connection starts with a head.                  *)
Cut(n) ==
    /\ n \notin crashed /\ cuts < MaxCuts
    /\ cuts' = cuts + 1
    /\ wire' = [wire EXCEPT ![n] = <<>>]
    /\ IF loading[n] # <<>> THEN HandOn(n, loading[n][1], <<>>)
       ELSE UNCHANGED <<cur, loading, crashed, handed, torn>>
    /\ UNCHANGED <<knowsRec, knowsExp, made, ops>>

-----------------------------------------------------------------------------
Init ==
    /\ knowsRec \in {s \in SUBSET Inst : 1 \in s} /\ knowsExp \in SUBSET Inst
    /\ cur = [n \in Inst |-> <<>>] /\ loading = [n \in Inst |-> <<>>]
    /\ wire = [n \in Inst |-> <<>>] /\ crashed = {}
    /\ made = 0 /\ ops = 0 /\ cuts = 0
    /\ handed = [n \in Inst |-> <<>>] /\ torn = {}

Module(n) ==
    AddExpand(n) \/ RemoveExpand(n) \/ Encrypt(n) \/ Decrypt(n) \/ Clone(n) \/ Reply(n)

Next ==
    \/ \E k \in RecCounts : Create(k)
    \/ \E n \in Inst : Module(n) \/ Send(n)
    \/ \E n \in Inst \ {1} : Cut(n)
    \/ \E n \in Inst \ {1} : \E m \in 1 .. HeadLen : ReadHead(n, m)
    \/ \E n \in Inst \ {1} : \E m \in 1 .. BufLen : ReadBody(n, m)

Spec == Init /\ [][Next]_vars

-----------------------------------------------------------------------------
(* Properties. *)

(* Shape of the state: the two arrays of expands go together, and those of *)
(* the records when they are allocated.                                    *)
TypeOK ==
    /\ knowsRec \subseteq Inst /\ knowsExp \subseteq Inst /\ crashed \subseteq Inst
    /\ \A n \in Inst :
         /\ Len(cur[n]) <= 1 /\ Len(loading[n]) <= 1
         /\ \A b \in ToSet(cur[n]) :
              /\ Len(b.expand) = Len(b.pexpand) /\ Len(b.record) = Len(b.precord)
              /\ b.record # <<>> => Len(b.record) = b.num
              /\ b.hasBlob => b.size <= Len(b.blob)

(* What the message would send, and what an instance that can decode it    *)
(* reads in it, is what its creator and the modules on its way put there:  *)
(* through instances that do not know its types, encryption, decryption    *)
(* and copying, and after a torn message on the same connection, as long   *)
(* as its own body was read in whole.                                      *)
ContentIntact ==
    \A n \in Inst : \A b \in ToSet(cur[n]) : ~b.part =>
        /\ CanOutput(n, b)
        /\ OutputRecords(b) = IF b.crypt THEN [i \in DOMAIN b.real.recs |-> Cipher(b.real.recs[i])]
                              ELSE b.real.recs
        /\ OutputExpands(b) = b.real.exps

(* An instance that knows the record type can always decode a message that *)
(* is not encrypted, so that its modules, message_clone and the match      *)
(* rules of the router find the records.                                   *)
DecodedWhereKnown ==
    \A n \in knowsRec : \A b \in ToSet(cur[n]) :
        ~b.part /\ ~b.crypt => b.precord = b.real.recs

(* An instance is handed the messages in the order they were created in,   *)
(* and none twice, whatever the stream was torn into.                      *)
HandedInOrder ==
    \A n \in Inst : \A i, j \in DOMAIN handed[n] : i < j => handed[n][i] < handed[n][j]

(* Reading a message kills an instance only if a body was read in part.    *)
CrashOnlyWhenTorn == crashed \subseteq torn

(* "all the message's data are read", says message_read_from_conn of a     *)
(* message it hands on.                                                    *)
AllDataRead == \A n \in Inst : \A b \in ToSet(cur[n]) : ~b.part

(* What a message carries is what was put into it, in every form it is     *)
(* kept in, and it can be decoded wherever its type is known.              *)
MessagesIntact ==
    /\ TypeOK /\ ContentIntact /\ DecodedWhereKnown
=============================================================================
