----------------------------- MODULE FileDealer -----------------------------
(***************************************************************************)
(* The file transfer plugin: file_dealer.c at both ends and the bitmap of  *)
(* memfunc.c.  The sender cuts a requested file into FILE_DATA messages    *)
(* under the digest of the file; the receiver writes each block at its     *)
(* place, marks it in a FILE_STORE record of the in-memory record database *)
(* and, when all marks are set, compares the digest and sends a notice.    *)
(*                                                                         *)
(* A file is a sequence of data units and is its own digest.  FILE_DATA    *)
(* messages are lost (a full ring, a closed channel) or overtake each      *)
(* other (datagrams); a repeated request repeats them.                     *)
(***************************************************************************)
EXTENDS Naturals, Sequences, FiniteSets

CONSTANTS FdNames,        \* file names, the same at both ends
          FdContents,     \* what a file may contain
          FdBlock,        \* block_size
          FdMaxAir,       \* bound: messages under way
          FdMaxEdits,     \* bound: changes of a source file
          FdMaxLost       \* bound: lost messages and restarts of the receiver

(* Hole is no unit of a file's content.                                    *)
ASSUME FdAssumption == FdBlock \in Nat \ {0} /\ FdContents \subseteq Seq(Nat \ {0})

VARIABLES src,     \* the sender's files
          snd,     \* proc_file_send: its request, the file, the next block
          air,     \* FILE_DATA messages under way
          disk,    \* the receiver's files
          store,   \* FILE_STORE records, by digest
          notices, \* FILE_NOTICE messages sent
          faults   \* edits, lost messages and restarts so far

fdvars == <<src, snd, air, disk, store, notices, faults>>

Hole == 0
NoFile == <<Hole>>
NoStore == [num |-> 0, size |-> 0, marks |-> {}, name |-> "", clean |-> FALSE, got |-> <<>>]
SndIdle == [at |-> "idle", todo |-> <<>>, size |-> 0, digest |-> <<>>, i |-> 0]

(* The units of s from offset on, at most n: lseek and read                *)
ReadAt(s, offset, n) ==
    SubSeq(s, offset + 1, IF offset + n < Len(s) THEN offset + n ELSE Len(s))

(* lseek and write: a hole in front, the units behind stay                 *)
WriteAt_Trunc(s, offset, data) ==
    [p \in 1..(offset + Len(data)) |-> IF p > offset THEN data[p - offset] ELSE Hole]

WriteAt(s, offset, data) ==
    LET len == IF offset + Len(data) > Len(s) THEN offset + Len(data) ELSE Len(s)
    IN [p \in 1..len |-> IF p \in (offset + 1)..(offset + Len(data)) THEN data[p - offset]
                         ELSE IF p <= Len(s) THEN s[p] ELSE Hole]

-----------------------------------------------------------------------------
(* bitmap_set and bitmap_is_allset: whole bytes of ones, and a last byte   *)
(* of exactly the bits that are left                                       *)
BitmapSet_Next(marks, site) == marks \cup {site + 1}

BitmapSet(marks, site) == marks \cup {site}

BitmapIsAllset(marks, size) ==
    LET full == (size \div 8) * 8
    IN /\ 0..(full - 1) \subseteq marks
       /\ size % 8 # 0 => {m \in marks : m \div 8 = size \div 8} = full..(size - 1)

(* _is_samefile_exists                                                     *)
Samefile(d, name, digest) ==
    IF d[name] = NoFile THEN "none" ELSE IF d[name] = digest THEN "same" ELSE "other"

(* get_filedata_from_message                                               *)
GetFiledata(d, m) ==
    [d EXCEPT ![m.name] = WriteAt(IF @ = NoFile THEN <<>> ELSE @, m.offset, m.data)]

Removed(d, name) == [d EXCEPT ![name] = NoFile]

(* The notice: result 1 when the file on the disk has the digest           *)
Notice_Blind(d, m) == [name |-> m.name, digest |-> m.digest, result |-> 1]

Notice(d, m) ==
    [name |-> m.name, digest |-> m.digest,
     result |-> IF Samefile(d, m.name, m.digest) = "same" THEN 1 ELSE 0]

-----------------------------------------------------------------------------
(* proc_file_send: fstat of the next record's file, then digest and second *)
(* open, then one block after the other; what fails drops the rest of the  *)
(* request.                                                                *)
Request(r) ==
    /\ snd.at = "idle"
    /\ snd' = [SndIdle EXCEPT !.at = "stat", !.todo = r]
    /\ UNCHANGED <<src, air, disk, store, notices, faults>>

SendStat ==
    /\ snd.at = "stat"
    /\ snd' = IF snd.todo = <<>> \/ src[Head(snd.todo)] = NoFile THEN SndIdle
              ELSE [snd EXCEPT !.at = "digest", !.size = Len(src[Head(snd.todo)])]
    /\ UNCHANGED <<src, air, disk, store, notices, faults>>

SendDigest ==
    /\ snd.at = "digest"
    /\ snd' = IF src[Head(snd.todo)] = NoFile THEN SndIdle
              ELSE [snd EXCEPT !.at = "block", !.digest = src[Head(snd.todo)], !.i = 0]
    /\ UNCHANGED <<src, air, disk, store, notices, faults>>

(* A round of the loop over full blocks, or the block behind it            *)
SendBlock ==
    /\ snd.at = "block"
    /\ LET name == Head(snd.todo)
           offset == snd.i * FdBlock
           size == IF snd.i < snd.size \div FdBlock THEN FdBlock ELSE snd.size % FdBlock
           data == ReadAt(src[name], offset, size)
       IN \/ /\ size = 0
             /\ snd' = [SndIdle EXCEPT !.at = "stat", !.todo = Tail(snd.todo)]
             /\ UNCHANGED air
          \/ /\ size > 0 /\ Len(data) < size
             /\ snd' = SndIdle
             /\ UNCHANGED air
          \/ /\ size > 0 /\ Len(data) = size
             /\ Cardinality(air) < FdMaxAir
             /\ air' = air \cup {[name |-> name, digest |-> snd.digest, total |-> snd.size,
                                  offset |-> offset, data |-> data]}
             /\ snd' = IF size < FdBlock THEN [SndIdle EXCEPT !.at = "stat", !.todo = Tail(snd.todo)]
                       ELSE [snd EXCEPT !.i = @ + 1]
    /\ UNCHANGED <<src, disk, store, notices, faults>>

-----------------------------------------------------------------------------
(* Another version of a file - another digest, or a size that was read     *)
(* before the digest - is written: what a record says of that name is no   *)
(* longer what is on the disk.                                             *)
Spoilt(st, m) ==
    [d \in DOMAIN st |-> IF st[d].name = m.name /\ ~(d = m.digest /\ st[d].size = m.total)
                         THEN [st[d] EXCEPT !.clean = FALSE] ELSE st[d]]

(* A file in one block                                                     *)
ReceiveSingle(m) ==
    \E same \in {Samefile(disk, m.name, m.digest)} :
        \/ /\ same = "same"
           /\ notices' = notices \cup {[name |-> m.name, digest |-> m.digest, result |-> 0]}
           /\ UNCHANGED <<disk, store>>
        \/ /\ same # "same"
           /\ \E d \in {GetFiledata(IF same = "other" THEN Removed(disk, m.name) ELSE disk, m)} :
                  /\ disk' = d
                  /\ notices' = notices \cup {Notice(d, m)}
           /\ store' = Spoilt(store, m)

NewStore(m) ==
    [num |-> (m.total + FdBlock - 1) \div FdBlock, size |-> m.total, marks |-> {},
     name |-> m.name, clean |-> TRUE, got |-> <<>>]

(* A block of a larger file: the record of its digest, or a new one and    *)
(* the old file removed; the mark, the data, the notice                    *)
Marked(d, r, m) ==
    \E marks \in {BitmapSet(r.marks, m.offset \div FdBlock)},
       d2 \in {GetFiledata(d, m)} :
        /\ disk' = d2
        /\ store' = [Spoilt(store, m) EXCEPT ![m.digest] =
                        [r EXCEPT !.marks = marks, !.clean = @ /\ r.name = m.name /\ r.size = m.total,
                                  !.got = [o \in DOMAIN @ \cup {m.offset} |->
                                           IF o = m.offset THEN m.data ELSE r.got[o]]]]
        /\ notices' = IF BitmapIsAllset(marks, r.num) THEN notices \cup {Notice(d2, m)}
                      ELSE notices

ReceiveBlock_Keep(m) ==
    IF store[m.digest].num # 0 THEN Marked(disk, store[m.digest], m)
    ELSE Marked(disk, NewStore(m), m)

ReceiveBlock_Forget(m) ==
    IF Samefile(disk, m.name, m.digest) = "same" THEN UNCHANGED <<disk, store, notices>>
    ELSE Marked(Removed(disk, m.name), NewStore(m), m)

ReceiveBlock(m) ==
    \/ /\ store[m.digest].num # 0
       /\ Marked(disk, store[m.digest], m)
    \/ /\ store[m.digest].num = 0
       /\ Samefile(disk, m.name, m.digest) = "same"
       /\ UNCHANGED <<disk, store, notices>>
    \/ /\ store[m.digest].num = 0
       /\ Samefile(disk, m.name, m.digest) # "same"
       /\ Marked(Removed(disk, m.name), NewStore(m), m)

(* proc_file_receive                                                       *)
Receive(m) ==
    /\ m \in air
    /\ air' = air \ {m}
    /\ IF m.total = Len(m.data) THEN ReceiveSingle(m) ELSE ReceiveBlock(m)
    /\ UNCHANGED <<src, snd, faults>>

-----------------------------------------------------------------------------
(* A file is changed in place, created or removed; of one that is open the *)
(* sender would go on reading the old content, as if it were not removed.  *)
EditSource(name, c) ==
    /\ faults.edits < FdMaxEdits
    /\ c = NoFile => ~(snd.at = "block" /\ Head(snd.todo) = name)
    /\ src' = [src EXCEPT ![name] = c]
    /\ faults' = [faults EXCEPT !.edits = @ + 1]
    /\ UNCHANGED <<snd, air, disk, store, notices>>

Lose(m) ==
    /\ faults.lost + faults.restarts < FdMaxLost
    /\ air' = air \ {m}
    /\ faults' = [faults EXCEPT !.lost = @ + 1]
    /\ UNCHANGED <<src, snd, disk, store, notices>>

(* The record database is in memory only                                   *)
RestartReceiver ==
    /\ faults.lost + faults.restarts < FdMaxLost
    /\ store' = [d \in DOMAIN store |-> NoStore]
    /\ faults' = [faults EXCEPT !.restarts = @ + 1]
    /\ UNCHANGED <<src, snd, air, disk, notices>>

-----------------------------------------------------------------------------
FdInit ==
    /\ src \in [FdNames -> FdContents \cup {NoFile}]
    /\ disk \in [FdNames -> FdContents \cup {NoFile}]
    /\ snd = SndIdle
    /\ air = {}
    /\ store = [d \in FdContents |-> NoStore]
    /\ notices = {}
    /\ faults = [edits |-> 0, lost |-> 0, restarts |-> 0]

FdRequests == {<<n>> : n \in FdNames} \cup {r \in FdNames \X FdNames : r[1] # r[2]}

FdNext ==
    \/ \E r \in FdRequests : Request(r)
    \/ SendStat
    \/ SendDigest
    \/ SendBlock
    \/ \E m \in air : Receive(m) \/ Lose(m)
    \/ \E n \in FdNames, c \in FdContents \cup {NoFile} : EditSource(n, c)
    \/ RestartReceiver

(* The plugin's loop takes every message that arrives; whoever wants a     *)
(* file asks again.                                                        *)
ReceiveAt(n, offset) == \E m \in air : m.name = n /\ m.offset = offset /\ Receive(m)

FdFair ==
    /\ WF_fdvars(SendStat) /\ WF_fdvars(SendDigest) /\ WF_fdvars(SendBlock)
    /\ \A n \in FdNames : SF_fdvars(Request(<<n>>))
    /\ \A n \in FdNames, b \in 0..2 :
           WF_fdvars(ReceiveAt(n, b * FdBlock))

FdSpec == FdInit /\ [][FdNext]_fdvars /\ FdFair

-----------------------------------------------------------------------------
(* Type invariant.                                                         *)
FdTypeOK ==
    /\ snd.at \in {"idle", "stat", "digest", "block"}
    /\ \A m \in air : m.offset + Len(m.data) <= m.total /\ Len(m.data) > 0
    /\ \A d \in FdContents : \A o \in DOMAIN store[d].got : o \div FdBlock \in store[d].marks
    /\ \A x \in notices : x.name \in FdNames /\ x.digest \in FdContents /\ x.result \in {0, 1}

(* file_dealer.c:286-307: a notice with result 1 leaves the receiver only  *)
(* in the step after which the file on its disk is, unit for unit, the     *)
(* file the digest belongs to - whatever was lost, repeated, out of order  *)
(* or changed at the sender while the blocks were read.                    *)
FdNoticeTrue ==
    [][\A x \in notices' \ notices : x.result = 1 => disk'[x.name] = x.digest]_fdvars

(* file_dealer.c:273-286: as long as no other version was written under    *)
(* the name, the marks of a record tell which blocks are on the disk: each *)
(* marked block is there as it last arrived.                               *)
FdMarksTrue ==
    \A d \in FdContents : store[d].clean =>
        \A b \in store[d].marks :
            /\ disk[store[d].name] # NoFile
            /\ ReadAt(disk[store[d].name], b * FdBlock, Len(store[d].got[b * FdBlock]))
                   = store[d].got[b * FdBlock]

(* file_dealer.c:288-313: a file all of whose blocks arrived unchanged, in *)
(* any order and over any number of requests, is complete and has its      *)
(* notice of success.                                                      *)
FdCompleteNoticed ==
    \A d \in FdContents :
        /\ store[d].clean
        /\ {b * FdBlock : b \in 0..(store[d].num - 1)} \subseteq DOMAIN store[d].got
        /\ \A o \in DOMAIN store[d].got :
               store[d].got[o] = ReadAt(d, o, FdBlock)
        /\ store[d].size = Len(d)
        => /\ disk[store[d].name] = d
           /\ [name |-> store[d].name, digest |-> d, result |-> 1] \in notices

(* A file that is asked for again and again arrives in the end although    *)
(* blocks are lost and the receiver restarts, as long as the source is not *)
(* changed and no file of the same content has another name (the record of *)
(* the digest serves both, and the second file is not removed first).      *)
FdArrives ==
    \A n \in FdNames :
        (src[n] \notin {NoFile, <<>>} /\ \A o \in FdNames \ {n} : src[o] # src[n])
            ~> (disk[n] = src[n] \/ faults.edits > 0)

(* The record of a file that comes in blocks tells what is on the disk,    *)
(* and leads to a notice when it is complete.                              *)
FdRecordsTrue ==
    /\ FdTypeOK /\ FdMarksTrue /\ FdCompleteNoticed
=============================================================================
