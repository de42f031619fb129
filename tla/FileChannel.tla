---------------------------- MODULE FileChannel ----------------------------
(***************************************************************************)
(* The file channel plugin, file_channel.c: a client and a server module   *)
(* with a TCP connection of their own.  The client sends a requested file  *)
(* in packages, one in a round of its loop; the server takes one package   *)
(* out of its buffer Blob in a round in which select finds bytes to read.  *)
(* A package has no length of its own in front and TCP keeps no limits     *)
(* between packages.                                                       *)
(*                                                                         *)
(* A package is its head and FcPack - 1 further pieces (the last one of a  *)
(* file may be the head alone); a piece names file, package and place.     *)
(***************************************************************************)
EXTENDS Naturals, Sequences, FiniteSets

CONSTANTS FcFiles,   \* packages of each file that is sent, the last one short or not
          FcPack,    \* pieces of a full package
          FcFirst,   \* what the first read of a file takes: 1024
          FcBlob,    \* the size of Blob: 2048
          FcMaxCuts  \* bound: source files that shrink while they are sent

(* A package is put together in the sender's Blob.                         *)
ASSUME FcAssumption ==
    /\ FcFiles \in Seq([packs : Nat \ {0}, short : BOOLEAN])
    /\ FcPack \in Nat \ {0, 1}
    /\ FcFirst \in Nat \ {0}
    /\ FcBlob \in Nat \ {0}
    /\ FcPack <= FcBlob

VARIABLES tx,    \* the client: its state, the file, file_count
          wire,  \* pieces written and not read
          rx     \* the server: its state, Blob, left_size, what it wrote

fcvars == <<tx, wire, rx>>

Files == 1..Len(FcFiles)
NoPiece == [file |-> 0, no |-> 0, part |-> 0]

(* Pieces of package k of file f                                           *)
PackSize(f, k) == IF k = FcFiles[f].packs /\ FcFiles[f].short THEN 1 ELSE FcPack
Package(f, k) == [p \in 1..PackSize(f, k) |-> [file |-> f, no |-> k, part |-> p]]

FcMost == CHOOSE n \in {FcFiles[f].packs : f \in Files} : \A f \in Files : FcFiles[f].packs <= n

Least(a, b) == IF a < b THEN a ELSE b

-----------------------------------------------------------------------------
(* file_channel_start of a client: connect, then wait for a request        *)
ClientConnect ==
    /\ tx.state = "new"
    /\ tx' = [tx EXCEPT !.state = "wait"]
    /\ UNCHANGED <<wire, rx>>

(* proc_file_send: the next package; back to waiting behind the last one   *)
SendPackage(t) ==
    /\ wire' = wire \o Package(t.file, t.count + 1)
    /\ tx' = [t EXCEPT !.count = @ + 1,
                       !.state = IF t.count + 1 < FcFiles[t.file].packs THEN "send" ELSE "wait"]

(* proc_file_send_start, and the first package in the same round; a file   *)
(* that cannot be opened leaves the client waiting.                        *)
ClientRequest ==
    /\ tx.state = "wait" /\ tx.file < Len(FcFiles)
    /\ SendPackage([tx EXCEPT !.file = @ + 1, !.count = 0])
    /\ UNCHANGED rx

(* In a file that has become shorter read fails, and the next round tries  *)
(* the same again.                                                         *)
ClientSend ==
    /\ tx.state = "send" /\ ~tx.shrunk
    /\ SendPackage(tx)
    /\ UNCHANGED rx

(* The file is cut short by somebody else while it is sent                 *)
Shrink ==
    /\ tx.state = "send" /\ tx.cuts < FcMaxCuts
    /\ tx' = [tx EXCEPT !.shrunk = TRUE, !.cuts = @ + 1]
    /\ UNCHANGED <<wire, rx>>

-----------------------------------------------------------------------------
(* read: what has arrived, up to a limit; TCP hands over any part of it    *)
Arrived(limit) == 1..Least(limit, Len(wire))

Filled(blob, at, n) ==
    [i \in DOMAIN blob |-> IF i \in (at + 1)..(at + n) THEN wire[i - at] ELSE blob[i]]

(* blob_2_struct: the head tells the sizes, the data is whatever follows.  *)
HeadFound(blob) == blob[1].part = 1
BlobSize(blob) == PackSize(blob[1].file, blob[1].no)
DataWhole(blob) ==
    \A p \in 1..BlobSize(blob) : blob[p] = [blob[1] EXCEPT !.part = p]

(* Package no of file written at its offset, with its own data or not      *)
Wrote(r) ==
    [r EXCEPT !.out = Append(@, [file |-> r.blob[1].file, no |-> r.blob[1].no,
                                 ok |-> DataWhole(r.blob)])]

IsLast_Early(blob) == blob[1].no + 1 >= FcFiles[blob[1].file].packs

IsLast(blob) == blob[1].no = FcFiles[blob[1].file].packs

(* Memcpy of the bytes behind the package to the front                     *)
MovedUp(blob, size, left) ==
    [i \in DOMAIN blob |-> IF i <= left /\ i + size \in DOMAIN blob THEN blob[i + size]
                           ELSE blob[i]]

(* The connection is accepted; the same round waits for the first bytes    *)
ServerAccept ==
    /\ rx.state = "new" /\ tx.state # "new"
    /\ rx' = [rx EXCEPT !.state = "wait"]
    /\ UNCHANGED <<tx, wire>>

(* proc_file_receive_start: the bytes behind the first package are dropped *)
(* and left_size of the last file stays.  A buffer that does not begin     *)
(* with a head is taken for a package of arbitrary sizes.                  *)
ServerStart(n) ==
    \E r \in {[rx EXCEPT !.blob = Filled(rx.blob, 0, n), !.cut = @ \/ rx.left > 0]} :
        \/ /\ ~HeadFound(r.blob)
           /\ rx' = [r EXCEPT !.state = "garbled"]
        \/ /\ HeadFound(r.blob)
           /\ rx' = Wrote([r EXCEPT !.state = IF IsLast(r.blob) THEN "wait" ELSE "receive",
                                    !.cut = @ \/ n # BlobSize(r.blob)])

(* proc_file_receive: one package; a left_size below zero is found to be   *)
(* too large, and kept                                                     *)
ServerReceive_Drop(n) ==
    \E r \in {[rx EXCEPT !.blob = Filled(rx.blob, rx.left, n)]} :
        rx' = Wrote([r EXCEPT !.left = 0, !.state = IF IsLast(r.blob) THEN "wait" ELSE "receive"])

ServerReceive(n) ==
    \E r \in {[rx EXCEPT !.blob = Filled(rx.blob, rx.left, n)]} :
        \/ /\ ~HeadFound(r.blob)
           /\ rx' = [r EXCEPT !.state = "garbled"]
        \/ /\ HeadFound(r.blob) /\ BlobSize(r.blob) > r.left + n
           /\ rx' = [r EXCEPT !.state = "garbled", !.cut = TRUE]
        \/ /\ HeadFound(r.blob) /\ BlobSize(r.blob) <= r.left + n
           /\ \E left \in {r.left + n - BlobSize(r.blob)} :
                 rx' = [Wrote(r) EXCEPT
                          !.left = left,
                          !.blob = MovedUp(@, BlobSize(r.blob), left),
                          !.state = IF IsLast(r.blob) THEN "wait" ELSE "receive"]

(* A round of the server's loop: select, one read, one package             *)
ServerRead_Over ==
    /\ wire # <<>>
    /\ rx.state \in {"wait", "receive"}
    /\ \E n \in Arrived(IF rx.state = "wait" THEN FcFirst ELSE FcBlob) :
           /\ IF rx.state = "wait" THEN ServerStart(n) ELSE ServerReceive(n)
           /\ wire' = SubSeq(wire, n + 1, Len(wire))
    /\ UNCHANGED tx

ServerRead_Whole ==
    /\ Len(wire) >= FcPack
    /\ rx.state \in {"wait", "receive"} /\ rx.left = 0
    /\ IF rx.state = "wait" THEN ServerStart(FcPack) ELSE ServerReceive(FcPack)
    /\ wire' = SubSeq(wire, FcPack + 1, Len(wire))
    /\ UNCHANGED tx

ServerRead ==
    /\ wire # <<>>
    /\ \/ /\ rx.state = "wait"
          /\ \E n \in Arrived(FcFirst) :
                 ServerStart(n) /\ wire' = SubSeq(wire, n + 1, Len(wire))
       \/ /\ rx.state = "receive" /\ rx.left < FcBlob
          /\ \E n \in Arrived(FcBlob - rx.left) :
                 ServerReceive(n) /\ wire' = SubSeq(wire, n + 1, Len(wire))
    /\ UNCHANGED tx

-----------------------------------------------------------------------------
FcInit ==
    /\ tx = [state |-> "new", file |-> 0, count |-> 0, shrunk |-> FALSE, cuts |-> 0]
    /\ wire = <<>>
    /\ rx = [state |-> "new", blob |-> [i \in 1..FcBlob |-> NoPiece], left |-> 0,
             out |-> <<>>, cut |-> FALSE]

FcNext == ClientConnect \/ ClientRequest \/ ClientSend \/ Shrink \/ ServerAccept \/ ServerRead

(* Both loops go on for ever.                                              *)
FcFair ==
    /\ WF_fcvars(ClientConnect) /\ WF_fcvars(ClientSend)
    /\ WF_fcvars(ServerAccept) /\ WF_fcvars(ServerRead)

FcSpec == FcInit /\ [][FcNext]_fcvars /\ FcFair

-----------------------------------------------------------------------------
(* Type invariant.                                                         *)
FcTypeOK ==
    /\ tx.state \in {"new", "wait", "send"}
    /\ tx.file \in 0..Len(FcFiles)
    /\ rx.state \in {"new", "wait", "receive", "garbled"}
    /\ rx.left \in 0..FcBlob

(* The pieces in front of those on the wire that are kept in Blob          *)
Held == SubSeq(rx.blob, 1, rx.left) \o wire

(* file_channel.c:443-511: nothing is lost, repeated or mixed up on the    *)
(* way - the packages written to files, those kept in Blob and those on    *)
(* the wire are all that was sent, in order - unless a first read ended    *)
(* inside or behind the first package of a file, a later one inside a      *)
(* package with nothing whole in front of it, or a file began while bytes  *)
(* of the last read were kept.                                             *)
FcNothingLost ==
    ~rx.cut =>
        /\ rx.state # "garbled"
        /\ \A i \in DOMAIN rx.out : rx.out[i].ok
        /\ \E done \in {Len(rx.out)} :
              \A i \in 1..done : i > 1 =>
                  \/ rx.out[i].file = rx.out[i - 1].file /\ rx.out[i].no = rx.out[i - 1].no + 1
                  \/ rx.out[i].file = rx.out[i - 1].file + 1 /\ rx.out[i].no = 1
        /\ Held # <<>> /\ rx.out # <<>> =>
              /\ Held[1].part = 1
              /\ \E l \in {rx.out[Len(rx.out)]} :
                    \/ Held[1].file = l.file /\ Held[1].no = l.no + 1
                    \/ Held[1].file = l.file + 1 /\ Held[1].no = 1

(* The state of the receiver follows the file: it waits for a new one      *)
(* exactly when the last package it wrote ended a file.                    *)
FcFollowsFile ==
    ~rx.cut /\ rx.out # <<>> =>
        (rx.state = "wait" <=> rx.out[Len(rx.out)].no = FcFiles[rx.out[Len(rx.out)].file].packs)

(* file_channel.c:217-323: when the last file is sent to its end, every    *)
(* package is written in the end, or rests in Blob until more bytes        *)
(* arrive, unless a read was cut as above.                                 *)
FcArrives ==
    (tx.file = Len(FcFiles) /\ tx.count = FcFiles[Len(FcFiles)].packs)
        ~> (\/ Len(rx.out) = Cardinality({fk \in Files \X (1..FcMost) : fk[2] <= FcFiles[fk[1]].packs})
            \/ rx.left > 0 \/ rx.cut)

(* A file that the channel carries is what was sent, in order, and the     *)
(* receiver knows where it ends, as long as no read was cut.               *)
FcFileIntact ==
    /\ FcTypeOK /\ FcNothingLost /\ FcFollowsFile
=============================================================================
