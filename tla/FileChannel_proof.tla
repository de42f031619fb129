------------------------- MODULE FileChannel_proof -------------------------
(***************************************************************************)
(* Proofs about two plugins for files.                                     *)
(*                                                                         *)
(* FileChannel.  For any files, sizes of packages and of reads, what the   *)
(* channel carries is intact until a read is cut: what Blob and the wire   *)
(* hold is then the run of pieces from the one behind the last package     *)
(* written to the last one sent, with no piece missing.                    *)
(*                                                                         *)
(* HttpAgent.  For any records and requests, the children that the agent   *)
(* of the HTTP file server forks do no more than its queue accounts for.   *)
(***************************************************************************)
EXTENDS FileChannel, HttpAgent, TLAPS, FiniteSetTheorems, WellFoundedInduction, SequenceTheorems

Piece == [file : Files, no : Nat, part : Nat]
Entry == [file : Files, no : Nat, ok : BOOLEAN]

(* The piece behind x in the order of sending.                             *)
Succ(x) ==
    IF x.part < PackSize(x.file, x.no) THEN [x EXCEPT !.part = @ + 1]
    ELSE IF x.no < FcFiles[x.file].packs
         THEN [file |-> x.file, no |-> x.no + 1, part |-> 1]
         ELSE [file |-> x.file + 1, no |-> 1, part |-> 1]

First == [file |-> 1, no |-> 1, part |-> 1]
Behind(f, k) == Succ([file |-> f, no |-> k, part |-> PackSize(f, k)])

(* The first piece that is not written to a file yet, and not sent yet.    *)
ToWrite == IF rx.out = <<>> THEN First
           ELSE Behind(rx.out[Len(rx.out)].file, rx.out[Len(rx.out)].no)
ToSend == IF tx.file = 0 THEN First ELSE Behind(tx.file, tx.count)

(* The pieces from a up to, and without, b.                                *)
Unbroken(s, a, b) ==
    IF s = <<>> THEN a = b
    ELSE /\ s[1] = a /\ Succ(s[Len(s)]) = b
         /\ \A i \in 1 .. Len(s) - 1 : s[i + 1] = Succ(s[i])

Typed ==
    /\ tx \in [state : {"new", "wait", "send"}, file : 0 .. Len(FcFiles), count : Nat,
               shrunk : BOOLEAN, cuts : Nat]
    /\ wire \in Seq(Piece)
    /\ rx \in [state : {"new", "wait", "receive", "garbled"},
               blob : [1 .. FcBlob -> Piece \cup {NoPiece}], left : 0 .. FcBlob,
               out : Seq(Entry), cut : BOOLEAN]

(* The client is between two files, or inside one.                         *)
Sending ==
    /\ tx.state = "new" => tx.file = 0
    /\ tx.state = "wait" => tx.file = 0 \/ tx.count = FcFiles[tx.file].packs
    /\ tx.state = "send" => tx.file # 0 /\ tx.count < FcFiles[tx.file].packs

Follows(e, d) ==
    \/ e.file = d.file /\ e.no = d.no + 1
    \/ e.file = d.file + 1 /\ e.no = 1

(* Until a read is cut.                                                    *)
Intact ==
    /\ Unbroken(Held, ToWrite, ToSend)
    /\ rx.state # "garbled"
    /\ rx.state = "new" => rx.out = <<>>
    /\ \A i \in DOMAIN rx.out : rx.out[i].ok
    /\ \A i \in DOMAIN rx.out : i > 1 => Follows(rx.out[i], rx.out[i - 1])
    /\ rx.out # <<>> =>
          (rx.state = "wait" <=> rx.out[Len(rx.out)].no = FcFiles[rx.out[Len(rx.out)].file].packs)

IInv == Typed /\ Sending /\ (~rx.cut => Intact)

-----------------------------------------------------------------------------
(* Runs of pieces. *)

LEMMA Least1 ==
    ASSUME NEW T, T \subseteq Nat, T # {}
    PROVE  \E x \in T : \A y \in T : x <= y
<1> DEFINE R == OpToRel(<, Nat)
<1>1. IsWellFoundedOn(R, Nat)
  BY NatLessThanWellFounded
<1>2. \E x \in T : \A y \in T : ~ (<<y, x>> \in R)
  <2> HIDE DEF R
  <2> QED BY <1>1, WFMin
<1>3. \A x, y \in Nat : ~ (<<y, x>> \in R) => x <= y
  BY DEF OpToRel
<1> QED BY <1>2, <1>3

LEMMA Sizes ==
    ASSUME NEW f \in Files, NEW k
    PROVE  /\ f \in Nat \ {0} /\ FcFiles[f].packs \in Nat \ {0}
           /\ PackSize(f, k) \in 1 .. FcPack /\ PackSize(f, k) \in Nat \ {0}
<1>1. Len(FcFiles) \in Nat /\ f \in 1 .. Len(FcFiles)
  BY FcAssumption DEF Files
<1>2. FcFiles[f].packs \in Nat \ {0}
  <2> DEFINE T == [packs : Nat \ {0}, short : BOOLEAN]
  <2>1. FcFiles \in Seq(T)
    BY FcAssumption
  <2>2. \A x \in T : x.packs \in Nat \ {0}
    OBVIOUS
  <2> HIDE DEF T
  <2>3. FcFiles[f] \in T
    BY <1>1, <2>1
  <2> QED BY <2>2, <2>3
<1>3. FcPack \in Nat /\ FcPack > 1
  BY FcAssumption
<1> QED BY <1>1, <1>2, <1>3 DEF PackSize

LEMMA RunConcat ==
    ASSUME NEW S, NEW s \in Seq(S), NEW t \in Seq(S), NEW a, NEW b, NEW c,
           Unbroken(s, a, b), Unbroken(t, b, c)
    PROVE  Unbroken(s \o t, a, c)
<1>1. CASE s = <<>>
  <2>1. s \o t = t
    BY <1>1
  <2> QED BY <1>1, <2>1 DEF Unbroken
<1>2. CASE t = <<>>
  <2>1. s \o t = s
    BY <1>2
  <2> QED BY <1>2, <2>1 DEF Unbroken
<1>3. CASE s # <<>> /\ t # <<>>
  <2> DEFINE u == s \o t
             m == Len(s)
             n == Len(t)
  <2>1. /\ m \in Nat \ {0} /\ n \in Nat \ {0} /\ Len(u) = m + n /\ u # <<>>
        /\ \A i \in 1 .. m + n : u[i] = IF i <= m THEN s[i] ELSE t[i - m]
    BY <1>3
  <2>2. /\ s[1] = a /\ Succ(s[m]) = b /\ t[1] = b /\ Succ(t[n]) = c
        /\ \A i \in 1 .. m - 1 : s[i + 1] = Succ(s[i])
        /\ \A i \in 1 .. n - 1 : t[i + 1] = Succ(t[i])
    BY <1>3 DEF Unbroken
  <2> HIDE DEF u, m, n
  <2>3. u[1] = a
    BY <2>1, <2>2
  <2>4. u[m + n] = t[n]
    <3>1. m + n \in 1 .. m + n /\ ~ (m + n <= m) /\ m + n - m = n
      BY <2>1
    <3> QED BY <2>1, <3>1
  <2>5. ASSUME NEW i \in 1 .. (m + n) - 1 PROVE u[i + 1] = Succ(u[i])
    <3>1. CASE i < m
      BY <2>1, <2>2, <3>1
    <3>2. CASE i = m
      <4>1. u[i] = s[m] /\ u[i + 1] = t[1]
        BY <2>1, <3>2
      <4> QED BY <2>2, <4>1
    <3>3. CASE i > m
      <4>1. /\ i \in 1 .. m + n /\ i + 1 \in 1 .. m + n /\ i - m \in 1 .. n - 1
            /\ (i + 1) - m = (i - m) + 1 /\ ~ (i <= m) /\ ~ (i + 1 <= m)
        BY <2>1, <3>3
      <4>2. u[i] = t[i - m] /\ u[i + 1] = t[(i - m) + 1]
        BY <2>1, <4>1
      <4> QED BY <2>2, <4>1, <4>2
    <3> QED BY <2>1, <3>1, <3>2, <3>3
  <2>6. Unbroken(u, a, c)
    BY <2>1, <2>2, <2>3, <2>4, <2>5 DEF Unbroken
  <2> QED BY <2>6 DEF u
<1> QED BY <1>1, <1>2, <1>3

LEMMA RunTail ==
    ASSUME NEW S, NEW s \in Seq(S), NEW a, NEW b, Unbroken(s, a, b), NEW z \in 1 .. Len(s)
    PROVE  Unbroken(SubSeq(s, z + 1, Len(s)), Succ(s[z]), b)
<1> DEFINE n == Len(s)
           t == SubSeq(s, z + 1, n)
<1>1. /\ s # <<>> /\ n \in Nat \ {0} /\ z \in 1 .. n
      /\ s[1] = a /\ Succ(s[n]) = b /\ \A i \in 1 .. n - 1 : s[i + 1] = Succ(s[i])
  BY DEF Unbroken
<1>2. /\ Len(t) = n - z /\ \A i \in 1 .. n - z : t[i] = s[z + i]
      /\ n - z \in Nat
  BY <1>1
<1>3. CASE z = n
  <2>1. t = <<>>
    BY <1>2, <1>3
  <2> QED BY <1>1, <1>3, <2>1 DEF Unbroken
<1>4. CASE z # n
  <2> HIDE DEF t, n
  <2>1. t # <<>> /\ n - z \in Nat \ {0}
    <3>1. n - z \in Nat \ {0} /\ Len(<<>>) = 0
      BY <1>1, <1>4
    <3> QED BY <1>2, <3>1
  <2>2. t[1] = Succ(s[z])
    BY <1>1, <1>2, <2>1
  <2>3. Succ(t[n - z]) = b
    <3>1. z + (n - z) = n
      BY <1>1
    <3> QED BY <1>1, <1>2, <2>1, <3>1
  <2>4. ASSUME NEW i \in 1 .. (n - z) - 1 PROVE t[i + 1] = Succ(t[i])
    <3>1. /\ i \in 1 .. n - z /\ i + 1 \in 1 .. n - z /\ z + i \in 1 .. n - 1
          /\ z + (i + 1) = (z + i) + 1
      BY <1>1
    <3> QED BY <1>1, <1>2, <3>1
  <2>5. Unbroken(t, Succ(s[z]), b)
    BY <1>2, <2>1, <2>2, <2>3, <2>4 DEF Unbroken
  <2> QED BY <2>5 DEF t, n
<1> QED BY <1>3, <1>4

(* A run that begins with a head begins with the package.                  *)
LEMMA WholeFront ==
    ASSUME NEW S, NEW s \in Seq(S), NEW b, NEW f \in Files, NEW k,
           Unbroken(s, [file |-> f, no |-> k, part |-> 1], b),
           PackSize(f, k) <= Len(s)
    PROVE  \A p \in 1 .. PackSize(f, k) : s[p] = [file |-> f, no |-> k, part |-> p]
<1> DEFINE z == PackSize(f, k)
           Bad == {p \in 1 .. z : s[p] # [file |-> f, no |-> k, part |-> p]}
<1>1. z \in Nat \ {0} /\ s # <<>> /\ Len(s) \in Nat
  BY Sizes
<1>2. CASE Bad # {}
  <2>1. Bad \subseteq Nat
    OBVIOUS
  <2>2. PICK p \in Bad : \A q \in Bad : p <= q
    <3> HIDE DEF Bad
    <3> QED BY <1>2, <2>1, Least1
  <2>3. p # 1 /\ p \in 1 .. z
    BY <1>1 DEF Unbroken
  <2>4. p - 1 \in 1 .. z /\ p - 1 < z /\ p - 1 \in 1 .. Len(s) - 1 /\ (p - 1) + 1 = p /\ p - 1 \in Nat
    BY <1>1, <2>3
  <2>5. s[p - 1] = [file |-> f, no |-> k, part |-> p - 1]
    BY <2>2, <2>4
  <2>6. s[p] = Succ(s[p - 1])
    BY <1>1, <2>4 DEF Unbroken
  <2>7. Succ([file |-> f, no |-> k, part |-> p - 1]) = [file |-> f, no |-> k, part |-> p]
    BY <2>4 DEF Succ
  <2> QED BY <2>2, <2>5, <2>6, <2>7
<1> QED BY <1>2

-----------------------------------------------------------------------------
LEMMA InitIInv == FcInit => IInv
<1> SUFFICES ASSUME FcInit PROVE IInv
  OBVIOUS
<1> USE DEF FcInit
<1>1. Len(FcFiles) \in Nat /\ FcBlob \in Nat
  BY FcAssumption
<1>2. Typed
  BY <1>1 DEF Typed
<1>3. Sending
  BY DEF Sending
<1>4. Held = <<>>
  BY <1>1 DEF Held
<1>5. Intact
  BY <1>4 DEF Intact, Unbroken, ToWrite, ToSend
<1> QED BY <1>2, <1>3, <1>5 DEF IInv

(* What Blob and the wire hold, piece by piece.                            *)
LEMMA HeldIs ==
    ASSUME Typed
    PROVE  /\ Held \in Seq(Piece \cup {NoPiece}) /\ Len(Held) = rx.left + Len(wire)
           /\ \A i \in 1 .. rx.left + Len(wire) :
                 Held[i] = IF i <= rx.left THEN rx.blob[i] ELSE wire[i - rx.left]
<1>1. /\ rx.blob \in [1 .. FcBlob -> Piece \cup {NoPiece}] /\ rx.left \in 0 .. FcBlob
      /\ wire \in Seq(Piece) /\ FcBlob \in Nat
  BY FcAssumption DEF Typed
<1>2. rx.blob \in Seq(Piece \cup {NoPiece}) /\ Len(rx.blob) = FcBlob
  BY <1>1
<1>3. /\ SubSeq(rx.blob, 1, rx.left) \in Seq(Piece \cup {NoPiece})
      /\ Len(SubSeq(rx.blob, 1, rx.left)) = rx.left
      /\ \A i \in 1 .. rx.left : SubSeq(rx.blob, 1, rx.left)[i] = rx.blob[i]
  BY <1>1, <1>2
<1>4. wire \in Seq(Piece \cup {NoPiece})
  BY <1>1
<1> QED BY <1>1, <1>3, <1>4 DEF Held

LEMMA HeldGrows ==
    ASSUME Typed, NEW w \in Seq(Piece), wire' = wire \o w, UNCHANGED rx
    PROVE  Held' = Held \o w
<1> DEFINE s == SubSeq(rx.blob, 1, rx.left)
           P == Piece \cup {NoPiece}
<1>1. Held' = s \o (wire \o w) /\ Held = s \o wire
  BY DEF Held
<1>2. s \in Seq(P) /\ wire \in Seq(P) /\ w \in Seq(P)
  BY FcAssumption DEF Typed
<1> HIDE DEF s, P
<1>3. s \o (wire \o w) = (s \o wire) \o w
  BY <1>2, ConcatAssociative
<1> QED BY <1>1, <1>3

-----------------------------------------------------------------------------
(* The client. *)

LEMMA SendStep ==
    ASSUME IInv, NEW t, t \in [state : {"new", "wait", "send"}, file : Files, count : Nat,
                               shrunk : BOOLEAN, cuts : Nat],
           ToSend = [file |-> t.file, no |-> t.count + 1, part |-> 1],
           t.count < FcFiles[t.file].packs, SendPackage(t), UNCHANGED rx
    PROVE  IInv'
<1> DEFINE f == t.file
           k == t.count + 1
           z == PackSize(f, k)
           w == Package(f, k)
<1>1. /\ Typed /\ (~rx.cut => Intact) /\ f \in Files /\ k \in Nat \ {0}
      /\ z \in Nat \ {0} /\ FcFiles[f].packs \in Nat \ {0} /\ f \in 0 .. Len(FcFiles) /\ f # 0
  BY Sizes, FcAssumption DEF IInv, Files
<1>2. /\ wire' = wire \o w
      /\ tx' = [t EXCEPT !.count = k, !.state = IF k < FcFiles[f].packs THEN "send" ELSE "wait"]
  BY DEF SendPackage
<1>3. /\ w = [p \in 1 .. z |-> [file |-> f, no |-> k, part |-> p]]
      /\ w \in Seq(Piece) /\ Len(w) = z /\ w # <<>>
  <2>1. w = [p \in 1 .. z |-> [file |-> f, no |-> k, part |-> p]]
    BY DEF Package
  <2> HIDE DEF w, f, k, z
  <2>2. w \in [1 .. z -> Piece]
    BY <1>1, <2>1 DEF Piece
  <2>3. w \in Seq(Piece) /\ Len(w) = z
    BY <1>1, <2>2
  <2>4. w # <<>>
    BY <1>1, <2>3
  <2> QED BY <2>1, <2>3, <2>4
<1>4. Unbroken(w, [file |-> f, no |-> k, part |-> 1], Behind(f, k))
  <2> HIDE DEF w, f, k
  <2>1. ASSUME NEW i \in 1 .. z - 1 PROVE w[i + 1] = Succ(w[i])
    <3>1. i \in Nat /\ i \in 1 .. z /\ i + 1 \in 1 .. z /\ i < z
      BY <1>1
    <3>2. /\ w[i] = [file |-> f, no |-> k, part |-> i]
          /\ w[i + 1] = [file |-> f, no |-> k, part |-> i + 1]
      BY <1>3, <3>1
    <3> QED BY <3>1, <3>2 DEF Succ
  <2>2. w[1] = [file |-> f, no |-> k, part |-> 1] /\ w[z] = [file |-> f, no |-> k, part |-> z]
    BY <1>1, <1>3
  <2> QED BY <1>1, <1>3, <2>1, <2>2 DEF Unbroken, Behind
<1> HIDE DEF w, z
<1>5. tx'.file = f /\ tx'.count = k
  BY <1>2
<1>6. Typed'
  <2>1. tx' \in [state : {"new", "wait", "send"}, file : 0 .. Len(FcFiles), count : Nat,
                 shrunk : BOOLEAN, cuts : Nat]
    BY <1>1, <1>2
  <2>2. wire' \in Seq(Piece)
    BY <1>1, <1>2, <1>3 DEF Typed
  <2> QED BY <1>1, <2>1, <2>2 DEF Typed
<1>7. Sending'
  BY <1>1, <1>2 DEF Sending
<1>8. ASSUME ~rx.cut PROVE Intact'
  <2>1. Held' = Held \o w
    BY <1>1, <1>2, <1>3, HeldGrows
  <2>2. Held \in Seq(Piece \cup {NoPiece}) /\ w \in Seq(Piece \cup {NoPiece})
    BY <1>1, <1>3, HeldIs
  <2>3. Unbroken(Held \o w, ToWrite, Behind(f, k))
    BY <1>1, <1>4, <1>8, <2>2, RunConcat DEF Intact
  <2>4. ToWrite' = ToWrite /\ ToSend' = Behind(f, k)
    BY <1>1, <1>5 DEF ToWrite, ToSend
  <2> QED BY <1>1, <1>8, <2>1, <2>3, <2>4 DEF Intact
<1> QED BY <1>6, <1>7, <1>8 DEF IInv

LEMMA ClientStep ==
    ASSUME IInv, ClientConnect \/ ClientRequest \/ ClientSend \/ Shrink
    PROVE  IInv'
<1>1. Typed /\ Sending /\ (~rx.cut => Intact) /\ Len(FcFiles) \in Nat
  BY FcAssumption DEF IInv
<1>2. ASSUME tx'.state = IF tx.state = "new" THEN "wait" ELSE tx.state,
             tx'.file = tx.file, tx'.count = tx.count, UNCHANGED <<wire, rx>>,
             tx' \in [state : {"new", "wait", "send"}, file : 0 .. Len(FcFiles), count : Nat,
                      shrunk : BOOLEAN, cuts : Nat]
      PROVE  IInv'
  <2>1. Typed'
    BY <1>1, <1>2 DEF Typed
  <2>2. Sending'
    BY <1>1, <1>2 DEF Sending, Typed
  <2>3. Held' = Held /\ ToWrite' = ToWrite /\ ToSend' = ToSend
    BY <1>2 DEF Held, ToWrite, ToSend
  <2> QED BY <1>1, <1>2, <2>1, <2>2, <2>3 DEF Intact, IInv
<1>3. CASE ClientConnect
  BY <1>1, <1>2, <1>3 DEF ClientConnect, Typed
<1>4. CASE Shrink
  <2>1. /\ tx' = [tx EXCEPT !.shrunk = TRUE, !.cuts = @ + 1] /\ tx.state = "send"
        /\ UNCHANGED <<wire, rx>>
    BY <1>4 DEF Shrink
  <2>2. tx' \in [state : {"new", "wait", "send"}, file : 0 .. Len(FcFiles), count : Nat,
                 shrunk : BOOLEAN, cuts : Nat]
    <3>1. tx \in [state : {"new", "wait", "send"}, file : 0 .. Len(FcFiles), count : Nat,
                  shrunk : BOOLEAN, cuts : Nat]
      BY <1>1 DEF Typed
    <3>2. tx' = [state |-> tx.state, file |-> tx.file, count |-> tx.count, shrunk |-> TRUE,
                 cuts |-> tx.cuts + 1]
      BY <2>1, <3>1
    <3> QED BY <3>1, <3>2
  <2> QED BY <1>1, <1>2, <2>1, <2>2 DEF Typed
<1>5. CASE ClientRequest
  <2> DEFINE t == [tx EXCEPT !.file = @ + 1, !.count = 0]
  <2>1. /\ t \in [state : {"new", "wait", "send"}, file : Files, count : Nat,
                  shrunk : BOOLEAN, cuts : Nat]
        /\ t.file = tx.file + 1 /\ t.count = 0 /\ tx.file \in 0 .. Len(FcFiles)
    <3>1. /\ tx \in [state : {"new", "wait", "send"}, file : 0 .. Len(FcFiles), count : Nat,
                      shrunk : BOOLEAN, cuts : Nat]
          /\ tx.file < Len(FcFiles)
      BY <1>1, <1>5 DEF ClientRequest, Typed
    <3>2. tx.file + 1 \in 1 .. Len(FcFiles)
      BY <1>1, <3>1
    <3> QED BY <3>1, <3>2 DEF Files
  <2>2. t.count < FcFiles[t.file].packs
    <3>1. t.file \in Files
      BY <2>1
    <3>2. FcFiles[t.file].packs \in Nat \ {0}
      BY <3>1, Sizes
    <3> QED BY <2>1, <3>2
  <2>3. ToSend = [file |-> t.file, no |-> t.count + 1, part |-> 1]
    <3>1. CASE tx.file = 0
      BY <2>1, <3>1 DEF ToSend, First
    <3>2. CASE tx.file # 0
      <4>1. tx.file \in Files /\ tx.count = FcFiles[tx.file].packs
        BY <1>1, <1>5, <2>1, <3>2 DEF Sending, ClientRequest, Files
      <4>2. PackSize(tx.file, tx.count) \in Nat /\ FcFiles[tx.file].packs \in Nat
        BY <4>1, Sizes
      <4> QED BY <2>1, <3>2, <4>1, <4>2 DEF ToSend, Behind, Succ
    <3> QED BY <3>1, <3>2
  <2>4. SendPackage(t) /\ UNCHANGED rx
    BY <1>5 DEF ClientRequest
  <2> HIDE DEF t
  <2> QED BY <2>1, <2>2, <2>3, <2>4, SendStep
<1>6. CASE ClientSend
  <2>1. /\ tx \in [state : {"new", "wait", "send"}, file : Files, count : Nat,
                   shrunk : BOOLEAN, cuts : Nat]
        /\ tx.file \in Files /\ tx.file # 0 /\ tx.count < FcFiles[tx.file].packs
    BY <1>1, <1>6 DEF ClientSend, Typed, Sending, Files
  <2>2. PackSize(tx.file, tx.count) \in Nat
    BY <2>1, Sizes
  <2>3. ToSend = [file |-> tx.file, no |-> tx.count + 1, part |-> 1]
    BY <2>1, <2>2 DEF ToSend, Behind, Succ
  <2> QED BY <1>6, <2>1, <2>3, SendStep DEF ClientSend
<1> QED BY <1>3, <1>4, <1>5, <1>6

-----------------------------------------------------------------------------
(* The server. *)

(* A package in front of what is held is the one to write; behind it the   *)
(* run goes on with the next.                                              *)
LEMMA Take ==
    ASSUME Typed, Intact, NEW blob \in [1 .. FcBlob -> Piece \cup {NoPiece}],
           Held # <<>>, NEW z, z = BlobSize(blob), z <= Len(Held), HeadFound(blob),
           blob[1] = Held[1], \A p \in 1 .. z : p \in DOMAIN blob => blob[p] = Held[p]
    PROVE  /\ blob[1].file \in Files /\ blob[1].no \in Nat /\ z \in 1 .. Len(Held)
           /\ ToWrite = [file |-> blob[1].file, no |-> blob[1].no, part |-> 1]
           /\ DataWhole(blob)
           /\ Unbroken(SubSeq(Held, z + 1, Len(Held)), Behind(blob[1].file, blob[1].no), ToSend)
<1> DEFINE f == blob[1].file
           k == blob[1].no
<1>1. /\ Held \in Seq(Piece \cup {NoPiece}) /\ FcBlob \in Nat \ {0} /\ FcPack <= FcBlob
      /\ FcPack \in Nat /\ Len(Held) \in Nat
  BY HeldIs, FcAssumption
<1>2. blob[1] = [file |-> f, no |-> k, part |-> 1] /\ f \in Files /\ k \in Nat
  <2>1. blob[1] \in Piece \cup {NoPiece} /\ blob[1].part = 1
    BY <1>1 DEF HeadFound
  <2>2. blob[1] \in Piece
    BY <2>1 DEF NoPiece
  <2> QED BY <2>1, <2>2 DEF Piece
<1>3. Unbroken(Held, blob[1], ToSend) /\ ToWrite = blob[1]
  BY DEF Intact, Unbroken
<1>4. z = PackSize(f, k) /\ z \in 1 .. FcPack /\ z \in Nat \ {0}
  BY <1>2, Sizes DEF BlobSize
<1> HIDE DEF f, k
<1>5. \A p \in 1 .. z : Held[p] = [file |-> f, no |-> k, part |-> p]
  BY <1>1, <1>2, <1>3, <1>4, WholeFront
<1>6. z \in 1 .. Len(Held)
  BY <1>1, <1>4
<1>7. DataWhole(blob)
  <2>1. \A p \in 1 .. z : blob[p] = [file |-> f, no |-> k, part |-> p]
    BY <1>1, <1>4, <1>5
  <2>2. \A p : [blob[1] EXCEPT !.part = p] = [file |-> f, no |-> k, part |-> p]
    BY <1>2
  <2> QED BY <2>1, <2>2 DEF DataWhole
<1>8. Succ(Held[z]) = Behind(f, k)
  BY <1>4, <1>5 DEF Behind
<1>9. Unbroken(SubSeq(Held, z + 1, Len(Held)), Behind(f, k), ToSend)
  BY <1>1, <1>3, <1>6, <1>8, RunTail
<1> QED BY <1>2, <1>3, <1>6, <1>7, <1>9 DEF f, k

(* The package is written, the state follows the file.                     *)
LEMMA Written ==
    ASSUME Typed, Intact, NEW f \in Files, NEW k \in Nat,
           ToWrite = [file |-> f, no |-> k, part |-> 1],
           rx'.out = Append(rx.out, [file |-> f, no |-> k, ok |-> TRUE]),
           rx'.state = IF k = FcFiles[f].packs THEN "wait" ELSE "receive",
           UNCHANGED tx, Unbroken(Held', Behind(f, k), ToSend)
    PROVE  Intact'
<1> DEFINE n == Len(rx.out)
           e == [file |-> f, no |-> k, ok |-> TRUE]
<1>1. /\ rx.out \in Seq(Entry) /\ e \in Entry /\ n \in Nat
      /\ Len(rx'.out) = n + 1 /\ rx'.out # <<>> /\ DOMAIN rx'.out = 1 .. n + 1
      /\ rx'.out[n + 1] = e /\ \A i \in 1 .. n : rx'.out[i] = rx.out[i]
      /\ DOMAIN rx.out = 1 .. n
  <2>1. rx.out \in Seq(Entry) /\ e \in Entry
    BY DEF Typed, Entry
  <2> HIDE DEF e
  <2> QED BY <2>1 DEF e
<1>2. ToSend' = ToSend /\ ToWrite' = Behind(f, k)
  BY <1>1 DEF ToSend, ToWrite
<1>3. Unbroken(Held, ToWrite, ToSend)' <=> Unbroken(Held', Behind(f, k), ToSend)
  BY <1>2
<1>4. ASSUME rx.out # <<>> PROVE Follows(e, rx.out[n])
  <2>1. rx.out[n] \in Entry /\ n \in 1 .. n
    BY <1>1, <1>4
  <2>2. PackSize(rx.out[n].file, rx.out[n].no) \in Nat
    BY <2>1, Sizes DEF Entry
  <2>3. ToWrite = Behind(rx.out[n].file, rx.out[n].no)
    BY <1>4 DEF ToWrite
  <2> QED BY <2>2, <2>3 DEF Behind, Succ, Follows
<1>5. ASSUME NEW i \in 1 .. n + 1 PROVE rx'.out[i].ok
  <2>1. CASE i = n + 1
    BY <1>1, <2>1
  <2>2. CASE i # n + 1
    <3>1. i \in 1 .. n
      BY <1>1, <2>2
    <3>2. rx.out[i].ok
      BY <3>1 DEF Intact
    <3>3. rx'.out[i] = rx.out[i]
      BY <1>1, <3>1
    <3> QED BY <3>1, <3>2, <3>3
  <2> QED BY <2>1, <2>2
<1>6. ASSUME NEW i \in 1 .. n + 1, i > 1 PROVE Follows(rx'.out[i], rx'.out[i - 1])
  <2>1. CASE i = n + 1
    <3>1. rx.out # <<>> /\ n \in 1 .. n /\ i - 1 = n
      BY <1>1, <1>6, <2>1
    <3> QED BY <1>1, <1>4, <2>1, <3>1
  <2>2. CASE i # n + 1
    <3>1. i \in 1 .. n /\ i - 1 \in 1 .. n
      BY <1>1, <1>6, <2>2
    <3> QED BY <1>1, <1>6, <3>1 DEF Intact
  <2> QED BY <2>1, <2>2
<1>7. rx'.state = "wait" <=> k = FcFiles[f].packs
  OBVIOUS
<1>8. rx'.state # "garbled" /\ rx'.state # "new"
  OBVIOUS
<1>9. rx'.out[Len(rx'.out)].no = k /\ rx'.out[Len(rx'.out)].file = f
  BY <1>1
<1>10. /\ \A i \in DOMAIN rx'.out : rx'.out[i].ok
       /\ \A i \in DOMAIN rx'.out : i > 1 => Follows(rx'.out[i], rx'.out[i - 1])
  BY <1>1, <1>5, <1>6
<1> HIDE DEF n, e
<1> QED BY <1>3, <1>7, <1>8, <1>9, <1>10 DEF Intact

(* The bytes that a read adds lie behind those that are kept.              *)
LEMMA FilledIs ==
    ASSUME Typed, NEW n \in 1 .. Len(wire), NEW at \in 0 .. FcBlob
    PROVE  /\ Filled(rx.blob, at, n) \in [1 .. FcBlob -> Piece \cup {NoPiece}]
           /\ \A i \in 1 .. FcBlob : Filled(rx.blob, at, n)[i] =
                 IF at < i /\ i <= at + n THEN wire[i - at] ELSE rx.blob[i]
<1>1. /\ rx.blob \in [1 .. FcBlob -> Piece \cup {NoPiece}] /\ wire \in Seq(Piece)
      /\ FcBlob \in Nat /\ n \in Nat /\ at \in Nat /\ DOMAIN rx.blob = 1 .. FcBlob
  BY FcAssumption DEF Typed
<1>2. \A i \in 1 .. FcBlob :
         Filled(rx.blob, at, n)[i] = IF at < i /\ i <= at + n THEN wire[i - at] ELSE rx.blob[i]
  BY <1>1 DEF Filled
<1>3. \A i \in 1 .. FcBlob : at < i /\ i <= at + n => wire[i - at] \in Piece
  BY <1>1
<1>4. Filled(rx.blob, at, n) \in [1 .. FcBlob -> Piece \cup {NoPiece}]
  BY <1>1, <1>2, <1>3 DEF Filled
<1> QED BY <1>2, <1>4

HeldForm ==
    /\ Held \in Seq(Piece \cup {NoPiece}) /\ Len(Held) = rx.left + Len(wire)
    /\ \A i \in 1 .. rx.left + Len(wire) :
          Held[i] = IF i <= rx.left THEN rx.blob[i] ELSE wire[i - rx.left]

LEMMA HeldIsNext == Typed' => HeldForm'
<1>1. Typed => HeldForm
  BY HeldIs DEF HeldForm
<1> QED BY <1>1, PTL

(* What is held behind a package that is taken away.                       *)
LEMMA HeldRest ==
    ASSUME Typed, Typed', NEW z \in 1 .. Len(Held), rx'.left + Len(wire') = Len(Held) - z,
           \A i \in 1 .. Len(Held) - z :
              Held[z + i] = IF i <= rx'.left THEN rx'.blob[i] ELSE wire'[i - rx'.left]
    PROVE  Held' = SubSeq(Held, z + 1, Len(Held))
<1>2. HeldForm'
  BY HeldIsNext
<1> DEFINE m == Len(Held)
           t == SubSeq(Held, z + 1, m)
           h == Held'
<1>3. Held \in Seq(Piece \cup {NoPiece}) /\ m \in Nat /\ z \in 1 .. m
  BY HeldIs
<1>4. /\ t \in Seq(Piece \cup {NoPiece}) /\ Len(t) = m - z
      /\ \A i \in 1 .. m - z : t[i] = Held[z + i]
  BY <1>3
<1>5. /\ h \in Seq(Piece \cup {NoPiece}) /\ Len(h) = rx'.left + Len(wire')
      /\ \A i \in 1 .. rx'.left + Len(wire') :
            h[i] = IF i <= rx'.left THEN rx'.blob[i] ELSE wire'[i - rx'.left]
  BY <1>2 DEF HeldForm
<1>6. \A i \in 1 .. m - z : h[i] = t[i]
  BY <1>4, <1>5
<1>7. Len(h) = Len(t)
  BY <1>4, <1>5
<1> HIDE DEF h, t, m
<1>8. h = t
  BY <1>4, <1>5, <1>6, <1>7, SeqEqual
<1> QED BY <1>8 DEF h, t, m

LEMMA ToWriteIsHead == ASSUME Typed PROVE ToWrite.part = 1
<1>1. CASE rx.out = <<>>
  BY <1>1 DEF ToWrite, First
<1>2. CASE rx.out # <<>>
  <2> DEFINE l == rx.out[Len(rx.out)]
  <2>1. l \in Entry
    BY <1>2 DEF Typed
  <2>2. PackSize(l.file, l.no) \in Nat
    BY <2>1, Sizes DEF Entry
  <2>3. ToWrite = Behind(l.file, l.no)
    BY <1>2 DEF ToWrite
  <2> QED BY <2>2, <2>3 DEF Behind, Succ
<1> QED BY <1>1, <1>2

LEMMA StartStep ==
    ASSUME IInv, NEW n \in 1 .. Len(wire), rx.state = "wait", ServerStart(n),
           wire' = SubSeq(wire, n + 1, Len(wire)), UNCHANGED tx
    PROVE  IInv'
<1> DEFINE blob == Filled(rx.blob, 0, n)
           z == BlobSize(blob)
           e == [file |-> blob[1].file, no |-> blob[1].no, ok |-> DataWhole(blob)]
           cut == rx.cut \/ rx.left > 0
<1>1. /\ Typed /\ Sending /\ (~rx.cut => Intact) /\ FcBlob \in Nat \ {0}
      /\ wire \in Seq(Piece) /\ wire' \in Seq(Piece) /\ 0 \in 0 .. FcBlob
  BY FcAssumption, SMTT(30) DEF IInv, Typed
<1>2. /\ blob \in [1 .. FcBlob -> Piece \cup {NoPiece}]
      /\ \A i \in 1 .. FcBlob : blob[i] = IF 0 < i /\ i <= 0 + n THEN wire[i - 0] ELSE rx.blob[i]
  BY <1>1, FilledIs
<1> HIDE DEF blob
<1>3. \/ ~HeadFound(blob) /\ rx' = [rx EXCEPT !.blob = blob, !.cut = cut, !.state = "garbled"]
      \/ /\ HeadFound(blob)
         /\ rx' = [rx EXCEPT !.blob = blob, !.cut = cut \/ n # z, !.out = Append(@, e),
                             !.state = IF IsLast(blob) THEN "wait" ELSE "receive"]
  <2> DEFINE r == [rx EXCEPT !.blob = blob, !.cut = @ \/ rx.left > 0]
  <2>1. \/ ~HeadFound(r.blob) /\ rx' = [r EXCEPT !.state = "garbled"]
        \/ /\ HeadFound(r.blob)
           /\ rx' = Wrote([r EXCEPT !.state = IF IsLast(r.blob) THEN "wait" ELSE "receive",
                                    !.cut = @ \/ n # BlobSize(r.blob)])
    BY DEF ServerStart, blob
  <2>2. r.blob = blob /\ r = [rx EXCEPT !.blob = blob, !.cut = cut]
    BY <1>1 DEF Typed
  <2> QED BY <1>1, <2>1, <2>2 DEF Typed, Wrote
<1>4. Typed'
  <2>1. HeadFound(blob) => e \in Entry
    <3>1. HeadFound(blob) => blob[1] \in Piece
      BY <1>1, <1>2 DEF HeadFound, NoPiece
    <3>2. DataWhole(blob) \in BOOLEAN
      BY DEF DataWhole
    <3> QED BY <3>1, <3>2 DEF Entry, Piece
  <2>2. /\ rx \in [state : {"new", "wait", "receive", "garbled"},
                   blob : [1 .. FcBlob -> Piece \cup {NoPiece}], left : 0 .. FcBlob,
                   out : Seq(Entry), cut : BOOLEAN]
    BY <1>1 DEF Typed
  <2> HIDE DEF e, z
  <2>3. HeadFound(blob) => Append(rx.out, e) \in Seq(Entry)
    BY <2>1, <2>2
  <2>4. cut \in BOOLEAN /\ (cut \/ n # z) \in BOOLEAN
    OBVIOUS
  <2> HIDE DEF cut
  <2>5. rx' \in [state : {"new", "wait", "receive", "garbled"},
                  blob : [1 .. FcBlob -> Piece \cup {NoPiece}], left : 0 .. FcBlob,
                  out : Seq(Entry), cut : BOOLEAN]
    BY <1>2, <1>3, <2>2, <2>3, <2>4
  <2> QED BY <1>1, <2>5 DEF Typed
<1>5. ASSUME ~rx'.cut PROVE Intact'
  <2>0. rx.cut \in BOOLEAN /\ rx.left \in Nat /\ FcBlob \in Nat
    BY <1>1 DEF Typed
  <2>1. Intact /\ rx.left = 0
    <3>1. rx'.cut = cut \/ rx'.cut = (cut \/ n # z)
      BY <1>1, <1>3 DEF Typed
    <3>2. ~cut
      BY <1>5, <3>1
    <3> QED BY <1>1, <2>0, <3>2
  <2>2. /\ Len(Held) = Len(wire) /\ Len(wire) \in Nat /\ Held # <<>>
        /\ \A i \in 1 .. Len(wire) : Held[i] = wire[i]
    BY <1>1, <2>1, HeldIs
  <2>3. blob[1] = Held[1] /\ Held[1] = ToWrite
    BY <1>1, <1>2, <2>1, <2>2 DEF Intact, Unbroken
  <2>4. HeadFound(blob)
    BY <1>1, <2>3, ToWriteIsHead DEF HeadFound
  <2>5. n = z /\ rx'.left = 0 /\ rx'.blob = blob
    BY <1>1, <1>3, <1>5, <2>1, <2>4 DEF Typed
  <2>6. \A p \in 1 .. z : p \in DOMAIN blob => blob[p] = Held[p]
    BY <1>1, <1>2, <2>2, <2>5
  <2>7. z = BlobSize(blob) /\ z <= Len(Held)
    BY <2>2, <2>5
  <2> HIDE DEF z
  <2>8. /\ blob[1].file \in Files /\ blob[1].no \in Nat /\ z \in 1 .. Len(Held)
        /\ ToWrite = [file |-> blob[1].file, no |-> blob[1].no, part |-> 1]
        /\ DataWhole(blob)
        /\ Unbroken(SubSeq(Held, z + 1, Len(Held)), Behind(blob[1].file, blob[1].no), ToSend)
    BY <1>1, <1>2, <2>1, <2>2, <2>3, <2>4, <2>6, <2>7, Take
  <2>9. Held' = SubSeq(Held, z + 1, Len(Held))
    <3>1. Len(wire') = Len(Held) - z /\ \A i \in 1 .. Len(Held) - z : wire'[i] = Held[z + i]
      BY <1>1, <2>2, <2>5, <2>8
    <3> QED BY <1>1, <1>4, <2>2, <2>5, <2>8, <3>1, HeldRest, SMTT(30)
  <2>10. rx'.out = Append(rx.out, [file |-> blob[1].file, no |-> blob[1].no, ok |-> TRUE])
    BY <1>1, <1>3, <2>4, <2>8 DEF Typed
  <2>11. rx'.state = IF blob[1].no = FcFiles[blob[1].file].packs THEN "wait" ELSE "receive"
    BY <1>1, <1>3, <2>4 DEF Typed, IsLast
  <2> QED BY <1>1, <2>1, <2>8, <2>9, <2>10, <2>11, Written
<1>6. Sending'
  BY <1>1 DEF Sending
<1> QED BY <1>4, <1>5, <1>6 DEF IInv

LEMMA ReceiveStep ==
    ASSUME IInv, NEW n \in 1 .. Len(wire), n <= FcBlob - rx.left,
           rx.state = "receive", ServerReceive(n),
           wire' = SubSeq(wire, n + 1, Len(wire)), UNCHANGED tx
    PROVE  IInv'
<1> DEFINE blob == Filled(rx.blob, rx.left, n)
           z == BlobSize(blob)
           e == [file |-> blob[1].file, no |-> blob[1].no, ok |-> DataWhole(blob)]
           have == rx.left + n
           moved == MovedUp(blob, z, have - z)
<1>1. /\ Typed /\ Sending /\ (~rx.cut => Intact) /\ FcBlob \in Nat \ {0}
      /\ wire \in Seq(Piece) /\ wire' \in Seq(Piece) /\ rx.left \in 0 .. FcBlob
      /\ n \in Nat \ {0} /\ have \in 1 .. FcBlob /\ Len(wire) \in Nat /\ rx.cut \in BOOLEAN
  BY FcAssumption DEF IInv, Typed
<1>2. /\ blob \in [1 .. FcBlob -> Piece \cup {NoPiece}]
      /\ \A i \in 1 .. FcBlob :
            blob[i] = IF rx.left < i /\ i <= rx.left + n THEN wire[i - rx.left] ELSE rx.blob[i]
  BY <1>1, FilledIs
<1> HIDE DEF blob
<1>3. HeadFound(blob) => /\ blob[1] \in Piece /\ z \in Nat \ {0}
                         /\ (z <= have => moved \in [1 .. FcBlob -> Piece \cup {NoPiece}])
                         /\ (z <= have => \A i \in 1 .. have - z : moved[i] = blob[i + z])
  <2> SUFFICES ASSUME HeadFound(blob)
               PROVE  /\ blob[1] \in Piece /\ z \in Nat \ {0}
                      /\ (z <= have => moved \in [1 .. FcBlob -> Piece \cup {NoPiece}])
                      /\ (z <= have => \A i \in 1 .. have - z : moved[i] = blob[i + z])
    OBVIOUS
  <2>1. blob[1] \in Piece
    BY <1>1, <1>2 DEF HeadFound, NoPiece
  <2>2. z \in Nat \ {0}
    BY <2>1, Sizes DEF BlobSize, Piece
  <2> HIDE DEF z, have
  <2>3. ASSUME z <= have
        PROVE  /\ moved \in [1 .. FcBlob -> Piece \cup {NoPiece}]
               /\ \A i \in 1 .. have - z : moved[i] = blob[i + z]
    <3>1. moved = [i \in 1 .. FcBlob |-> IF i <= have - z /\ i + z \in 1 .. FcBlob
                                         THEN blob[i + z] ELSE blob[i]]
      BY <1>2 DEF MovedUp
    <3>2. \A i \in 1 .. have - z : i \in 1 .. FcBlob /\ i <= have - z /\ i + z \in 1 .. FcBlob
      BY <1>1, <2>2, <2>3
    <3> QED BY <1>2, <3>1, <3>2
  <2> QED BY <2>1, <2>2, <2>3
<1>4. \/ rx' = [rx EXCEPT !.blob = blob, !.state = "garbled"] /\ ~HeadFound(blob)
      \/ rx' = [rx EXCEPT !.blob = blob, !.state = "garbled", !.cut = TRUE]
      \/ /\ HeadFound(blob) /\ z <= have
         /\ rx' = [rx EXCEPT !.blob = moved, !.left = have - z, !.out = Append(@, e),
                             !.state = IF IsLast(blob) THEN "wait" ELSE "receive"]
  <2> DEFINE r == [rx EXCEPT !.blob = blob]
  <2>1. \/ ~HeadFound(r.blob) /\ rx' = [r EXCEPT !.state = "garbled"]
        \/ rx' = [r EXCEPT !.state = "garbled", !.cut = TRUE]
        \/ /\ HeadFound(r.blob) /\ BlobSize(r.blob) <= r.left + n
           /\ rx' = [Wrote(r) EXCEPT !.left = r.left + n - BlobSize(r.blob),
                          !.blob = MovedUp(@, BlobSize(r.blob), r.left + n - BlobSize(r.blob)),
                          !.state = IF IsLast(r.blob) THEN "wait" ELSE "receive"]
    BY DEF ServerReceive, blob
  <2>2. r.blob = blob /\ r.left = rx.left /\ r.out = rx.out
    BY <1>1 DEF Typed
  <2>3. Wrote(r) = [r EXCEPT !.out = Append(rx.out, e)] /\ Wrote(r).blob = blob
    BY <1>1, <2>2 DEF Wrote, Typed
  <2> HIDE DEF e
  <2>4. CASE ~HeadFound(r.blob) /\ rx' = [r EXCEPT !.state = "garbled"]
    BY <1>1, <2>2, <2>4 DEF Typed
  <2>5. CASE rx' = [r EXCEPT !.state = "garbled", !.cut = TRUE]
    BY <1>1, <2>5 DEF Typed
  <2>6. CASE /\ HeadFound(r.blob) /\ BlobSize(r.blob) <= r.left + n
             /\ rx' = [Wrote(r) EXCEPT !.left = r.left + n - BlobSize(r.blob),
                          !.blob = MovedUp(@, BlobSize(r.blob), r.left + n - BlobSize(r.blob)),
                          !.state = IF IsLast(r.blob) THEN "wait" ELSE "receive"]
    <3>1. rx' = [[r EXCEPT !.out = Append(rx.out, e)] EXCEPT !.left = have - z,
                     !.blob = moved, !.state = IF IsLast(blob) THEN "wait" ELSE "receive"]
      <4> DEFINE w == Wrote(r)
      <4>1. /\ r.left + n - BlobSize(r.blob) = have - z
            /\ MovedUp(w.blob, BlobSize(r.blob), r.left + n - BlobSize(r.blob)) = moved
            /\ IsLast(r.blob) = IsLast(blob)
        <5>1. w.blob = blob
          BY <2>3
        <5> HIDE DEF r, w
        <5>2. BlobSize(r.blob) = z /\ IsLast(r.blob) = IsLast(blob)
          BY <2>2
        <5> HIDE DEF z
        <5>3. r.left + n = have
          BY <2>2
        <5> HIDE DEF have
        <5>4. r.left + n - BlobSize(r.blob) = have - z
          <6>1. have \in Nat /\ z \in Nat /\ r.left \in Nat /\ n \in Nat
            BY <1>1, <1>3, <2>2, <2>6
          <6>2. BlobSize(r.blob) = z
            BY <5>2
          <6>3. r.left + (n - z) = have - z
            BY <5>3, <6>1, SMTT(30)
          <6> QED BY <6>2, <6>3
        <5>5. MovedUp(w.blob, BlobSize(r.blob), r.left + n - BlobSize(r.blob)) = moved
          BY <5>1, <5>2, <5>4
        <5> QED BY <5>2, <5>4, <5>5
      <4>2. rx' = [w EXCEPT !.left = r.left + n - BlobSize(r.blob),
                      !.blob = MovedUp(w.blob, BlobSize(r.blob), r.left + n - BlobSize(r.blob)),
                      !.state = IF IsLast(r.blob) THEN "wait" ELSE "receive"]
        BY <2>6
      <4>3. rx' = [w EXCEPT !.left = have - z, !.blob = moved,
                            !.state = IF IsLast(blob) THEN "wait" ELSE "receive"]
        <5> HIDE DEF r, w, have, z, moved
        <5> QED BY <4>1, <4>2
      <4> QED BY <2>3, <4>3
    <3> HIDE DEF have, z, moved
    <3>2. rx' = [rx EXCEPT !.blob = moved, !.left = have - z, !.out = Append(@, e),
                             !.state = IF IsLast(blob) THEN "wait" ELSE "receive"]
      BY <1>1, <3>1 DEF Typed
    <3> QED BY <2>2, <2>6, <3>2 DEF have, z
  <2> QED BY <2>1, <2>4, <2>5, <2>6
<1>5. Typed'
  <2>1. HeadFound(blob) => e \in Entry
    <3>1. DataWhole(blob) \in BOOLEAN
      BY DEF DataWhole
    <3> QED BY <1>3, <3>1 DEF Entry, Piece
  <2>2. /\ rx \in [state : {"new", "wait", "receive", "garbled"},
                   blob : [1 .. FcBlob -> Piece \cup {NoPiece}], left : 0 .. FcBlob,
                   out : Seq(Entry), cut : BOOLEAN]
    BY <1>1 DEF Typed
  <2> HIDE DEF e, z, have
  <2>3. HeadFound(blob) => Append(rx.out, e) \in Seq(Entry)
    BY <2>1, <2>2
  <2>4. HeadFound(blob) /\ z <= have => have - z \in 0 .. FcBlob
    BY <1>1, <1>3
  <2> HIDE DEF moved
  <2>5. rx' \in [state : {"new", "wait", "receive", "garbled"},
                  blob : [1 .. FcBlob -> Piece \cup {NoPiece}], left : 0 .. FcBlob,
                  out : Seq(Entry), cut : BOOLEAN]
    BY <1>2, <1>4, <1>3, <2>2, <2>3, <2>4
  <2> QED BY <1>1, <2>5 DEF Typed
<1>6. ASSUME ~rx'.cut PROVE Intact'
  <2>1. Intact /\ ~rx.cut
    BY <1>1, <1>4, <1>6 DEF Typed
  <2>2. /\ Len(Held) = rx.left + Len(wire) /\ Len(Held) \in Nat \ {0} /\ Held # <<>>
        /\ have <= Len(Held)
        /\ \A i \in 1 .. rx.left + Len(wire) :
              Held[i] = IF i <= rx.left THEN rx.blob[i] ELSE wire[i - rx.left]
    <3>1. /\ rx.left \in Nat /\ Len(wire) \in Nat /\ n \in Nat \ {0} /\ n <= Len(wire)
      BY <1>1
    <3>2. /\ Len(Held) = rx.left + Len(wire) /\ Held \in Seq(Piece \cup {NoPiece})
          /\ \A i \in 1 .. rx.left + Len(wire) :
                Held[i] = IF i <= rx.left THEN rx.blob[i] ELSE wire[i - rx.left]
      BY <1>1, HeldIs
    <3>3. Len(Held) \in Nat \ {0} /\ have <= Len(Held)
      BY <3>1, <3>2
    <3>4. Held # <<>>
      BY <3>2, <3>3
    <3> QED BY <3>2, <3>3, <3>4
  <2>3. ASSUME NEW p \in 1 .. have PROVE blob[p] = Held[p]
    <3>1. /\ rx.left \in Nat /\ p \in 1 .. FcBlob /\ p \in 1 .. rx.left + Len(wire)
          /\ p <= rx.left + n /\ p \in Nat
      BY <1>1, <2>2
    <3>2. CASE p <= rx.left
      <4>1. ~ (rx.left < p)
        BY <3>1, <3>2
      <4>2. blob[p] = rx.blob[p]
        BY <1>2, <3>1, <4>1
      <4>3. Held[p] = rx.blob[p]
        BY <2>2, <3>1, <3>2
      <4> QED BY <4>2, <4>3
    <3>3. CASE ~ (p <= rx.left)
      <4>1. rx.left < p
        BY <3>1, <3>3
      <4>2. blob[p] = wire[p - rx.left]
        BY <1>2, <3>1, <4>1
      <4>3. Held[p] = wire[p - rx.left]
        BY <2>2, <3>1, <3>3
      <4> QED BY <4>2, <4>3
    <3> QED BY <3>2, <3>3
  <2>4. blob[1] = Held[1] /\ Held[1] = ToWrite
    BY <1>1, <2>1, <2>2, <2>3 DEF Intact, Unbroken
  <2>5. HeadFound(blob)
    BY <1>1, <2>4, ToWriteIsHead DEF HeadFound
  <2>6. /\ z <= have /\ rx'.left = have - z /\ rx'.blob = moved
        /\ rx'.out = Append(rx.out, e)
        /\ rx'.state = IF IsLast(blob) THEN "wait" ELSE "receive"
    BY <1>1, <1>4, <1>6, <2>5 DEF Typed
  <2>7. z \in Nat \ {0} /\ \A i \in 1 .. have - z : moved[i] = blob[i + z]
    BY <1>3, <2>5, <2>6
  <2>8. z = BlobSize(blob)
    OBVIOUS
  <2> HIDE DEF z, moved
  <2>9. z <= Len(Held) /\ \A p \in 1 .. z : p \in DOMAIN blob => blob[p] = Held[p]
    <3>1. z \in Nat /\ have \in Nat /\ Len(Held) \in Nat /\ z <= have /\ have <= Len(Held)
      BY <1>1, <2>2, <2>6, <2>7
    <3> HIDE DEF have
    <3>2. \A p \in 1 .. z : p \in 1 .. have
      BY <3>1
    <3> QED BY <2>3, <3>1, <3>2
  <2>10. /\ blob[1].file \in Files /\ blob[1].no \in Nat /\ z \in 1 .. Len(Held)
         /\ ToWrite = [file |-> blob[1].file, no |-> blob[1].no, part |-> 1]
         /\ DataWhole(blob)
         /\ Unbroken(SubSeq(Held, z + 1, Len(Held)), Behind(blob[1].file, blob[1].no), ToSend)
    BY <1>1, <1>2, <2>1, <2>2, <2>4, <2>5, <2>8, <2>9, Take
  <2>11. Held' = SubSeq(Held, z + 1, Len(Held))
    <3>0. /\ rx.left \in Nat /\ n \in Nat /\ Len(wire) \in Nat /\ n <= Len(wire)
          /\ z \in Nat \ {0} /\ z <= rx.left + n /\ rx'.left = (rx.left + n) - z
          /\ Len(Held) = rx.left + Len(wire)
      BY <1>1, <2>2, <2>6, <2>7
    <3>1. Len(wire') = Len(wire) - n /\ \A i \in 1 .. Len(wire) - n : wire'[i] = wire[n + i]
      BY <1>1, <3>0
    <3>2. rx'.left + Len(wire') = Len(Held) - z
      <4>1. ((rx.left + n) - z) + (Len(wire) - n) = (rx.left + Len(wire)) - z
        BY <3>0
      <4> QED BY <3>0, <3>1, <4>1
    <3>3. ASSUME NEW i \in 1 .. Len(Held) - z
          PROVE  Held[z + i] = IF i <= rx'.left THEN rx'.blob[i] ELSE wire'[i - rx'.left]
      <4>1. CASE i <= rx'.left
        <5>1. i \in 1 .. have - z /\ i + z \in 1 .. have /\ z + i = i + z
          BY <3>0, <4>1
        <5> QED BY <2>3, <2>6, <2>7, <4>1, <5>1
      <4>2. CASE ~ (i <= rx'.left)
        <5>1. /\ z + i \in 1 .. rx.left + Len(wire) /\ ~ (z + i <= rx.left)
              /\ i - rx'.left \in 1 .. Len(wire) - n
              /\ (z + i) - rx.left = n + (i - rx'.left)
          <6> DEFINE w == Len(wire)
                     a == rx.left
                     b == rx'.left
          <6>1. /\ a \in Nat /\ b \in Int /\ n \in Nat /\ w \in Nat /\ z \in Nat \ {0} /\ n <= w
                /\ b = (a + n) - z /\ i \in Int /\ i >= 1 /\ i <= (a + w) - z /\ b < i
            BY <3>0, <4>2
          <6> HIDE DEF w, a, b
          <6>2. z + i \in 1 .. a + w /\ ~ (z + i <= a)
            BY <6>1
          <6>3. i - b \in 1 .. w - n /\ (z + i) - a = n + (i - b)
            BY <6>1
          <6> QED BY <6>2, <6>3 DEF w, a, b
        <5>2. Held[z + i] = wire[(z + i) - rx.left]
          BY <2>2, <5>1
        <5> QED BY <3>1, <4>2, <5>1, <5>2
      <4> QED BY <4>1, <4>2
    <3> QED BY <1>1, <1>5, <2>10, <3>2, <3>3, HeldRest
  <2>12. rx'.out = Append(rx.out, [file |-> blob[1].file, no |-> blob[1].no, ok |-> TRUE])
    BY <2>6, <2>10
  <2>13. rx'.state = IF blob[1].no = FcFiles[blob[1].file].packs THEN "wait" ELSE "receive"
    BY <2>6 DEF IsLast
  <2> QED BY <1>1, <2>1, <2>10, <2>11, <2>12, <2>13, Written
<1>7. Sending'
  BY <1>1 DEF Sending
<1> QED BY <1>5, <1>6, <1>7 DEF IInv

LEMMA NextIInv == IInv /\ [FcNext]_fcvars => IInv'
<1> SUFFICES ASSUME IInv, [FcNext]_fcvars PROVE IInv'
  OBVIOUS
<1>1. Typed /\ Len(wire) \in Nat /\ FcFirst \in Nat /\ FcBlob \in Nat /\ rx.left \in Nat
  BY FcAssumption DEF IInv, Typed
<1>2. CASE ServerAccept
  <2>1. /\ rx.state = "new" /\ rx' = [rx EXCEPT !.state = "wait"] /\ UNCHANGED <<tx, wire>>
    BY <1>2 DEF ServerAccept
  <2>2. Typed'
    BY <1>1, <2>1 DEF Typed
  <2>3. /\ rx'.blob = rx.blob /\ rx'.left = rx.left /\ rx'.out = rx.out /\ rx'.cut = rx.cut
        /\ rx'.state = "wait"
    BY <1>1, <2>1 DEF Typed
  <2>4. Held' = Held /\ ToWrite' = ToWrite /\ ToSend' = ToSend
    <3>1. Held' = Held
      BY <2>1, <2>3 DEF Held
    <3>2. ToWrite' = ToWrite
      BY <2>3 DEF ToWrite
    <3>3. ToSend' = ToSend
      BY <2>1 DEF ToSend
    <3> QED BY <3>1, <3>2, <3>3
  <2> QED BY <2>1, <2>2, <2>3, <2>4 DEF IInv, Intact, Sending
<1>3. CASE ServerRead
  <2>1. CASE rx.state = "wait"
    <3>1. PICK n \in Arrived(FcFirst) :
             ServerStart(n) /\ wire' = SubSeq(wire, n + 1, Len(wire)) /\ UNCHANGED tx
      BY <1>3, <2>1 DEF ServerRead
    <3>2. n \in 1 .. Len(wire)
      BY <1>1 DEF Arrived, Least
    <3> QED BY <2>1, <3>1, <3>2, StartStep
  <2>2. CASE rx.state = "receive"
    <3>1. PICK n \in Arrived(FcBlob - rx.left) :
             ServerReceive(n) /\ wire' = SubSeq(wire, n + 1, Len(wire)) /\ UNCHANGED tx
      BY <1>3, <2>2 DEF ServerRead
    <3>2. n \in 1 .. Len(wire) /\ n <= FcBlob - rx.left
      BY <1>1 DEF Arrived, Least
    <3> QED BY <2>2, <3>1, <3>2, ReceiveStep
  <2> QED BY <1>3, <2>1, <2>2 DEF ServerRead
<1>4. CASE UNCHANGED fcvars
  <2>1. tx' = tx /\ wire' = wire /\ rx' = rx
    BY <1>4 DEF fcvars
  <2>2. Held' = Held /\ ToWrite' = ToWrite /\ ToSend' = ToSend
    BY <2>1 DEF Held, ToWrite, ToSend
  <2> QED BY <2>1, <2>2 DEF IInv, Typed, Sending, Intact
<1> QED BY <1>2, <1>3, <1>4, ClientStep DEF FcNext

(* The invariant in the words of the property: the next piece is the head  *)
(* of the package behind the last one written.                             *)
LEMMA InvIntact == IInv => FcFileIntact
<1> SUFFICES ASSUME IInv PROVE FcFileIntact
  OBVIOUS
<1>1. FcTypeOK
  BY DEF IInv, Typed, FcTypeOK
<1>2. ASSUME ~rx.cut, Held # <<>>, rx.out # <<>>
      PROVE  Held[1].part = 1 /\ Follows(Held[1], rx.out[Len(rx.out)])
  <2> DEFINE l == rx.out[Len(rx.out)]
  <2>1. Typed /\ Held[1] = ToWrite
    BY <1>2 DEF IInv, Intact, Unbroken
  <2>2. l \in Entry
    BY <1>2, <2>1 DEF Typed
  <2>3. PackSize(l.file, l.no) \in Nat
    BY <2>2, Sizes DEF Entry
  <2>4. ToWrite = Behind(l.file, l.no)
    BY <1>2 DEF ToWrite
  <2> QED BY <2>1, <2>3, <2>4, ToWriteIsHead DEF Behind, Succ, Follows
<1>3. FcNothingLost
  <2> SUFFICES ASSUME ~rx.cut
               PROVE  /\ rx.state # "garbled"
                      /\ \A i \in DOMAIN rx.out : rx.out[i].ok
                      /\ \A i \in 1 .. Len(rx.out) : i > 1 => Follows(rx.out[i], rx.out[i - 1])
                      /\ Held # <<>> /\ rx.out # <<>> =>
                            Held[1].part = 1 /\ Follows(Held[1], rx.out[Len(rx.out)])
    BY DEF FcNothingLost, Follows
  <2>1. Intact /\ rx.out \in Seq(Entry)
    BY DEF IInv, Typed
  <2>2. DOMAIN rx.out = 1 .. Len(rx.out)
    BY <2>1
  <2> QED BY <1>2, <2>1, <2>2 DEF Intact
<1>4. FcFollowsFile
  BY DEF IInv, Intact, FcFollowsFile
<1> QED BY <1>1, <1>3, <1>4 DEF FcFileIntact

(* What the file channel carries is intact and in order, and the receiver  *)
(* knows where a file ends, whatever the sizes of files, packages and      *)
(* reads, until a read is cut.                                             *)
THEOREM FileIntactCorrect == FcSpec => []FcFileIntact
<1>1. IInv => FcFileIntact
  BY InvIntact
<1>2. FcInit => IInv
  BY InitIInv
<1>3. IInv /\ [FcNext]_fcvars => IInv'
  BY NextIInv
<1> QED BY <1>1, <1>2, <1>3, PTL DEF FcSpec

-----------------------------------------------------------------------------
(* HttpAgent.  g says what the state does not keep: all messages posted    *)
(* (log) and, for each, where the agent stood when it came (from); of the  *)
(* agent and its children, which messages they have in front of them       *)
(* (first to last), at which message they were forked (born, 0 for the     *)
(* agent), and at which messages they or those they come from were (label).*)

HaMessages ==
    {m \in [kind : {r.kind : r \in HaRequests}, name : {r.name : r \in HaRequests},
            uuid : {r.uuid : r \in HaRequests}, id : Nat, ahead : Nat] :
        m.kind = "server" => m.uuid \in DOMAIN HaServers}
HaAgents == [queue : Seq(HaMessages), db : SUBSET DOMAIN HaServers]

(* The commands in front of message k when it came *)
HaAhead(g, k) == {d \in g.from[k] .. k - 1 : g.log[d].kind \in Commands}

HaLog(g) ==
    /\ posted \in 0 .. HaMaxMsgs
    /\ g.log \in Seq(HaMessages) /\ Len(g.log) = posted
    /\ g.from \in [1 .. posted -> Nat]
    /\ \A k \in 1 .. posted : /\ g.log[k].id = k /\ g.from[k] \in 1 .. k
                              /\ g.log[k].ahead = Cardinality(HaAhead(g, k))

(* Every agent takes the messages in the order they came, from the first   *)
(* on, or comes from one that did.                                         *)
HaRegistered(g, n) == {g.log[j].uuid : j \in {i \in 1 .. n - 1 : g.log[i].kind = "server"}}
HaQueued(g, a) == [k \in 1 .. g.last[a] - g.first[a] + 1 |-> g.log[g.first[a] + k - 1]]

HaStands(g, a) ==
    /\ g.first[a] \in 1 .. g.last[a] + 1 /\ g.last[a] \in 0 .. posted
    /\ agents[a] = [queue |-> HaQueued(g, a), db |-> HaRegistered(g, g.first[a])]
    /\ \A m \in 1 .. g.last[a] : g.from[m] <= g.first[a]

HaPlaces(g) ==
    /\ agents \in Seq(HaAgents) /\ Len(agents) >= 1
    /\ g.first \in [DOMAIN agents -> Nat] /\ g.last \in [DOMAIN agents -> Nat]
    /\ g.last[1] = posted
    /\ \A a \in DOMAIN agents : HaStands(g, a)

(* The labels tell the agents apart, by a message that both have handled.  *)
HaApart(g, a, b) ==
    \E d \in 1 .. g.first[a] - 1 :
        d < g.first[b] /\ ~(d \in g.label[a] <=> d \in g.label[b])

HaForked(g, a) ==
    /\ g.label[a] \subseteq 1 .. g.first[a] - 1
    /\ \A d \in g.label[a] : /\ g.log[d].kind \in Commands
                             /\ \A m \in 1 .. g.last[a] : g.from[m] <= d
    /\ g.born[a] \in 0 .. g.first[a] - 1 /\ g.label[a] \subseteq 1 .. g.born[a]
    /\ g.born[a] > 0 => g.born[a] \in g.label[a]

HaFamily(g) ==
    /\ g.born \in [DOMAIN agents -> Nat] /\ DOMAIN g.label = DOMAIN agents
    /\ g.born[1] = 0
    /\ \A a \in DOMAIN agents : HaForked(g, a)
    /\ \A a, b \in DOMAIN agents : a # b => HaApart(g, a, b)

(* A command runs where the records registered before it find a server of  *)
(* its mode.                                                               *)
HaMode(kind) == IF kind = "start" THEN 1 ELSE 2
HaRuns(g, k) ==
    /\ g.log[k].kind \in Commands
    /\ \E s \in Found(HaRegistered(g, k), g.log[k]) : HaServers[s].mode = HaMode(g.log[k].kind)

HaBornAt(g, k) == {a \in DOMAIN agents : g.born[a] = k}

HaRan(g) ==
    /\ ran \in [1 .. HaMaxMsgs -> Nat]
    /\ \A k \in 1 .. HaMaxMsgs : ran[k] = Cardinality(HaBornAt(g, k))
    /\ \A a \in DOMAIN agents : g.born[a] > 0 => HaRuns(g, g.born[a])

HaSent(g) ==
    /\ sent \in Seq([id : Nat, what : {"types", "refused", "forwarded", "exist", "notfound"}])
    /\ Len(sent) < g.first[1]
    /\ \A i \in DOMAIN sent : sent[i].id \in 1 .. g.first[1] - 1
    /\ \A i, j \in DOMAIN sent : sent[i].id = sent[j].id => i = j
    /\ \A k \in 1 .. g.first[1] - 1 :
          HaRuns(g, k) => \E i \in DOMAIN sent : sent[i] = [id |-> k, what |-> "forwarded"]

HaWhole(g) == HaLog(g) /\ HaPlaces(g) /\ HaFamily(g) /\ HaRan(g) /\ HaSent(g)
HaInv == \E g : HaWhole(g)

-----------------------------------------------------------------------------
LEMMA HaInvInit == HaInit => HaInv
<1> SUFFICES ASSUME HaInit PROVE HaInv
  OBVIOUS
<1> DEFINE g == [log |-> <<>>, from |-> <<>>, first |-> <<1>>, last |-> <<0>>,
                 born |-> <<0>>, label |-> <<{}>>]
<1>0. /\ g.log = <<>> /\ g.from = <<>> /\ g.first = <<1>> /\ g.last = <<0>>
      /\ g.born = <<0>> /\ g.label = <<{}>>
  OBVIOUS
<1>9. g.first[1] = 1 /\ g.last[1] = 0 /\ g.born[1] = 0 /\ g.label[1] = {}
  BY <1>0
<1>1. /\ agents = <<[queue |-> <<>>, db |-> {}]>> /\ posted = 0 /\ sent = <<>>
      /\ ran = [i \in 1 .. HaMaxMsgs |-> 0] /\ HaMaxMsgs \in Nat
  BY HaAssumption DEF HaInit
<1> HIDE DEF g
<1>2. HaLog(g)
  <2>1. g.from \in [1 .. 0 -> Nat]
    BY <1>0
  <2> QED BY <1>0, <1>1, <2>1 DEF HaLog
<1>3. DOMAIN agents = {1} /\ Len(agents) = 1 /\ agents[1] = [queue |-> <<>>, db |-> {}]
  BY <1>1
<1>4. HaPlaces(g)
  <2>1. HaQueued(g, 1) = <<>>
    BY <1>9 DEF HaQueued
  <2>2. HaRegistered(g, g.first[1]) = {}
    BY <1>9 DEF HaRegistered
  <2>3. HaStands(g, 1)
    <3>1. agents[1] = [queue |-> HaQueued(g, 1), db |-> HaRegistered(g, g.first[1])]
      BY <1>3, <2>1, <2>2
    <3> QED BY <1>9, <1>1, <3>1 DEF HaStands
  <2>4. agents \in Seq(HaAgents)
    BY <1>1 DEF HaAgents
  <2> QED BY <1>0, <1>9, <1>1, <1>3, <2>3, <2>4 DEF HaPlaces
<1>5. HaFamily(g)
  BY <1>0, <1>9, <1>3 DEF HaFamily, HaForked
<1>6. HaRan(g)
  <2>1. ASSUME NEW k \in 1 .. HaMaxMsgs PROVE HaBornAt(g, k) = {}
    BY <1>9, <1>1, <1>3 DEF HaBornAt
  <2>2. \A k \in 1 .. HaMaxMsgs : ran[k] = 0 /\ Cardinality(HaBornAt(g, k)) = 0
    BY <1>1, <2>1, FS_EmptySet
  <2>3. ran \in [1 .. HaMaxMsgs -> Nat]
    BY <1>1
  <2> QED BY <1>9, <1>3, <2>2, <2>3 DEF HaRan
<1>7. HaSent(g)
  BY <1>9, <1>1 DEF HaSent
<1> QED BY <1>2, <1>4, <1>5, <1>6, <1>7 DEF HaInv, HaWhole

-----------------------------------------------------------------------------
(* The message an agent takes, and what is left of its queue *)
LEMMA HaTakes ==
    ASSUME NEW g, HaLog(g), HaPlaces(g), NEW a \in DOMAIN agents, agents[a].queue # <<>>
    PROVE  /\ g.first[a] \in 1 .. g.last[a] /\ g.last[a] \in 1 .. posted
           /\ Head(agents[a].queue) = g.log[g.first[a]]
           /\ Tail(agents[a].queue) =
                [k \in 1 .. g.last[a] - g.first[a] |-> g.log[g.first[a] + k]]
           /\ agents[a].db = HaRegistered(g, g.first[a])
           /\ g.log[g.first[a]] \in HaMessages /\ g.log[g.first[a]].id = g.first[a]
<1> DEFINE q == agents[a].queue
           n == g.last[a] - g.first[a] + 1
<1>1. HaStands(g, a) /\ posted \in Nat /\ agents[a] \in HaAgents
  BY DEF HaPlaces, HaLog
<1>2. q = [k \in 1 .. n |-> g.log[g.first[a] + k - 1]] /\ agents[a].db = HaRegistered(g, g.first[a])
  BY <1>1 DEF HaStands, HaQueued
<1>3. n \in Nat /\ q \in Seq(HaMessages) /\ g.first[a] \in Nat /\ g.last[a] \in Nat
  BY <1>1 DEF HaStands, HaAgents
<1> HIDE DEF q
<1>4. Len(q) = n /\ n # 0
  <2>1. DOMAIN q = 1 .. n
    BY <1>2
  <2> QED BY <1>3, <2>1 DEF q
<1>5. g.first[a] \in 1 .. g.last[a] /\ g.last[a] \in 1 .. posted
  BY <1>1, <1>3, <1>4 DEF HaStands
<1>6. Head(q) = g.log[g.first[a]]
  BY <1>2, <1>3, <1>4
<1>7. Tail(q) = [k \in 1 .. n - 1 |-> g.log[g.first[a] + k]]
  <2>1. /\ Tail(q) \in Seq(HaMessages) /\ Len(Tail(q)) = n - 1
        /\ \A k \in 1 .. n - 1 : Tail(q)[k] = q[k + 1]
    BY <1>3, <1>4
  <2>3. Tail(q) = [k \in 1 .. n - 1 |-> Tail(q)[k]]
    <3> DEFINE t == Tail(q)
    <3> HIDE DEF t
    <3>1. t \in Seq(HaMessages) /\ Len(t) = n - 1
      BY <2>1 DEF t
    <3>2. t \in [1 .. n - 1 -> HaMessages]
      BY <3>1
    <3>3. t = [k \in 1 .. n - 1 |-> t[k]]
      BY <3>2
    <3> QED BY <3>3 DEF t
  <2>2. ASSUME NEW k \in 1 .. n - 1 PROVE q[k + 1] = g.log[g.first[a] + k]
    BY <1>2, <1>3
  <2> QED BY <2>1, <2>2, <2>3
<1>8. g.log[g.first[a]] \in HaMessages /\ g.log[g.first[a]].id = g.first[a]
  BY <1>5 DEF HaLog
<1> QED BY <1>2, <1>3, <1>5, <1>6, <1>7, <1>8, SMTT(30) DEF q

(* One record more, if the message was one *)
LEMMA HaOneMore ==
    ASSUME NEW g, NEW h \in Nat \ {0}
    PROVE  HaRegistered(g, h + 1) = HaRegistered(g, h)
                \cup (IF g.log[h].kind = "server" THEN {g.log[h].uuid} ELSE {})
<1>1. 1 .. (h + 1) - 1 = (1 .. h - 1) \cup {h}
  OBVIOUS
<1> QED BY <1>1 DEF HaRegistered

LEMMA HaSameLog ==
    ASSUME NEW g, NEW g2, g2.log = g.log, NEW k
    PROVE  HaRegistered(g2, k) = HaRegistered(g, k) /\ (HaRuns(g2, k) <=> HaRuns(g, k))
BY DEF HaRegistered, HaRuns

(* Records are of the SERVER records. *)
LEMMA HaKnownServers ==
    ASSUME NEW g, HaLog(g), NEW n \in 1 .. posted + 1
    PROVE  HaRegistered(g, n) \subseteq DOMAIN HaServers
<1>1. ASSUME NEW j \in 1 .. n - 1, g.log[j].kind = "server" PROVE g.log[j].uuid \in DOMAIN HaServers
  <2>1. g.log[j] \in HaMessages
    BY DEF HaLog
  <2> QED BY <1>1, <2>1 DEF HaMessages
<1> QED BY <1>1 DEF HaRegistered

-----------------------------------------------------------------------------
(* What the agent sends when it takes a message: only the agent, at most   *)
(* once, and the message itself if its command ran.                        *)
LEMMA HaSays ==
    ASSUME NEW g, HaLog(g), HaPlaces(g), HaSent(g), NEW a \in DOMAIN agents, agents[a].queue # <<>>,
           NEW h, h = g.first[a],
           NEW g2, g2.log = g.log, g2.first[1] = IF a = 1 THEN h + 1 ELSE g.first[1],
           NEW w \in {"types", "refused", "forwarded", "exist", "notfound"},
           \/ sent' = sent /\ (a = 1 => ~HaRuns(g, h))
           \/ /\ sent' = IF a = 1 THEN Append(sent, [id |-> h, what |-> w]) ELSE sent
              /\ HaRuns(g, h) => w = "forwarded"
    PROVE  HaSent(g2)'
<1> DEFINE K == {"types", "refused", "forwarded", "exist", "notfound"}
<1>0. \A k : HaRuns(g2, k) <=> HaRuns(g, k)
  BY HaSameLog
<1>1. /\ g.first \in [DOMAIN agents -> Nat] /\ 1 \in DOMAIN agents
      /\ h \in Nat \ {0} /\ sent \in Seq([id : Nat, what : K])
  <2>1. h \in 1 .. g.last[a] /\ g.last[a] \in 1 .. posted
    BY HaTakes
  <2>2. g.first \in [DOMAIN agents -> Nat] /\ 1 \in DOMAIN agents
    BY DEF HaPlaces
  <2>3. sent \in Seq([id : Nat, what : K])
    BY DEF HaSent
  <2> QED BY <2>1, <2>2, <2>3
<1>2. CASE a # 1
  <2>1. g2.first[1] = g.first[1] /\ sent' = sent
    BY <1>1, <1>2
  <2> QED BY <1>0, <2>1 DEF HaSent
<1>3. CASE a = 1 /\ sent' = sent /\ ~HaRuns(g, h)
  <2>1. g2.first[1] = h + 1 /\ sent' = sent /\ g.first[1] = h
    BY <1>1, <1>3
  <2>2. \A k \in 1 .. h : HaRuns(g, k) => k \in 1 .. h - 1
    BY <1>1, <1>3
  <2> QED BY <1>0, <1>1, <2>1, <2>2 DEF HaSent
<1>4. CASE a = 1 /\ sent' = Append(sent, [id |-> h, what |-> w]) /\ (HaRuns(g, h) => w = "forwarded")
  <2> DEFINE n == Len(sent)
             r == [id |-> h, what |-> w]
  <2>1. g2.first[1] = h + 1 /\ g.first[1] = h /\ r \in [id : Nat, what : K] /\ n \in Nat
    BY <1>1, <1>4
  <2>2. /\ sent' \in Seq([id : Nat, what : K]) /\ Len(sent') = n + 1
        /\ DOMAIN sent' = 1 .. n + 1 /\ DOMAIN sent = 1 .. n
        /\ \A i \in 1 .. n : sent'[i] = sent[i]
        /\ sent'[n + 1] = r
    BY <1>1, <1>4, <2>1
  <2>3. \A i \in 1 .. n : sent'[i].id \in 1 .. h - 1 /\ sent'[i].id < h
    BY <1>1, <2>1, <2>2 DEF HaSent
  <2>4. sent'[n + 1].id = h
    BY <2>2
  <2>5. \A i, j \in 1 .. n : sent'[i].id = sent'[j].id => i = j
    BY <2>2 DEF HaSent
  <2>6. \A i, j \in 1 .. n + 1 : sent'[i].id = sent'[j].id => i = j
    <3>1. \A i \in 1 .. n + 1 : i = n + 1 \/ i \in 1 .. n
      BY <2>1
    <3>2. \A i \in 1 .. n : sent'[i].id # sent'[n + 1].id
      BY <1>1, <2>3, <2>4
    <3> QED BY <2>5, <3>1, <3>2
  <2>7. n < h
    BY <2>1 DEF HaSent
  <2>8. ASSUME NEW k \in 1 .. h, HaRuns(g, k)
        PROVE  \E i \in 1 .. n + 1 : sent'[i] = [id |-> k, what |-> "forwarded"]
    <3>1. CASE k = h
      BY <1>4, <2>1, <2>2, <2>8, <3>1
    <3>2. CASE k \in 1 .. h - 1
      BY <2>1, <2>2, <2>8, <3>2 DEF HaSent
    <3>3. k = h \/ k \in 1 .. h - 1
      BY <1>1
    <3> QED BY <3>1, <3>2, <3>3
  <2>9. \A i \in 1 .. n + 1 : sent'[i].id \in 1 .. h
    BY <1>1, <2>1, <2>3, <2>4
  <2> HIDE DEF n, r
  <2>10. \A k \in 1 .. (h + 1) - 1 : HaRuns(g, k) => \E i \in DOMAIN sent' :
                sent'[i] = [id |-> k, what |-> "forwarded"]
    <3>1. (h + 1) - 1 = h
      BY <1>1
    <3> QED BY <2>2, <2>8, <3>1
  <2> QED BY <1>0, <1>1, <2>1, <2>2, <2>6, <2>7, <2>9, <2>10 DEF HaSent
<1> QED BY <1>2, <1>3, <1>4

-----------------------------------------------------------------------------
(* A round that forks nobody: what agent a, or every agent, is after it, *)
HaLeft(g, a) == [queue |-> Tail(agents[a].queue), db |-> HaRegistered(g, g.first[a] + 1)]
HaWith(a, x) == [agents EXCEPT ![a] = x]

(* and what g becomes *)
HaMoved(g, g2, a) ==
    /\ g2.log = g.log /\ g2.from = g.from /\ g2.last = g.last /\ g2.born = g.born
    /\ g2.label = g.label /\ g2.first = [g.first EXCEPT ![a] = g.first[a] + 1]

LEMMA HaMoves ==
    ASSUME NEW g, HaLog(g), HaPlaces(g), HaFamily(g), HaRan(g),
           NEW a \in DOMAIN agents, agents[a].queue # <<>>,
           NEW g2, HaMoved(g, g2, a), posted' = posted, ran' = ran,
           agents' = HaWith(a, HaLeft(g, a))
    PROVE  HaLog(g2)' /\ HaPlaces(g2)' /\ HaFamily(g2)' /\ HaRan(g2)'
<1> DEFINE h == g.first[a]
<1>0. /\ g2.log = g.log /\ g2.from = g.from /\ g2.last = g.last /\ g2.born = g.born
      /\ g2.label = g.label /\ g2.first = [g.first EXCEPT ![a] = h + 1]
      /\ agents' = [agents EXCEPT ![a] = [queue |-> Tail(agents[a].queue),
                                          db |-> HaRegistered(g, h + 1)]]
  BY DEF HaMoved, HaLeft, HaWith
<1>1. /\ h \in 1 .. g.last[a] /\ g.last[a] \in 1 .. posted /\ posted \in Nat
      /\ g.first \in [DOMAIN agents -> Nat] /\ h \in Nat \ {0}
  <2>1. h \in 1 .. g.last[a] /\ g.last[a] \in 1 .. posted
    BY <1>0, HaTakes
  <2>2. g.first \in [DOMAIN agents -> Nat] /\ g.last \in [DOMAIN agents -> Nat]
    BY <1>0 DEF HaPlaces
  <2>3. posted \in Nat
    BY <1>0 DEF HaLog
  <2> QED BY <1>0, <2>1, <2>2, <2>3
<1>2. HaLog(g2)'
  <2>1. \A k : HaAhead(g2, k) = HaAhead(g, k)
    BY <1>0 DEF HaAhead
  <2> QED BY <1>0, <2>1 DEF HaLog
<1>3. /\ DOMAIN agents' = DOMAIN agents /\ g2.first[a] = h + 1
      /\ \A b \in DOMAIN agents : b # a => g2.first[b] = g.first[b] /\ agents'[b] = agents[b]
      /\ \A b \in DOMAIN agents : g2.first[b] >= g.first[b] /\ g.first[b] \in Nat /\ g2.first[b] \in Nat
  BY <1>0, <1>1
<1>4. agents' \in Seq(HaAgents) /\ Len(agents') = Len(agents)
  <2>1. [queue |-> Tail(agents[a].queue), db |-> HaRegistered(g, h + 1)] \in HaAgents
    <3>1. HaRegistered(g, h + 1) \subseteq DOMAIN HaServers
      <4>1. h + 1 \in 1 .. posted + 1
        BY <1>0, <1>1
      <4> QED BY <1>0, <4>1, HaKnownServers
    <3>2. agents[a].queue \in Seq(HaMessages)
      <4>1. agents[a] \in HaAgents
        BY <1>0 DEF HaPlaces
      <4> QED BY <1>0, <4>1 DEF HaAgents
    <3> QED BY <1>0, <3>1, <3>2 DEF HaAgents
  <2> QED BY <1>0, <2>1 DEF HaPlaces
<1>5. \A b \in DOMAIN agents : HaStands(g2, b)'
  <2>1. ASSUME NEW b \in DOMAIN agents, b # a PROVE HaStands(g2, b)'
    <3>1. HaQueued(g2, b) = HaQueued(g, b)
      BY <1>0, <1>3, <2>1 DEF HaQueued
    <3>2. HaStands(g, b) /\ HaRegistered(g2, g2.first[b]) = HaRegistered(g, g.first[b])
      BY <1>0, <1>3, <2>1, HaSameLog DEF HaPlaces
    <3> QED BY <1>0, <1>3, <2>1, <3>1, <3>2 DEF HaStands
  <2>2. HaStands(g2, a)'
    <3>1. HaQueued(g2, a) = Tail(agents[a].queue)
      <4>1. Tail(agents[a].queue) = [k \in 1 .. g.last[a] - h |-> g.log[h + k]]
        BY <1>0, HaTakes
      <4>2. g2.last[a] - g2.first[a] + 1 = g.last[a] - h
        BY <1>0, <1>1, <1>3
      <4>3. \A k \in 1 .. g.last[a] - h : g2.first[a] + k - 1 = h + k
        BY <1>0, <1>1, <1>3
      <4> QED BY <1>0, <4>1, <4>2, <4>3 DEF HaQueued
    <3>2. agents'[a] = [queue |-> HaQueued(g2, a), db |-> HaRegistered(g2, g2.first[a])]
      <4>1. agents'[a] = [queue |-> Tail(agents[a].queue), db |-> HaRegistered(g, h + 1)]
        BY <1>0 DEF HaPlaces
      <4>2. HaRegistered(g2, g2.first[a]) = HaRegistered(g, h + 1)
        BY <1>0, <1>3, HaSameLog
      <4> QED BY <1>0, <3>1, <4>1, <4>2
    <3>3. /\ \A m \in 1 .. g.last[a] : g.from[m] <= g.first[a] /\ g.from[m] \in Nat
          /\ g.last[a] \in 0 .. posted
      BY <1>0, <1>1, SMTT(30) DEF HaPlaces, HaStands, HaLog
    <3> QED BY <1>0, <1>1, <1>3, <3>2, <3>3 DEF HaStands
  <2> QED BY <1>0, <2>1, <2>2
<1>6. HaPlaces(g2)'
  <2>1. g2.first \in [DOMAIN agents -> Nat]
    BY <1>0, <1>1
  <2> QED BY <1>0, <1>3, <1>4, <1>5, <2>1 DEF HaPlaces
<1>7. HaFamily(g2)'
  <2>1. ASSUME NEW b \in DOMAIN agents PROVE HaForked(g2, b)'
    <3>1. HaForked(g, b)
      BY <1>0 DEF HaFamily
    <3>2. 1 .. g.first[b] - 1 \subseteq 1 .. g2.first[b] - 1
      BY <1>0, <1>3
    <3>3. 0 .. g.first[b] - 1 \subseteq 0 .. g2.first[b] - 1
      BY <1>0, <1>3
    <3> QED BY <1>0, <3>1, <3>2, <3>3 DEF HaForked
  <2>2. ASSUME NEW b \in DOMAIN agents, NEW c \in DOMAIN agents, b # c PROVE HaApart(g2, b, c)
    <3>1. HaApart(g, b, c)
      BY <1>0, <2>2 DEF HaFamily
    <3>2. g.first[b] <= g2.first[b] /\ g.first[c] <= g2.first[c]
      BY <1>0, <1>3
    <3> QED BY <1>0, <1>3, <3>1, <3>2 DEF HaApart
  <2> QED BY <1>0, <1>3, <2>1, <2>2 DEF HaFamily
<1>8. HaRan(g2)'
  <2>1. \A k : HaBornAt(g2, k)' = HaBornAt(g, k)
    BY <1>0, <1>3 DEF HaBornAt
  <2>2. \A k : HaRuns(g2, k) <=> HaRuns(g, k)
    BY <1>0, HaSameLog
  <2> QED BY <1>0, <1>3, <2>1, <2>2 DEF HaRan
<1> QED BY <1>0, <1>2, <1>6, <1>7, <1>8

-----------------------------------------------------------------------------
(* A round that forks a child, agent n: what g becomes, *)
HaGrown(g, g2, a, h, n) ==
    /\ n \in Nat /\ a \in 1 .. n - 1 /\ h \in Nat \ {0} /\ h = g.first[a]
    /\ g2.log = g.log /\ g2.from = g.from
    /\ g2.first \in [1 .. n -> Nat] /\ g2.last \in [1 .. n -> Nat]
    /\ g2.born \in [1 .. n -> Nat] /\ DOMAIN g2.label = 1 .. n
    /\ g2.first[n] = h + 1 /\ g2.last[n] = g.last[a] /\ g2.first[a] = h + 1
    /\ g2.born[n] = h /\ g2.label[n] = g.label[a] \cup {h}
    /\ \A b \in 1 .. n - 1 :
          /\ g2.last[b] = g.last[b] /\ g2.born[b] = g.born[b] /\ g2.label[b] = g.label[b]
          /\ g.first[b] \in Nat /\ g2.first[b] >= g.first[b]
          /\ b # a => g2.first[b] = g.first[b]

(* and the agents; x is what the agent is then, and the child as well. *)
HaParted(x, a, n) ==
    /\ agents' \in Seq(HaAgents) /\ Len(agents') = n
    /\ DOMAIN agents = 1 .. n - 1 /\ DOMAIN agents' = 1 .. n
    /\ agents'[n] = x /\ agents'[a] = x
    /\ \A b \in 1 .. n - 1 : b # a => agents'[b] = agents[b]

LEMMA HaGrows ==
    ASSUME NEW g, HaPlaces(g), HaFamily(g), NEW a \in DOMAIN agents, NEW h \in Nat \ {0},
           h = g.first[a], NEW n, n = Len(agents) + 1
    PROVE  \E g2 : HaGrown(g, g2, a, h, n)
<1> DEFINE f2 == [b \in 1 .. n |-> IF b \in {a, n} THEN h + 1 ELSE g.first[b]]
           l2 == [b \in 1 .. n |-> IF b = n THEN g.last[a] ELSE g.last[b]]
           b2 == [b \in 1 .. n |-> IF b = n THEN h ELSE g.born[b]]
           s2 == [b \in 1 .. n |-> IF b = n THEN g.label[a] \cup {h} ELSE g.label[b]]
           g2 == [log |-> g.log, from |-> g.from, first |-> f2, last |-> l2, born |-> b2,
                  label |-> s2]
<1>1. /\ n \in Nat /\ DOMAIN agents = 1 .. n - 1 /\ a \in 1 .. n /\ n \in 1 .. n /\ a # n
      /\ \A b \in 1 .. n - 1 : b \in 1 .. n /\ b # n
      /\ \A b \in 1 .. n : b = n \/ b \in 1 .. n - 1
  BY DEF HaPlaces
<1>2. /\ g.first \in [1 .. n - 1 -> Nat] /\ g.last \in [1 .. n - 1 -> Nat]
      /\ g.born \in [1 .. n - 1 -> Nat]
  BY <1>1 DEF HaPlaces, HaFamily
<1>3. /\ f2 \in [1 .. n -> Nat] /\ f2[n] = h + 1 /\ f2[a] = h + 1
      /\ \A b \in 1 .. n - 1 : b # a => f2[b] = g.first[b]
  BY <1>1, <1>2
<1>4. /\ l2 \in [1 .. n -> Nat] /\ l2[n] = g.last[a]
      /\ \A b \in 1 .. n - 1 : l2[b] = g.last[b]
  BY <1>1, <1>2
<1>5. b2 \in [1 .. n -> Nat] /\ b2[n] = h /\ \A b \in 1 .. n - 1 : b2[b] = g.born[b]
  BY <1>1, <1>2
<1>6. /\ DOMAIN s2 = 1 .. n /\ s2[n] = g.label[a] \cup {h}
      /\ \A b \in 1 .. n - 1 : s2[b] = g.label[b]
  BY <1>1
<1>7. /\ g2.log = g.log /\ g2.from = g.from /\ g2.first = f2 /\ g2.last = l2
      /\ g2.born = b2 /\ g2.label = s2
  OBVIOUS
<1> HIDE DEF g2, f2, l2, b2, s2
<1>8. ASSUME NEW b \in 1 .. n - 1 PROVE g.first[b] \in Nat /\ f2[b] >= g.first[b]
  <2>1. g.first[b] \in Nat
    BY <1>2
  <2>2. CASE b = a
    <3>1. f2[b] = g.first[b] + 1
      BY <1>3, <2>2
    <3> QED BY <2>1, <3>1
  <2>3. CASE b # a
    <3>1. f2[b] = g.first[b]
      BY <1>3, <2>3
    <3> QED BY <2>1, <3>1
  <2> QED BY <2>2, <2>3
<1>9. HaGrown(g, g2, a, h, n)
  BY <1>1, <1>3, <1>4, <1>5, <1>6, <1>7, <1>8 DEF HaGrown
<1> QED BY <1>9

LEMMA HaParts ==
    ASSUME agents \in Seq(HaAgents), NEW a \in DOMAIN agents, NEW n, n = Len(agents) + 1,
           NEW x \in HaAgents, agents' = Append(HaWith(a, x), x)
    PROVE  HaParted(x, a, n)
<1> DEFINE rest == [agents EXCEPT ![a] = x]
<1>1. n \in Nat /\ Len(agents) = n - 1 /\ DOMAIN agents = 1 .. n - 1
  OBVIOUS
<1>2. /\ rest \in Seq(HaAgents) /\ Len(rest) = n - 1 /\ rest[a] = x
      /\ \A b \in 1 .. n - 1 : b # a => rest[b] = agents[b]
  BY <1>1
<1>3. agents' = Append(rest, x)
  BY DEF HaWith
<1> HIDE DEF rest
<1>4. /\ agents' \in Seq(HaAgents) /\ Len(agents') = n /\ agents'[n] = x
      /\ \A b \in 1 .. n - 1 : agents'[b] = rest[b]
  BY <1>1, <1>2, <1>3
<1> QED BY <1>1, <1>2, <1>4 DEF HaParted

LEMMA HaForkPlaces ==
    ASSUME NEW g, HaLog(g), HaPlaces(g), NEW a \in DOMAIN agents, agents[a].queue # <<>>,
           NEW h, NEW n, NEW g2, HaGrown(g, g2, a, h, n), NEW x, HaParted(x, a, n),
           x = [queue |-> Tail(agents[a].queue), db |-> HaRegistered(g, h + 1)],
           posted' = posted
    PROVE  HaLog(g2)' /\ HaPlaces(g2)'
<1>0. g2.log = g.log /\ g2.from = g.from /\ h = g.first[a] /\ g2.last[a] = g.last[a]
  BY DEF HaGrown
<1>1. h \in 1 .. g.last[a] /\ g.last[a] \in 1 .. posted
  BY <1>0, HaTakes
<1>2. HaLog(g2)'
  <2>1. \A k : HaAhead(g2, k) = HaAhead(g, k)
    BY <1>0 DEF HaAhead
  <2> QED BY <1>0, <2>1 DEF HaLog
<1>3. posted \in Nat /\ g.last[a] \in Nat /\ h \in Nat
  BY <1>1, SMTT(30) DEF HaLog, HaGrown
<1>4. ASSUME NEW b, g2.last[b] = g.last[a], g2.first[b] = h + 1
      PROVE  [queue |-> HaQueued(g2, b), db |-> HaRegistered(g2, g2.first[b])] = x
  <2>1. Tail(agents[a].queue) = [k \in 1 .. g.last[a] - h |-> g.log[h + k]]
    BY <1>0, HaTakes, SMTT(30)
  <2>2. g2.last[b] - g2.first[b] + 1 = g.last[a] - h
    <3>1. \A l, f \in Nat : l - (f + 1) + 1 = l - f
      OBVIOUS
    <3>2. g.last[a] - (h + 1) + 1 = g.last[a] - h
      BY <1>3, <3>1
    <3> QED BY <1>4, <3>2
  <2>3. \A k \in 1 .. g.last[a] - h : g2.first[b] + k - 1 = h + k
    BY <1>3, <1>4
  <2>4. HaQueued(g2, b) = Tail(agents[a].queue)
    BY <1>0, <2>1, <2>2, <2>3 DEF HaQueued
  <2>5. HaRegistered(g2, g2.first[b]) = HaRegistered(g, h + 1)
    BY <1>0, <1>4, HaSameLog
  <2> QED BY <2>4, <2>5
<1>5. \A m \in 1 .. g.last[a] : g.from[m] <= h + 1
  <2>1. HaStands(g, a)
    BY DEF HaPlaces
  <2>2. ASSUME NEW m \in 1 .. g.last[a] PROVE g.from[m] <= h /\ g.from[m] \in Nat
    BY <1>0, <1>1, <1>3, <2>1 DEF HaStands, HaLog
  <2> QED BY <1>3, <2>2
<1>6. ASSUME NEW b \in {a, n} PROVE HaStands(g2, b)'
  <2>1. g2.last[b] = g.last[a] /\ g2.first[b] = h + 1 /\ agents'[b] = x
    BY <1>0, <1>6 DEF HaGrown, HaParted
  <2>2. agents'[b] = [queue |-> HaQueued(g2, b), db |-> HaRegistered(g2, g2.first[b])]
    BY <1>4, <2>1
  <2>3. h + 1 \in 1 .. g.last[a] + 1 /\ g.last[a] \in 0 .. posted
    BY <1>1, <1>3
  <2> QED BY <1>0, <1>5, <2>1, <2>2, <2>3 DEF HaStands
<1>7. ASSUME NEW b \in 1 .. n - 1, b # a PROVE HaStands(g2, b)'
  <2>1. HaStands(g, b)
    BY <1>7 DEF HaPlaces, HaParted
  <2>2. g2.last[b] = g.last[b] /\ g2.first[b] = g.first[b] /\ agents'[b] = agents[b]
    BY <1>7 DEF HaGrown, HaParted
  <2>3. HaQueued(g2, b) = HaQueued(g, b)
    BY <1>0, <2>2 DEF HaQueued
  <2>4. HaRegistered(g2, g2.first[b]) = HaRegistered(g, g.first[b])
    BY <1>0, <2>2, HaSameLog
  <2> QED BY <1>0, <2>1, <2>2, <2>3, <2>4 DEF HaStands
<1>8. \A b \in DOMAIN agents' : HaStands(g2, b)'
  <2>1. \A b \in DOMAIN agents' : b = n \/ b \in 1 .. n - 1
    BY DEF HaParted, HaGrown
  <2> QED BY <1>6, <1>7, <2>1
<1>9. g2.last[1] = posted
  <2>1. 1 \in 1 .. n - 1 /\ g.last[1] = posted
    BY DEF HaPlaces, HaParted, HaGrown
  <2> QED BY <2>1 DEF HaGrown
<1>10. /\ agents' \in Seq(HaAgents) /\ Len(agents') >= 1
       /\ g2.first \in [DOMAIN agents' -> Nat] /\ g2.last \in [DOMAIN agents' -> Nat]
  <2>1. agents' \in Seq(HaAgents) /\ Len(agents') = n /\ DOMAIN agents' = 1 .. n
    BY DEF HaParted
  <2>2. /\ n \in Nat /\ a \in 1 .. n - 1
        /\ g2.first \in [1 .. n -> Nat] /\ g2.last \in [1 .. n -> Nat]
    BY DEF HaGrown
  <2>3. n >= 1
    BY <2>2
  <2> QED BY <2>1, <2>2, <2>3
<1> QED BY <1>2, <1>8, <1>9, <1>10 DEF HaPlaces

(* The child has the label of the agent and the message it was forked at, *)
(* so that it is told from the agent by that message and from all others  *)
(* as the agent is.                                                       *)
LEMMA HaForkFamily ==
    ASSUME NEW g, HaLog(g), HaPlaces(g), HaFamily(g), NEW a \in DOMAIN agents,
           NEW h, NEW n, NEW g2, HaGrown(g, g2, a, h, n), NEW x, HaParted(x, a, n), HaRuns(g, h)
    PROVE  HaFamily(g2)'
<1>1. /\ DOMAIN agents = 1 .. n - 1 /\ DOMAIN agents' = 1 .. n /\ n \in Nat /\ a \in 1 .. n - 1
      /\ h \in Nat \ {0} /\ h = g.first[a]
  BY DEF HaParted, HaGrown
<1>2. /\ g2.log = g.log /\ g2.from = g.from
      /\ g2.first[n] = h + 1 /\ g2.last[n] = g.last[a] /\ g2.first[a] = h + 1
      /\ g2.born[n] = h /\ g2.label[n] = g.label[a] \cup {h}
  BY DEF HaGrown
<1>3. ASSUME NEW b \in 1 .. n - 1
      PROVE  /\ g2.last[b] = g.last[b] /\ g2.born[b] = g.born[b] /\ g2.label[b] = g.label[b]
             /\ g.first[b] \in Nat /\ g2.first[b] \in Nat /\ g2.first[b] >= g.first[b]
             /\ b # a => g2.first[b] = g.first[b]
  <2>1. b \in 1 .. n
    BY <1>1
  <2> QED BY <2>1 DEF HaGrown
<1>4. ASSUME NEW b \in 1 .. n - 1 PROVE HaForked(g2, b)'
  <2>1. HaForked(g, b)
    BY <1>1 DEF HaFamily
  <2>2. 1 .. g.first[b] - 1 \subseteq 1 .. g2.first[b] - 1
    BY <1>3
  <2>3. 0 .. g.first[b] - 1 \subseteq 0 .. g2.first[b] - 1
    BY <1>3
  <2> QED BY <1>2, <1>3, <2>1, <2>2, <2>3 DEF HaForked
<1>5. HaForked(g2, n)'
  <2>1. HaForked(g, a) /\ HaStands(g, a)
    BY DEF HaFamily, HaPlaces
  <2>2. g.label[a] \subseteq 1 .. h - 1
    BY <1>1, <2>1 DEF HaForked
  <2>3. g2.label[n] \subseteq 1 .. (h + 1) - 1 /\ h \in 0 .. (h + 1) - 1
    BY <1>1, <1>2, <2>2
  <2>4. g2.label[n] \subseteq 1 .. h
    BY <1>1, <1>2, <2>2
  <2>5. \A d \in g.label[a] : /\ g.log[d].kind \in Commands
                              /\ \A m \in 1 .. g.last[a] : g.from[m] <= d
    BY <2>1 DEF HaForked
  <2>6. g.log[h].kind \in Commands /\ \A m \in 1 .. g.last[a] : g.from[m] <= h
    BY <1>1, <2>1 DEF HaStands, HaRuns
  <2>7. \A d \in g2.label[n] : /\ g2.log[d].kind \in Commands
                               /\ \A m \in 1 .. g2.last[n] : g2.from[m] <= d
    BY <1>2, <2>5, <2>6
  <2>8. h \in g2.label[n]
    BY <1>2
  <2> QED BY <1>2, <2>3, <2>4, <2>7, <2>8 DEF HaForked
<1>6. ASSUME NEW b \in 1 .. n - 1, NEW c \in 1 .. n - 1, b # c PROVE HaApart(g2, b, c)
  <2>1. HaApart(g, b, c)
    BY <1>1, <1>6 DEF HaFamily
  <2>2. PICK d \in 1 .. g.first[b] - 1 :
            d < g.first[c] /\ ~(d \in g.label[b] <=> d \in g.label[c])
    BY <2>1 DEF HaApart
  <2>3. d \in 1 .. g2.first[b] - 1 /\ d < g2.first[c]
    <3>1. /\ g.first[b] <= g2.first[b] /\ g.first[b] \in Nat /\ g2.first[b] \in Nat
          /\ g.first[c] <= g2.first[c] /\ g.first[c] \in Nat /\ g2.first[c] \in Nat
      BY <1>3
    <3> QED BY <2>2, <3>1
  <2>4. g2.label[b] = g.label[b] /\ g2.label[c] = g.label[c]
    BY <1>3
  <2> QED BY <2>2, <2>3, <2>4 DEF HaApart
<1>7. ASSUME NEW b \in 1 .. n - 1 PROVE HaApart(g2, b, n) /\ HaApart(g2, n, b)
  <2>1. \E d \in 1 .. h : /\ d < g2.first[b] /\ d \in 1 .. g2.first[b] - 1
                          /\ ~(d \in g2.label[b] <=> d \in g2.label[n])
    <3>1. CASE b = a
      <4>1. h \notin g.label[a]
        BY <1>1, SMTT(30) DEF HaFamily, HaForked
      <4>2. h \in 1 .. h /\ h < g2.first[b] /\ h \in 1 .. g2.first[b] - 1
        BY <1>1, <1>2, <3>1
      <4>3. h \in g2.label[n] /\ g2.label[b] = g.label[a]
        BY <1>2, <1>3, <3>1
      <4> QED BY <4>1, <4>2, <4>3
    <3>2. CASE b # a
      <4>1. HaApart(g, a, b)
        BY <1>1, <3>2 DEF HaFamily
      <4>2. PICK d \in 1 .. g.first[a] - 1 :
                d < g.first[b] /\ ~(d \in g.label[a] <=> d \in g.label[b])
        BY <4>1 DEF HaApart
      <4>3. d \in 1 .. h - 1
        BY <1>1
      <4>4. g2.first[b] = g.first[b] /\ g2.first[b] \in Nat /\ g2.label[b] = g.label[b]
        BY <1>3, <3>2
      <4>5. d \in 1 .. h /\ d # h /\ d < g2.first[b] /\ d \in 1 .. g2.first[b] - 1
        BY <1>1, <4>2, <4>3, <4>4
      <4>6. d \in g2.label[n] <=> d \in g.label[a]
        BY <1>2, <4>5
      <4> QED BY <4>2, <4>4, <4>5, <4>6
    <3> QED BY <3>1, <3>2
  <2>2. PICK d \in 1 .. h : /\ d < g2.first[b] /\ d \in 1 .. g2.first[b] - 1
                           /\ ~(d \in g2.label[b] <=> d \in g2.label[n])
    BY <2>1
  <2>3. d < g2.first[n] /\ d \in 1 .. g2.first[n] - 1
    BY <1>1, <1>2
  <2> QED BY <2>2, <2>3 DEF HaApart
<1>8. \A b \in 1 .. n : b = n \/ b \in 1 .. n - 1
  BY <1>1
<1>9. \A b, c \in DOMAIN agents' : b # c => HaApart(g2, b, c)
  BY <1>1, <1>6, <1>7, <1>8
<1>10. \A b \in DOMAIN agents' : HaForked(g2, b)'
  BY <1>1, <1>4, <1>5, <1>8
<1>11. g2.born \in [1 .. n -> Nat] /\ DOMAIN g2.label = 1 .. n
  BY DEF HaGrown
<1>12. g2.born[1] = 0
  <2>1. 1 \in 1 .. n - 1 /\ g.born[1] = 0
    BY <1>1 DEF HaFamily
  <2> QED BY <1>3, <2>1
<1> QED BY <1>1, <1>9, <1>10, <1>11, <1>12 DEF HaFamily

LEMMA HaForkRan ==
    ASSUME NEW g, HaRan(g), NEW a, NEW h \in 1 .. HaMaxMsgs,
           NEW n, NEW g2, HaGrown(g, g2, a, h, n), NEW x, HaParted(x, a, n),
           ran' = RanOnce(h), HaRuns(g, h)
    PROVE  HaRan(g2)'
<1>1. DOMAIN agents = 1 .. n - 1 /\ DOMAIN agents' = 1 .. n /\ n \in Nat
  BY DEF HaParted, HaGrown
<1>2. /\ g2.log = g.log /\ g2.born[n] = h
      /\ \A b \in 1 .. n - 1 : g2.born[b] = g.born[b]
  BY DEF HaGrown
<1>3. \A b \in 1 .. n : b = n \/ b \in 1 .. n - 1
  BY <1>1
<1>4. n \notin 1 .. n - 1 /\ n \in 1 .. n /\ 1 .. n - 1 \subseteq 1 .. n
  BY <1>1 DEF HaGrown
<1>5. ran \in [1 .. HaMaxMsgs -> Nat] /\ ran' = [ran EXCEPT ![h] = ran[h] + 1]
  BY DEF HaRan, RanOnce
<1>6. ASSUME NEW k \in 1 .. HaMaxMsgs PROVE ran'[k] = Cardinality(HaBornAt(g2, k)')
  <2>1. HaBornAt(g, k) \subseteq 1 .. n - 1 /\ n \notin HaBornAt(g, k)
    BY <1>1, <1>4 DEF HaBornAt
  <2>2. IsFiniteSet(HaBornAt(g, k))
    <3>1. IsFiniteSet(1 .. n - 1)
      BY <1>1, FS_Interval
    <3> QED BY <2>1, <3>1, FS_Subset
  <2>3. ran[k] = Cardinality(HaBornAt(g, k))
    BY DEF HaRan
  <2>4. CASE k = h
    <3>1. HaBornAt(g2, k)' = HaBornAt(g, k) \cup {n}
      BY <1>1, <1>2, <1>3, <1>4, <2>4 DEF HaBornAt
    <3>2. Cardinality(HaBornAt(g, k) \cup {n}) = Cardinality(HaBornAt(g, k)) + 1
      BY <2>1, <2>2, FS_AddElement
    <3>3. ran'[k] = ran[k] + 1
      BY <1>5, <2>4
    <3> QED BY <2>3, <3>1, <3>2, <3>3
  <2>5. CASE k # h
    <3>1. HaBornAt(g2, k)' = HaBornAt(g, k)
      BY <1>1, <1>2, <1>3, <1>4, <2>5 DEF HaBornAt
    <3>2. ran'[k] = ran[k]
      BY <1>5, <2>5
    <3> QED BY <2>3, <3>1, <3>2
  <2> QED BY <2>4, <2>5
<1>7. ran' \in [1 .. HaMaxMsgs -> Nat]
  BY <1>5
<1>8. \A b \in DOMAIN agents' : g2.born[b] > 0 => HaRuns(g2, g2.born[b])
  <2>1. \A k : HaRuns(g2, k) <=> HaRuns(g, k)
    BY <1>2, HaSameLog
  <2>2. \A b \in 1 .. n - 1 : g.born[b] > 0 => HaRuns(g, g.born[b])
    BY <1>1 DEF HaRan
  <2> QED BY <1>1, <1>2, <1>3, <2>1, <2>2
<1> QED BY <1>6, <1>7, <1>8 DEF HaRan

-----------------------------------------------------------------------------
(* A message comes: what g becomes *)
HaLonger(g, g2, m) ==
    /\ g2.log \in Seq(HaMessages) /\ Len(g2.log) = posted + 1 /\ g2.log[posted + 1] = m
    /\ \A k \in 1 .. posted : g2.log[k] = g.log[k]
    /\ g2.from \in [1 .. posted + 1 -> Nat] /\ g2.from[posted + 1] = g.first[1]
    /\ \A k \in 1 .. posted : g2.from[k] = g.from[k]
    /\ g2.first = g.first /\ g2.born = g.born /\ g2.label = g.label
    /\ g2.last \in [DOMAIN agents -> Nat] /\ g2.last[1] = posted + 1
    /\ \A b \in DOMAIN agents : b # 1 => g2.last[b] = g.last[b]

LEMMA HaLengthens ==
    ASSUME NEW g, HaLog(g), HaPlaces(g), NEW m \in HaMessages
    PROVE  \E g2 : HaLonger(g, g2, m)
<1> DEFINE p == posted
           l2 == Append(g.log, m)
           f2 == [k \in 1 .. p + 1 |-> IF k = p + 1 THEN g.first[1] ELSE g.from[k]]
           e2 == [g.last EXCEPT ![1] = p + 1]
           g2 == [log |-> l2, from |-> f2, first |-> g.first, last |-> e2, born |-> g.born,
                  label |-> g.label]
<1>1. /\ p \in Nat /\ g.log \in Seq(HaMessages) /\ Len(g.log) = p
      /\ g.from \in [1 .. p -> Nat]
  BY DEF HaLog
<1>2. /\ 1 \in DOMAIN agents /\ g.first \in [DOMAIN agents -> Nat]
      /\ g.last \in [DOMAIN agents -> Nat]
  BY DEF HaPlaces
<1>3. /\ l2 \in Seq(HaMessages) /\ Len(l2) = p + 1 /\ l2[p + 1] = m
      /\ \A k \in 1 .. p : l2[k] = g.log[k]
  BY <1>1
<1>4. f2 \in [1 .. p + 1 -> Nat] /\ f2[p + 1] = g.first[1] /\ \A k \in 1 .. p : f2[k] = g.from[k]
  BY <1>1, <1>2
<1>5. /\ e2 \in [DOMAIN agents -> Nat] /\ e2[1] = p + 1
      /\ \A b \in DOMAIN agents : b # 1 => e2[b] = g.last[b]
  BY <1>1, <1>2
<1>6. /\ g2.log = l2 /\ g2.from = f2 /\ g2.first = g.first /\ g2.last = e2
      /\ g2.born = g.born /\ g2.label = g.label
  OBVIOUS
<1> HIDE DEF l2, f2, e2, g2
<1>7. HaLonger(g, g2, m)
  BY <1>3, <1>4, <1>5, <1>6 DEF HaLonger
<1> QED BY <1>7

(* The messages that were there are the same ones. *)
LEMMA HaSameSoFar ==
    ASSUME NEW g, NEW g2, posted \in Nat, \A k \in 1 .. posted : g2.log[k] = g.log[k]
    PROVE  /\ \A n \in 1 .. posted + 1 : HaRegistered(g2, n) = HaRegistered(g, n)
           /\ \A k \in 1 .. posted : HaRuns(g2, k) <=> HaRuns(g, k)
<1>1. ASSUME NEW n \in 1 .. posted + 1 PROVE HaRegistered(g2, n) = HaRegistered(g, n)
  <2>1. \A j \in 1 .. n - 1 : j \in 1 .. posted
    OBVIOUS
  <2>2. \A j \in 1 .. n - 1 : g2.log[j] = g.log[j]
    BY <2>1
  <2>3. {i \in 1 .. n - 1 : g2.log[i].kind = "server"} = {i \in 1 .. n - 1 : g.log[i].kind = "server"}
    BY <2>2
  <2> QED BY <2>2, <2>3 DEF HaRegistered
<1>2. ASSUME NEW k \in 1 .. posted PROVE HaRuns(g2, k) <=> HaRuns(g, k)
  <2>1. HaRegistered(g2, k) = HaRegistered(g, k)
    BY <1>1
  <2> QED BY <2>1 DEF HaRuns
<1> QED BY <1>1, <1>2

(* The commands the agent has in its queue are those in front of the message. *)
LEMMA HaQueueAhead ==
    ASSUME NEW g, HaLog(g), HaPlaces(g), NEW q, q = agents[1].queue
    PROVE  Cardinality({i \in DOMAIN q : q[i].kind \in Commands})
                = Cardinality({d \in g.first[1] .. posted : g.log[d].kind \in Commands})
<1> DEFINE f == g.first[1]
           S == {i \in DOMAIN q : q[i].kind \in Commands}
           T == {d \in f .. posted : g.log[d].kind \in Commands}
           to == [i \in S |-> f + i - 1]
<1>1. HaStands(g, 1) /\ g.last[1] = posted /\ posted \in Nat
  BY DEF HaPlaces, HaLog
<1>2. f \in Nat /\ f \in 1 .. posted + 1
  BY <1>1 DEF HaStands
<1>3. q = [k \in 1 .. posted - f + 1 |-> g.log[f + k - 1]]
  BY <1>1 DEF HaStands, HaQueued
<1> HIDE DEF f
<1>4. DOMAIN q = 1 .. posted - f + 1 /\ \A i \in DOMAIN q : q[i] = g.log[f + i - 1]
  BY <1>3
<1>5. \A i \in S : to[i] \in T
  BY <1>1, <1>2, <1>4
<1>6. \A i, j \in S : to[i] = to[j] => i = j
  BY <1>1, <1>2, <1>4
<1>7. \A d \in T : \E i \in S : to[i] = d
  <2> SUFFICES ASSUME NEW d \in T PROVE \E i \in S : to[i] = d
    OBVIOUS
  <2>1. d - f + 1 \in 1 .. posted - f + 1 /\ f + (d - f + 1) - 1 = d
    BY <1>1, <1>2
  <2>2. d - f + 1 \in S
    BY <1>4, <2>1
  <2> QED BY <2>1, <2>2
<1>8. IsFiniteSet(S)
  <2>1. IsFiniteSet(1 .. posted - f + 1)
    BY <1>1, <1>2, FS_Interval
  <2> QED BY <1>4, <2>1, FS_Subset
<1>9. to \in [S -> T]
  BY <1>5
<1>10. ExistsBijection(S, T)
  <2> HIDE DEF to, S, T
  <2>1. to \in Bijection(S, T)
    BY <1>6, <1>7, <1>9, Zenon DEF Bijection, Injection, Surjection, IsInjective
  <2> QED BY <2>1 DEF ExistsBijection
<1> QED BY <1>8, <1>10, FS_Bijection DEF f

-----------------------------------------------------------------------------
LEMMA HaAppended ==
    ASSUME NEW S, NEW s \in Seq(S), NEW e \in S
    PROVE  Append(s, e) = [k \in 1 .. Len(s) + 1 |-> IF k = Len(s) + 1 THEN e ELSE s[k]]
<1> DEFINE t == Append(s, e)
           n == Len(s)
<1>1. /\ n \in Nat /\ t \in Seq(S) /\ Len(t) = n + 1 /\ t[n + 1] = e
      /\ \A k \in 1 .. n : t[k] = s[k]
  OBVIOUS
<1> HIDE DEF t, n
<1>2. t = [k \in 1 .. n + 1 |-> t[k]]
  <2>1. t \in [1 .. n + 1 -> S]
    BY <1>1
  <2> QED BY <2>1
<1>3. \A k \in 1 .. n + 1 : t[k] = IF k = n + 1 THEN e ELSE s[k]
  <2>1. \A k \in 1 .. n + 1 : k = n + 1 \/ (k \in 1 .. n /\ k # n + 1)
    BY <1>1
  <2> QED BY <1>1, <2>1
<1> QED BY <1>2, <1>3 DEF t, n

(* A message comes. *)
LEMMA HaComes ==
    ASSUME NEW g, HaWhole(g), NEW r \in HaRequests, Post(r)
    PROVE  HaInv'
<1> DEFINE p == posted
           q == agents[1].queue
           m == [kind |-> r.kind, name |-> r.name, uuid |-> r.uuid, id |-> p + 1,
                 ahead |-> Cardinality({i \in DOMAIN q : q[i].kind \in Commands})]
           f == g.first[1]
<1>1. /\ p \in Nat /\ p + 1 \in 0 .. HaMaxMsgs /\ posted' = p + 1 /\ sent' = sent /\ ran' = ran
      /\ agents' = [agents EXCEPT ![1].queue = Append(q, m)]
  BY HaAssumption DEF Post, HaWhole, HaLog
<1>2. HaLog(g) /\ HaPlaces(g) /\ HaFamily(g) /\ HaRan(g) /\ HaSent(g)
  BY DEF HaWhole
<1>3. /\ 1 \in DOMAIN agents /\ agents \in Seq(HaAgents) /\ g.last[1] = p
      /\ g.first \in [DOMAIN agents -> Nat]
      /\ \A b \in DOMAIN agents : HaStands(g, b) /\ HaForked(g, b)
  BY <1>2 DEF HaPlaces, HaFamily
<1>4. q = HaQueued(g, 1) /\ q \in Seq(HaMessages) /\ f \in 1 .. p + 1 /\ f \in Nat
  BY <1>1, <1>3 DEF HaStands, HaAgents
<1>5. /\ m.ahead = Cardinality({d \in f .. p : g.log[d].kind \in Commands})
      /\ m.id = p + 1 /\ m.kind = r.kind /\ m.uuid = r.uuid
  BY <1>2, HaQueueAhead
<1>6. m \in HaMessages
  <2>1. IsFiniteSet({d \in f .. p : g.log[d].kind \in Commands})
    <3>1. IsFiniteSet(f .. p)
      <4>1. f \in Nat /\ p \in Nat
        BY <1>1, <1>4
      <4> HIDE DEF f, p
      <4> QED BY <4>1, FS_Interval
    <3> QED BY <3>1, FS_Subset
  <2>2. m.ahead \in Nat
    BY <1>5, <2>1, FS_CardinalityType
  <2>3. m.kind = "server" => m.uuid \in DOMAIN HaServers
    BY <1>5, HaAssumption
  <2>4. m.ahead = Cardinality({i \in DOMAIN q : q[i].kind \in Commands})
    OBVIOUS
  <2> QED BY <1>1, <2>2, <2>3, <2>4 DEF HaMessages
<1> HIDE DEF m, f, q
<1>7. PICK g2 : HaLonger(g, g2, m)
  BY <1>2, <1>6, HaLengthens
<1>8. /\ DOMAIN agents' = DOMAIN agents /\ Len(agents') = Len(agents)
      /\ agents'[1] = [queue |-> Append(q, m), db |-> agents[1].db]
      /\ \A b \in DOMAIN agents : b # 1 => agents'[b] = agents[b]
      /\ agents' \in Seq(HaAgents)
  <2> DEFINE x == [queue |-> Append(q, m), db |-> agents[1].db]
  <2>1. agents[1] \in HaAgents /\ agents[1].queue = q
    BY <1>3 DEF q
  <2>2. x \in HaAgents /\ [agents[1] EXCEPT !.queue = Append(q, m)] = x
    <3>1. Append(q, m) \in Seq(HaMessages) /\ agents[1].db \in SUBSET DOMAIN HaServers
      BY <1>4, <1>6, <2>1 DEF HaAgents
    <3>2. \A y \in HaAgents : \A s :
            [y EXCEPT !.queue = s] = [queue |-> s, db |-> y.db]
      BY DEF HaAgents
    <3>3. x \in HaAgents
      BY <3>1 DEF HaAgents
    <3> QED BY <2>1, <3>2, <3>3
  <2>3. agents' = [agents EXCEPT ![1] = x]
    BY <1>1, <2>2
  <2> HIDE DEF x
  <2>4. /\ DOMAIN agents' = DOMAIN agents /\ Len(agents') = Len(agents) /\ agents'[1] = x
        /\ \A b \in DOMAIN agents : b # 1 => agents'[b] = agents[b]
        /\ agents' \in Seq(HaAgents)
    BY <1>3, <2>2, <2>3
  <2> QED BY <2>4 DEF x
<1>9. /\ g2.first = g.first /\ g2.born = g.born /\ g2.label = g.label
      /\ g2.last \in [DOMAIN agents -> Nat] /\ g2.last[1] = p + 1
      /\ \A b \in DOMAIN agents : b # 1 => g2.last[b] = g.last[b]
  BY <1>7 DEF HaLonger
<1>10. /\ g2.log \in Seq(HaMessages) /\ Len(g2.log) = p + 1 /\ g2.log[p + 1] = m
       /\ \A k \in 1 .. p : g2.log[k] = g.log[k]
       /\ g2.from \in [1 .. p + 1 -> Nat] /\ g2.from[p + 1] = f
       /\ \A k \in 1 .. p : g2.from[k] = g.from[k]
  BY <1>7 DEF HaLonger, f
<1>11. /\ \A n \in 1 .. p + 1 : HaRegistered(g2, n) = HaRegistered(g, n)
       /\ \A k \in 1 .. p : HaRuns(g2, k) <=> HaRuns(g, k)
  BY <1>1, <1>10, HaSameSoFar
<1>12. HaLog(g2)'
  <2>1. ASSUME NEW k \in 1 .. p
        PROVE  /\ g2.log[k].id = k /\ g2.from[k] \in 1 .. k
               /\ g2.log[k].ahead = Cardinality(HaAhead(g2, k))
    <3>1. g2.from[k] = g.from[k] /\ g2.log[k] = g.log[k]
      BY <1>10
    <3>2. /\ g.log[k].id = k /\ g.from[k] \in 1 .. k
          /\ g.log[k].ahead = Cardinality(HaAhead(g, k))
      BY <1>2 DEF HaLog
    <3>3. \A d \in g.from[k] .. k - 1 : g2.log[d] = g.log[d]
      BY <1>1, <1>10, <3>2
    <3>4. HaAhead(g2, k) = HaAhead(g, k)
      BY <3>1, <3>3 DEF HaAhead
    <3> QED BY <3>1, <3>2, <3>4
  <2>2. /\ g2.log[p + 1].id = p + 1 /\ g2.from[p + 1] \in 1 .. p + 1
        /\ g2.log[p + 1].ahead = Cardinality(HaAhead(g2, p + 1))
    <3>1. (p + 1) - 1 = p /\ \A d \in f .. p : g2.log[d] = g.log[d]
      BY <1>1, <1>4, <1>10
    <3>2. HaAhead(g2, p + 1) = {d \in f .. p : g.log[d].kind \in Commands}
      BY <1>10, <3>1 DEF HaAhead
    <3> QED BY <1>4, <1>5, <1>10, <3>2
  <2>3. \A k \in 1 .. p + 1 : k = p + 1 \/ k \in 1 .. p
    BY <1>1
  <2>4. \A k \in 1 .. posted' : /\ g2.log[k].id = k /\ g2.from[k] \in 1 .. k
                                /\ g2.log[k].ahead = Cardinality(HaAhead(g2, k))
    BY <1>1, <2>1, <2>2, <2>3
  <2> HIDE DEF p
  <2>5. posted' = p + 1
    BY <1>1 DEF p
  <2>6. Len(g2.log) = posted' /\ g2.from \in [1 .. posted' -> Nat] /\ posted' \in 0 .. HaMaxMsgs
    BY <1>1, <1>10, <2>5
  <2> QED BY <1>10, <2>4, <2>6 DEF HaLog
<1>13. HaStands(g2, 1)'
  <2>1. HaStands(g, 1)
    BY <1>3
  <2>2. HaQueued(g2, 1) = Append(q, m)
    <3> DEFINE n == p - f + 1
    <3>1. q = [k \in 1 .. n |-> g.log[f + k - 1]] /\ n \in Nat
      BY <1>1, <1>3, <1>4 DEF HaQueued, f
    <3>2. HaQueued(g2, 1) = [k \in 1 .. n + 1 |-> g2.log[f + k - 1]]
      <4>1. g2.last[1] - g2.first[1] + 1 = n + 1
        BY <1>1, <1>4, <1>9 DEF f
      <4> QED BY <1>9, <4>1 DEF HaQueued, f
    <3>3. \A k \in 1 .. n : g2.log[f + k - 1] = g.log[f + k - 1]
      <4>1. \A k \in 1 .. n : f + k - 1 \in 1 .. p
        BY <1>1, <1>4
      <4> QED BY <1>10, <4>1
    <3>4. g2.log[f + (n + 1) - 1] = m
      <4>1. f + (n + 1) - 1 = p + 1
        BY <1>1, <1>4
      <4> QED BY <1>10, <4>1
    <3> HIDE DEF n, p
    <3>5. Len(q) = n
      BY <1>4, <3>1
    <3>6. Append(q, m) = [k \in 1 .. n + 1 |-> IF k = n + 1 THEN m ELSE q[k]]
      BY <1>4, <1>6, <3>5, HaAppended
    <3>7. \A k \in 1 .. n + 1 : g2.log[f + k - 1] = IF k = n + 1 THEN m ELSE q[k]
      <4>1. \A k \in 1 .. n + 1 : k = n + 1 \/ (k \in 1 .. n /\ k # n + 1)
        BY <3>1
      <4> QED BY <3>1, <3>3, <3>4, <4>1
    <3> QED BY <3>2, <3>6, <3>7
  <2>3. agents[1].db = HaRegistered(g, f) /\ HaRegistered(g2, f) = HaRegistered(g, f)
    BY <1>4, <1>11, <2>1 DEF HaStands, f
  <2>4. agents'[1] = [queue |-> HaQueued(g2, 1), db |-> HaRegistered(g2, g2.first[1])]
    BY <1>8, <1>9, <2>2, <2>3 DEF f
  <2>5. g2.first[1] = f /\ f \in 1 .. (p + 1) + 1 /\ p + 1 \in 0 .. p + 1
    BY <1>1, <1>4, <1>9 DEF f
  <2>6. \A k \in 1 .. p + 1 : g2.from[k] <= f
    <3>1. \A k \in 1 .. p : g.from[k] <= f
      BY <1>3, <2>1 DEF HaStands, f
    <3>2. \A k \in 1 .. p + 1 : k = p + 1 \/ k \in 1 .. p
      BY <1>1
    <3> QED BY <1>4, <1>10, <3>1, <3>2
  <2>7. g2.first[1] \in 1 .. g2.last[1] + 1 /\ g2.last[1] \in 0 .. posted'
    BY <1>1, <1>9, <2>5
  <2>8. \A k \in 1 .. g2.last[1] : g2.from[k] <= g2.first[1]
    BY <1>9, <2>5, <2>6
  <2> QED BY <2>4, <2>7, <2>8 DEF HaStands
<1>14. ASSUME NEW b \in DOMAIN agents, b # 1 PROVE HaStands(g2, b)'
  <2>1. /\ HaStands(g, b) /\ g2.first[b] = g.first[b] /\ g2.last[b] = g.last[b]
        /\ agents'[b] = agents[b] /\ g.first[b] \in Nat
    BY <1>3, <1>8, <1>9, <1>14
  <2>2. g.first[b] \in 1 .. g.last[b] + 1 /\ g.last[b] \in 0 .. p
    BY <2>1 DEF HaStands
  <2>3. HaQueued(g2, b) = HaQueued(g, b)
    <3>1. \A k \in 1 .. g.last[b] - g.first[b] + 1 : g.first[b] + k - 1 \in 1 .. p
      BY <1>1, <2>1, <2>2, SMTT(30)
    <3>2. \A k \in 1 .. g.last[b] - g.first[b] + 1 :
            g2.log[g.first[b] + k - 1] = g.log[g.first[b] + k - 1]
      BY <1>10, <3>1
    <3> QED BY <2>1, <3>2 DEF HaQueued
  <2>4. HaRegistered(g2, g2.first[b]) = HaRegistered(g, g.first[b])
    <3>1. g.first[b] \in 1 .. p + 1
      BY <1>1, <2>1, <2>2
    <3> QED BY <1>11, <2>1, <3>1
  <2>5. \A k \in 1 .. g2.last[b] : g2.from[k] <= g2.first[b]
    <3>1. \A k \in 1 .. g.last[b] : k \in 1 .. p
      BY <1>1, <2>2
    <3> QED BY <1>10, <2>1, <3>1 DEF HaStands
  <2>6. g2.last[b] \in 0 .. posted'
    BY <1>1, <2>1, <2>2
  <2>7. agents'[b] = [queue |-> HaQueued(g2, b), db |-> HaRegistered(g2, g2.first[b])]
    BY <2>1, <2>3, <2>4 DEF HaStands
  <2> QED BY <2>1, <2>2, <2>5, <2>6, <2>7 DEF HaStands
<1>15. HaPlaces(g2)'
  <2>1. \A b \in DOMAIN agents' : HaStands(g2, b)'
    BY <1>8, <1>13, <1>14
  <2>2. Len(agents') >= 1
    BY <1>3, <1>8
  <2> QED BY <1>1, <1>3, <1>8, <1>9, <2>1, <2>2 DEF HaPlaces
<1>16. ASSUME NEW b \in DOMAIN agents PROVE g.first[b] - 1 \in 0 .. p /\ g.last[b] \in 0 .. p
  BY <1>1, <1>3, SMTT(30) DEF HaStands
<1>17. HaFamily(g2)'
  <2>1. g.label[1] = {}
    <3>1. HaForked(g, 1) /\ g.born[1] = 0
      BY <1>2, <1>3 DEF HaFamily
    <3> QED BY <3>1 DEF HaForked
  <2>2. ASSUME NEW b \in DOMAIN agents PROVE HaForked(g2, b)'
    <3>1. HaForked(g, b) /\ g2.first[b] = g.first[b] /\ g2.label[b] = g.label[b] /\ g2.born[b] = g.born[b]
      BY <1>3, <1>9
    <3>2. ASSUME NEW d \in g.label[b]
          PROVE  g2.log[d].kind \in Commands /\ \A k \in 1 .. g2.last[b] : g2.from[k] <= d
      <4>1. b # 1
        BY <2>1, <3>2
      <4>2. d \in 1 .. p
        BY <1>1, <1>16, <3>1, <3>2 DEF HaForked
      <4>3. g2.last[b] = g.last[b] /\ \A k \in 1 .. g.last[b] : k \in 1 .. p
        BY <1>1, <1>9, <1>16, <4>1
      <4> QED BY <1>10, <3>1, <3>2, <4>2, <4>3 DEF HaForked
    <3> QED BY <3>1, <3>2 DEF HaForked
  <2>3. \A b, c \in DOMAIN agents : b # c => HaApart(g2, b, c)
    BY <1>2, <1>9 DEF HaFamily, HaApart
  <2> QED BY <1>2, <1>8, <1>9, <2>2, <2>3 DEF HaFamily
<1>18. HaRan(g2)'
  <2>1. \A k : HaBornAt(g2, k)' = HaBornAt(g, k)
    BY <1>8, <1>9 DEF HaBornAt
  <2>2. ASSUME NEW b \in DOMAIN agents, g2.born[b] > 0 PROVE HaRuns(g2, g2.born[b])
    <3>1. g2.born[b] = g.born[b] /\ g.born[b] \in 0 .. g.first[b] - 1 /\ g.born[b] > 0
      BY <1>3, <1>9, <2>2 DEF HaForked
    <3>2. g.born[b] \in 1 .. p
      BY <1>1, <1>16, <3>1
    <3> QED BY <1>2, <1>11, <3>1, <3>2 DEF HaRan
  <2> QED BY <1>1, <1>2, <1>8, <2>1, <2>2 DEF HaRan
<1>19. HaSent(g2)'
  <2>1. g2.first[1] = g.first[1] /\ \A k \in 1 .. g.first[1] - 1 : k \in 1 .. p
    BY <1>1, <1>3, <1>9, <1>16
  <2> QED BY <1>1, <1>2, <1>11, <2>1 DEF HaSent
<1> QED BY <1>12, <1>15, <1>17, <1>18, <1>19 DEF HaInv, HaWhole

-----------------------------------------------------------------------------
LEMMA HaRest ==
    ASSUME NEW g, HaLog(g), HaPlaces(g), NEW a \in DOMAIN agents, agents[a].queue # <<>>,
           NEW x, x = HaLeft(g, a), NEW m, m = g.log[g.first[a]]
    PROVE  /\ x \in HaAgents
           /\ m.kind # "server" => Rest(a) = HaWith(a, x) /\ Rest(a)[a] = x
           /\ m.kind = "server" => [Rest(a) EXCEPT ![a].db = @ \cup {m.uuid}] = HaWith(a, x)
<1> DEFINE h == g.first[a]
           t == Tail(agents[a].queue)
           y == [queue |-> t, db |-> agents[a].db]
<1>1. h \in 1 .. g.last[a] /\ g.last[a] \in 1 .. posted /\ posted \in Nat
  <2>1. h \in 1 .. g.last[a] /\ g.last[a] \in 1 .. posted
    BY HaTakes
  <2>2. posted \in Nat
    BY DEF HaLog
  <2> QED BY <2>1, <2>2
<1>2. agents[a].db = HaRegistered(g, h) /\ agents[a] \in HaAgents
  <2>1. agents[a].db = HaRegistered(g, h)
    BY HaTakes
  <2>2. agents[a] \in HaAgents
    BY DEF HaPlaces
  <2> QED BY <2>1, <2>2
<1>3. HaRegistered(g, h + 1) = HaRegistered(g, h)
                \cup (IF m.kind = "server" THEN {m.uuid} ELSE {})
  <2>1. h \in Nat \ {0}
    BY <1>1
  <2> QED BY <2>1, HaOneMore
<1>4. t \in Seq(HaMessages)
  BY <1>2 DEF HaAgents
<1>5. x = [queue |-> t, db |-> agents[a].db \cup (IF m.kind = "server" THEN {m.uuid} ELSE {})]
  BY <1>2, <1>3 DEF HaLeft
<1>6. x \in HaAgents
  <2>1. HaRegistered(g, h + 1) \subseteq DOMAIN HaServers
    <3>1. h + 1 \in 1 .. posted + 1
      BY <1>1
    <3> QED BY <3>1, HaKnownServers
  <2> QED BY <1>4, <2>1 DEF HaAgents, HaLeft
<1>7. Rest(a) = HaWith(a, y)
  <2>1. \A z \in HaAgents : \A s : [z EXCEPT !.queue = s] = [queue |-> s, db |-> z.db]
    BY DEF HaAgents
  <2>2. [agents[a] EXCEPT !.queue = Tail(@)] = y
    BY <1>2, <2>1
  <2> QED BY <2>2 DEF Rest, HaWith
<1>8. CASE m.kind # "server"
  <2>1. x = y
    BY <1>5, <1>8
  <2>2. Rest(a) = HaWith(a, x)
    BY <1>7, <2>1
  <2>3. Rest(a)[a] = x
    BY <2>2 DEF HaPlaces, HaWith
  <2> QED BY <1>6, <1>8, <2>2, <2>3
<1>9. CASE m.kind = "server"
  <2>1. x = [queue |-> t, db |-> agents[a].db \cup {m.uuid}]
    BY <1>5, <1>9
  <2>2. Rest(a)[a] = y
    BY <1>7 DEF HaPlaces, HaWith
  <2>3. [Rest(a)[a] EXCEPT !.db = @ \cup {m.uuid}] = x
    <3>1. \A z \in HaAgents : \A d : [z EXCEPT !.db = d] = [queue |-> z.queue, db |-> d]
      BY DEF HaAgents
    <3>2. y \in HaAgents
      BY <1>2, <1>4 DEF HaAgents
    <3>3. y.queue = t /\ y.db = agents[a].db
      OBVIOUS
    <3> HIDE DEF y, t
    <3> DEFINE e == y.db \cup {m.uuid}
    <3>4. [y EXCEPT !.db = e] = [queue |-> y.queue, db |-> e]
      <4> HIDE DEF e
      <4> QED BY <3>1, <3>2, Zenon
    <3>5. [queue |-> y.queue, db |-> e] = x
      BY <2>1, <3>3
    <3>6. [y EXCEPT !.db = e] = x
      <4> HIDE DEF e
      <4> QED BY <3>4, <3>5
    <3> QED BY <2>2, <3>6, Zenon
  <2>4. [Rest(a) EXCEPT ![a].db = @ \cup {m.uuid}] = [Rest(a) EXCEPT ![a] = x]
    BY <2>3
  <2> HIDE DEF y
  <2>5. [HaWith(a, y) EXCEPT ![a] = x] = HaWith(a, x)
    BY DEF HaWith
  <2> QED BY <1>6, <1>7, <1>9, <2>4, <2>5
<1> QED BY <1>8, <1>9

-----------------------------------------------------------------------------
(* What is sent in a round, by m's kind and the records *)
HaSaid(g, a, h, w) ==
    \/ sent' = sent /\ (a = 1 => ~HaRuns(g, h))
    \/ /\ sent' = IF a = 1 THEN Append(sent, [id |-> h, what |-> w]) ELSE sent
       /\ HaRuns(g, h) => w = "forwarded"

LEMMA HaStays ==
    ASSUME NEW g, HaWhole(g), NEW a \in DOMAIN agents, agents[a].queue # <<>>,
           NEW h, h = g.first[a], posted' = posted, ran' = ran,
           agents' = HaWith(a, HaLeft(g, a)),
           NEW w \in {"types", "refused", "forwarded", "exist", "notfound"}, HaSaid(g, a, h, w)
    PROVE  HaInv'
<1> DEFINE f2 == [g.first EXCEPT ![a] = h + 1]
           g2 == [log |-> g.log, from |-> g.from, first |-> f2, last |-> g.last,
                  born |-> g.born, label |-> g.label]
<1>1. HaLog(g) /\ HaPlaces(g) /\ HaFamily(g) /\ HaRan(g) /\ HaSent(g)
  BY DEF HaWhole
<1>2. HaMoved(g, g2, a) /\ g2.log = g.log /\ g2.first = f2
  BY DEF HaMoved
<1> HIDE DEF g2
<1>3. g2.first[1] = IF a = 1 THEN h + 1 ELSE g.first[1]
  <2>1. 1 \in DOMAIN agents /\ g.first \in [DOMAIN agents -> Nat]
    BY <1>1 DEF HaPlaces
  <2> QED BY <1>2, <2>1
<1>5. HaLog(g2)' /\ HaPlaces(g2)' /\ HaFamily(g2)' /\ HaRan(g2)'
  BY <1>1, <1>2, HaMoves
<1>6. HaSent(g2)'
  BY <1>1, <1>2, <1>3, HaSays DEF HaSaid
<1> QED BY <1>5, <1>6 DEF HaInv, HaWhole

LEMMA HaForks ==
    ASSUME NEW g, HaWhole(g), NEW a \in DOMAIN agents, agents[a].queue # <<>>,
           NEW h, h = g.first[a], posted' = posted, ran' = RanOnce(h), HaRuns(g, h),
           NEW x, x = HaLeft(g, a), agents' = Append(HaWith(a, x), x),
           HaSaid(g, a, h, "forwarded")
    PROVE  HaInv'
<1> DEFINE n == Len(agents) + 1
<1>1. HaLog(g) /\ HaPlaces(g) /\ HaFamily(g) /\ HaRan(g) /\ HaSent(g)
  BY DEF HaWhole
<1>2. h \in Nat \ {0} /\ h \in 1 .. HaMaxMsgs
  <2>1. h \in 1 .. g.last[a] /\ g.last[a] \in 1 .. posted /\ posted \in 0 .. HaMaxMsgs
    BY <1>1, HaTakes DEF HaLog
  <2> QED BY <2>1, HaAssumption
<1>3. x \in HaAgents
  BY <1>1, HaRest
<1>4. HaParted(x, a, n)
  <2>1. agents \in Seq(HaAgents)
    BY <1>1 DEF HaPlaces
  <2> QED BY <1>3, <2>1, HaParts
<1>5. PICK g2 : HaGrown(g, g2, a, h, n)
  BY <1>1, <1>2, HaGrows
<1>6. x = [queue |-> Tail(agents[a].queue), db |-> HaRegistered(g, h + 1)]
  BY DEF HaLeft
<1> HIDE DEF n
<1>7. HaLog(g2)' /\ HaPlaces(g2)'
  BY <1>1, <1>4, <1>5, <1>6, HaForkPlaces
<1>8. HaFamily(g2)'
  BY <1>1, <1>4, <1>5, HaForkFamily
<1>9. HaRan(g2)'
  BY <1>1, <1>2, <1>4, <1>5, HaForkRan
<1>10. HaSent(g2)'
  <2>1. g2.log = g.log /\ g2.first[1] = IF a = 1 THEN h + 1 ELSE g.first[1]
    <3>1. 1 \in 1 .. n - 1
      BY <1>1 DEF HaPlaces, n
    <3> QED BY <1>5, <3>1 DEF HaGrown
  <2> QED BY <1>1, <2>1, HaSays DEF HaSaid
<1> QED BY <1>7, <1>8, <1>9, <1>10 DEF HaInv, HaWhole

-----------------------------------------------------------------------------
(* Of the records that fit, one is the first. *)
LEMMA HaFoundOne ==
    ASSUME NEW db \in SUBSET DOMAIN HaServers, NEW m,
           NEW s \in Found(db, m), NEW t \in Found(db, m)
    PROVE  s = t
<1>1. s \in Nat /\ t \in Nat
  BY HaAssumption DEF Found
<1>2. s < t \/ t < s \/ s = t
  BY <1>1
<1> QED BY <1>2 DEF Found

(* Commands *)
LEMMA HaCommands ==
    ASSUME NEW g, HaWhole(g), NEW a \in DOMAIN agents, agents[a].queue # <<>>,
           NEW h, h = g.first[a], NEW m, m = g.log[h], m.kind \in Commands,
           NEW type, type = HaMode(m.kind), Command(a, m, type), posted' = posted
    PROVE  HaInv'
<1>1. HaLog(g) /\ HaPlaces(g)
  BY DEF HaWhole
<1>2. agents[a].db = HaRegistered(g, h) /\ m.id = h /\ agents[a].db \subseteq DOMAIN HaServers
  <2>1. agents[a].db = HaRegistered(g, h) /\ m.id = h
    BY <1>1, HaTakes
  <2>2. agents[a] \in HaAgents
    BY <1>1 DEF HaPlaces
  <2> QED BY <2>1, <2>2 DEF HaAgents
<1>3. m.kind # "server"
  BY DEF Commands
<1> DEFINE x == HaLeft(g, a)
<1> HIDE DEF x
<1>4. Rest(a) = HaWith(a, x) /\ Rest(a)[a] = x
  <2>1. x = HaLeft(g, a)
    BY DEF x
  <2> QED BY <1>1, <1>3, <2>1, HaRest
<1>5. HaRuns(g, h) <=> \E s \in Found(agents[a].db, m) : HaServers[s].mode = type
  BY <1>2 DEF HaRuns
<1>6. CASE Unknown(a, m)
  <2>1. agents' = HaWith(a, x) /\ ran' = ran /\ sent' = sent
    BY <1>4, <1>6 DEF Unknown
  <2>2. ~HaRuns(g, h)
    BY <1>5, <1>6 DEF Unknown
  <2>3. HaSaid(g, a, h, "refused")
    BY <2>1, <2>2 DEF HaSaid
  <2> QED BY <2>1, <2>3, HaStays DEF x
<1>7. CASE WrongMode(a, m, type)
  <2>1. agents' = HaWith(a, x) /\ ran' = ran
    BY <1>4, <1>7 DEF WrongMode
  <2>2. ~HaRuns(g, h)
    <3>1. PICK s \in Found(agents[a].db, m) : HaServers[s].mode # type
      BY <1>7 DEF WrongMode
    <3>2. \A t \in Found(agents[a].db, m) : s = t
      BY <1>2, HaFoundOne
    <3> QED BY <1>5, <3>1, <3>2
  <2>3. HaSaid(g, a, h, "refused")
    BY <1>2, <1>7, <2>2 DEF HaSaid, WrongMode, Send
  <2> QED BY <2>1, <2>3, HaStays DEF x
<1>8. CASE Run(a, m, type)
  <2>1. agents' = Append(HaWith(a, x), x) /\ ran' = RanOnce(h) /\ HaRuns(g, h)
    BY <1>2, <1>4, <1>5, <1>8 DEF Run
  <2>2. HaSaid(g, a, h, "forwarded")
    BY <1>2, <1>8 DEF HaSaid, Run, Send
  <2> QED BY <2>1, <2>2, HaForks DEF x
<1> QED BY <1>6, <1>7, <1>8 DEF Command

LEMMA HaHandles ==
    ASSUME NEW g, HaWhole(g), NEW a \in DOMAIN agents, Handle(a)
    PROVE  HaInv'
<1> DEFINE h == g.first[a]
           m == g.log[h]
           x == HaLeft(g, a)
<1>1. HaLog(g) /\ HaPlaces(g) /\ agents[a].queue # <<>> /\ posted' = posted
  BY DEF HaWhole, Handle
<1>2. Head(agents[a].queue) = m /\ m.id = h
  BY <1>1, HaTakes
<1>3. Register(a, m) \/ Act(a, m) \/ Forward(a, m)
  BY <1>2 DEF Handle
<1>4. /\ m.kind # "server" => Rest(a) = HaWith(a, x)
      /\ m.kind = "server" => [Rest(a) EXCEPT ![a].db = @ \cup {m.uuid}] = HaWith(a, x)
  BY <1>1, HaRest
<1>5. ASSUME m.kind \notin Commands, ran' = ran, agents' = HaWith(a, x),
             NEW w \in {"types", "refused", "forwarded", "exist", "notfound"},
             Send(a, m, w) \/ sent' = sent
      PROVE  HaInv'
  <2>1. ~HaRuns(g, h)
    BY <1>5 DEF HaRuns
  <2>2. HaSaid(g, a, h, w)
    BY <1>2, <1>5, <2>1 DEF HaSaid, Send
  <2> QED BY <1>1, <1>5, <2>2, HaStays
<1> HIDE DEF h, m, x
<1>6. CASE Register(a, m)
  BY <1>4, <1>5, <1>6 DEF Register, Commands
<1>7. CASE Forward(a, m)
  BY <1>4, <1>5, <1>7 DEF Forward, Commands
<1>8. CASE Check(a, m)
  <2>1. m.kind \notin Commands /\ agents' = HaWith(a, x) /\ ran' = ran
    BY <1>4, <1>8 DEF Check, Unknown, Commands
  <2>2. sent' = sent \/ \E w \in {"exist", "notfound"} : Send(a, m, w)
    BY <1>8 DEF Check, Unknown
  <2> QED BY <1>5, <2>1, <2>2
<1>9. CASE Start(a, m) \/ Download(a, m) \/ Upload(a, m)
  <2>1. m.kind \in Commands /\ Command(a, m, HaMode(m.kind))
    BY <1>9 DEF Start, Download, Upload, Commands, HaMode
  <2> QED BY <1>1, <2>1, HaCommands DEF h, m
<1> QED BY <1>3, <1>6, <1>7, <1>8, <1>9 DEF Act

-----------------------------------------------------------------------------
LEMMA HaInvStep == HaInv /\ [HaNext]_havars => HaInv'
<1> SUFFICES ASSUME HaInv, [HaNext]_havars PROVE HaInv'
  OBVIOUS
<1>1. PICK g : HaWhole(g)
  BY DEF HaInv
<1>2. ASSUME NEW r \in HaRequests, Post(r) PROVE HaInv'
  BY <1>1, <1>2, HaComes
<1>3. ASSUME NEW a \in DOMAIN agents, Handle(a) PROVE HaInv'
  BY <1>1, <1>3, HaHandles
<1>4. CASE UNCHANGED havars
  <2>1. agents' = agents /\ posted' = posted /\ ran' = ran /\ sent' = sent
    BY <1>4 DEF havars
  <2>2. HaLog(g)' /\ HaPlaces(g)' /\ HaFamily(g)' /\ HaRan(g)' /\ HaSent(g)'
    BY <1>1, <2>1 DEF HaWhole, HaLog, HaPlaces, HaStands, HaFamily, HaForked, HaRan, HaBornAt, HaSent
  <2> QED BY <2>2 DEF HaInv, HaWhole
<1> QED BY <1>2, <1>3, <1>4 DEF HaNext

-----------------------------------------------------------------------------
(* What an agent has in its queue *)
LEMMA HaHolds ==
    ASSUME NEW g, HaLog(g), HaPlaces(g), NEW b \in DOMAIN agents
    PROVE  /\ g.first[b] \in Nat \ {0} /\ g.first[b] <= g.last[b] + 1 /\ g.last[b] \in 0 .. posted
           /\ DOMAIN agents[b].queue = 1 .. g.last[b] - g.first[b] + 1
           /\ \A i \in DOMAIN agents[b].queue :
                agents[b].queue[i] = g.log[g.first[b] + i - 1]
           /\ \A k : InQueue(b, k) <=> k \in g.first[b] .. g.last[b]
<1> DEFINE f == g.first[b]
           l == g.last[b]
           q == agents[b].queue
<1>1. HaStands(g, b) /\ posted \in Nat
  BY DEF HaPlaces, HaLog
<1>2. f \in 1 .. l + 1 /\ l \in 0 .. posted
  BY <1>1 DEF HaStands
<1>3. f \in Nat \ {0} /\ f <= l + 1 /\ l \in Nat
  BY <1>1, <1>2
<1>4. q = [k \in 1 .. l - f + 1 |-> g.log[f + k - 1]]
  BY <1>1 DEF HaStands, HaQueued
<1> HIDE DEF f, l, q
<1>5. DOMAIN q = 1 .. l - f + 1 /\ \A i \in DOMAIN q : q[i] = g.log[f + i - 1]
  BY <1>4
<1>6. \A i \in DOMAIN q : f + i - 1 \in f .. l /\ q[i].id = f + i - 1
  <2>1. \A i \in DOMAIN q : f + i - 1 \in f .. l /\ f + i - 1 \in 1 .. posted
    BY <1>1, <1>2, <1>3, <1>5
  <2>2. \A k \in 1 .. posted : g.log[k].id = k
    BY DEF HaLog
  <2> QED BY <1>5, <2>1, <2>2
<1>7. \A k \in f .. l : k - f + 1 \in DOMAIN q /\ f + (k - f + 1) - 1 = k
  BY <1>3, <1>5
<1>8. ASSUME NEW k PROVE InQueue(b, k) <=> k \in f .. l
  <2>1. InQueue(b, k) <=> \E i \in DOMAIN q : q[i].id = k
    BY DEF InQueue, q
  <2>2. ASSUME k \in f .. l PROVE \E i \in DOMAIN q : q[i].id = k
    <3>1. k - f + 1 \in DOMAIN q /\ q[k - f + 1].id = k
      BY <1>6, <1>7, <2>2
    <3> QED BY <3>1
  <2> QED BY <1>6, <2>1, <2>2
<1> QED BY <1>2, <1>3, <1>5, <1>8 DEF f, l, q

(* The labels tell the agents apart by what is before message k, if k is   *)
(* in the queue of one of them or both were forked at it.                  *)
LEMMA HaToldApart ==
    ASSUME NEW g, HaLog(g), HaPlaces(g), HaFamily(g), NEW b \in DOMAIN agents,
           NEW c \in DOMAIN agents, b # c, NEW k \in Nat,
           InQueue(b, k) \/ InQueue(c, k) \/ (g.born[b] = k /\ g.born[c] = k)
    PROVE  g.label[b] \cap (1 .. k - 1) # g.label[c] \cap (1 .. k - 1)
<1>1. PICK d \in 1 .. g.first[b] - 1 :
          d < g.first[c] /\ ~(d \in g.label[b] <=> d \in g.label[c])
  BY DEF HaFamily, HaApart
<1>2. g.first[b] \in Nat /\ g.first[c] \in Nat /\ d \in Nat /\ d < g.first[b] /\ d >= 1
  BY HaHolds
<1>3. d < k
  <2>1. CASE InQueue(b, k)
    <3>1. k \in g.first[b] .. g.last[b]
      BY <2>1, HaHolds
    <3> QED BY <1>2, <3>1
  <2>2. CASE InQueue(c, k)
    <3>1. k \in g.first[c] .. g.last[c]
      BY <2>2, HaHolds
    <3> QED BY <1>1, <1>2, <3>1
  <2>3. CASE g.born[b] = k /\ g.born[c] = k
    <3>1. HaForked(g, b) /\ HaForked(g, c)
      BY DEF HaFamily
    <3>2. g.label[b] \subseteq 1 .. k /\ g.label[c] \subseteq 1 .. k
      BY <2>3, <3>1 DEF HaForked
    <3>3. k > 0 => k \in g.label[b] /\ k \in g.label[c]
      BY <2>3, <3>1 DEF HaForked
    <3>4. d \in 1 .. k /\ d # k
      BY <1>1, <3>2, <3>3
    <3> QED BY <1>2, <3>4
  <2> QED BY <2>1, <2>2, <2>3
<1>4. d \in 1 .. k - 1
  BY <1>2, <1>3
<1> QED BY <1>1, <1>4

(* Who has message k in its queue, or was forked at it, was forked, and    *)
(* those it comes from were, at commands in front of k only.               *)
LEMMA HaLabelAhead ==
    ASSUME NEW g, HaLog(g), HaPlaces(g), HaFamily(g), NEW b \in DOMAIN agents, NEW k \in 1 .. posted,
           InQueue(b, k) \/ g.born[b] = k
    PROVE  g.label[b] \cap (1 .. k - 1) \subseteq HaAhead(g, k)
<1>1. HaForked(g, b)
  BY DEF HaFamily
<1>2. k \in 1 .. g.last[b]
  <2>1. g.first[b] \in Nat \ {0} /\ g.first[b] <= g.last[b] + 1 /\ g.last[b] \in Nat
    BY HaHolds DEF HaLog
  <2>2. CASE InQueue(b, k)
    <3>1. k \in g.first[b] .. g.last[b]
      BY <2>2, HaHolds
    <3> QED BY <2>1, <3>1
  <2>3. CASE g.born[b] = k
    <3>1. k \in 0 .. g.first[b] - 1
      BY <1>1, <2>3 DEF HaForked
    <3> QED BY <2>1, <3>1
  <2> QED BY <2>2, <2>3
<1>3. ASSUME NEW d \in g.label[b], d \in 1 .. k - 1 PROVE d \in HaAhead(g, k)
  <2>1. g.log[d].kind \in Commands /\ g.from[k] <= d
    BY <1>1, <1>2 DEF HaForked
  <2>2. g.from[k] \in Nat
    BY DEF HaLog
  <2>3. d \in g.from[k] .. k - 1
    BY <1>3, <2>1, <2>2
  <2> QED BY <2>1, <2>3 DEF HaAhead
<1> QED BY <1>3

LEMMA HaAheadFinite ==
    ASSUME NEW g, HaLog(g), NEW k \in 1 .. posted
    PROVE  /\ IsFiniteSet(HaAhead(g, k)) /\ g.log[k].ahead = Cardinality(HaAhead(g, k))
           /\ Cardinality(HaAhead(g, k)) \in Nat
<1>1. g.from[k] \in Nat /\ k \in Nat /\ g.log[k].ahead = Cardinality(HaAhead(g, k))
  BY DEF HaLog
<1>2. IsFiniteSet(g.from[k] .. k - 1)
  BY <1>1, FS_Interval, SMTT(30)
<1>3. IsFiniteSet(HaAhead(g, k))
  BY <1>2, FS_Subset DEF HaAhead
<1> QED BY <1>1, <1>3, FS_CardinalityType

-----------------------------------------------------------------------------
LEMMA HaInvType == HaInv => HaTypeOK
<1> SUFFICES ASSUME HaInv PROVE HaTypeOK
  OBVIOUS
<1>1. PICK g : HaWhole(g)
  BY DEF HaInv
<1>2. HaLog(g) /\ HaPlaces(g) /\ HaFamily(g) /\ HaRan(g) /\ HaSent(g)
  BY <1>1 DEF HaWhole
<1>3. \A a \in DOMAIN agents : agents[a].db \subseteq DOMAIN HaServers
  <2>1. \A a \in DOMAIN agents : agents[a] \in HaAgents
    BY <1>2 DEF HaPlaces
  <2> QED BY <2>1 DEF HaAgents
<1>4. 1 \in DOMAIN agents /\ agents \in Seq(HaAgents) /\ posted \in Nat /\ posted <= HaMaxMsgs
      /\ Len(agents) \in Nat /\ DOMAIN agents = 1 .. Len(agents)
  BY <1>2, HaAssumption DEF HaPlaces, HaLog
<1>5. Len(agents[1].queue) + Len(sent) <= posted
  <2>1. /\ g.first[1] \in Nat \ {0} /\ g.first[1] <= posted + 1
        /\ DOMAIN agents[1].queue = 1 .. posted - g.first[1] + 1
    <3>1. g.last[1] = posted
      BY <1>2 DEF HaPlaces
    <3> QED BY <1>2, <1>4, <3>1, HaHolds
  <2>2. agents[1].queue \in Seq(HaMessages)
    <3>1. agents[1] \in HaAgents
      BY <1>4
    <3> QED BY <3>1 DEF HaAgents
  <2>3. Len(agents[1].queue) = posted - g.first[1] + 1
    BY <1>4, <2>1, <2>2
  <2>4. Len(sent) \in Nat /\ Len(sent) < g.first[1]
    BY <1>2 DEF HaSent
  <2> QED BY <1>4, <2>1, <2>3, <2>4
<1>6. Len(agents) <= 2^HaMaxMsgs
  <2> DEFINE S == DOMAIN agents
             T == SUBSET (1 .. HaMaxMsgs)
             f == [b \in S |-> g.label[b]]
  <2>1. ASSUME NEW b \in S PROVE g.label[b] \in T
    <3>1. g.label[b] \subseteq 1 .. g.first[b] - 1
      BY <1>2 DEF HaFamily, HaForked
    <3>2. /\ g.first[b] \in Nat \ {0} /\ g.first[b] <= g.last[b] + 1 /\ g.last[b] \in 0 .. posted
      BY <1>2, HaHolds
    <3>3. 1 .. g.first[b] - 1 \subseteq 1 .. HaMaxMsgs
      BY <1>4, <3>2, HaAssumption, SMTT(30)
    <3> QED BY <3>1, <3>3
  <2>2. ASSUME NEW b \in S, NEW c \in S, g.label[b] = g.label[c] PROVE b = c
    BY <1>2, <2>2 DEF HaFamily, HaApart
  <2>3. f \in [S -> T] /\ \A b, c \in S : f[b] = f[c] => b = c
    BY <2>1, <2>2
  <2>4. IsFiniteSet(T) /\ Cardinality(T) = 2^HaMaxMsgs
    <3>1. IsFiniteSet(1 .. HaMaxMsgs) /\ Cardinality(1 .. HaMaxMsgs) = HaMaxMsgs
      BY HaAssumption, FS_Interval
    <3> QED BY <3>1, FS_SUBSET
  <2>5. Cardinality(S) = Len(agents)
    BY <1>4, FS_Interval
  <2> HIDE DEF S, T, f
  <2>6. f \in Injection(S, T)
    BY <2>3, Zenon DEF Injection, IsInjective
  <2>7. Cardinality(S) <= Cardinality(T)
    BY <2>4, <2>6, FS_Injection
  <2> QED BY <2>4, <2>5, <2>7
<1> QED BY <1>3, <1>5, <1>6 DEF HaTypeOK

LEMMA HaInvRuns == HaInv => HaRunsBounded
<1> SUFFICES ASSUME HaInv, NEW a \in DOMAIN agents, NEW i \in DOMAIN agents[a].queue,
                    NEW m, m = agents[a].queue[i]
             PROVE  /\ ran[m.id] + Cardinality({b \in DOMAIN agents : InQueue(b, m.id)}) <= 2^m.ahead
                    /\ (m.ahead = 0 => a = 1)
  BY DEF HaRunsBounded
<1>1. PICK g : HaWhole(g)
  BY DEF HaInv
<1>2. HaLog(g) /\ HaPlaces(g) /\ HaFamily(g) /\ HaRan(g)
  BY <1>1 DEF HaWhole
<1> DEFINE k == g.first[a] + i - 1
<1>3. k \in 1 .. posted /\ m = g.log[k] /\ m.id = k /\ k \in Nat /\ InQueue(a, k) /\ k \in 1 .. HaMaxMsgs
  <2>1. /\ g.first[a] \in Nat \ {0} /\ g.last[a] \in 0 .. posted
        /\ i \in 1 .. g.last[a] - g.first[a] + 1 /\ m = g.log[k]
    BY <1>2, HaHolds
  <2>2. posted \in 0 .. HaMaxMsgs /\ posted \in Nat /\ HaMaxMsgs \in Nat
    BY <1>2, HaAssumption DEF HaLog
  <2>3. k \in 1 .. posted /\ k \in Nat /\ k \in 1 .. HaMaxMsgs
    BY <2>1, <2>2
  <2>4. m.id = k
    BY <1>2, <2>1, <2>3 DEF HaLog
  <2>5. InQueue(a, k)
    BY <2>4 DEF InQueue
  <2> QED BY <2>1, <2>3, <2>4, <2>5
<1> HIDE DEF k
<1>4. /\ IsFiniteSet(HaAhead(g, k)) /\ m.ahead = Cardinality(HaAhead(g, k))
      /\ Cardinality(HaAhead(g, k)) \in Nat
  BY <1>2, <1>3, HaAheadFinite
<1> DEFINE Q == {b \in DOMAIN agents : InQueue(b, k)}
           B == HaBornAt(g, k)
           S == Q \cup B
           T == SUBSET HaAhead(g, k)
           f == [b \in S |-> g.label[b] \cap (1 .. k - 1)]
<1>5. \A b \in S : b \in DOMAIN agents /\ (InQueue(b, k) \/ g.born[b] = k)
  BY DEF HaBornAt
<1>6. \A b \in S : g.label[b] \cap (1 .. k - 1) \in T
  BY <1>2, <1>3, <1>5, HaLabelAhead
<1>7. ASSUME NEW b \in S, NEW c \in S, b # c
      PROVE  g.label[b] \cap (1 .. k - 1) # g.label[c] \cap (1 .. k - 1)
  <2>1. InQueue(b, k) \/ InQueue(c, k) \/ (g.born[b] = k /\ g.born[c] = k)
    BY <1>5
  <2> QED BY <1>2, <1>3, <1>5, <1>7, <2>1, HaToldApart
<1>8. f \in [S -> T] /\ \A b, c \in S : f[b] = f[c] => b = c
  BY <1>6, <1>7
<1>9. IsFiniteSet(T) /\ Cardinality(T) = 2^m.ahead
  BY <1>4, FS_SUBSET
<1>10. Q \cap B = {}
  <2> SUFFICES ASSUME NEW b \in DOMAIN agents, InQueue(b, k), g.born[b] = k PROVE FALSE
    BY DEF HaBornAt
  <2>1. k \in g.first[b] .. g.last[b] /\ g.first[b] \in Nat
    BY <1>2, HaHolds
  <2>2. k \in 0 .. g.first[b] - 1
    BY <1>2 DEF HaFamily, HaForked
  <2> QED BY <2>1, <2>2
<1>11. IsFiniteSet(Q) /\ IsFiniteSet(B) /\ Q \subseteq DOMAIN agents
  <2>1. IsFiniteSet(DOMAIN agents)
    <3>1. DOMAIN agents = 1 .. Len(agents) /\ Len(agents) \in Nat
      BY <1>2 DEF HaPlaces
    <3> QED BY <3>1, FS_Interval
  <2>2. Q \subseteq DOMAIN agents /\ B \subseteq DOMAIN agents
    BY DEF HaBornAt
  <2> QED BY <2>1, <2>2, FS_Subset
<1>12. ran[k] = Cardinality(B)
  BY <1>2, <1>3 DEF HaRan
<1>13. a \in Q
  BY <1>3
<1>14. m.ahead = 0 => a = 1
  <2> SUFFICES ASSUME m.ahead = 0, a # 1 PROVE FALSE
    OBVIOUS
  <2>1. HaAhead(g, k) = {}
    BY <1>4, FS_EmptySet
  <2>2. 1 \in DOMAIN agents
    BY <1>2 DEF HaPlaces
  <2>3. g.label[1] = {}
    BY <1>2, <2>2 DEF HaFamily, HaForked
  <2>4. g.label[a] \cap (1 .. k - 1) = {}
    BY <1>6, <1>13, <2>1
  <2>5. g.label[a] \cap (1 .. k - 1) # g.label[1] \cap (1 .. k - 1)
    BY <1>2, <1>3, <2>2, HaToldApart
  <2> QED BY <2>3, <2>4, <2>5
<1> HIDE DEF Q, B, T, f
<1>15. Cardinality(S) = Cardinality(B) + Cardinality(Q)
  <2>1. Cardinality(Q \cap B) = 0 /\ Cardinality(Q) \in Nat /\ Cardinality(B) \in Nat
    BY <1>10, <1>11, FS_EmptySet, FS_CardinalityType
  <2>2. Cardinality(Q \cup B) = Cardinality(Q) + Cardinality(B) - Cardinality(Q \cap B)
    BY <1>11, FS_Union
  <2> QED BY <2>1, <2>2
<1> HIDE DEF S
<1>16. Cardinality(S) <= Cardinality(T)
  <2>1. f \in Injection(S, T)
    BY <1>8, Zenon DEF Injection, IsInjective
  <2> QED BY <1>9, <2>1, FS_Injection
<1>17. ran[k] + Cardinality(Q) <= 2^m.ahead
  BY <1>9, <1>12, <1>15, <1>16
<1> QED BY <1>3, <1>14, <1>17 DEF Q

LEMMA HaInvSent == HaInv => HaRanIsSent
<1> SUFFICES ASSUME HaInv, NEW k \in 1 .. posted
             PROVE  /\ ran[k] > 0 /\ ~InQueue(1, k) =>
                         \E i \in DOMAIN sent : sent[i] = [id |-> k, what |-> "forwarded"]
                    /\ Cardinality({i \in DOMAIN sent : sent[i].id = k}) <= 1
  BY DEF HaRanIsSent
<1>1. PICK g : HaWhole(g)
  BY DEF HaInv
<1>2. HaLog(g) /\ HaPlaces(g) /\ HaFamily(g) /\ HaRan(g) /\ HaSent(g)
  BY <1>1 DEF HaWhole
<1>3. ASSUME ran[k] > 0, ~InQueue(1, k)
      PROVE  \E i \in DOMAIN sent : sent[i] = [id |-> k, what |-> "forwarded"]
  <2>1. k \in 1 .. HaMaxMsgs /\ posted \in Nat
    BY <1>2, HaAssumption DEF HaLog
  <2>2. PICK b \in DOMAIN agents : g.born[b] = k
    <3>1. HaBornAt(g, k) # {}
      <4>1. ran[k] = Cardinality(HaBornAt(g, k))
        BY <1>2, <2>1 DEF HaRan
      <4> QED BY <1>3, <4>1, FS_EmptySet
    <3> QED BY <3>1 DEF HaBornAt
  <2>3. HaRuns(g, k)
    BY <1>2, <2>1, <2>2 DEF HaRan
  <2>4. k \in 1 .. g.first[1] - 1
    <3>1. 1 \in DOMAIN agents /\ g.last[1] = posted
      BY <1>2 DEF HaPlaces
    <3>2. g.first[1] \in Nat /\ k \notin g.first[1] .. posted
      BY <1>2, <1>3, <3>1, HaHolds
    <3> QED BY <2>1, <3>2
  <2> QED BY <1>2, <2>3, <2>4 DEF HaSent
<1>4. Cardinality({i \in DOMAIN sent : sent[i].id = k}) <= 1
  <2> DEFINE S == {i \in DOMAIN sent : sent[i].id = k}
  <2>1. \A i, j \in S : i = j
    BY <1>2 DEF HaSent
  <2>2. CASE S = {}
    BY <2>2, FS_EmptySet
  <2>3. CASE S # {}
    <3>1. PICK i \in S : S = {i}
      BY <2>1, <2>3
    <3> HIDE DEF S
    <3>2. Cardinality(S) = 1
      BY <3>1, FS_Singleton
    <3> QED BY <3>2 DEF S
  <2> QED BY <2>2, <2>3
<1> QED BY <1>3, <1>4

-----------------------------------------------------------------------------
(* The children of the agent of the HTTP file server repeat a command at   *)
(* most as often as the commands that were in front of it make agents, one *)
(* posted to an idle agent is run once, and the agent sends on, once, what *)
(* any of them ran.                                                        *)
THEOREM HaChildrenBoundedCorrect == HaSpec => []HaChildrenBounded
<1>1. HaInv => HaChildrenBounded
  BY HaInvType, HaInvRuns, HaInvSent DEF HaChildrenBounded
<1> QED BY <1>1, HaInvInit, HaInvStep, PTL DEF HaSpec
=============================================================================
