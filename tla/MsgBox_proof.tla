---------------------------- MODULE MsgBox_proof ----------------------------
(***************************************************************************)
(* Theorems about MsgBox: what a message carries stays what was put into   *)
(* it, messages are handed on in order, and only a torn body kills.        *)
(*                                                                         *)
(* IInv says of every message that all the forms it is kept in agree       *)
(* (Sound), of every stream that a unit of a head is followed by the rest  *)
(* of the head and its body (Framed), so that what is read as a head and   *)
(* a body was sent as one, and of the numbers of the messages that those   *)
(* handed on, being read and on the wire follow each other (InOrder) and   *)
(* are among those the instance before has had (Passed).                   *)
(***************************************************************************)
EXTENDS MsgBox, TLAPS, WellFoundedInduction

-----------------------------------------------------------------------------
(* What the streams consist of. *)

Records == {Rec(v) : v \in (Nat \X Nat) \cup (Nat \X {"reply"} \X Nat)}
Expands == {Exp(v) : v \in Nat}
Clear   == Records \cup Expands \cup {Null, Junk}
Unit    == Clear \cup {Cipher(u) : u \in Clear}

Real == [recs : Seq(Records), exps : Seq(Expands)]

Heads == [id : Nat, num : Nat, size : Nat, exps : Nat, crypt : BOOLEAN, real : Real,
          part : BOOLEAN]

HeadUnit(h, k) == [kind |-> "head", site |-> k, head |-> h]
HeadUnits      == {HeadUnit(h, k) : h \in Heads, k \in 1 .. HeadLen}
Stream         == Seq(Unit \cup HeadUnits)

IsHead(u) == u.kind = "head"

(* The form of record i of recs in a blob. *)
Stored(recs, crypt, i) == IF crypt THEN Cipher(recs[i]) ELSE recs[i]

-----------------------------------------------------------------------------
(* A message.  The first part holds of all messages, the second of those   *)
(* whose bodies were read in whole.                                        *)

BoxFields == {"id", "num", "size", "crypt", "hasBlob", "blob", "record", "precord", "expand",
              "pexpand", "real", "part"}

BoxTyped(b) ==
    /\ DOMAIN b = BoxFields
    /\ b.id \in Nat /\ b.num \in Nat /\ b.size \in Nat
    /\ b.crypt \in BOOLEAN /\ b.hasBlob \in BOOLEAN /\ b.part \in BOOLEAN
    /\ b.blob \in Seq(Unit) /\ b.record \in Seq(Clear) /\ b.precord \in Seq(Clear)
    /\ b.expand \in Seq(Clear) /\ b.pexpand \in Seq(Clear)
    /\ b.real \in Real

RecordsShaped(b) ==
    /\ BoxTyped(b)
    /\ Len(b.record) = Len(b.precord)
    /\ b.record # <<>> => Len(b.record) = b.num
    /\ b.hasBlob => b.num = b.size /\ b.size <= Len(b.blob)
    /\ ~b.hasBlob => ~b.crypt /\ Len(b.record) = b.num
    /\ ~b.crypt /\ b.hasBlob => \A i \in 1 .. b.size : b.blob[i] \in Clear

Shaped(b) ==
    /\ RecordsShaped(b)
    /\ Len(b.expand) = Len(b.pexpand) /\ Len(b.expand) <= Len(b.real.exps)

(* An instance decodes all expands of a message, or none. *)
AllOrNone(n, b) ==
    \A i \in 1 .. Len(b.pexpand) : (b.pexpand[i] # Null) <=> (n \in knowsExp)

(* Every form the records are kept in is the one they were put in. *)
RecordsTrue(b) ==
    /\ b.num = Len(b.real.recs)
    /\ b.hasBlob => \A i \in 1 .. b.num : b.blob[i] = Stored(b.real.recs, b.crypt, i)
    /\ \A i \in 1 .. Len(b.record) : b.record[i] # Null =>
          b.record[i] = b.real.recs[i] /\ b.precord[i] = b.real.recs[i]
    /\ \A i \in 1 .. Len(b.precord) : b.precord[i] # Null => b.precord[i] = b.real.recs[i]

RecordsIntact(n, b) ==
    /\ RecordsTrue(b)
    /\ ~b.hasBlob => n \in knowsRec
    /\ n \in knowsRec /\ ~b.crypt => b.precord = b.real.recs

ExpandsIntact(b) ==
    /\ Len(b.expand) = Len(b.real.exps)
    /\ \A i \in 1 .. Len(b.expand) :
          IF b.pexpand[i] # Null THEN b.pexpand[i] = b.real.exps[i]
          ELSE b.expand[i] = b.real.exps[i]

Sound(n, b) ==
    /\ Shaped(b) /\ AllOrNone(n, b)
    /\ ~b.part => RecordsIntact(n, b) /\ ExpandsIntact(b)

-----------------------------------------------------------------------------
(* A stream. *)

HeadFits(h) ==
    /\ h \in Heads /\ h.num = h.size /\ h.exps <= Len(h.real.exps)
    /\ ~h.part => h.size = Len(h.real.recs) /\ h.exps = Len(h.real.exps)

(* u is unit j of the body of h. *)
BodyUnit(h, j, u) ==
    /\ u \in Unit
    /\ ~h.crypt \/ j > h.size => u \in Clear
    /\ ~h.part => u = IF j <= h.size THEN Stored(h.real.recs, h.crypt, j)
                       ELSE h.real.exps[j - h.size]

Total(h) == h.size + h.exps

(* From d units on, w has the body of h. *)
HasBody(w, d, h) ==
    /\ d + Total(h) <= Len(w)
    /\ \A j \in 1 .. Total(h) : BodyUnit(h, j, w[d + j])

(* What follows a unit of a head: the rest of the head and its body. *)
Follows(w, p) ==
    LET h == w[p].head
        s == w[p].site
    IN  /\ HeadFits(h) /\ p + (HeadLen - s) <= Len(w)
        /\ \A t \in s .. HeadLen : w[p + (t - s)] = HeadUnit(h, t)
        /\ HasBody(w, p + (HeadLen - s), h)

Framed(w) == \A p \in 1 .. Len(w) : IsHead(w[p]) => Follows(w, p)

Before(u, v) == u.head.id < v.head.id \/ (u.head.id = v.head.id /\ u.site < v.site)

Ordered(w) ==
    \A p, q \in 1 .. Len(w) : p < q /\ IsHead(w[p]) /\ IsHead(w[q]) => Before(w[p], w[q])

-----------------------------------------------------------------------------
(* The order of messages at an instance and between two. *)

HeadIds(w) == {w[p].head.id : p \in {p \in 1 .. Len(w) : IsHead(w[p])}}
OnWire(n)  == HeadIds(wire[n])
Ids(s)     == {s[i].id : i \in 1 .. Len(s)}
Values(s)  == {s[i] : i \in 1 .. Len(s)}
Loading(n) == Ids(loading[n])
Handed(n)  == Values(handed[n])
Has(n)     == Ids(cur[n])

(* The messages n has had, and those that have left for n. *)
Had(n)  == IF n = 1 THEN 1 .. made ELSE Handed(n)
Left(n) == Handed(n) \cup Loading(n) \cup OnWire(n)

Less(A, B) == \A a \in A : \A b \in B : a < b

InOrder(n) ==
    /\ \A i, j \in 1 .. Len(handed[n]) : i < j => handed[n][i] < handed[n][j]
    /\ Less(Handed(n), Loading(n) \cup OnWire(n))
    /\ Less(Loading(n), OnWire(n))
    /\ Ordered(wire[n])

Passed(n) ==
    /\ Has(n) \subseteq Had(n)
    /\ n + 1 \in Inst => Left(n + 1) \subseteq Had(n) /\ Less(Left(n + 1), Has(n))

-----------------------------------------------------------------------------
(* The inductive invariant. *)

Typed ==
    /\ knowsRec \subseteq Inst /\ knowsExp \subseteq Inst /\ crashed \subseteq Inst
    /\ made \in Nat /\ ops \in Nat /\ cuts \in Nat /\ torn \subseteq Inst
    /\ 1 \in knowsRec
    /\ DOMAIN cur = Inst /\ DOMAIN loading = Inst
    /\ wire \in [Inst -> Stream] /\ handed \in [Inst -> Seq(Nat)]

Boxes == \A n \in Inst : cur[n] = <<>> \/ \E b : cur[n] = <<b>> /\ Sound(n, b)

Loadings ==
    \A n \in Inst : loading[n] = <<>>
        \/ \E h \in Heads : loading[n] = <<h>> /\ HeadFits(h) /\ HasBody(wire[n], 0, h)

IInv ==
    /\ Typed /\ Boxes /\ Loadings
    /\ \A n \in Inst : Framed(wire[n]) /\ InOrder(n) /\ Passed(n)
    /\ CrashOnlyWhenTorn
-----------------------------------------------------------------------------
(* Units. *)

LEMMA ClearUnit ==
    ASSUME NEW u \in Clear
    PROVE  /\ u \in Unit /\ u.kind \in {"rec", "exp", "null", "junk"} /\ ~IsHead(u)
           /\ Cipher(u) \in Unit /\ ~IsHead(Cipher(u)) /\ Cipher(u) # Null
           /\ Plain(Cipher(u)) = u /\ Plain(u) = Junk
<1>1. u.kind \in {"rec", "exp", "null", "junk"}
  BY DEF Clear, Records, Expands, Rec, Exp, Null, Junk
<1>2. Cipher(u).kind = "enc" /\ Cipher(u).of = u
  BY DEF Cipher
<1>3. Null.kind = "null"
  BY DEF Null
<1> QED BY <1>1, <1>2, <1>3 DEF Unit, IsHead, Plain

LEMMA UnitFacts ==
    ASSUME NEW u \in Unit
    PROVE  /\ ~IsHead(u) /\ Plain(u) \in Clear /\ Decode(u) \in Clear /\ Decode(u) # Null
<1>0. Junk # Null /\ Junk \in Clear
  BY DEF Junk, Null, Clear
<1>1. CASE u \in Clear
  <2>1. u.kind \in {"rec", "exp"} => u # Null
    BY DEF Null
  <2> QED BY <1>0, <1>1, <2>1, ClearUnit DEF Decode
<1>2. CASE u \notin Clear
  <2>1. PICK c \in Clear : u = Cipher(c)
    BY <1>2 DEF Unit
  <2>2. Cipher(c).kind = "enc"
    BY DEF Cipher
  <2> QED BY <1>0, <2>1, <2>2, ClearUnit DEF Decode
<1> QED BY <1>1, <1>2

LEMMA RecordFacts ==
    ASSUME NEW u \in Records \cup Expands
    PROVE  u \in Clear /\ u # Null /\ Decode(u) = u
<1>1. u.kind \in {"rec", "exp"}
  BY DEF Records, Expands, Rec, Exp
<1>2. Null.kind = "null"
  BY DEF Null
<1> QED BY <1>1, <1>2 DEF Clear, Decode

LEMMA NullsFacts ==
    ASSUME NEW n \in Nat
    PROVE  /\ Nulls(n) \in Seq(Clear) /\ Len(Nulls(n)) = n
           /\ \A i \in 1 .. n : Nulls(n)[i] = Null
           /\ n = 0 => Nulls(n) = <<>>
  BY DEF Nulls, Clear

(* message_clone leaves out nothing where all expands were decoded, and    *)
(* everything where none was.                                              *)
LEMMA LeastNat ==
    ASSUME NEW B \in SUBSET Nat, B # {}
    PROVE  \E m \in B : \A k \in B : ~(k < m)
<1> DEFINE R == OpToRel(<, Nat)
<1>1. IsWellFoundedOn(R, Nat)
  BY NatLessThanWellFounded
<1>2. PICK m \in B : \A k \in B : ~(<<k, m>> \in R)
  BY <1>1, WFMin
<1> QED BY <1>2 DEF OpToRel

LEMMA NoneDecoded ==
    ASSUME NEW s \in Seq(Unit), \A i \in 1 .. Len(s) : s[i] = Null
    PROVE  Decoded(s) = <<>>
<1> DEFINE E(K) == [k \in 0 .. Len(s) |->
                       IF k = 0 THEN <<>>
                       ELSE IF s[k] # Null THEN Append(K[k - 1], s[k]) ELSE K[k - 1]]
           kept == CHOOSE K : K = E(K)
<1>1. Decoded(s) = kept[Len(s)]
  BY DEF Decoded
<1>2. PICK f : f = [k \in 0 .. Len(s) |-> <<>>]
  OBVIOUS
<1>3. f = E(f)
  BY <1>2
<1>4. kept = E(kept)
  BY <1>3
<1> HIDE DEF kept
<1> DEFINE B == {k \in 0 .. Len(s) : kept[k] # <<>>}
<1>5. ASSUME NEW k \in B PROVE \E m \in B : m < k
  BY <1>4
<1>6. B = {}
  <2>1. B \in SUBSET Nat /\ \A k \in B : k \in Nat
    OBVIOUS
  <2> HIDE DEF B
  <2> QED BY <1>5, <2>1, LeastNat
<1> QED BY <1>1, <1>6

LEMMA AllDecoded ==
    ASSUME NEW s \in Seq(Unit), \A i \in 1 .. Len(s) : s[i] # Null
    PROVE  Decoded(s) = s
<1> DEFINE E(K) == [k \in 0 .. Len(s) |->
                       IF k = 0 THEN <<>>
                       ELSE IF s[k] # Null THEN Append(K[k - 1], s[k]) ELSE K[k - 1]]
           kept == CHOOSE K : K = E(K)
<1>1. Decoded(s) = kept[Len(s)]
  BY DEF Decoded
<1>2. PICK f : f = [k \in 0 .. Len(s) |-> SubSeq(s, 1, k)]
  OBVIOUS
<1>g. ASSUME NEW k \in 1 .. Len(s) PROVE Append(SubSeq(s, 1, k - 1), s[k]) = SubSeq(s, 1, k)
  OBVIOUS
<1>h. SubSeq(s, 1, 0) = <<>>
  OBVIOUS
<1>3. f = E(f)
  BY <1>2, <1>g, <1>h
<1>4. kept = E(kept)
  BY <1>3
<1> HIDE DEF kept
<1> DEFINE B == {k \in 0 .. Len(s) : kept[k] # SubSeq(s, 1, k)}
<1>5. ASSUME NEW k \in B PROVE \E m \in B : m < k
  <2>1. k \in 1 .. Len(s)
    BY <1>4, <1>h
  <2>2. kept[k] = Append(kept[k - 1], s[k])
    <3> HIDE DEF B
    <3>1. k \in 0 .. Len(s) /\ k # 0 /\ s[k] # Null
      BY <2>1
    <3>2. E(kept)[k] = Append(kept[k - 1], s[k])
      BY <3>1
    <3> HIDE DEF E
    <3> QED BY <1>4, <3>2
  <2>3. kept[k - 1] # SubSeq(s, 1, k - 1)
    BY <2>1, <2>2, <1>g
  <2> QED BY <2>1, <2>3
<1>6. B = {}
  <2>1. B \in SUBSET Nat /\ \A k \in B : k \in Nat
    OBVIOUS
  <2> HIDE DEF B
  <2> QED BY <1>5, <2>1, LeastNat
<1>7. SubSeq(s, 1, Len(s)) = s
  OBVIOUS
<1> QED BY <1>1, <1>6, <1>7

-----------------------------------------------------------------------------
(* What modules do to a message. *)

(* What message_create, message_clone and a reply make: a message that     *)
(* has its records decoded only.                                           *)
Made(b) ==
    /\ BoxTyped(b) /\ ~b.hasBlob /\ ~b.crypt
    /\ Len(b.precord) = b.num /\ b.record = Nulls(b.num)
    /\ Len(b.expand) = Len(b.pexpand) /\ Len(b.expand) <= Len(b.real.exps)

LEMMA MadeSound ==
    ASSUME NEW n \in knowsRec, NEW b, Made(b), AllOrNone(n, b),
           ~b.part => b.precord = b.real.recs /\ ExpandsIntact(b)
    PROVE  Sound(n, b)
<1>1. /\ Len(Nulls(b.num)) = b.num /\ \A i \in 1 .. b.num : Nulls(b.num)[i] = Null
  BY NullsFacts DEF Made, BoxTyped
<1>2. Shaped(b)
  BY <1>1 DEF Made, Shaped, RecordsShaped
<1>3. ~b.part => RecordsIntact(n, b)
  BY <1>1 DEF Made, BoxTyped, RecordsIntact, RecordsTrue, Real
<1> QED BY <1>2, <1>3 DEF Sound

LEMMA CreateSound ==
    ASSUME NEW k \in Nat, NEW m \in Nat, 1 \in knowsRec, NEW rs,
           rs = [i \in 1 .. k |-> Rec(<<m + 1, i>>)], NEW b,
           b = WithRecords(NewBox(m + 1, [recs |-> rs, exps |-> <<>>]), rs)
    PROVE  b.id = m + 1 /\ Sound(1, b)
<1>1. \A i \in 1 .. k : Rec(<<m + 1, i>>) \in Records
  BY DEF Records
<1>2. rs \in Seq(Records)
  BY <1>1
<1>3. rs \in Seq(Clear) /\ Len(rs) \in Nat
  BY <1>1 DEF Clear
<1>4. PICK r : r = [recs |-> rs, exps |-> <<>>]
  OBVIOUS
<1>5. r \in Real /\ r.recs = rs /\ r.exps = <<>>
  BY <1>2, <1>4 DEF Real
<1>6. /\ DOMAIN b = BoxFields
      /\ b.id = m + 1 /\ b.num = Len(rs) /\ b.size = 0 /\ b.blob = <<>>
      /\ b.record = Nulls(Len(rs)) /\ b.precord = rs /\ b.expand = <<>> /\ b.pexpand = <<>>
      /\ b.real = r
  BY <1>4 DEF WithRecords, NewBox, BoxFields
<1>7. b.crypt = FALSE /\ b.hasBlob = FALSE /\ b.part = FALSE
  BY <1>4 DEF WithRecords, NewBox
<1>8. <<>> \in Seq(Clear) /\ Len(<<>>) = 0 /\ <<>> \in Seq(Unit)
  OBVIOUS
<1>9. Nulls(Len(rs)) \in Seq(Clear)
  BY <1>3, NullsFacts
<1>10. Made(b)
  <2>1. b.id \in Nat /\ b.num \in Nat /\ b.size \in Nat
    BY <1>3, <1>6
  <2>2. b.crypt \in BOOLEAN /\ b.hasBlob \in BOOLEAN /\ b.part \in BOOLEAN
    BY <1>7
  <2>3. BoxTyped(b)
    BY <1>3, <1>5, <1>6, <1>8, <1>9, <2>1, <2>2 DEF BoxTyped
  <2>4. Len(b.expand) <= Len(b.real.exps)
    BY <1>5, <1>6, <1>8
  <2> QED BY <1>6, <1>7, <2>3, <2>4 DEF Made
<1>11. AllOrNone(1, b) /\ ExpandsIntact(b)
  <2>1. Len(b.pexpand) = 0 /\ Len(b.expand) = 0 /\ Len(b.real.exps) = 0
    BY <1>5, <1>6, <1>8
  <2>2. 1 .. Len(b.pexpand) = {} /\ 1 .. Len(b.expand) = {}
    <3>1. 1 .. 0 = {}
      OBVIOUS
    <3> QED BY <2>1, <3>1
  <2>3. AllOrNone(1, b)
    BY <2>2 DEF AllOrNone
  <2>4. ExpandsIntact(b)
    BY <2>1, <2>2 DEF ExpandsIntact
  <2> QED BY <2>3, <2>4
<1> QED BY <1>5, <1>6, <1>10, <1>11, MadeSound
(* What does not touch the records. *)
LEMMA RecordsKept ==
    ASSUME NEW n, NEW b, NEW c,
           c.num = b.num, c.blob = b.blob, c.record = b.record, c.precord = b.precord,
           c.hasBlob = b.hasBlob, c.crypt = b.crypt, c.real.recs = b.real.recs,
           RecordsIntact(n, b)
    PROVE  RecordsIntact(n, c)
  BY ZenonT(30) DEF RecordsIntact, RecordsTrue

LEMMA AppendFacts ==
    ASSUME NEW S, NEW s \in Seq(S), NEW e \in S
    PROVE  /\ Append(s, e) \in Seq(S) /\ Len(Append(s, e)) = Len(s) + 1
           /\ \A i \in 1 .. Len(s) : Append(s, e)[i] = s[i]
           /\ Append(s, e)[Len(s) + 1] = e
  OBVIOUS

WithExpand(b, e) ==
    [b EXCEPT !.expand = Append(@, Null), !.pexpand = Append(@, e), !.real.exps = Append(@, e)]

LEMMA AddExpandSound ==
    ASSUME NEW n \in knowsExp, NEW k \in Nat, NEW b, Sound(n, b), NEW e, e = Exp(k), NEW c,
           c = WithExpand(b, e)
    PROVE  c.id = b.id /\ Sound(n, c)
<1>1. e \in Expands /\ e \in Clear /\ e # Null /\ Null \in Clear
  BY RecordFacts DEF Expands, Clear
<1> DEFINE ex == Append(b.expand, Null)
           px == Append(b.pexpand, e)
           rx == Append(b.real.exps, e)
<1>2. BoxTyped(b) /\ Len(b.expand) = Len(b.pexpand)
  BY DEF Sound, Shaped, RecordsShaped
<1>3. /\ DOMAIN c = BoxFields
      /\ c.id = b.id /\ c.num = b.num /\ c.size = b.size /\ c.blob = b.blob
      /\ c.record = b.record /\ c.precord = b.precord /\ c.expand = ex /\ c.pexpand = px
      /\ c.real = [b.real EXCEPT !.exps = rx]
  BY <1>2 DEF BoxTyped, BoxFields, WithExpand
<1>4. c.crypt = b.crypt /\ c.hasBlob = b.hasBlob /\ c.part = b.part
  BY <1>2 DEF BoxTyped, BoxFields, WithExpand
<1>5. c.real \in Real /\ c.real.recs = b.real.recs /\ c.real.exps = rx
  <2>1. b.real \in Real /\ b.real.exps \in Seq(Expands)
    BY <1>2 DEF BoxTyped, Real
  <2>2. rx \in Seq(Expands)
    BY <1>1, <2>1
  <2> HIDE DEF rx
  <2> QED BY <1>3, <2>1, <2>2 DEF Real
<1>6. ex \in Seq(Clear) /\ px \in Seq(Clear) /\ Len(ex) = Len(px)
  BY <1>1, <1>2 DEF BoxTyped
<1>7. BoxTyped(c)
  BY <1>2, <1>3, <1>4, <1>5, <1>6 DEF BoxTyped
<1>8. Shaped(c)
  <2>1. b.real.exps \in Seq(Expands) /\ b.expand \in Seq(Clear) /\ Len(b.expand) <= Len(b.real.exps)
    BY <1>2 DEF BoxTyped, Real, Sound, Shaped, RecordsShaped
  <2>2. Len(ex) <= Len(rx)
    BY <1>1, <2>1
  <2> HIDE DEF ex, px, rx
  <2> QED BY <1>3, <1>4, <1>5, <1>6, <1>7, <2>2 DEF Sound, Shaped, RecordsShaped
<1>9. AllOrNone(n, c)
  BY <1>1, <1>2, <1>3 DEF Sound, AllOrNone, BoxTyped
<1>10. ~c.part => RecordsIntact(n, c)
  <2> SUFFICES ASSUME RecordsIntact(n, b) PROVE RecordsIntact(n, c)
    BY <1>4 DEF Sound
  <2> QED BY <1>3, <1>4, <1>5, RecordsKept
<1>11. ~c.part => ExpandsIntact(c)
  <2>1. SUFFICES ASSUME ExpandsIntact(b) PROVE ExpandsIntact(c)
    BY <1>4 DEF Sound
  <2>2. b.real.exps \in Seq(Expands) /\ b.expand \in Seq(Clear) /\ b.pexpand \in Seq(Clear)
    BY <1>2 DEF BoxTyped, Real
  <2>3. /\ Len(ex) = Len(b.expand) + 1 /\ Len(rx) = Len(b.expand) + 1
        /\ Len(b.pexpand) = Len(b.expand) /\ Len(b.real.exps) = Len(b.expand)
    BY <1>1, <1>2, <2>1, <2>2, AppendFacts DEF ExpandsIntact
  <2>a. \A i \in 1 .. Len(b.expand) :
           px[i] = b.pexpand[i] /\ rx[i] = b.real.exps[i] /\ ex[i] = b.expand[i]
    BY <1>1, <2>2, <2>3, AppendFacts
  <2>b. px[Len(b.expand) + 1] = e /\ rx[Len(b.expand) + 1] = e
    BY <1>1, <2>2, <2>3, AppendFacts
  <2> HIDE DEF ex, px, rx
  <2>4. ASSUME NEW i \in 1 .. Len(ex)
        PROVE  IF px[i] # Null THEN px[i] = rx[i] ELSE ex[i] = rx[i]
    <3>1. CASE i = Len(b.expand) + 1
      BY <1>1, <2>b, <3>1
    <3>2. CASE i \in 1 .. Len(b.expand)
      BY <2>1, <2>a, <3>2 DEF ExpandsIntact
    <3>3. Len(b.expand) \in Nat
      BY <2>2
    <3> QED BY <2>3, <2>4, <3>1, <3>2, <3>3
  <2> QED BY <1>3, <1>5, <2>3, <2>4 DEF ExpandsIntact
<1> QED BY <1>3, <1>8, <1>9, <1>10, <1>11 DEF Sound

LEMMA TailFacts ==
    ASSUME NEW S, NEW s \in Seq(S), Len(s) > 0
    PROVE  /\ Tail(s) \in Seq(S) /\ Len(Tail(s)) = Len(s) - 1
           /\ \A i \in 1 .. Len(s) - 1 : Tail(s)[i] = s[i + 1]
  OBVIOUS

LEMMA RemoveExpandSound ==
    ASSUME NEW n, NEW b, Sound(n, b), b.expand # <<>>, NEW c,
           c = [b EXCEPT !.expand = Tail(@), !.pexpand = Tail(@), !.real.exps = Tail(@)]
    PROVE  c.id = b.id /\ Sound(n, c)
<1> DEFINE ex == Tail(b.expand)
           px == Tail(b.pexpand)
           rx == Tail(b.real.exps)
<1>1. BoxTyped(b) /\ Len(b.expand) = Len(b.pexpand) /\ Len(b.expand) <= Len(b.real.exps)
  BY DEF Sound, Shaped, RecordsShaped
<1>2. /\ b.real \in Real /\ b.real.exps \in Seq(Expands)
      /\ b.expand \in Seq(Clear) /\ b.pexpand \in Seq(Clear)
  BY <1>1 DEF BoxTyped, Real
<1>3. Len(b.expand) > 0 /\ Len(b.pexpand) > 0 /\ Len(b.real.exps) > 0
  BY <1>1, <1>2
<1>4. /\ DOMAIN c = BoxFields
      /\ c.id = b.id /\ c.num = b.num /\ c.size = b.size /\ c.blob = b.blob
      /\ c.record = b.record /\ c.precord = b.precord /\ c.expand = ex /\ c.pexpand = px
      /\ c.real = [b.real EXCEPT !.exps = rx]
  BY <1>1 DEF BoxTyped, BoxFields
<1>5. c.crypt = b.crypt /\ c.hasBlob = b.hasBlob /\ c.part = b.part
  BY <1>1 DEF BoxTyped, BoxFields
<1>6. /\ ex \in Seq(Clear) /\ px \in Seq(Clear) /\ rx \in Seq(Expands)
      /\ Len(ex) = Len(b.expand) - 1 /\ Len(px) = Len(b.expand) - 1
      /\ Len(rx) = Len(b.real.exps) - 1
  BY <1>1, <1>2, <1>3, TailFacts
<1>7. /\ \A i \in 1 .. Len(b.expand) - 1 : ex[i] = b.expand[i + 1] /\ px[i] = b.pexpand[i + 1]
      /\ \A i \in 1 .. Len(b.real.exps) - 1 : rx[i] = b.real.exps[i + 1]
  BY <1>1, <1>2, <1>3, TailFacts
<1> HIDE DEF ex, px, rx
<1>8. c.real \in Real /\ c.real.recs = b.real.recs /\ c.real.exps = rx
  <2>1. PICK r \in Real : r = b.real
    BY <1>2
  <2>2. c.real = [r EXCEPT !.exps = rx]
    BY <1>4, <2>1
  <2> QED BY <1>6, <2>1, <2>2 DEF Real
<1>9. BoxTyped(c)
  BY <1>1, <1>4, <1>5, <1>6, <1>8 DEF BoxTyped
<1>10. Len(ex) = Len(px) /\ Len(ex) <= Len(rx)
  BY <1>1, <1>2, <1>6
<1>11. Shaped(c)
  BY <1>4, <1>5, <1>8, <1>9, <1>10 DEF Sound, Shaped, RecordsShaped
<1>12. AllOrNone(n, c)
  <2>1. ASSUME NEW i \in 1 .. Len(px) PROVE (px[i] # Null) <=> (n \in knowsExp)
    <3>1. i \in 1 .. Len(b.expand) - 1 /\ i + 1 \in 1 .. Len(b.pexpand)
      BY <1>1, <1>2, <1>6
    <3> QED BY <1>7, <3>1 DEF Sound, AllOrNone
  <2> QED BY <1>4, <2>1 DEF AllOrNone
<1>13. ~c.part => RecordsIntact(n, c)
  <2> SUFFICES ASSUME RecordsIntact(n, b) PROVE RecordsIntact(n, c)
    BY <1>5 DEF Sound
  <2> QED BY <1>4, <1>5, <1>8, RecordsKept
<1>14. ~c.part => ExpandsIntact(c)
  <2>1. SUFFICES ASSUME ExpandsIntact(b) PROVE ExpandsIntact(c)
    BY <1>5 DEF Sound
  <2>2. Len(b.expand) = Len(b.real.exps) /\ Len(ex) = Len(rx)
    BY <1>2, <1>6, <2>1 DEF ExpandsIntact
  <2>3. ASSUME NEW i \in 1 .. Len(ex)
        PROVE  IF px[i] # Null THEN px[i] = rx[i] ELSE ex[i] = rx[i]
    <3>1. i \in 1 .. Len(b.expand) - 1 /\ i + 1 \in 1 .. Len(b.expand)
      BY <1>2, <1>6
    <3>2. px[i] = b.pexpand[i + 1] /\ ex[i] = b.expand[i + 1] /\ rx[i] = b.real.exps[i + 1]
      BY <1>7, <2>2, <3>1
    <3> QED BY <2>1, <3>1, <3>2 DEF ExpandsIntact
  <2> QED BY <1>4, <1>8, <2>2, <2>3 DEF ExpandsIntact
<1> QED BY <1>4, <1>11, <1>12, <1>13, <1>14 DEF Sound

LEMMA ExpandsKept ==
    ASSUME NEW n, NEW b, NEW c, c.expand = b.expand, c.pexpand = b.pexpand, c.real = b.real
    PROVE  (AllOrNone(n, b) => AllOrNone(n, c)) /\ (ExpandsIntact(b) => ExpandsIntact(c))
  BY ZenonT(30) DEF AllOrNone, ExpandsIntact

LEMMA EncryptSound ==
    ASSUME NEW n, NEW b, Sound(n, b), ~b.crypt, b.hasBlob, NEW c,
           c = [b EXCEPT !.blob = [i \in 1 .. b.size |-> Cipher(b.blob[i])], !.crypt = TRUE]
    PROVE  c.id = b.id /\ Sound(n, c)
<1> DEFINE bl == [i \in 1 .. b.size |-> Cipher(b.blob[i])]
<1>1. BoxTyped(b) /\ Shaped(b)
  BY DEF Sound, Shaped, RecordsShaped
<1>2. /\ DOMAIN c = BoxFields
      /\ c.id = b.id /\ c.num = b.num /\ c.size = b.size /\ c.blob = bl
      /\ c.record = b.record /\ c.precord = b.precord /\ c.expand = b.expand
      /\ c.pexpand = b.pexpand /\ c.real = b.real
  BY <1>1 DEF BoxTyped, BoxFields
<1>3. c.hasBlob = b.hasBlob /\ c.part = b.part
  BY <1>1 DEF BoxTyped, BoxFields
<1>4. c.crypt = TRUE
  BY <1>1 DEF BoxTyped, BoxFields
<1>5. b.size \in Nat /\ b.blob \in Seq(Unit) /\ b.size <= Len(b.blob)
  BY <1>1 DEF BoxTyped, Shaped, RecordsShaped
<1>6. \A i \in 1 .. b.size : Cipher(b.blob[i]) \in Unit
  BY <1>1, ClearUnit DEF Shaped, RecordsShaped
<1>7. bl \in Seq(Unit) /\ Len(bl) = b.size /\ \A i \in 1 .. b.size : bl[i] = Cipher(b.blob[i])
  BY <1>5, <1>6
<1> HIDE DEF bl
<1>8. BoxTyped(c)
  <2>1. c.crypt \in BOOLEAN /\ c.hasBlob \in BOOLEAN /\ c.part \in BOOLEAN
    BY <1>1, <1>3, <1>4 DEF BoxTyped
  <2> QED BY <1>1, <1>2, <1>7, <2>1 DEF BoxTyped
<1>9. Shaped(c)
  BY <1>1, <1>2, <1>3, <1>4, <1>5, <1>7, <1>8 DEF Shaped, RecordsShaped
<1>10. AllOrNone(n, c)
  BY <1>2, ExpandsKept DEF Sound
<1>11. ~c.part => ExpandsIntact(c)
  BY <1>2, <1>3, ExpandsKept DEF Sound
<1>12. ~c.part => RecordsIntact(n, c)
  <2> SUFFICES ASSUME RecordsIntact(n, b) PROVE RecordsIntact(n, c)
    BY <1>3 DEF Sound
  <2>1. b.num = b.size
    BY <1>1 DEF Shaped, RecordsShaped
  <2>2. \A i \in 1 .. b.num : c.blob[i] = Stored(b.real.recs, c.crypt, i)
    BY <1>2, <1>4, <1>7, <2>1 DEF RecordsIntact, RecordsTrue, Stored
  <2>3. c.num = Len(c.real.recs)
    BY <1>2 DEF RecordsIntact, RecordsTrue
  <2>4. /\ \A i \in 1 .. Len(c.record) : c.record[i] # Null =>
              c.record[i] = c.real.recs[i] /\ c.precord[i] = c.real.recs[i]
        /\ \A i \in 1 .. Len(c.precord) : c.precord[i] # Null => c.precord[i] = c.real.recs[i]
    BY <1>2 DEF RecordsIntact, RecordsTrue
  <2>5. \A i \in 1 .. c.num : c.blob[i] = Stored(c.real.recs, c.crypt, i)
    BY <1>2, <2>2
  <2>6. RecordsTrue(c)
    BY <2>3, <2>4, <2>5 DEF RecordsTrue
  <2> QED BY <1>3, <1>4, <2>6 DEF RecordsIntact
<1> QED BY <1>2, <1>9, <1>10, <1>11, <1>12 DEF Sound

(* message_load_record fills the sites with what the blob has. *)
LEMMA LoadRecordFacts ==
    ASSUME NEW n, NEW b, RecordsShaped(b), b.hasBlob, ~b.crypt, NEW c, c = LoadRecord(n, b)
    PROVE  /\ RecordsShaped(c)
           /\ c.id = b.id /\ c.size = b.size /\ c.expand = b.expand
           /\ c.pexpand = b.pexpand /\ c.real = b.real /\ c.blob = b.blob
           /\ c.hasBlob = b.hasBlob /\ c.crypt = b.crypt /\ c.part = b.part
           /\ RecordsTrue(b) => RecordsIntact(n, c)
<1> DEFINE sites == IF b.record = <<>> THEN Nulls(b.num) ELSE b.record
           ps    == IF b.record = <<>> THEN Nulls(b.num) ELSE b.precord
           rs    == [i \in 1 .. b.num |-> b.blob[i]]
           ds    == [i \in 1 .. b.num |-> IF ps[i] # Null THEN ps[i] ELSE Decode(b.blob[i])]
<1>1. BoxTyped(b)
  BY DEF RecordsShaped
<1>2. /\ b.num \in Nat /\ b.num = b.size /\ b.blob \in Seq(Unit) /\ b.num <= Len(b.blob)
      /\ \A i \in 1 .. b.num : b.blob[i] \in Clear
      /\ b.record \in Seq(Clear) /\ b.precord \in Seq(Clear)
  BY <1>1 DEF BoxTyped, RecordsShaped
<1>3. /\ Nulls(b.num) \in Seq(Clear) /\ Len(Nulls(b.num)) = b.num
      /\ \A i \in 1 .. b.num : Nulls(b.num)[i] = Null
      /\ b.num = 0 => Nulls(b.num) = <<>>
  BY <1>2, NullsFacts
<1>4. sites \in Seq(Clear) /\ ps \in Seq(Clear) /\ Len(sites) = b.num /\ Len(ps) = b.num
  <2>1. CASE b.record = <<>>
    BY <1>3, <2>1
  <2>2. CASE b.record # <<>>
    <3>1. Len(b.record) = b.num /\ Len(b.precord) = b.num
      BY <2>2 DEF RecordsShaped
    <3> QED BY <1>2, <2>2, <3>1
  <2> QED BY <2>1, <2>2
<1>5. rs \in Seq(Clear) /\ Len(rs) = b.num /\ \A i \in 1 .. b.num : rs[i] = b.blob[i]
  BY <1>2
<1>6. \A i \in 1 .. b.num : Decode(b.blob[i]) \in Clear /\ ps[i] \in Clear
  BY <1>2, <1>4, UnitFacts
<1> DEFINE full == n \notin knowsRec \/ \A i \in 1 .. b.num : sites[i] # Null
<1> HIDE DEF sites, ps
<1>7. /\ ds \in Seq(Clear) /\ Len(ds) = b.num
      /\ \A i \in 1 .. b.num : ds[i] = IF ps[i] # Null THEN ps[i] ELSE Decode(b.blob[i])
  <2> DEFINE D(i) == IF ps[i] # Null THEN ps[i] ELSE Decode(b.blob[i])
  <2>1. \A i \in 1 .. b.num : D(i) \in Clear
    BY <1>6
  <2>2. ds = [i \in 1 .. b.num |-> D(i)]
    OBVIOUS
  <2> HIDE DEF ds, D
  <2>3. ds \in Seq(Clear) /\ Len(ds) = b.num /\ \A i \in 1 .. b.num : ds[i] = D(i)
    BY <1>2, <2>1, <2>2
  <2> QED BY <2>3 DEF D
<1> HIDE DEF rs, ds
<1>8. c = IF full THEN b ELSE [b EXCEPT !.record = rs, !.precord = ds]
  BY DEF LoadRecord, sites, ps, rs, ds
<1> HIDE DEF full
<1>9. CASE full
  <2>1. c = b
    BY <1>8, <1>9
  <2>2. RecordsTrue(b) /\ n \in knowsRec => b.precord = b.real.recs
    <3>1. SUFFICES ASSUME RecordsTrue(b), n \in knowsRec PROVE b.precord = b.real.recs
      OBVIOUS
    <3>2. \A i \in 1 .. b.num : sites[i] # Null
      BY <1>9, <3>1 DEF full
    <3>3. b.real.recs \in Seq(Records) /\ Len(b.real.recs) = b.num
      BY <1>1, <3>1 DEF BoxTyped, Real, RecordsTrue
    <3>4. CASE b.record = <<>>
      <4>1. b.num = 0
        BY <1>2, <1>3, <3>2, <3>4 DEF sites
      <4>2. Len(b.precord) = 0
        BY <3>4 DEF RecordsShaped
      <4> QED BY <1>2, <3>3, <4>1, <4>2
    <3>5. CASE b.record # <<>>
      <4>1. Len(b.record) = b.num /\ Len(b.precord) = b.num /\ sites = b.record
        BY <3>5 DEF RecordsShaped, sites
      <4>2. \A i \in 1 .. b.num : b.precord[i] = b.real.recs[i]
        BY <3>1, <3>2, <4>1 DEF RecordsTrue
      <4> QED BY <1>2, <3>3, <4>1, <4>2
    <3> QED BY <3>4, <3>5
  <2> QED BY <2>1, <2>2 DEF RecordsIntact
<1>10. CASE ~full
  <2>1. c = [b EXCEPT !.record = rs, !.precord = ds]
    BY <1>8, <1>10
  <2>2. /\ DOMAIN c = BoxFields
        /\ c.id = b.id /\ c.num = b.num /\ c.size = b.size /\ c.blob = b.blob
        /\ c.record = rs /\ c.precord = ds /\ c.expand = b.expand
        /\ c.pexpand = b.pexpand /\ c.real = b.real
    BY <1>1, <2>1 DEF BoxTyped, BoxFields
  <2>3. c.hasBlob = b.hasBlob /\ c.part = b.part /\ c.crypt = b.crypt
    BY <1>1, <2>1 DEF BoxTyped, BoxFields
  <2>4. BoxTyped(c)
    BY <1>1, <1>5, <1>7, <2>2, <2>3 DEF BoxTyped
  <2>5. RecordsShaped(c)
    BY <1>2, <1>5, <1>7, <2>2, <2>3, <2>4 DEF RecordsShaped
  <2>6. RecordsTrue(b) => RecordsIntact(n, c)
    <3>1. SUFFICES ASSUME RecordsTrue(b) PROVE RecordsIntact(n, c)
      OBVIOUS
    <3>2. b.real.recs \in Seq(Records) /\ Len(b.real.recs) = b.num
      BY <1>1, <3>1 DEF BoxTyped, Real, RecordsTrue
    <3>3. \A i \in 1 .. b.num : b.blob[i] = b.real.recs[i]
      BY <3>1 DEF RecordsTrue, Stored
    <3>4. ASSUME NEW i \in 1 .. b.num PROVE ps[i] # Null => ps[i] = b.real.recs[i]
      <4>1. CASE b.record = <<>>
        BY <1>3, <4>1 DEF ps
      <4>2. CASE b.record # <<>>
        <5>1. ps = b.precord /\ Len(b.precord) = b.num
          BY <4>2 DEF ps, RecordsShaped
        <5> QED BY <3>1, <5>1 DEF RecordsTrue
      <4> QED BY <4>1, <4>2
    <3>5. \A i \in 1 .. b.num : Decode(b.real.recs[i]) = b.real.recs[i]
      BY <3>2, RecordFacts
    <3>6. \A i \in 1 .. b.num : ds[i] = b.real.recs[i] /\ rs[i] = b.real.recs[i]
      BY <1>5, <1>7, <3>3, <3>4, <3>5
    <3>7. ds = b.real.recs
      BY <1>7, <3>2, <3>6
    <3>8. RecordsTrue(c)
      BY <1>5, <1>7, <2>2, <2>3, <3>1, <3>6 DEF RecordsTrue
    <3> QED BY <2>2, <2>3, <3>7, <3>8 DEF RecordsIntact
  <2> QED BY <2>2, <2>3, <2>5, <2>6
<1> QED BY <1>9, <1>10

LEMMA DecryptSound ==
    ASSUME NEW n, NEW b, Sound(n, b), b.crypt, b.hasBlob, NEW c,
           c = LoadRecord(n, [b EXCEPT !.blob = [i \in 1 .. b.size |-> Plain(b.blob[i])],
                                       !.crypt = FALSE])
    PROVE  c.id = b.id /\ Sound(n, c)
<1> DEFINE bl == [i \in 1 .. b.size |-> Plain(b.blob[i])]
<1>0. PICK d : d = [b EXCEPT !.blob = bl, !.crypt = FALSE]
  OBVIOUS
<1>1. BoxTyped(b) /\ Shaped(b)
  BY DEF Sound, Shaped, RecordsShaped
<1>2. /\ DOMAIN d = BoxFields
      /\ d.id = b.id /\ d.num = b.num /\ d.size = b.size /\ d.blob = bl
      /\ d.record = b.record /\ d.precord = b.precord /\ d.expand = b.expand
      /\ d.pexpand = b.pexpand /\ d.real = b.real
  BY <1>0, <1>1 DEF BoxTyped, BoxFields
<1>3. d.hasBlob = b.hasBlob /\ d.part = b.part
  BY <1>0, <1>1 DEF BoxTyped, BoxFields
<1>4. d.crypt = FALSE
  BY <1>0, <1>1 DEF BoxTyped, BoxFields
<1>5. b.size \in Nat /\ b.blob \in Seq(Unit) /\ b.size <= Len(b.blob) /\ b.num = b.size
  BY <1>1 DEF BoxTyped, Shaped, RecordsShaped
<1>6. \A i \in 1 .. b.size : Plain(b.blob[i]) \in Clear /\ Plain(b.blob[i]) \in Unit
  BY <1>5, UnitFacts, ClearUnit
<1>7. /\ bl \in Seq(Unit) /\ Len(bl) = b.size
      /\ \A i \in 1 .. b.size : bl[i] = Plain(b.blob[i]) /\ bl[i] \in Clear
  BY <1>5, <1>6
<1>c. c = LoadRecord(n, d)
  BY <1>0
<1> HIDE DEF bl
<1>8. BoxTyped(d)
  <2>1. d.crypt \in BOOLEAN /\ d.hasBlob \in BOOLEAN /\ d.part \in BOOLEAN
    BY <1>1, <1>3, <1>4 DEF BoxTyped
  <2> QED BY <1>1, <1>2, <1>7, <2>1 DEF BoxTyped
<1>9. Shaped(d)
  BY <1>1, <1>2, <1>3, <1>4, <1>5, <1>7, <1>8 DEF Shaped, RecordsShaped
<1>10. ~b.part => RecordsTrue(d)
  <2>1. SUFFICES ASSUME RecordsTrue(b) PROVE RecordsTrue(d)
    BY DEF Sound, RecordsIntact
  <2>2. b.real.recs \in Seq(Records) /\ Len(b.real.recs) = b.num
    BY <1>1, <2>1 DEF BoxTyped, Real, RecordsTrue
  <2>3. \A i \in 1 .. b.num : b.blob[i] = Cipher(b.real.recs[i])
    BY <2>1 DEF RecordsTrue, Stored
  <2>4. \A i \in 1 .. b.num : Plain(Cipher(b.real.recs[i])) = b.real.recs[i]
    BY <2>2, RecordFacts, ClearUnit
  <2>5. \A i \in 1 .. d.num : d.blob[i] = Stored(d.real.recs, d.crypt, i)
    BY <1>2, <1>4, <1>5, <1>7, <2>3, <2>4 DEF Stored
  <2>6. d.num = Len(d.real.recs)
    BY <1>2, <2>2
  <2>7. /\ \A i \in 1 .. Len(d.record) : d.record[i] # Null =>
              d.record[i] = d.real.recs[i] /\ d.precord[i] = d.real.recs[i]
        /\ \A i \in 1 .. Len(d.precord) : d.precord[i] # Null => d.precord[i] = d.real.recs[i]
    BY <1>2, <2>1 DEF RecordsTrue
  <2> QED BY <2>5, <2>6, <2>7 DEF RecordsTrue
<1>11. d.hasBlob /\ ~d.crypt
  BY <1>3, <1>4
<1>12. /\ RecordsShaped(c) /\ c.id = d.id /\ c.expand = d.expand /\ c.pexpand = d.pexpand
       /\ c.real = d.real /\ c.part = d.part /\ (RecordsTrue(d) => RecordsIntact(n, c))
  BY <1>9, <1>11, <1>c, LoadRecordFacts DEF Shaped
<1>13. c.expand = b.expand /\ c.pexpand = b.pexpand /\ c.real = b.real /\ c.part = b.part
  BY <1>2, <1>3, <1>12
<1>14. AllOrNone(n, c) /\ (~c.part => ExpandsIntact(c))
  BY <1>13, ExpandsKept DEF Sound
<1>15. Shaped(c)
  BY <1>1, <1>12, <1>13 DEF Shaped
<1> QED BY <1>2, <1>10, <1>12, <1>13, <1>14, <1>15 DEF Sound

(* What message_clone does with the expands. *)
LEMMA CloneExpands ==
    ASSUME NEW n, NEW b, Sound(n, b), NEW es, es = Decoded(b.pexpand), NEW xs,
           xs = IF n \in knowsExp THEN b.real.exps ELSE <<>>
    PROVE  /\ es \in Seq(Clear) /\ xs \in Seq(Expands) /\ Len(es) <= Len(xs)
           /\ \A i \in 1 .. Len(es) : es[i] # Null /\ n \in knowsExp
           /\ ~b.part => Len(es) = Len(xs) /\ \A i \in 1 .. Len(es) : es[i] = xs[i]
<1>1. /\ b.pexpand \in Seq(Clear) /\ b.real.exps \in Seq(Expands)
      /\ Len(b.expand) = Len(b.pexpand) /\ Len(b.expand) <= Len(b.real.exps)
  BY DEF Sound, Shaped, RecordsShaped, BoxTyped, Real
<1>2. b.pexpand \in Seq(Unit)
  BY <1>1, ClearUnit
<1>3. CASE n \in knowsExp
  <2>1. \A i \in 1 .. Len(b.pexpand) : b.pexpand[i] # Null
    BY <1>3 DEF Sound, AllOrNone
  <2>2. es = b.pexpand /\ xs = b.real.exps
    BY <1>2, <1>3, <2>1, AllDecoded
  <2>3. ~b.part => Len(es) = Len(xs) /\ \A i \in 1 .. Len(es) : es[i] = xs[i]
    BY <1>1, <2>1, <2>2 DEF Sound, ExpandsIntact
  <2>4. es \in Seq(Clear) /\ xs \in Seq(Expands) /\ Len(es) <= Len(xs)
    BY <1>1, <2>2
  <2>5. \A i \in 1 .. Len(es) : es[i] # Null /\ n \in knowsExp
    BY <1>3, <2>1, <2>2
  <2> QED BY <2>3, <2>4, <2>5
<1>4. CASE n \notin knowsExp
  <2>1. \A i \in 1 .. Len(b.pexpand) : b.pexpand[i] = Null
    BY <1>4 DEF Sound, AllOrNone
  <2>2. es = <<>> /\ xs = <<>>
    BY <1>2, <1>4, <2>1, NoneDecoded
  <2>3. /\ <<>> \in Seq(Clear) /\ <<>> \in Seq(Expands) /\ Len(<<>>) = 0
        /\ 1 .. 0 = {} /\ 0 <= 0
    OBVIOUS
  <2>4. es \in Seq(Clear) /\ xs \in Seq(Expands) /\ Len(es) = 0 /\ Len(xs) = 0
    BY <2>2, <2>3
  <2>5. 1 .. Len(es) = {} /\ Len(es) <= Len(xs) /\ Len(es) = Len(xs)
    BY <2>3, <2>4
  <2> QED BY <2>4, <2>5
<1> QED BY <1>3, <1>4

CloneHead(b, r, es) ==
    [NewBox(b.id, r) EXCEPT !.expand = Nulls(Len(es)), !.pexpand = es, !.crypt = b.crypt,
                            !.part = b.part]

CloneBody(b, new) ==
    IF b.crypt
    THEN [new EXCEPT !.num = b.num, !.size = b.size, !.hasBlob = TRUE,
                     !.blob = SubSeq(b.blob, 1, b.size)]
    ELSE WithRecords(new, b.precord)

LEMMA CloneSound ==
    ASSUME NEW n, NEW b, Sound(n, b), CanClone(n, b), NEW es, es = Decoded(b.pexpand), NEW r,
           r = [recs |-> b.real.recs, exps |-> IF n \in knowsExp THEN b.real.exps ELSE <<>>],
           NEW new, new = CloneHead(b, r, es), NEW c, c = CloneBody(b, new)
    PROVE  c.id = b.id /\ Sound(n, c)
<1>1. BoxTyped(b) /\ Shaped(b) /\ n \in knowsRec
  BY DEF Sound, Shaped, RecordsShaped, CanClone
<1>2. PICK xs : xs = IF n \in knowsExp THEN b.real.exps ELSE <<>>
  OBVIOUS
<1>3. /\ es \in Seq(Clear) /\ xs \in Seq(Expands) /\ Len(es) <= Len(xs)
      /\ \A i \in 1 .. Len(es) : es[i] # Null /\ n \in knowsExp
      /\ ~b.part => Len(es) = Len(xs) /\ \A i \in 1 .. Len(es) : es[i] = xs[i]
  BY <1>2, CloneExpands
<1>4. r \in Real /\ r.recs = b.real.recs /\ r.exps = xs
  BY <1>1, <1>2, <1>3 DEF BoxTyped, Real
<1>5. Nulls(Len(es)) \in Seq(Clear) /\ Len(Nulls(Len(es))) = Len(es)
  BY <1>3, NullsFacts
<1>6. /\ DOMAIN new = BoxFields
      /\ new.id = b.id /\ new.size = 0 /\ new.record = <<>> /\ new.precord = <<>>
      /\ new.blob = <<>> /\ new.expand = Nulls(Len(es)) /\ new.pexpand = es /\ new.real = r
  BY DEF NewBox, CloneHead, BoxFields
<1>7. new.hasBlob = FALSE
  BY DEF NewBox, CloneHead
<1>8. new.crypt = b.crypt
  BY DEF NewBox, CloneHead
<1>9. new.part = b.part
  BY DEF NewBox, CloneHead
<1>10. CASE b.crypt
  <2>1. c = [new EXCEPT !.num = b.num, !.size = b.size, !.hasBlob = TRUE,
                        !.blob = SubSeq(b.blob, 1, b.size)]
    BY <1>10 DEF CloneBody
  <2>2. /\ DOMAIN c = BoxFields
        /\ c.id = b.id /\ c.size = b.size /\ c.num = b.num /\ c.record = <<>>
        /\ c.precord = <<>> /\ c.blob = SubSeq(b.blob, 1, b.size)
        /\ c.expand = Nulls(Len(es)) /\ c.pexpand = es /\ c.real = r
    BY <1>6, <2>1 DEF BoxFields
  <2>3. c.crypt = b.crypt /\ c.part = b.part
    BY <1>6, <1>8, <1>9, <2>1 DEF BoxFields
  <2>4. c.hasBlob = TRUE
    BY <1>6, <2>1 DEF BoxFields
  <2>5. b.hasBlob
    BY <1>10 DEF CanClone
  <2>6. b.size \in Nat /\ b.num = b.size /\ b.blob \in Seq(Unit) /\ b.size <= Len(b.blob)
    BY <1>1, <2>5 DEF BoxTyped, Shaped, RecordsShaped
  <2>7. /\ c.blob \in Seq(Unit) /\ Len(c.blob) = b.size
        /\ \A i \in 1 .. b.size : c.blob[i] = b.blob[i]
    <3>1. PICK s : s = b.blob
      OBVIOUS
    <3>2. PICK k : k = b.size
      OBVIOUS
    <3>3. /\ SubSeq(s, 1, k) \in Seq(Unit) /\ Len(SubSeq(s, 1, k)) = k
          /\ \A i \in 1 .. k : SubSeq(s, 1, k)[i] = s[i]
      BY <2>6, <3>1, <3>2
    <3> QED BY <2>2, <3>1, <3>2, <3>3
  <2>8. <<>> \in Seq(Clear) /\ Len(<<>>) = 0
    OBVIOUS
  <2>9. BoxTyped(c)
    <3>1. c.crypt \in BOOLEAN /\ c.hasBlob \in BOOLEAN /\ c.part \in BOOLEAN
      BY <1>1, <2>3, <2>4 DEF BoxTyped
    <3> QED BY <1>1, <1>3, <1>4, <1>5, <2>2, <2>7, <2>8, <3>1 DEF BoxTyped
  <2>10. Shaped(c)
    <3>1. RecordsShaped(c)
      <4>1. c.crypt /\ c.hasBlob
        BY <1>10, <2>3, <2>4
      <4>2. /\ Len(c.record) = 0 /\ Len(c.precord) = 0 /\ c.record = <<>>
            /\ c.num = c.size /\ c.size <= Len(c.blob)
        BY <2>2, <2>6, <2>7, <2>8
      <4> QED BY <2>9, <4>1, <4>2 DEF RecordsShaped
    <3>2. Len(c.expand) = Len(c.pexpand) /\ Len(c.expand) <= Len(c.real.exps)
      BY <1>3, <1>4, <1>5, <2>2
    <3> QED BY <3>1, <3>2 DEF Shaped
  <2>11. AllOrNone(n, c)
    BY <1>3, <2>2 DEF AllOrNone
  <2>12. ~c.part => ExpandsIntact(c)
    <3>1. SUFFICES ASSUME ~b.part PROVE ExpandsIntact(c)
      BY <2>3
    <3>2. Len(c.expand) = Len(es) /\ Len(es) = Len(xs) /\ c.pexpand = es /\ c.real.exps = xs
      BY <1>3, <1>4, <1>5, <2>2, <3>1
    <3>3. \A i \in 1 .. Len(es) : es[i] # Null /\ es[i] = xs[i]
      BY <1>3, <3>1
    <3> QED BY <3>2, <3>3 DEF ExpandsIntact
  <2>13. ~c.part => RecordsIntact(n, c)
    <3>1. SUFFICES ASSUME RecordsTrue(b) PROVE RecordsIntact(n, c)
      BY <2>3 DEF Sound, RecordsIntact
    <3>2. \A i \in 1 .. c.num : c.blob[i] = Stored(c.real.recs, c.crypt, i)
      <4>1. \A i \in 1 .. b.num : b.blob[i] = Stored(b.real.recs, b.crypt, i)
        BY <2>5, <3>1 DEF RecordsTrue
      <4>2. c.num = b.num /\ c.real.recs = b.real.recs /\ c.crypt = b.crypt
        BY <1>4, <2>2, <2>3
      <4> QED BY <2>6, <2>7, <4>1, <4>2
    <3>3. c.num = Len(c.real.recs)
      BY <1>4, <2>2, <3>1 DEF RecordsTrue
    <3>4. Len(c.record) = 0 /\ Len(c.precord) = 0 /\ 1 .. 0 = {}
      BY <2>2, <2>8
    <3>5. RecordsTrue(c)
      BY <3>2, <3>3, <3>4 DEF RecordsTrue
    <3> QED BY <1>1, <1>10, <2>3, <3>5 DEF RecordsIntact
  <2> QED BY <2>2, <2>10, <2>11, <2>12, <2>13 DEF Sound
<1>11. CASE ~b.crypt
  <2>1. c = WithRecords(new, b.precord)
    BY <1>11 DEF CloneBody
  <2>2. /\ DOMAIN c = BoxFields
        /\ c.id = b.id /\ c.size = 0 /\ c.num = Len(b.precord) /\ c.record = Nulls(Len(b.precord))
        /\ c.precord = b.precord /\ c.blob = <<>>
        /\ c.expand = Nulls(Len(es)) /\ c.pexpand = es /\ c.real = r
    BY <1>6, <2>1 DEF BoxFields, WithRecords
  <2>3. c.crypt = b.crypt /\ c.part = b.part
    BY <1>6, <1>8, <1>9, <2>1 DEF BoxFields, WithRecords
  <2>4. c.hasBlob = FALSE
    BY <1>6, <1>7, <2>1 DEF BoxFields, WithRecords
  <2>5. b.precord \in Seq(Clear) /\ Len(b.precord) \in Nat
    BY <1>1 DEF BoxTyped
  <2>6. Nulls(Len(b.precord)) \in Seq(Clear)
    BY <2>5, NullsFacts
  <2>7. <<>> \in Seq(Unit)
    OBVIOUS
  <2>8. BoxTyped(c)
    <3>1. c.crypt \in BOOLEAN /\ c.hasBlob \in BOOLEAN /\ c.part \in BOOLEAN
      BY <1>1, <2>3, <2>4 DEF BoxTyped
    <3>2. c.id \in Nat /\ c.size \in Nat /\ c.num \in Nat
      BY <1>1, <2>2, <2>5 DEF BoxTyped
    <3> QED BY <1>3, <1>4, <1>5, <2>2, <2>5, <2>6, <2>7, <3>1, <3>2 DEF BoxTyped
  <2>9. Made(c)
    BY <1>3, <1>4, <1>5, <1>11, <2>2, <2>3, <2>4, <2>8 DEF Made
  <2>10. AllOrNone(n, c)
    BY <1>3, <2>2 DEF AllOrNone
  <2>11. ~c.part => ExpandsIntact(c)
    <3>1. SUFFICES ASSUME ~b.part PROVE ExpandsIntact(c)
      BY <2>3
    <3>2. Len(c.expand) = Len(es) /\ Len(es) = Len(xs) /\ c.pexpand = es /\ c.real.exps = xs
      BY <1>3, <1>4, <1>5, <2>2, <3>1
    <3>3. \A i \in 1 .. Len(es) : es[i] # Null /\ es[i] = xs[i]
      BY <1>3, <3>1
    <3> QED BY <3>2, <3>3 DEF ExpandsIntact
  <2>12. ~c.part => c.precord = c.real.recs
    BY <1>1, <1>4, <1>11, <2>2, <2>3 DEF Sound, RecordsIntact
  <2> QED BY <1>1, <2>2, <2>9, <2>10, <2>11, <2>12, MadeSound
<1> QED BY <1>10, <1>11

LEMMA ReplySound ==
    ASSUME NEW n \in knowsRec, NEW b, Sound(n, b), NEW k \in Nat, NEW rs,
           rs = <<Rec(<<b.id, "reply", k>>)>>, NEW c,
           c = [WithRecords(NewBox(b.id, [recs |-> rs, exps |-> b.real.exps]), rs)
                  EXCEPT !.expand = [i \in DOMAIN b.expand |->
                                        IF GetExpand(b, i) # Null THEN Null ELSE b.expand[i]],
                         !.pexpand = [i \in DOMAIN b.expand |-> GetExpand(b, i)],
                         !.part = b.part]
    PROVE  c.id = b.id /\ Sound(n, c)
<1> DEFINE ex == [i \in 1 .. Len(b.expand) |-> IF b.pexpand[i] # Null THEN Null ELSE b.expand[i]]
           px == [i \in 1 .. Len(b.expand) |-> b.pexpand[i]]
<1>1. /\ BoxTyped(b) /\ b.id \in Nat /\ b.expand \in Seq(Clear) /\ b.pexpand \in Seq(Clear)
      /\ Len(b.expand) = Len(b.pexpand) /\ Len(b.expand) <= Len(b.real.exps)
      /\ b.real.exps \in Seq(Expands)
  BY DEF Sound, Shaped, RecordsShaped, BoxTyped, Real
<1>2. Rec(<<b.id, "reply", k>>) \in Records
  BY <1>1 DEF Records
<1>3. rs \in Seq(Records) /\ rs \in Seq(Clear) /\ Len(rs) = 1
  BY <1>2 DEF Clear
<1>4. PICK r : r = [recs |-> rs, exps |-> b.real.exps]
  OBVIOUS
<1>5. r \in Real /\ r.recs = rs /\ r.exps = b.real.exps
  BY <1>1, <1>3, <1>4 DEF Real
<1>6. Null \in Clear
  BY DEF Clear
<1>7. /\ px \in Seq(Clear) /\ Len(px) = Len(b.expand)
      /\ \A i \in 1 .. Len(b.expand) : px[i] = b.pexpand[i]
  BY <1>1
<1>8. /\ ex \in Seq(Clear) /\ Len(ex) = Len(b.expand)
      /\ \A i \in 1 .. Len(b.expand) : px[i] = Null => ex[i] = b.expand[i]
  <2> DEFINE E(i) == IF b.pexpand[i] # Null THEN Null ELSE b.expand[i]
  <2>1. \A i \in 1 .. Len(b.expand) : E(i) \in Clear
    BY <1>1, <1>6
  <2>2. ex = [i \in 1 .. Len(b.expand) |-> E(i)]
    OBVIOUS
  <2>3. \A i \in 1 .. Len(b.expand) : px[i] = Null => E(i) = b.expand[i]
    BY <1>7
  <2> HIDE DEF ex, E, px
  <2> QED BY <1>1, <2>1, <2>2, <2>3
<1>9. DOMAIN b.expand = 1 .. Len(b.expand)
  BY <1>1
<1>10. c = [WithRecords(NewBox(b.id, r), rs) EXCEPT !.expand = ex, !.pexpand = px, !.part = b.part]
  BY <1>4, <1>9 DEF GetExpand
<1> HIDE DEF ex, px
<1>11. /\ DOMAIN c = BoxFields
       /\ c.id = b.id /\ c.num = Len(rs) /\ c.size = 0 /\ c.blob = <<>>
       /\ c.record = Nulls(Len(rs)) /\ c.precord = rs /\ c.expand = ex /\ c.pexpand = px
       /\ c.real = r
  BY <1>10 DEF WithRecords, NewBox, BoxFields
<1>12. c.crypt = FALSE /\ c.hasBlob = FALSE
  BY <1>10 DEF WithRecords, NewBox
<1>13. c.part = b.part
  BY <1>10 DEF WithRecords, NewBox
<1>14. Nulls(Len(rs)) \in Seq(Clear) /\ <<>> \in Seq(Unit)
  BY <1>3, NullsFacts
<1>15. BoxTyped(c)
  <2>1. c.crypt \in BOOLEAN /\ c.hasBlob \in BOOLEAN /\ c.part \in BOOLEAN
    BY <1>1, <1>12, <1>13 DEF BoxTyped
  <2>2. c.id \in Nat /\ c.size \in Nat /\ c.num \in Nat
    BY <1>1, <1>3, <1>11
  <2> QED BY <1>3, <1>5, <1>7, <1>8, <1>11, <1>14, <2>1, <2>2 DEF BoxTyped
<1>16. Made(c)
  BY <1>1, <1>5, <1>7, <1>8, <1>11, <1>12, <1>15 DEF Made
<1>17. AllOrNone(n, c)
  BY <1>1, <1>7, <1>11 DEF Sound, AllOrNone
<1>18. ~c.part => ExpandsIntact(c)
  <2>1. SUFFICES ASSUME ExpandsIntact(b) PROVE ExpandsIntact(c)
    BY <1>13 DEF Sound
  <2>2. Len(c.expand) = Len(b.expand) /\ Len(c.real.exps) = Len(b.expand)
    BY <1>5, <1>8, <1>11, <2>1 DEF ExpandsIntact
  <2>3. ASSUME NEW i \in 1 .. Len(b.expand)
        PROVE  IF px[i] # Null THEN px[i] = b.real.exps[i] ELSE ex[i] = b.real.exps[i]
    BY <1>7, <1>8, <2>1 DEF ExpandsIntact
  <2> QED BY <1>5, <1>11, <2>2, <2>3 DEF ExpandsIntact
<1>19. ~c.part => c.precord = c.real.recs
  BY <1>5, <1>11
<1> QED BY <1>11, <1>16, <1>17, <1>18, <1>19, MadeSound

-----------------------------------------------------------------------------
(* message_read_data: a body whose units are those sent is the message.    *)

LEMMA BodyFacts ==
    ASSUME NEW h, NEW j, NEW u, BodyUnit(h, j, u)
    PROVE  /\ ~h.crypt => u \in Clear
           /\ ~h.part /\ j <= h.size => u = Stored(h.real.recs, h.crypt, j)
           /\ ~h.part /\ ~(j <= h.size) => u = h.real.exps[j - h.size]
  BY Zenon DEF BodyUnit

LEMMA FillFacts ==
    ASSUME NEW S, NEW s \in Seq(S), NEW x \in S, NEW m \in Nat, NEW f, f = [i \in 1 .. m |-> x]
    PROVE  /\ s \o f \in Seq(S) /\ Len(s \o f) = Len(s) + m
           /\ \A i \in 1 .. Len(s) : (s \o f)[i] = s[i]
           /\ \A i \in Len(s) + 1 .. Len(s) + m : (s \o f)[i] = x
<1>1. f \in Seq(S) /\ Len(f) = m /\ \A i \in 1 .. m : f[i] = x
  OBVIOUS
<1> QED BY <1>1

LEMMA SliceFacts ==
    ASSUME NEW S, NEW s \in Seq(S), NEW a \in Nat, NEW z \in Nat, a <= z, z <= Len(s)
    PROVE  /\ SubSeq(s, a + 1, z) \in Seq(S) /\ Len(SubSeq(s, a + 1, z)) = z - a
           /\ \A i \in 1 .. z - a : SubSeq(s, a + 1, z)[i] = s[a + i]
  OBVIOUS

(* The box of a body of which got has been read. *)
Raw(h, got, w) ==
    [NewBox(h.id, h.real) EXCEPT
       !.num = h.num, !.size = h.size, !.crypt = h.crypt, !.hasBlob = TRUE,
       !.blob = got \o [i \in 1 .. Total(h) - Len(got) |-> Junk],
       !.record = IF w THEN Nulls(h.num) ELSE <<>>,
       !.precord = IF w THEN Nulls(h.num) ELSE <<>>,
       !.expand = IF w THEN SubSeq(got, h.size + 1, Total(h)) ELSE <<>>,
       !.part = h.part \/ Len(got) < Total(h)]

Handing(n, h, got) ==
    LET raw == Raw(h, got, Whole(h, got))
    IN  LoadExpand(n, IF h.crypt THEN raw ELSE LoadRecord(n, raw))

LEMMA HandOnSound ==
    ASSUME NEW n, NEW h, HeadFits(h), NEW got \in Seq(Unit), Len(got) <= Total(h),
           \A j \in 1 .. Len(got) : BodyUnit(h, j, got[j]),
           Whole(h, got) \/ h.exps = 0, NEW c, c = Handing(n, h, got)
    PROVE  c.id = h.id /\ Sound(n, c)
<1>w. PICK w : w = Whole(h, got)
  OBVIOUS
<1>r. PICK raw : raw = Raw(h, got, w)
  OBVIOUS
<1>b. PICK b : b = IF h.crypt THEN raw ELSE LoadRecord(n, raw)
  OBVIOUS
<1>l. c = LoadExpand(n, b)
  BY <1>w, <1>r, <1>b DEF Handing
<1> DEFINE rest == [i \in 1 .. Total(h) - Len(got) |-> Junk]
           sites == IF w THEN Nulls(h.num) ELSE <<>>
           ex == IF w THEN SubSeq(got, h.size + 1, Total(h)) ELSE <<>>
<1>1. /\ h.id \in Nat /\ h.num \in Nat /\ h.size \in Nat /\ h.exps \in Nat /\ h.num = h.size
      /\ h.crypt \in BOOLEAN /\ h.part \in BOOLEAN /\ h.real \in Real
      /\ h.exps <= Len(h.real.exps) /\ Total(h) = h.size + h.exps
  BY DEF HeadFits, Heads, Total
<1>0. Total(h) \in Nat /\ Len(got) \in Nat /\ Total(h) - Len(got) \in Nat
  BY <1>1
<1>2. /\ h.real.recs \in Seq(Records) /\ h.real.exps \in Seq(Expands)
      /\ ~h.part => h.size = Len(h.real.recs) /\ h.exps = Len(h.real.exps)
  BY <1>1 DEF Real, HeadFits
<1>3. w <=> Len(got) = Total(h)
  <2>1. Whole(h, got) <=> Len(got) = Total(h)
    BY <1>0, <1>1 DEF Whole
  <2> QED BY <1>w, <2>1
<1>4. /\ DOMAIN raw = BoxFields
      /\ raw.id = h.id /\ raw.num = h.num /\ raw.size = h.size /\ raw.blob = got \o rest
      /\ raw.record = sites /\ raw.precord = sites /\ raw.expand = ex /\ raw.pexpand = <<>>
      /\ raw.real = h.real
  BY <1>r DEF Raw, NewBox, BoxFields
<1>5. raw.crypt = h.crypt /\ raw.hasBlob = TRUE
  BY <1>r DEF Raw, NewBox
<1>6. raw.part = (h.part \/ Len(got) < Total(h))
  BY <1>r DEF Raw, NewBox
<1>7. /\ <<>> \in Seq(Clear) /\ Len(<<>>) = 0 /\ Nulls(h.num) \in Seq(Clear)
      /\ Len(Nulls(h.num)) = h.num /\ (h.num = 0 => Nulls(h.num) = <<>>)
      /\ \A i \in 1 .. h.num : Nulls(h.num)[i] = Null
  BY <1>1, NullsFacts
<1>8. /\ sites \in Seq(Clear) /\ (sites # <<>> => Len(sites) = h.num)
      /\ \A i \in 1 .. Len(sites) : sites[i] = Null
  <2>1. CASE w
    BY <1>7, <2>1
  <2>2. CASE ~w
    <3>1. sites = <<>> /\ 1 .. 0 = {}
      BY <2>2
    <3> QED BY <1>7, <3>1
  <2> QED BY <2>1, <2>2
<1>9. Junk \in Clear /\ Junk \in Unit
  BY ClearUnit DEF Clear
<1>11. /\ got \o rest \in Seq(Unit) /\ Len(got \o rest) = Total(h)
       /\ \A i \in 1 .. Len(got) : (got \o rest)[i] = got[i]
       /\ \A i \in Len(got) + 1 .. Total(h) : (got \o rest)[i] = Junk
  <2>1. PICK m \in Nat : m = Total(h) - Len(got)
    BY <1>0
  <2>2. rest = [i \in 1 .. m |-> Junk] /\ Len(got) + m = Total(h)
    BY <1>0, <2>1
  <2> HIDE DEF rest
  <2>3. /\ got \o rest \in Seq(Unit) /\ Len(got \o rest) = Len(got) + m
        /\ \A i \in 1 .. Len(got) : (got \o rest)[i] = got[i]
        /\ \A i \in Len(got) + 1 .. Len(got) + m : (got \o rest)[i] = Junk
    BY <1>9, <2>2, FillFacts
  <2> QED BY <2>2, <2>3
<1> HIDE DEF rest
<1>12. /\ ex \in Seq(Clear)
       /\ w => Len(ex) = h.exps /\ \A i \in 1 .. h.exps : ex[i] = got[h.size + i]
       /\ ~w => Len(ex) = 0
  <2>1. CASE w
    <3>1. /\ ex \in Seq(Unit) /\ Len(ex) = h.exps
          /\ \A i \in 1 .. h.exps : ex[i] = got[h.size + i]
      <4>1. h.size <= Total(h) /\ Total(h) <= Len(got) /\ Total(h) - h.size = h.exps
        BY <1>1, <1>3, <2>1
      <4>2. /\ SubSeq(got, h.size + 1, Total(h)) \in Seq(Unit)
            /\ Len(SubSeq(got, h.size + 1, Total(h))) = h.exps
            /\ \A i \in 1 .. h.exps : SubSeq(got, h.size + 1, Total(h))[i] = got[h.size + i]
        <5>1. PICK a \in Nat, z \in Nat : a = h.size /\ z = Total(h)
          BY <1>0, <1>1
        <5>2. a <= z /\ z <= Len(got) /\ z - a = h.exps
          BY <4>1, <5>1
        <5>3. /\ SubSeq(got, a + 1, z) \in Seq(Unit) /\ Len(SubSeq(got, a + 1, z)) = z - a
              /\ \A i \in 1 .. z - a : SubSeq(got, a + 1, z)[i] = got[a + i]
          BY <5>1, <5>2, SliceFacts
        <5> QED BY <5>1, <5>2, <5>3
      <4> QED BY <2>1, <4>2
    <3>2. \A i \in 1 .. h.exps : got[h.size + i] \in Clear
      <4>1. ASSUME NEW i \in 1 .. h.exps PROVE got[h.size + i] \in Clear
        <5>1. h.size + i \in 1 .. Len(got) /\ h.size + i > h.size
          BY <1>1, <1>3, <2>1
        <5> QED BY <5>1 DEF BodyUnit
      <4> QED BY <4>1
    <3> HIDE DEF ex
    <3>3. ex \in Seq(Clear)
      BY <3>1, <3>2
    <3> QED BY <2>1, <3>1, <3>3
  <2>2. CASE ~w
    BY <1>7, <2>2
  <2> QED BY <2>1, <2>2
<1> HIDE DEF sites, ex
<1>13. BoxTyped(raw)
  <2>1. raw.crypt \in BOOLEAN /\ raw.hasBlob \in BOOLEAN /\ raw.part \in BOOLEAN
    BY <1>1, <1>5, <1>6
  <2> QED BY <1>1, <1>4, <1>7, <1>8, <1>11, <1>12, <2>1 DEF BoxTyped
<1>14. RecordsShaped(raw)
  <2>1. raw.size <= Len(raw.blob)
    <3>1. h.size <= Total(h)
      BY <1>1
    <3> QED BY <1>4, <1>11, <3>1
  <2>2. ~raw.crypt => \A i \in 1 .. raw.size : raw.blob[i] \in Clear
    <3>1. SUFFICES ASSUME ~h.crypt, NEW i \in 1 .. h.size PROVE (got \o rest)[i] \in Clear
      BY <1>4, <1>5
    <3>2. CASE i \in 1 .. Len(got)
      <4>1. BodyUnit(h, i, got[i]) /\ (got \o rest)[i] = got[i]
        BY <1>11, <3>2
      <4> QED BY <3>1, <4>1, BodyFacts
    <3>3. CASE i > Len(got)
      <4>1. i \in Len(got) + 1 .. Total(h)
        BY <1>0, <1>1, <3>3
      <4> QED BY <1>9, <1>11, <4>1
    <3>4. i \in 1 .. Len(got) \/ i > Len(got)
      BY <1>0, <1>1
    <3> QED BY <3>2, <3>3, <3>4
  <2>3. /\ raw.num = raw.size /\ Len(raw.record) = Len(raw.precord)
        /\ raw.record # <<>> => Len(raw.record) = raw.num
    BY <1>1, <1>4, <1>8
  <2> QED BY <1>5, <1>13, <2>1, <2>2, <2>3 DEF RecordsShaped
<1>15. ~raw.part => RecordsTrue(raw)
  <2>1. SUFFICES ASSUME ~h.part, ~(Len(got) < Total(h)) PROVE RecordsTrue(raw)
    BY <1>6
  <2>2. Len(got) = Total(h)
    BY <1>1, <2>1
  <2>3. ASSUME NEW i \in 1 .. h.size PROVE (got \o rest)[i] = Stored(h.real.recs, h.crypt, i)
    <3>1. i \in 1 .. Len(got) /\ i <= h.size
      BY <1>1, <2>2
    <3>2. BodyUnit(h, i, got[i])
      BY <3>1
    <3> QED BY <1>11, <2>1, <3>1, <3>2 DEF BodyUnit
  <2>4. raw.num = Len(raw.real.recs)
    BY <1>1, <1>2, <1>4, <2>1
  <2>5. \A i \in 1 .. raw.num : raw.blob[i] = Stored(raw.real.recs, raw.crypt, i)
    BY <1>1, <1>4, <1>5, <2>3
  <2>6. \A i \in 1 .. Len(sites) : sites[i] = Null
    BY <1>8
  <2> QED BY <1>4, <2>4, <2>5, <2>6 DEF RecordsTrue
<1>16. /\ RecordsShaped(b) /\ b.id = h.id /\ b.expand = ex /\ b.real = h.real
       /\ b.part = raw.part /\ (~b.part => RecordsIntact(n, b))
  <2>1. CASE h.crypt
    <3>1. b = raw
      BY <1>b, <2>1
    <3> QED BY <1>4, <1>5, <1>14, <1>15, <2>1, <3>1 DEF RecordsIntact
  <2>2. CASE ~h.crypt
    <3>1. b = LoadRecord(n, raw) /\ raw.hasBlob /\ ~raw.crypt
      BY <1>b, <1>5, <2>2
    <3>2. /\ RecordsShaped(b) /\ b.id = raw.id /\ b.expand = raw.expand /\ b.real = raw.real
          /\ b.part = raw.part /\ (RecordsTrue(raw) => RecordsIntact(n, b))
      BY <1>14, <3>1, LoadRecordFacts
    <3> QED BY <1>4, <1>15, <3>2
  <2> QED BY <2>1, <2>2
<1> DEFINE px == [i \in DOMAIN b.expand |->
                     IF n \in knowsExp THEN Decode(b.expand[i]) ELSE Null]
<1>17. BoxTyped(b)
  BY <1>16 DEF RecordsShaped
<1>18. DOMAIN ex = 1 .. Len(ex)
  BY <1>12
<1>19. c = [b EXCEPT !.pexpand = px]
  BY <1>l DEF LoadExpand
<1>20. Null \in Clear /\ \A i \in 1 .. Len(ex) : Decode(ex[i]) \in Clear /\ Decode(ex[i]) # Null
  BY <1>12, ClearUnit, UnitFacts DEF Clear
<1>21. /\ px \in Seq(Clear) /\ Len(px) = Len(ex)
       /\ \A i \in 1 .. Len(ex) : px[i] = IF n \in knowsExp THEN Decode(ex[i]) ELSE Null
  <2> DEFINE D(i) == IF n \in knowsExp THEN Decode(ex[i]) ELSE Null
  <2>1. \A i \in 1 .. Len(ex) : D(i) \in Clear
    BY <1>20
  <2>2. px = [i \in 1 .. Len(ex) |-> D(i)] /\ Len(ex) \in Nat
    BY <1>12, <1>16, <1>18
  <2> HIDE DEF px, D
  <2>3. px \in Seq(Clear) /\ Len(px) = Len(ex) /\ \A i \in 1 .. Len(ex) : px[i] = D(i)
    BY <2>1, <2>2
  <2> QED BY <2>3 DEF D
<1> HIDE DEF px
<1>22. /\ DOMAIN c = BoxFields
       /\ c.id = b.id /\ c.num = b.num /\ c.size = b.size /\ c.blob = b.blob
       /\ c.record = b.record /\ c.precord = b.precord /\ c.expand = b.expand
       /\ c.pexpand = px /\ c.real = b.real
  BY <1>17, <1>19 DEF BoxTyped, BoxFields
<1>23. c.hasBlob = b.hasBlob /\ c.part = b.part /\ c.crypt = b.crypt
  BY <1>17, <1>19 DEF BoxTyped, BoxFields
<1>24. BoxTyped(c)
  BY <1>17, <1>21, <1>22, <1>23 DEF BoxTyped
<1>25. Shaped(c)
  <2>1. RecordsShaped(c)
    <3>1. RecordsShaped(b)
      BY <1>16
    <3> QED BY <1>22, <1>23, <1>24, <3>1 DEF RecordsShaped
  <2>2. Len(ex) <= Len(h.real.exps)
    BY <1>1, <1>2, <1>12
  <2> QED BY <1>16, <1>21, <1>22, <2>1, <2>2 DEF Shaped
<1>26. AllOrNone(n, c)
  BY <1>20, <1>21, <1>22 DEF AllOrNone
<1>27. ~c.part => RecordsIntact(n, c)
  <2> SUFFICES ASSUME RecordsIntact(n, b) PROVE RecordsIntact(n, c)
    BY <1>16, <1>23
  <2> QED BY <1>22, <1>23, RecordsKept
<1>28. ~c.part => ExpandsIntact(c)
  <2>1. SUFFICES ASSUME ~h.part, ~(Len(got) < Total(h)) PROVE ExpandsIntact(c)
    BY <1>6, <1>16, <1>23
  <2>2. Len(got) = Total(h) /\ w
    BY <1>1, <1>3, <2>1
  <2>3. Len(ex) = h.exps /\ h.exps = Len(h.real.exps)
    BY <1>2, <1>12, <2>1, <2>2
  <2>4. ASSUME NEW i \in 1 .. h.exps PROVE ex[i] = h.real.exps[i]
    <3>1. h.size + i \in 1 .. Len(got) /\ ~(h.size + i <= h.size) /\ h.size + i - h.size = i
      BY <1>1, <2>2
    <3>2. BodyUnit(h, h.size + i, got[h.size + i])
      BY <3>1
    <3>3. got[h.size + i] = h.real.exps[i]
      <4>1. PICK j \in Nat : j = h.size + i
        BY <1>1
      <4>2. ~(j <= h.size) /\ BodyUnit(h, j, got[j])
        BY <3>1, <3>2, <4>1
      <4>3. got[j] = h.real.exps[j - h.size]
        BY <2>1, <4>2, BodyFacts
      <4>4. j - h.size = i
        BY <1>1, <4>1
      <4>5. got[j] = h.real.exps[i]
        BY <4>3, <4>4
      <4> QED BY <4>1, <4>5
    <3> QED BY <1>12, <2>2, <3>1, <3>3
  <2>5. \A i \in 1 .. h.exps : Decode(h.real.exps[i]) = h.real.exps[i]
    BY <1>2, <2>3, RecordFacts
  <2>6. \A i \in 1 .. Len(ex) : IF px[i] # Null THEN px[i] = h.real.exps[i]
                                ELSE ex[i] = h.real.exps[i]
    BY <1>20, <1>21, <2>3, <2>4, <2>5
  <2> QED BY <1>16, <1>22, <2>3, <2>6 DEF ExpandsIntact
<1> QED BY <1>16, <1>22, <1>25, <1>26, <1>27, <1>28 DEF Sound

-----------------------------------------------------------------------------
(* What message_output_blob writes. *)

LEMMA OutputRecordsFacts ==
    ASSUME NEW n, NEW b, Sound(n, b), NEW rs, rs = OutputRecords(b)
    PROVE  /\ rs \in Seq(Unit) /\ Len(rs) = b.num
           /\ ~b.crypt => \A i \in 1 .. b.num : rs[i] \in Clear
           /\ ~b.part => \A i \in 1 .. b.num : rs[i] = Stored(b.real.recs, b.crypt, i)
<1>1. /\ b.num \in Nat /\ b.size \in Nat /\ b.blob \in Seq(Unit)
      /\ b.record \in Seq(Clear) /\ b.precord \in Seq(Clear) /\ Len(b.record) = Len(b.precord)
  BY DEF Sound, Shaped, RecordsShaped, BoxTyped
<1>2. CASE b.hasBlob
  <2>1. b.num = b.size /\ b.size <= Len(b.blob)
    BY <1>2 DEF Sound, Shaped, RecordsShaped
  <2>2. PICK s, k : s = b.blob /\ k = b.size
    OBVIOUS
  <2>3. rs = SubSeq(s, 1, k)
    BY <1>2, <2>2 DEF OutputRecords
  <2>4. rs \in Seq(Unit) /\ Len(rs) = k /\ \A i \in 1 .. k : rs[i] = s[i]
    BY <1>1, <2>1, <2>2, <2>3
  <2>5. /\ ~b.crypt => \A i \in 1 .. b.num : b.blob[i] \in Clear
        /\ ~b.part => \A i \in 1 .. b.num : b.blob[i] = Stored(b.real.recs, b.crypt, i)
    BY <1>2, <2>1 DEF Sound, Shaped, RecordsShaped, RecordsIntact, RecordsTrue
  <2> QED BY <2>1, <2>2, <2>4, <2>5
<1>3. CASE ~b.hasBlob
  <2> DEFINE R(i) == IF b.record[i] # Null THEN b.record[i] ELSE b.precord[i]
  <2>1. Len(b.record) = b.num /\ ~b.crypt
    BY <1>3 DEF Sound, Shaped, RecordsShaped
  <2>2. rs = [i \in 1 .. b.num |-> R(i)]
    BY <1>3 DEF OutputRecords
  <2>3. \A i \in 1 .. b.num : R(i) \in Clear /\ R(i) \in Unit
    <3>a. /\ \A i \in 1 .. Len(b.record) : b.record[i] \in Clear
          /\ \A i \in 1 .. Len(b.precord) : b.precord[i] \in Clear
      BY <1>1
    <3>b. Len(b.record) = b.num /\ Len(b.precord) = b.num
      BY <1>1, <2>1
    <3>1. \A i \in 1 .. b.num : b.record[i] \in Clear /\ b.precord[i] \in Clear
      BY <3>a, <3>b
    <3>2. \A i \in 1 .. b.num : R(i) \in Clear
      BY <3>1
    <3> HIDE DEF R
    <3> QED BY <3>2, ClearUnit
  <2>4. ~b.part => \A i \in 1 .. b.num : R(i) = b.real.recs[i]
    <3>1. SUFFICES ASSUME ~b.part, NEW i \in 1 .. b.num PROVE R(i) = b.real.recs[i]
      OBVIOUS
    <3>2. b.precord = b.real.recs
      BY <1>3, <2>1, <3>1 DEF Sound, RecordsIntact
    <3>3. b.record[i] # Null => b.record[i] = b.real.recs[i]
      BY <2>1, <3>1 DEF Sound, RecordsIntact, RecordsTrue
    <3> QED BY <3>2, <3>3
  <2> HIDE DEF R
  <2>5. rs \in Seq(Unit) /\ Len(rs) = b.num /\ \A i \in 1 .. b.num : rs[i] = R(i)
    <3>1. PICK k \in Nat : k = b.num
      BY <1>1
    <3>2. rs = [i \in 1 .. k |-> R(i)] /\ \A i \in 1 .. k : R(i) \in Unit
      BY <2>2, <2>3, <3>1
    <3>3. rs \in Seq(Unit) /\ Len(rs) = k /\ \A i \in 1 .. k : rs[i] = R(i)
      BY <3>2
    <3> QED BY <3>1, <3>3
  <2> QED BY <2>1, <2>3, <2>4, <2>5 DEF Stored
<1> QED BY <1>2, <1>3

LEMMA OutputExpandsFacts ==
    ASSUME NEW n, NEW b, Sound(n, b), NEW es, es = OutputExpands(b)
    PROVE  /\ es \in Seq(Clear) /\ Len(es) = Len(b.expand)
           /\ ~b.part => Len(es) = Len(b.real.exps)
                         /\ \A i \in 1 .. Len(es) : es[i] = b.real.exps[i]
<1> DEFINE E(i) == IF b.pexpand[i] # Null THEN b.pexpand[i] ELSE b.expand[i]
<1>1. b.expand \in Seq(Clear) /\ b.pexpand \in Seq(Clear) /\ Len(b.expand) = Len(b.pexpand)
  BY DEF Sound, Shaped, RecordsShaped, BoxTyped
<1>2. es = [i \in 1 .. Len(b.expand) |-> E(i)]
  BY <1>1 DEF OutputExpands
<1>3. \A i \in 1 .. Len(b.expand) : E(i) \in Clear
  BY <1>1
<1>4. ~b.part => /\ Len(b.expand) = Len(b.real.exps)
                 /\ \A i \in 1 .. Len(b.expand) : E(i) = b.real.exps[i]
  BY DEF Sound, ExpandsIntact
<1> HIDE DEF E
<1>5. es \in Seq(Clear) /\ Len(es) = Len(b.expand) /\ \A i \in 1 .. Len(b.expand) : es[i] = E(i)
  BY <1>1, <1>2, <1>3
<1> QED BY <1>4, <1>5

(* A whole message as a stream. *)
IsMessage(w, h) ==
    /\ w \in Stream /\ HeadFits(h) /\ Len(w) = HeadLen + Total(h)
    /\ \A k \in 1 .. HeadLen : w[k] = HeadUnit(h, k)
    /\ \A j \in 1 .. Total(h) : BodyUnit(h, j, w[HeadLen + j])

Joins(w, a, b, c) ==
    /\ Len(w) = Len(a) + Len(b) + Len(c)
    /\ \A i \in 1 .. Len(a) : w[i] = a[i]
    /\ \A i \in 1 .. Len(b) : w[Len(a) + i] = b[i]
    /\ \A i \in 1 .. Len(c) : w[Len(a) + Len(b) + i] = c[i]

LEMMA ThreeParts ==
    ASSUME NEW S, NEW a \in Seq(S), NEW b \in Seq(S), NEW c \in Seq(S), NEW w, w = a \o b \o c
    PROVE  w \in Seq(S) /\ Joins(w, a, b, c)
<1>1. /\ a \o b \in Seq(S) /\ Len(a \o b) = Len(a) + Len(b)
      /\ \A i \in 1 .. Len(a) : (a \o b)[i] = a[i]
      /\ \A i \in 1 .. Len(b) : (a \o b)[Len(a) + i] = b[i]
  OBVIOUS
<1>2. PICK d : d = a \o b
  OBVIOUS
<1>3. /\ d \o c \in Seq(S) /\ Len(d \o c) = Len(d) + Len(c)
      /\ \A i \in 1 .. Len(d) : (d \o c)[i] = d[i]
      /\ \A i \in 1 .. Len(c) : (d \o c)[Len(d) + i] = c[i]
  BY <1>1, <1>2
<1> QED BY <1>1, <1>2, <1>3 DEF Joins

LEMMA OutputIsMessage ==
    ASSUME NEW n, NEW b, Sound(n, b), NEW w, w = Output(b)
    PROVE  \E h \in Heads : IsMessage(w, h) /\ h.id = b.id
<1>1. PICK rs : rs = OutputRecords(b)
  OBVIOUS
<1>2. PICK es : es = OutputExpands(b)
  OBVIOUS
<1>3. PICK h : h = [id |-> b.id, num |-> b.num, size |-> Len(rs), exps |-> Len(es),
                    crypt |-> b.crypt, real |-> b.real, part |-> b.part]
  OBVIOUS
<1>4. /\ rs \in Seq(Unit) /\ Len(rs) = b.num
      /\ ~b.crypt => \A i \in 1 .. b.num : rs[i] \in Clear
      /\ ~b.part => \A i \in 1 .. b.num : rs[i] = Stored(b.real.recs, b.crypt, i)
  BY <1>1, OutputRecordsFacts
<1>5. /\ es \in Seq(Clear) /\ Len(es) = Len(b.expand)
      /\ ~b.part => Len(es) = Len(b.real.exps)
                    /\ \A i \in 1 .. Len(es) : es[i] = b.real.exps[i]
  BY <1>2, OutputExpandsFacts
<1>6. /\ h.id = b.id /\ h.num = b.num /\ h.size = Len(rs) /\ h.exps = Len(es)
      /\ h.crypt = b.crypt /\ h.real = b.real /\ h.part = b.part
  BY <1>3
<1>7. /\ b.id \in Nat /\ b.num \in Nat /\ b.crypt \in BOOLEAN /\ b.part \in BOOLEAN
      /\ b.real \in Real /\ Len(b.expand) <= Len(b.real.exps)
  BY DEF Sound, Shaped, RecordsShaped, BoxTyped
<1>8. h \in Heads
  BY <1>3, <1>4, <1>5, <1>7 DEF Heads
<1>9. HeadFits(h)
  <2>1. ~b.part => b.num = Len(b.real.recs)
    BY DEF Sound, RecordsIntact, RecordsTrue
  <2> QED BY <1>4, <1>5, <1>6, <1>7, <1>8, <2>1 DEF HeadFits
<1> DEFINE hs == [k \in 1 .. HeadLen |-> HeadUnit(h, k)]
<1>10. w = hs \o rs \o es
  BY <1>1, <1>2, <1>3 DEF Output, HeadUnit
<1>11. HeadLen \in Nat /\ \A k \in 1 .. HeadLen : HeadUnit(h, k) \in HeadUnits
  BY <1>8, HeadLenAssumption DEF HeadUnits
<1>12. PICK S : S = Unit \cup HeadUnits
  OBVIOUS
<1>13. hs \in Seq(S) /\ Len(hs) = HeadLen /\ \A k \in 1 .. HeadLen : hs[k] = HeadUnit(h, k)
  BY <1>11, <1>12
<1>14. rs \in Seq(S) /\ es \in Seq(S)
  BY <1>4, <1>5, <1>12, ClearUnit
<1> HIDE DEF hs
<1>15. w \in Seq(S) /\ Joins(w, hs, rs, es)
  BY <1>10, <1>13, <1>14, ThreeParts
<1>16. ASSUME NEW j \in 1 .. Total(h) PROVE BodyUnit(h, j, w[HeadLen + j])
  <2>0. Len(rs) \in Nat /\ Len(es) \in Nat
    BY <1>4, <1>5
  <2>1. CASE j \in 1 .. Len(rs)
    <3>1. w[HeadLen + j] = rs[j] /\ rs[j] \in Unit /\ j <= h.size
      BY <1>4, <1>6, <1>13, <1>15, <2>1 DEF Joins
    <3>2. ~h.crypt => rs[j] \in Clear
      BY <1>4, <1>6, <2>1
    <3>3. ~h.part => rs[j] = Stored(h.real.recs, h.crypt, j)
      BY <1>4, <1>6, <2>1
    <3>4. ~(j > h.size)
      BY <1>6, <2>0, <2>1
    <3> QED BY <3>1, <3>2, <3>3, <3>4 DEF BodyUnit
  <2>2. CASE j \in Len(rs) + 1 .. Len(rs) + Len(es)
    <3>1. PICK i \in 1 .. Len(es) : j = Len(rs) + i
      BY <2>0, <2>2
    <3>2. w[HeadLen + j] = es[i] /\ es[i] \in Clear /\ es[i] \in Unit
      <4>1. HeadLen + j = Len(hs) + Len(rs) + i
        BY <1>11, <1>13, <2>0, <3>1
      <4>2. w[Len(hs) + Len(rs) + i] = es[i]
        BY <1>15 DEF Joins
      <4>3. es[i] \in Clear
        BY <1>5
      <4>4. w[HeadLen + j] = es[i]
        BY <4>1, <4>2
      <4> QED BY <4>3, <4>4, ClearUnit
    <3>3. ~h.part => es[i] = h.real.exps[i]
      BY <1>5, <1>6
    <3>4. ~(j <= h.size) /\ j - h.size = i
      BY <1>6, <2>0, <3>1
    <3>5. ~h.part => es[i] = h.real.exps[j - h.size]
      BY <3>3, <3>4
    <3> QED BY <3>2, <3>4, <3>5 DEF BodyUnit
  <2>3. Total(h) = Len(rs) + Len(es)
    BY <1>6 DEF Total
  <2> QED BY <2>0, <2>1, <2>2, <2>3
<1>17. Len(w) = HeadLen + Total(h)
  BY <1>4, <1>5, <1>6, <1>11, <1>13, <1>15 DEF Total, Joins
<1>18. \A k \in 1 .. HeadLen : w[k] = HeadUnit(h, k)
  BY <1>13, <1>15 DEF Joins
<1>19. IsMessage(w, h)
  BY <1>9, <1>12, <1>15, <1>16, <1>17, <1>18 DEF IsMessage, Stream
<1> QED BY <1>6, <1>8, <1>19

-----------------------------------------------------------------------------
(* Streams. *)

LEMMA HeadUnitFacts ==
    ASSUME NEW h, NEW k
    PROVE  /\ IsHead(HeadUnit(h, k)) /\ HeadUnit(h, k).site = k /\ HeadUnit(h, k).head = h
  BY DEF HeadUnit, IsHead

LEMMA StreamFacts ==
    ASSUME NEW w \in Stream, NEW p \in 1 .. Len(w), IsHead(w[p])
    PROVE  /\ w[p].head \in Heads /\ w[p].site \in 1 .. HeadLen
           /\ w[p] = HeadUnit(w[p].head, w[p].site) /\ w[p].head.id \in Nat
<1>1. w[p] \in Unit \cup HeadUnits
  BY DEF Stream
<1>2. w[p] \in HeadUnits
  BY <1>1, UnitFacts
<1>3. PICK h \in Heads, k \in 1 .. HeadLen : w[p] = HeadUnit(h, k)
  BY <1>2 DEF HeadUnits
<1>4. h.id \in Nat
  BY DEF Heads
<1> QED BY <1>3, <1>4, HeadUnitFacts

LEMMA MessageHeads ==
    ASSUME NEW w, NEW h \in Heads, IsMessage(w, h), NEW p \in 1 .. Len(w), IsHead(w[p])
    PROVE  p \in 1 .. HeadLen /\ w[p] = HeadUnit(h, p) /\ w[p].head = h /\ w[p].site = p
<1>1. h.size \in Nat /\ h.exps \in Nat /\ Total(h) \in Nat /\ HeadLen \in Nat
  BY HeadLenAssumption DEF Heads, Total
<1>2. Len(w) = HeadLen + Total(h)
  BY DEF IsMessage
<1>3. p \in 1 .. HeadLen
  <2>1. SUFFICES ASSUME p > HeadLen PROVE FALSE
    BY <1>1, <1>2
  <2>2. PICK j \in 1 .. Total(h) : p = HeadLen + j
    BY <1>1, <1>2, <2>1
  <2>3. w[p] \in Unit
    BY <2>2 DEF IsMessage, BodyUnit
  <2> QED BY <2>3, UnitFacts
<1> QED BY <1>3, HeadUnitFacts DEF IsMessage

LEMMA MessageFramed ==
    ASSUME NEW w, NEW h \in Heads, IsMessage(w, h)
    PROVE  Framed(w) /\ Ordered(w)
<1>1. h.size \in Nat /\ h.exps \in Nat /\ Total(h) \in Nat /\ HeadLen \in Nat
  BY HeadLenAssumption DEF Heads, Total
<1>2. Len(w) = HeadLen + Total(h) /\ HeadFits(h)
  BY DEF IsMessage
<1>3. ASSUME NEW p \in 1 .. Len(w), IsHead(w[p]) PROVE Follows(w, p)
  <2>1. p \in 1 .. HeadLen /\ w[p].head = h /\ w[p].site = p
    BY <1>3, MessageHeads
  <2>2. p + (HeadLen - p) = HeadLen
    BY <1>1, <2>1
  <2>3. ASSUME NEW t \in p .. HeadLen PROVE w[p + (t - p)] = HeadUnit(h, t)
    <3>1. p + (t - p) = t /\ t \in 1 .. HeadLen
      BY <1>1, <2>1
    <3> QED BY <3>1 DEF IsMessage
  <2>4. HasBody(w, HeadLen, h)
    <3>1. HeadLen + Total(h) <= Len(w)
      BY <1>1, <1>2
    <3> QED BY <3>1 DEF HasBody, IsMessage
  <2>5. HeadLen <= Len(w)
    BY <1>1, <1>2
  <2> QED BY <1>2, <2>1, <2>2, <2>3, <2>4, <2>5 DEF Follows
<1>4. ASSUME NEW p \in 1 .. Len(w), NEW q \in 1 .. Len(w), p < q, IsHead(w[p]), IsHead(w[q])
      PROVE  Before(w[p], w[q])
  <2>1. w[p].head = h /\ w[p].site = p
    BY <1>4, MessageHeads
  <2>2. w[q].head = h /\ w[q].site = q
    BY <1>4, MessageHeads
  <2> QED BY <1>4, <2>1, <2>2 DEF Before
<1> QED BY <1>3, <1>4 DEF Framed, Ordered

(* What is left of a stream when m units have been read. *)
LEMMA DropFacts ==
    ASSUME NEW w \in Stream, NEW m \in Nat, m <= Len(w), NEW v, v = SubSeq(w, m + 1, Len(w))
    PROVE  /\ v \in Stream /\ Len(v) = Len(w) - m
           /\ \A p \in 1 .. Len(w) - m : v[p] = w[m + p]
<1>1. PICK z \in Nat : z = Len(w)
  BY DEF Stream
<1> QED BY <1>1, SliceFacts DEF Stream

LEMMA DropFramed ==
    ASSUME NEW w \in Stream, NEW m \in Nat, m <= Len(w), NEW v, v = SubSeq(w, m + 1, Len(w))
    PROVE  (Framed(w) => Framed(v)) /\ (Ordered(w) => Ordered(v))
<1>1. Len(w) \in Nat /\ HeadLen \in Nat
  BY HeadLenAssumption DEF Stream
<1>2. v \in Stream /\ Len(v) = Len(w) - m /\ \A p \in 1 .. Len(w) - m : v[p] = w[m + p]
  BY DropFacts
<1>3. ASSUME Framed(w), NEW p \in 1 .. Len(v), IsHead(v[p]) PROVE Follows(v, p)
  <2>1. v[p] = w[m + p] /\ m + p \in 1 .. Len(w)
    BY <1>1, <1>2
  <2>2. IsHead(w[m + p]) /\ Follows(w, m + p)
    BY <1>3, <2>1 DEF Framed
  <2>3. PICK h \in Heads, s \in 1 .. HeadLen : h = v[p].head /\ s = v[p].site
    BY <1>2, <1>3, StreamFacts
  <2>4. h.size \in Nat /\ h.exps \in Nat /\ Total(h) \in Nat
    BY DEF Heads, Total
  <2>5. /\ HeadFits(h) /\ m + p + (HeadLen - s) <= Len(w)
        /\ \A t \in s .. HeadLen : w[m + p + (t - s)] = HeadUnit(h, t)
        /\ HasBody(w, m + p + (HeadLen - s), h)
    BY <2>1, <2>2, <2>3 DEF Follows
  <2>6. PICK d \in Nat : d = p + (HeadLen - s)
    BY <1>1
  <2>7. ASSUME NEW t \in s .. HeadLen PROVE v[p + (t - s)] = HeadUnit(h, t)
    <3>1. p + (t - s) \in 1 .. Len(w) - m /\ m + (p + (t - s)) = m + p + (t - s)
      BY <1>1, <1>2, <2>5
    <3> QED BY <1>2, <2>5, <3>1
  <2>8. HasBody(v, d, h)
    <3>1. m + p + (HeadLen - s) = m + d
      BY <1>1, <2>6
    <3>2. HasBody(w, m + d, h)
      BY <2>5, <3>1
    <3>3. m + d + Total(h) <= Len(w)
      BY <3>2 DEF HasBody
    <3>4. ASSUME NEW j \in 1 .. Total(h) PROVE BodyUnit(h, j, v[d + j])
      <4>1. d + j \in 1 .. Len(w) - m /\ m + (d + j) = m + d + j
        BY <1>1, <2>4, <3>3
      <4>2. v[d + j] = w[m + d + j]
        BY <1>2, <4>1
      <4> QED BY <3>2, <4>2 DEF HasBody
    <3>5. d + Total(h) <= Len(v)
      BY <1>1, <1>2, <2>4, <3>3
    <3> QED BY <3>4, <3>5 DEF HasBody
  <2>9. d <= Len(v)
    BY <1>1, <1>2, <2>5, <2>6
  <2> QED BY <2>3, <2>5, <2>6, <2>7, <2>8, <2>9 DEF Follows
<1>4. ASSUME Ordered(w), NEW p \in 1 .. Len(v), NEW q \in 1 .. Len(v), p < q,
             IsHead(v[p]), IsHead(v[q])
      PROVE  Before(v[p], v[q])
  <2>1. /\ v[p] = w[m + p] /\ m + p \in 1 .. Len(w) /\ v[q] = w[m + q] /\ m + q \in 1 .. Len(w)
        /\ m + p < m + q
    BY <1>1, <1>2, <1>4
  <2> QED BY <1>4, <2>1 DEF Ordered
<1> QED BY <1>3, <1>4 DEF Framed, Ordered

LEMMA ConcatFacts ==
    ASSUME NEW v \in Stream, NEW w \in Stream, NEW x, x = v \o w
    PROVE  /\ x \in Stream /\ Len(x) = Len(v) + Len(w)
           /\ \A p \in 1 .. Len(v) : x[p] = v[p]
           /\ \A p \in 1 .. Len(w) : x[Len(v) + p] = w[p]
  BY DEF Stream

(* w is part of x, k units from its beginning. *)
Within(w, x, k) ==
    /\ k + Len(w) <= Len(x)
    /\ \A p \in 1 .. Len(w) : x[k + p] = w[p]

LEMMA BodyWithin ==
    ASSUME NEW w \in Stream, NEW x \in Stream, NEW k \in Nat, Within(w, x, k),
           NEW h \in Heads, NEW d \in Nat, HasBody(w, d, h)
    PROVE  HasBody(x, k + d, h)
<1>1. h.size \in Nat /\ h.exps \in Nat /\ Total(h) \in Nat /\ Len(w) \in Nat /\ Len(x) \in Nat
  BY DEF Heads, Total, Stream
<1>2. d + Total(h) <= Len(w) /\ k + Len(w) <= Len(x)
  BY DEF HasBody, Within
<1>3. ASSUME NEW j \in 1 .. Total(h) PROVE BodyUnit(h, j, x[k + d + j])
  <2>1. d + j \in 1 .. Len(w) /\ k + (d + j) = k + d + j
    BY <1>1, <1>2
  <2>2. x[k + d + j] = w[d + j]
    BY <2>1 DEF Within
  <2> QED BY <2>2 DEF HasBody
<1>4. k + d + Total(h) <= Len(x)
  BY <1>1, <1>2
<1> QED BY <1>3, <1>4 DEF HasBody

LEMMA FollowsWithin ==
    ASSUME NEW w \in Stream, NEW x \in Stream, NEW k \in Nat, Within(w, x, k),
           NEW p \in 1 .. Len(w), IsHead(w[p]), Follows(w, p)
    PROVE  Follows(x, k + p)
<1>1. Len(w) \in Nat /\ Len(x) \in Nat /\ HeadLen \in Nat /\ k + Len(w) <= Len(x)
  BY HeadLenAssumption DEF Stream, Within
<1>2. PICK h \in Heads, s \in 1 .. HeadLen : h = w[p].head /\ s = w[p].site
  BY StreamFacts
<1>3. PICK d \in Nat : d = p + (HeadLen - s)
  BY <1>1
<1>4. /\ HeadFits(h) /\ d <= Len(w)
      /\ \A t \in s .. HeadLen : w[p + (t - s)] = HeadUnit(h, t)
      /\ HasBody(w, d, h)
  BY <1>2, <1>3 DEF Follows
<1>5. HasBody(x, k + d, h)
  BY <1>4, BodyWithin
<1>6. ASSUME NEW t \in s .. HeadLen PROVE x[k + p + (t - s)] = HeadUnit(h, t)
  <2>1. p + (t - s) \in 1 .. Len(w) /\ k + (p + (t - s)) = k + p + (t - s)
    BY <1>1, <1>3, <1>4
  <2>2. x[k + p + (t - s)] = w[p + (t - s)]
    BY <2>1 DEF Within
  <2> QED BY <1>4, <2>2
<1>7. x[k + p] = w[p]
  BY DEF Within
<1>8. k + p + (HeadLen - s) = k + d /\ k + d <= Len(x)
  BY <1>1, <1>3, <1>4
<1> QED BY <1>2, <1>4, <1>5, <1>6, <1>7, <1>8 DEF Follows

LEMMA ConcatFramed ==
    ASSUME NEW v \in Stream, NEW w \in Stream, NEW x, x = v \o w, Framed(v), Framed(w)
    PROVE  x \in Stream /\ Within(v, x, 0) /\ Framed(x)
<1>1. /\ x \in Stream /\ Len(x) = Len(v) + Len(w) /\ Len(v) \in Nat /\ Len(w) \in Nat
      /\ \A p \in 1 .. Len(v) : x[p] = v[p]
      /\ \A p \in 1 .. Len(w) : x[Len(v) + p] = w[p]
  BY ConcatFacts DEF Stream
<1>2. Within(v, x, 0) /\ Within(w, x, Len(v))
  BY <1>1 DEF Within
<1>3. ASSUME NEW p \in 1 .. Len(x), IsHead(x[p]) PROVE Follows(x, p)
  <2>1. CASE p \in 1 .. Len(v)
    <3>1. IsHead(v[p]) /\ Follows(v, p) /\ 0 + p = p
      BY <1>1, <1>3, <2>1 DEF Framed
    <3>2. Follows(x, 0 + p)
      BY <1>1, <1>2, <2>1, <3>1, FollowsWithin
    <3> QED BY <3>1, <3>2
  <2>2. CASE p > Len(v)
    <3>1. PICK q \in 1 .. Len(w) : p = Len(v) + q
      BY <1>1, <2>2
    <3>2. IsHead(w[q]) /\ Follows(w, q)
      BY <1>1, <1>3, <3>1 DEF Framed
    <3>3. Follows(x, Len(v) + q)
      BY <1>1, <1>2, <3>2, FollowsWithin
    <3> QED BY <3>1, <3>3
  <2> QED BY <1>1, <2>1, <2>2
<1> QED BY <1>1, <1>2, <1>3 DEF Framed

LEMMA ConcatOrdered ==
    ASSUME NEW v \in Stream, NEW w \in Stream, NEW x, x = v \o w, Ordered(v), Ordered(w),
           \A p \in 1 .. Len(v) : \A q \in 1 .. Len(w) :
              IsHead(v[p]) /\ IsHead(w[q]) => v[p].head.id < w[q].head.id
    PROVE  Ordered(x)
<1>1. /\ x \in Stream /\ Len(x) = Len(v) + Len(w) /\ Len(v) \in Nat /\ Len(w) \in Nat
      /\ \A p \in 1 .. Len(v) : x[p] = v[p]
      /\ \A p \in 1 .. Len(w) : x[Len(v) + p] = w[p]
  BY ConcatFacts DEF Stream
<1>2. SUFFICES ASSUME NEW p \in 1 .. Len(x), NEW q \in 1 .. Len(x), p < q,
                      IsHead(x[p]), IsHead(x[q])
               PROVE  Before(x[p], x[q])
  BY DEF Ordered
<1>3. CASE q \in 1 .. Len(v)
  <2>1. p \in 1 .. Len(v)
    BY <1>1, <1>2, <1>3
  <2> QED BY <1>1, <1>2, <1>3, <2>1 DEF Ordered
<1>4. CASE p > Len(v)
  <2>1. PICK i \in 1 .. Len(w) : p = Len(v) + i
    BY <1>1, <1>2, <1>4
  <2>2. PICK j \in 1 .. Len(w) : q = Len(v) + j
    BY <1>1, <1>2, <1>4
  <2>3. i < j /\ x[p] = w[i] /\ x[q] = w[j]
    BY <1>1, <1>2, <2>1, <2>2
  <2> QED BY <1>2, <2>3 DEF Ordered
<1>5. CASE p \in 1 .. Len(v) /\ q > Len(v)
  <2>1. PICK j \in 1 .. Len(w) : q = Len(v) + j
    BY <1>1, <1>2, <1>5
  <2> QED BY <1>1, <1>2, <1>5, <2>1 DEF Before
<1> QED BY <1>1, <1>3, <1>4, <1>5

-----------------------------------------------------------------------------
(* Steps. *)

LEMMA SoundStays ==
    ASSUME UNCHANGED <<knowsRec, knowsExp>>, NEW n, NEW b, Sound(n, b)
    PROVE  Sound(n, b)'
  BY DEF Sound, AllOrNone, RecordsIntact

LEMMA PassedStays ==
    ASSUME NEW n, Passed(n), Has(n)' \subseteq Has(n), Had(n) \subseteq Had(n)',
           n + 1 \in Inst => Left(n + 1)' \subseteq Left(n + 1)
    PROVE  Passed(n)'
  BY DEF Passed, Less

LEMMA IdsFacts ==
    /\ Ids(<<>>) = {} /\ Values(<<>>) = {} /\ HeadIds(<<>>) = {}
    /\ \A b : Ids(<<b>>) = {b.id}
<1>1. Len(<<>>) = 0 /\ 1 .. 0 = {} /\ 1 .. 1 = {1}
  OBVIOUS
<1>2. \A b : Len(<<b>>) = 1 /\ <<b>>[1] = b
  OBVIOUS
<1> QED BY <1>1, <1>2 DEF Ids, Values, HeadIds

LEMMA InitHolds == Init => IInv
<1> SUFFICES ASSUME Init PROVE IInv
  OBVIOUS
<1> USE DEF Init
<1>1. Len(<<>>) = 0 /\ 1 .. 0 = {} /\ <<>> \in Stream /\ <<>> \in Seq(Nat)
  BY DEF Stream
<1>2. Typed
  BY <1>1 DEF Typed
<1>3. Boxes /\ Loadings /\ CrashOnlyWhenTorn
  BY DEF Boxes, Loadings, CrashOnlyWhenTorn
<1>4. ASSUME NEW n \in Inst PROVE Framed(wire[n]) /\ InOrder(n) /\ Passed(n)
  <2>1. \A m \in Inst : wire[m] = <<>> /\ handed[m] = <<>> /\ loading[m] = <<>> /\ cur[m] = <<>>
    OBVIOUS
  <2>2. Framed(wire[n]) /\ Ordered(wire[n])
    BY <1>1, <2>1 DEF Framed, Ordered
  <2>3. \A m \in Inst : Handed(m) = {} /\ Loading(m) = {} /\ OnWire(m) = {} /\ Has(m) = {}
    BY <2>1, IdsFacts DEF Handed, Loading, OnWire, Has
  <2>4. InOrder(n)
    BY <1>1, <2>1, <2>2, <2>3 DEF InOrder, Less
  <2>5. Passed(n)
    BY <2>3 DEF Passed, Left, Less
  <2> QED BY <2>2, <2>4, <2>5
<1> QED BY <1>2, <1>3, <1>4 DEF IInv

(* A step of the modules of an instance, that changes its message only. *)
LEMMA CurStep ==
    ASSUME IInv, NEW n \in Inst, NEW c, cur' = [cur EXCEPT ![n] = c],
           c = <<>> \/ \E b, d : c = <<d>> /\ Sound(n, d) /\ cur[n] = <<b>> /\ d.id = b.id,
           UNCHANGED <<knowsRec, knowsExp, loading, wire, crashed, made, cuts, handed, torn>>,
           ops' \in Nat
    PROVE  IInv'
<1>1. Typed /\ Boxes /\ Loadings /\ CrashOnlyWhenTorn
  BY DEF IInv
<1>2. Typed'
  BY <1>1 DEF Typed
<1>3. ASSUME NEW m \in Inst
      PROVE  /\ cur'[m] = <<>> \/ \E b : cur'[m] = <<b>> /\ Sound(m, b)
             /\ Has(m)' \subseteq Has(m)
  <2>1. CASE m = n
    <3>1. cur'[m] = c
      BY <1>1, <2>1 DEF Typed
    <3>2. CASE c = <<>>
      <4>1. cur'[m] = <<>>
        BY <3>1, <3>2
      <4>2. Has(m)' = {}
        BY <4>1, IdsFacts DEF Has
      <4> QED BY <4>1, <4>2
    <3>3. CASE \E b, d : c = <<d>> /\ Sound(n, d) /\ cur[n] = <<b>> /\ d.id = b.id
      <4>1. PICK b, d : c = <<d>> /\ Sound(n, d) /\ cur[n] = <<b>> /\ d.id = b.id
        BY <3>3
      <4>2. cur'[m] = <<d>> /\ Sound(m, d)
        BY <2>1, <3>1, <4>1
      <4>3. Has(m)' = {d.id} /\ Has(m) = {b.id}
        BY <2>1, <4>1, <4>2, IdsFacts DEF Has
      <4> QED BY <4>1, <4>2, <4>3
    <3> QED BY <3>2, <3>3
  <2>2. CASE m # n
    <3>1. cur'[m] = cur[m]
      BY <1>1, <2>2 DEF Typed
    <3> QED BY <1>1, <3>1 DEF Boxes, Has
  <2> QED BY <2>1, <2>2
<1>4. Boxes'
  BY <1>3, SoundStays DEF Boxes
<1>5. Loadings' /\ CrashOnlyWhenTorn'
  BY <1>1 DEF Loadings, CrashOnlyWhenTorn
<1>6. ASSUME NEW m \in Inst PROVE (Framed(wire[m]) /\ InOrder(m) /\ Passed(m))'
  <2>1. Framed(wire[m]) /\ InOrder(m) /\ Passed(m)
    BY DEF IInv
  <2>2. (Framed(wire[m]) /\ InOrder(m))'
    BY <2>1 DEF InOrder, Handed, Loading, OnWire
  <2>3. Had(m)' = Had(m) /\ Left(m + 1)' = Left(m + 1)
    BY DEF Had, Left, Handed, Loading, OnWire
  <2>4. Passed(m)'
    BY <1>3, <2>1, <2>3, PassedStays
  <2> QED BY <2>2, <2>4
<1> QED BY <1>2, <1>4, <1>5, <1>6 DEF IInv

(* message_create: the new message has a number none had before.           *)
LEMMA CreateStep ==
    ASSUME IInv, NEW k \in RecCounts, Create(k)
    PROVE  IInv'
<1>1. Typed /\ Boxes /\ Loadings /\ CrashOnlyWhenTorn
  BY DEF IInv
<1>2. k \in Nat /\ made \in Nat /\ 1 \in Inst /\ 1 \in knowsRec
  BY <1>1, BoundsAssumption, FinalAssumption DEF Typed, Inst
<1>3. PICK rs : rs = [i \in 1 .. k |-> Rec(<<made + 1, i>>)]
  OBVIOUS
<1>4. PICK b : b = WithRecords(NewBox(made + 1, [recs |-> rs, exps |-> <<>>]), rs)
  OBVIOUS
<1>5. b.id = made + 1 /\ Sound(1, b)
  BY <1>2, <1>3, <1>4, CreateSound
<1>6. /\ cur' = [cur EXCEPT ![1] = <<b>>] /\ made' = made + 1
      /\ UNCHANGED <<knowsRec, knowsExp, loading, wire, crashed, ops, cuts, handed, torn>>
  BY <1>3, <1>4 DEF Create, Put
<1>7. cur'[1] = <<b>> /\ \A m \in Inst \ {1} : cur'[m] = cur[m]
  BY <1>1, <1>2, <1>6 DEF Typed
<1>8. Typed'
  BY <1>1, <1>2, <1>6 DEF Typed
<1>9. Boxes'
  <2>1. \A m \in Inst : cur'[m] = <<>> \/ \E d : cur'[m] = <<d>> /\ Sound(m, d)
    BY <1>1, <1>5, <1>7 DEF Boxes
  <2> QED BY <1>6, <2>1, SoundStays DEF Boxes
<1>10. Loadings' /\ CrashOnlyWhenTorn'
  BY <1>1, <1>6 DEF Loadings, CrashOnlyWhenTorn
<1>11. ASSUME NEW m \in Inst PROVE (Framed(wire[m]) /\ InOrder(m) /\ Passed(m))'
  <2>1. Framed(wire[m]) /\ InOrder(m) /\ Passed(m)
    BY DEF IInv
  <2>2. (Framed(wire[m]) /\ InOrder(m))'
    BY <1>6, <2>1 DEF InOrder, Handed, Loading, OnWire
  <2>3. Left(m + 1)' = Left(m + 1)
    BY <1>6 DEF Left, Handed, Loading, OnWire
  <2>4. CASE m = 1
    <3>1. Had(m)' = 1 .. (made + 1) /\ Had(m) = 1 .. made
      BY <1>6, <2>4 DEF Had
    <3>2. Has(m)' = {made + 1}
      BY <1>5, <1>7, <2>4, IdsFacts DEF Has
    <3>3. m + 1 \in Inst => Left(m + 1) \subseteq 1 .. made
      BY <2>1, <3>1 DEF Passed
    <3>4. Has(m)' \subseteq Had(m)'
      BY <1>2, <3>1, <3>2
    <3>5. ASSUME m + 1 \in Inst
          PROVE  Left(m + 1)' \subseteq Had(m)' /\ Less(Left(m + 1)', Has(m)')
      <4>1. \A a \in 1 .. made : a \in 1 .. (made + 1) /\ a < made + 1
        BY <1>2
      <4>2. Left(m + 1)' \subseteq 1 .. made
        BY <2>3, <3>3, <3>5
      <4> QED BY <3>1, <3>2, <4>1, <4>2 DEF Less
    <3> HIDE DEF Inst
    <3>6. Passed(m)'
      BY <3>4, <3>5 DEF Passed
    <3> QED BY <2>2, <3>6
  <2>5. CASE m # 1
    <3>1. Has(m)' = Has(m) /\ Had(m)' = Had(m)
      BY <1>6, <1>7, <2>5 DEF Has, Had, Handed
    <3>2. Passed(m)'
      BY <2>1, <2>3, <3>1, PassedStays
    <3> QED BY <2>2, <3>2
  <2> QED BY <2>4, <2>5
<1> QED BY <1>8, <1>9, <1>10, <1>11 DEF IInv

(* The steps of the modules of an instance. *)
LEMMA ModuleStep ==
    ASSUME IInv, NEW n \in Inst, Module(n)
    PROVE  IInv'
<1>1. /\ Op(n) /\ cur[n] # <<>> /\ ops \in Nat /\ ops' = ops + 1
      /\ UNCHANGED <<knowsRec, knowsExp, loading, wire, crashed, made, cuts, handed, torn>>
  BY DEF Module, AddExpand, RemoveExpand, Encrypt, Decrypt, Clone, Reply, Op, Holds, IInv, Typed
<1>2. PICK b : cur[n] = <<b>> /\ Sound(n, b)
  BY <1>1 DEF IInv, Boxes
<1>3. cur[n][1] = b
  BY <1>2
<1>k. PICK k \in Nat : k = ops + 1
  BY <1>1
<1>4. ASSUME NEW d, Put(n, d), d.id = b.id, Sound(n, d) PROVE IInv'
  <2>1. PICK c : c = <<d>>
    OBVIOUS
  <2>2. \E x, y : c = <<y>> /\ Sound(n, y) /\ cur[n] = <<x>> /\ y.id = x.id
    BY <1>2, <1>4, <2>1
  <2>3. cur' = [cur EXCEPT ![n] = c]
    BY <1>4, <2>1 DEF Put
  <2> QED BY <1>1, <1>k, <2>2, <2>3, CurStep
<1>5. ASSUME cur' = [cur EXCEPT ![n] = <<>>] PROVE IInv'
  <2>1. PICK c : c = <<>>
    OBVIOUS
  <2>2. cur' = [cur EXCEPT ![n] = c]
    BY <1>5, <2>1
  <2> QED BY <1>1, <1>k, <2>1, <2>2, CurStep
<1>6. CASE AddExpand(n)
  <2>1. PICK e : e = Exp(k)
    OBVIOUS
  <2>2. PICK d : d = WithExpand(b, e)
    OBVIOUS
  <2>3. n \in knowsExp /\ Put(n, d)
    BY <1>3, <1>k, <1>6, <2>1, <2>2 DEF AddExpand, WithExpand
  <2>4. d.id = b.id /\ Sound(n, d)
    BY <1>2, <2>1, <2>2, <2>3, AddExpandSound
  <2> QED BY <1>4, <2>3, <2>4
<1>7. CASE RemoveExpand(n)
  <2>1. PICK d : d = [b EXCEPT !.expand = Tail(@), !.pexpand = Tail(@), !.real.exps = Tail(@)]
    OBVIOUS
  <2>2. b.expand # <<>> /\ Put(n, d)
    BY <1>3, <1>7, <2>1 DEF RemoveExpand
  <2>3. d.id = b.id /\ Sound(n, d)
    BY <1>2, <2>1, <2>2, RemoveExpandSound
  <2> QED BY <1>4, <2>2, <2>3
<1>8. CASE Encrypt(n)
  <2>1. PICK d : d = [b EXCEPT !.blob = [i \in 1 .. b.size |-> Cipher(b.blob[i])],
                               !.crypt = TRUE]
    OBVIOUS
  <2>2. ~b.crypt /\ ((b.hasBlob /\ Put(n, d)) \/ cur' = [cur EXCEPT ![n] = <<>>])
    BY <1>3, <1>8, <2>1 DEF Encrypt
  <2>3. CASE b.hasBlob /\ Put(n, d)
    <3>1. d.id = b.id /\ Sound(n, d)
      BY <1>2, <2>1, <2>2, <2>3, EncryptSound
    <3> QED BY <1>4, <2>3, <3>1
  <2> QED BY <1>5, <2>2, <2>3
<1>9. CASE Decrypt(n)
  <2>1. PICK d : d = LoadRecord(n, [b EXCEPT !.blob = [i \in 1 .. b.size |-> Plain(b.blob[i])],
                                             !.crypt = FALSE])
    OBVIOUS
  <2>2. b.crypt /\ ((b.hasBlob /\ Put(n, d)) \/ cur' = [cur EXCEPT ![n] = <<>>])
    BY <1>3, <1>9, <2>1 DEF Decrypt
  <2>3. CASE b.hasBlob /\ Put(n, d)
    <3>1. d.id = b.id /\ Sound(n, d)
      BY <1>2, <2>1, <2>2, <2>3, DecryptSound
    <3> QED BY <1>4, <2>3, <3>1
  <2> QED BY <1>5, <2>2, <2>3
<1>10. CASE Clone(n)
  <2>1. PICK es : es = Decoded(b.pexpand)
    OBVIOUS
  <2>2. PICK r : r = [recs |-> b.real.recs,
                      exps |-> IF n \in knowsExp THEN b.real.exps ELSE <<>>]
    OBVIOUS
  <2>3. PICK new : new = CloneHead(b, r, es)
    OBVIOUS
  <2>4. PICK d : d = CloneBody(b, new)
    OBVIOUS
  <2>5. CanClone(n, b) /\ Put(n, d)
    BY <1>3, <1>10, <2>1, <2>2, <2>3, <2>4 DEF Clone, CloneHead, CloneBody
  <2>6. d.id = b.id /\ Sound(n, d)
    BY <1>2, <2>1, <2>2, <2>3, <2>4, <2>5, CloneSound
  <2> QED BY <1>4, <2>5, <2>6
<1>11. CASE Reply(n)
  <2>1. PICK rs : rs = <<Rec(<<b.id, "reply", k>>)>>
    OBVIOUS
  <2>2. PICK d : d = [WithRecords(NewBox(b.id, [recs |-> rs, exps |-> b.real.exps]), rs)
                        EXCEPT !.expand = [i \in DOMAIN b.expand |->
                                              IF GetExpand(b, i) # Null THEN Null
                                              ELSE b.expand[i]],
                               !.pexpand = [i \in DOMAIN b.expand |-> GetExpand(b, i)],
                               !.part = b.part]
    OBVIOUS
  <2>3. n \in knowsRec /\ Put(n, d)
    BY <1>3, <1>k, <1>11, <2>1, <2>2 DEF Reply
  <2>4. d.id = b.id /\ Sound(n, d)
    BY <1>2, <2>1, <2>2, <2>3, ReplySound
  <2> QED BY <1>4, <2>3, <2>4
<1> QED BY <1>6, <1>7, <1>8, <1>9, <1>10, <1>11 DEF Module

LEMMA StreamIds ==
    ASSUME NEW v \in Stream, NEW w \in Stream, NEW x, x = v \o w
    PROVE  HeadIds(x) \subseteq HeadIds(v) \cup HeadIds(w)
<1>1. /\ Len(x) = Len(v) + Len(w) /\ Len(v) \in Nat /\ Len(w) \in Nat
      /\ \A p \in 1 .. Len(v) : x[p] = v[p]
      /\ \A p \in 1 .. Len(w) : x[Len(v) + p] = w[p]
  BY ConcatFacts DEF Stream
<1>2. ASSUME NEW p \in 1 .. Len(x), IsHead(x[p])
      PROVE  x[p].head.id \in HeadIds(v) \cup HeadIds(w)
  <2>1. CASE p \in 1 .. Len(v)
    BY <1>1, <1>2, <2>1 DEF HeadIds
  <2>2. CASE p > Len(v)
    <3>1. PICK q \in 1 .. Len(w) : p = Len(v) + q
      BY <1>1, <2>2
    <3> QED BY <1>1, <1>2, <3>1 DEF HeadIds
  <2> QED BY <1>1, <2>1, <2>2
<1> QED BY <1>2 DEF HeadIds

(* message_send *)
LEMMA SendStep ==
    ASSUME IInv, NEW n \in Inst, Send(n)
    PROVE  IInv'
<1>1. Typed /\ Boxes /\ Loadings /\ CrashOnlyWhenTorn
  BY DEF IInv
<1>2. /\ cur[n] # <<>> /\ cur' = [cur EXCEPT ![n] = <<>>]
      /\ UNCHANGED <<knowsRec, knowsExp, loading, crashed, made, ops, cuts, handed, torn>>
  BY DEF Send, Holds
<1>3. CASE wire' = wire
  <2>1. PICK c : c = <<>>
    OBVIOUS
  <2>2. cur' = [cur EXCEPT ![n] = c] /\ ops' \in Nat
    BY <1>1, <1>2, <2>1 DEF Typed
  <2> QED BY <1>2, <1>3, <2>1, <2>2, CurStep
<1>4. CASE wire' # wire
  <2>1. PICK b : cur[n] = <<b>> /\ Sound(n, b)
    BY <1>1, <1>2 DEF Boxes
  <2>2. PICK w : w = Output(b)
    OBVIOUS
  <2>3. PICK v, x : v = wire[n + 1] /\ x = v \o w
    OBVIOUS
  <2>4. n < Final /\ wire' = [wire EXCEPT ![n + 1] = x]
    BY <1>4, <2>1, <2>2, <2>3 DEF Send
  <2>5. PICK k \in Inst : k = n + 1
    BY <2>4, FinalAssumption DEF Inst
  <2>6. k # n /\ \A m \in Inst : m + 1 = k => m = n
    BY <2>5 DEF Inst
  <2>7. PICK h \in Heads : IsMessage(w, h) /\ h.id = b.id
    BY <2>1, <2>2, OutputIsMessage
  <2>8. v \in Stream /\ w \in Stream /\ v = wire[k]
    BY <1>1, <2>3, <2>5, <2>7 DEF Typed, IsMessage
  <2>9. x = v \o w
    BY <2>3
  <2>10. Framed(w) /\ Ordered(w) /\ Framed(v) /\ Ordered(v)
    <3>1. Framed(w) /\ Ordered(w)
      BY <2>7, MessageFramed
    <3>2. Framed(wire[k]) /\ InOrder(k)
      BY DEF IInv
    <3> QED BY <2>8, <3>1, <3>2 DEF InOrder
  <2>11. x \in Stream /\ Within(v, x, 0) /\ Framed(x)
    BY <2>8, <2>9, <2>10, ConcatFramed
  <2>12. Has(n) = {b.id}
    BY <2>1, IdsFacts DEF Has
  <2>13. Less(Left(k), {b.id}) /\ Left(k) \subseteq Had(n) /\ b.id \in Had(n)
    BY <2>5, <2>12 DEF IInv, Passed
  <2>14. \A p \in 1 .. Len(w) : IsHead(w[p]) => w[p].head.id = b.id
    BY <2>7, MessageHeads
  <2>15. HeadIds(x) \subseteq OnWire(k) \cup {b.id}
    <3>1. HeadIds(w) \subseteq {b.id}
      BY <2>14 DEF HeadIds
    <3>2. HeadIds(v) = OnWire(k)
      BY <2>8 DEF OnWire
    <3>3. HeadIds(x) \subseteq HeadIds(v) \cup HeadIds(w)
      BY <2>8, <2>9, StreamIds
    <3> QED BY <3>1, <3>2, <3>3
  <2>16. Ordered(x)
    <3>1. \A p \in 1 .. Len(v) : \A q \in 1 .. Len(w) :
             IsHead(v[p]) /\ IsHead(w[q]) => v[p].head.id < w[q].head.id
      <4>1. SUFFICES ASSUME NEW p \in 1 .. Len(v), NEW q \in 1 .. Len(w),
                            IsHead(v[p]), IsHead(w[q])
                     PROVE  v[p].head.id < w[q].head.id
        OBVIOUS
      <4>2. v[p].head.id \in OnWire(k)
        BY <2>8, <4>1 DEF OnWire, HeadIds
      <4>3. v[p].head.id < b.id
        BY <2>13, <4>2 DEF Less, Left
      <4>4. w[q].head.id = b.id
        BY <2>14, <4>1
      <4> QED BY <4>3, <4>4
    <3> QED BY <2>8, <2>9, <2>10, <3>1, ConcatOrdered
  <2>17. wire'[k] = x /\ \A m \in Inst : m # k => wire'[m] = wire[m]
    BY <1>1, <2>4, <2>5 DEF Typed
  <2>18. cur'[n] = <<>> /\ \A m \in Inst : m # n => cur'[m] = cur[m]
    BY <1>1, <1>2 DEF Typed
  <2>19. Typed'
    BY <1>1, <1>2, <2>4, <2>11 DEF Typed
  <2>20. Boxes'
    <3>1. \A m \in Inst : cur'[m] = <<>> \/ \E d : cur'[m] = <<d>> /\ Sound(m, d)
      BY <1>1, <2>18 DEF Boxes
    <3> QED BY <1>2, <3>1, SoundStays DEF Boxes
  <2>21. Loadings'
    <3>1. ASSUME NEW m \in Inst
          PROVE  loading[m] = <<>> \/ \E g \in Heads : /\ loading[m] = <<g>> /\ HeadFits(g)
                                                       /\ HasBody(wire'[m], 0, g)
      <4>1. CASE m # k
        BY <1>1, <2>17, <4>1 DEF Loadings
      <4>2. CASE m = k /\ loading[m] # <<>>
        <5>1. PICK g \in Heads : loading[m] = <<g>> /\ HeadFits(g) /\ HasBody(v, 0, g)
          BY <1>1, <2>8, <4>2 DEF Loadings
        <5>2. HasBody(x, 0 + 0, g)
          BY <2>8, <2>11, <5>1, BodyWithin
        <5> QED BY <2>17, <4>2, <5>1, <5>2
      <4> QED BY <4>1, <4>2
    <3> QED BY <1>2, <3>1 DEF Loadings
  <2>22. CrashOnlyWhenTorn'
    BY <1>1, <1>2 DEF CrashOnlyWhenTorn
  <2>23. \A m \in Inst : Handed(m)' = Handed(m) /\ Loading(m)' = Loading(m) /\ Had(m)' = Had(m)
    BY <1>2 DEF Handed, Loading, Had
  <2>24. OnWire(k)' \subseteq OnWire(k) \cup {b.id}
    BY <2>15, <2>17 DEF OnWire
  <2>25. \A m \in Inst : m # k => OnWire(m)' = OnWire(m)
    BY <2>17 DEF OnWire
  <2>26. ASSUME NEW m \in Inst PROVE Framed(wire'[m])
    <3>1. Framed(wire[m])
      BY DEF IInv
    <3> QED BY <2>11, <2>17, <3>1
  <2>27. ASSUME NEW m \in Inst PROVE InOrder(m)'
    <3>1. InOrder(m)
      BY DEF IInv
    <3>2. CASE m # k
      BY <1>2, <2>17, <2>23, <2>25, <3>1, <3>2 DEF InOrder
    <3>3. CASE m = k
      <4>1. Less(Handed(k), {b.id}) /\ Less(Loading(k), {b.id})
        BY <2>13 DEF Less, Left
      <4>2. /\ Less(Handed(m)', Loading(m)' \cup OnWire(m)') /\ Less(Loading(m)', OnWire(m)')
        BY <2>23, <2>24, <3>1, <3>3, <4>1 DEF InOrder, Less
      <4>3. \A i, j \in 1 .. Len(handed'[m]) : i < j => handed'[m][i] < handed'[m][j]
        BY <1>2, <3>1 DEF InOrder
      <4>4. Ordered(wire'[m])
        BY <2>16, <2>17, <3>3
      <4> QED BY <4>2, <4>3, <4>4 DEF InOrder
    <3> QED BY <3>2, <3>3
  <2>28. ASSUME NEW m \in Inst PROVE Passed(m)'
    <3>1. Passed(m)
      BY DEF IInv
    <3>2. CASE m = n
      <4>1. Has(m)' = {}
        BY <2>18, <3>2, IdsFacts DEF Has
      <4>2. Left(m + 1)' \subseteq Had(m)'
        BY <2>5, <2>13, <2>23, <2>24, <3>2 DEF Left
      <4> QED BY <4>1, <4>2 DEF Passed, Less
    <3>3. CASE m # n
      <4>1. Has(m)' = Has(m)
        BY <2>18, <3>3 DEF Has
      <4>2. m + 1 \in Inst => Left(m + 1)' = Left(m + 1)
        BY <2>6, <2>23, <2>25, <3>3 DEF Left
      <4> QED BY <2>23, <3>1, <4>1, <4>2, PassedStays
    <3> QED BY <3>2, <3>3
  <2> QED BY <2>19, <2>20, <2>21, <2>22, <2>26, <2>27, <2>28 DEF IInv
<1> QED BY <1>3, <1>4

(* What HandOn is given: a head, and the first units of its body. *)
Readable(h, got) ==
    /\ HeadFits(h) /\ got \in Seq(Unit) /\ Len(got) <= Total(h)
    /\ \A j \in 1 .. Len(got) : BodyUnit(h, j, got[j])

(* A message goes to the modules of n, or n dies of a body read in part. *)
Delivers(n, h) ==
    /\ crashed' = crashed /\ torn' \in {torn, torn \cup {n}}
    /\ handed' = [handed EXCEPT ![n] = Append(@, h.id)]
    /\ \E c : cur' = [cur EXCEPT ![n] = <<c>>] /\ c.id = h.id /\ Sound(n, c)

Dies(n) ==
    /\ crashed' = crashed \cup {n} /\ torn' = torn \cup {n}
    /\ handed' = handed /\ cur' = cur

(* message_read_data and the loads of message_read_from_conn *)
LEMMA HandOnEffect ==
    ASSUME NEW n, NEW h, NEW got, Readable(h, got), HandOn(n, h, got)
    PROVE  loading' = [loading EXCEPT ![n] = <<>>] /\ (Delivers(n, h) \/ Dies(n))
<1>1. /\ HeadFits(h) /\ got \in Seq(Unit) /\ Len(got) <= Total(h)
      /\ \A j \in 1 .. Len(got) : BodyUnit(h, j, got[j])
  BY DEF Readable
<1>2. h.size \in Nat /\ h.exps \in Nat /\ Total(h) = h.size + h.exps /\ Len(got) \in Nat
  BY <1>1 DEF HeadFits, Heads, Total
<1>3. PICK c : c = Handing(n, h, got)
  OBVIOUS
<1>4. /\ loading' = [loading EXCEPT ![n] = <<>>]
      /\ torn' = IF Len(got) < Total(h) THEN torn \cup {n} ELSE torn
      /\ IF ~Whole(h, got) /\ h.exps > 0
         THEN crashed' = crashed \cup {n} /\ UNCHANGED <<cur, handed>>
         ELSE /\ Put(n, c)
              /\ handed' = [handed EXCEPT ![n] = Append(@, h.id)]
              /\ UNCHANGED crashed
  BY <1>3 DEF HandOn, Handing, Raw, Total
<1>5. CASE ~Whole(h, got) /\ h.exps > 0
  <2>1. Len(got) < Total(h)
    BY <1>2, <1>5 DEF Whole
  <2> QED BY <1>4, <1>5, <2>1 DEF Dies
<1>6. CASE Whole(h, got) \/ ~(h.exps > 0)
  <2>1. Whole(h, got) \/ h.exps = 0
    BY <1>2, <1>6
  <2>2. c.id = h.id /\ Sound(n, c)
    BY <1>1, <1>3, <2>1, HandOnSound
  <2>3. cur' = [cur EXCEPT ![n] = <<c>>] /\ handed' = [handed EXCEPT ![n] = Append(@, h.id)]
        /\ crashed' = crashed /\ torn' \in {torn, torn \cup {n}}
    BY <1>4, <1>6 DEF Put
  <2> QED BY <1>4, <2>2, <2>3 DEF Delivers
<1> QED BY <1>5, <1>6

LEMMA ValuesAppend ==
    ASSUME NEW s \in Seq(Nat), NEW e \in Nat
    PROVE  /\ Append(s, e) \in Seq(Nat) /\ Values(Append(s, e)) = Values(s) \cup {e}
           /\ (\A i, j \in 1 .. Len(s) : i < j => s[i] < s[j]) /\ Less(Values(s), {e})
              => \A i, j \in 1 .. Len(Append(s, e)) :
                    i < j => Append(s, e)[i] < Append(s, e)[j]
<1>1. PICK t : t = Append(s, e)
  OBVIOUS
<1>2. /\ t \in Seq(Nat) /\ Len(s) \in Nat /\ Len(t) = Len(s) + 1
      /\ \A i \in 1 .. Len(s) : t[i] = s[i]
      /\ t[Len(s) + 1] = e
  BY <1>1, AppendFacts
<1>3. Values(t) = Values(s) \cup {e}
  <2>1. \A i \in 1 .. Len(t) : i \in 1 .. Len(s) \/ i = Len(s) + 1
    BY <1>2
  <2>2. \A i \in 1 .. Len(s) : i \in 1 .. Len(t)
    BY <1>2
  <2>3. Len(s) + 1 \in 1 .. Len(t)
    BY <1>2
  <2> QED BY <1>2, <2>1, <2>2, <2>3 DEF Values
<1>4. ASSUME \A i, j \in 1 .. Len(s) : i < j => s[i] < s[j], Less(Values(s), {e}),
             NEW i \in 1 .. Len(t), NEW j \in 1 .. Len(t), i < j
      PROVE  t[i] < t[j]
  <2>1. i \in 1 .. Len(s) /\ t[i] = s[i]
    BY <1>2, <1>4
  <2>2. CASE j \in 1 .. Len(s)
    BY <1>2, <1>4, <2>1, <2>2
  <2>3. CASE j = Len(s) + 1
    BY <1>2, <1>4, <2>1, <2>3 DEF Less, Values
  <2> QED BY <1>2, <2>2, <2>3
<1> QED BY <1>1, <1>2, <1>3, <1>4

(* What a step of the connection to n leaves on the wire: the rest of what *)
(* was there.                                                              *)
Rest(n, v) ==
    /\ v \in Stream /\ Framed(v) /\ Ordered(v) /\ HeadIds(v) \subseteq OnWire(n)
    /\ wire' = [wire EXCEPT ![n] = v] /\ cuts' \in Nat
    /\ UNCHANGED <<knowsRec, knowsExp, made, ops>>

(* The message of h is the next at n. *)
NextAt(n, h, v) ==
    h.id \in Left(n) /\ Less(Handed(n), {h.id}) /\ Less({h.id}, HeadIds(v))

(* Reading: n is handed a message, or dies. *)
LEMMA HandOnStep ==
    ASSUME IInv, NEW n \in Inst \ {1}, NEW h, NEW got, Readable(h, got), HandOn(n, h, got),
           NEW v, Rest(n, v), NextAt(n, h, v)
    PROVE  IInv'
<1>1. Typed /\ Boxes /\ Loadings /\ CrashOnlyWhenTorn
  BY DEF IInv
<1>2. /\ v \in Stream /\ Framed(v) /\ Ordered(v) /\ HeadIds(v) \subseteq OnWire(n)
      /\ wire' = [wire EXCEPT ![n] = v] /\ cuts' \in Nat
      /\ UNCHANGED <<knowsRec, knowsExp, made, ops>>
  BY DEF Rest
<1>3. h.id \in Left(n) /\ Less(Handed(n), {h.id}) /\ Less({h.id}, HeadIds(v))
  BY DEF NextAt
<1>4. loading' = [loading EXCEPT ![n] = <<>>] /\ (Delivers(n, h) \/ Dies(n))
  BY HandOnEffect
<1>5. h.id \in Nat /\ n \in Inst /\ handed[n] \in Seq(Nat)
  BY <1>1 DEF Readable, HeadFits, Heads, Typed
<1>6. wire'[n] = v /\ \A m \in Inst : m # n => wire'[m] = wire[m]
  BY <1>1, <1>2, <1>5 DEF Typed
<1>7. loading'[n] = <<>> /\ \A m \in Inst : m # n => loading'[m] = loading[m]
  BY <1>1, <1>4, <1>5 DEF Typed
<1>8. \A m \in Inst : m # n => cur'[m] = cur[m] /\ handed'[m] = handed[m]
  BY <1>1, <1>4 DEF Delivers, Dies, Typed
<1>9. \/ handed'[n] = handed[n] /\ cur'[n] = cur[n]
      \/ /\ handed'[n] = Append(handed[n], h.id)
         /\ \E c : cur'[n] = <<c>> /\ c.id = h.id /\ Sound(n, c)
  <2>1. CASE Delivers(n, h)
    <3>1. PICK c : cur' = [cur EXCEPT ![n] = <<c>>] /\ c.id = h.id /\ Sound(n, c)
      BY <2>1 DEF Delivers
    <3>2. cur'[n] = <<c>> /\ handed'[n] = Append(handed[n], h.id)
      BY <1>1, <1>5, <2>1, <3>1 DEF Typed, Delivers
    <3> QED BY <3>1, <3>2
  <2>2. CASE Dies(n)
    BY <2>2 DEF Dies
  <2> QED BY <1>4, <2>1, <2>2
<1>10. /\ DOMAIN cur' = Inst /\ DOMAIN loading' = Inst /\ wire' \in [Inst -> Stream]
       /\ handed' \in [Inst -> Seq(Nat)]
  <2>1. wire' \in [Inst -> Stream] /\ DOMAIN loading' = Inst
    BY <1>1, <1>2, <1>4 DEF Typed
  <2>2. DOMAIN cur' = Inst
    BY <1>1, <1>4 DEF Typed, Delivers, Dies
  <2>3. handed' \in [Inst -> Seq(Nat)]
    <3>1. Append(handed[n], h.id) \in Seq(Nat)
      BY <1>5
    <3> QED BY <1>1, <1>4, <3>1 DEF Typed, Delivers, Dies
  <2> QED BY <2>1, <2>2, <2>3
<1>11. crashed' \subseteq torn' /\ crashed' \subseteq Inst /\ torn' \subseteq Inst
  BY <1>1, <1>4, <1>5 DEF Typed, CrashOnlyWhenTorn, Delivers, Dies
<1>12. Typed'
  BY <1>1, <1>2, <1>10, <1>11 DEF Typed
<1>13. Boxes'
  <2>1. \A m \in Inst : cur'[m] = <<>> \/ \E d : cur'[m] = <<d>> /\ Sound(m, d)
    BY <1>1, <1>8, <1>9 DEF Boxes
  <2> QED BY <1>2, <2>1, SoundStays DEF Boxes
<1>14. Loadings'
  BY <1>1, <1>6, <1>7 DEF Loadings
<1>15. CrashOnlyWhenTorn'
  BY <1>11 DEF CrashOnlyWhenTorn
<1>16. Handed(n) \subseteq Handed(n)' /\ Handed(n)' \subseteq Handed(n) \cup {h.id}
  BY <1>5, <1>9, ValuesAppend DEF Handed
<1>17. Loading(n)' = {} /\ OnWire(n)' = HeadIds(v)
  BY <1>6, <1>7, IdsFacts DEF Loading, OnWire
<1>18. \A m \in Inst : m # n => /\ Handed(m)' = Handed(m) /\ Loading(m)' = Loading(m)
                                /\ OnWire(m)' = OnWire(m) /\ Has(m)' = Has(m)
  BY <1>6, <1>7, <1>8 DEF Handed, Loading, OnWire, Has
<1>19. Left(n)' \subseteq Left(n) /\ \A m \in Inst : m # n => Left(m)' = Left(m)
  BY <1>2, <1>3, <1>16, <1>17, <1>18 DEF Left
<1>20. ASSUME NEW m \in Inst PROVE Framed(wire'[m])
  <2>1. Framed(wire[m])
    BY DEF IInv
  <2> QED BY <1>2, <1>6, <2>1
<1>21. ASSUME NEW m \in Inst PROVE InOrder(m)'
  <2>1. InOrder(m)
    BY DEF IInv
  <2>2. CASE m # n
    BY <1>6, <1>8, <1>18, <2>1, <2>2 DEF InOrder
  <2>3. CASE m = n
    <3>1. \A i, j \in 1 .. Len(handed'[n]) : i < j => handed'[n][i] < handed'[n][j]
      <4>1. \A i, j \in 1 .. Len(handed[n]) : i < j => handed[n][i] < handed[n][j]
        BY <2>1, <2>3 DEF InOrder
      <4>2. CASE handed'[n] = handed[n]
        BY <4>1, <4>2
      <4>3. CASE handed'[n] = Append(handed[n], h.id)
        <5>1. PICK s \in Seq(Nat), e \in Nat : s = handed[n] /\ e = h.id
          BY <1>5
        <5>2. PICK t : t = Append(s, e)
          OBVIOUS
        <5>3. \A i, j \in 1 .. Len(t) : i < j => t[i] < t[j]
          <6>1. \A i, j \in 1 .. Len(s) : i < j => s[i] < s[j]
            BY <4>1, <5>1
          <6>2. Less(Values(s), {e})
            BY <1>3, <5>1 DEF Handed
          <6> QED BY <5>2, <6>1, <6>2, ValuesAppend
        <5>4. handed'[n] = t
          BY <4>3, <5>1, <5>2
        <5> QED BY <5>3, <5>4
      <4> QED BY <1>9, <4>2, <4>3
    <3>2. Less(Handed(n), OnWire(n))
      BY <2>1, <2>3 DEF InOrder, Less
    <3>3. Less(Handed(n)', OnWire(n)')
      BY <1>2, <1>3, <1>16, <1>17, <3>2 DEF Less
    <3>4. /\ Less(Handed(n)', Loading(n)' \cup OnWire(n)') /\ Less(Loading(n)', OnWire(n)')
      BY <1>17, <3>3 DEF Less
    <3>5. Ordered(wire'[n])
      BY <1>2, <1>6
    <3> QED BY <2>3, <3>1, <3>4, <3>5 DEF InOrder
  <2> QED BY <2>2, <2>3
<1>22. ASSUME NEW m \in Inst PROVE Passed(m)'
  <2>1. Passed(m)
    BY DEF IInv
  <2>2. m + 1 \in Inst => Left(m + 1)' \subseteq Left(m + 1)
    BY <1>19
  <2>3. Had(m) \subseteq Had(m)'
    BY <1>2, <1>16, <1>18 DEF Had
  <2>4. CASE Has(m)' \subseteq Has(m)
    BY <2>1, <2>2, <2>3, <2>4, PassedStays
  <2>5. CASE m = n /\ cur'[n] # cur[n]
    <3>1. PICK c : cur'[n] = <<c>> /\ c.id = h.id /\ handed'[n] = Append(handed[n], h.id)
      BY <1>9, <2>5
    <3>2. Has(n)' = {h.id}
      BY <3>1, IdsFacts DEF Has
    <3>3. h.id \in Handed(n)' /\ Had(n) = Handed(n) /\ Had(n)' = Handed(n)'
      BY <1>5, <3>1, ValuesAppend DEF Handed, Had
    <3>4. n + 1 \in Inst => Left(n + 1) \subseteq Handed(n)
      BY <2>1, <2>5, <3>3 DEF Passed
    <3>5. n + 1 \in Inst => Left(n + 1)' \subseteq Had(n)' /\ Less(Left(n + 1)', Has(n)')
      BY <1>3, <1>16, <2>2, <2>5, <3>2, <3>3, <3>4 DEF Less
    <3> QED BY <2>5, <3>2, <3>3, <3>5 DEF Passed
  <2> QED BY <1>18, <2>4, <2>5 DEF Has
<1> QED BY <1>12, <1>13, <1>14, <1>15, <1>20, <1>21, <1>22 DEF IInv

(* Reading: a head, or nothing, is kept for the next read. *)
LEMMA LoadStep ==
    ASSUME IInv, NEW n \in Inst \ {1}, NEW v, Rest(n, v), NEW c,
           DOMAIN loading' = Inst, loading'[n] = c,
           \A m \in Inst : m # n => loading'[m] = loading[m],
           UNCHANGED <<cur, crashed, handed, torn>>,
           c = <<>> \/ \E h \in Heads : /\ c = <<h>> /\ HeadFits(h) /\ HasBody(v, 0, h)
                                        /\ NextAt(n, h, v)
    PROVE  IInv'
<1>1. Typed /\ Boxes /\ Loadings /\ CrashOnlyWhenTorn /\ n \in Inst
  BY DEF IInv
<1>2. /\ v \in Stream /\ Framed(v) /\ Ordered(v) /\ HeadIds(v) \subseteq OnWire(n)
      /\ wire' = [wire EXCEPT ![n] = v] /\ cuts' \in Nat
      /\ UNCHANGED <<knowsRec, knowsExp, made, ops>>
  BY DEF Rest
<1>3. wire'[n] = v /\ \A m \in Inst : m # n => wire'[m] = wire[m]
  BY <1>1, <1>2 DEF Typed
<1>4. loading'[n] = c /\ \A m \in Inst : m # n => loading'[m] = loading[m]
  OBVIOUS
<1>5. /\ Ids(c) \subseteq Left(n) /\ Less(Handed(n), Ids(c)) /\ Less(Ids(c), HeadIds(v))
  <2>1. CASE c = <<>>
    BY <2>1, IdsFacts DEF Less
  <2>2. CASE \E h \in Heads : c = <<h>> /\ NextAt(n, h, v)
    BY <2>2, IdsFacts DEF NextAt
  <2> QED BY <2>1, <2>2
<1>6. Typed'
  BY <1>1, <1>2 DEF Typed
<1>7. Boxes'
  <2>1. \A m \in Inst : cur'[m] = <<>> \/ \E d : cur'[m] = <<d>> /\ Sound(m, d)
    BY <1>1 DEF Boxes
  <2> QED BY <1>2, <2>1, SoundStays DEF Boxes
<1>8. Loadings'
  <2>1. ASSUME NEW m \in Inst
        PROVE  loading'[m] = <<>> \/ \E h \in Heads : /\ loading'[m] = <<h>> /\ HeadFits(h)
                                                      /\ HasBody(wire'[m], 0, h)
    <3>1. CASE m # n
      BY <1>1, <1>3, <1>4, <3>1 DEF Loadings
    <3>2. CASE m = n
      BY <1>3, <1>4, <3>2
    <3> QED BY <3>1, <3>2
  <2> QED BY <2>1 DEF Loadings
<1>9. CrashOnlyWhenTorn'
  BY <1>1 DEF CrashOnlyWhenTorn
<1>10. \A m : Handed(m)' = Handed(m) /\ Has(m)' = Has(m) /\ Had(m)' = Had(m)
  BY <1>2 DEF Handed, Has, Had
<1>11. Loading(n)' = Ids(c) /\ OnWire(n)' = HeadIds(v)
  BY <1>3, <1>4 DEF Loading, OnWire
<1>12. \A m \in Inst : m # n => Loading(m)' = Loading(m) /\ OnWire(m)' = OnWire(m)
  BY <1>3, <1>4 DEF Loading, OnWire
<1>13. \A m \in Inst : Left(m)' \subseteq Left(m)
  BY <1>2, <1>5, <1>10, <1>11, <1>12 DEF Left
<1>14. ASSUME NEW m \in Inst PROVE Framed(wire'[m])
  <2>1. Framed(wire[m])
    BY DEF IInv
  <2> QED BY <1>2, <1>3, <2>1
<1>15. ASSUME NEW m \in Inst PROVE InOrder(m)'
  <2>1. InOrder(m)
    BY DEF IInv
  <2>2. CASE m # n
    BY <1>3, <1>10, <1>12, <2>1, <2>2 DEF InOrder
  <2>3. CASE m = n
    <3>1. /\ Less(Handed(m)', Loading(m)' \cup OnWire(m)') /\ Less(Loading(m)', OnWire(m)')
      BY <1>2, <1>5, <1>10, <1>11, <2>1, <2>3 DEF InOrder, Less
    <3>2. \A i, j \in 1 .. Len(handed'[m]) : i < j => handed'[m][i] < handed'[m][j]
      BY <2>1 DEF InOrder
    <3>3. Ordered(wire'[m])
      BY <1>2, <1>3, <2>3
    <3> QED BY <3>1, <3>2, <3>3 DEF InOrder
  <2> QED BY <2>2, <2>3
<1>16. ASSUME NEW m \in Inst PROVE Passed(m)'
  <2>1. Passed(m)
    BY DEF IInv
  <2> QED BY <1>10, <1>13, <2>1, PassedStays
<1> QED BY <1>6, <1>7, <1>8, <1>9, <1>14, <1>15, <1>16 DEF IInv

(* What is on the wire after m units were read. *)
LEMMA RestOf ==
    ASSUME IInv, NEW n \in Inst, NEW m \in Nat, m <= Len(wire[n]), NEW v,
           v = SubSeq(wire[n], m + 1, Len(wire[n])), wire' = [wire EXCEPT ![n] = v],
           cuts' \in Nat, UNCHANGED <<knowsRec, knowsExp, made, ops>>
    PROVE  Rest(n, v)
<1>1. PICK w \in Stream : w = wire[n]
  BY DEF IInv, Typed
<1>2. Framed(w) /\ Ordered(w)
  BY <1>1 DEF IInv, InOrder
<1>3. v = SubSeq(w, m + 1, Len(w)) /\ m <= Len(w) /\ Len(w) \in Nat
  BY <1>1 DEF Stream
<1>4. v \in Stream /\ Len(v) = Len(w) - m /\ \A p \in 1 .. Len(w) - m : v[p] = w[m + p]
  BY <1>3, DropFacts
<1>5. Framed(v) /\ Ordered(v)
  BY <1>2, <1>3, DropFramed
<1>6. HeadIds(v) \subseteq OnWire(n)
  <2>1. ASSUME NEW p \in 1 .. Len(v), IsHead(v[p]) PROVE v[p].head.id \in HeadIds(w)
    <3>1. v[p] = w[m + p] /\ m + p \in 1 .. Len(w)
      BY <1>3, <1>4
    <3> QED BY <2>1, <3>1 DEF HeadIds
  <2> QED BY <1>1, <2>1 DEF HeadIds, OnWire
<1> QED BY <1>4, <1>5, <1>6 DEF Rest

(* The message being loaded is the next. *)
LEMMA LoadedNext ==
    ASSUME IInv, NEW n \in Inst, NEW v, Rest(n, v), NEW h, loading[n] = <<h>>
    PROVE  NextAt(n, h, v)
<1>1. Loading(n) = {h.id}
  BY IdsFacts DEF Loading
<1>2. Less(Handed(n), Loading(n)) /\ Less(Loading(n), OnWire(n))
  BY DEF IInv, InOrder, Less
<1> QED BY <1>1, <1>2 DEF NextAt, Left, Rest, Less

LEMMA NothingRead ==
    ASSUME NEW h, HeadFits(h)
    PROVE  Readable(h, <<>>)
<1>1. <<>> \in Seq(Unit) /\ Len(<<>>) = 0 /\ 1 .. 0 = {}
  OBVIOUS
<1>2. 0 <= Total(h)
  BY DEF HeadFits, Heads, Total
<1> QED BY <1>1, <1>2 DEF Readable

LEMMA CutStep ==
    ASSUME IInv, NEW n \in Inst \ {1}, Cut(n)
    PROVE  IInv'
<1>1. Typed /\ Loadings /\ n \in Inst
  BY DEF IInv
<1>2. PICK v : v = <<>>
  OBVIOUS
<1>3. Rest(n, v)
  <2>1. v \in Stream /\ Len(v) = 0 /\ 1 .. 0 = {}
    BY <1>2 DEF Stream
  <2>2. Framed(v) /\ Ordered(v) /\ HeadIds(v) = {}
    BY <1>2, <2>1, IdsFacts DEF Framed, Ordered
  <2>3. wire' = [wire EXCEPT ![n] = v] /\ UNCHANGED <<knowsRec, knowsExp, made, ops>>
    BY <1>2 DEF Cut
  <2>4. cuts' \in Nat
    BY <1>1 DEF Cut, Typed
  <2> QED BY <2>1, <2>2, <2>3, <2>4 DEF Rest
<1>4. CASE loading[n] # <<>>
  <2>1. PICK h \in Heads : loading[n] = <<h>> /\ HeadFits(h)
    BY <1>1, <1>4 DEF Loadings
  <2>2. PICK got : got = <<>>
    OBVIOUS
  <2>3. loading[n][1] = h
    BY <2>1
  <2>4. HandOn(n, h, got)
    BY <1>4, <2>2, <2>3 DEF Cut
  <2>5. Readable(h, got)
    BY <2>1, <2>2, NothingRead
  <2> QED BY <1>3, <2>1, <2>4, <2>5, <1>1, LoadedNext, HandOnStep
<1>5. CASE loading[n] = <<>>
  <2>1. PICK c : c = <<>>
    OBVIOUS
  <2>2. UNCHANGED <<cur, crashed, handed, torn>> /\ loading' = loading
    BY <1>5 DEF Cut
  <2>3. DOMAIN loading' = Inst /\ loading'[n] = c
    BY <1>1, <1>5, <2>1, <2>2 DEF Typed
  <2> QED BY <1>3, <2>1, <2>2, <2>3, LoadStep
<1> QED BY <1>4, <1>5

LEMMA ReadBodyStep ==
    ASSUME IInv, NEW n \in Inst \ {1}, NEW m \in Nat, ReadBody(n, m)
    PROVE  IInv'
<1>1. Typed /\ Loadings /\ n \in Inst
  BY DEF IInv
<1>2. PICK h \in Heads : loading[n] = <<h>> /\ HeadFits(h) /\ HasBody(wire[n], 0, h)
  BY <1>1 DEF Loadings, ReadBody
<1>3. loading[n][1] = h
  BY <1>2
<1>4. PICK w \in Stream : w = wire[n]
  BY <1>1 DEF Typed
<1>5. PICK got : got = SubSeq(w, 1, m)
  OBVIOUS
<1>6. PICK v : v = SubSeq(wire[n], m + 1, Len(wire[n]))
  OBVIOUS
<1>7. /\ m <= Len(w) /\ m <= Total(h) /\ HandOn(n, h, got)
      /\ UNCHANGED <<knowsRec, knowsExp, made, ops, cuts>>
  BY <1>3, <1>4, <1>5 DEF ReadBody, Total
<1>8. wire' = [wire EXCEPT ![n] = v]
  BY <1>6 DEF ReadBody
<1>9. Rest(n, v)
  <2>1. cuts' \in Nat
    BY <1>1, <1>7 DEF Typed
  <2> QED BY <1>1, <1>4, <1>6, <1>7, <1>8, <2>1, RestOf
<1>10. Readable(h, got)
  <2>1. Len(got) = m /\ \A j \in 1 .. m : got[j] = w[j]
    BY <1>5, <1>7 DEF Stream
  <2>2. got = [j \in 1 .. m |-> w[j]]
    BY <1>5, <1>7 DEF Stream
  <2>3. Total(h) \in Nat
    BY DEF Heads, Total
  <2>4. ASSUME NEW j \in 1 .. m PROVE BodyUnit(h, j, got[j]) /\ w[j] \in Unit
    <3>1. j \in 1 .. Total(h) /\ 0 + j = j
      BY <1>7, <2>3
    <3>2. BodyUnit(h, j, w[0 + j])
      BY <1>2, <1>4, <3>1 DEF HasBody
    <3>3. BodyUnit(h, j, w[j])
      BY <3>1, <3>2
    <3> QED BY <2>1, <3>3 DEF BodyUnit
  <2>5. got \in Seq(Unit)
    BY <2>2, <2>4
  <2> QED BY <1>2, <1>7, <2>1, <2>4, <2>5 DEF Readable
<1> QED BY <1>1, <1>2, <1>7, <1>9, <1>10, LoadedNext, HandOnStep

(* message_read_head: what is read as a head is one that was sent, and its *)
(* body follows.                                                           *)
LEMMA ReadHeadStep ==
    ASSUME IInv, NEW n \in Inst \ {1}, NEW m \in 1 .. HeadLen, ReadHead(n, m)
    PROVE  IInv'
<1>1. Typed /\ Loadings /\ n \in Inst /\ m \in Nat /\ HeadLen \in Nat \ {0}
  BY HeadLenAssumption DEF IInv
<1>2. PICK w \in Stream : w = wire[n]
  BY <1>1 DEF Typed
<1>3. PICK us : us = SubSeq(w, 1, m)
  OBVIOUS
<1>4. PICK ok \in BOOLEAN :
          ok <=> (m = HeadLen /\ \A k \in 1 .. m : us[k].kind = "head" /\ us[k].site = k)
  OBVIOUS
<1>5. PICK v : v = SubSeq(wire[n], m + 1, Len(wire[n]))
  OBVIOUS
<1>6. /\ m <= Len(w) /\ wire' = [wire EXCEPT ![n] = v]
      /\ UNCHANGED <<knowsRec, knowsExp, made, ops, cuts>>
      /\ \/ /\ ok /\ us[1].head.size + us[1].head.exps = 0
            /\ HandOn(n, us[1].head, <<>>)
         \/ /\ loading' = [loading EXCEPT ![n] = IF ok THEN <<us[1].head>> ELSE <<>>]
            /\ UNCHANGED <<cur, crashed, handed, torn>>
  BY <1>2, <1>3, <1>4, <1>5 DEF ReadHead
<1>7. Rest(n, v)
  <2>1. cuts' \in Nat
    BY <1>1, <1>6 DEF Typed
  <2> QED BY <1>1, <1>2, <1>5, <1>6, <2>1, RestOf
<1>8. /\ Len(w) \in Nat /\ Len(us) = m /\ \A k \in 1 .. m : us[k] = w[k]
  BY <1>1, <1>2, <1>3, <1>6 DEF Stream
<1>9. CASE ~ok
  <2>1. PICK c : c = <<>>
    OBVIOUS
  <2>2. /\ loading' = [loading EXCEPT ![n] = c]
        /\ UNCHANGED <<cur, crashed, handed, torn>>
    BY <1>6, <1>9, <2>1
  <2>3. /\ DOMAIN loading' = Inst /\ loading'[n] = c
        /\ \A i \in Inst : i # n => loading'[i] = loading[i]
    BY <1>1, <2>2 DEF Typed
  <2> QED BY <1>7, <2>1, <2>2, <2>3, LoadStep
<1>10. CASE ok
  <2>1. m = HeadLen /\ IsHead(w[1]) /\ w[1].site = 1 /\ 1 \in 1 .. Len(w)
    <3>1. m = HeadLen /\ us[1].kind = "head" /\ us[1].site = 1 /\ 1 \in 1 .. m
      BY <1>1, <1>4, <1>10
    <3> QED BY <1>1, <1>6, <1>8, <3>1 DEF IsHead
  <2>2. PICK h \in Heads : h = w[1].head
    BY <2>1, StreamFacts
  <2>3. us[1].head = h
    BY <1>1, <1>8, <2>2
  <2>4. Framed(w) /\ Ordered(w) /\ Less(Handed(n), OnWire(n))
    BY <1>1, <1>2 DEF IInv, InOrder, Less
  <2>5. Follows(w, 1)
    BY <2>1, <2>4 DEF Framed
  <2>6. /\ HeadFits(h) /\ \A t \in 1 .. HeadLen : w[1 + (t - 1)] = HeadUnit(h, t)
        /\ HasBody(w, 1 + (HeadLen - 1), h)
    BY <2>1, <2>2, <2>5 DEF Follows
  <2>7. HasBody(w, m, h) /\ w[m] = HeadUnit(h, m)
    <3>1. 1 + (HeadLen - 1) = m /\ m \in 1 .. HeadLen
      BY <1>1, <2>1
    <3> QED BY <2>1, <2>6, <3>1
  <2>8. v \in Stream /\ Len(v) = Len(w) - m /\ \A p \in 1 .. Len(w) - m : v[p] = w[m + p]
    <3>1. v = SubSeq(w, m + 1, Len(w))
      BY <1>2, <1>5
    <3>2. m \in Nat /\ m <= Len(w)
      BY <1>1, <1>6
    <3> QED BY <3>1, <3>2, DropFacts
  <2>9. HasBody(v, 0, h)
    <3>1. Total(h) \in Nat /\ m + Total(h) <= Len(w)
      BY <2>7 DEF HasBody, Heads, Total
    <3>2. ASSUME NEW j \in 1 .. Total(h) PROVE BodyUnit(h, j, v[0 + j])
      <4>1. j \in 1 .. Len(w) - m /\ 0 + j = j
        BY <1>1, <1>8, <3>1
      <4>2. v[0 + j] = w[m + j]
        BY <2>8, <4>1
      <4> QED BY <2>7, <4>2 DEF HasBody
    <3>3. 0 + Total(h) <= Len(v)
      BY <1>1, <1>8, <2>8, <3>1
    <3> QED BY <3>2, <3>3 DEF HasBody
  <2>10. NextAt(n, h, v)
    <3>1. h.id \in OnWire(n)
      BY <1>2, <2>1, <2>2 DEF OnWire, HeadIds
    <3>2. ASSUME NEW p \in 1 .. Len(v), IsHead(v[p]) PROVE h.id < v[p].head.id
      <4>1. v[p] = w[m + p] /\ m + p \in 1 .. Len(w) /\ m \in 1 .. Len(w) /\ m < m + p
        BY <1>1, <1>6, <1>8, <2>8
      <4>2. IsHead(w[m]) /\ w[m].head = h /\ w[m].site = m
        BY <2>7, HeadUnitFacts
      <4>3. IsHead(w[m + p])
        BY <3>2, <4>1
      <4>4. Before(w[m], w[m + p])
        BY <2>4, <4>1, <4>2, <4>3 DEF Ordered
      <4>5. w[m + p].site \in 1 .. HeadLen /\ w[m + p].head.id \in Nat /\ h.id \in Nat
        BY <1>2, <4>1, <4>3, StreamFacts DEF Heads
      <4> QED BY <1>1, <2>1, <4>1, <4>2, <4>4, <4>5 DEF Before
    <3>3. Less({h.id}, HeadIds(v))
      BY <3>2 DEF Less, HeadIds
    <3> QED BY <2>4, <3>1, <3>3 DEF NextAt, Left, Less
  <2>11. CASE HandOn(n, us[1].head, <<>>)
    <3>1. PICK got : got = <<>>
      OBVIOUS
    <3>2. HandOn(n, h, got)
      BY <2>3, <2>11, <3>1
    <3>3. Readable(h, got)
      BY <2>6, <3>1, NothingRead
    <3> QED BY <1>7, <2>10, <3>2, <3>3, HandOnStep
  <2>12. CASE /\ loading' = [loading EXCEPT ![n] = IF ok THEN <<us[1].head>> ELSE <<>>]
              /\ UNCHANGED <<cur, crashed, handed, torn>>
    <3>1. PICK c : c = <<h>>
      OBVIOUS
    <3>2. loading' = [loading EXCEPT ![n] = c]
      BY <1>10, <2>3, <2>12, <3>1
    <3>3. /\ DOMAIN loading' = Inst /\ loading'[n] = c
          /\ \A i \in Inst : i # n => loading'[i] = loading[i]
      BY <1>1, <3>2 DEF Typed
    <3>4. \E g \in Heads : c = <<g>> /\ HeadFits(g) /\ HasBody(v, 0, g) /\ NextAt(n, g, v)
      BY <2>6, <2>9, <2>10, <3>1
    <3> QED BY <1>7, <2>12, <3>3, <3>4, LoadStep
  <2> QED BY <1>6, <2>11, <2>12
<1> QED BY <1>4, <1>9, <1>10

LEMMA StepHolds == IInv /\ [Next]_vars => IInv'
<1> SUFFICES ASSUME IInv, [Next]_vars PROVE IInv'
  OBVIOUS
<1>1. CASE \E k \in RecCounts : Create(k)
  BY <1>1, CreateStep
<1>2. CASE \E n \in Inst : Module(n) \/ Send(n)
  BY <1>2, ModuleStep, SendStep
<1>3. CASE \E n \in Inst \ {1} : Cut(n)
  BY <1>3, CutStep
<1>4. CASE \E n \in Inst \ {1} : \E m \in 1 .. HeadLen : ReadHead(n, m)
  BY <1>4, ReadHeadStep
<1>5. CASE \E n \in Inst \ {1} : \E m \in 1 .. BufLen : ReadBody(n, m)
  <2>1. PICK n \in Inst \ {1}, m \in 1 .. BufLen : ReadBody(n, m)
    BY <1>5
  <2>2. m \in Nat
    BY BufLenAssumption
  <2> QED BY <2>1, <2>2, ReadBodyStep
<1>6. CASE UNCHANGED vars
  <2>1. Typed' /\ Loadings' /\ CrashOnlyWhenTorn'
    BY <1>6 DEF vars, IInv, Typed, Loadings, CrashOnlyWhenTorn
  <2>2. Boxes'
    <3>1. Boxes /\ cur' = cur /\ UNCHANGED <<knowsRec, knowsExp>>
      BY <1>6 DEF vars, IInv
    <3> QED BY <3>1, SoundStays DEF Boxes
  <2>3. ASSUME NEW n \in Inst PROVE (Framed(wire[n]) /\ InOrder(n) /\ Passed(n))'
    <3>1. Framed(wire[n]) /\ InOrder(n) /\ Passed(n)
      BY DEF IInv
    <3>2. \A m : /\ Handed(m)' = Handed(m) /\ Loading(m)' = Loading(m) /\ OnWire(m)' = OnWire(m)
                 /\ Has(m)' = Has(m) /\ Had(m)' = Had(m)
      BY <1>6 DEF vars, Handed, Loading, OnWire, Has, Had
    <3>3. (Framed(wire[n]) /\ InOrder(n))'
      BY <1>6, <3>1, <3>2 DEF vars, InOrder
    <3>4. Passed(n)'
      BY <3>1, <3>2 DEF Passed, Left
    <3> QED BY <3>3, <3>4
  <2> QED BY <2>1, <2>2, <2>3 DEF IInv
<1> QED BY <1>1, <1>2, <1>3, <1>4, <1>5, <1>6 DEF Next

-----------------------------------------------------------------------------
(* Theorems. *)

LEMMA ToSetFacts == ToSet(<<>>) = {} /\ \A b : ToSet(<<b>>) = {b}
<1>1. DOMAIN <<>> = {} /\ \A b : DOMAIN <<b>> = {1} /\ <<b>>[1] = b
  OBVIOUS
<1> QED BY <1>1 DEF ToSet

LEMMA BoxIntact ==
    ASSUME NEW n, NEW b, Sound(n, b)
    PROVE  /\ Len(b.expand) = Len(b.pexpand) /\ Len(b.record) = Len(b.precord)
           /\ b.record # <<>> => Len(b.record) = b.num
           /\ b.hasBlob => b.size <= Len(b.blob)
           /\ ~b.part =>
                /\ CanOutput(n, b)
                /\ OutputRecords(b) = IF b.crypt
                                      THEN [i \in DOMAIN b.real.recs |-> Cipher(b.real.recs[i])]
                                      ELSE b.real.recs
                /\ OutputExpands(b) = b.real.exps
           /\ ~b.part /\ ~b.crypt /\ n \in knowsRec => b.precord = b.real.recs
<1>1. /\ BoxTyped(b) /\ Len(b.expand) = Len(b.pexpand) /\ Len(b.record) = Len(b.precord)
      /\ b.record # <<>> => Len(b.record) = b.num
      /\ b.hasBlob => b.size <= Len(b.blob)
      /\ ~b.hasBlob => ~b.crypt /\ Len(b.record) = b.num
  BY DEF Sound, Shaped, RecordsShaped
<1>2. b.real.recs \in Seq(Records) /\ b.real.exps \in Seq(Expands) /\ b.num \in Nat
  BY <1>1 DEF BoxTyped, Real
<1>3. ASSUME ~b.part PROVE CanOutput(n, b)
  <2>1. SUFFICES ASSUME ~b.hasBlob PROVE CanOutput(n, b)
    BY DEF CanOutput
  <2>2. ~b.crypt /\ n \in knowsRec /\ b.precord = b.real.recs /\ b.num = Len(b.real.recs)
    BY <1>1, <1>3, <2>1 DEF Sound, RecordsIntact, RecordsTrue
  <2>3. \A i \in 1 .. b.num : b.real.recs[i] \in Records
    BY <1>2, <2>2
  <2>4. \A i \in 1 .. b.num : b.precord[i] # Null
    BY <2>2, <2>3, RecordFacts
  <2> QED BY <2>2, <2>4 DEF CanOutput
<1>4. ASSUME ~b.part
      PROVE  OutputRecords(b) = IF b.crypt
                                THEN [i \in DOMAIN b.real.recs |-> Cipher(b.real.recs[i])]
                                ELSE b.real.recs
  <2>1. PICK rs : rs = OutputRecords(b)
    OBVIOUS
  <2>2. /\ rs \in Seq(Unit) /\ Len(rs) = b.num
        /\ \A i \in 1 .. b.num : rs[i] = Stored(b.real.recs, b.crypt, i)
    BY <1>4, <2>1, OutputRecordsFacts
  <2>3. PICK recs \in Seq(Records) : recs = b.real.recs
    BY <1>2
  <2>4. Len(rs) = Len(recs)
    BY <1>4, <2>2, <2>3 DEF Sound, RecordsIntact, RecordsTrue
  <2>5. CASE b.crypt
    <3>1. \A i \in 1 .. Len(rs) : rs[i] = Cipher(recs[i])
      BY <2>2, <2>3, <2>5 DEF Stored
    <3>2. rs = [i \in DOMAIN recs |-> Cipher(recs[i])]
      BY <2>2, <2>3, <2>4, <3>1
    <3> QED BY <2>1, <2>3, <2>5, <3>2
  <2>6. CASE ~b.crypt
    <3>1. \A i \in 1 .. Len(rs) : rs[i] = recs[i]
      BY <2>2, <2>3, <2>6 DEF Stored
    <3>2. rs = recs
      BY <2>2, <2>3, <2>4, <3>1
    <3> QED BY <2>1, <2>3, <2>6, <3>2
  <2> QED BY <2>5, <2>6
<1>5. ASSUME ~b.part PROVE OutputExpands(b) = b.real.exps
  <2>1. PICK es : es = OutputExpands(b)
    OBVIOUS
  <2>2. /\ es \in Seq(Clear) /\ Len(es) = Len(b.real.exps)
        /\ \A i \in 1 .. Len(es) : es[i] = b.real.exps[i]
    BY <1>5, <2>1, OutputExpandsFacts
  <2>3. PICK exps \in Seq(Expands) : exps = b.real.exps
    BY <1>2
  <2>4. es = exps
    BY <2>2, <2>3
  <2> QED BY <2>1, <2>3, <2>4
<1>6. ~b.part /\ ~b.crypt /\ n \in knowsRec => b.precord = b.real.recs
  BY DEF Sound, RecordsIntact
<1> QED BY <1>1, <1>3, <1>4, <1>5, <1>6

LEMMA MessagesIntactHolds == IInv => MessagesIntact
<1> SUFFICES ASSUME IInv PROVE MessagesIntact
  OBVIOUS
<1>1. Typed /\ Boxes /\ Loadings
  BY DEF IInv
<1>2. ASSUME NEW n \in Inst, NEW b \in ToSet(cur[n]) PROVE Sound(n, b)
  <2>1. cur[n] # <<>>
    BY <1>2, ToSetFacts
  <2>2. PICK d : cur[n] = <<d>> /\ Sound(n, d)
    BY <1>1, <2>1 DEF Boxes
  <2>3. ToSet(cur[n]) = {d}
    BY <2>2, ToSetFacts
  <2> QED BY <1>2, <2>2, <2>3
<1>3. \A n \in Inst : Len(cur[n]) <= 1 /\ Len(loading[n]) <= 1
  <2>1. Len(<<>>) = 0 /\ \A d : Len(<<d>>) = 1
    OBVIOUS
  <2>2. \A n \in Inst : Len(cur[n]) \in {0, 1}
    BY <1>1, <2>1, Zenon DEF Boxes
  <2>3. \A n \in Inst : Len(loading[n]) \in {0, 1}
    BY <1>1, <2>1, Zenon DEF Loadings
  <2>4. 0 <= 1 /\ 1 <= 1
    OBVIOUS
  <2>5. \A n \in Inst : Len(cur[n]) <= 1
    BY <2>2, <2>4, Zenon
  <2>6. \A n \in Inst : Len(loading[n]) <= 1
    BY <2>3, <2>4, Zenon
  <2> QED BY <2>5, <2>6
<1>4. TypeOK
  BY <1>1, <1>2, <1>3, BoxIntact DEF TypeOK, Typed
<1>5. ContentIntact
  BY <1>2, BoxIntact DEF ContentIntact
<1>6. DecodedWhereKnown
  <2>1. knowsRec \subseteq Inst
    BY <1>1 DEF Typed
  <2> QED BY <1>2, <2>1, BoxIntact DEF DecodedWhereKnown
<1> QED BY <1>4, <1>5, <1>6 DEF MessagesIntact

LEMMA HandedInOrderHolds == IInv => HandedInOrder
<1> SUFFICES ASSUME IInv PROVE HandedInOrder
  OBVIOUS
<1>1. ASSUME NEW n \in Inst
      PROVE  \A i, j \in DOMAIN handed[n] : i < j => handed[n][i] < handed[n][j]
  <2>1. handed[n] \in Seq(Nat)
    BY DEF IInv, Typed
  <2>2. DOMAIN handed[n] = 1 .. Len(handed[n])
    BY <2>1
  <2>3. \A i, j \in 1 .. Len(handed[n]) : i < j => handed[n][i] < handed[n][j]
    BY DEF IInv, InOrder
  <2> QED BY <2>2, <2>3
<1> QED BY <1>1 DEF HandedInOrder

LEMMA InvariantHolds == Spec => []IInv
  BY InitHolds, StepHolds, PTL DEF Spec

(* A message is in every form it is kept in - decoded, one record at a     *)
(* time, as a blob, encrypted - what its creator and the modules on its    *)
(* way put into it, message_output_blob can write it at every instance,    *)
(* and an instance with a template for its records has them decoded: for   *)
(* any number of instances and messages, any buffers and any way the       *)
(* stream is torn, unless the message's own body was read in part.         *)
THEOREM MessagesIntactCorrect == Spec => []MessagesIntact
  BY InvariantHolds, MessagesIntactHolds, PTL

(* message_read_from_src hands the messages of a connection to an instance *)
(* in the order message_create numbered them, none twice, wherever the     *)
(* stream is torn and whatever of it is thrown away.                       *)
THEOREM HandedInOrderCorrect == Spec => []HandedInOrder
  BY InvariantHolds, HandedInOrderHolds, PTL

(* message_load_expand runs into the null pointer of an array that         *)
(* message_read_data did not allocate only where a body was read in part.  *)
THEOREM CrashOnlyWhenTornCorrect == Spec => []CrashOnlyWhenTorn
<1>1. IInv => CrashOnlyWhenTorn
  BY DEF IInv
<1> QED BY <1>1, InvariantHolds, PTL

=============================================================================
