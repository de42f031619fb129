--------------------------- MODULE Buffers_proof ---------------------------
(***************************************************************************)
(* The theorems about the two buffers between threads.                     *)
(*                                                                         *)
(* ChannelBuf, for every buffer size, every set of request sizes and every *)
(* interleaving of the one writer and the one reader.                      *)
(*                                                                         *)
(* MsgQueue, for any number of putters and messages: with one getter, the  *)
(* queue's read lock is enough.  msg_num is exact when it is tested, and   *)
(* every message is handed out at most once and never lost.                *)
(***************************************************************************)
EXTENDS ChannelBuf, MsgQueue, TLAPS

-----------------------------------------------------------------------------
(* The ring buffer. *)

(* A write that is about to publish and did not run wild wrote something. *)
WroteOk == wpc = "publish" /\ ~wild => WriteCount >= 0

(* With calls that do not overlap, what a call saw is still so. *)
SeqWrite ==
    /\ wpc \in {"branch", "left"} => rt - 1 # wt
    /\ wpc = "left" => (wcirc = "same" <=> rt > wt)
    /\ wpc \in {"copy", "publish"} => wseen = rt /\ (wcirc = "same" => rt - 1 > wt)

SeqRead ==
    /\ rpc = "left" => (rcirc = "same" <=> rt < wt)
    /\ rpc \in {"copy", "publish"} => rseen = wt /\ (rcirc = "same" => rt < wt)

SeqInv ==
    /\ ~wild /\ rt \in Index /\ wt \in Index
    /\ wpc = "idle" \/ rpc = "idle"
    /\ SeqWrite /\ SeqRead

(* A write that loaded last_read_tail: the room it computed is a lower     *)
(* bound of the free slots, because the reader only makes room (plus, when *)
(* last_read_tail was 0, the slot that tells full from empty).             *)
WriterSees ==
    wpc \in {"copy", "publish"} =>
        /\ wcirc = "same" => wt < wseen /\ wseen < BufSize /\ Room <= Free
        /\ wcirc = "lap" => wseen <= wt /\ Room <= Free + 1

(* A write about to publish has its bytes in place behind the tail. *)
WriterCopied ==
    wpc = "publish" =>
        \A k \in Nat : k < WriteCount => mem[Wrap(wt + k)] = sent + k + 1

(* A read that loaded last_write_tail: the data it computed is still there, *)
(* because the writer only adds.                                            *)
ReaderSees ==
    /\ rpc \in {"branch", "left"} => rt # wt
    /\ rpc \in {"copy", "publish"} =>
           /\ rcirc = "same" => rt <= rseen
           /\ rseen < BufSize
           /\ Data <= Occupied

ReaderCopied ==
    rpc = "publish" =>
        /\ Len(rdata) = ReadCount
        /\ \A k \in 1 .. ReadCount : rdata[k] = Len(got) + k

(* The unread bytes are in the ring, in order. *)
Content == \A k \in Nat : k < Occupied => mem[Wrap(rt + k)] = Len(got) + k + 1

(* The state of the ring without a lap and without a race. *)
Good ==
    /\ ~wild /\ rt \in Index /\ wt \in Index
    /\ IsFifo /\ Content
    /\ WriterSees /\ WriterCopied /\ ReaderSees /\ ReaderCopied

-----------------------------------------------------------------------------
(* The initial state is well typed. *)
LEMMA TypeInit == Init => TypeOK /\ WroteOk
<1> SUFFICES ASSUME Init PROVE TypeOK /\ WroteOk
  OBVIOUS
<1>1. mem \in [Index -> Nat]
  BY DEF Init
<1>2. rdata \in Seq(Nat) /\ got \in Seq(Nat)
  BY DEF Init
<1>3. lapped \in BOOLEAN /\ raced \in BOOLEAN /\ wild \in BOOLEAN
  BY DEF Init
<1>4. 0 \in UINT16
  BY DEF UINT16
<1>5. WroteOk
  BY DEF Init, WroteOk
<1> QED
  BY <1>1, <1>2, <1>3, <1>4, <1>5 DEF Init, TypeOK, PC

(* Every step keeps the types: UINT16 tails, even after a race. *)
LEMMA TypeStep == TypeOK /\ WroteOk /\ [Next]_vars => TypeOK' /\ WroteOk'
<1> SUFFICES ASSUME TypeOK, WroteOk, [Next]_vars PROVE TypeOK' /\ WroteOk'
  OBVIOUS
<1>a. /\ BufSize \in Nat /\ BufSize > 0 /\ BufSize <= 32767
      /\ \A n \in Sizes : n \in Nat
  BY BufSizeAssumption, SizesAssumption
<1>b. /\ rt \in Nat /\ rt <= 65535 /\ wt \in Nat /\ wt <= 65535
      /\ wseen \in Nat /\ wseen <= 65535 /\ rseen \in Nat /\ rseen <= 65535
      /\ wsize \in Nat /\ rsize \in Nat
      /\ sent \in Nat /\ wcirc \in {"same", "lap"} /\ rcirc \in {"same", "lap"}
  BY DEF TypeOK, UINT16
<1>c. WriteCount \in Int /\ ReadCount \in Int
  BY <1>a, <1>b DEF WriteCount, Room, TailBlock, HeadBlock, ReadCount, Data, ReadTailBlock
<1>1. ASSUME NEW n \in Sizes, WriteFullTest(n) PROVE TypeOK' /\ WroteOk'
  BY <1>1, <1>a DEF TypeOK, WroteOk, PC, WriteFullTest, rcall, hist
<1>2. ASSUME NEW n \in Sizes, ReadEmptyTest(n) PROVE TypeOK' /\ WroteOk'
  BY <1>2, <1>a DEF TypeOK, WroteOk, PC, ReadEmptyTest, wcall, hist, WriteCount, Room, TailBlock, HeadBlock
<1>3. CASE WriteBranch
  BY <1>3, <1>a DEF TypeOK, WroteOk, PC, WriteBranch, rcall, hist
<1>4. CASE WriteLeft
  BY <1>4, <1>a DEF TypeOK, WroteOk, PC, WriteLeft, rcall, hist
<1>5. CASE WriteCopy
  <2>1. mem' \in [Index -> Nat]
    <3>1. CASE WildWrite
      BY <1>5, <3>1 DEF TypeOK, WriteCopy
    <3>2. CASE ~WildWrite
      <4> DEFINE K(i) == IF i >= wt THEN i - wt ELSE i - wt + BufSize
      <4>1. ASSUME NEW i \in Index PROVE K(i) < WriteCount => sent + K(i) + 1 \in Nat
        <5>1. TailBlock >= 0 => K(i) \in Nat
          BY <1>a, <1>b DEF Index, TailBlock
        <5>2. TailBlock < 0 => wcirc = "same"
          BY <3>2, <1>b DEF WildWrite
        <5>3. wcirc = "same" => wt + WriteCount <= BufSize /\ WriteCount >= 0
          BY <3>2, <1>a, <1>b DEF WildWrite, WriteCount, Room, TailBlock, HeadBlock
        <5> QED
          BY <5>1, <5>2, <5>3, <1>a, <1>b, <1>c DEF TailBlock
      <4>2. mem' = [i \in Index |-> IF K(i) < WriteCount THEN sent + K(i) + 1 ELSE mem[i]]
        BY <1>5, <3>2 DEF WriteCopy
      <4> HIDE DEF K
      <4> QED
        BY <4>1, <4>2 DEF TypeOK
    <3> QED
      BY <3>1, <3>2
  <2>2. ~WildWrite => WriteCount >= 0
    BY <1>a, <1>b DEF WildWrite, WriteCount, Room, TailBlock, HeadBlock
  <2>3. WriteCount' = WriteCount
    BY <1>5 DEF WriteCopy, WriteCount, Room, TailBlock, HeadBlock
  <2>4. WroteOk'
    <3>1. wild' <=> WildWrite
      BY <1>5 DEF WriteCopy
    <3> QED
      BY <2>2, <2>3, <3>1 DEF WroteOk
  <2>5. wild' \in BOOLEAN
    BY <1>5 DEF WriteCopy, WildWrite
  <2> QED
    BY <1>5, <2>1, <2>4, <2>5 DEF TypeOK, PC, WriteCopy, rcall, hist
<1>6. CASE WritePublish
  <2>1. wt' \in UINT16
    BY <1>6, <1>a, <1>b DEF WritePublish, NewWriteTail, Room, TailBlock, HeadBlock, UINT16
  <2>2. sent' \in Nat
    BY <1>6, <1>a, <1>b DEF WritePublish, WroteOk, WriteCount, Room, TailBlock, HeadBlock
  <2> QED
    BY <1>6, <2>1, <2>2 DEF TypeOK, PC, WroteOk, WritePublish, rcall
<1>7. CASE ReadBranch
  BY <1>7, <1>a DEF TypeOK, WroteOk, PC, ReadBranch, wcall, hist, WriteCount, Room, TailBlock, HeadBlock
<1>8. CASE ReadLeft
  BY <1>8, <1>a DEF TypeOK, WroteOk, PC, ReadLeft, wcall, hist, WriteCount, Room, TailBlock, HeadBlock
<1>9. CASE ReadCopy
  <2>1. rdata' \in Seq(Nat)
    <3>1. CASE WildRead
      BY <1>9, <3>1 DEF ReadCopy
    <3>2. CASE ~WildRead
      <4>1. ReadCount \in Nat
        BY <3>2, <1>a, <1>b DEF WildRead, ReadCount, Data, ReadTailBlock
      <4>2. \A k \in 1 .. ReadCount : mem[Wrap(rt + k - 1)] \in Nat
        <5> SUFFICES ASSUME NEW k \in 1 .. ReadCount PROVE Wrap(rt + k - 1) \in Index
          BY DEF TypeOK
        <5> QED
          BY <3>2, <4>1, <1>a, <1>b DEF WildRead, ReadCount, Data, ReadTailBlock, Wrap, Index
      <4> QED
        BY <1>9, <3>2, <4>1, <4>2 DEF ReadCopy
    <3> QED
      BY <3>1, <3>2
  <2> QED
    BY <1>9, <2>1 DEF TypeOK, WroteOk, PC, ReadCopy, wcall, hist, WildRead, WriteCount, Room, TailBlock, HeadBlock
<1>10. CASE ReadPublish
  <2>1. rt' \in UINT16
    BY <1>10, <1>a, <1>b DEF ReadPublish, NewReadTail, Data, ReadTailBlock, UINT16
  <2>2. got' \in Seq(Nat) /\ rdata' \in Seq(Nat)
    BY <1>10 DEF TypeOK, ReadPublish
  <2> QED
    BY <1>10, <2>1, <2>2 DEF TypeOK, PC, ReadPublish, wcall, WroteOk, WriteCount, Room, TailBlock, HeadBlock
<1>11. CASE UNCHANGED vars
  BY <1>11 DEF TypeOK, WroteOk, vars, wcall, rcall, hist, WriteCount, Room, TailBlock, HeadBlock
<1> QED
  BY <1>1, <1>2, <1>3, <1>4, <1>5, <1>6, <1>7, <1>8, <1>9, <1>10, <1>11
     DEF Next, WriteStep, ReadStep

(* TypeOK is an invariant of the ring for every size and interleaving. *)
THEOREM TypeCorrect == Spec => [](TypeOK /\ WroteOk)
  BY TypeInit, TypeStep, PTL DEF Spec

-----------------------------------------------------------------------------
(* The numbers behind the types. *)
LEMMA Nums ==
    TypeOK => /\ BufSize \in Nat /\ BufSize > 0 /\ BufSize <= 32767
              /\ rt \in Nat /\ wt \in Nat /\ wseen \in Nat /\ rseen \in Nat
              /\ wsize \in Nat /\ rsize \in Nat /\ sent \in Nat
              /\ wcirc \in {"same", "lap"} /\ rcirc \in {"same", "lap"}
  BY BufSizeAssumption DEF TypeOK, UINT16

(* Calls that do not overlap stay inside the ring. *)
LEMMA SeqStep == TypeOK /\ ~met' /\ SeqInv /\ [Next]_vars => SeqInv'
<1> SUFFICES ASSUME TypeOK, ~met', SeqInv, [Next]_vars PROVE SeqInv'
  OBVIOUS
<1>a. /\ BufSize \in Nat /\ BufSize > 0 /\ BufSize <= 32767
      /\ rt \in Nat /\ wt \in Nat /\ wseen \in Nat /\ rseen \in Nat
      /\ wsize \in Nat /\ rsize \in Nat /\ sent \in Nat
      /\ wcirc \in {"same", "lap"} /\ rcirc \in {"same", "lap"}
  BY Nums
<1>1. ASSUME NEW n \in Sizes, WriteFullTest(n) PROVE SeqInv'
  <2>1. rpc = "idle"
    BY <1>1, Zenon DEF WriteFullTest
  <2> QED
    BY <1>1, <1>a, <2>1 DEF SeqInv, SeqWrite, SeqRead, Index, WriteFullTest, rcall
<1>2. ASSUME NEW n \in Sizes, ReadEmptyTest(n) PROVE SeqInv'
  <2>1. wpc = "idle"
    BY <1>2, Zenon DEF ReadEmptyTest
  <2> QED
    BY <1>2, <1>a, <2>1 DEF SeqInv, SeqWrite, SeqRead, Index, ReadEmptyTest, wcall
<1>3. CASE WriteBranch
  BY <1>3, <1>a DEF SeqInv, SeqWrite, SeqRead, Index, WriteBranch, rcall
<1>4. CASE WriteLeft
  BY <1>4, <1>a DEF SeqInv, SeqWrite, SeqRead, Index, WriteLeft, rcall
<1>5. CASE WriteCopy
  <2>1. ~WildWrite
    BY <1>5, <1>a DEF WriteCopy, WildWrite, SeqInv, SeqWrite, Index, WriteCount, Room, TailBlock, HeadBlock
  <2> QED
    BY <1>5, <2>1 DEF SeqInv, SeqWrite, SeqRead, WriteCopy, rcall
<1>6. CASE WritePublish
  <2>1. wt' \in Index
    BY <1>6, <1>a DEF WritePublish, NewWriteTail, SeqInv, SeqWrite, Index, Room, TailBlock, HeadBlock
  <2> QED
    BY <1>6, <2>1 DEF SeqInv, SeqWrite, SeqRead, WritePublish, rcall
<1>7. CASE ReadBranch
  BY <1>7, <1>a DEF SeqInv, SeqWrite, SeqRead, Index, ReadBranch, wcall
<1>8. CASE ReadLeft
  BY <1>8, <1>a DEF SeqInv, SeqWrite, SeqRead, Index, ReadLeft, wcall
<1>9. CASE ReadCopy
  <2>1. ~WildRead
    BY <1>9, <1>a DEF ReadCopy, WildRead, SeqInv, SeqRead, Index, ReadCount, Data, ReadTailBlock
  <2> QED
    BY <1>9, <2>1 DEF SeqInv, SeqWrite, SeqRead, ReadCopy, wcall
<1>10. CASE ReadPublish
  <2>1. rt' \in Index
    BY <1>10, <1>a DEF ReadPublish, NewReadTail, SeqInv, SeqRead, Index, Data, ReadTailBlock
  <2> QED
    BY <1>10, <2>1 DEF SeqInv, SeqWrite, SeqRead, ReadPublish, wcall
<1>11. CASE UNCHANGED vars
  BY <1>11 DEF SeqInv, SeqWrite, SeqRead, vars, wcall, rcall
<1> QED
  BY <1>1, <1>2, <1>3, <1>4, <1>5, <1>6, <1>7, <1>8, <1>9, <1>10, <1>11
     DEF Next, WriteStep, ReadStep

(* InBounds: the copies of calls that do not overlap stay inside the       *)
(* buffer of channel_buf.c, for every buffer size and every request.       *)
THEOREM InBoundsCorrect == Spec => []InBounds
<1>1. Init => (~met => SeqInv)
  BY BufSizeAssumption DEF Init, SeqInv, SeqWrite, SeqRead, Index
<1>2. TypeOK /\ (~met => SeqInv) /\ [Next]_vars => (~met => SeqInv)'
  <2>1. TypeOK /\ [Next]_vars /\ ~met' => ~met
    BY DEF TypeOK, Next, WriteStep, ReadStep, WriteFullTest, WriteBranch, WriteLeft, WriteCopy,
           WritePublish, ReadEmptyTest, ReadBranch, ReadLeft, ReadCopy, ReadPublish, vars, hist
  <2> QED
    BY <2>1, SeqStep
<1>3. (~met => SeqInv) => InBounds
  BY DEF SeqInv, InBounds
<1> QED
  BY <1>1, <1>2, <1>3, TypeCorrect, PTL DEF Spec
-----------------------------------------------------------------------------
(* A step that neither laps nor races keeps the ring a FIFO. *)
LEMMA GoodStep ==
    ASSUME TypeOK, TypeOK', WroteOk, ~lapped /\ ~raced => Good, [Next]_vars,
           ~lapped', ~raced'
    PROVE  Good'
<1>a. /\ BufSize \in Nat /\ BufSize > 0 /\ BufSize <= 32767
      /\ rt \in Nat /\ wt \in Nat /\ wseen \in Nat /\ rseen \in Nat
      /\ wsize \in Nat /\ rsize \in Nat /\ sent \in Nat
      /\ wcirc \in {"same", "lap"} /\ rcirc \in {"same", "lap"}
      /\ got \in Seq(Nat) /\ Len(got) \in Nat
  BY Nums DEF TypeOK
<1>g. ~lapped /\ ~raced
  <2>1. CASE UNCHANGED <<lapped, raced>>
    BY <2>1
  <2>2. CASE WriteLeft \/ ReadLeft \/ ReadPublish
    <3>1. lapped' = lapped
      BY <2>2 DEF WriteLeft, ReadLeft, ReadPublish, hist
    <3>2. CASE WriteLeft
      BY <3>1, <3>2 DEF WriteLeft
    <3>3. CASE ReadLeft
      BY <3>1, <3>3 DEF ReadLeft
    <3>4. CASE ReadPublish
      <4>1. raced' = (raced \/ (rsize >= Data /\ wt # rseen))
        BY <3>4 DEF ReadPublish
      <4> QED
        BY <3>1, <4>1
    <3> QED
      BY <2>2, <3>2, <3>3, <3>4
  <2>3. CASE WritePublish
    BY <2>3 DEF WritePublish
  <2>4. \/ UNCHANGED <<lapped, raced>>
        \/ WriteLeft \/ ReadLeft \/ ReadPublish \/ WritePublish
    BY DEF Next, WriteFullTest, ReadEmptyTest, WriteStep, ReadStep, WriteBranch,
           WriteCopy, ReadBranch, ReadCopy, vars, hist
  <2> QED
    BY <2>1, <2>2, <2>3, <2>4
<1>h. Good
  BY <1>g
<1>b. rt < BufSize /\ wt < BufSize /\ Occupied \in Nat /\ Occupied < BufSize
  BY <1>a, <1>h DEF Good, Index, Occupied
<1>1. ASSUME NEW n \in Sizes, WriteFullTest(n) PROVE Good'
  BY <1>1, <1>h DEF Good, WriteFullTest, rcall, hist, IsFifo, Content, Occupied, Free,
        WriterSees, WriterCopied, ReaderSees, ReaderCopied, Data, ReadTailBlock, ReadCount
<1>2. ASSUME NEW n \in Sizes, ReadEmptyTest(n) PROVE Good'
  BY <1>2, <1>h DEF Good, ReadEmptyTest, wcall, hist, IsFifo, Content, Occupied, Free,
        WriterSees, WriterCopied, ReaderSees, ReaderCopied, Room, TailBlock, HeadBlock, WriteCount
<1>3. CASE WriteBranch
  BY <1>3, <1>h DEF Good, WriteBranch, rcall, hist, IsFifo, Content, Occupied, Free,
        WriterSees, WriterCopied, ReaderSees, ReaderCopied, Data, ReadTailBlock, ReadCount
<1>4. CASE WriteLeft
  <2>0. wcirc = "same" <=> rt > wt
    BY <1>4 DEF WriteLeft
  <2>1. WriterSees'
    BY <1>4, <2>0, <1>a, <1>b DEF WriteLeft, WriterSees, Occupied, Free, Room, TailBlock, HeadBlock
  <2> QED
    BY <1>4, <1>h, <2>1 DEF Good, WriteLeft, rcall, hist, IsFifo, Content, Occupied,
        WriterCopied, ReaderSees, ReaderCopied, Data, ReadTailBlock, ReadCount
<1>5. CASE WriteCopy
  <2>1. WriterSees /\ WriterSees'
    BY <1>5, <1>h DEF Good, WriteCopy, WriterSees, Occupied, Free, Room, TailBlock, HeadBlock
  <2>2. WriteCount \in Nat /\ WriteCount <= BufSize - Occupied /\ ~WildWrite
    BY <1>5, <2>1, <1>a, <1>b DEF WriterSees, WriteCopy, WriteCount, Room, TailBlock, HeadBlock,
          Free, Occupied, WildWrite
  <2> DEFINE K(i) == IF i >= wt THEN i - wt ELSE i - wt + BufSize
  <2>3. mem' = [i \in Index |-> IF K(i) < WriteCount THEN sent + K(i) + 1 ELSE mem[i]]
    BY <1>5, <2>2 DEF WriteCopy
  <2>4. ASSUME NEW k \in Nat, k < Occupied
        PROVE  mem'[Wrap(rt + k)] = mem[Wrap(rt + k)]
    <3>1. Wrap(rt + k) \in Index /\ K(Wrap(rt + k)) >= BufSize - Occupied
      BY <2>4, <1>a, <1>b DEF Wrap, Index, Occupied
    <3>2. K(Wrap(rt + k)) \in Int
      BY <3>1, <1>a, <1>b DEF Index
    <3> HIDE DEF K
    <3>3. ~(K(Wrap(rt + k)) < WriteCount)
      BY <3>1, <3>2, <2>2, <1>a, <1>b
    <3> QED
      BY <2>3, <3>1, <3>3
  <2>5. ASSUME NEW k \in Nat, k < WriteCount
        PROVE  mem'[Wrap(wt + k)] = sent + k + 1
    <3>1. Wrap(wt + k) \in Index /\ K(Wrap(wt + k)) = k
      BY <2>5, <2>2, <1>a, <1>b DEF Wrap, Index
    <3> HIDE DEF K
    <3> QED
      BY <2>3, <2>5, <3>1
  <2> HIDE DEF K
  <2>6. WriterCopied'
    BY <1>5, <2>5 DEF WriteCopy, WriterCopied, WriteCount, Room, TailBlock, HeadBlock, hist, Wrap
  <2>7. Content'
    BY <1>5, <1>h, <2>4 DEF Good, WriteCopy, Content, Occupied, hist, Wrap
  <2>8. ~wild'
    BY <1>5, <2>2 DEF WriteCopy
  <2> QED
    BY <1>5, <1>h, <2>1, <2>6, <2>7, <2>8 DEF Good, WriteCopy, rcall, hist, IsFifo, Occupied,
        ReaderSees, ReaderCopied, Data, ReadTailBlock, ReadCount
<1>6. CASE WritePublish
  <2>1. WriteCount \in Nat /\ WriteCount <= Free
    <3>1. WriteCount \in Nat
      BY <1>6, <1>a DEF WritePublish, WroteOk, WriteCount, Room, TailBlock, HeadBlock
    <3>2. ~(WriteCount > Free)
      BY <1>6 DEF WritePublish
    <3> QED
      BY <3>1, <3>2, <1>a, <1>b DEF Free
  <2>0. ~(wcirc = "same" /\ wsize >= Room /\ rt # wseen)
    BY <1>6 DEF WritePublish
  <2>2. wt' = Wrap(wt + WriteCount)
    BY <1>6, <1>h, <1>a, <1>b, <2>0, <2>1 DEF Good, WritePublish, NewWriteTail, Wrap, WriteCount, Room, TailBlock,
          HeadBlock, WriterSees, Free
  <2>3. wt' \in Index /\ Occupied' = Occupied + WriteCount
    BY <1>6, <2>1, <2>2, <1>a, <1>b DEF WritePublish, Wrap, Index, Free, Occupied
  <2>4. IsFifo'
    BY <1>6, <1>h, <2>1, <2>3, <1>a, <1>b DEF WritePublish, Good, IsFifo
  <2>5. Content'
    <3> SUFFICES ASSUME NEW k \in Nat, k < Occupied'
                 PROVE  mem[Wrap(rt + k)] = Len(got) + k + 1
      BY <1>6 DEF WritePublish, Content, Wrap
    <3>1. CASE k < Occupied
      BY <3>1, <1>h DEF Good, Content
    <3>2. CASE k >= Occupied
      <4>1. k - Occupied \in Nat /\ k - Occupied < WriteCount
        BY <3>2, <2>1, <2>3, <1>b
      <4>2. Wrap(wt + (k - Occupied)) = Wrap(rt + k)
        BY <4>1, <2>1, <1>a, <1>b DEF Wrap, Occupied, Free
      <4>3. mem[Wrap(wt + (k - Occupied))] = sent + (k - Occupied) + 1
        BY <1>6, <1>h, <4>1 DEF WritePublish, Good, WriterCopied
      <4>4. sent = Len(got) + Occupied
        BY <1>h DEF Good, IsFifo
      <4> QED
        BY <4>2, <4>3, <4>4, <1>a, <1>b
    <3> QED
      BY <3>1, <3>2, <1>b
  <2>6. ReaderSees' /\ ReaderCopied'
    <3>1. Data' = Data /\ ReadCount' = ReadCount
      BY <1>6 DEF WritePublish, rcall, Data, ReadTailBlock, ReadCount
    <3>2. rpc \in {"copy", "publish"} => Data \in Int
      BY <1>a DEF Data, ReadTailBlock
    <3>3. rt # wt => rt # wt'
      BY <2>1, <2>3, <1>a, <1>b, <1>6 DEF Occupied, Index, WritePublish
    <3> QED
      BY <1>6, <1>h, <2>1, <2>3, <3>1, <3>2, <3>3, <1>b
         DEF Good, WritePublish, rcall, ReaderSees, ReaderCopied
  <2> QED
    BY <1>6, <1>h, <2>3, <2>4, <2>5, <2>6 DEF Good, WritePublish, WriterSees, WriterCopied
<1>7. CASE ReadBranch
  BY <1>7, <1>h DEF Good, ReadBranch, wcall, hist, IsFifo, Content, Occupied, Free,
        WriterSees, WriterCopied, ReaderSees, ReaderCopied, Room, TailBlock, HeadBlock, WriteCount
<1>8. CASE ReadLeft
  <2>0. rcirc = "same" <=> rt < wt
    BY <1>8 DEF ReadLeft
  <2>1. ReaderSees'
    BY <1>8, <2>0, <1>h, <1>a, <1>b DEF Good, ReadLeft, ReaderSees, Occupied, Data, ReadTailBlock
  <2> QED
    BY <1>8, <1>h, <2>1 DEF Good, ReadLeft, wcall, hist, IsFifo, Content, Occupied, Free,
        WriterSees, WriterCopied, ReaderCopied, Room, TailBlock, HeadBlock, WriteCount
<1>9. CASE ReadCopy
  <2>1. ReadCount \in Nat /\ ReadCount <= Occupied /\ ~WildRead
    BY <1>9, <1>h, <1>a, <1>b DEF Good, ReadCopy, ReaderSees, ReadCount, Data, ReadTailBlock, WildRead
  <2>2. rdata' = [k \in 1 .. ReadCount |-> mem[Wrap(rt + k - 1)]]
    BY <1>9, <2>1 DEF ReadCopy
  <2>3. ASSUME NEW k \in 1 .. ReadCount PROVE mem[Wrap(rt + k - 1)] = Len(got) + k
    <3>1. k - 1 \in Nat /\ k - 1 < Occupied
      BY <2>1, <1>b
    <3>2. mem[Wrap(rt + (k - 1))] = Len(got) + (k - 1) + 1
      BY <3>1, <1>h DEF Good, Content
    <3>3. rt + (k - 1) = rt + k - 1 /\ Len(got) + (k - 1) + 1 = Len(got) + k
      BY <2>1, <1>a
    <3> QED
      BY <3>2, <3>3
  <2>4. Len(rdata') = ReadCount
    BY <2>1, <2>2
  <2>5. ReaderCopied'
    BY <1>9, <2>2, <2>3, <2>4 DEF ReadCopy, ReaderCopied, ReadCount, Data, ReadTailBlock, hist
  <2>6. ~wild'
    BY <1>9, <2>1 DEF ReadCopy
  <2> QED
    BY <1>9, <1>h, <2>5, <2>6 DEF Good, ReadCopy, wcall, hist, IsFifo, Content, Occupied, Free,
        WriterSees, WriterCopied, ReaderSees, Data, ReadTailBlock, Room, TailBlock, HeadBlock, WriteCount
<1>10. CASE ReadPublish
  <2>1. ReadCount \in Nat /\ ReadCount <= Occupied
    BY <1>10, <1>h, <1>a, <1>b DEF Good, ReadPublish, ReaderSees, ReadCount, Data, ReadTailBlock
  <2>0. ~(rsize >= Data /\ wt # rseen)
    BY <1>10 DEF ReadPublish
  <2>2. rt' = Wrap(rt + ReadCount)
    BY <1>10, <2>0, <1>h, <1>a, <1>b DEF Good, ReadPublish, NewReadTail, Wrap, ReadCount, Data, ReadTailBlock, ReaderSees
  <2>3. rt' \in Index /\ Occupied' = Occupied - ReadCount
    BY <1>10, <2>1, <2>2, <1>a, <1>b DEF ReadPublish, Wrap, Index, Occupied
  <2>4. /\ Len(rdata) = ReadCount /\ rdata \in Seq(Nat)
        /\ \A k \in 1 .. ReadCount : rdata[k] = Len(got) + k
    BY <1>10, <1>h DEF Good, ReadPublish, ReaderCopied, TypeOK
  <2>5. Len(got') = Len(got) + ReadCount
    BY <1>10, <2>4, <1>a DEF ReadPublish
  <2>6. \A k \in 1 .. Len(got') : got'[k] = k
    <3> SUFFICES ASSUME NEW k \in 1 .. Len(got') PROVE (got \o rdata)[k] = k
      BY <1>10 DEF ReadPublish
    <3>1. CASE k <= Len(got)
      BY <3>1, <1>h, <1>a, <2>4 DEF Good, IsFifo
    <3>2. CASE k > Len(got)
      <4>1. k - Len(got) \in 1 .. ReadCount
        BY <3>2, <2>5, <2>1, <1>a
      <4>2. (got \o rdata)[k] = rdata[k - Len(got)]
        BY <4>1, <3>2, <2>4, <2>5, <2>1, <1>a
      <4> QED
        BY <4>1, <4>2, <2>4, <1>a
    <3>3. k <= Len(got) \/ k > Len(got)
      BY <1>a, <2>5, <2>1
    <3> QED
      BY <3>1, <3>2, <3>3
  <2>7. IsFifo'
    BY <1>10, <1>h, <2>1, <2>3, <2>5, <2>6, <1>a, <1>b DEF ReadPublish, Good, IsFifo
  <2>8. Content'
    <3> SUFFICES ASSUME NEW k \in Nat, k < Occupied'
                 PROVE  mem[Wrap(rt' + k)] = Len(got') + k + 1
      BY <1>10 DEF ReadPublish, Content, Wrap
    <3>1. ReadCount + k \in Nat /\ ReadCount + k < Occupied
      BY <2>1, <2>3, <1>b
    <3>2. Wrap(rt' + k) = Wrap(rt + (ReadCount + k))
      BY <3>1, <2>1, <2>2, <1>a, <1>b DEF Wrap
    <3>3. mem[Wrap(rt + (ReadCount + k))] = Len(got) + (ReadCount + k) + 1
      BY <3>1, <1>h DEF Good, Content
    <3> QED
      BY <3>2, <3>3, <2>5, <2>1, <1>a
  <2>9. WriterSees' /\ WriterCopied'
    <3>1. Room' = Room /\ WriteCount' = WriteCount /\ Room \in Int
      BY <1>10, <1>a DEF ReadPublish, wcall, Room, TailBlock, HeadBlock, WriteCount
    <3>2. Free' = Free + ReadCount /\ Free \in Int
      BY <2>1, <2>3, <1>a, <1>b DEF Free
    <3> QED
      BY <1>10, <1>h, <2>1, <3>1, <3>2, <1>a DEF Good, ReadPublish, wcall, WriterSees, WriterCopied, Wrap
  <2> QED
    BY <1>10, <1>h, <2>3, <2>7, <2>8, <2>9 DEF Good, ReadPublish, ReaderSees, ReaderCopied
<1>11. CASE UNCHANGED vars
  BY <1>11, <1>h DEF Good, vars, wcall, rcall, hist, IsFifo, Content, Occupied, Free, WriterSees,
        WriterCopied, ReaderSees, ReaderCopied, Room, TailBlock, HeadBlock, WriteCount, Data,
        ReadTailBlock, ReadCount, Wrap
<1> QED
  BY <1>1, <1>2, <1>3, <1>4, <1>5, <1>6, <1>7, <1>8, <1>9, <1>10, <1>11
     DEF Next, WriteStep, ReadStep

(* FifoUntilLappedOrRaced: for every buffer size, every request size and   *)
(* every interleaving of the two unlocked ends, channel_buf.c delivers the *)
(* accepted bytes in order and complete, unless a write caught up with the *)
(* reader or a re-read tail had changed.                                   *)
THEOREM FifoCorrect == Spec => []FifoUntilLappedOrRaced
<1>1. Init => (~lapped /\ ~raced => Good)
  BY BufSizeAssumption
     DEF Init, Good, Index, IsFifo, Content, Occupied, WriterSees, WriterCopied, ReaderSees, ReaderCopied
<1>2. /\ TypeOK /\ WroteOk /\ (TypeOK /\ WroteOk)'
      /\ (~lapped /\ ~raced => Good) /\ [Next]_vars
      => (~lapped /\ ~raced => Good)'
  BY GoodStep
<1>3. (~lapped /\ ~raced => Good) => FifoUntilLappedOrRaced
  BY DEF Good, FifoUntilLappedOrRaced
<1> QED
  BY <1>1, <1>2, <1>3, TypeCorrect, PTL DEF Spec

-----------------------------------------------------------------------------
(* The message queue. *)

(* The lock: a putter between wrlock and unlock is the writer, and a       *)
(* writer excludes the reader.                                             *)
LockInv ==
    /\ \A p \in Putters : writer = p <=> ppc[p] \in {"count", "link", "unlock"}
    /\ writer # None => readers = {}

(* msg_num against the list: ahead of it between the two writes of putmsg, *)
(* behind it between the two writes of getmsg.                             *)
NumInv ==
    /\ \A p \in Putters : ppc[p] = "link" => num = Len(list) + 1
    /\ \A g \in Getters : gpc[g] = "unlink" => num = Len(list) - 1
    /\ (\A p \in Putters : ppc[p] # "link") /\ (\A g \in Getters : gpc[g] # "unlink")
          => num = Len(list)

(* The record a getter has picked is still the last one. *)
PickInv ==
    \A g \in Getters :
        /\ gpc[g] \in {"count", "unlink"} => list # <<>> /\ gmsg[g] = list[Len(list)]
        /\ gpc[g] = "unlock" => gmsg[g] \in Msgs

(* The messages on their way into the list are new and all different. *)
Coming(p) == ppc[p] \in {"lock", "count", "link"}

PutInv ==
    /\ \A p \in Putters : Coming(p) => pmsg[p] \in Msgs /\ pmsg[p] \notin Elems(put)
    /\ \A p, q \in Putters : Coming(p) /\ Coming(q) /\ pmsg[p] = pmsg[q] => p = q

MqInv == MqTypeOK /\ LockInv /\ NumInv /\ PickInv /\ PutInv /\ NothingLostOrDoubled

-----------------------------------------------------------------------------
(* Sequences. *)

LEMMA ElemsAppend ==
    ASSUME NEW S, NEW s \in Seq(S), NEW e \in S
    PROVE  /\ Elems(Append(s, e)) = Elems(s) \cup {e}
           /\ NoRepeats(s) /\ e \notin Elems(s) => NoRepeats(Append(s, e))
<1>1. /\ DOMAIN Append(s, e) = DOMAIN s \cup {Len(s) + 1}
      /\ \A i \in DOMAIN s : Append(s, e)[i] = s[i]
      /\ Append(s, e)[Len(s) + 1] = e
  OBVIOUS
<1>2. Elems(Append(s, e)) = Elems(s) \cup {e}
  BY <1>1 DEF Elems
<1>3. NoRepeats(s) /\ e \notin Elems(s) => NoRepeats(Append(s, e))
  BY <1>1 DEF Elems, NoRepeats
<1> QED BY <1>2, <1>3

(* Unlinking the last element of a list without repetitions. *)
LEMMA UnlinkLast ==
    ASSUME NEW S, NEW s \in Seq(S), s # <<>>, NoRepeats(s)
    PROVE  LET t == Unlink(s, s[Len(s)])
           IN  /\ t \in Seq(S) /\ Len(t) = Len(s) - 1
               /\ NoRepeats(t)
               /\ Elems(t) = Elems(s) \ {s[Len(s)]}
<1> DEFINE n == Len(s)
<1> DEFINE m == s[n]
<1>1. n \in Nat /\ n > 0 /\ DOMAIN s = 1 .. n /\ n \in DOMAIN s
  OBVIOUS
<1>2. m \in Elems(s)
  BY <1>1 DEF Elems
<1>3. (CHOOSE i \in DOMAIN s : s[i] = m) = n
  <2>1. \E i \in DOMAIN s : s[i] = m
    BY <1>1
  <2>2. (CHOOSE i \in DOMAIN s : s[i] = m) \in DOMAIN s
        /\ s[CHOOSE i \in DOMAIN s : s[i] = m] = m
    BY <2>1
  <2> QED BY <2>2, <1>1 DEF NoRepeats
<1> DEFINE t == [j \in 1 .. n - 1 |-> s[j]]
<1>4. Unlink(s, m) = t
  <2>1. Unlink(s, m) = [j \in 1 .. n - 1 |-> IF j < n THEN s[j] ELSE s[j + 1]]
    BY <1>2, <1>3 DEF Unlink
  <2>2. \A j \in 1 .. n - 1 : j < n
    BY <1>1
  <2> QED BY <2>1, <2>2
<1>5. t \in Seq(S) /\ Len(t) = n - 1 /\ DOMAIN t = 1 .. n - 1
  BY <1>1
<1>6. NoRepeats(t)
  BY <1>1, <1>5 DEF NoRepeats
<1>7. Elems(t) = Elems(s) \ {m}
  <2>1. 1 .. n = (1 .. n - 1) \cup {n} /\ n \notin 1 .. n - 1
    BY <1>1
  <2>2. \A j \in 1 .. n - 1 : s[j] # m /\ t[j] = s[j]
    BY <1>1, <2>1 DEF NoRepeats
  <2> QED BY <1>1, <1>5, <2>1, <2>2 DEF Elems
<1> QED BY <1>4, <1>5, <1>6, <1>7

LEMMA ListNonEmpty ==
    ASSUME NEW S, NEW s \in Seq(S), Len(s) # 0
    PROVE  s # <<>> /\ s[Len(s)] \in S /\ s[Len(s)] \in Elems(s)
BY DEF Elems

-----------------------------------------------------------------------------
LEMMA InitMqInv == MqInit => MqInv
<1> SUFFICES ASSUME MqInit PROVE MqInv
  OBVIOUS
<1>1. Elems(<<>>) = {} /\ NoRepeats(<<>>) /\ <<>> \in Seq(Msgs) /\ Len(<<>>) = 0
  BY DEF Elems, NoRepeats
<1>2. InHand = {}
  BY DEF MqInit, InHand
<1>3. MqTypeOK
  BY <1>1 DEF MqInit, MqTypeOK
<1>4. LockInv /\ PickInv /\ PutInv
  BY PuttersAssumption DEF MqInit, LockInv, PickInv, PutInv, Coming
<1>5. NumInv
  BY <1>1 DEF MqInit, NumInv
<1>6. NothingLostOrDoubled
  BY <1>1, <1>2 DEF MqInit, NothingLostOrDoubled
<1> QED BY <1>3, <1>4, <1>5, <1>6 DEF MqInv

(* The steps of a putter. *)
LEMMA PutStep ==
    ASSUME MqInv, NEW p \in Putters,
           (\E m \in Msgs : PutCall(p, m)) \/ Put(p)
    PROVE  MqInv'
<1> USE DEF MqInv
<1>i. ASSUME UNCHANGED getter PROVE InHand' = InHand
  BY <1>i DEF InHand, getter
<1>1. ASSUME NEW m \in Msgs, PutCall(p, m) PROVE MqInv'
  <2> USE <1>1 DEF PutCall, getter
  <2>1. MqTypeOK'
    BY DEF MqTypeOK
  <2>2. LockInv' /\ NumInv' /\ PickInv'
    BY DEF MqTypeOK, LockInv, NumInv, PickInv
  <2>3. PutInv'
    BY DEF MqTypeOK, PutInv, Coming, Used
  <2>4. NothingLostOrDoubled'
    BY <1>i DEF NothingLostOrDoubled
  <2> QED BY <2>1, <2>2, <2>3, <2>4
<1>2. CASE PutLock(p)
  <2> USE <1>2 DEF PutLock, getter
  <2>1. MqTypeOK'
    BY DEF MqTypeOK
  <2>2. LockInv' /\ NumInv' /\ PickInv'
    BY PuttersAssumption DEF MqTypeOK, LockInv, NumInv, PickInv
  <2>3. PutInv'
    BY DEF MqTypeOK, PutInv, Coming
  <2>4. NothingLostOrDoubled'
    BY <1>i DEF NothingLostOrDoubled
  <2> QED BY <2>1, <2>2, <2>3, <2>4
<1>3. CASE PutCount(p)
  <2> USE <1>3 DEF PutCount, getter
  <2>0. readers = {} /\ \A q \in Putters : q # p => ppc[q] \notin {"count", "link", "unlock"}
    BY PuttersAssumption DEF LockInv
  <2>1. MqTypeOK'
    BY DEF MqTypeOK
  <2>2. LockInv' /\ PickInv'
    BY DEF MqTypeOK, LockInv, PickInv
  <2>3. NumInv'
    BY <2>0 DEF MqTypeOK, NumInv
  <2>4. PutInv'
    BY DEF MqTypeOK, PutInv, Coming
  <2>5. NothingLostOrDoubled'
    BY <1>i DEF NothingLostOrDoubled
  <2> QED BY <2>1, <2>2, <2>3, <2>4, <2>5
<1>4. CASE PutLink(p)
  <2> USE <1>4 DEF PutLink, getter
  <2>0. readers = {} /\ \A q \in Putters : q # p => ppc[q] \notin {"count", "link", "unlock"}
    BY PuttersAssumption DEF LockInv
  <2>a. \A g \in Getters : gpc[g] = "idle"
    BY <2>0 DEF MqTypeOK
  <2>b. pmsg[p] \in Msgs /\ pmsg[p] \notin Elems(put)
    BY DEF PutInv, Coming
  <2>c. list \in Seq(Msgs) /\ put \in Seq(Msgs)
    BY DEF MqTypeOK
  <2>d. Elems(list') = Elems(list) \cup {pmsg[p]} /\ Elems(put') = Elems(put) \cup {pmsg[p]}
    BY <2>b, <2>c, ElemsAppend
  <2>1. MqTypeOK'
    BY <2>b, <2>c DEF MqTypeOK
  <2>2. LockInv' /\ PickInv'
    BY <2>a DEF MqTypeOK, LockInv, PickInv
  <2>3. NumInv'
    <3>1. Len(list') = Len(list) + 1 /\ num' = Len(list) + 1
      BY <2>c, <2>b DEF NumInv
    <3> QED BY <3>1, <2>0, <2>a DEF MqTypeOK, NumInv
  <2>4. PutInv'
    BY <2>d DEF MqTypeOK, PutInv, Coming
  <2>5. NothingLostOrDoubled'
    <3>1. NoRepeats(list')
      BY <2>b, <2>c, ElemsAppend DEF NothingLostOrDoubled
    <3> QED BY <3>1, <2>b, <2>d, <1>i DEF NothingLostOrDoubled
  <2> QED BY <2>1, <2>2, <2>3, <2>4, <2>5
<1>5. CASE PutUnlock(p)
  <2> USE <1>5 DEF PutUnlock, getter
  <2>0. \A q \in Putters : q # p => ppc[q] \notin {"count", "link", "unlock"}
    BY PuttersAssumption DEF LockInv
  <2>1. MqTypeOK'
    BY DEF MqTypeOK
  <2>2. LockInv' /\ NumInv' /\ PickInv'
    BY <2>0, PuttersAssumption DEF MqTypeOK, LockInv, NumInv, PickInv
  <2>3. PutInv'
    BY DEF MqTypeOK, PutInv, Coming
  <2>4. NothingLostOrDoubled'
    BY <1>i DEF NothingLostOrDoubled
  <2> QED BY <2>1, <2>2, <2>3, <2>4
<1> QED BY <1>1, <1>2, <1>3, <1>4, <1>5 DEF Put

(* The steps of the getter. *)
LEMMA GetStep ==
    ASSUME MqInv, NEW g \in Getters, Get(g)
    PROVE  MqInv'
<1> USE OneGetterAssumption DEF MqInv
<1>o. Getters = {g}
  OBVIOUS
<1>1. CASE GetLock(g)
  <2> USE <1>1 DEF GetLock, putter
  <2>1. MqTypeOK'
    BY DEF MqTypeOK
  <2>2. LockInv' /\ NumInv' /\ PickInv' /\ PutInv'
    BY DEF MqTypeOK, LockInv, NumInv, PickInv, PutInv, Coming
  <2>3. InHand' = InHand
    BY DEF MqTypeOK, InHand
  <2>4. NothingLostOrDoubled'
    BY <2>3 DEF NothingLostOrDoubled
  <2> QED BY <2>1, <2>2, <2>4
<1>2. CASE GetEmpty(g)
  <2> USE <1>2 DEF GetEmpty, putter
  <2>1. MqTypeOK'
    BY DEF MqTypeOK
  <2>2. LockInv' /\ NumInv' /\ PickInv' /\ PutInv'
    BY DEF MqTypeOK, LockInv, NumInv, PickInv, PutInv, Coming
  <2>3. InHand' = InHand
    BY DEF MqTypeOK, InHand
  <2>4. NothingLostOrDoubled'
    BY <2>3 DEF NothingLostOrDoubled
  <2> QED BY <2>1, <2>2, <2>4
<1>r. ASSUME gpc[g] # "idle" PROVE \A p \in Putters : ppc[p] \notin {"count", "link", "unlock"}
  BY <1>r, PuttersAssumption DEF MqTypeOK, LockInv
<1>3. CASE GetPick(g)
  <2> USE <1>3 DEF GetPick, putter
  <2>0. num = Len(list) /\ list \in Seq(Msgs)
    BY <1>o, <1>r DEF NumInv, MqTypeOK
  <2>a. list # <<>> /\ list[Len(list)] \in Msgs
    BY <2>0, ListNonEmpty
  <2>1. MqTypeOK'
    BY <2>a DEF MqTypeOK
  <2>2. LockInv' /\ PutInv'
    BY DEF MqTypeOK, LockInv, PutInv, Coming
  <2>b. NumInv' /\ PickInv'
    BY <2>a, <1>o DEF MqTypeOK, NumInv, PickInv
  <2>3. InHand' = InHand
    BY <1>o DEF MqTypeOK, InHand
  <2>4. NothingLostOrDoubled'
    BY <2>3 DEF NothingLostOrDoubled
  <2> QED BY <2>1, <2>2, <2>b, <2>4
<1>4. CASE GetCount(g)
  <2> USE <1>4 DEF GetCount, putter
  <2>0. num = Len(list) /\ list \in Seq(Msgs)
    BY <1>o, <1>r DEF NumInv, MqTypeOK
  <2>1. MqTypeOK'
    BY DEF MqTypeOK
  <2>2. LockInv' /\ PickInv' /\ PutInv'
    BY DEF MqTypeOK, LockInv, PickInv, PutInv, Coming
  <2>b. NumInv'
    BY <2>0, <1>o, <1>r DEF MqTypeOK, NumInv
  <2>3. InHand' = InHand
    BY <1>o DEF MqTypeOK, InHand
  <2>4. NothingLostOrDoubled'
    BY <2>3 DEF NothingLostOrDoubled
  <2> QED BY <2>1, <2>2, <2>b, <2>4
<1>5. CASE GetUnlink(g)
  <2> USE <1>5 DEF GetUnlink, putter
  <2>0. num = Len(list) - 1 /\ list \in Seq(Msgs) /\ list # <<>> /\ gmsg[g] = list[Len(list)]
    BY DEF NumInv, MqTypeOK, PickInv
  <2>a. /\ list' \in Seq(Msgs) /\ Len(list') = Len(list) - 1 /\ NoRepeats(list')
        /\ Elems(list') = Elems(list) \ {gmsg[g]}
    BY <2>0, UnlinkLast DEF NothingLostOrDoubled
  <2>c. gmsg[g] \in Msgs /\ gmsg[g] \in Elems(list)
    BY <2>0, ListNonEmpty
  <2>1. MqTypeOK'
    BY <2>a DEF MqTypeOK
  <2>2. LockInv' /\ PickInv' /\ PutInv'
    BY <2>c, <1>o DEF MqTypeOK, LockInv, PickInv, PutInv, Coming
  <2>b. NumInv'
    BY <2>0, <2>a, <1>o, <1>r DEF MqTypeOK, NumInv
  <2>3. InHand = {} /\ InHand' = {gmsg[g]}
    BY <1>o DEF MqTypeOK, InHand
  <2>4. NothingLostOrDoubled'
    BY <2>3, <2>a, <2>c DEF NothingLostOrDoubled
  <2> QED BY <2>1, <2>2, <2>b, <2>4
<1>6. CASE GetUnlock(g)
  <2> USE <1>6 DEF GetUnlock, putter
  <2>0. gmsg[g] \in Msgs /\ taken \in Seq(Msgs)
    BY DEF PickInv, MqTypeOK
  <2>3. InHand = {gmsg[g]} /\ InHand' = {}
    BY <1>o DEF MqTypeOK, InHand
  <2>a. /\ Elems(taken') = Elems(taken) \cup {gmsg[g]}
        /\ NoRepeats(taken')
    BY <2>0, <2>3, ElemsAppend DEF NothingLostOrDoubled
  <2>1. MqTypeOK'
    BY <2>0 DEF MqTypeOK
  <2>2. LockInv' /\ PickInv' /\ PutInv'
    BY <1>o DEF MqTypeOK, LockInv, PickInv, PutInv, Coming
  <2>b. NumInv'
    BY <1>o DEF MqTypeOK, NumInv
  <2>4. NothingLostOrDoubled'
    BY <2>3, <2>a DEF NothingLostOrDoubled
  <2> QED BY <2>1, <2>2, <2>b, <2>4
<1> QED BY <1>1, <1>2, <1>3, <1>4, <1>5, <1>6 DEF Get

LEMMA MqInvariant == MqSpec => []MqInv
<1>1. MqInv /\ UNCHANGED mqvars => MqInv'
  BY DEF mqvars, putter, getter, MqInv, MqTypeOK, LockInv, NumInv, PickInv, PutInv, Coming,
         NothingLostOrDoubled, InHand
<1>2. MqInv /\ [MqNext]_mqvars => MqInv'
  BY <1>1, PutStep, GetStep DEF MqNext
<1> QED BY InitMqInv, <1>2, PTL DEF MqSpec

(* message_queue_getmsg tests msg_num under the read lock; the number it   *)
(* sees is that of the list, whatever the putters are doing.               *)
THEOREM NumIsLengthCorrect == MqSpec => []NumIsLength
<1>1. MqInv => NumIsLength
  <2> SUFFICES ASSUME MqInv, NEW g \in Getters, gpc[g] = "test" PROVE num = Len(list)
    BY DEF NumIsLength
  <2>1. \A p \in Putters : ppc[p] # "link"
    BY PuttersAssumption DEF MqInv, MqTypeOK, LockInv
  <2>2. \A h \in Getters : gpc[h] # "unlink"
    BY OneGetterAssumption
  <2> QED BY <2>1, <2>2 DEF MqInv, NumInv
<1> QED BY MqInvariant, <1>1, PTL

(* No message that was put is lost, and none is handed out twice. *)
THEOREM NothingLostOrDoubledCorrect == MqSpec => []NothingLostOrDoubled
<1>1. MqInv => NothingLostOrDoubled
  BY DEF MqInv
<1> QED BY MqInvariant, <1>1, PTL

(* Putting and getting account for every message: the counter and the list *)
(* agree when getmsg tests them, and each message is in exactly one place. *)
THEOREM MqAccountedCorrect == MqSpec => []MqAccounted
<1>1. MqInv => MqTypeOK
  BY DEF MqInv
<1>2. MqTypeOK /\ NumIsLength /\ NothingLostOrDoubled => MqAccounted
  BY DEF MqAccounted
<1> QED BY MqInvariant, NumIsLengthCorrect, NothingLostOrDoubledCorrect, <1>1, <1>2, PTL
=============================================================================
