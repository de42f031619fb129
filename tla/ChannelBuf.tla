----------------------------- MODULE ChannelBuf -----------------------------
(***************************************************************************)
(* The ring buffer of cubelib/channel/channel_buf.c.                       *)
(*                                                                         *)
(* A CHANNEL owns two of these rings.  Each has exactly one writer thread  *)
(* (one end of the channel) and one reader thread (the other end), and no  *)
(* lock: the only synchronisation is the pair of UINT16 tails.  The        *)
(* library is built with -g and no -O, so every mention of a tail in the C *)
(* text is a load of its own, and a step of its own here.                  *)
(*                                                                         *)
(* A byte is modelled by its position in the stream of bytes the writer    *)
(* was told were accepted: 1, 2, 3, ...; 0 is memory never written.        *)
(***************************************************************************)
EXTENDS Integers, Sequences

CONSTANTS
    BufSize,    \* CHANNEL_BUF.bufsize
    Sizes,      \* the sizes callers ask for
    MaxBytes    \* bound: no new write once this many bytes were accepted

ASSUME BufSizeAssumption == BufSize \in Nat \ {0} /\ BufSize <= 32767
ASSUME SizesAssumption   == Sizes \subseteq Nat \ {0}
ASSUME MaxBytesAssumption == MaxBytes \in Nat

VARIABLES
    rt,         \* last_read_tail
    wt,         \* last_write_tail
    mem,        \* the bytes behind the header
    wpc, wsize, wcirc, wseen,           \* the write call in progress
    rpc, rsize, rcirc, rseen, rdata,    \* the read call in progress
    sent,       \* history: bytes whose acceptance was returned to the writer
    got,        \* history: the bytes handed to the reader, in order
    lapped,     \* history: a write put last_write_tail on or past the reader
    met,        \* history: a call began while the other end was inside one
    raced,      \* history: a re-read of the other side's tail changed the outcome
    wild        \* a copy had a negative length or left the buffer

(* A call keeps: where it is, the size asked for, the branch it took       *)
(* (wcirc, rcirc), and the value of the other side's tail it computed from *)
(* (wseen, rseen); its other locals are functions of these and of its own  *)
(* tail.                                                                   *)
wcall == <<wpc, wsize, wcirc, wseen>>
rcall == <<rpc, rsize, rcirc, rseen, rdata>>
hist  == <<sent, got, lapped, met>>
vars  == <<rt, wt, mem, wcall, rcall, hist, raced, wild>>

Index == 0 .. BufSize - 1

(* channel_buf_create: Dalloc0 clears the tails and the memory. *)
Init ==
    /\ rt = 0 /\ wt = 0
    /\ mem = [i \in Index |-> 0]
    /\ wpc = "idle" /\ wsize = 0 /\ wcirc = "lap" /\ wseen = 0
    /\ rpc = "idle" /\ rsize = 0 /\ rcirc = "lap" /\ rseen = 0 /\ rdata = <<>>
    /\ sent = 0 /\ got = <<>>
    /\ lapped = FALSE /\ met = FALSE /\ raced = FALSE /\ wild = FALSE

-----------------------------------------------------------------------------
(* The ring, as the tails define it. *)

Wrap(i) == IF i < BufSize THEN i ELSE i - BufSize

Occupied == IF rt <= wt THEN wt - rt ELSE wt - rt + BufSize

Free == BufSize - 1 - Occupied

-----------------------------------------------------------------------------
(* channel_buf_write *)

(* Lines 140-142: the full test, on entry (a full ring: the call returns 0 *)
(* and changes nothing).                                                   *)
WriteFullTest(n) ==
    /\ wpc = "idle" /\ ~wild
    /\ sent < MaxBytes
    /\ rt - 1 # wt
    /\ wpc' = "branch" /\ wsize' = n
    /\ met' = (met \/ rpc # "idle")
    /\ UNCHANGED <<rt, wt, mem, wcirc, wseen, rcall, sent, got, lapped, raced, wild>>

(* Line 144: which of the two layouts. *)
WriteBranch ==
    /\ wpc = "branch" /\ ~wild
    /\ wpc' = "left" /\ wcirc' = IF rt > wt THEN "same" ELSE "lap"
    /\ UNCHANGED <<rt, wt, mem, wsize, wseen, rcall, hist, raced, wild>>

(* Lines 147 and 172: last_read_tail is loaded again. *)
WriteLeft ==
    /\ wpc = "left" /\ ~wild
    /\ wpc' = "copy" /\ wseen' = rt
    /\ raced' = (raced \/ ~(wcirc = "same" <=> rt > wt))
    /\ UNCHANGED <<rt, wt, mem, wsize, wcirc, rcall, hist, wild>>

(* tail_block_size, head_block_size and left_data of lines 147-176. *)
TailBlock == BufSize - wt
HeadBlock == IF wseen - 1 < 0 THEN 0 ELSE wseen - 1
Room      == IF wcirc = "same" THEN wseen - 1 - wt ELSE TailBlock + HeadBlock

(* The number of bytes written, and returned. *)
WriteCount == IF wsize < Room THEN wsize ELSE Room

(* The Memcpy calls.  Memcpy takes an unsigned count, so a negative length *)
(* runs off the buffer.                                                    *)
WildWrite ==
    \/ wcirc = "same" /\ (WriteCount < 0 \/ wt + WriteCount > BufSize)
    \/ wcirc = "lap" /\ (TailBlock < 0 \/ WriteCount - TailBlock > BufSize)

WriteCopy ==
    /\ wpc = "copy" /\ ~wild
    /\ wild' = WildWrite
    /\ mem' = IF WildWrite THEN mem
              ELSE [i \in Index |->
                      LET k == IF i >= wt THEN i - wt ELSE i - wt + BufSize
                      IN  IF k < WriteCount THEN sent + k + 1 ELSE mem[i]]
    /\ wpc' = "publish"
    /\ UNCHANGED <<rt, wt, wsize, wcirc, wseen, rcall, hist, raced>>

(* Mutant: the clamp stops one byte late, on the read tail itself. *)
NewWriteTail_OnReader ==
    IF wcirc = "same"
    THEN IF wsize < Room THEN wt + wsize ELSE rt
    ELSE IF wsize < TailBlock THEN wt + wsize
         ELSE IF wsize < Room THEN wsize - TailBlock ELSE HeadBlock

(* Mutant: "<=" in the test for the tail block, so the tail is not wrapped. *)
NewWriteTail_NoWrap ==
    IF wcirc = "same"
    THEN IF wsize < Room THEN wt + wsize ELSE (rt - 1) % 65536
    ELSE IF wsize <= TailBlock THEN wt + wsize
         ELSE IF wsize < Room THEN wsize - TailBlock ELSE HeadBlock

(* Where the write leaves last_write_tail; lines 153, 161, 181, 193, 201.  *)
(* The clamped store of line 161 loads last_read_tail once more.           *)
NewWriteTail ==
    IF wcirc = "same"
    THEN IF wsize < Room THEN wt + wsize ELSE (rt - 1) % 65536
    ELSE IF wsize < TailBlock THEN wt + wsize
         ELSE IF wsize < Room THEN wsize - TailBlock ELSE HeadBlock

WritePublish ==
    /\ wpc = "publish" /\ ~wild
    /\ wt' = NewWriteTail
    /\ sent' = sent + WriteCount
    /\ lapped' = (lapped \/ WriteCount > Free)
    /\ raced' = (raced \/ (wcirc = "same" /\ wsize >= Room /\ rt # wseen))
    /\ wpc' = "idle"
    /\ UNCHANGED <<rt, mem, wsize, wcirc, wseen, rcall, got, met, wild>>

-----------------------------------------------------------------------------
(* channel_buf_read *)

(* Lines 80-81: the empty test, on entry (an empty ring: the call returns  *)
(* 0 and changes nothing).                                                 *)
ReadEmptyTest(n) ==
    /\ rpc = "idle" /\ ~wild
    /\ rt # wt
    /\ rpc' = "branch" /\ rsize' = n
    /\ met' = (met \/ wpc # "idle")
    /\ UNCHANGED <<rt, wt, mem, wcall, rcirc, rseen, rdata, sent, got, lapped, raced, wild>>

(* Line 83. *)
ReadBranch ==
    /\ rpc = "branch" /\ ~wild
    /\ rpc' = "left" /\ rcirc' = IF rt < wt THEN "same" ELSE "lap"
    /\ UNCHANGED <<rt, wt, mem, wcall, rsize, rseen, rdata, hist, raced, wild>>

(* Lines 85 and 103: last_write_tail is loaded again. *)
ReadLeft ==
    /\ rpc = "left" /\ ~wild
    /\ rpc' = "copy" /\ rseen' = wt
    /\ raced' = (raced \/ ~(rcirc = "same" <=> rt < wt))
    /\ UNCHANGED <<rt, wt, mem, wcall, rsize, rcirc, rdata, hist, wild>>

(* left_data and tail_block_size of lines 85 and 103-104. *)
ReadTailBlock == BufSize - rt
Data == IF rcirc = "same" THEN rseen - rt ELSE ReadTailBlock + rseen

(* The number of bytes read, and returned. *)
ReadCount == IF rsize < Data THEN rsize ELSE Data

(* The Memcpy calls out of the ring. *)
WildRead ==
    \/ rcirc = "same" /\ (ReadCount < 0 \/ rt + ReadCount > BufSize)
    \/ rcirc = "lap" /\ (ReadTailBlock < 0 \/ ReadCount - ReadTailBlock > BufSize)

ReadCopy ==
    /\ rpc = "copy" /\ ~wild
    /\ wild' = WildRead
    /\ rdata' = IF WildRead THEN <<>>
                ELSE [k \in 1 .. ReadCount |-> mem[Wrap(rt + k - 1)]]
    /\ rpc' = "publish"
    /\ UNCHANGED <<rt, wt, mem, wcall, rsize, rcirc, rseen, hist, raced>>

(* Where the read leaves last_read_tail; lines 89, 96, 108, 118, 125.  The *)
(* "took everything" stores load last_write_tail once more.                *)
NewReadTail ==
    IF rsize < Data
    THEN IF rcirc = "same" \/ rsize < ReadTailBlock THEN rt + rsize
                                           ELSE rsize - ReadTailBlock
    ELSE wt

ReadPublish ==
    /\ rpc = "publish" /\ ~wild
    /\ rt' = NewReadTail
    /\ got' = got \o rdata
    /\ raced' = (raced \/ (rsize >= Data /\ wt # rseen))
    /\ rpc' = "idle" /\ rdata' = <<>>
    /\ UNCHANGED <<wt, mem, wcall, rsize, rcirc, rseen, sent, lapped, met, wild>>

-----------------------------------------------------------------------------
WriteStep == WriteBranch \/ WriteLeft \/ WriteCopy \/ WritePublish
ReadStep  == ReadBranch \/ ReadLeft \/ ReadCopy \/ ReadPublish

Next ==
    \/ \E n \in Sizes : WriteFullTest(n) \/ ReadEmptyTest(n)
    \/ WriteStep
    \/ ReadStep

Spec == Init /\ [][Next]_vars

-----------------------------------------------------------------------------
(* Properties *)

UINT16 == {n \in Nat : n < 65536}
PC == {"idle", "branch", "left", "copy", "publish"}

(* Every variable keeps its type; the tails are UINT16. *)
TypeOK ==
    /\ rt \in UINT16 /\ wt \in UINT16
    /\ mem \in [Index -> Nat]
    /\ wpc \in PC /\ wsize \in Nat /\ wcirc \in {"same", "lap"} /\ wseen \in UINT16
    /\ rpc \in PC /\ rsize \in Nat /\ rcirc \in {"same", "lap"} /\ rseen \in UINT16
    /\ rdata \in Seq(Nat)
    /\ sent \in Nat /\ got \in Seq(Nat)
    /\ lapped \in BOOLEAN /\ met \in BOOLEAN /\ raced \in BOOLEAN /\ wild \in BOOLEAN

(* As long as channel_buf_read and channel_buf_write are called one after  *)
(* the other, they never copy outside the buffer and keep both tails       *)
(* inside it, whatever sizes are asked for and wherever the tails stand.   *)
InBounds == ~met => ~wild /\ rt \in Index /\ wt \in Index

(* The bytes handed to the reader are the bytes accepted from the writer,  *)
(* in order and without a gap, and the tails account for all the others.   *)
IsFifo ==
    /\ \A k \in 1 .. Len(got) : got[k] = k
    /\ sent = Len(got) + Occupied

(* What the two unlocked ends guarantee under every interleaving: the ring *)
(* is a FIFO, and no copy leaves it, until a write catches up with the     *)
(* reader (lapped) or one of the re-read tails changed under a call        *)
(* (raced).  No other interleaving is harmful.                             *)
FifoUntilLappedOrRaced == ~lapped /\ ~raced => IsFifo /\ ~wild

(* The comment "there is no space in buf_channel" (channel_buf.c:141) on   *)
(* the full test: a write that gets past it has room for a byte.  With     *)
(* last_read_tail at 0 the test compares -1 with an unsigned tail and      *)
(* never fires.                                                            *)
FullTestStopsWrite == wpc = "branch" => Free > 0
=============================================================================
