----------------------------- MODULE ConfigRead -----------------------------
(***************************************************************************)
(* The readers of the configuration files.  Each takes a file of JSON      *)
(* documents apart through a buffer of CfBuf (4096) characters:            *)
(*   define   read_json_file: record types for the database                *)
(*   plugin   the loop of main over plugin_config.cfg                      *)
(*   record   read_record_file: a head, then records for the database      *)
(*   msgfile  proc_msgfile_send: a head, then records that are sent        *)
(*   route    read_dispatch_file: policies of the router                   *)
(*   conn     connector_read_cfg: connectors                               *)
(* The first four seek back in the file to the end of the document, route  *)
(* fills its buffer up again, conn reads lines and counts what is left.    *)
(*                                                                         *)
(* A text is a sequence of marks: "{" and "}" of a map, "q" and "r" for    *)
(* the two halves of a member, " " and "n" (end of line) between them, "#" *)
(* for a comment, "0" for the terminator.  Lines are shorter than the 1024 *)
(* characters of MAX_LINE_LEN.                                             *)
(***************************************************************************)
EXTENDS Integers, Sequences, SequencesExt, FiniteSetsExt

CONSTANTS CfBuf,      \* size of a buffer
          CfShort,    \* the 32 characters of DIGEST_SIZE
          CfFiles,    \* files: [docs, lines]
          CfBad       \* documents that their handler rejects

Blank(c) == c \in {" ", "n"}
Bare(s) == SelectSeq(s, LAMBDA c : ~Blank(c))
Remark(line) == line # <<>> /\ line[1] = "#"

ASSUME CfAssumption ==
    /\ 2 <= CfShort /\ CfShort <= CfBuf
    /\ \A f \in CfFiles :
          Bare(FlattenSeq(SelectSeq(f.lines, LAMBDA l : ~Remark(l)))) = FlattenSeq(f.docs)

VARIABLE cf
(* file, reader; text: its characters; fit, plain: see CfFit; pos:         *)
(* characters or lines read; mem: the buffer; read: read_offset; left:     *)
(* leftlen, buffer_left; open: more may be read; got: documents handed     *)
(* out; kept: those accepted; sent: messages sent; mode: INT or SEP of     *)
(* msgfile; st: running, or how it ended                                   *)

-----------------------------------------------------------------------------
(* json_solve_str on a text: what it returns and the document; no document *)
(* for blanks only, a piece of one where the text ends early.              *)
Depth(s, i, j) == Cardinality({k \in i .. j : s[k] = "{"}) - Cardinality({k \in i .. j : s[k] = "}"})

Ends(s) == {j \in DOMAIN s : s[j] = "}" /\ Depth(s, 1, j) = 0}

SolveText(s) ==
    LET first == SelectInSeq(s, LAMBDA c : ~Blank(c))
    IN IF first = 0 THEN [ret |-> Len(s), doc |-> <<>>]
       ELSE IF s[first] # "{" \/ (Ends(s) = {} /\ Last(s) = "q") THEN [ret |-> -1, doc |-> <<>>]
       ELSE LET to == Min(Ends(s) \cup {Len(s)})
            IN [ret |-> to, doc |-> Bare(SubSeq(s, 1, to))]

Text(f) == FlattenSeq([k \in DOMAIN f.lines |-> Append(f.lines[k], "n")])
Upto(s, n) == SubSeq(s, 1, Min({n, Len(s)}))
Behind(s, n) == SubSeq(s, n + 1, Len(s))

(* What a handler makes of a document; a piece of one may pass. *)
Accepts(doc) ==
    IF doc = <<>> \/ doc \in CfBad THEN {FALSE}
    ELSE IF doc \in ToSet(cf.file.docs) THEN {TRUE} ELSE BOOLEAN

Got(doc) == IF doc = <<>> THEN cf.got ELSE Append(cf.got, doc)
Kept_Always(doc, ok) == Append(cf.kept, doc)

Kept(doc, ok) == IF ok THEN Append(cf.kept, doc) ELSE cf.kept

-----------------------------------------------------------------------------
(* read_json_node: its one outcome *)
ReadNode ==
    {IF Len(s) < 2 THEN [ret |-> 0, doc |-> <<>>] ELSE SolveText(s) :
        s \in {Upto(Behind(cf.text, cf.pos), CfBuf)}}

Stop(how) == cf' = [cf EXCEPT !.st = how]

(* read_json_file: the first document that is rejected, and the first      *)
(* short one behind another, ends it.                                      *)
DefineStep ==
    /\ cf.st = "run" /\ cf.reader = "define"
    /\ \E r \in ReadNode :
         IF r.ret <= 0 \/ (cf.got # <<>> /\ r.ret < CfShort)
         THEN Stop("end")
         ELSE \E ok \in Accepts(r.doc) :
                cf' = [cf EXCEPT !.pos = @ + r.ret, !.got = Got(r.doc), !.kept = Kept(r.doc, ok),
                                 !.st = IF ok THEN "run" ELSE "end"]

(* main: a plugin that cannot be read is left out. *)
PluginStep ==
    /\ cf.st = "run" /\ cf.reader = "plugin"
    /\ \E r \in ReadNode :
         IF r.ret <= 0 THEN Stop("end")
         ELSE \E ok \in Accepts(r.doc) :
                cf' = [cf EXCEPT !.pos = @ + r.ret, !.got = Got(r.doc), !.kept = Kept(r.doc, ok)]

(* read_record_file, proc_msgfile_send: the head names type and subtype.   *)
(* The mode is read by proc_msgfile_send only.                             *)
HeadStep ==
    /\ cf.st = "head"
    /\ \E r \in ReadNode :
         IF r.ret <= 0 THEN Stop("fail")
         ELSE \E ok \in Accepts(r.doc), m \in {"SEP", "INT"} :
                /\ cf.reader = "record" => m = "SEP"
                /\ cf' = [cf EXCEPT !.pos = @ + r.ret, !.got = Got(r.doc), !.mode = m,
                                    !.st = IF ok THEN "run" ELSE "fail"]

(* read_record_file: a record that is not accepted is left out. *)
RecordStep ==
    /\ cf.st = "run" /\ cf.reader = "record"
    /\ \E r \in ReadNode :
         IF r.ret <= 0 THEN Stop("end")
         ELSE \E ok \in Accepts(r.doc) :
                cf' = [cf EXCEPT !.pos = @ + r.ret, !.got = Got(r.doc), !.kept = Kept(r.doc, ok)]

(* the last message is never sent *)
MsgfileStep_Unsent ==
    /\ cf.st = "run" /\ cf.reader = "msgfile"
    /\ \E r \in ReadNode :
         IF r.ret <= 0 THEN Stop("end")
         ELSE \E ok \in Accepts(r.doc) :
                cf' = [cf EXCEPT !.pos = @ + r.ret, !.got = Got(r.doc), !.kept = Kept(r.doc, ok),
                                 !.sent = IF ok /\ cf.mode = "SEP" THEN Append(@, <<r.doc>>) ELSE @]

(* proc_msgfile_send: a message for each record, or one for them all. *)
MsgfileStep ==
    /\ cf.st = "run" /\ cf.reader = "msgfile"
    /\ \E r \in ReadNode :
         IF r.ret <= 0
         THEN cf' = [cf EXCEPT !.st = "end",
                               !.sent = IF cf.mode = "INT" /\ cf.kept # <<>> THEN <<cf.kept>> ELSE @]
         ELSE \E ok \in Accepts(r.doc) :
                cf' = [cf EXCEPT !.pos = @ + r.ret, !.got = Got(r.doc), !.kept = Kept(r.doc, ok),
                                 !.sent = IF ok /\ cf.mode = "SEP" THEN Append(@, <<r.doc>>) ELSE @]

-----------------------------------------------------------------------------
(* read_dispatch_file: the buffer is filled before the first document and  *)
(* after each; what is left of CfShort characters or fewer is not looked   *)
(* at, and neither is a short document.                                    *)
Refill_Once(rest) == rest

Refill(rest) ==
    IF cf.open THEN rest \o Upto(Behind(cf.text, cf.pos), CfBuf - Len(rest)) ELSE rest

RouteStep ==
    /\ cf.st = "run" /\ cf.reader = "route"
    /\ \E r \in {SolveText(cf.mem)} :
         IF Len(cf.mem) <= CfShort \/ r.ret < 0 THEN Stop("end")
         ELSE \E mem \in {Refill(Behind(cf.mem, r.ret))}, ok \in Accepts(r.doc) :
                cf' = [cf EXCEPT !.mem = mem,
                                 !.pos = @ + Len(mem) - (Len(cf.mem) - r.ret),
                                 !.open = @ /\ Len(mem) = CfBuf,
                                 !.got = IF r.ret < CfShort THEN @ ELSE Got(r.doc),
                                 !.kept = IF r.ret < CfShort THEN @ ELSE Kept(r.doc, ok),
                                 !.st = IF r.ret < CfShort \/ ok THEN "run" ELSE "end"]

-----------------------------------------------------------------------------
(* read_conn_cfg_buffer: whole lines, without the end of the line and      *)
(* without comments, as long as they fit.                                  *)
LineText(k) == IF Remark(cf.file.lines[k]) THEN <<>> ELSE cf.file.lines[k]
LinesText(k) == FlattenSeq([n \in 1 .. k |-> LineText(cf.pos + n)])

Taken(size) ==
    Max({k \in 0 .. Len(cf.file.lines) - cf.pos :
            Len(LinesText(k)) <= size /\ (k > 0 => Len(LinesText(k - 1)) < size)})

TooLong(size) ==
    \E k \in {Taken(size) + 1} :
        /\ cf.pos + k <= Len(cf.file.lines) /\ Len(LinesText(k - 1)) < size
        /\ Len(LineText(cf.pos + k)) > size

(* The buffer as a string *)
Terminated(mem) ==
    IF \E k \in DOMAIN mem : mem[k] = "0" THEN Upto(mem, SelectInSeq(mem, LAMBDA c : c = "0") - 1)
    ELSE mem

Written(mem, at, s) ==
    [k \in 1 .. CfBuf |-> IF k > at /\ k <= at + Len(s) THEN s[k - at] ELSE mem[k]]

(* The rest goes to the front, and a terminator behind it. *)
Moved(mem, ret, left) ==
    [k \in 1 .. CfBuf |-> IF k <= left THEN mem[k + ret] ELSE IF k = left + 1 THEN "0" ELSE mem[k]]

(* connector_read_cfg: read while the file is open, solve one document,    *)
(* make a connector of it.  read_offset keeps its last value when the file *)
(* is closed, and what was left before a reading is not added to it.       *)
ConnRead(mem, read, pos, open) ==
    \E s \in {Terminated(mem)} : \E r \in {SolveText(s)} :
      IF r.ret <= 0 THEN cf' = [cf EXCEPT !.st = IF cf.kept # <<>> THEN "end" ELSE "fail"]
      ELSE \E ok \in Accepts(r.doc) :
             LET left == read - r.ret
             IN cf' = [cf EXCEPT
                         !.got = Got(r.doc), !.kept = Kept(r.doc, ok),
                         !.read = read, !.left = left, !.pos = pos, !.open = open,
                         !.mem = IF left > 0 THEN Moved(mem, r.ret, left) ELSE mem,
                         !.st = IF ~ok THEN "fail" ELSE IF left <= 0 /\ ~open THEN "end"
                                ELSE IF left < 0 THEN "underrun" ELSE "run"]

(* the file is closed only when nothing came *)
ConnStep_Open ==
    /\ cf.st = "run" /\ cf.reader = "conn"
    /\ IF ~cf.open THEN ConnRead(cf.mem, cf.read, cf.pos, FALSE)
       ELSE \E size \in {CfBuf - cf.left} : \E k \in {Taken(size)} : \E new \in {LinesText(k)} :
              IF TooLong(size) THEN Stop("fail")
              ELSE \E mem \in {Written(cf.mem, cf.left, new)} :
                     ConnRead(mem, Len(new), cf.pos + k, Len(new) > 0)

ConnStep ==
    /\ cf.st = "run" /\ cf.reader = "conn"
    /\ IF ~cf.open THEN ConnRead(cf.mem, cf.read, cf.pos, FALSE)
       ELSE \E size \in {CfBuf - cf.left} : \E k \in {Taken(size)} : \E new \in {LinesText(k)} :
              IF TooLong(size) THEN Stop("fail")
              ELSE \E mem \in {Written(cf.mem, cf.left, new)} :
                     ConnRead(mem, Len(new), cf.pos + k, Len(new) = size)

-----------------------------------------------------------------------------
(* Which files fit a reader.  Seg(k): the characters from the end of the   *)
(* document before it to the end of document k.                            *)
Segs(s) ==
    LET ends == Ends(s) IN {j - Max({0} \cup {i \in ends : i < j}) : j \in ends}
LaterSegs(s) ==
    LET ends == Ends(s) IN {j - Max({i \in ends : i < j}) : j \in ends \ {Min(ends)}}
ConnText(f) == FlattenSeq(SelectSeq(f.lines, LAMBDA l : ~Remark(l)))

Plain(f) == \A k \in DOMAIN f.lines : ~Remark(f.lines[k])
NotTooLong(f) == Plain(f) /\ \A n \in Segs(Text(f)) : n <= CfBuf

CfFit(f, rd) ==
    \E s \in {Text(f)} :
      CASE rd = "conn" -> Len(ConnText(f)) < CfBuf /\ Last(ConnText(f)) = "}"
        [] rd = "define" -> NotTooLong(f) /\ \A n \in LaterSegs(s) : n >= CfShort
        [] rd = "route" -> /\ NotTooLong(f) /\ \A n \in Segs(s) : n >= CfShort
                           /\ Len(s) - Max({0} \cup (Ends(s) \ {Max(Ends(s))})) > CfShort
        [] OTHER -> NotTooLong(f)

-----------------------------------------------------------------------------
(* A file that cannot be opened has ended.  The buffer of connector_read_  *)
(* cfg is not initialised.                                                 *)
CfStart(f, rd, junk, there) ==
    LET start == Upto(Text(f), CfBuf)
    IN [file |-> f, reader |-> rd, text |-> Text(f), fit |-> CfFit(f, rd),
        plain |-> NotTooLong(f), read |-> 0, left |-> 0, got |-> <<>>, kept |-> <<>>,
        sent |-> <<>>, mode |-> "SEP",
        pos |-> IF rd = "route" THEN Len(start) ELSE 0,
        mem |-> CASE rd = "route" -> start [] rd = "conn" -> [k \in 1 .. CfBuf |-> junk]
                  [] OTHER -> <<>>,
        open |-> rd # "route" \/ Len(start) = CfBuf,
        st |-> IF ~there THEN "fail" ELSE IF rd \in {"record", "msgfile"} THEN "head" ELSE "run"]

CfInit ==
    \E f \in CfFiles, rd \in {"define", "plugin", "record", "msgfile", "route", "conn"},
       there \in BOOLEAN :
       \E junk \in IF rd = "conn" THEN {"0", "q", "}"} ELSE {"0"} : cf = CfStart(f, rd, junk, there)

CfNext ==
    DefineStep \/ PluginStep \/ HeadStep \/ RecordStep \/ MsgfileStep \/ RouteStep \/ ConnStep

CfFair == WF_cf(CfNext)

CfSpec == CfInit /\ [][CfNext]_cf /\ CfFair

-----------------------------------------------------------------------------
CfTypeOK ==
    /\ cf.st \in {"head", "run", "end", "fail", "underrun"}
    /\ cf.read \in 0 .. CfBuf /\ cf.left <= CfBuf /\ Len(cf.mem) <= CfBuf
    /\ Len(cf.kept) <= Len(cf.got)

(* Every reader hands the documents of a file that fits it to its handler  *)
(* in order, each once and whole, and comes to an end with any file        *)
(* (read_json_file, read_record_file, proc_msgfile_send, main,             *)
(* read_dispatch_file, connector_read_cfg).                                *)
DS == INSTANCE DocStream WITH
        DsBad <- CfBad,
        todo <- SubSeq(cf.file.docs, Len(cf.got) + 1, Len(cf.file.docs)),
        handed <- cf.got,
        over <- cf.st \notin {"head", "run"},
        fit <- cf.fit
CfImplementsStream == DS!DsSpec

(* Whatever else a file is like, a document that is not longer than the    *)
(* buffer of read_json_node and read_dispatch_file is never handed out in  *)
(* pieces, none is handed out twice, and none before an earlier one.       *)
CfNeverTorn ==
    (cf.reader # "conn" /\ cf.plain) =>
        \E on \in SUBSET (DOMAIN cf.file.docs) :
            cf.got = [k \in 1 .. Cardinality(on) |->
                        cf.file.docs[CHOOSE n \in on : Cardinality({m \in on : m < n}) = k - 1]]

(* proc_msgfile_send leaves no record that it accepted behind: when it has *)
(* read the file, the messages hold them in order, one in each or all in   *)
(* one message.                                                            *)
CfRecordsSent ==
    (cf.reader = "msgfile" /\ cf.st = "end") =>
        /\ FlattenSeq(cf.sent) = cf.kept
        /\ Len(cf.sent) = IF cf.mode = "INT" THEN Min({1, Len(cf.kept)}) ELSE Len(cf.kept)
        /\ cf.plain =>
             cf.kept = SelectSeq(Tail(cf.file.docs), LAMBDA d : d \notin CfBad)

(* No reader takes a piece of a document for a document where the file     *)
(* fits it, and msgfile_send sends each record it accepts once.            *)
CfDocsWhole ==
    /\ CfTypeOK /\ CfNeverTorn /\ CfRecordsSent
=============================================================================
