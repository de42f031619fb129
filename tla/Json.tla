-------------------------------- MODULE Json --------------------------------
(***************************************************************************)
(* The JSON reader and printer of json.c, and the text form of a message   *)
(* that message_output_json and json_2_message write and read with it.     *)
(*                                                                         *)
(* A text is a sequence of tokens [t, v, n]: the kind, the characters (a   *)
(* name that stands for them) and how many there are.  Strings are "str",  *)
(* "esc" (with an escaped quote inside) or "cut" (the text ends before the *)
(* closing quote); "num" and "neg" are numbers, "word" is any other run of *)
(* letters, "," stands for itself and " " for every other separator.       *)
(***************************************************************************)
EXTENDS Integers, Sequences, SequencesExt, FiniteSetsExt

CONSTANTS JsTexts,  \* texts somebody wrote
          JmMsgs,   \* messages: [known, crypt, blob, recs, exps, clear]
          JmReaders \* who reads them: [rec, exp], the types it has templates of

VARIABLE js  \* the run: see JsInit

Tok(t) == [t |-> t, v |-> "", n |-> 1]
Str(v) == [t |-> "str", v |-> v, n |-> 3]
Digits == <<"0", "1", "2", "3">>
Num(k) == [t |-> "num", v |-> Digits[k + 1], n |-> 1]

Name == 32     \* DIGEST_SIZE, the room for a name
Buffer == 512  \* value_buffer of json_solve_str

-----------------------------------------------------------------------------
(* Reading: one action per turn of the loop of json_solve_str *)

NewNode(father, type, name, val, pos) ==
    [father |-> father, type |-> type, name |-> name, val |-> val,
     kids |-> <<>>, no |-> 0, pos |-> pos]

Started(text) ==
    [text |-> text, at |-> 1, nodes |-> <<NewNode(0, "NULL", Tok(""), Tok(""), 1)>>, cur |-> 1]

At(j, i) == IF i <= Len(j.text) THEN j.text[i] ELSE Tok("end")

(* IsIgnoreChar: between a name and its value no comma may stand.          *)
Behind(j, i) == Min({k \in i .. Len(j.text) + 1 : At(j, k).t # " "})

Fail(j, why) == [j EXCEPT !.pc = why]

(* _new_json_node, at the tail of the current node's children              *)
WithChild(j, node) ==
    [j EXCEPT !.nodes = Append([@ EXCEPT ![j.cur].kids = Append(@, Len(j.nodes) + 1)], node)]

(* json_get_strvalue copies into value_buffer before anybody looks at the  *)
(* length: the limits of 770 and 514 characters come too late to matter.   *)
StringFault(tok) ==
    CASE tok.t = "cut"       -> "einval"
      [] tok.n - 1 > Buffer  -> "wild"
      [] OTHER               -> ""

(* json_get_numvalue wants a character behind the number; json_get_boolvalue*)
(* takes 1 for false as for true.                                          *)
ValueFault(j, i, type) ==
    LET tok == At(j, i)
    IN CASE tok.t \in {"str", "esc", "cut"} -> StringFault(tok)
         [] tok.t = "num" \/ (tok.t = "neg" /\ type = "MAP") ->
              IF tok.n < Name /\ At(j, i + 1).t \in {" ", ",", "}", "]"} THEN "" ELSE "einval"
         [] tok.t = "word" -> IF tok.v \in {"true", "false"} THEN "" ELSE "einval"
         [] OTHER -> "einval"

Value(tok) == IF tok.t = "word" THEN [tok EXCEPT !.v = "true", !.n = 4] ELSE tok

TypeOfValue(tok) ==
    CASE tok.t \in {"str", "esc"} -> "STRING" [] tok.t = "word" -> "BOOL" [] OTHER -> "NUM"

Opened(t) == IF t = "{" THEN "MAP" ELSE "ARRAY"
Closing(type) == IF type = "MAP" THEN "}" ELSE "]"

(* Mutant: the member a container becomes is not counted. *)
Close_Uncounted(j) == [j EXCEPT !.cur = j.nodes[j.cur].father, !.at = @ + 1]

Close(j) ==
    LET f == j.nodes[j.cur].father
    IN [j EXCEPT !.cur = f, !.at = @ + 1,
                 !.nodes = IF f = 0 THEN @ ELSE [@ EXCEPT ![f].no = @ + 1]]

(* A member of a map (named) or of an array, whose value stands at i       *)
Member(j, name, i) ==
    LET tok == At(j, i)
        fault == ValueFault(j, i, j.nodes[j.cur].type)
    IN IF tok.t \in {"{", "["}
       THEN [WithChild(j, NewNode(j.cur, Opened(tok.t), name, Tok(""), i))
                EXCEPT !.cur = Len(j.nodes) + 1, !.at = i + 1]
       ELSE IF fault # "" THEN Fail(j, fault)
       ELSE [WithChild(j, NewNode(j.cur, TypeOfValue(tok), name, Value(tok), i))
                EXCEPT !.at = i + 1, !.nodes[j.cur].no = @ + 1]

(* A name of 32 characters or more makes the function return its length,  *)
(* a success, without a tree.                                              *)
MapMember(j) ==
    LET name == At(j, j.at)
        colon == Behind(j, j.at + 1)
    IN CASE name.t \notin {"str", "esc", "cut"} -> Fail(j, "einval")
         [] StringFault(name) # "" -> Fail(j, StringFault(name))
         [] name.n >= Name -> Fail(j, "noroot")
         [] At(j, colon).t # ":" -> Fail(j, "einval")
         [] OTHER -> Member(j, name, Behind(j, colon + 1))

SolveIter(j) ==
    LET tok == At(j, j.at)
        type == j.nodes[j.cur].type
    IN CASE tok.t \in {",", " "} -> [j EXCEPT !.at = @ + 1]
         [] type = "NULL" /\ tok.t \in {"{", "["} ->
              [j EXCEPT !.nodes[j.cur].type = Opened(tok.t), !.at = @ + 1]
         [] type = "NULL" -> Fail(j, "einval")
         [] tok.t = Closing(type) -> Close(j)
         [] type = "MAP" -> MapMember(j)
         [] OTHER -> Member(j, Tok(""), j.at)

(* Mutant: a text that ends too early is taken to be closed. *)
Finished_Closed(j) == [j EXCEPT !.pc = "solved", !.cur = 0]

(* Mutant: the offset counts the character that ends the text. *)
Finished_Over(j) == [j EXCEPT !.pc = "solved", !.at = Len(j.text) + 2]

(* A text that ends inside a container is a success too.                   *)
Finished(j) == [j EXCEPT !.pc = "solved"]

Solve ==
    /\ js.pc = "solve"
    /\ js' = IF js.cur = 0 \/ js.at > Len(js.text) THEN Finished(js) ELSE SolveIter(js)

-----------------------------------------------------------------------------
(* The tree: printing and removing *)

(* A string is printed as it is held: an escaped quote ends it early.      *)
ValueText(val) == IF val.t = "esc" THEN <<Str("front"), Tok("word")>> ELSE <<val>>

NameText(n, type) == IF type = "MAP" THEN ValueText(n.name) \o <<Tok(":")>> ELSE <<>>

(* Mutant: nothing between the members. *)
Joined_Bare(ss) == FlattenSeq(ss)

Joined(ss) ==
    FlattenSeq([k \in DOMAIN ss |-> IF k = 1 THEN ss[k] ELSE <<Tok(",")>> \o ss[k]])

(* json_print_str prints as many children as elem_no counts, and fails     *)
(* where there are fewer.                                                  *)
PrintStr(nodes) ==
    LET text[i \in DOMAIN nodes] ==
          LET n == nodes[i]
              kid(k) == NameText(nodes[n.kids[k]], n.type) \o text[n.kids[k]]
          IN CASE n.type \notin {"MAP", "ARRAY"} -> ValueText(n.val)
               [] n.no \notin 0 .. Len(n.kids) -> <<Tok("error")>>
               [] OTHER -> <<Tok(IF n.type = "MAP" THEN "{" ELSE "[")>>
                           \o Joined([k \in 1 .. n.no |-> kid(k)])
                           \o <<Tok(Closing(n.type))>>
    IN text[1]

PrintTree ==
    /\ js.pc = "solved" /\ js.use = "text" /\ js.nodes[1].type # "NULL"
    /\ js' = [js EXCEPT !.out = PrintStr(js.nodes),
                        !.pc = IF \E k \in DOMAIN PrintStr(js.nodes) :
                                    PrintStr(js.nodes)[k].t = "error"
                               THEN "noprint" ELSE "printed"]

Kids(nodes, i) == IF i = 0 THEN <<>> ELSE nodes[i].kids

(* json_find_elem: the first member of that name of a map; 0 for NULL      *)
FindElem(nodes, i, v) ==
    LET kids == Kids(nodes, i)
        found == {k \in DOMAIN kids : nodes[kids[k]].name.v = v}
    IN IF found = {} \/ nodes[i].type # "MAP" THEN 0 ELSE kids[Min(found)]

(* Mutant: the count stays. *)
RemoveNode_Counted(nodes, i) ==
    [nodes EXCEPT ![nodes[i].father].kids = SelectSeq(@, LAMBDA k : k # i)]

RemoveNode(nodes, i) ==
    [nodes EXCEPT ![nodes[i].father].kids = SelectSeq(@, LAMBDA k : k # i),
                  ![nodes[i].father].no = @ - 1]

RemoveMember ==
    /\ js.pc = "solved" /\ js.use = "text" /\ js.round = 1
    /\ \E i \in DOMAIN js.nodes :
          /\ i \in Range(js.nodes[1].kids)
          /\ FindElem(js.nodes, 1, js.nodes[i].name.v) = i
          /\ js' = [js EXCEPT !.nodes = RemoveNode(@, i), !.round = 2]

(* What was printed is read again. *)
ReadAgain ==
    /\ js.pc = "printed" /\ js.round < 3
    /\ js' = Started(js.out) @@ [js EXCEPT !.pc = "solve", !.round = 3]

-----------------------------------------------------------------------------
(* Messages *)

Braced(members) == <<Tok("{")>> \o Joined(members) \o <<Tok("}")>>
Listed(items) == <<Tok("[")>> \o Joined(items) \o <<Tok("]")>>
Pair(name, value) == <<Str(name), Tok(":")>> \o value

(* A record, or an expand's structure, of two elements of equal value      *)
StructText(v) == Braced(<<Pair("f", <<Num(v)>>), Pair("g", <<Num(v)>>)>>)

(* Mutant: the counts are left to the reader. *)
HeadText_Bare(m) == Braced(<<Pair("tag", <<Str("MESG")>>)>>)

(* The clear form has the key elements alone, and no tag is among them.    *)
HeadText(m) ==
    Braced((IF m.clear THEN <<>> ELSE <<Pair("tag", <<Str("MESG")>>)>>)
           \o <<Pair("record_num", <<Num(Len(m.recs))>>), Pair("expand_num", <<Num(Len(m.exps))>>)>>)

RecordText(m) ==
    CASE (m.crypt \/ ~m.known) /\ m.blob -> Braced(<<Pair("BIN_FORMAT", <<Str("blob")>>)>>)
      [] (m.crypt \/ ~m.known) /\ ~m.blob -> Braced(<<Pair("EMPTY", <<Str("")>>)>>)
      [] OTHER -> Listed([k \in DOMAIN m.recs |-> StructText(m.recs[k])])

(* An expand held as a structure whose type is unknown is printed, but the *)
(* offset does not move and the next text overwrites it.                   *)
ExpandText(e) ==
    CASE e.kind = "bin" -> Braced(<<Pair("type", <<Num(1)>>), Pair("BIN_DATA", <<Num(e.v)>>)>>)
      [] e.kind = "def" -> Braced(<<Pair("type", <<Num(2)>>), Pair("expand", StructText(e.v))>>)
      [] OTHER -> <<>>

(* message_output_json, message_output_clear_json *)
MessageText(m) ==
    Braced(<<Pair("HEAD", HeadText(m)), Pair("RECORD", RecordText(m)),
             Pair("EXPAND", Listed([k \in DOMAIN m.exps |-> ExpandText(m.exps[k])]))>>)

Zero == Tok("zero")  \* an element that the text did not give

Elem(nodes, i, v) ==
    LET e == FindElem(nodes, i, v) IN IF e = 0 THEN Zero ELSE nodes[e].val

Count(tok) == IF \E k \in DOMAIN Digits : Digits[k] = tok.v
              THEN (CHOOSE k \in DOMAIN Digits : Digits[k] = tok.v) - 1 ELSE 0

Either(nodes, upper, lower) ==
    IF FindElem(nodes, 1, upper) # 0 THEN FindElem(nodes, 1, upper) ELSE FindElem(nodes, 1, lower)

Struct(nodes, i) == <<Elem(nodes, i, "f"), Elem(nodes, i, "g")>>

(* Mutant: one more is asked for. *)
Enough_Strict(num, kids) == num < Len(kids)

(* Every record, and every expand, that the head counts must be there.     *)
Enough(num, kids) == num <= Len(kids)

(* The head must be there, and its tag, if it has one, be "MESG".          *)
HeadGood(nodes, head) ==
    LET tag == FindElem(nodes, head, "tag")
    IN head # 0 /\ (tag = 0 \/ nodes[tag].val = Str("MESG"))

(* The records: a map holds them in binary form or none, an array num of   *)
(* them, if it has as many.                                                *)
RecordsRead(nodes, rec, num) ==
    LET kids == Kids(nodes, rec)
        array == rec # 0 /\ nodes[rec].type = "ARRAY"
    IN [ok |-> rec # 0 /\ kids # <<>> /\ (array => Enough(num, kids)),
        blob |-> kids # <<>> /\ ~array /\ nodes[kids[1]].name.v = "BIN_FORMAT",
        recs |-> IF array /\ Enough(num, kids)
                 THEN [k \in 1 .. num |-> Struct(nodes, kids[k])] ELSE <<>>]

(* The expands: one with an "expand" is a structure of a type that must be *)
(* known, any other has binary data.                                       *)
ExpandsRead(nodes, exp, num, known) ==
    LET kids == Kids(nodes, exp)
        Defined(k) == FindElem(nodes, kids[k], "expand")
    IN IF Enough(num, kids) /\ \A k \in 1 .. num : Defined(k) # 0 => known
       THEN [ok |-> TRUE,
             exps |-> [k \in 1 .. num |->
                          IF Defined(k) # 0 THEN Struct(nodes, Defined(k))
                          ELSE <<Elem(nodes, kids[k], "BIN_DATA")>>]]
       ELSE [ok |-> FALSE, exps |-> <<>>]

(* json_2_message and json_2_clear_message, when the tree is there         *)
ReadMessage(nodes, r) ==
    LET head == Either(nodes, "HEAD", "head")
        exp == Either(nodes, "EXPAND", "expand")
        records == RecordsRead(nodes, Either(nodes, "RECORD", "record"),
                               Count(Elem(nodes, head, "record_num")))
        expands == ExpandsRead(nodes, exp,
                               IF exp = 0 THEN 0 ELSE Count(Elem(nodes, head, "expand_num")),
                               r.exp)
    IN IF HeadGood(nodes, head) /\ r.rec /\ records.ok /\ expands.ok
       THEN [ok |-> TRUE, blob |-> records.blob, recs |-> records.recs, exps |-> expands.exps]
       ELSE [ok |-> FALSE, recs |-> <<>>, blob |-> FALSE, exps |-> <<>>]

Receive ==
    /\ js.pc = "solved" /\ js.use = "message"
    /\ \E r \in JmReaders :
          js' = [js EXCEPT !.pc = "read", !.reader = r, !.got = ReadMessage(js.nodes, r)]

-----------------------------------------------------------------------------
Nobody == [rec |-> FALSE, exp |-> FALSE]
NoMessage == [known |-> FALSE, crypt |-> FALSE, blob |-> FALSE, clear |-> FALSE,
              recs |-> <<>>, exps |-> <<>>]

JsStart(use, m, whole, end) ==
    Started(SubSeq(whole, 1, end)) @@
    [pc |-> "solve", use |-> use, msg |-> m, whole |-> whole, reader |-> Nobody,
     got |-> ReadMessage(Started(<<>>).nodes, Nobody), out |-> <<>>, round |-> 1]

JsInit ==
    \E use \in {"text", "message"} :
    \E m \in IF use = "text" THEN {NoMessage} ELSE JmMsgs :
    \E whole \in IF use = "text" THEN JsTexts ELSE {MessageText(m)} :
    \E end \in IF use = "text" THEN {Len(whole)} ELSE 1 .. Len(whole) :
        js = JsStart(use, m, whole, end)

JsNext == Solve \/ PrintTree \/ RemoveMember \/ ReadAgain \/ Receive

JsSpec == JsInit /\ [][JsNext]_js

-----------------------------------------------------------------------------
(* Properties *)

Nodes(j) == DOMAIN j.nodes

(* The cursor, the tree and the outcome stay in their ranges.              *)
JsTypeOK ==
    /\ js.pc \in {"solve", "solved", "einval", "wild", "noroot", "printed", "noprint", "read"}
    /\ js.at \in 1 .. Len(js.text) + 1 /\ js.cur \in 0 .. Len(js.nodes)
    /\ \A i \in Nodes(js) : /\ js.nodes[i].father \in 0 .. i - 1
                            /\ Range(js.nodes[i].kids) \subseteq i + 1 .. Len(js.nodes)

Opens(s) == Cardinality({k \in DOMAIN s : s[k].t \in {"{", "["}})
Closes(s) == Cardinality({k \in DOMAIN s : s[k].t \in {"}", "]"}})
Depth(s) == Opens(s) - Closes(s)

(* json_solve_str leaves the text behind exactly one complete value, which *)
(* is where the next message of a file begins, and the node it is working  *)
(* on lies as deep as brackets are open.                                   *)
JsStopsBehindValue ==
    LET above[i \in 0 .. Len(js.nodes)] ==
          IF i = 0 THEN 0 ELSE 1 + above[js.nodes[i].father]
    IN js.pc \in {"solve", "solved"} /\ js.nodes[1].type # "NULL" =>
         Depth(SubSeq(js.text, 1, js.at - 1)) = above[js.cur]

(* What the text says, without separators, and with false read as true     *)
Meant(s) == LET said == SelectSeq(s, LAMBDA x : x.t \notin {",", " "})
            IN [k \in DOMAIN said |-> Value(said[k])]

HasEscape(s) == \E k \in DOMAIN s : s[k].t = "esc"

(* Printing the tree of a complete text gives the text again, whatever the *)
(* nesting and the separators: no member is lost, doubled, renamed or      *)
(* moved to another container.                                             *)
JsPrintIsText ==
    js.pc = "printed" /\ js.round = 1 /\ js.cur = 0 /\ ~HasEscape(js.text) =>
        Meant(js.out) = Meant(SubSeq(js.text, 1, js.at - 1))

(* json_print_str can print every tree that was read, and one with a       *)
(* member removed; only a member that the text ends in is not counted, and *)
(* taking it away leaves a count below the children.                       *)
JsPrintable ==
    js.pc = "noprint" => js.round = 2 /\ js.cur > 1

(* What is printed can be read, and prints as it was, unless a value holds *)
(* a quote: of a text that broke off its complete members remain.          *)
JsPrintReadsBack ==
    js.round = 3 /\ ~HasEscape(js.whole) =>
        /\ js.pc \in {"solve", "solved", "printed"}
        /\ js.pc # "solve" => js.cur = 0 /\ js.at = Len(js.text) + 1
        /\ js.pc = "printed" => js.out = js.text

Given(v) == <<Num(v), Num(v)>>
Sent(m) == [ok |-> TRUE,
            blob |-> (m.crypt \/ ~m.known) /\ m.blob,
            recs |-> IF m.crypt \/ ~m.known THEN <<>>
                     ELSE [k \in DOMAIN m.recs |-> Given(m.recs[k])],
            exps |-> [k \in DOMAIN m.exps |-> IF m.exps[k].kind = "bin" THEN <<Num(m.exps[k].v)>>
                                              ELSE Given(m.exps[k].v)]]

Readable(m, r) ==
    /\ r.rec
    /\ m.recs # <<>> \/ m.crypt \/ ~m.known
    /\ \A k \in DOMAIN m.exps : m.exps[k].kind = "bin" \/ (m.exps[k].kind = "def" /\ r.exp)

(* A whole message in text form is read as it was written exactly if the   *)
(* reader knows the types, no expand was written of a type the writer does *)
(* not know, and there is a record: one without records cannot be read.    *)
JmReadsBack ==
    js.pc = "read" /\ js.text = js.whole =>
        IF Readable(js.msg, js.reader) THEN js.got = Sent(js.msg) ELSE ~js.got.ok

(* s is the front of t but for the last item, which may lack elements *)
FrontOf(s, t) ==
    /\ Len(s) = Len(t)
    /\ \A k \in 1 .. Len(s) - 1 : s[k] = t[k]
    /\ s # <<>> => \A e \in DOMAIN Last(s) : Last(s)[e] \in {Zero, Last(t)[e]}

(* A message whose text breaks off is accepted as soon as its counts are   *)
(* met: only the last record or the last expand, or all expands, can then  *)
(* be missing, and never a record while expands are there.                 *)
JmCutLosesTheEnd ==
    js.pc = "read" /\ js.got.ok =>
        /\ js.got.recs = <<>> \/ FrontOf(js.got.recs, Sent(js.msg).recs)
        /\ js.got.recs = <<>> => Sent(js.msg).recs = <<>>
        /\ js.got.exps # <<>> => /\ js.got.recs = Sent(js.msg).recs
                                 /\ FrontOf(js.got.exps, Sent(js.msg).exps)

(* json.c: a text is read to the end of its first value and no further,    *)
(* its tree is the text, and printing it gives a text that reads back      *)
(* (json_solve_str, json_print_str, json_remove_node).                     *)
JsTreeIsText ==
    /\ JsTypeOK /\ JsStopsBehindValue /\ JsPrintIsText
    /\ JsPrintable /\ JsPrintReadsBack

(* json_message.c: the JSON of a message is a message of the same content, *)
(* and of a cut one nothing behind the cut is taken.                       *)
JmMessagesReadBack == JmReadsBack /\ JmCutLosesTheEnd
=============================================================================
