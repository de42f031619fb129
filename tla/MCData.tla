------------------------------- MODULE MCData -------------------------------
(***************************************************************************)
(* The components whose properties are invariants of their own state: the  *)
(* match rules, the record database, the conversions of elements, JSON,    *)
(* and the connectors over datagrams.  They share no state; the first      *)
(* state chooses the one that moves, and the others stay as they begin.    *)
(***************************************************************************)
EXTENDS RouteMatch, MemDB, Convert, Json, PeerUdp

VARIABLE part  \* the component that moves

-----------------------------------------------------------------------------
(* Rules and messages: every case of every area                            *)
Rule(area, type, subtype, value, ops) ==
    {[area |-> area, type |-> type, subtype |-> subtype, value |-> value, op |-> op] :
        op \in ops}

SmallRules ==
    Rule("head", 0, 0, "none", Ops) \cup Rule("head", 1, 1, "none", Ops)
    \cup Rule("head", 1, 2, "none", Ops) \cup Rule("head", 2, 1, "none", Ops)
    \cup Rule("record", 1, 1, "equal", Ops) \cup Rule("record", 1, 1, "differs", Ops)
    \cup Rule("record", 0, 0, "none", {"AND"}) \cup Rule("expand", 3, 1, "differs", Ops)
    \cup Rule("null", 0, 0, "none", {"AND"})

SmallMessages ==
    [type : {1}, subtype : {1}, rec : {"present", "bad"}, expands : {{<<3, 1>>}}]
    \cup [type : {1}, subtype : {2}, rec : {"absent"}, expands : {{}}]

RmParked ==
    /\ rules = <<>> /\ gate = "no" /\ k = 1 /\ result = 0 /\ prev = 0 /\ ret = 0 /\ stale = FALSE
    /\ msg = CHOOSE m \in Messages : TRUE

-----------------------------------------------------------------------------
(* The record database: descriptions that name each other, repeat a name   *)
(* or a type, and one record of a type they describe                       *)
Entry(v, n) == [v |-> v, n |-> n]
ListM == <<Entry(1, "MESSAGE")>>
ListB == <<Entry(2, "b")>>
ListMB == ListM \o ListB
ListCB == <<Entry(2, "c"), Entry(3, "b")>>
DbRec(t, key, rest) == [type |-> t, key |-> key, rest |-> rest]

MCDbData == {DbRec("A", 1, 2)}
MCDbDescs ==
    {[kind |-> "NAMELIST", name |-> "x", list |-> ListMB]}
    \cup {[kind |-> "TYPELIST", name |-> "x", list |-> l, inline |-> TRUE] : l \in {ListM, ListCB}}
    \cup {[kind |-> "TYPELIST", name |-> "x", list |-> ListMB, inline |-> FALSE],
          [kind |-> "SUBTYPELIST", name |-> "x", list |-> ListCB, of |-> "MESSAGE", inline |-> TRUE],
          [kind |-> "SUBTYPELIST", name |-> "x", list |-> ListMB, of |-> "other", inline |-> FALSE],
          [kind |-> "STRUCT_DESC", name |-> "x", struct |-> [el |-> "e", ref |-> ""]],
          [kind |-> "RECORDTYPE", name |-> "x", type |-> "A", struct |-> "x", index |-> "all"],
          [kind |-> "RECORDTYPE_OWN", name |-> "y", type |-> "A",
           struct |-> [el |-> "e", ref |-> ""], index |-> "key"],
          [kind |-> "RECORDTYPE_OWN", name |-> "z", type |-> "B",
           struct |-> [el |-> "f", ref |-> "x"], index |-> "all"],
          [kind |-> "RECORD", name |-> "x", data |-> DbRec("A", 1, 1)]}

-----------------------------------------------------------------------------
(* Conversions: a flag set with a two-bit flag, and every short text of    *)
(* digits, prefixes, a sign and a blank                                    *)
MCCvFlags == <<Entry(1, "a"), Entry(2, "b"), Entry(12, "c")>>
MCCvTexts == UNION {[1..n -> {"0", "1", "7", "x", "a", " ", "-"}] : n \in 0..4}

-----------------------------------------------------------------------------
(* JSON: all short texts over the marks, and longer ones with names and    *)
(* values at the limits; messages with every kind of expansion             *)
Word(v) == [t |-> "word", v |-> v, n |-> Len(v)]
Long == [t |-> "str", v |-> "l", n |-> 40]
Huge == [t |-> "str", v |-> "h", n |-> 600]
Esc == [t |-> "esc", v |-> "e", n |-> 5]
Neg == [t |-> "neg", v |-> "1", n |-> 2]
Cut == [t |-> "cut", v |-> "", n |-> 2]
Marks == {Tok("{"), Tok("}"), Tok("["), Tok("]"), Tok(":"), Tok(","), Str("a"), Num(1)}

MCJsTexts ==
    {<<x>> \o y : x \in {Tok("{"), Tok("[")}, y \in [1..4 -> Marks]}
    \cup {<<Tok("[")>> \o x \o <<Tok("]")>> :
             x \in [1..3 -> {Esc, Neg, Tok(" "), Word("true"), Tok("["), Tok("]"), Str("a"), Huge}]}
    \cup {<<Tok("{")>> \o Pair("a", <<x>>) \o <<y, z, w, Tok("}"), Tok("}"), Tok(",")>> :
             x \in {Num(1), Esc, Neg, Tok(" "), Word("false"), Word("no"), Tok("[")},
             y \in {Tok(","), Tok(" "), Tok("]"), Num(2)}, z \in {Str("b"), Long, Cut},
             w \in {Tok(":"), Tok(" "), Tok("}")}}
    \cup {<<Tok("{")>> \o Pair("a", <<x>>) \o <<Tok(",")>> \o Pair("b", y)
              \o <<Tok(","), Tok("}"), Tok("]"), Tok("{")>> :
             x \in {Num(1), Str("a"), Huge},
             y \in {<<Tok("{"), Tok("}")>>,
                    <<Tok("["), Num(1), Tok(","), Num(2), Tok("]")>>,
                    StructText(1), <<Tok("[")>> \o StructText(1) \o <<Tok("]")>>}}

MCJmReaders == [rec : BOOLEAN, exp : BOOLEAN]
UpTo(S, n) == UNION {[1..i -> S] : i \in 0..n}
Exps == {[kind |-> x, v |-> 1] : x \in {"bin", "def", "undef"}}
Form(known, crypt, blob) == [known |-> known, crypt |-> crypt, blob |-> blob]

MCJmMsgs ==
    {Form(TRUE, FALSE, FALSE) @@ [clear |-> c, recs |-> r, exps |-> e] :
        c \in BOOLEAN, r \in {<<>>, <<1>>, <<1, 2>>}, e \in UpTo(Exps, 2)}
    \cup {f @@ [clear |-> FALSE, recs |-> <<1>>, exps |-> e] :
        f \in {Form(TRUE, TRUE, TRUE), Form(FALSE, FALSE, TRUE), Form(FALSE, FALSE, FALSE)},
        e \in UpTo(Exps, 1)}

-----------------------------------------------------------------------------
MCInit ==
    /\ part \in {"RouteMatch", "MemDB", "Convert", "Json", "PeerUdp"}
    /\ DbInit
    /\ IF part = "RouteMatch" THEN RmInit ELSE RmParked
    /\ IF part = "Convert" THEN CvInit ELSE cv = CvTyped(<<>>)
    /\ IF part = "Json" THEN JsInit ELSE js = JsStart("text", NoMessage, <<>>, 0)
    /\ UdInit

MCNext ==
    \/ part = "RouteMatch" /\ RmNext /\ UNCHANGED <<part, dbvars, cv, js, udvars>>
    \/ part = "MemDB" /\ DbNext /\ UNCHANGED <<part, rmvars, cv, js, udvars>>
    \/ part = "Convert" /\ CvNext /\ UNCHANGED <<part, rmvars, dbvars, js, udvars>>
    \/ part = "Json" /\ JsNext /\ UNCHANGED <<part, rmvars, dbvars, cv, udvars>>
    \/ part = "PeerUdp" /\ UdNext /\ UNCHANGED <<part, rmvars, dbvars, cv, js>>

MCSpec == MCInit /\ [][MCNext]_<<part, rmvars, dbvars, cv, js, udvars>>
=============================================================================
