----------------------------- MODULE StructWalk -----------------------------
(***************************************************************************)
(* The walk over a structure template (struct_deal.c) and the conversions  *)
(* that are written as its callbacks: structure to blob and back, clone,   *)
(* compare, structure to JSON and back, each for a whole structure or for  *)
(* its marked elements only.                                               *)
(*                                                                         *)
(* The walk has no stack.  Its position in a node (temp_var), and the site *)
(* and the count of a subset (index, limit), are fields of the template,   *)
(* which every caller shares; an element's address is computed from the    *)
(* indices of the subsets around it.  A walk that fails returns at once    *)
(* and leaves these fields as they are.                                    *)
(*                                                                         *)
(* A structure is a function from addresses to numbers.  An address is an  *)
(* element with the indices of the subsets around it; that of an array     *)
(* stands for its pointer.  One call runs at a time.                       *)
(***************************************************************************)
EXTENDS Integers, Sequences, SequencesExt, TLC

CONSTANTS
    Root,       \* the root node of the template
    Elems,      \* per node: its elements in order (elem_list)
    Desc,       \* per element: [kind, size, ref, def]
    Structs,    \* the structures calls are made with
    MarkSets    \* the sets of elements whose flag a part call may ask for

Nodes    == DOMAIN Elems
Elements == DOMAIN Desc
Subset   == {e \in Elements : Desc[e].kind # "leaf"}
Arrays   == {e \in Elements : Desc[e].kind \in {"array", "defarray"}}
Defines  == {e \in Elements : Desc[e].kind = "defarray"}

ASSUME TemplateAssumption ==
    /\ Root \in Nodes
    /\ \A e \in Elements : Desc[e].kind \in {"leaf", "sub", "array", "defarray"}
    /\ \A e \in Subset : Desc[e].ref \in Nodes \ {Root} /\ Desc[e].size \in Nat
    /\ \A e \in Defines : Desc[e].def \in Elements \ Subset
    /\ \A n \in Nodes : Elems[n] \in Seq(Elements) /\ Elems[n] # <<>>
    /\ \A M \in MarkSets : M \subseteq Elements
    /\ Structs # {}

VARIABLES
    pos,    \* temp_var: per node, the element the walk is at
    idx,    \* index: per subset element, the site the walk is in
    lim,    \* limit: per subset element, the number of its sites
    at,     \* curr_node
    ret,    \* "idle", "walk", how it returned ("ok", "fail"), or "wild"
    call    \* the arguments of the call and its para

vars == <<pos, idx, lim, at, ret, call>>

-----------------------------------------------------------------------------
(* Addresses (_elem_get_addr). *)

Owner(e)  == CHOOSE n \in Nodes : \E i \in DOMAIN Elems[n] : Elems[n][i] = e
Holder(n) == CHOOSE e \in Subset : Desc[e].ref = n      \* n # Root

Fathers[e \in Elements] ==
    IF Owner(e) = Root THEN <<>>
    ELSE Append(Fathers[Holder(Owner(e))], Holder(Owner(e)))

Sites(e) == [k \in DOMAIN Fathers[e] |-> idx[Fathers[e][k]]]
Addr(e)  == <<e, Sites(e)>>

FixedCount(e) == IF Desc[e].size = 0 THEN 1 ELSE Desc[e].size

\* What one allocation holds: the elements of a node up to the next pointer.
Block[p \in Nodes \X Seq(Nat)] ==
    UNION {LET e == Elems[p[1]][i] IN
             IF e \in Subset \ Arrays
             THEN UNION {Block[<<Desc[e].ref, Append(p[2], k)>>] :
                            k \in 0 .. FixedCount(e) - 1}
             ELSE {<<e, p[2]>>} : i \in DOMAIN Elems[p[1]]}

Zeroed(A) == [a \in A |-> 0]
Alloc(d, e, n) ==
    Zeroed(UNION {Block[<<Desc[e].ref, Append(Sites(e), k)>>] : k \in 0 .. n - 1}) @@ d

(* _elem_get_defvalue *)
Readable(e, s) == e \in Defines => Addr(Desc[e].def) \in DOMAIN s
(* Mutant: the last site instead of their number. *)
Count_Last(e, s) == (IF e \in Defines THEN s[Addr(Desc[e].def)] ELSE FixedCount(e)) - 1
Count(e, s) == IF e \in Defines THEN s[Addr(Desc[e].def)] ELSE FixedCount(e)

-----------------------------------------------------------------------------
(* What the conversions mean, from the structure alone. *)

Concat(seqs) == FoldLeft(LAMBDA a, b : a \o b, <<>>, seqs)

SiteCount(e, s, ix) ==
    IF e \in Defines
    THEN s[<<Desc[e].def, SubSeq(ix, 1, Len(Fathers[Desc[e].def]))>>]
    ELSE FixedCount(e)

\* The addresses of the marked leaves, in the order of the template.
Leaves(s, M) ==
    LET F[p \in Nodes \X Seq(Nat)] ==
          Concat([i \in DOMAIN Elems[p[1]] |->
            LET e == Elems[p[1]][i] IN
            IF e \notin M THEN <<>>
            ELSE IF e \notin Subset THEN << <<e, p[2]>> >>
            ELSE Concat([k \in 1 .. SiteCount(e, s, p[2]) |->
                                F[<<Desc[e].ref, Append(p[2], k - 1)>>]])])
    IN  F[<<Root, <<>>>>]

Blob(s, M) == LET L == Leaves(s, M) IN [i \in DOMAIN L |-> s[L[i]]]

\* The marked elements are equal, and so are the counts of marked arrays.
Agree(s, t, M) ==
    LET F[p \in Nodes \X Seq(Nat)] ==
          \A e \in Range(Elems[p[1]]) \cap M :
            IF e \notin Subset THEN s[<<e, p[2]>>] = t[<<e, p[2]>>]
            ELSE /\ SiteCount(e, s, p[2]) = SiteCount(e, t, p[2])
                 /\ \A k \in 0 .. SiteCount(e, s, p[2]) - 1 :
                        F[<<Desc[e].ref, Append(p[2], k)>>]
    IN  F[<<Root, <<>>>>]

(* JSON, as a tree and as the tokens of a text. *)
Num(e, v)       == [type |-> "num", name |-> e, val |-> v, kids |-> <<>>]
Tree(ty, e, ks) == [type |-> ty, name |-> e, val |-> 0, kids |-> ks]

Listed(e, n) == e \in Defines \/ n # 1     \* written between brackets

TreeOf(s) ==
    LET F[p \in Nodes \X Seq(Nat)] ==
          [i \in DOMAIN Elems[p[1]] |->
            LET e == Elems[p[1]][i]
                n == SiteCount(e, s, p[2])
                Body(k) == F[<<Desc[e].ref, Append(p[2], k - 1)>>]
            IN  IF e \notin Subset THEN Num(e, s[<<e, p[2]>>])
                ELSE IF Listed(e, n)
                THEN Tree("array", e, [k \in 1 .. n |-> Tree("map", e, Body(k))])
                ELSE Tree("map", e, Body(1))]
    IN  Tree("map", Root, F[<<Root, <<>>>>])

Tok(c)   == <<c>>
Name(e)  == <<"name", e>>
Value(v) == <<"value", v>>

Comma(items) == \* the items with a comma between two of them
    Concat([i \in DOMAIN items |->
        items[i] \o (IF i < Len(items) THEN <<Tok(",")>> ELSE <<>>)])
Braced(o, items, c) == <<Tok(o)>> \o Comma(items) \o <<Tok(c)>>

Text(s, M) ==
    LET F[p \in Nodes \X Seq(Nat)] ==
          LET es == SelectSeq(Elems[p[1]], LAMBDA e : e \in M) IN
          Braced("{", [i \in DOMAIN es |->
            LET e == es[i]
                n == SiteCount(e, s, p[2])
                Body(k) == F[<<Desc[e].ref, Append(p[2], k - 1)>>]
            IN  <<Name(e)>> \o
                (IF e \notin Subset THEN <<Value(s[<<e, p[2]>>])>>
                 ELSE IF Listed(e, n)
                 THEN Braced("[", [k \in 1 .. n |-> Body(k)], "]")
                 ELSE Body(1))], "}")
    IN  F[<<Root, <<>>>>]

-----------------------------------------------------------------------------
(* The cursor of json_2_struct: json_node, as <<path>> or <<>> for NULL,   *)
(* and the curr_child every JSON node remembers.                           *)

NodeAt(tree, path) == FoldLeft(LAMBDA n, i : n.kids[i], tree, path)
Here(c) == NodeAt(c.tree, Head(c.jat))
IsA(c, ty) == c.jat # <<>> /\ Here(c).type = ty

\* _new_json_node leaves curr_child at the last child; past it is the list head.
CurrChild(c) ==
    IF Head(c.jat) \in DOMAIN c.curs THEN c.curs[Head(c.jat)] ELSE Len(Here(c).kids)

MoveTo(c, i) == \* curr_child becomes child i, and json_node that child
    [c EXCEPT !.curs = (Head(c.jat) :> i) @@ @,
              !.jat  = IF i <= Len(Here(c).kids) THEN <<Append(Head(@), i)>> ELSE <<>>]

FirstChild(c) == MoveTo(c, 1)
NextChild(c) ==
    MoveTo(c, IF CurrChild(c) > Len(Here(c).kids) THEN CurrChild(c) ELSE CurrChild(c) + 1)

(* json_find_elem *)
FindElem(c, e) ==
    IF ~IsA(c, "map") THEN [c EXCEPT !.jat = <<>>]
    ELSE LET ks == Here(c).kids
             is == {i \in DOMAIN ks : ks[i].name = e}
         IN  MoveTo(c, IF is = {} THEN Len(ks) + 1 ELSE CHOOSE i \in is : TRUE)

(* json_get_father, and json_is_value: a member of an array, or the root. *)
Father(jat) == IF jat = <<>> \/ Head(jat) = <<>> THEN <<>> ELSE <<Front(Head(jat))>>
IsValue(c) ==
    \/ c.jat = <<>> \/ Head(c.jat) = <<>>
    \/ NodeAt(c.tree, Front(Head(c.jat))).type = "array"

-----------------------------------------------------------------------------
(* The callbacks.  Each yields the new limit and index of the element, the *)
(* new state of the call, and how the walk goes on.                        *)

Got(l, i, c, r) == [lim |-> l, idx |-> i, call |-> c, ret |-> r]
Kept(e, c)      == Got(lim[e], idx[e], c, "walk")   \* limit was not 0

(* struct_2_blob_enterstruct *)
EnterRead(e) ==
    IF lim[e] # 0 THEN Kept(e, call)
    ELSE IF ~Readable(e, call.src) THEN Got(0, 0, call, "wild")
    ELSE Got(Count(e, call.src), 0, call, "walk")

(* Mutant: the counts are not compared. *)
EnterCompare_AnyCount(e) ==
    IF lim[e] # 0 THEN Kept(e, call)
    ELSE IF ~Readable(e, call.src) \/ ~Readable(e, call.dst) THEN Got(0, 0, call, "wild")
    ELSE Got(Count(e, call.dst), 0, call, "walk")

(* compare_struct_enterstruct *)
EnterCompare(e) ==
    IF lim[e] # 0 THEN Kept(e, call)
    ELSE IF ~Readable(e, call.src) \/ ~Readable(e, call.dst) THEN Got(0, 0, call, "wild")
    ELSE Got(Count(e, call.dst), 0, call,
             IF Count(e, call.src) = Count(e, call.dst) THEN "walk" ELSE "fail")

(* Mutant: memory for one site only. *)
WithSites_One(c, e, n) ==
    IF e \in Arrays /\ n > 0 THEN [c EXCEPT !.dst = Alloc(@, e, 1)] ELSE c

\* Allocate the n sites of an array.
WithSites(c, e, n) ==
    IF e \in Arrays /\ n > 0 THEN [c EXCEPT !.dst = Alloc(@, e, n)] ELSE c

Unplaced(e) == e \in Arrays /\ Addr(e) \notin DOMAIN call.dst

(* blob_2_struct_enterstruct, clone_struct_enterstruct *)
EnterCopy(e) ==
    IF lim[e] # 0 THEN Kept(e, call)
    ELSE IF ~Readable(e, call.dst) \/ Unplaced(e) THEN Got(0, 0, call, "wild")
    ELSE LET n == Count(e, call.dst)
         IN  Got(n, 0, WithSites(call, e, n), "walk")

(* _tojson_enterstruct *)
Bracket(e, i, l) ==
    IF l = 0 THEN <<Tok("[")>>
    ELSE IF (l = 1 /\ e \in Defines) \/ (l > 1 /\ i = 0)
    THEN <<Tok("["), Tok("{")>>
    ELSE <<Tok("{")>>

Opened(e, r) ==
    [r EXCEPT !.call.out = @ \o (IF lim[e] = 0 THEN <<Name(e)>> ELSE <<>>)
                             \o Bracket(e, r.idx, r.lim)]

EnterText(e) == Opened(e, EnterRead(e))

(* _jsonto_enterstruct: with the element's JSON node in c, or none ... *)
WithLength(c, e, n) ==     \* _elem_set_defvalue
    WithSites([c EXCEPT !.dst[Addr(Desc[e].def)] = n], e, n)

Counted(e, c) ==
    IF Count(e, call.dst) > 0
    THEN Got(Count(e, call.dst), 0, WithSites(c, e, Count(e, call.dst)), "walk")
    ELSE IF IsA(c, "map") THEN Got(1, 0, WithLength(c, e, 1), "walk")
    ELSE Got(Len(Here(c).kids), 0, WithLength(c, e, Len(Here(c).kids)), "walk")

OpenJson(e, c) ==
    IF c.jat = <<>> THEN Got(0, idx[e], [c EXCEPT !.jat = call.jat], "missing")
    ELSE IF IsA(c, "num") THEN Got(0, idx[e], [c EXCEPT !.jat = call.jat], "fail")
    ELSE IF ~Readable(e, call.dst) \/ Unplaced(e) THEN Got(0, 0, call, "wild")
    ELSE Counted(e, c)

(* ... then move to the JSON node of the site. *)
Moved(r, c) == [r EXCEPT !.call = c, !.ret = IF c.jat = <<>> THEN "fail" ELSE "walk"]

ToSite(r) ==
    IF r.ret = "missing" THEN [r EXCEPT !.ret = "walk"]
    ELSE IF r.ret # "walk" THEN r
    ELSE IF r.idx = 0
    THEN IF IsA(r.call, "array") THEN Moved(r, FirstChild(r.call)) ELSE r
    ELSE IF r.lim <= 1 THEN r
    ELSE IF r.call.jat = <<>> THEN [r EXCEPT !.ret = "wild"]
    ELSE Moved(r, NextChild(r.call))

EnterJson(e) ==
    ToSite(IF lim[e] # 0 THEN Kept(e, call) ELSE OpenJson(e, FindElem(call, e)))

EnterStruct(e) ==
    CASE call.op = "blob"                -> EnterRead(e)
      [] call.op = "compare"             -> EnterCompare(e)
      [] call.op \in {"decode", "clone"} -> EnterCopy(e)
      [] call.op = "tojson"              -> EnterText(e)
      [] call.op = "fromjson"            -> EnterJson(e)

(* Mutant: a list of one is not closed. *)
ExitText_Bare(e, i, l, c) ==
    LET end == IF l = 0 THEN Append(c.out, Tok("]"))
               ELSE Append(Front(c.out), Tok("}")) \o
                    (IF l > 1 /\ i >= l THEN <<Tok("]")>> ELSE <<>>)
    IN  [c EXCEPT !.out = Append(end, Tok(","))]

(* _tojson_exitstruct, with index i and limit l: the last comma, if the    *)
(* site has one, is overwritten.                                           *)
ExitText(e, i, l, c) ==
    LET end == IF l = 0 THEN Append(c.out, Tok("]"))
               ELSE Append(Front(c.out), Tok("}")) \o
                    (IF (l = 1 /\ e \in Defines) \/ (l > 1 /\ i >= l)
                     THEN <<Tok("]")>> ELSE <<>>)
    IN  [c EXCEPT !.out = Append(end, Tok(","))]

(* Mutant: the array of the last site is not left. *)
ExitJson_Once(e, i, l, c) == [c EXCEPT !.jat = Father(@)]

(* _jsonto_exitstruct *)
ExitJson(e, i, l, c) ==
    [c EXCEPT !.jat = IF i >= l /\ IsValue(c) THEN Father(Father(@)) ELSE Father(@)]

ExitStruct(e, i, l, c) ==
    CASE call.op = "tojson"   -> ExitText(e, i, l, c)
      [] call.op = "fromjson" -> ExitJson(e, i, l, c)
      [] OTHER                -> c

Proc(c, r) == [call |-> c, ret |-> r]
Wild       == Proc(call, "wild")

(* proc_struct_2_blob with _elem_get_bin_value *)
ProcBlob(e) ==
    IF Addr(e) \notin DOMAIN call.src THEN Wild
    ELSE Proc([call EXCEPT !.out = Append(@, call.src[Addr(e)])], "walk")

(* proc_blob_2_struct with _elem_set_bin_value: out is what has been read. *)
ProcDecode(e) ==
    LET next == Len(call.out) + 1
    IN  IF Addr(e) \notin DOMAIN call.dst \/ next > Len(call.blob) THEN Wild
        ELSE Proc([call EXCEPT !.out = Append(@, call.blob[next]),
                               !.dst[Addr(e)] = call.blob[next]], "walk")

Both(e) == Addr(e) \in DOMAIN call.dst \cap DOMAIN call.src

(* proc_clone_struct with _elem_clone_value *)
ProcClone(e) ==
    IF ~Both(e) THEN Wild
    ELSE Proc([call EXCEPT !.dst[Addr(e)] = call.src[Addr(e)]], "walk")

(* proc_compare_struct with _elem_compare_value *)
ProcCompare(e) ==
    IF ~Both(e) THEN Wild
    ELSE Proc(call, IF call.src[Addr(e)] = call.dst[Addr(e)] THEN "walk" ELSE "fail")

(* _tojson_proc_func *)
ProcText(e) ==
    IF Addr(e) \notin DOMAIN call.src THEN Wild
    ELSE Proc([call EXCEPT !.out =
                @ \o <<Name(e), Value(call.src[Addr(e)]), Tok(",")>>], "walk")

(* _jsonto_proc_func with _setvaluefromjson, the element's JSON node in c *)
SetFromJson(e, c) ==
    IF c.jat = <<>> THEN Proc([c EXCEPT !.jat = call.jat], "walk")
    ELSE IF ~IsA(c, "num") THEN Proc([c EXCEPT !.jat = call.jat], "fail")
    ELSE IF Addr(e) \notin DOMAIN call.dst THEN Wild
    ELSE Proc([c EXCEPT !.jat = call.jat, !.dst[Addr(e)] = Here(c).val], "walk")

ProcJson(e) == SetFromJson(e, FindElem(call, e))

ProcFunc(e) ==
    CASE call.op = "blob"     -> ProcBlob(e)
      [] call.op = "decode"   -> ProcDecode(e)
      [] call.op = "clone"    -> ProcClone(e)
      [] call.op = "compare"  -> ProcCompare(e)
      [] call.op = "tojson"   -> ProcText(e)
      [] call.op = "fromjson" -> ProcJson(e)

-----------------------------------------------------------------------------
Untouched == \A e \in Subset : lim[e] = 0 /\ idx[e] = 0

NoCall ==
    [op |-> "none", src |-> <<>>, dst |-> <<>>, blob |-> <<>>, tree |-> <<>>,
     marks |-> {}, out |-> <<>>, jat |-> <<>>, curs |-> <<>>, clean |-> FALSE,
     fresh |-> FALSE]

Empty == Zeroed(Block[<<Root, <<>>>>])

\* The limits earlier walks left behind are those this walk would set itself.
Harmless(op) ==
    \/ Untouched
    \/ /\ op \in {"blob", "compare"}
       /\ \A e \in Subset : idx[e] = 0 /\ (lim[e] # 0 => e \notin Defines)

Begin(op, c) ==
    /\ ret' = "walk" /\ at' = Root /\ pos' = [pos EXCEPT ![Root] = 0]
    /\ call' = c @@ [op |-> op, clean |-> Untouched, fresh |-> Harmless(op)] @@ NoCall
    /\ UNCHANGED <<idx, lim>>

(* struct_2_blob, struct_2_part_blob *)
Struct2Blob ==
    /\ ret = "idle"
    /\ \E s \in Structs, M \in MarkSets : Begin("blob", [src |-> s, marks |-> M])

(* blob_2_struct, blob_2_part_struct: a blob made of a structure *)
Blob2Struct ==
    /\ ret = "idle"
    /\ \E s \in Structs, M \in MarkSets :
          Begin("decode", [src |-> s, blob |-> Blob(s, M), dst |-> Empty, marks |-> M])

(* struct_clone, clone_struct *)
StructClone ==
    /\ ret = "idle"
    /\ \E s \in Structs : Begin("clone", [src |-> s, dst |-> Empty, marks |-> Elements])

(* struct_compare, struct_part_compare *)
StructCompare ==
    /\ ret = "idle"
    /\ \E s, t \in Structs, M \in MarkSets :
          Begin("compare", [src |-> s, dst |-> t, marks |-> M])

(* struct_2_json, struct_2_part_json, with _tojson_start *)
Struct2Json ==
    /\ ret = "idle"
    /\ \E s \in Structs, M \in MarkSets :
          Begin("tojson", [src |-> s, marks |-> M, out |-> <<Tok("{")>>])

\* The JSON of a structure, or the same without one member.
Inputs(s) ==
    LET t == TreeOf(s) IN {t} \cup {[t EXCEPT !.kids = RemoveAt(@, i)] : i \in DOMAIN t.kids}

(* json_2_struct, json_2_part_struct, with _jsonto_start *)
Json2Struct ==
    /\ ret = "idle"
    /\ \E s \in Structs, M \in MarkSets : \E t \in Inputs(s) :
          Begin("fromjson", [src |-> s, tree |-> t, dst |-> Empty, marks |-> M,
                             jat |-> << <<>> >>])

-----------------------------------------------------------------------------
(* One round of the loop of _convert_frame_func. *)

Cur     == Elems[at][pos[at] + 1]
Inside  == ret = "walk" /\ pos[at] < Len(Elems[at])
Through == ret = "walk" /\ pos[at] = Len(Elems[at])

(* Mutant: ">". *)
Advance_Over(n, e, i) ==
    IF i > lim[e]
    THEN /\ pos' = [pos EXCEPT ![n] = @ + 1]
         /\ lim' = [lim EXCEPT ![e] = 0]
         /\ idx' = [idx EXCEPT ![e] = 0]
    ELSE /\ idx' = [idx EXCEPT ![e] = i]
         /\ UNCHANGED <<pos, lim>>

(* Mutant: the limit is not cleared. *)
Advance_KeepLimit(n, e, i) ==
    IF i >= lim[e]
    THEN /\ pos' = [pos EXCEPT ![n] = @ + 1]
         /\ idx' = [idx EXCEPT ![e] = 0]
         /\ UNCHANGED lim
    ELSE /\ idx' = [idx EXCEPT ![e] = i]
         /\ UNCHANGED <<pos, lim>>

(* All sites of a subset are done: its limit is cleared for the next walk. *)
Advance(n, e, i) ==
    IF i >= lim[e]
    THEN /\ pos' = [pos EXCEPT ![n] = @ + 1]
         /\ lim' = [lim EXCEPT ![e] = 0]
         /\ idx' = [idx EXCEPT ![e] = 0]
    ELSE /\ idx' = [idx EXCEPT ![e] = i]
         /\ UNCHANGED <<pos, lim>>

(* Mutant: the index is not counted up. *)
Ascend_SameSite ==
    /\ Through /\ at # Root
    /\ LET n == Owner(Holder(at))
           e == Elems[n][pos[n] + 1]
       IN  /\ call' = ExitStruct(e, idx[e], lim[e], call)
           /\ Advance(n, e, idx[e])
           /\ at' = n
    /\ UNCHANGED ret

Ascend ==
    /\ Through /\ at # Root
    /\ LET n == Owner(Holder(at))
           e == Elems[n][pos[n] + 1]
       IN  /\ call' = ExitStruct(e, idx[e] + 1, lim[e], call)
           /\ Advance(n, e, idx[e] + 1)
           /\ at' = n
    /\ UNCHANGED ret

(* testelem *)
Skip ==
    /\ Inside /\ Cur \notin call.marks
    /\ pos' = [pos EXCEPT ![at] = @ + 1]
    /\ UNCHANGED <<idx, lim, at, ret, call>>

Into(e, r) ==
    /\ lim' = [lim EXCEPT ![e] = r.lim]
    /\ idx' = [idx EXCEPT ![e] = r.idx]
    /\ ret' = r.ret
    /\ \/ /\ r.ret # "walk"
          /\ call' = r.call /\ UNCHANGED <<pos, at>>
       \/ /\ r.ret = "walk" /\ e \in Arrays /\ r.lim = 0
          /\ call' = ExitStruct(e, r.idx, 0, r.call)
          /\ pos' = [pos EXCEPT ![at] = @ + 1] /\ UNCHANGED at
       \/ /\ r.ret = "walk" /\ ~(e \in Arrays /\ r.lim = 0)
          /\ call' = r.call
          /\ pos' = [pos EXCEPT ![Desc[e].ref] = 0] /\ at' = Desc[e].ref

Enter ==
    /\ Inside /\ Cur \in call.marks \cap Subset
    /\ \E r \in {EnterStruct(Cur)} : Into(Cur, r)

Process ==
    /\ Inside /\ Cur \in call.marks \ Subset
    /\ \E r \in {ProcFunc(Cur)} :
          /\ call' = r.call /\ ret' = r.ret
          /\ pos' = IF r.ret = "walk" THEN [pos EXCEPT ![at] = @ + 1] ELSE pos
    /\ UNCHANGED <<idx, lim, at>>

(* The end of the loop, with _tojson_finish. *)
Finish ==
    /\ Through /\ at = Root
    /\ ret' = "ok"
    /\ call' = IF call.op # "tojson" THEN call
               ELSE [call EXCEPT !.out =
                        Append(IF Len(@) > 1 THEN Front(@) ELSE @, Tok("}"))]
    /\ UNCHANGED <<pos, idx, lim, at>>

Return ==
    /\ ret \in {"ok", "fail"}
    /\ ret' = "idle" /\ call' = NoCall
    /\ UNCHANGED <<pos, idx, lim, at>>

Init ==
    /\ pos = [n \in Nodes |-> 0]
    /\ idx = [e \in Subset |-> 0]
    /\ lim = [e \in Subset |-> 0]
    /\ at = Root /\ ret = "idle" /\ call = NoCall

Round == Ascend \/ Skip \/ Enter \/ Process \/ Finish

Next ==
    \/ Struct2Blob \/ Blob2Struct \/ StructClone \/ StructCompare
    \/ Struct2Json \/ Json2Struct
    \/ Round \/ Return

Spec == Init /\ [][Next]_vars

-----------------------------------------------------------------------------
TypeOK ==
    /\ \A n \in Nodes : pos[n] \in 0 .. Len(Elems[n])
    /\ idx \in [Subset -> Nat] /\ lim \in [Subset -> Nat]
    /\ at \in Nodes
    /\ ret \in {"idle", "walk", "ok", "fail", "wild"}
    /\ DOMAIN call = DOMAIN NoCall

\* The marks name, with an element, its subset and its count, and some
\* element of a marked subset.
Closed(M) ==
    /\ \A e \in M : Range(Fathers[e]) \subseteq M
    /\ \A e \in M \cap Defines : Desc[e].def \in M
    /\ \A e \in M \cap Subset : \E f \in M : Owner(f) = Desc[e].ref

(* struct_2_blob and struct_2_part_blob write the marked elements of every *)
(* site in the order of the template, also when an earlier failed walk has *)
(* left the limits of plain sub-structures behind.                         *)
BlobIsStruct ==
    ret # "walk" /\ call.op = "blob" /\ call.fresh =>
        ret = "ok" /\ call.out = Blob(call.src, call.marks)

(* clone_struct yields an equal structure, and blob_2_struct reads back    *)
(* what struct_2_blob wrote, nested arrays included, and nothing else.     *)
CopyIsEqual ==
    /\ ret # "walk" /\ call.op \in {"clone", "decode"} /\ call.fresh /\ Closed(call.marks) =>
        ret = "ok" /\ Agree(call.dst, call.src, call.marks)
    /\ ret = "ok" /\ call.op \in {"clone", "decode"} /\ call.fresh /\ call.marks = Elements =>
        call.dst = call.src

(* struct_compare returns 0 exactly for structures that agree in the       *)
(* marked elements: route_tree.c:900 takes a rule's match from it, with    *)
(* the same template after every failed compare.                           *)
CompareDecides ==
    ret # "walk" /\ call.op = "compare" /\ call.fresh =>
        (ret = IF Agree(call.src, call.dst, call.marks) THEN "ok" ELSE "fail")

(* struct_2_json writes a text in which every bracket is closed and every  *)
(* comma stands between two members.                                       *)
TextIsJson ==
    ret # "walk" /\ call.op = "tojson" /\ call.fresh /\ Closed(call.marks) =>
        ret = "ok" /\ call.out = Text(call.src, call.marks)

\* No array of the structure is empty; only an element that is not a subset
\* is absent from the JSON.
NoneEmpty(s) ==
    \A a \in DOMAIN s : a[1] \in Defines => SiteCount(a[1], s, a[2]) > 0
Absent(c) ==
    Range(Elems[Root]) \ {c.tree.kids[i].name : i \in DOMAIN c.tree.kids}
IsCount(e) == \E f \in Defines : Desc[f].def = e

(* json_2_struct reads what struct_2_json writes: an absent member is left *)
(* 0, but an absent count is the length of its array.  So it is for the    *)
(* marked elements, the rest of the JSON being of no consequence.          *)
JsonReadsBack ==
    ret # "walk" /\ call.op = "fromjson" /\ call.fresh
        /\ NoneEmpty(call.src) /\ Absent(call) \cap Subset = {} =>
    /\ ret = "ok"
    /\ Absent(call) = {} => Agree(call.dst, call.src, call.marks)
    /\ call.marks = Elements =>
         call.dst = [a \in DOMAIN call.src |->
                       IF a[1] \in Absent(call) /\ ~IsCount(a[1]) THEN 0 ELSE call.src[a]]

(* A walk that found the template untouched leaves it untouched when it    *)
(* returns; one that fails leaves limits only in the subsets it was in.    *)
TemplateLeftClean ==
    call.clean =>
        /\ ret = "ok" => Untouched
        /\ \A e \in Subset : lim[e] # 0 =>
              \/ e \in Range(Fathers[Elems[at][1]])
              \/ ret = "fail" /\ e = Cur
              \/ ret = "walk" /\ Inside /\ e = Cur

\* Where the walk is: position and site of every subset around it, then its own.
Place ==
    LET up == Fathers[Elems[at][1]]
        own == IF Inside /\ Cur \in Subset THEN <<pos[at], idx[Cur]>> ELSE <<pos[at]>>
    IN  [k \in 1 .. 2 * Len(up) |->
            IF k % 2 = 1 THEN pos[Owner(up[(k + 1) \div 2])] ELSE idx[up[k \div 2]]] \o own

Before(p, q) ==     \* in the order of a dictionary
    \/ IsStrictPrefix(p, q)
    \/ \E i \in DOMAIN p \cap DOMAIN q :
          p[i] < q[i] /\ \A j \in 1 .. i - 1 : p[j] = q[j]

(* No round of the loop leads back: a walk that goes on is further in the  *)
(* structure than before, on whatever earlier walks left behind, and so    *)
(* every call returns.                                                     *)
WalkAdvances == [][ret = "walk" /\ ret' = "walk" => Before(Place, Place')]_vars

(* A conversion over a shared template yields the blob, the copy, the      *)
(* verdict or the JSON of the structure it is given.                       *)
CallsCorrect ==
    /\ TypeOK /\ BlobIsStruct /\ CopyIsEqual
    /\ CompareDecides /\ TextIsJson /\ JsonReadsBack
=============================================================================
