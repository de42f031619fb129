---------------------------- MODULE MCStructWalk ----------------------------
(***************************************************************************)
(* A record with a counted array of records that hold a counted array      *)
(* themselves, a sub-structure given twice, a plain sub-structure and a    *)
(* fixed array.                                                            *)
(***************************************************************************)
EXTENDS StructWalk

MCElems ==
    [root |-> <<"n", "arr", "s", "p", "f", "z">>,
     A |-> <<"k", "in">>, C |-> <<"y">>, B |-> <<"x">>, D |-> <<"w">>, E |-> <<"v">>]

Leaf == [kind |-> "leaf", size |-> 1, ref |-> "none", def |-> "none"]
Part(kind, size, ref, def) == [kind |-> kind, size |-> size, ref |-> ref, def |-> def]

MCDesc ==
    [e \in {"n", "k", "y", "x", "w", "v", "z"} |-> Leaf] @@
    [arr |-> Part("defarray", 0, "A", "n"), in |-> Part("defarray", 0, "C", "k"),
     s |-> Part("sub", 2, "B", "none"), p |-> Part("sub", 0, "D", "none"),
     f |-> Part("array", 2, "E", "none")]

\* A structure whose array has a site with ks[i] inner sites for each i; the
\* other values tell the addresses apart, and tweak changes one of them.
Build(ks, tweak) ==
    LET i0 == DOMAIN ks
        As == {<<"n", <<>>>>, <<"z", <<>>>>, <<"arr", <<>>>>, <<"f", <<>>>>}
                \cup {<<"x", <<i>>>> : i \in 0 .. 1} \cup {<<"v", <<i>>>> : i \in 0 .. 1}
                \cup {<<"w", <<0>>>>}
                \cup {<<"k", <<i - 1>>>> : i \in i0} \cup {<<"in", <<i - 1>>>> : i \in i0}
                \cup UNION {{<<"y", <<i - 1, j>>>> : j \in 0 .. ks[i] - 1} : i \in i0}
        Val(a) ==
            CASE a[1] = "n" -> Len(ks)
              [] a[1] = "k" -> ks[a[2][1] + 1]
              [] a[1] = "z" -> 1
              [] a[1] = "x" -> 2 + a[2][1]
              [] a[1] = "v" -> 4 + a[2][1]
              [] a[1] = "w" -> 6
              [] a[1] = "y" -> 7 + 2 * a[2][1] + a[2][2]
              [] OTHER -> 0
    IN  [a \in As |-> IF a = tweak THEN 20 ELSE Val(a)]

None == <<"none", <<>>>>
MCStructs ==
    {Build(<<>>, None), Build(<<0>>, None), Build(<<1, 2>>, None),
     Build(<<1, 2>>, <<"y", <<1, 0>>>>), Build(<<1, 2>>, <<"w", <<0>>>>)}

MCMarkSets ==
    {Elements, {"n", "arr", "k", "z"}, {"p", "w", "z"}, {"arr", "in", "y"}}
=============================================================================
