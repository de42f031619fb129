----------------------------- MODULE MCCubeNet -----------------------------
(***************************************************************************)
(* Small networks for TLC.                                                 *)
(***************************************************************************)
EXTENDS CubeNet

To(kind, to) == [kind |-> kind, to |-> to]

Base(type, name, sender, rjump, ljump, types, main, response) ==
    [name |-> name, newname |-> Empty, sender |-> sender, type |-> type,
     rjump |-> rjump, ljump |-> ljump, state |-> "open", types |-> types,
     main |-> main, response |-> response]

Branch(type, base, newname, rjump, ljump, types, main) ==
    [name |-> base, newname |-> newname, sender |-> Empty, type |-> type,
     rjump |-> rjump, ljump |-> ljump, state |-> "open", types |-> types,
     main |-> main, response |-> <<>>]

-----------------------------------------------------------------------------
(* The modules of all the networks. *)
AllRole ==
    [app |-> "client", app2 |-> "client", stray |-> "client", guard |-> "forward",
     relay |-> "forward", srv |-> "reply", enc |-> "reply", log |-> "sink",
     w1 |-> "forward", w2 |-> "sink", conn |-> "conn"]

AllType == [m \in DOMAIN AllRole |->
              CASE m = "conn" -> "CONN" [] m = "app2" -> "PORT" [] OTHER -> "NORMAL"]

AllSays == [m \in DOMAIN AllRole |->
              CASE m \in {"app", "app2", "enc"} -> "ask" [] m = "stray" -> "odd"
                [] OTHER -> "ans"]

NoDefault == [i \in Inst |-> Empty]

-----------------------------------------------------------------------------
(* A delivery over two local modules of a.  A copy of it goes to a log,    *)
(* and an aspect first sends it as a query over b to c and back.  Another  *)
(* query does not leave b and ends there without an answer.                *)
ChainInst == {"a", "b", "c"}
ChainMods == [a |-> <<"app", "w1", "w2", "log", "conn">>, b |-> <<"conn", "relay", "stray">>,
              c |-> <<"conn", "enc">>]
ChainLinks == {<<"a", "b">>, <<"b", "c">>}
ChainPolicies ==
    [a |-> <<Base("DELIVER", "d", "app", 1, 0, {"ask"},
                  <<To("LOCAL", "w1"), To("LOCAL", "w2")>>, <<>>),
             Branch("ASPECT", "d", "asp", 1, 1, {"ask"}, <<To("CONN", "b")>>),
             Branch("DUP", "d", "copy", 1, 1, {"ask"}, <<To("LOCAL", "log")>>)>>,
     b |-> <<Base("QUERY", "asp", Empty, 2, 0, {"ask"},
                  <<To("LOCAL", "relay"), To("NAME", "c")>>, <<>>),
             Base("QUERY", "o", "stray", 1, 1, {"odd"}, <<To("LOCAL", "relay")>>, <<>>)>>,
     c |-> <<Base("QUERY", "asp", Empty, 3, 0, {"ask"}, <<To("LOCAL", "enc")>>, <<>>)>>]

-----------------------------------------------------------------------------
(* Two clients of one server; one of them asks through a port module.  No  *)
(* policy is for what a third module of the server sends.                  *)
StarInst == {"a", "b", "c"}
StarMods == [a |-> <<"app", "conn">>, b |-> <<"srv", "conn", "stray">>, c |-> <<"conn", "app2">>]
StarLinks == {<<"a", "b">>, <<"c", "b">>}
StarPolicies ==
    [a |-> <<Base("QUERY", "q", "app", 1, 1, {"ask"},
                  <<To("CONN", "b")>>, <<To("LOCAL", "app")>>)>>,
     b |-> <<Base("QUERY", "q", Empty, 2, 0, {"ask"}, <<To("LOCAL", "srv")>>, <<>>)>>,
     c |-> <<Base("QUERY", "q", "app2", 1, 1, {"ask"},
                  <<To("NAME", "b")>>, <<To("PORT", "app2")>>)>>]

-----------------------------------------------------------------------------
(* A query from a to c and back, through an aspect at a; two questions may *)
(* be under way at once.                                                   *)
PairInst == {"a", "c"}
PairMods == [a |-> <<"app", "guard", "conn">>, c |-> <<"conn", "srv">>]
PairLinks == {<<"a", "c">>}
PairPolicies ==
    [a |-> <<Base("QUERY", "q", "app", 1, 1, {"ask"},
                  <<To("CONN", "c")>>, <<To("LOCAL", "app")>>),
             Branch("ASPECT", "q", "asp", 1, 1, {"ask"}, <<To("LOCAL", "guard")>>)>>,
     c |-> <<Base("QUERY", "q", Empty, 2, 0, {"ask"}, <<To("LOCAL", "srv")>>, <<>>)>>]

-----------------------------------------------------------------------------
(* The first network without the aspect; the copy is set to be ignored.    *)
IgnoredPolicies ==
    [ChainPolicies EXCEPT !["a"] = <<@[1], [@[3] EXCEPT !.state = "ignore"]>>]

-----------------------------------------------------------------------------
(* The networks and their policies are what the theorems in CubeNet_proof  *)
(* and CubeNet_home_proof ask for.  Trails of three are the longest there  *)
(* are.                                                                    *)
Trails == UNION {[1 .. n -> Inst] : n \in 1 .. 3}

ASSUME NetworkIsTiered ==
    \E level \in [Inst -> 0 .. 2] : Tiered(level) /\ OneWayUp(level, Trails)
ASSUME PoliciesFit == AskersOwn /\ NamesAgree /\ PortsAsk
=============================================================================
