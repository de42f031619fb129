---------------------------- MODULE CubeNet_proof ----------------------------
(***************************************************************************)
(* The theorem that no router returns before a restart, for every tiered   *)
(* network: any instances, modules, policy files and connections, any      *)
(* number of messages.                                                     *)
(*                                                                         *)
(* proc_router_start returns at a response it finds no trace for.  The     *)
(* invariant says of every message, wherever it is held, that its query    *)
(* has left a trace here, that a response goes back to where there is one  *)
(* too, and that the hops it has counted do not exceed the tiers between   *)
(* here and the one who asked, so that an answer leaves an instance only   *)
(* if the query did not begin there.  It is in five parts, one for each    *)
(* place that holds messages or traces (SendqOK, RecvqOK, ListsOK,         *)
(* TracesOK, NetOK), and ends with the first restart.                      *)
(*                                                                         *)
(* The parts are operators on the traces and the history "origin", since a *)
(* step that adds a trace or a nonce leaves what was sound sound (Grows).  *)
(***************************************************************************)
EXTENDS CubeNet, TLAPS, FiniteSetTheorems, WellFoundedInduction

(* A list: a sequence over its own elements. *)
IsSeq(s) == s \in Seq(ToSet(s))

-----------------------------------------------------------------------------
(* Lists and what they contain. *)

(* A sequence over any set is a list. *)
LEMMA IsSeqIntro ==
    ASSUME NEW S, NEW s \in Seq(S)
    PROVE  IsSeq(s)
BY DEF IsSeq, ToSet

(* The indices and the elements of a list. *)
LEMMA IsSeqFacts ==
    ASSUME NEW s, IsSeq(s)
    PROVE  /\ Len(s) \in Nat /\ DOMAIN s = 1 .. Len(s)
           /\ \A k \in DOMAIN s : s[k] \in ToSet(s)
           /\ s # <<>> <=> Len(s) > 0
BY DEF IsSeq, ToSet

(* The empty list. *)
LEMMA NilSeq == IsSeq(<<>>) /\ ToSet(<<>>) = {}
<1>1. <<>> \in Seq({}) /\ DOMAIN <<>> = {}
  OBVIOUS
<1> QED BY <1>1, IsSeqIntro DEF ToSet

(* A list of one element. *)
LEMMA OneSeq ==
    ASSUME NEW e
    PROVE  IsSeq(<<e>>) /\ ToSet(<<e>>) = {e} /\ Len(<<e>>) = 1 /\ DOMAIN <<e>> = {1}
<1>1. <<e>> \in Seq({e}) /\ Len(<<e>>) = 1 /\ <<e>>[1] = e
  OBVIOUS
<1> QED BY <1>1 DEF IsSeq, ToSet

(* One element more at the tail. *)
LEMMA AppendSeq ==
    ASSUME NEW s, NEW e, IsSeq(s)
    PROVE  /\ IsSeq(Append(s, e)) /\ ToSet(Append(s, e)) = ToSet(s) \cup {e}
           /\ Len(Append(s, e)) = Len(s) + 1
           /\ \A k \in DOMAIN s : Append(s, e)[k] = s[k]
           /\ Append(s, e)[Len(s) + 1] = e
<1> DEFINE S == ToSet(s) \cup {e}
           r == Append(s, e)
<1>1. s \in Seq(S)
  BY DEF IsSeq, ToSet
<1>2. r \in Seq(S) /\ Len(r) = Len(s) + 1 /\ Len(s) \in Nat
  BY <1>1
<1>3. DOMAIN s = 1 .. Len(s) /\ DOMAIN r = 1 .. Len(s) + 1
  BY <1>1, <1>2
<1>4. \A k \in 1 .. Len(s) : r[k] = s[k]
  BY <1>1
<1>5. r[Len(s) + 1] = e
  BY <1>1
<1>6. ToSet(r) = S
  BY <1>2, <1>3, <1>4, <1>5 DEF ToSet
<1> QED BY <1>2, <1>3, <1>4, <1>5, <1>6 DEF IsSeq

(* What is taken from the head. *)
LEMMA TailSeq ==
    ASSUME NEW s, IsSeq(s), s # <<>>
    PROVE  /\ Head(s) \in ToSet(s)
           /\ IsSeq(Tail(s)) /\ ToSet(Tail(s)) \subseteq ToSet(s)
<1>1. Len(s) \in Nat \ {0} /\ DOMAIN s = 1 .. Len(s) /\ Head(s) = s[1]
  BY DEF IsSeq
<1>2. Tail(s) \in Seq(ToSet(s))
  BY DEF IsSeq
<1>3. ToSet(Tail(s)) \subseteq ToSet(s)
  BY <1>2 DEF ToSet
<1>4. IsSeq(Tail(s))
  BY <1>2, IsSeqIntro
<1>5. Head(s) \in ToSet(s)
  BY <1>1 DEF ToSet
<1> QED BY <1>3, <1>4, <1>5

(* What is taken from the tail, as the module queues do. *)
LEMMA LastSeq ==
    ASSUME NEW s, IsSeq(s), s # <<>>
    PROVE  /\ Last(s) \in ToSet(s)
           /\ IsSeq(Front(s)) /\ ToSet(Front(s)) \subseteq ToSet(s)
<1>1. Len(s) \in Nat \ {0} /\ DOMAIN s = 1 .. Len(s)
  BY DEF IsSeq
<1>2. Front(s) \in Seq(ToSet(s))
  BY <1>1 DEF IsSeq, Front
<1>3. ToSet(Front(s)) \subseteq ToSet(s)
  BY <1>2 DEF ToSet
<1> QED BY <1>1, <1>2, <1>3, IsSeqIntro DEF ToSet, Last

(* Two lists one after the other. *)
LEMMA ConcatSeq ==
    ASSUME NEW s, NEW r, IsSeq(s), IsSeq(r)
    PROVE  IsSeq(s \o r) /\ ToSet(s \o r) = ToSet(s) \cup ToSet(r)
<1> DEFINE S == ToSet(s) \cup ToSet(r)
           c == s \o r
<1>1. s \in Seq(S) /\ r \in Seq(S)
  BY DEF IsSeq, ToSet
<1>2. c \in Seq(S) /\ Len(c) = Len(s) + Len(r) /\ Len(s) \in Nat /\ Len(r) \in Nat
  BY <1>1
<1>3. /\ \A k \in 1 .. Len(s) : c[k] = s[k]
      /\ \A k \in 1 .. Len(r) : c[Len(s) + k] = r[k]
  BY <1>1
<1>4. DOMAIN s = 1 .. Len(s) /\ DOMAIN r = 1 .. Len(r) /\ DOMAIN c = 1 .. Len(c)
  BY <1>1, <1>2
<1>5. ToSet(c) \subseteq S
  BY <1>2 DEF ToSet
<1>6. ToSet(s) \subseteq ToSet(c)
  BY <1>2, <1>3, <1>4 DEF ToSet
<1>7. ASSUME NEW k \in 1 .. Len(r) PROVE r[k] \in ToSet(c)
  <2>1. Len(s) + k \in DOMAIN c /\ c[Len(s) + k] = r[k]
    BY <1>2, <1>3, <1>4
  <2> QED BY <2>1 DEF ToSet
<1>8. ToSet(r) \subseteq ToSet(c)
  BY <1>4, <1>7 DEF ToSet
<1> QED BY <1>2, <1>5, <1>6, <1>8, IsSeqIntro

-----------------------------------------------------------------------------
(* The least element of a set of numbers. *)

(* A set of numbers has a least one. *)
LEMMA Least ==
    ASSUME NEW T, T \subseteq Nat, T # {}
    PROVE  \E x \in T : \A y \in T : x <= y
<1> DEFINE R == OpToRel(<, Nat)
<1>1. IsWellFoundedOn(R, Nat)
  BY NatLessThanWellFounded
<1>2. \E x \in T : \A y \in T : ~(<<y, x>> \in R)
  <2> HIDE DEF R
  <2> QED BY <1>1, WFMin
<1>3. \A x, y \in Nat : ~(<<y, x>> \in R) => x <= y
  BY DEF OpToRel
<1> QED BY <1>2, <1>3

(* A search returns an index of its hits, 0 for none. *)
LEMMA FirstOfIn ==
    ASSUME NEW T, T \subseteq Nat, 0 \notin T
    PROVE  /\ FirstOf(T) = 0 <=> T = {}
           /\ FirstOf(T) # 0 => FirstOf(T) \in T
<1>1. CASE T = {}
  BY <1>1 DEF FirstOf
<1>2. CASE T # {}
  <2>1. Min(T) \in T
    BY <1>2, Least DEF Min
  <2> QED BY <1>2, <2>1 DEF FirstOf
<1> QED BY <1>1, <1>2

(* The picked elements are those at the indices. *)
LEMMA PickedIn ==
    ASSUME NEW s, IsSeq(s), NEW K, K \subseteq DOMAIN s
    PROVE  /\ Cardinality(K) \in Nat
           /\ \A n \in 1 .. Cardinality(K) : \E k \in K : Picked(s, K)[n] = s[k]
           /\ DOMAIN Picked(s, K) = 1 .. Cardinality(K)
<1> DEFINE Upto(k) == {x \in K : x <= k}
           c == Cardinality(K)
           rank == [k \in K |-> Cardinality(Upto(k))]
<1>1. IsFiniteSet(K) /\ K \subseteq Nat
  <2>1. Len(s) \in Nat /\ DOMAIN s = 1 .. Len(s)
    BY IsSeqFacts
  <2>2. IsFiniteSet(1 .. Len(s))
    BY <2>1, FS_Interval
  <2>3. K \in SUBSET (1 .. Len(s))
    BY <2>1
  <2>4. IsFiniteSet(K)
    BY <2>2, <2>3, FS_Subset
  <2> QED BY <2>3, <2>4
<1>2. c \in Nat
  BY <1>1, FS_CardinalityType
<1>3. ASSUME NEW k \in K
      PROVE  IsFiniteSet(Upto(k)) /\ Cardinality(Upto(k)) \in 1 .. c
  <2>1. IsFiniteSet(Upto(k)) /\ Cardinality(Upto(k)) <= c
    BY <1>1, FS_Subset
  <2>2. Cardinality(Upto(k)) \in Nat
    BY <2>1, FS_CardinalityType
  <2>3. k \in Upto(k)
    BY <1>1
  <2>4. Cardinality(Upto(k)) # 0
    BY <2>1, <2>3, FS_EmptySet
  <2> QED BY <1>2, <2>1, <2>2, <2>4
<1>4. ASSUME NEW j \in K, NEW k \in K, j < k
      PROVE  Cardinality(Upto(j)) # Cardinality(Upto(k))
  <2>1. Upto(j) \in SUBSET Upto(k) /\ k \in Upto(k) /\ k \notin Upto(j)
    BY <1>1, <1>4
  <2>2. IsFiniteSet(Upto(k))
    BY <1>3
  <2> QED BY <2>1, <2>2, FS_Subset
<1>5. rank \in Injection(K, 1 .. c)
  <2>1. rank \in [K -> 1 .. c]
    BY <1>3
  <2>2. ASSUME NEW j \in K, NEW k \in K, j # k PROVE rank[j] # rank[k]
    <3>1. j < k \/ k < j
      BY <1>1, <2>2
    <3> QED BY <1>4, <3>1
  <2> HIDE DEF rank
  <2> QED BY <2>1, <2>2 DEF Injection, IsInjective
<1>6. rank \in Surjection(K, 1 .. c)
  <2>1. IsFiniteSet(1 .. c) /\ Cardinality(1 .. c) = c
    BY <1>2, FS_Interval
  <2> HIDE DEF rank
  <2> QED BY <1>5, <2>1, FS_Injection
<1>7. ASSUME NEW n \in 1 .. c PROVE \E k \in K : Cardinality(Upto(k)) = n
  <2>1. \E k \in K : rank[k] = n
    <3> HIDE DEF rank
    <3> QED BY <1>6, <1>7 DEF Surjection
  <2> QED BY <2>1
<1>8. ASSUME NEW n \in 1 .. c PROVE \E k \in K : Picked(s, K)[n] = s[k]
  <2> DEFINE k0 == CHOOSE k \in K : Cardinality(Upto(k)) = n
  <2>1. k0 \in K
    BY <1>7
  <2>2. Picked(s, K)[n] = s[k0]
    BY DEF Picked
  <2> QED BY <2>1, <2>2
<1> QED BY <1>2, <1>8 DEF Picked

(* What reading the first entries of a policy file leaves: the function    *)
(* that ReadDispatchFile is defined with exists.                           *)
(* The table before the first entry, and the tables after k entries. *)
NoPolicies == [paths |-> <<>>, forest |-> <<>>, stopped |-> FALSE]

Reads(f, raws, n) ==
    f = [k \in 0 .. n |-> IF k = 0 THEN NoPolicies ELSE ReadPolicy(f[k - 1], raws[k])]

(* There is such a list, however long the file: a least length without one *)
(* would have a predecessor with one, and one more entry extends that.     *)
LEMMA ReadsExists ==
    ASSUME NEW raws, NEW n \in Nat
    PROVE  \E f : Reads(f, raws, n)
<1> DEFINE Bad == {k \in Nat : ~ \E f : Reads(f, raws, k)}
<1>1. ASSUME Bad # {} PROVE FALSE
  <2>1. PICK k \in Bad : \A j \in Bad : k <= j
    BY <1>1, Least
  <2>2. k # 0
    <3>1. Reads([j \in 0 .. 0 |-> NoPolicies], raws, 0)
      BY DEF Reads
    <3> QED BY <2>1, <3>1
  <2>3. k - 1 \in Nat /\ k - 1 \notin Bad
    BY <2>1, <2>2
  <2>4. PICK f : Reads(f, raws, k - 1)
    BY <2>3
  <2> DEFINE g == [j \in 0 .. k |-> IF j = k THEN ReadPolicy(f[k - 1], raws[k]) ELSE f[j]]
  <2>5. ASSUME NEW j \in 0 .. k
        PROVE  g[j] = IF j = 0 THEN NoPolicies ELSE ReadPolicy(g[j - 1], raws[j])
    <3>1. CASE j = k
      BY <2>2, <2>3, <3>1
    <3>2. CASE j # k
      <4>1. j \in 0 .. k - 1 /\ g[j] = f[j]
        BY <2>3, <3>2
      <4>2. f[j] = IF j = 0 THEN NoPolicies ELSE ReadPolicy(f[j - 1], raws[j])
        BY <2>4, <4>1 DEF Reads
      <4>3. j # 0 => g[j - 1] = f[j - 1]
        BY <2>3, <4>1
      <4> QED BY <4>1, <4>2, <4>3
    <3> QED BY <3>1, <3>2
  <2>6. Reads(g, raws, k)
    <3>1. g = [j \in 0 .. k |-> g[j]]
      OBVIOUS
    <3> HIDE DEF g
    <3>2. [j \in 0 .. k |-> g[j]]
            = [j \in 0 .. k |-> IF j = 0 THEN NoPolicies ELSE ReadPolicy(g[j - 1], raws[j])]
      BY <2>5
    <3> QED BY <3>1, <3>2 DEF Reads
  <2> QED BY <2>1, <2>6
<1> QED BY <1>1

(* read_dispatch_file reads its entries one by one. *)
LEMMA ReadSteps ==
    ASSUME NEW raws, Len(raws) \in Nat
    PROVE  \E f : /\ ReadDispatchFile(raws) = f[Len(raws)]
                  /\ f[0] = NoPolicies
                  /\ \A k \in 1 .. Len(raws) : f[k] = ReadPolicy(f[k - 1], raws[k])
<1> DEFINE n == Len(raws)
           F == CHOOSE f : Reads(f, raws, n)
<1>1. Reads(F, raws, n)
  BY ReadsExists
<1>2. ReadDispatchFile(raws) = F[n]
  BY DEF ReadDispatchFile, Reads, NoPolicies
<1> HIDE DEF F
<1>3. \A k \in 0 .. n : F[k] = IF k = 0 THEN NoPolicies ELSE ReadPolicy(F[k - 1], raws[k])
  BY <1>1 DEF Reads
<1> QED BY <1>2, <1>3
(* The parts of a sound table: where a node leads, what its branches are,  *)
(* its nodes, its paths.                                                   *)
Leads(i, level, leg, node) ==
    \/ node.kind \in {"LOCAL", "PORT", "FINISH"}
    \/ /\ leg = "main" /\ node.kind \in {"NAME", "CONN"}
       /\ Ahead(level, i, node.to)

BranchOK(paths, b) ==
    /\ b.path \in DOMAIN paths
    /\ paths[b.path].sender = Empty
    /\ b.kind = "DUP" => paths[b.path].flow = "DELIVER"
    /\ b.kind = "ASPECT" => paths[b.path].flow = "QUERY"

NodeOK(i, level, paths, leg, node) ==
    /\ DOMAIN node = {"kind", "to", "branches"}
    /\ Leads(i, level, leg, node)
    /\ IsSeq(node.branches)
    /\ \A b \in ToSet(node.branches) : BranchOK(paths, b)

PathOK(i, level, paths, p) ==
    /\ {"main", "resp", "flow", "sender"} \subseteq DOMAIN p
    /\ p.flow \in {"DELIVER", "QUERY"}
    /\ \A leg \in {"main", "resp"} :
          /\ IsSeq(Leg(p, leg))
          /\ \A node \in ToSet(Leg(p, leg)) : NodeOK(i, level, paths, leg, node)

TableOK(i, level, t) ==
    /\ DOMAIN t = {"paths", "forest", "stopped"}
    /\ IsSeq(t.paths) /\ IsSeq(t.forest)
    /\ ToSet(t.forest) \subseteq DOMAIN t.paths
    /\ \A k \in DOMAIN t.paths : PathOK(i, level, t.paths, t.paths[k])

-----------------------------------------------------------------------------
(* A list with its n-th element replaced. *)
Updated(s, n, e) == [s EXCEPT ![n] = e]

(* A list with one element replaced. *)
LEMMA UpdatedSeq ==
    ASSUME NEW s, NEW n, NEW e, IsSeq(s)
    PROVE  /\ IsSeq(Updated(s, n, e)) /\ DOMAIN Updated(s, n, e) = DOMAIN s
           /\ Len(Updated(s, n, e)) = Len(s)
           /\ \A x \in ToSet(Updated(s, n, e)) : x \in ToSet(s) \/ (n \in DOMAIN s /\ x = e)
<1> DEFINE r == Updated(s, n, e)
           S == ToSet(s) \cup {e}
<1>1. Len(s) \in Nat /\ DOMAIN s = 1 .. Len(s)
  BY IsSeqFacts
<1>2. DOMAIN r = DOMAIN s
  BY DEF Updated
<1>3. \A k \in DOMAIN s : r[k] = IF k = n THEN e ELSE s[k]
  BY DEF Updated
<1>4. r = [k \in DOMAIN s |-> r[k]]
  BY DEF Updated
<1> HIDE DEF r
<1>5. \A k \in DOMAIN s : r[k] \in S
  BY <1>3 DEF ToSet
<1>6. r \in Seq(S) /\ Len(r) = Len(s)
  <2>1. r \in [1 .. Len(s) -> S]
    BY <1>1, <1>4, <1>5
  <2> QED BY <1>1, <2>1
<1>7. ASSUME NEW x \in ToSet(r)
      PROVE  x \in ToSet(s) \/ (n \in DOMAIN s /\ x = e)
  <2>1. PICK k \in DOMAIN s : x = r[k]
    BY <1>2 DEF ToSet
  <2> QED BY <1>3, <2>1 DEF ToSet
<1>8. IsSeq(r)
  BY <1>6, IsSeqIntro
<1> QED BY <1>2, <1>6, <1>7, <1>8 DEF r

(* The nodes made from the rules of an entry lead where the rules do. *)
LEMMA NodesOK ==
    ASSUME NEW i, NEW level, NEW paths, NEW leg, NEW rules, IsSeq(rules),
           \A r \in ToSet(rules) :
               Leads(i, level, leg, [kind |-> r.kind, to |-> r.to, branches |-> <<>>])
    PROVE  /\ IsSeq(Nodes(rules))
           /\ \A node \in ToSet(Nodes(rules)) : NodeOK(i, level, paths, leg, node)
<1> DEFINE New(r) == [kind |-> r.kind, to |-> r.to, branches |-> <<>>]
           fin == [kind |-> "FINISH", to |-> Empty, branches |-> <<>>]
           s == [k \in DOMAIN rules |-> New(rules[k])]
<1>1. Nodes(rules) = Append(s, fin)
  BY DEF Nodes
<1>2. Len(rules) \in Nat /\ DOMAIN rules = 1 .. Len(rules)
  BY IsSeqFacts
<1>3. IsSeq(s)
  <2>1. s \in Seq({New(r) : r \in ToSet(rules)})
    BY <1>2 DEF ToSet
  <2> HIDE DEF s
  <2> QED BY <2>1, IsSeqIntro
<1>4. \A x \in ToSet(s) : \E r \in ToSet(rules) : x = New(r)
  BY DEF ToSet
<1>5. ASSUME NEW x, DOMAIN x = {"kind", "to", "branches"}, Leads(i, level, leg, x), x.branches = <<>>
      PROVE  NodeOK(i, level, paths, leg, x)
  BY <1>5, NilSeq DEF NodeOK
<1>6. \A x \in ToSet(s) : NodeOK(i, level, paths, leg, x)
  BY <1>4, <1>5
<1>7. NodeOK(i, level, paths, leg, fin)
  BY <1>5 DEF Leads
<1> HIDE DEF s, fin
<1> QED BY <1>1, <1>3, <1>6, <1>7, AppendSeq

(* route_read_policy: the path of an entry is sound. *)
LEMMA NewPathOK ==
    ASSUME NEW level, Tiered(level), NEW i \in Inst, NEW k \in DOMAIN Policies[i], NEW paths
    PROVE  PathOK(i, level, paths, NewPath(Policies[i][k]))
<1> DEFINE raw == Policies[i][k]
           p == NewPath(raw)
<1>1. /\ raw.type \in {"DELIVER", "QUERY", "DUP", "ASPECT"}
      /\ IsSeq(raw.main) /\ IsSeq(raw.response)
      /\ \A r \in ToSet(raw.main) \cup ToSet(raw.response) :
             r.kind \in {"LOCAL", "PORT", "NAME", "CONN"}
  BY PoliciesAssumption, IsSeqIntro
<1>2. \A r \in ToSet(raw.main) : r.kind \in {"NAME", "CONN"} => Ahead(level, i, r.to)
  BY DEF Tiered
<1>3. \A r \in ToSet(raw.response) : r.kind \in {"LOCAL", "PORT"}
  BY DEF Tiered
<1>4. /\ p.flow = PathFlow(raw) /\ p.main = Nodes(raw.main)
      /\ p.resp = IF PathFlow(raw) = "QUERY" THEN Nodes(raw.response) ELSE <<>>
      /\ {"main", "resp", "flow", "sender"} \subseteq DOMAIN p
  BY DEF NewPath
<1>5. p.flow \in {"DELIVER", "QUERY"}
  BY <1>1, <1>4 DEF PathFlow
<1> HIDE DEF p, raw
<1>6. /\ IsSeq(p.main)
      /\ \A node \in ToSet(p.main) : NodeOK(i, level, paths, "main", node)
  <2>1. \A r \in ToSet(raw.main) :
            Leads(i, level, "main", [kind |-> r.kind, to |-> r.to, branches |-> <<>>])
    BY <1>1, <1>2 DEF Leads
  <2> QED BY <1>1, <1>4, <2>1, NodesOK
<1>7. /\ IsSeq(p.resp)
      /\ \A node \in ToSet(p.resp) : NodeOK(i, level, paths, "resp", node)
  <2>1. \A r \in ToSet(raw.response) :
            Leads(i, level, "resp", [kind |-> r.kind, to |-> r.to, branches |-> <<>>])
    BY <1>3 DEF Leads
  <2>2. /\ IsSeq(Nodes(raw.response))
        /\ \A node \in ToSet(Nodes(raw.response)) : NodeOK(i, level, paths, "resp", node)
    BY <1>1, <2>1, NodesOK
  <2> QED BY <1>4, <2>2, NilSeq
<1>8. PathOK(i, level, paths, p)
  BY <1>4, <1>5, <1>6, <1>7 DEF PathOK, Leg
<1> QED BY <1>8 DEF p, raw

(* A path stays sound when the table grows. *)
LEMMA PathStaysOK ==
    ASSUME NEW i, NEW level, NEW paths, NEW more, NEW p, PathOK(i, level, paths, p),
           \A k \in DOMAIN paths : /\ k \in DOMAIN more /\ more[k].flow = paths[k].flow
                                   /\ more[k].sender = paths[k].sender
    PROVE  PathOK(i, level, more, p)
<1>1. \A b : BranchOK(paths, b) => BranchOK(more, b)
  BY DEF BranchOK
<1>2. \A leg, node : NodeOK(i, level, paths, leg, node) => NodeOK(i, level, more, leg, node)
  BY <1>1 DEF NodeOK
<1> QED BY <1>2 DEF PathOK

(* A branch put at a node. *)
Grafted(list, n, b) == [list EXCEPT ![n].branches = Append(@, b)]

(* The list a branch is put into stays sound. *)
LEMMA GraftedOK ==
    ASSUME NEW i, NEW level, NEW paths, NEW leg, NEW list, NEW n, NEW b,
           BranchOK(paths, b), IsSeq(list),
           \A node \in ToSet(list) : NodeOK(i, level, paths, leg, node)
    PROVE  /\ IsSeq(Grafted(list, n, b))
           /\ \A node \in ToSet(Grafted(list, n, b)) : NodeOK(i, level, paths, leg, node)
<1> DEFINE x == [list[n] EXCEPT !.branches = Append(@, b)]
<1>1. Grafted(list, n, b) = Updated(list, n, x)
  BY DEF Grafted, Updated
<1>2. ASSUME n \in DOMAIN list PROVE NodeOK(i, level, paths, leg, x)
  <2>1. NodeOK(i, level, paths, leg, list[n])
    BY <1>2 DEF ToSet
  <2>2. DOMAIN list[n] = {"kind", "to", "branches"} /\ IsSeq(list[n].branches)
    BY <2>1 DEF NodeOK
  <2>3. /\ DOMAIN x = {"kind", "to", "branches"}
        /\ x.kind = list[n].kind /\ x.to = list[n].to
        /\ x.branches = Append(list[n].branches, b)
    BY <2>2
  <2>4. IsSeq(x.branches) /\ ToSet(x.branches) = ToSet(list[n].branches) \cup {b}
    BY <2>2, <2>3, AppendSeq
  <2>5. Leads(i, level, leg, x)
    <3>1. Leads(i, level, leg, list[n])
      BY <2>1 DEF NodeOK
    <3> HIDE DEF x
    <3> QED BY <2>3, <3>1 DEF Leads
  <2> HIDE DEF x
  <2> QED BY <2>1, <2>3, <2>4, <2>5 DEF NodeOK
<1> HIDE DEF x
<1> QED BY <1>1, <1>2, UpdatedSeq

(* The same paths, but for their branches. *)
SameFlows(paths, more) ==
    /\ DOMAIN more = DOMAIN paths /\ Len(more) = Len(paths)
    /\ \A k \in DOMAIN paths : /\ more[k].flow = paths[k].flow
                               /\ more[k].sender = paths[k].sender

(* The base policy of a branch, and all others, stay sound with it. *)
LEMMA WithBranchOK ==
    ASSUME NEW i, NEW level, NEW paths, NEW more, NEW base \in DOMAIN paths, NEW raw, NEW b,
           IsSeq(paths), BranchOK(more, b),
           \A k \in DOMAIN paths : PathOK(i, level, more, paths[k])
    PROVE  /\ IsSeq(WithBranch(paths, base, raw, b))
           /\ SameFlows(paths, WithBranch(paths, base, raw, b))
           /\ \A k \in DOMAIN paths :
                 PathOK(i, level, more, WithBranch(paths, base, raw, b)[k])
<1> DEFINE n == raw.ljump
           p == paths[base]
           m == [p EXCEPT !.main = Grafted(p.main, n, b)]
           r == [p EXCEPT !.resp = Grafted(p.resp, n, b)]
           x == IF raw.rjump >= 0 THEN m ELSE r
<1>1. WithBranch(paths, base, raw, b) = Updated(paths, base, x)
  BY DEF WithBranch, Updated, Grafted
<1>2. PathOK(i, level, more, p)
  OBVIOUS
<1>3. /\ {"main", "resp", "flow", "sender"} \subseteq DOMAIN p /\ p.flow \in {"DELIVER", "QUERY"}
      /\ IsSeq(p.main) /\ IsSeq(p.resp)
      /\ \A node \in ToSet(p.main) : NodeOK(i, level, more, "main", node)
      /\ \A node \in ToSet(p.resp) : NodeOK(i, level, more, "resp", node)
  BY <1>2 DEF PathOK, Leg
<1>4. /\ IsSeq(Grafted(p.main, n, b))
      /\ \A node \in ToSet(Grafted(p.main, n, b)) : NodeOK(i, level, more, "main", node)
  BY <1>3, GraftedOK
<1>5. /\ IsSeq(Grafted(p.resp, n, b))
      /\ \A node \in ToSet(Grafted(p.resp, n, b)) : NodeOK(i, level, more, "resp", node)
  BY <1>3, GraftedOK
<1>6. /\ DOMAIN m = DOMAIN p /\ m.main = Grafted(p.main, n, b)
      /\ m.resp = p.resp /\ m.flow = p.flow /\ m.sender = p.sender
      /\ DOMAIN r = DOMAIN p /\ r.resp = Grafted(p.resp, n, b)
      /\ r.main = p.main /\ r.flow = p.flow /\ r.sender = p.sender
  BY <1>3
<1> HIDE DEF p, m, r
<1>7. PathOK(i, level, more, m) /\ PathOK(i, level, more, r)
  BY <1>3, <1>4, <1>5, <1>6 DEF PathOK, Leg
<1>8. PathOK(i, level, more, x) /\ x.flow = p.flow /\ x.sender = p.sender
  BY <1>6, <1>7
<1> HIDE DEF x
<1>9. \A k \in DOMAIN paths : Updated(paths, base, x)[k] = IF k = base THEN x ELSE paths[k]
  BY DEF Updated
<1> QED BY <1>1, <1>8, <1>9, UpdatedSeq DEF p, SameFlows

(* What a search of the forest finds is a path of the table. *)
LEMMA ForestOK ==
    ASSUME NEW i, NEW level, NEW t, TableOK(i, level, t), NEW T, T \subseteq DOMAIN t.forest
    PROVE  /\ FirstOf(T) # 0 => t.forest[FirstOf(T)] \in DOMAIN t.paths
           /\ DOMAIN t.paths \subseteq Nat \ {0}
<1>1. IsSeq(t.forest) /\ IsSeq(t.paths) /\ ToSet(t.forest) \subseteq DOMAIN t.paths
  BY DEF TableOK
<1>2. DOMAIN t.forest \subseteq Nat \ {0} /\ DOMAIN t.paths \subseteq Nat \ {0}
  BY <1>1, IsSeqFacts
<1>3. T \subseteq Nat /\ 0 \notin T
  BY <1>2
<1>4. FirstOf(T) # 0 => FirstOf(T) \in DOMAIN t.forest
  BY <1>3, FirstOfIn
<1> QED BY <1>1, <1>2, <1>4, IsSeqFacts

(* router_find_route_policy and router_find_policy_byname return policies  *)
(* of the table.                                                           *)
LEMMA FoundOK ==
    ASSUME NEW i, NEW level, NEW t, TableOK(i, level, t)
    PROVE  /\ \A m : FindRoutePolicy(t, m) # 0 => FindRoutePolicy(t, m) \in DOMAIN t.paths
           /\ \A name, rjump, ljump :
                 FindPolicyByName(t, name, rjump, ljump) # 0
                     => FindPolicyByName(t, name, rjump, ljump) \in DOMAIN t.paths
           /\ DOMAIN t.paths \subseteq Nat \ {0}
<1>1. ASSUME NEW m, FindRoutePolicy(t, m) # 0 PROVE FindRoutePolicy(t, m) \in DOMAIN t.paths
  <2> DEFINE T == {f \in DOMAIN t.forest : MatchesPolicy(t.paths[t.forest[f]], m)}
  <2>1. FindRoutePolicy(t, m) = IF FirstOf(T) = 0 THEN 0 ELSE t.forest[FirstOf(T)]
    BY DEF FindRoutePolicy
  <2>2. T \subseteq DOMAIN t.forest
    OBVIOUS
  <2> HIDE DEF T
  <2> QED BY <1>1, <2>1, <2>2, ForestOK
<1>2. ASSUME NEW name, NEW rjump, NEW ljump, FindPolicyByName(t, name, rjump, ljump) # 0
      PROVE  FindPolicyByName(t, name, rjump, ljump) \in DOMAIN t.paths
  <2> DEFINE T == {f \in DOMAIN t.forest :
                        LET p == t.paths[t.forest[f]]
                        IN  /\ p.name = name
                            /\ p.rjump = 0 \/ p.rjump = rjump \/ p.rjump = -rjump
                            /\ ljump = 0 \/ p.ljump = 0 \/ p.ljump = ljump}
  <2>1. FindPolicyByName(t, name, rjump, ljump)
            = IF FirstOf(T) = 0 THEN 0 ELSE t.forest[FirstOf(T)]
    BY DEF FindPolicyByName
  <2>2. T \subseteq DOMAIN t.forest
    OBVIOUS
  <2> HIDE DEF T
  <2> QED BY <1>2, <2>1, <2>2, ForestOK
<1>3. DOMAIN t.paths \subseteq Nat \ {0}
  BY ForestOK
<1> QED BY <1>1, <1>2, <1>3

(* Reading one more entry keeps the table sound. *)
LEMMA ReadPolicyOK ==
    ASSUME NEW level, Tiered(level), NEW i \in Inst, NEW k \in DOMAIN Policies[i],
           NEW t, TableOK(i, level, t)
    PROVE  TableOK(i, level, ReadPolicy(t, Policies[i][k]))
<1> DEFINE raw  == Policies[i][k]
           base == FindPolicyByName(t, raw.name, raw.rjump, raw.ljump)
           new  == Len(t.paths) + 1
           br   == [kind |-> raw.type, path |-> new]
           kept == IF IsBranch(raw) THEN WithBranch(t.paths, base, raw, br) ELSE t.paths
           more == Append(kept, NewPath(raw))
           u == [t EXCEPT !.paths  = more,
                          !.forest = IF raw.state = "open" THEN Append(@, new) ELSE @]
<1>1. ReadPolicy(t, raw) = IF t.stopped \/ (IsBranch(raw) /\ base = 0)
                           THEN [t EXCEPT !.stopped = TRUE] ELSE u
  BY DEF ReadPolicy
<1>2. /\ DOMAIN t = {"paths", "forest", "stopped"}
      /\ IsSeq(t.paths) /\ IsSeq(t.forest) /\ ToSet(t.forest) \subseteq DOMAIN t.paths
      /\ \A j \in DOMAIN t.paths : PathOK(i, level, t.paths, t.paths[j])
  BY DEF TableOK
<1>3. TableOK(i, level, [t EXCEPT !.stopped = TRUE])
  <2>1. /\ DOMAIN [t EXCEPT !.stopped = TRUE] = {"paths", "forest", "stopped"}
        /\ [t EXCEPT !.stopped = TRUE].paths = t.paths
        /\ [t EXCEPT !.stopped = TRUE].forest = t.forest
    BY <1>2
  <2> QED BY <1>2, <2>1 DEF TableOK
<1>4. ASSUME ~(IsBranch(raw) /\ base = 0)
      PROVE  TableOK(i, level, u)
  <2>1. new \in Nat /\ DOMAIN t.paths = 1 .. Len(t.paths) /\ Len(t.paths) \in Nat
    BY <1>2, IsSeqFacts
  <2>2. IsBranch(raw) => base \in DOMAIN t.paths
    <3> HIDE DEF raw
    <3> QED BY <1>4, FoundOK
  <2>3. /\ raw.type = "DUP" => NewPath(raw).flow = "DELIVER"
        /\ raw.type = "ASPECT" => NewPath(raw).flow = "QUERY"
        /\ IsBranch(raw) => NewPath(raw).sender = Empty
    BY DEF NewPath, PathFlow
  <2> HIDE DEF base, raw
  (* the table with the new path, and the old flows *)
  <2> DEFINE flows == Append(t.paths, NewPath(raw))
  <2>4. /\ DOMAIN flows = 1 .. new
        /\ \A j \in DOMAIN t.paths : flows[j] = t.paths[j]
        /\ flows[new] = NewPath(raw)
    <3>1. IsSeq(flows) /\ Len(flows) = Len(t.paths) + 1
      BY <1>2, AppendSeq
    <3> QED BY <1>2, <2>1, <3>1, AppendSeq, IsSeqFacts
  <2> HIDE DEF flows
  <2>5. IsBranch(raw) => BranchOK(flows, br)
    BY <2>1, <2>3, <2>4 DEF BranchOK
  <2>6. \A j \in DOMAIN t.paths : PathOK(i, level, flows, t.paths[j])
    BY <1>2, <2>1, <2>4, PathStaysOK
  <2> HIDE DEF br
  <2>7. /\ IsSeq(kept) /\ DOMAIN kept = DOMAIN t.paths /\ Len(kept) = Len(t.paths)
        /\ \A j \in DOMAIN t.paths : /\ PathOK(i, level, flows, kept[j])
                                     /\ kept[j].flow = t.paths[j].flow
                                     /\ kept[j].sender = t.paths[j].sender
    <3>1. CASE IsBranch(raw)
      <4>1. kept = WithBranch(t.paths, base, raw, br)
        BY <3>1
      <4>2. base \in DOMAIN t.paths
        BY <2>2, <3>1
      <4> HIDE DEF kept
      <4>3. /\ IsSeq(WithBranch(t.paths, base, raw, br))
            /\ SameFlows(t.paths, WithBranch(t.paths, base, raw, br))
            /\ \A j \in DOMAIN t.paths :
                  PathOK(i, level, flows, WithBranch(t.paths, base, raw, br)[j])
        BY <1>2, <2>5, <2>6, <3>1, <4>2, WithBranchOK
      <4> QED BY <4>1, <4>3 DEF SameFlows
    <3>2. CASE ~IsBranch(raw)
      BY <1>2, <2>6, <3>2
    <3> QED BY <3>1, <3>2
  <2> HIDE DEF kept
  <2>8. /\ IsSeq(more) /\ Len(more) = new /\ DOMAIN more = 1 .. new
        /\ \A j \in DOMAIN t.paths : more[j] = kept[j]
        /\ more[new] = NewPath(raw)
    <3>1. IsSeq(more) /\ Len(more) = Len(kept) + 1
      BY <2>7, AppendSeq
    <3> QED BY <2>1, <2>7, <3>1, AppendSeq, IsSeqFacts
  <2> HIDE DEF more
  <2>9. \A j \in DOMAIN flows : /\ j \in DOMAIN more /\ more[j].flow = flows[j].flow
                                /\ more[j].sender = flows[j].sender
    BY <2>1, <2>4, <2>7, <2>8
  <2>10. ASSUME NEW j \in DOMAIN more PROVE PathOK(i, level, more, more[j])
    <3>1. CASE j \in DOMAIN t.paths
      BY <2>7, <2>8, <2>9, <3>1, PathStaysOK
    <3>2. CASE j = new
      <4>1. PathOK(i, level, more, NewPath(raw))
        BY NewPathOK DEF raw
      <4> QED BY <2>8, <3>2, <4>1
    <3> QED BY <2>1, <2>8, <3>1, <3>2
  <2>11. /\ DOMAIN u = {"paths", "forest", "stopped"} /\ u.paths = more
         /\ u.forest = t.forest \/ u.forest = Append(t.forest, new)
    BY <1>2
  <2> HIDE DEF u, new
  <2>12. IsSeq(u.forest) /\ ToSet(u.forest) \subseteq ToSet(t.forest) \cup {new}
    <3>1. /\ IsSeq(Append(t.forest, new))
          /\ ToSet(Append(t.forest, new)) = ToSet(t.forest) \cup {new}
      BY <1>2, AppendSeq
    <3> QED BY <1>2, <2>11, <3>1
  <2>13. DOMAIN t.paths \subseteq DOMAIN more /\ new \in DOMAIN more
    BY <2>1, <2>8 DEF new
  <2> QED BY <1>2, <2>8, <2>10, <2>11, <2>12, <2>13 DEF TableOK
<1> QED BY <1>1, <1>3, <1>4

(* The table of every instance is sound, whatever its policy file. *)
LEMMA TablesOK ==
    ASSUME NEW level, Tiered(level), NEW i \in Inst
    PROVE  TableOK(i, level, Table[i])
<1> DEFINE raws == Policies[i]
<1>1. IsSeq(raws)
  BY PoliciesAssumption, IsSeqIntro
<1>2. Len(raws) \in Nat /\ DOMAIN raws = 1 .. Len(raws)
  BY <1>1, IsSeqFacts
<1>3. PICK f : /\ ReadDispatchFile(raws) = f[Len(raws)]
               /\ f[0] = NoPolicies
               /\ \A k \in 1 .. Len(raws) : f[k] = ReadPolicy(f[k - 1], raws[k])
  BY <1>2, ReadSteps
<1>4. TableOK(i, level, NoPolicies)
  <2>1. /\ DOMAIN NoPolicies = {"paths", "forest", "stopped"}
        /\ NoPolicies.paths = <<>> /\ NoPolicies.forest = <<>>
    BY DEF NoPolicies
  <2>2. DOMAIN <<>> = {}
    OBVIOUS
  <2> QED BY <2>1, <2>2, NilSeq DEF TableOK
<1> DEFINE Bad == {k \in 0 .. Len(raws) : ~TableOK(i, level, f[k])}
<1>5. ASSUME Bad # {} PROVE FALSE
  <2>0. Bad \subseteq Nat
    BY <1>2
  <2>1. PICK k \in Bad : \A j \in Bad : k <= j
    <3> HIDE DEF Bad
    <3> QED BY <1>5, <2>0, Least
  <2>2. k \in 1 .. Len(raws) /\ k - 1 \in 0 .. Len(raws)
    BY <1>2, <1>3, <1>4, <2>1
  <2>3. k - 1 \notin Bad
    BY <2>1, <2>2
  <2>4. TableOK(i, level, f[k - 1])
    BY <2>2, <2>3
  <2>5. f[k] = ReadPolicy(f[k - 1], raws[k])
    BY <1>3, <2>2
  <2>6. TableOK(i, level, f[k])
    BY <1>2, <2>2, <2>4, <2>5, ReadPolicyOK
  <2> QED BY <2>1, <2>6
<1>6. TableOK(i, level, f[Len(raws)])
  BY <1>2, <1>5
<1> QED BY <1>3, <1>6 DEF Table

(* The fields of a message. *)
MsgFields == {"type", "nonce", "sender", "receiver", "local", "flow", "state", "ljump",
              "rjump", "route", "policy", "site", "trail"}

IsMsg(m) ==
    /\ DOMAIN m = MsgFields
    /\ m.local \in BOOLEAN /\ m.rjump \in Int
    /\ DOMAIN m.site = {"leg", "at"} /\ m.site.at \in Nat

(* A query of nonce n has left a trace at i. *)
Traced(tr, i, n) == \E t \in ToSet(tr[i]) : t.kind = "query" /\ t.nonce = n

(* The hops a message of nonce n may have counted at i. *)
Counted(or, level, i, n, hops) ==
    /\ n \in DOMAIN or
    /\ or[n].inst \in Inst
    /\ level[i] >= level[or[n].inst]
    /\ hops <= 1 + level[i] - level[or[n].inst]

(* A step back, from i to j. *)
Back(tr, or, level, i, j, n) ==
    /\ <<i, j>> \in Joined
    /\ Traced(tr, j, n)
    /\ level[j] = level[i] - 1
    /\ n \in DOMAIN or /\ or[n].inst \in Inst /\ level[j] >= level[or[n].inst]

(* The message is at a place of a path, or past it. *)
SiteOK(i, m) ==
    /\ m.policy \in DOMAIN Table[i].paths
    /\ m.site.leg \in {"main", "resp", "none"}
    /\ m.site.leg # "none" => m.site.at \in 0 .. Len(Leg(Path(i, m), m.site.leg))

(* A message of the router of i: its query has its trace, and no more hops *)
(* than tiers.                                                             *)
Underway(tr, or, level, i, m) ==
    /\ IsMsg(m)
    /\ m.flow \in {"DELIVER", "QUERY"}
    /\ SiteOK(i, m)
    /\ m.state = "RESPONSE" => m.flow = "QUERY"
    /\ m.flow = "QUERY" =>
          Traced(tr, i, m.nonce) /\ Counted(or, level, i, m.nonce, m.rjump)

(* On the waiting list. *)
WaitingOK(tr, or, level, i, m) ==
    /\ Underway(tr, or, level, i, m)
    /\ m.state = "RESPONSE" => m.site.leg = "resp"

(* Sent, to a module or to the connector: a response to another instance   *)
(* goes a step back, a query a step ahead.                                 *)
SentOK(tr, or, level, i, m) ==
    /\ Underway(tr, or, level, i, m)
    /\ m.state = "RESPONSE" /\ m.local => m.site.leg = "resp"
    /\ m.state = "RESPONSE" /\ ~m.local => Back(tr, or, level, i, m.receiver, m.nonce)
    /\ m.flow = "QUERY" /\ m.state # "RESPONSE" /\ ~m.local
          => Ahead(level, i, m.receiver)

(* On its way from j to i. *)
ArrivingOK(tr, or, level, j, i, m) ==
    /\ IsMsg(m)
    /\ m.policy = 0 /\ m.flow \in {"DELIVER", "QUERY"}
    /\ m.state = "RESPONSE" => m.flow = "QUERY"
    /\ m.state = "RESPONSE" =>
          Traced(tr, i, m.nonce) /\ Counted(or, level, i, m.nonce, m.rjump - 1)
    /\ m.flow = "QUERY" /\ m.state # "RESPONSE" =>
          /\ Back(tr, or, level, i, j, m.nonce)
          /\ Counted(or, level, j, m.nonce, m.rjump)

(* Created by a module of i. *)
FreshOK(or, i, m) ==
    /\ m.policy = 0 /\ m.flow = "none" /\ m.state # "RESPONSE" /\ m.rjump = 0
    /\ m.nonce \in DOMAIN or /\ or[m.nonce].inst = i

(* A trace of a query names where it came from; one of an aspect keeps a   *)
(* message that may be sent.                                               *)
TraceOK(tr, or, level, i, t) ==
    \/ /\ t.kind = "query"
       /\ t.policy \in DOMAIN Table[i].paths
       /\ t.nonce \in DOMAIN or /\ or[t.nonce].inst \in Inst
       /\ or[t.nonce].inst # i => Back(tr, or, level, i, t.source, t.nonce)
    \/ /\ t.kind = "aspect"
       /\ SentOK(tr, or, level, i, t.saved[1])

(* On a send queue, the connector's or another module's. *)
EntryOK(tr, or, level, i, mod, e) ==
    LET m == DupActive(e)
    IN  IF mod = Conn
        THEN m.sender \in Inst /\ ArrivingOK(tr, or, level, m.sender, i, m)
        ELSE IsMsg(m) /\ (FreshOK(or, i, m) \/ WaitingOK(tr, or, level, i, m))

(* The lists and tables have their shape, *)
QueuesShape(q) ==
    /\ DOMAIN q = Inst
    /\ \A i \in Inst : DOMAIN q[i] = ModSet(i) /\ \A mod \in ModSet(i) : IsSeq(q[i][mod])
ListsShape(w) == DOMAIN w = Inst /\ \A i \in Inst : IsSeq(w[i])
NetShape(n)   == DOMAIN n = Joined /\ \A l \in Joined : IsSeq(n[l])

Shape ==
    /\ QueuesShape(sendq) /\ QueuesShape(recvq)
    /\ ListsShape(waiting) /\ ListsShape(traces) /\ NetShape(net)
    /\ pc \in [Inst -> Nat \ {0}]
    /\ IsSeq(origin) /\ nonces = Len(origin)

(* and what they hold is sound. *)
SendqOK(q, tr, or, level) ==
    \A i \in Inst : \A mod \in ModSet(i) :
        \A e \in ToSet(q[i][mod]) : EntryOK(tr, or, level, i, mod, e)
RecvqOK(q, tr, or, level) ==
    \A i \in Inst : \A mod \in ModSet(i) :
        \A m \in ToSet(q[i][mod]) : SentOK(tr, or, level, i, m) /\ (mod # Conn => m.local)
ListsOK(w, tr, or, level) ==
    \A i \in Inst : \A m \in ToSet(w[i]) : WaitingOK(tr, or, level, i, m)
TracesOK(tr, or, level) ==
    \A i \in Inst : \A t \in ToSet(tr[i]) : TraceOK(tr, or, level, i, t)
NetOK(n, tr, or, level) ==
    \A l \in Joined : \A m \in ToSet(n[l]) : ArrivingOK(tr, or, level, l[1], l[2], m)

Carried(level) ==
    /\ \A i \in Inst : ~dead[i]
    /\ SendqOK(sendq, traces, origin, level)
    /\ RecvqOK(recvq, traces, origin, level)
    /\ ListsOK(waiting, traces, origin, level)
    /\ TracesOK(traces, origin, level)
    /\ NetOK(net, traces, origin, level)

(* The inductive invariant. *)
IInv(level) == restarts \in Nat /\ (restarts = 0 => Shape /\ Carried(level))

-----------------------------------------------------------------------------
(* Moving along a path. *)

(* The fields that moving leaves as they are *)
SameHead(x, m) ==
    /\ x.flow = m.flow /\ x.state = m.state /\ x.nonce = m.nonce /\ x.rjump = m.rjump
    /\ x.policy = m.policy /\ x.sender = m.sender

(* message_route_setnext stays on the path, and only a node of the main    *)
(* list leads to another instance.                                         *)
LEMMA NextOK ==
    ASSUME NEW level, Tiered(level), NEW i \in Inst, NEW m, IsMsg(m), SiteOK(i, m)
    PROVE  LET nx == SetNext(Table[i], m)
           IN  /\ IsMsg(nx.msg) /\ SiteOK(i, nx.msg) /\ SameHead(nx.msg, m)
               /\ nx.ret \in {"end", "FINISH", "LOCAL", "PORT", "NAME", "CONN"}
               /\ nx.ret = "end" => nx.msg.receiver = Empty
               /\ nx.ret \in {"LOCAL", "PORT"} => nx.msg.local
               /\ nx.ret \in {"NAME", "CONN"} =>
                     /\ m.site.leg # "resp"
                     /\ Ahead(level, i, nx.msg.receiver)
               /\ m.site.leg = "resp" => nx.msg.site.leg = "resp"
<1> DEFINE t == Table[i]
           nx == SetNext(t, m)
           list == Leg(t.paths[m.policy], m.site.leg)
           at == m.site.at + 1
           past == m.site.leg = "none" \/ at > Len(list)
           e == [m EXCEPT !.receiver = Empty,
                          !.site = IF m.site.leg = "resp" THEN [leg |-> "resp", at |-> 0] ELSE NoSite]
           a == [m EXCEPT !.site.at = at]
<1>1. nx = IF past THEN [ret |-> "end", msg |-> e]
           ELSE [ret |-> list[at].kind, msg |-> GetTarget(list[at], a)]
  BY DEF SetNext
<1>2. /\ DOMAIN m = MsgFields /\ m.local \in BOOLEAN /\ m.rjump \in Int
      /\ DOMAIN m.site = {"leg", "at"} /\ m.site.at \in Nat
  BY DEF IsMsg
<1>3. /\ m.policy \in DOMAIN t.paths /\ m.site.leg \in {"main", "resp", "none"}
      /\ m.site.leg # "none" => m.site.at \in 0 .. Len(list)
  BY DEF SiteOK, Path
<1>4. TableOK(i, level, t)
  BY TablesOK
<1>5. m.site.leg # "none" =>
         /\ IsSeq(list)
         /\ \A node \in ToSet(list) : NodeOK(i, level, t.paths, m.site.leg, node)
  BY <1>3, <1>4 DEF TableOK, PathOK
<1>6. CASE past
  <2>1. nx.ret = "end" /\ nx.msg = e
    BY <1>1, <1>6
  <2>2. /\ DOMAIN e = MsgFields /\ e.local = m.local /\ e.rjump = m.rjump /\ e.receiver = Empty
        /\ SameHead(e, m)
        /\ e.site = IF m.site.leg = "resp" THEN [leg |-> "resp", at |-> 0] ELSE NoSite
    BY <1>2 DEF MsgFields, SameHead
  <2> HIDE DEF e
  <2>3. /\ DOMAIN e.site = {"leg", "at"} /\ e.site.at = 0
        /\ e.site.leg = IF m.site.leg = "resp" THEN "resp" ELSE "none"
    BY <2>2 DEF NoSite
  <2>4. IsMsg(e)
    BY <1>2, <2>2, <2>3 DEF IsMsg
  <2>5. SiteOK(i, e)
    <3>1. m.site.leg = "resp" => 0 \in 0 .. Len(list)
      BY <1>5, IsSeqFacts
    <3> QED BY <1>3, <2>2, <2>3, <3>1 DEF SiteOK, Path, SameHead
  <2> QED BY <2>1, <2>2, <2>3, <2>4, <2>5
<1>7. CASE ~past
  <2>1. /\ m.site.leg # "none" /\ at \in 1 .. Len(list) /\ Len(list) \in Nat
        /\ list[at] \in ToSet(list)
    BY <1>2, <1>5, <1>7, IsSeqFacts
  <2> DEFINE node == list[at]
             g == GetTarget(node, a)
  <2>2. Leads(i, level, m.site.leg, node)
    BY <1>5, <2>1 DEF NodeOK
  <2>3. nx.ret = node.kind /\ nx.msg = g
    BY <1>1, <1>7
  <2>4. /\ DOMAIN a = MsgFields /\ a.local = m.local /\ a.rjump = m.rjump /\ SameHead(a, m)
        /\ a.site = [m.site EXCEPT !.at = at] /\ a.receiver = m.receiver
    BY <1>2 DEF MsgFields, SameHead
  <2>5. DOMAIN a.site = {"leg", "at"} /\ a.site.at = at /\ a.site.leg = m.site.leg
    BY <1>2, <2>4
  <2> HIDE DEF a, node, at, list
  <2>6. \/ node.kind \in {"LOCAL", "PORT"} /\ g = [a EXCEPT !.receiver = node.to, !.local = TRUE]
        \/ node.kind \in {"NAME", "CONN"} /\ g = [a EXCEPT !.receiver = node.to, !.local = FALSE]
        \/ node.kind = "FINISH" /\ g = a
    BY <2>2 DEF GetTarget, Leads
  <2>7. /\ DOMAIN g = MsgFields /\ g.local \in BOOLEAN /\ g.rjump = m.rjump
        /\ SameHead(g, m) /\ g.site = a.site
        /\ node.kind \in {"LOCAL", "PORT"} => g.local
        /\ node.kind \in {"NAME", "CONN"} => g.receiver = node.to
    <3>1. CASE node.kind \in {"LOCAL", "PORT"} /\ g = [a EXCEPT !.receiver = node.to, !.local = TRUE]
      <4> HIDE DEF g
      <4>1. /\ DOMAIN g = MsgFields /\ g.local = TRUE /\ g.rjump = a.rjump /\ g.site = a.site
            /\ SameHead(g, a)
        BY <2>4, <3>1 DEF MsgFields, SameHead
      <4> QED BY <2>4, <3>1, <4>1 DEF SameHead
    <3>2. CASE node.kind \in {"NAME", "CONN"} /\ g = [a EXCEPT !.receiver = node.to, !.local = FALSE]
      <4> HIDE DEF g
      <4>1. /\ DOMAIN g = MsgFields /\ g.local = FALSE /\ g.rjump = a.rjump /\ g.site = a.site
            /\ SameHead(g, a) /\ g.receiver = node.to
        BY <2>4, <3>2 DEF MsgFields, SameHead
      <4> QED BY <2>4, <3>2, <4>1 DEF SameHead
    <3>3. CASE node.kind = "FINISH" /\ g = a
      <4> HIDE DEF g
      <4> QED BY <1>2, <2>4, <3>3
    <3> HIDE DEF g
    <3> QED BY <2>6, <3>1, <3>2, <3>3
  <2> HIDE DEF g
  <2>8. IsMsg(g)
    BY <1>2, <2>5, <2>7, <2>1 DEF IsMsg
  <2>9. SiteOK(i, g)
    BY <1>3, <2>1, <2>5, <2>7 DEF SiteOK, Path, SameHead, list
  <2>10. node.kind \in {"FINISH", "LOCAL", "PORT", "NAME", "CONN"}
    BY <2>2 DEF Leads
  <2>11. node.kind \in {"NAME", "CONN"} => m.site.leg = "main" /\ Ahead(level, i, node.to)
    BY <2>2 DEF Leads
  <2> QED BY <2>3, <2>5, <2>7, <2>8, <2>9, <2>10, <2>11
<1> HIDE DEF nx
<1> QED BY <1>6, <1>7 DEF nx

(* Connections are used in both directions. *)
LEMMA JoinedBothWays ==
    ASSUME NEW i, NEW j, <<i, j>> \in Joined
    PROVE  i \in Inst /\ j \in Inst /\ <<j, i>> \in Joined /\ j # Empty
<1>1. CASE <<i, j>> \in Links
  <2>1. <<j, i>> \in {<<l[2], l[1]>> : l \in Links}
    BY <1>1
  <2> QED BY <1>1, <2>1, LinksAssumption DEF Joined
<1>2. CASE <<i, j>> \in {<<l[2], l[1]>> : l \in Links}
  <2>1. PICK l \in Links : i = l[2] /\ j = l[1]
    BY <1>2
  <2>2. l \in Inst \X Inst
    BY LinksAssumption
  <2>3. l = <<j, i>> /\ i \in Inst /\ j \in Inst
    BY <2>1, <2>2
  <2> QED BY <2>3, LinksAssumption DEF Joined
<1> QED BY <1>1, <1>2 DEF Joined

(* message_route_findtrace finds a trace of that nonce and kind if there   *)
(* is one.                                                                 *)
LEMMA FindTraceOK ==
    ASSUME NEW ts, IsSeq(ts), NEW n, NEW kind
    PROVE  /\ FindTrace(ts, n, kind) # 0 =>
                 /\ ts[FindTrace(ts, n, kind)] \in ToSet(ts)
                 /\ ts[FindTrace(ts, n, kind)].nonce = n
                 /\ ts[FindTrace(ts, n, kind)].kind = kind
           /\ FindTrace(ts, n, kind) = 0 => \A t \in ToSet(ts) : ~(t.nonce = n /\ t.kind = kind)
<1> DEFINE T == {k \in DOMAIN ts : ts[k].nonce = n /\ ts[k].kind = kind}
<1>1. T \subseteq Nat /\ 0 \notin T
  BY IsSeqFacts
<1>2. FindTrace(ts, n, kind) = FirstOf(T)
  BY DEF FindTrace
<1>3. /\ FirstOf(T) = 0 <=> T = {}
      /\ FirstOf(T) # 0 => FirstOf(T) \in T
  <2> HIDE DEF T
  <2> QED BY <1>1, FirstOfIn
<1>4. ASSUME FirstOf(T) # 0
      PROVE  /\ ts[FirstOf(T)] \in ToSet(ts)
             /\ ts[FirstOf(T)].nonce = n /\ ts[FirstOf(T)].kind = kind
  BY <1>3, <1>4 DEF ToSet
<1>5. ASSUME FirstOf(T) = 0, NEW t \in ToSet(ts)
      PROVE  ~(t.nonce = n /\ t.kind = kind)
  <2>1. T = {}
    BY <1>3, <1>5
  <2>2. PICK k \in DOMAIN ts : t = ts[k]
    BY DEF ToSet
  <2> QED BY <2>1, <2>2
<1> HIDE DEF T
<1> QED BY <1>2, <1>4, <1>5

(* Whether a message may be sent depends on these fields. *)
LEMMA SentSame ==
    ASSUME NEW tr, NEW or, NEW level, NEW i, NEW m, NEW x, SentOK(tr, or, level, i, m), IsMsg(x),
           x.flow = m.flow, x.state = m.state, x.nonce = m.nonce, x.rjump = m.rjump,
           x.policy = m.policy, x.site = m.site, x.local = m.local, x.receiver = m.receiver
    PROVE  SentOK(tr, or, level, i, x)
<1>1. SiteOK(i, m)
  BY DEF SentOK, Underway
<1>2. SiteOK(i, x)
  BY <1>1 DEF SiteOK, Path
<1>3. Underway(tr, or, level, i, x)
  BY <1>2 DEF SentOK, Underway
<1> QED BY <1>3 DEF SentOK

(* A message that comes back from an aspect is as sound as the one that    *)
(* was set aside.                                                          *)
LEMMA RecoveredOK ==
    ASSUME NEW tr, NEW or, NEW level, NEW i, NEW m, NEW t, NEW trail,
           IsMsg(m), SentOK(tr, or, level, i, t.saved[1])
    PROVE  SentOK(tr, or, level, i, [RecoverAspect(m, t) EXCEPT !.trail = trail])
<1> DEFINE s == t.saved[1]
           x == [RecoverAspect(m, t) EXCEPT !.trail = trail]
<1>1. DOMAIN m = MsgFields
  BY DEF IsMsg
<1>2. /\ DOMAIN x = MsgFields
      /\ x.flow = s.flow /\ x.state = s.state /\ x.nonce = s.nonce /\ x.rjump = s.rjump
      /\ x.policy = s.policy /\ x.site = s.site /\ x.local = s.local /\ x.receiver = s.receiver
  BY <1>1 DEF RecoverAspect, MsgFields
<1>3. IsMsg(s)
  BY DEF SentOK, Underway
<1> HIDE DEF x, s
<1>4. IsMsg(x)
  BY <1>2, <1>3 DEF IsMsg
<1>5. SentOK(tr, or, level, i, s)
  BY DEF s
<1>6. SentOK(tr, or, level, i, x)
  BY <1>2, <1>4, <1>5, SentSame
<1> QED BY <1>6 DEF x

(* The answer: it goes back to where the first trace of its query says. *)
LEMMA AnsweredOK ==
    ASSUME NEW tr, NEW or, NEW level, Tiered(level), NEW i \in Inst, NEW m, NEW t,
           Underway(tr, or, level, i, m), m.flow = "QUERY", m.rjump > 1,
           t.kind = "query", t.nonce = m.nonce, TraceOK(tr, or, level, i, t)
    PROVE  SentOK(tr, or, level, i, SetTraceSrc(m, t))
<1> DEFINE x == SetTraceSrc(m, t)
<1>1. IsMsg(m) /\ DOMAIN m = MsgFields
  BY DEF Underway, IsMsg
<1>2. /\ DOMAIN x = MsgFields
      /\ x.flow = "QUERY" /\ x.state = "RESPONSE" /\ x.nonce = m.nonce /\ x.rjump = m.rjump
      /\ x.policy = m.policy /\ x.site = m.site /\ x.local = FALSE /\ x.receiver = t.source
  BY <1>1 DEF SetTraceSrc, MsgFields
<1> HIDE DEF x
<1>3. IsMsg(x)
  BY <1>1, <1>2 DEF IsMsg
<1>4. SiteOK(i, x)
  BY <1>2 DEF SiteOK, Path, Underway
<1>5. Underway(tr, or, level, i, x)
  BY <1>2, <1>3, <1>4 DEF Underway
<1>6. Counted(or, level, i, m.nonce, m.rjump)
  BY DEF Underway
<1>7. or[m.nonce].inst # i
  <2>1. m.rjump \in Int /\ level[i] \in Int /\ or[m.nonce].inst \in Inst
    BY <1>1, <1>6 DEF IsMsg, Tiered, Counted
  <2>2. m.rjump <= 1 + level[i] - level[or[m.nonce].inst]
    BY <1>6 DEF Counted
  <2> QED BY <2>1, <2>2
<1>8. Back(tr, or, level, i, t.source, m.nonce)
  BY <1>7 DEF TraceOK
<1>9. SentOK(tr, or, level, i, x)
  BY <1>2, <1>5, <1>8 DEF SentOK
<1> QED BY <1>9 DEF x

(* What the router sends, it may send. *)
LEMMA AdvanceOK ==
    ASSUME NEW level, Tiered(level), NEW i \in Inst, NEW m,
           WaitingOK(traces, origin, level, i, m), IsSeq(traces[i]),
           \A t \in ToSet(traces[i]) : TraceOK(traces, origin, level, i, t),
           Advance(i, m).send
    PROVE  SentOK(traces, origin, level, i, Advance(i, m).msg)
<1> DEFINE nx    == SetNext(Table[i], m)
           query == FindTrace(traces[i], nx.msg.nonce, "query")
           asp   == FindTrace(traces[i], nx.msg.nonce, "aspect")
           s     == Advance(i, m)
           OK(x) == SentOK(traces, origin, level, i, x)
<1>1. /\ IsMsg(m) /\ SiteOK(i, m) /\ m.flow \in {"DELIVER", "QUERY"}
      /\ m.state = "RESPONSE" => m.flow = "QUERY" /\ m.site.leg = "resp"
      /\ m.flow = "QUERY" => /\ Traced(traces, i, m.nonce)
                             /\ Counted(origin, level, i, m.nonce, m.rjump)
      /\ m.rjump \in Int
  BY DEF WaitingOK, Underway, IsMsg
<1>2. /\ IsMsg(nx.msg) /\ SiteOK(i, nx.msg) /\ SameHead(nx.msg, m)
      /\ nx.ret \in {"end", "FINISH", "LOCAL", "PORT", "NAME", "CONN"}
      /\ nx.ret = "end" => nx.msg.receiver = Empty
      /\ nx.ret \in {"LOCAL", "PORT"} => nx.msg.local
      /\ nx.ret \in {"NAME", "CONN"} => m.site.leg # "resp" /\ Ahead(level, i, nx.msg.receiver)
      /\ m.site.leg = "resp" => nx.msg.site.leg = "resp"
  BY <1>1, NextOK
<1>3. Underway(traces, origin, level, i, nx.msg)
  <2> HIDE DEF nx
  <2> QED BY <1>1, <1>2 DEF Underway, SameHead
<1>4. CASE m.flow = "DELIVER"
  <2>1. s.send => s.msg = nx.msg
    BY <1>4 DEF Advance
  <2> HIDE DEF nx
  <2>2. OK(nx.msg)
    BY <1>1, <1>2, <1>3, <1>4 DEF SentOK, SameHead
  <2> HIDE DEF s
  <2> QED BY <2>1, <2>2 DEF s
<1>5. CASE m.flow = "QUERY" /\ nx.ret \notin {"end", "FINISH"}
  <2>1. s.msg = nx.msg
    BY <1>5 DEF Advance
  <2> HIDE DEF nx
  <2>2. OK(nx.msg)
    BY <1>1, <1>2, <1>3, <1>5 DEF SentOK, SameHead
  <2> HIDE DEF s
  <2> QED BY <2>1, <2>2 DEF s
<1>6. CASE m.flow = "QUERY" /\ nx.ret \in {"end", "FINISH"} /\ m.rjump > 1
  <2>1. /\ s.send => query # 0
        /\ (query # 0 /\ (m.state = "RESPONSE" \/ nx.ret = "FINISH"))
               => s.msg = SetTraceSrc(nx.msg, traces[i][query])
        /\ (query # 0 /\ ~(m.state = "RESPONSE" \/ nx.ret = "FINISH")) => s.msg = nx.msg
    <3>0. m.flow # "DELIVER" /\ ~(nx.ret \notin {"end", "FINISH"}) /\ m.rjump \in Int
      BY <1>1, <1>6
    <3>1. query = 0 => s.send = FALSE
      BY <1>6, <3>0, SMTT(30) DEF Advance
    <3>2. (query # 0 /\ (m.state = "RESPONSE" \/ nx.ret = "FINISH"))
               => s.msg = SetTraceSrc(nx.msg, traces[i][query])
      BY <1>6, <3>0, SMTT(30) DEF Advance
    <3>3. (query # 0 /\ ~(m.state = "RESPONSE" \/ nx.ret = "FINISH")) => s.msg = nx.msg
      BY <1>6, <3>0 DEF Advance
    <3> HIDE DEF s, query, nx
    <3> QED BY <3>1, <3>2, <3>3
  <2> HIDE DEF nx, s
  <2>2. query # 0 => /\ traces[i][query] \in ToSet(traces[i])
                     /\ traces[i][query].nonce = nx.msg.nonce
                     /\ traces[i][query].kind = "query"
    BY FindTraceOK
  <2> HIDE DEF query
  <2>3. query # 0 => OK(SetTraceSrc(nx.msg, traces[i][query]))
    <3>1. nx.msg.flow = "QUERY" /\ nx.msg.rjump > 1
      BY <1>2, <1>6 DEF SameHead
    <3> QED BY <1>3, <2>2, <3>1, AnsweredOK
  <2>4. ASSUME ~(m.state = "RESPONSE" \/ nx.ret = "FINISH") PROVE OK(nx.msg)
    <3>1. nx.msg.receiver = Empty /\ nx.msg.state # "RESPONSE"
      BY <1>2, <1>6, <2>4 DEF SameHead
    <3>2. Ahead(level, i, Empty)
      BY JoinedBothWays DEF Ahead
    <3> QED BY <1>3, <3>1, <3>2 DEF SentOK
  <2> HIDE DEF OK
  <2>5. OK(s.msg)
    BY <2>1, <2>3, <2>4 DEF s
  <2> QED BY <2>5 DEF OK, s
<1>7. CASE m.flow = "QUERY" /\ nx.ret \in {"end", "FINISH"} /\ m.rjump <= 1
  <2>1. /\ s.send => asp # 0
        /\ asp # 0 => s.msg = [RecoverAspect(nx.msg, traces[i][asp])
                                  EXCEPT !.trail = traces[i][asp].saved[1].trail]
    <3>1. ~(m.rjump > 1)
      BY <1>1, <1>7
    <3> QED BY <1>7, <3>1 DEF Advance
  <2> HIDE DEF nx, s
  <2>2. asp # 0 => traces[i][asp] \in ToSet(traces[i]) /\ traces[i][asp].kind = "aspect"
    BY FindTraceOK
  <2> HIDE DEF asp
  <2>3. asp # 0 => OK(traces[i][asp].saved[1])
    BY <2>2 DEF TraceOK
  <2>4. asp # 0 => OK([RecoverAspect(nx.msg, traces[i][asp])
                          EXCEPT !.trail = traces[i][asp].saved[1].trail])
    BY <1>2, <2>3, RecoveredOK
  <2> HIDE DEF OK
  <2>5. OK(s.msg)
    BY <2>1, <2>4 DEF s
  <2> QED BY <2>5 DEF OK, s
<1>8. m.rjump > 1 \/ m.rjump <= 1
  BY <1>1
<1> HIDE DEF nx
<1> QED BY <1>1, <1>2, <1>4, <1>5, <1>6, <1>7, <1>8

-----------------------------------------------------------------------------
(* Starting on a path, and the branches of one. *)

(* The branches at a place of a path. *)
LEMMA BranchesOK ==
    ASSUME NEW level, Tiered(level), NEW i \in Inst, NEW m, IsMsg(m), SiteOK(i, m)
    PROVE  /\ IsSeq(Branches(Table[i], m))
           /\ \A b \in ToSet(Branches(Table[i], m)) : BranchOK(Table[i].paths, b)
<1> DEFINE t == Table[i]
           list == Leg(t.paths[m.policy], m.site.leg)
<1>1. TableOK(i, level, t)
  BY TablesOK
<1>2. CASE m.site.leg = "none" \/ m.site.at = 0
  <2>1. Branches(t, m) = <<>>
    BY <1>2, SMTT(30) DEF Branches
  <2> QED BY <2>1, NilSeq
<1>3. CASE ~(m.site.leg = "none" \/ m.site.at = 0)
  <2>1. Branches(t, m) = list[m.site.at].branches
    BY <1>3 DEF Branches
  <2>2. /\ m.policy \in DOMAIN t.paths /\ m.site.leg \in {"main", "resp"}
        /\ m.site.at \in 0 .. Len(list)
    BY <1>3 DEF SiteOK, Path
  <2>3. /\ IsSeq(list)
        /\ \A node \in ToSet(list) : NodeOK(i, level, t.paths, m.site.leg, node)
    BY <1>1, <2>2 DEF TableOK, PathOK
  <2>4. list[m.site.at] \in ToSet(list)
    <3>1. Len(list) \in Nat /\ DOMAIN list = 1 .. Len(list)
      BY <2>3, IsSeqFacts
    <3>2. m.site.at \in DOMAIN list
      BY <1>3, <2>2, <3>1
    <3> QED BY <2>3, <3>2, IsSeqFacts
  <2>5. NodeOK(i, level, t.paths, m.site.leg, list[m.site.at])
    BY <2>3, <2>4
  <2> QED BY <2>1, <2>5 DEF NodeOK
<1> QED BY <1>2, <1>3

(* A message on the first step of path p *)
StartedOn(x, m, i, p) ==
    /\ IsMsg(x) /\ SiteOK(i, x)
    /\ x.flow = Table[i].paths[p].flow /\ x.flow \in {"DELIVER", "QUERY"}
    /\ x.policy = p /\ x.state = "MATCH" /\ x.site.leg = "main"
    /\ x.nonce = m.nonce /\ x.rjump = m.rjump /\ x.sender = m.sender

(* message_route_setstart puts the message on that step. *)
LEMMA StartOK ==
    ASSUME NEW level, Tiered(level), NEW i \in Inst, NEW m, IsMsg(m),
           NEW p \in DOMAIN Table[i].paths, NEW trail
    PROVE  StartedOn([SetStart(Table[i], m, p) EXCEPT !.trail = trail], m, i, p)
<1> DEFINE x == [SetStart(Table[i], m, p) EXCEPT !.trail = trail]
<1>1. /\ DOMAIN m = MsgFields /\ m.local \in BOOLEAN /\ m.rjump \in Int
      /\ DOMAIN m.site = {"leg", "at"} /\ m.site.at \in Nat
  BY DEF IsMsg
<1>2. /\ DOMAIN x = MsgFields /\ x.local = m.local
      /\ x.flow = Table[i].paths[p].flow /\ x.policy = p /\ x.state = "MATCH"
      /\ x.site = [leg |-> "main", at |-> 0]
      /\ x.nonce = m.nonce /\ x.rjump = m.rjump /\ x.sender = m.sender
  BY <1>1 DEF SetStart, MsgFields
<1> HIDE DEF x
<1>3. DOMAIN x.site = {"leg", "at"} /\ x.site.at = 0 /\ x.site.leg = "main"
  BY <1>2
<1>4. PathOK(i, level, Table[i].paths, Table[i].paths[p])
  BY TablesOK DEF TableOK
<1>5. x.flow \in {"DELIVER", "QUERY"} /\ IsSeq(Leg(Table[i].paths[p], "main"))
  BY <1>2, <1>4 DEF PathOK
<1>6. IsMsg(x)
  BY <1>1, <1>2, <1>3 DEF IsMsg
<1>7. Len(Leg(Table[i].paths[p], "main")) \in Nat
  BY <1>5, IsSeqFacts
<1>8. SiteOK(i, x)
  BY <1>2, <1>3, <1>7 DEF SiteOK, Path
<1>9. StartedOn(x, m, i, p)
  BY <1>2, <1>3, <1>5, <1>6, <1>8 DEF StartedOn
<1> QED BY <1>9 DEF x

(* Clones and diverted messages begin with one hop. *)
LEMMA JumpedOK ==
    ASSUME NEW m, IsMsg(m)
    PROVE  /\ IsMsg([m EXCEPT !.ljump = 1, !.rjump = 1])
           /\ \A n : /\ IsMsg([m EXCEPT !.nonce = n, !.ljump = 1, !.rjump = 1])
                     /\ [m EXCEPT !.nonce = n, !.ljump = 1, !.rjump = 1].nonce = n
                     /\ [m EXCEPT !.nonce = n, !.ljump = 1, !.rjump = 1].rjump = 1
                     /\ [m EXCEPT !.nonce = n, !.ljump = 1, !.rjump = 1].sender = m.sender
BY DEF IsMsg, MsgFields

(* A clone delivers and asks nothing. *)
LEMMA DupOK ==
    ASSUME NEW tr, NEW or, NEW level, Tiered(level), NEW i \in Inst, NEW m, IsMsg(m), NEW b,
           NEW trail, BranchOK(Table[i].paths, b), b.kind = "DUP"
    PROVE  WaitingOK(tr, or, level, i, [DupMessage(Table[i], m, b) EXCEPT !.trail = trail])
<1> DEFINE m1 == [m EXCEPT !.ljump = 1, !.rjump = 1]
           x == [SetStart(Table[i], m1, b.path) EXCEPT !.trail = trail]
<1>1. [DupMessage(Table[i], m, b) EXCEPT !.trail = trail] = x
  BY DEF DupMessage
<1>2. b.path \in DOMAIN Table[i].paths /\ Table[i].paths[b.path].flow = "DELIVER"
  BY DEF BranchOK
<1>3. IsMsg(m1)
  BY JumpedOK
<1> HIDE DEF m1
<1>4. StartedOn(x, m1, i, b.path)
  BY <1>2, <1>3, StartOK
<1> HIDE DEF x
<1> QED BY <1>1, <1>2, <1>4 DEF WaitingOK, Underway, StartedOn

(* All the clones made at a node are fit to wait. *)
LEMMA ClonesOK ==
    ASSUME NEW tr, NEW or, NEW level, Tiered(level), NEW i \in Inst, NEW s,
           IsMsg(s.msg), SiteOK(i, s.msg)
    PROVE  /\ IsSeq(Clones(i, s))
           /\ \A x \in ToSet(Clones(i, s)) : WaitingOK(tr, or, level, i, x)
<1> DEFINE bs   == Branches(Table[i], s.msg)
           a    == Diversion(i, s)
           K    == {k \in DOMAIN bs : /\ a = 0 \/ k < a
                                      /\ bs[k].kind = "DUP"
                                      /\ BranchMatches(Table[i], s.msg, bs[k])}
           dups == Picked(bs, K)
           New(b) == [DupMessage(Table[i], s.msg, b) EXCEPT !.trail = <<i>>]
           cs   == [k \in DOMAIN dups |-> New(dups[k])]
<1>1. Clones(i, s) = cs
  BY DEF Clones
<1>2. IsSeq(bs) /\ \A b \in ToSet(bs) : BranchOK(Table[i].paths, b)
  BY BranchesOK
<1>3. K \subseteq DOMAIN bs /\ \A k \in K : bs[k].kind = "DUP" /\ bs[k] \in ToSet(bs)
  BY <1>2, IsSeqFacts
<1> HIDE DEF bs, K
<1>4. /\ Cardinality(K) \in Nat /\ DOMAIN dups = 1 .. Cardinality(K)
      /\ \A n \in 1 .. Cardinality(K) : \E k \in K : dups[n] = bs[k]
  BY <1>2, <1>3, PickedIn
<1> HIDE DEF dups
<1>5. ASSUME NEW n \in DOMAIN dups PROVE WaitingOK(tr, or, level, i, New(dups[n]))
  <2>1. BranchOK(Table[i].paths, dups[n]) /\ dups[n].kind = "DUP"
    BY <1>2, <1>3, <1>4
  <2> QED BY <2>1, DupOK
<1> HIDE DEF New
<1>6. DOMAIN cs = DOMAIN dups /\ \A n \in DOMAIN dups : cs[n] = New(dups[n])
  OBVIOUS
<1>7. IsSeq(cs)
  <2>1. cs \in Seq({New(dups[n]) : n \in DOMAIN dups})
    BY <1>4
  <2> HIDE DEF cs
  <2> QED BY <2>1, IsSeqIntro
<1> HIDE DEF cs
<1> QED BY <1>1, <1>5, <1>6, <1>7 DEF ToSet

-----------------------------------------------------------------------------
(* Traces and nonces only ever come to be. *)
Grows(tr, or, tr2, or2) ==
    /\ \A i \in Inst : \A n : Traced(tr, i, n) => Traced(tr2, i, n)
    /\ \A n \in DOMAIN or : n \in DOMAIN or2 /\ or2[n] = or[n]

(* What was sound of one message stays so. *)
LEMMA GrowsKeeps ==
    ASSUME NEW tr, NEW or, NEW tr2, NEW or2, NEW level, NEW i \in Inst, Grows(tr, or, tr2, or2)
    PROVE  /\ \A m : WaitingOK(tr, or, level, i, m) => WaitingOK(tr2, or2, level, i, m)
           /\ \A m : SentOK(tr, or, level, i, m) => SentOK(tr2, or2, level, i, m)
           /\ \A j, m : ArrivingOK(tr, or, level, j, i, m) => ArrivingOK(tr2, or2, level, j, i, m)
           /\ \A m : FreshOK(or, i, m) => FreshOK(or2, i, m)
           /\ \A t : TraceOK(tr, or, level, i, t) => TraceOK(tr2, or2, level, i, t)
<1>1. \A j, n, h : Counted(or, level, j, n, h) => Counted(or2, level, j, n, h)
  BY DEF Counted, Grows
<1>2. ASSUME NEW j, NEW n, Back(tr, or, level, i, j, n) PROVE Back(tr2, or2, level, i, j, n)
  <2>1. j \in Inst
    BY <1>2, JoinedBothWays DEF Back
  <2> QED BY <1>2, <2>1 DEF Back, Grows
<1>3. \A n : Traced(tr, i, n) => Traced(tr2, i, n)
  BY DEF Grows
<1>4. \A m : Underway(tr, or, level, i, m) => Underway(tr2, or2, level, i, m)
  BY <1>1, <1>3 DEF Underway
<1>5. \A m : WaitingOK(tr, or, level, i, m) => WaitingOK(tr2, or2, level, i, m)
  BY <1>4 DEF WaitingOK
<1>6. \A m : SentOK(tr, or, level, i, m) => SentOK(tr2, or2, level, i, m)
  BY <1>2, <1>4 DEF SentOK
<1>7. \A j, m : ArrivingOK(tr, or, level, j, i, m) => ArrivingOK(tr2, or2, level, j, i, m)
  BY <1>1, <1>2, <1>3 DEF ArrivingOK
<1>8. \A m : FreshOK(or, i, m) => FreshOK(or2, i, m)
  BY DEF FreshOK, Grows
<1>9. ASSUME NEW t, TraceOK(tr, or, level, i, t) PROVE TraceOK(tr2, or2, level, i, t)
  <2>1. t.nonce \in DOMAIN or => t.nonce \in DOMAIN or2 /\ or2[t.nonce] = or[t.nonce]
    BY DEF Grows
  <2> QED BY <1>2, <1>6, <1>9, <2>1 DEF TraceOK
<1> QED BY <1>5, <1>6, <1>7, <1>8, <1>9

(* and so does what was sound of all of them. *)
LEMMA GrowsKeepsAll ==
    ASSUME NEW tr, NEW or, NEW tr2, NEW or2, NEW level, Grows(tr, or, tr2, or2)
    PROVE  /\ \A q : SendqOK(q, tr, or, level) => SendqOK(q, tr2, or2, level)
           /\ \A q : RecvqOK(q, tr, or, level) => RecvqOK(q, tr2, or2, level)
           /\ \A w : ListsOK(w, tr, or, level) => ListsOK(w, tr2, or2, level)
           /\ \A n : NetOK(n, tr, or, level) => NetOK(n, tr2, or2, level)
<1>1. ASSUME NEW i \in Inst, NEW mod, NEW e, EntryOK(tr, or, level, i, mod, e)
      PROVE  EntryOK(tr2, or2, level, i, mod, e)
  BY <1>1, GrowsKeeps DEF EntryOK
<1>2. \A q : SendqOK(q, tr, or, level) => SendqOK(q, tr2, or2, level)
  BY <1>1 DEF SendqOK
<1>3. \A q : RecvqOK(q, tr, or, level) => RecvqOK(q, tr2, or2, level)
  BY GrowsKeeps DEF RecvqOK
<1>4. \A w : ListsOK(w, tr, or, level) => ListsOK(w, tr2, or2, level)
  BY GrowsKeeps DEF ListsOK
<1>5. \A l \in Joined : l[1] \in Inst /\ l[2] \in Inst
  BY LinksAssumption DEF Joined
<1>6. \A n : NetOK(n, tr, or, level) => NetOK(n, tr2, or2, level)
  BY <1>5, GrowsKeeps DEF NetOK
<1> QED BY <1>2, <1>3, <1>4, <1>6

-----------------------------------------------------------------------------
(* Changing one list. *)
QueueSet(q, i, mod, s) == [q EXCEPT ![i][mod] = s]
ListSet(w, i, s)       == [w EXCEPT ![i] = s]

(* A queue of a module is replaced. *)
LEMMA QueueSetOK ==
    ASSUME NEW q, QueuesShape(q), NEW i \in Inst, NEW mod \in ModSet(i), NEW s, IsSeq(s)
    PROVE  /\ QueuesShape(QueueSet(q, i, mod, s))
           /\ \A j \in Inst : \A m \in ModSet(j) :
                 QueueSet(q, i, mod, s)[j][m] = IF j = i /\ m = mod THEN s ELSE q[j][m]
BY DEF QueuesShape, QueueSet

(* Send queues stay sound if what is new in one is. *)
LEMMA SendqSetOK ==
    ASSUME NEW q, NEW tr, NEW or, NEW level, QueuesShape(q), SendqOK(q, tr, or, level),
           NEW i \in Inst, NEW mod \in ModSet(i), NEW s, IsSeq(s),
           \A e \in ToSet(s) : e \in ToSet(q[i][mod]) \/ EntryOK(tr, or, level, i, mod, e)
    PROVE  /\ QueuesShape(QueueSet(q, i, mod, s))
           /\ SendqOK(QueueSet(q, i, mod, s), tr, or, level)
<1>1. \A e \in ToSet(s) : EntryOK(tr, or, level, i, mod, e)
  BY DEF SendqOK
<1> QED BY <1>1, QueueSetOK DEF SendqOK

(* So do receive queues, *)
LEMMA RecvqSetOK ==
    ASSUME NEW q, NEW tr, NEW or, NEW level, QueuesShape(q), RecvqOK(q, tr, or, level),
           NEW i \in Inst, NEW mod \in ModSet(i), NEW s, IsSeq(s),
           \A m \in ToSet(s) : \/ m \in ToSet(q[i][mod])
                               \/ SentOK(tr, or, level, i, m) /\ (mod # Conn => m.local)
    PROVE  /\ QueuesShape(QueueSet(q, i, mod, s))
           /\ RecvqOK(QueueSet(q, i, mod, s), tr, or, level)
<1>1. \A m \in ToSet(s) : SentOK(tr, or, level, i, m) /\ (mod # Conn => m.local)
  BY DEF RecvqOK
<1> QED BY <1>1, QueueSetOK DEF RecvqOK

(* A list of an instance is replaced. *)
LEMMA ListSetOK ==
    ASSUME NEW w, ListsShape(w), NEW i \in Inst, NEW s, IsSeq(s)
    PROVE  /\ ListsShape(ListSet(w, i, s))
           /\ \A j \in Inst : ListSet(w, i, s)[j] = IF j = i THEN s ELSE w[j]
BY DEF ListsShape, ListSet

(* Waiting lists stay sound if what is new in one is, *)
LEMMA WaitingSetOK ==
    ASSUME NEW w, NEW tr, NEW or, NEW level, ListsShape(w), ListsOK(w, tr, or, level),
           NEW i \in Inst, NEW s, IsSeq(s),
           \A m \in ToSet(s) : m \in ToSet(w[i]) \/ WaitingOK(tr, or, level, i, m)
    PROVE  ListsShape(ListSet(w, i, s)) /\ ListsOK(ListSet(w, i, s), tr, or, level)
<1>1. \A m \in ToSet(s) : WaitingOK(tr, or, level, i, m)
  BY DEF ListsOK
<1> QED BY <1>1, ListSetOK DEF ListsOK

(* and so does what is in flight. *)
LEMMA NetSetOK ==
    ASSUME NEW n, NEW tr, NEW or, NEW level, NetShape(n), NetOK(n, tr, or, level),
           NEW l \in Joined, NEW s, IsSeq(s),
           \A m \in ToSet(s) : m \in ToSet(n[l]) \/ ArrivingOK(tr, or, level, l[1], l[2], m)
    PROVE  NetShape(ListSet(n, l, s)) /\ NetOK(ListSet(n, l, s), tr, or, level)
<1>1. \A m \in ToSet(s) : ArrivingOK(tr, or, level, l[1], l[2], m)
  BY DEF NetOK
<1>2. /\ DOMAIN ListSet(n, l, s) = Joined
      /\ \A k \in Joined : ListSet(n, l, s)[k] = IF k = l THEN s ELSE n[k]
  BY DEF NetShape, ListSet
<1> QED BY <1>1, <1>2 DEF NetShape, NetOK

-----------------------------------------------------------------------------
(* New traces. *)

(* Traces are only added at the tail. *)
LEMMA TracesGrow ==
    ASSUME NEW tr, NEW or, NEW or2, ListsShape(tr), NEW i \in Inst, NEW new, IsSeq(new),
           \A n \in DOMAIN or : n \in DOMAIN or2 /\ or2[n] = or[n]
    PROVE  /\ Grows(tr, or, ListSet(tr, i, tr[i] \o new), or2)
           /\ \A t \in ToSet(new) : t \in ToSet(ListSet(tr, i, tr[i] \o new)[i])
<1> DEFINE s   == tr[i] \o new
           tr2 == ListSet(tr, i, s)
<1>1. IsSeq(tr[i])
  BY DEF ListsShape
<1>2. IsSeq(s) /\ ToSet(s) = ToSet(tr[i]) \cup ToSet(new)
  BY <1>1, ConcatSeq
<1> HIDE DEF s
<1>3. \A j \in Inst : tr2[j] = IF j = i THEN s ELSE tr[j]
  BY <1>2, ListSetOK
<1> HIDE DEF tr2
<1>4. \A j \in Inst : ToSet(tr[j]) \subseteq ToSet(tr2[j])
  BY <1>2, <1>3
<1>5. Grows(tr, or, tr2, or2)
  BY <1>4 DEF Grows, Traced
<1> QED BY <1>2, <1>3, <1>5 DEF tr2, s

(* If the new ones are sound, all are. *)
LEMMA TracesAdded ==
    ASSUME NEW tr, NEW or, NEW or2, NEW level, ListsShape(tr), TracesOK(tr, or, level),
           NEW i \in Inst, NEW new, IsSeq(new),
           \A n \in DOMAIN or : n \in DOMAIN or2 /\ or2[n] = or[n],
           \A t \in ToSet(new) : TraceOK(ListSet(tr, i, tr[i] \o new), or2, level, i, t)
    PROVE  /\ Grows(tr, or, ListSet(tr, i, tr[i] \o new), or2)
           /\ ListsShape(ListSet(tr, i, tr[i] \o new))
           /\ TracesOK(ListSet(tr, i, tr[i] \o new), or2, level)
           /\ \A t \in ToSet(new) : t \in ToSet(ListSet(tr, i, tr[i] \o new)[i])
<1> DEFINE s   == tr[i] \o new
           tr2 == ListSet(tr, i, s)
<1>1. IsSeq(tr[i])
  BY DEF ListsShape
<1>2. IsSeq(s) /\ ToSet(s) = ToSet(tr[i]) \cup ToSet(new)
  BY <1>1, ConcatSeq
<1>3. Grows(tr, or, tr2, or2) /\ \A t \in ToSet(new) : t \in ToSet(tr2[i])
  BY TracesGrow
<1> HIDE DEF s
<1>4. ListsShape(tr2) /\ \A j \in Inst : tr2[j] = IF j = i THEN s ELSE tr[j]
  BY <1>2, ListSetOK
<1> HIDE DEF tr2
<1>5. TracesOK(tr2, or2, level)
  <2>1. ASSUME NEW j \in Inst, NEW t \in ToSet(tr2[j])
        PROVE  TraceOK(tr2, or2, level, j, t)
    <3>1. CASE t \in ToSet(tr[j])
      BY <1>3, <3>1, GrowsKeeps DEF TracesOK
    <3>2. CASE t \notin ToSet(tr[j])
      <4>1. j = i /\ t \in ToSet(new)
        BY <1>2, <1>4, <3>2
      <4> QED BY <4>1 DEF tr2, s
    <3> QED BY <3>1, <3>2
  <2> QED BY <2>1 DEF TracesOK
<1> QED BY <1>3, <1>4, <1>5 DEF tr2, s

(* The trace of a query that starts on a path. *)
LEMMA StartTracesOK ==
    ASSUME NEW tr, NEW or, NEW level, NEW i \in Inst, NEW m,
           m.policy \in DOMAIN Table[i].paths,
           m.nonce \in DOMAIN or, or[m.nonce].inst \in Inst,
           or[m.nonce].inst # i => Back(tr, or, level, i, m.sender, m.nonce)
    PROVE  /\ IsSeq(<<QueryTrace(m)>>) /\ ToSet(<<QueryTrace(m)>>) = {QueryTrace(m)}
           /\ QueryTrace(m).kind = "query" /\ QueryTrace(m).nonce = m.nonce
           /\ TraceOK(tr, or, level, i, QueryTrace(m))
<1>1. /\ QueryTrace(m).kind = "query" /\ QueryTrace(m).nonce = m.nonce
      /\ QueryTrace(m).policy = m.policy /\ QueryTrace(m).source = m.sender
  BY DEF QueryTrace
<1> QED BY <1>1, OneSeq DEF TraceOK

-----------------------------------------------------------------------------
(* The message the router takes. *)

(* The switch on the module type counts a hop for the connector, one up    *)
(* for a query and one down for a response.                                *)
LEMMA WithJumpsOK ==
    ASSUME NEW type, NEW m, IsMsg(m)
    PROVE  LET x == WithJumps(type, m)
           IN  /\ IsMsg(x) /\ x.site = m.site /\ x.policy = m.policy /\ x.flow = m.flow
               /\ x.state = m.state /\ x.nonce = m.nonce /\ x.sender = m.sender
               /\ type # "CONN" => x.rjump = 1 \/ (m.rjump # 0 /\ x.rjump = m.rjump)
               /\ type = "CONN" =>
                     x.rjump = IF m.state # "RESPONSE" THEN m.rjump + 1 ELSE m.rjump - 1
<1> DEFINE x == WithJumps(type, m)
<1>1. /\ DOMAIN m = MsgFields /\ m.local \in BOOLEAN /\ m.rjump \in Int
      /\ DOMAIN m.site = {"leg", "at"} /\ m.site.at \in Nat
  BY DEF IsMsg
<1>2. \/ /\ type = "CONN"
         /\ x = [m EXCEPT !.ljump = 1,
                          !.rjump = IF m.state # "RESPONSE" THEN @ + 1 ELSE @ - 1]
      \/ type = "PORT" /\ x = [m EXCEPT !.ljump = 1, !.rjump = 1]
      \/ /\ type \notin {"CONN", "PORT"}
         /\ x = [m EXCEPT !.ljump = @ + 1, !.rjump = IF @ = 0 THEN 1 ELSE @]
  BY DEF WithJumps
<1> HIDE DEF x
<1>3. /\ DOMAIN x = MsgFields /\ x.local = m.local /\ x.site = m.site
      /\ x.flow = m.flow /\ x.state = m.state /\ x.nonce = m.nonce
      /\ x.policy = m.policy /\ x.sender = m.sender
  BY <1>1, <1>2 DEF MsgFields
<1>4. /\ type # "CONN" => x.rjump = 1 \/ (m.rjump # 0 /\ x.rjump = m.rjump)
      /\ type = "CONN" =>
             x.rjump = IF m.state # "RESPONSE" THEN m.rjump + 1 ELSE m.rjump - 1
      /\ x.rjump \in Int
  <2>1. "rjump" \in DOMAIN m
    BY <1>1 DEF MsgFields
  <2>2. CASE type = "CONN" /\ x = [m EXCEPT !.ljump = 1,
                          !.rjump = IF m.state # "RESPONSE" THEN @ + 1 ELSE @ - 1]
    <3>1. x.rjump = IF m.state # "RESPONSE" THEN m.rjump + 1 ELSE m.rjump - 1
      BY <2>1, <2>2
    <3> QED BY <1>1, <2>2, <3>1
  <2>3. CASE type = "PORT" /\ x = [m EXCEPT !.ljump = 1, !.rjump = 1]
    BY <2>1, <2>3
  <2>4. CASE /\ type \notin {"CONN", "PORT"}
             /\ x = [m EXCEPT !.ljump = @ + 1, !.rjump = IF @ = 0 THEN 1 ELSE @]
    <3>1. x.rjump = IF m.rjump = 0 THEN 1 ELSE m.rjump
      BY <2>1, <2>4
    <3> QED BY <1>1, <2>4, <3>1
  <2> QED BY <1>2, <2>2, <2>3, <2>4
<1>5. IsMsg(x)
  BY <1>1, <1>3, <1>4 DEF IsMsg
<1> QED BY <1>3, <1>4, <1>5 DEF x

(* A message that has just come to i, over a connection: *)
ComeOK(tr, or, level, i, m) ==
    /\ IsMsg(m) /\ m.policy = 0 /\ m.flow \in {"DELIVER", "QUERY"}
    /\ m.state = "RESPONSE" =>
          m.flow = "QUERY" /\ Traced(tr, i, m.nonce) /\ Counted(or, level, i, m.nonce, m.rjump)
    /\ m.flow = "QUERY" /\ m.state # "RESPONSE" =>
          Back(tr, or, level, i, m.sender, m.nonce) /\ Counted(or, level, i, m.nonce, m.rjump)

(* or made by one of its modules. *)
MadeOK(or, i, m) ==
    /\ IsMsg(m) /\ m.policy = 0 /\ m.flow = "none" /\ m.state # "RESPONSE" /\ m.rjump = 1
    /\ m.nonce \in DOMAIN or /\ or[m.nonce].inst = i

(* The module polled has a queue; it is the connector or of another type. *)
LEMMA PolledOK ==
    ASSUME Shape, NEW i \in Inst, HasMsg(i)
    PROVE  /\ Polled(i) \in ModSet(i) /\ IsSeq(sendq[i][Polled(i)])
           /\ sendq[i][Polled(i)] # <<>>
           /\ ModType[Polled(i)] = "CONN" <=> Polled(i) = Conn
<1>1. pc[i] \in Nat \ {0} /\ pc[i] <= Len(Mods[i])
  BY DEF Shape, HasMsg, Polling
<1>2. Mods[i] \in Seq(ModSet(i))
  BY ModsAssumption
<1>3. pc[i] \in DOMAIN Mods[i]
  BY <1>1, <1>2
<1>4. Polled(i) \in ModSet(i)
  BY <1>3 DEF Polled, ModSet
<1> QED BY <1>4, ModsAssumption DEF HasMsg, Shape, QueuesShape

(* The name of the module is all that is put into the message. *)
LEMMA SenderSet ==
    ASSUME NEW m, IsMsg(m), NEW s
    PROVE  /\ IsMsg([m EXCEPT !.sender = s]) /\ [m EXCEPT !.sender = s].sender = s
           /\ [m EXCEPT !.sender = s].site = m.site /\ [m EXCEPT !.sender = s].policy = m.policy
           /\ [m EXCEPT !.sender = s].flow = m.flow /\ [m EXCEPT !.sender = s].state = m.state
           /\ [m EXCEPT !.sender = s].nonce = m.nonce /\ [m EXCEPT !.sender = s].rjump = m.rjump
BY DEF IsMsg, MsgFields

(* A message taken from a module is on its path already, has come over a   *)
(* connection, or is new.                                                  *)
LEMMA TakenOK ==
    ASSUME NEW level, Tiered(level), Shape, Carried(level), NEW i \in Inst, HasMsg(i)
    PROVE  \/ WaitingOK(traces, origin, level, i, Taken(i))
           \/ ComeOK(traces, origin, level, i, Taken(i))
           \/ MadeOK(origin, i, Taken(i))
<1> DEFINE mod == Polled(i)
           e   == Got(sendq[i][mod])
           m   == DupActive(e)
           s   == IF mod # Conn \/ m.sender = Empty THEN [m EXCEPT !.sender = mod] ELSE m
           x   == WithJumps(ModType[mod], s)
<1>1. Taken(i) = x
  BY DEF Taken
<1>2. mod \in ModSet(i) /\ e \in ToSet(sendq[i][mod]) /\ (ModType[mod] = "CONN" <=> mod = Conn)
  BY PolledOK, LastSeq DEF Got
<1>3. EntryOK(traces, origin, level, i, mod, e)
  BY <1>2 DEF Carried, SendqOK
<1> HIDE DEF e
<1>4. level \in [Inst -> Int]
  BY DEF Tiered
<1>5. CASE mod = Conn
  <2>1. m.sender \in Inst /\ ArrivingOK(traces, origin, level, m.sender, i, m)
    BY <1>3, <1>5 DEF EntryOK
  <2>2. s = m
    BY <1>5, <2>1, LinksAssumption
  <2> HIDE DEF m, s
  <2>3. /\ IsMsg(m) /\ m.policy = 0 /\ m.flow \in {"DELIVER", "QUERY"}
        /\ m.state = "RESPONSE" => m.flow = "QUERY"
        /\ m.state = "RESPONSE" =>
              Traced(traces, i, m.nonce) /\ Counted(origin, level, i, m.nonce, m.rjump - 1)
        /\ m.flow = "QUERY" /\ m.state # "RESPONSE" =>
              /\ Back(traces, origin, level, i, m.sender, m.nonce)
              /\ Counted(origin, level, m.sender, m.nonce, m.rjump)
    BY <2>1 DEF ArrivingOK
  <2>4. /\ IsMsg(x) /\ x.policy = m.policy /\ x.flow = m.flow
        /\ x.state = m.state /\ x.nonce = m.nonce /\ x.sender = m.sender
        /\ x.rjump = IF m.state # "RESPONSE" THEN m.rjump + 1 ELSE m.rjump - 1
    BY <1>2, <1>5, <2>2, <2>3, WithJumpsOK
  <2> HIDE DEF x
  <2>5. ASSUME m.flow = "QUERY", m.state # "RESPONSE"
        PROVE  Counted(origin, level, i, m.nonce, x.rjump)
    <3>1. /\ level[m.sender] = level[i] - 1 /\ m.nonce \in DOMAIN origin
          /\ origin[m.nonce].inst \in Inst
          /\ level[m.sender] >= level[origin[m.nonce].inst]
          /\ m.rjump <= 1 + level[m.sender] - level[origin[m.nonce].inst]
      BY <2>3, <2>5 DEF Back, Counted
    <3>2. m.rjump \in Int /\ x.rjump = m.rjump + 1
      BY <2>3, <2>4, <2>5 DEF IsMsg
    <3>3. level[i] \in Int /\ level[origin[m.nonce].inst] \in Int
      BY <1>4, <3>1
    <3> QED BY <3>1, <3>2, <3>3 DEF Counted
  <2>6. ComeOK(traces, origin, level, i, x)
    BY <2>3, <2>4, <2>5 DEF ComeOK
  <2> QED BY <1>1, <2>6
<1>6. CASE mod # Conn
  <2>1. IsMsg(m) /\ (FreshOK(origin, i, m) \/ WaitingOK(traces, origin, level, i, m))
    BY <1>3, <1>6 DEF EntryOK
  <2> HIDE DEF m
  <2>2. /\ IsMsg(s) /\ s.site = m.site /\ s.policy = m.policy /\ s.flow = m.flow
        /\ s.state = m.state /\ s.nonce = m.nonce /\ s.rjump = m.rjump
    BY <1>6, <2>1, SenderSet
  <2> HIDE DEF s
  <2>3. /\ IsMsg(x) /\ x.site = m.site /\ x.policy = m.policy /\ x.flow = m.flow
        /\ x.state = m.state /\ x.nonce = m.nonce
        /\ x.rjump = 1 \/ (m.rjump # 0 /\ x.rjump = m.rjump)
    BY <1>2, <1>6, <2>2, WithJumpsOK
  <2> HIDE DEF x
  <2>4. CASE FreshOK(origin, i, m)
    BY <1>1, <2>3, <2>4 DEF FreshOK, MadeOK
  <2>5. CASE WaitingOK(traces, origin, level, i, m)
    <3>1. ASSUME Counted(origin, level, i, m.nonce, m.rjump)
          PROVE  Counted(origin, level, i, m.nonce, x.rjump)
      <4>1. level[i] \in Int /\ level[origin[m.nonce].inst] \in Int
        BY <1>4, <3>1 DEF Counted
      <4> QED BY <2>3, <3>1, <4>1 DEF Counted
    <3>2. SiteOK(i, x)
      BY <2>3, <2>5 DEF WaitingOK, Underway, SiteOK, Path
    <3>3. WaitingOK(traces, origin, level, i, x)
      BY <2>3, <2>5, <3>1, <3>2 DEF WaitingOK, Underway
    <3> QED BY <1>1, <3>3
  <2> QED BY <2>1, <2>4, <2>5
<1> QED BY <1>5, <1>6

-----------------------------------------------------------------------------
(* The steps of the router's first half. *)

(* The router goes on to the next module. *)
LEMMA PcMoves ==
    ASSUME NEW p, p \in [Inst -> Nat \ {0}], NEW i \in Inst
    PROVE  [p EXCEPT ![i] = @ + 1] \in [Inst -> Nat \ {0}]
OBVIOUS

(* Taking a message, with what joins the waiting list and the traces. *)
LEMMA TakeAndOK ==
    ASSUME NEW level, Shape, Carried(level), NEW i \in Inst, HasMsg(i), NEW add, NEW new,
           TakeAnd(i, add, new), IsSeq(add), IsSeq(new),
           \A t \in ToSet(new) :
               TraceOK(ListSet(traces, i, traces[i] \o new), origin, level, i, t),
           \A m \in ToSet(add) :
               WaitingOK(ListSet(traces, i, traces[i] \o new), origin, level, i, m)
    PROVE  Shape' /\ Carried(level)'
<1> DEFINE tr == ListSet(traces, i, traces[i] \o new)
           q  == Rest(sendq[i][Polled(i)])
           w  == waiting[i] \o add
<1>1. /\ sendq' = QueueSet(sendq, i, Polled(i), q) /\ waiting' = ListSet(waiting, i, w)
      /\ traces' = tr /\ pc' = [pc EXCEPT ![i] = @ + 1]
      /\ recvq' = recvq /\ dead' = dead /\ net' = net /\ nonces' = nonces /\ origin' = origin
  BY DEF TakeAnd, QueueSet, ListSet, history
<1>2. Grows(traces, origin, tr, origin) /\ ListsShape(tr) /\ TracesOK(tr, origin, level)
  BY TracesAdded DEF Shape, Carried
<1>3. /\ SendqOK(sendq, tr, origin, level) /\ RecvqOK(recvq, tr, origin, level)
      /\ ListsOK(waiting, tr, origin, level) /\ NetOK(net, tr, origin, level)
  BY <1>2, GrowsKeepsAll DEF Carried
<1>4. IsSeq(q) /\ ToSet(q) \subseteq ToSet(sendq[i][Polled(i)]) /\ Polled(i) \in ModSet(i)
  BY PolledOK, LastSeq DEF Rest
<1>5. IsSeq(w) /\ ToSet(w) = ToSet(waiting[i]) \cup ToSet(add)
  BY ConcatSeq DEF Shape, ListsShape
<1> HIDE DEF q, w
<1>6. QueuesShape(sendq') /\ SendqOK(sendq', tr, origin, level)
  BY <1>1, <1>3, <1>4, SendqSetOK DEF Shape
<1>7. ListsShape(waiting') /\ ListsOK(waiting', tr, origin, level)
  <2>1. \A m \in ToSet(w) : m \in ToSet(waiting[i]) \/ WaitingOK(tr, origin, level, i, m)
    BY <1>5
  <2> HIDE DEF tr
  <2> QED BY <1>1, <1>3, <1>5, <2>1, WaitingSetOK DEF Shape
<1>8. pc' \in [Inst -> Nat \ {0}]
  BY <1>1, PcMoves DEF Shape
<1> HIDE DEF tr
<1>9. Shape'
  BY <1>1, <1>2, <1>6, <1>7, <1>8 DEF Shape
<1>10. Carried(level)'
  BY <1>1, <1>2, <1>3, <1>6, <1>7 DEF Carried
<1> QED BY <1>9, <1>10

(* "message has path already": it waits. *)
LEMMA ContinueOK ==
    ASSUME NEW level, Tiered(level), Shape, Carried(level), NEW i \in Inst, RouterContinue(i)
    PROVE  Shape' /\ Carried(level)'
<1>1. HasMsg(i) /\ Taken(i).policy # 0 /\ TakeAnd(i, <<Taken(i)>>, <<>>)
  BY DEF RouterContinue
<1>2. WaitingOK(traces, origin, level, i, Taken(i))
  BY <1>1, TakenOK DEF ComeOK, MadeOK
<1>3. /\ IsSeq(<<Taken(i)>>) /\ ToSet(<<Taken(i)>>) = {Taken(i)}
      /\ IsSeq(<<>>) /\ ToSet(<<>>) = {}
  BY OneSeq, NilSeq
<1>4. Grows(traces, origin, ListSet(traces, i, traces[i] \o <<>>), origin)
  BY <1>3, TracesAdded DEF Shape, Carried
<1>5. \A m \in ToSet(<<Taken(i)>>) :
          WaitingOK(ListSet(traces, i, traces[i] \o <<>>), origin, level, i, m)
  BY <1>2, <1>3, <1>4, GrowsKeeps
<1> QED BY <1>1, <1>3, <1>5, TakeAndOK

(* A message with no policy is dropped. *)
LEMMA NoPolicyOK ==
    ASSUME NEW level, Shape, Carried(level), NEW i \in Inst, RouterNoPolicy(i)
    PROVE  Shape' /\ Carried(level)'
<1>1. HasMsg(i) /\ TakeAnd(i, <<>>, <<>>)
  BY DEF RouterNoPolicy, Unrouted
<1> QED BY <1>1, NilSeq, TakeAndOK

(* A message with a path is not taken for one without. *)
LEMMA UnroutedOK ==
    ASSUME NEW level, Tiered(level), Shape, Carried(level), NEW i \in Inst, Unrouted(i)
    PROVE  \/ ComeOK(traces, origin, level, i, Taken(i))
           \/ MadeOK(origin, i, Taken(i))
<1>1. HasMsg(i) /\ Taken(i).policy = 0
  BY DEF Unrouted
<1>2. 0 \notin DOMAIN Table[i].paths
  BY TablesOK, FoundOK
<1>3. ~WaitingOK(traces, origin, level, i, Taken(i))
  BY <1>1, <1>2 DEF WaitingOK, Underway, SiteOK
<1> QED BY <1>1, <1>3, TakenOK

(* "message is init message": it starts on a policy, and a query leaves    *)
(* its first trace.                                                        *)
LEMMA StartsOK ==
    ASSUME NEW level, Tiered(level), Shape, Carried(level), NEW i \in Inst, RouterStart(i)
    PROVE  Shape' /\ Carried(level)'
<1> DEFINE p == FindRoutePolicy(Table[i], Taken(i))
           m == [SetStart(Table[i], Taken(i), p) EXCEPT !.trail = <<i>>]
           new == StartTraces(m)
           tr == ListSet(traces, i, traces[i] \o new)
<1>1. /\ Unrouted(i) /\ HasMsg(i) /\ Taken(i).flow = "none" /\ p # 0
      /\ TakeAnd(i, <<m>>, new)
  BY DEF RouterStart, Unrouted
<1>2. MadeOK(origin, i, Taken(i))
  BY <1>1, UnroutedOK DEF ComeOK
<1>3. p \in DOMAIN Table[i].paths
  BY <1>1, TablesOK, FoundOK
<1> HIDE DEF p
<1>4. StartedOn(m, Taken(i), i, p)
  BY <1>2, <1>3, StartOK DEF MadeOK
<1> HIDE DEF m
<1>5. m.policy \in DOMAIN Table[i].paths /\ m.nonce \in DOMAIN origin /\ origin[m.nonce].inst = i
  BY <1>2, <1>3, <1>4 DEF StartedOn, MadeOK
<1>6. /\ IsSeq(new) /\ \A t \in ToSet(new) : TraceOK(tr, origin, level, i, t)
      /\ m.flow = "QUERY" => QueryTrace(m) \in ToSet(new)
  <2>1. /\ IsSeq(<<QueryTrace(m)>>) /\ ToSet(<<QueryTrace(m)>>) = {QueryTrace(m)}
        /\ TraceOK(tr, origin, level, i, QueryTrace(m))
    <3> HIDE DEF tr
    <3> QED BY <1>5, StartTracesOK
  <2>2. new = IF m.flow = "QUERY" THEN <<QueryTrace(m)>> ELSE <<>>
    BY <1>4 DEF StartTraces, StartedOn
  <2> HIDE DEF new, tr
  <2> QED BY <2>1, <2>2, NilSeq
<1> HIDE DEF new
<1>7. \A t \in ToSet(new) : t \in ToSet(tr[i])
  BY <1>6, TracesAdded DEF Shape, Carried
<1>8. m.flow = "QUERY" => Traced(tr, i, m.nonce)
  BY <1>5, <1>6, <1>7, StartTracesOK DEF Traced
<1>9. WaitingOK(tr, origin, level, i, m)
  <2>1. Counted(origin, level, i, m.nonce, m.rjump)
    <3>1. level[i] \in Int
      BY DEF Tiered
    <3>2. m.rjump = 1
      BY <1>2, <1>4 DEF StartedOn, MadeOK
    <3> QED BY <1>5, <3>1, <3>2 DEF Counted
  <2> QED BY <1>4, <1>8, <2>1 DEF WaitingOK, Underway, StartedOn
<1>10. IsSeq(<<m>>) /\ \A x \in ToSet(<<m>>) : WaitingOK(tr, origin, level, i, x)
  BY <1>9, OneSeq
<1> QED BY <1>1, <1>6, <1>10, TakeAndOK

(* The head of a list of a path is a place on it. *)
LEMMA HeadPlace ==
    ASSUME NEW level, Tiered(level), NEW i \in Inst, NEW x, x.policy \in DOMAIN Table[i].paths,
           NEW leg \in {"main", "resp"}, x.site = [leg |-> leg, at |-> 0]
    PROVE  SiteOK(i, x) /\ DOMAIN x.site = {"leg", "at"} /\ x.site.at = 0 /\ x.site.leg = leg
<1>1. PathOK(i, level, Table[i].paths, Table[i].paths[x.policy])
  BY TablesOK DEF TableOK
<1>2. Len(Leg(Table[i].paths[x.policy], leg)) \in Nat
  BY <1>1, IsSeqFacts DEF PathOK
<1> QED BY <1>2 DEF SiteOK, Path

(* "message is not return message": a query leaves a trace here that leads *)
(* back to where it came from.                                             *)
LEMMA RemoteStartsOK ==
    ASSUME NEW level, Tiered(level), Shape, Carried(level), NEW i \in Inst, RouterRemoteStart(i)
    PROVE  Shape' /\ Carried(level)'
<1> DEFINE c == Taken(i)
           p == FindPolicyByName(Table[i], c.route, c.rjump, 0)
           m == SetRemoteStart(Table[i], c)
           new == StartTraces(m)
           tr == ListSet(traces, i, traces[i] \o new)
<1>1. /\ Unrouted(i) /\ HasMsg(i) /\ c.flow # "none" /\ c.state # "RESPONSE" /\ c.policy = 0
      /\ m.policy # 0 /\ TakeAnd(i, <<m>>, new)
  BY DEF RouterRemoteStart, Unrouted
<1>2. ComeOK(traces, origin, level, i, c)
  BY <1>1, UnroutedOK DEF MadeOK
<1>3. m = IF p = 0 THEN c ELSE [c EXCEPT !.policy = p, !.site = [leg |-> "main", at |-> 0]]
  BY DEF SetRemoteStart
<1>4. p # 0 => p \in DOMAIN Table[i].paths
  BY TablesOK, FoundOK
<1> HIDE DEF p, m, c
<1>5. p # 0 /\ m = [c EXCEPT !.policy = p, !.site = [leg |-> "main", at |-> 0]]
  BY <1>1, <1>3
<1>6. DOMAIN c = MsgFields /\ c.local \in BOOLEAN /\ c.rjump \in Int
  BY <1>2 DEF ComeOK, IsMsg
<1>7. /\ DOMAIN m = MsgFields /\ m.local = c.local /\ m.rjump = c.rjump /\ m.policy = p
      /\ m.site = [leg |-> "main", at |-> 0] /\ m.flow = c.flow /\ m.state = c.state
      /\ m.nonce = c.nonce /\ m.sender = c.sender
  BY <1>5, <1>6 DEF MsgFields
<1>8. /\ SiteOK(i, m) /\ DOMAIN m.site = {"leg", "at"} /\ m.site.at = 0 /\ m.site.leg = "main"
  BY <1>4, <1>5, <1>7, HeadPlace
<1>9. IsMsg(m)
  BY <1>6, <1>7, <1>8 DEF IsMsg
<1>10. /\ m.flow \in {"DELIVER", "QUERY"} /\ m.state # "RESPONSE"
       /\ m.flow = "QUERY" => /\ Back(traces, origin, level, i, m.sender, m.nonce)
                              /\ Counted(origin, level, i, m.nonce, m.rjump)
  BY <1>1, <1>2, <1>7 DEF ComeOK
<1>11. new = IF m.flow = "QUERY" THEN <<QueryTrace(m)>> ELSE <<>>
  BY <1>10 DEF StartTraces
<1>12. /\ IsSeq(new)
       /\ \A t \in ToSet(new) : t = QueryTrace(m) /\ m.flow = "QUERY"
       /\ m.flow = "QUERY" => QueryTrace(m) \in ToSet(new)
  BY <1>11, NilSeq, OneSeq
<1> HIDE DEF new
<1>13. \A t \in ToSet(new) : TraceOK(tr, origin, level, i, t)
  <2>1. ASSUME m.flow = "QUERY" PROVE TraceOK(tr, origin, level, i, QueryTrace(m))
    <3>1. /\ m.policy \in DOMAIN Table[i].paths /\ m.nonce \in DOMAIN origin
          /\ origin[m.nonce].inst \in Inst
      BY <1>4, <1>5, <1>7, <1>10, <2>1 DEF Counted
    <3>2. Back(tr, origin, level, i, m.sender, m.nonce)
      <4>1. Back(traces, origin, level, i, m.sender, m.nonce) /\ m.sender \in Inst
        BY <1>10, <2>1, JoinedBothWays DEF Back
      <4>2. Traced(tr, m.sender, m.nonce)
        <5>1. PICK t \in ToSet(traces[m.sender]) : t.kind = "query" /\ t.nonce = m.nonce
          BY <4>1 DEF Back, Traced
        <5>2. IsSeq(traces[i]) /\ IsSeq(traces[i] \o new)
              /\ ToSet(traces[i]) \subseteq ToSet(traces[i] \o new)
          BY <1>12, ConcatSeq DEF Shape, ListsShape
        <5>3. \A j \in Inst : tr[j] = IF j = i THEN traces[i] \o new ELSE traces[j]
          BY <5>2, ListSetOK DEF Shape
        <5>4. t \in ToSet(tr[m.sender])
          <6> HIDE DEF tr
          <6> QED BY <4>1, <5>1, <5>2, <5>3
        <5> QED BY <5>1, <5>4 DEF Traced
      <4> HIDE DEF tr
      <4> QED BY <4>1, <4>2 DEF Back
    <3> HIDE DEF tr
    <3> QED BY <3>1, <3>2, StartTracesOK
  <2> QED BY <1>12, <2>1
<1>14. /\ \A t \in ToSet(new) : t \in ToSet(tr[i])
       /\ Grows(traces, origin, tr, origin)
  BY <1>12, <1>13, TracesAdded DEF Shape, Carried
<1>15. m.flow = "QUERY" => Traced(tr, i, m.nonce)
  <2>1. QueryTrace(m).kind = "query" /\ QueryTrace(m).nonce = m.nonce
    BY DEF QueryTrace
  <2> HIDE DEF tr
  <2> QED BY <1>12, <1>14, <2>1 DEF Traced
<1>16. WaitingOK(tr, origin, level, i, m)
  BY <1>8, <1>9, <1>10, <1>15 DEF WaitingOK, Underway
<1>17. IsSeq(<<m>>) /\ \A x \in ToSet(<<m>>) : WaitingOK(tr, origin, level, i, x)
  BY <1>16, OneSeq
<1> QED BY <1>1, <1>12, <1>13, <1>17, TakeAndOK

(* A response resumes where its query left off. *)
LEMMA ResumesOK ==
    ASSUME NEW level, Tiered(level), Shape, Carried(level), NEW i \in Inst, RouterResume(i)
    PROVE  Shape' /\ Carried(level)'
<1> DEFINE c == Taken(i)
           k == FindTrace(traces[i], c.nonce, "query")
           t == traces[i][k]
           m == SetTraceTarget(c, t)
           tr == ListSet(traces, i, traces[i] \o <<>>)
<1>1. /\ Unrouted(i) /\ HasMsg(i) /\ c.state = "RESPONSE" /\ k # 0
      /\ TakeAnd(i, <<m>>, <<>>)
  BY DEF RouterResume, Unrouted
<1>2. ComeOK(traces, origin, level, i, c)
  BY <1>1, UnroutedOK DEF MadeOK
<1>3. t \in ToSet(traces[i]) /\ t.kind = "query"
  BY <1>1, FindTraceOK DEF Shape, ListsShape
<1> HIDE DEF k, t, c
<1>4. t.policy \in DOMAIN Table[i].paths
  BY <1>3 DEF Carried, TracesOK, TraceOK
<1>5. DOMAIN c = MsgFields /\ c.rjump \in Int
  BY <1>2 DEF ComeOK, IsMsg
<1>6. /\ DOMAIN m = MsgFields /\ m.local = FALSE /\ m.rjump = c.rjump /\ m.policy = t.policy
      /\ m.site = [leg |-> "resp", at |-> 0] /\ m.flow = c.flow /\ m.state = c.state
      /\ m.nonce = c.nonce
  BY <1>5 DEF SetTraceTarget, MsgFields
<1> HIDE DEF m
<1>7. /\ SiteOK(i, m) /\ DOMAIN m.site = {"leg", "at"} /\ m.site.at = 0 /\ m.site.leg = "resp"
  BY <1>4, <1>6, HeadPlace
<1>8. IsMsg(m)
  <2>1. m.local \in BOOLEAN
    BY <1>6
  <2> QED BY <1>5, <1>6, <1>7, <2>1 DEF IsMsg
<1>9. WaitingOK(traces, origin, level, i, m)
  BY <1>1, <1>2, <1>6, <1>7, <1>8 DEF ComeOK, WaitingOK, Underway
<1>10. Grows(traces, origin, tr, origin)
  BY NilSeq, TracesAdded DEF Shape, Carried
<1>11. WaitingOK(tr, origin, level, i, m)
  <2> HIDE DEF tr
  <2> QED BY <1>9, <1>10, GrowsKeeps
<1>12. /\ IsSeq(<<m>>) /\ \A x \in ToSet(<<m>>) : WaitingOK(tr, origin, level, i, x)
       /\ IsSeq(<<>>) /\ \A x \in ToSet(<<>>) : TraceOK(tr, origin, level, i, x)
  BY <1>11, OneSeq, NilSeq
<1> QED BY <1>1, <1>12, TakeAndOK

(* The router does not return: the query has left its trace. *)
LEMMA NeverDies ==
    ASSUME NEW level, Tiered(level), Shape, Carried(level), NEW i \in Inst, RouterDie(i)
    PROVE  FALSE
<1>1. /\ Unrouted(i) /\ Taken(i).state = "RESPONSE"
      /\ FindTrace(traces[i], Taken(i).nonce, "query") = 0
  BY DEF RouterDie
<1>2. ComeOK(traces, origin, level, i, Taken(i))
  BY <1>1, UnroutedOK DEF MadeOK
<1>3. PICK t \in ToSet(traces[i]) : t.kind = "query" /\ t.nonce = Taken(i).nonce
  BY <1>1, <1>2 DEF ComeOK, Traced
<1> QED BY <1>1, <1>3, FindTraceOK DEF Shape, ListsShape

(* The router goes round its modules. *)
LEMMA PollsOK ==
    ASSUME NEW level, Shape, Carried(level), NEW i \in Inst, RouterSkip(i) \/ RouterRound(i)
    PROVE  Shape' /\ Carried(level)'
<1>1. /\ sendq' = sendq /\ recvq' = recvq /\ waiting' = waiting /\ traces' = traces
      /\ dead' = dead /\ net' = net /\ nonces' = nonces /\ origin' = origin
      /\ pc' = [pc EXCEPT ![i] = @ + 1] \/ pc' = [pc EXCEPT ![i] = 1]
  BY DEF RouterSkip, RouterRound, queues, history
<1>2. pc' \in [Inst -> Nat \ {0}]
  BY <1>1, PcMoves DEF Shape
<1>3. Shape'
  BY <1>1, <1>2 DEF Shape
<1>4. Carried(level)'
  BY <1>1 DEF Carried
<1> QED BY <1>3, <1>4

-----------------------------------------------------------------------------
(* The steps of the router's second half. *)

(* The head of the waiting list has reached its end. *)
LEMMA FinishOK ==
    ASSUME NEW level, Shape, Carried(level), NEW i \in Inst, RouterFinish(i)
    PROVE  Shape' /\ Carried(level)'
<1>1. /\ waiting' = ListSet(waiting, i, Tail(waiting[i])) /\ waiting[i] # <<>>
      /\ sendq' = sendq /\ recvq' = recvq /\ pc' = pc /\ traces' = traces
      /\ dead' = dead /\ net' = net /\ nonces' = nonces /\ origin' = origin
  BY DEF RouterFinish, queues, history, ListSet
<1>2. IsSeq(Tail(waiting[i])) /\ ToSet(Tail(waiting[i])) \subseteq ToSet(waiting[i])
  BY <1>1, TailSeq DEF Shape, ListsShape
<1>3. ListsShape(waiting') /\ ListsOK(waiting', traces, origin, level)
  BY <1>1, <1>2, WaitingSetOK DEF Shape, Carried
<1>4. Shape'
  BY <1>1, <1>3 DEF Shape
<1>5. Carried(level)'
  BY <1>1, <1>3 DEF Carried
<1> QED BY <1>4, <1>5

(* What the router has in hand when it sends, and the clones it leaves. *)
LEMMA InHand ==
    ASSUME NEW level, Tiered(level), Shape, Carried(level), NEW i \in Inst, waiting[i] # <<>>,
           Advance(i, Head(waiting[i])).send
    PROVE  LET s == Advance(i, Head(waiting[i]))
               w == Tail(waiting[i]) \o Clones(i, s)
           IN  /\ SentOK(traces, origin, level, i, s.msg)
               /\ IsMsg(s.msg) /\ SiteOK(i, s.msg)
               /\ IsSeq(w) /\ \A m \in ToSet(w) : WaitingOK(traces, origin, level, i, m)
<1> DEFINE h == Head(waiting[i])
           s == Advance(i, h)
           w == Tail(waiting[i]) \o Clones(i, s)
<1>1. /\ h \in ToSet(waiting[i]) /\ IsSeq(Tail(waiting[i]))
      /\ ToSet(Tail(waiting[i])) \subseteq ToSet(waiting[i])
  BY TailSeq DEF Shape, ListsShape
<1>2. \A m \in ToSet(waiting[i]) : WaitingOK(traces, origin, level, i, m)
  BY DEF Carried, ListsOK
<1>3. IsSeq(traces[i]) /\ \A t \in ToSet(traces[i]) : TraceOK(traces, origin, level, i, t)
  BY DEF Shape, ListsShape, Carried, TracesOK
<1>4. SentOK(traces, origin, level, i, s.msg)
  BY <1>1, <1>2, <1>3, AdvanceOK
<1> HIDE DEF s
<1>5. IsMsg(s.msg) /\ SiteOK(i, s.msg)
  BY <1>4 DEF SentOK, Underway
<1>6. /\ IsSeq(Clones(i, s))
      /\ \A x \in ToSet(Clones(i, s)) : WaitingOK(traces, origin, level, i, x)
  BY <1>5, ClonesOK
<1>7. IsSeq(w) /\ ToSet(w) = ToSet(Tail(waiting[i])) \cup ToSet(Clones(i, s))
  BY <1>1, <1>6, ConcatSeq
<1> HIDE DEF w
<1>8. \A m \in ToSet(w) : WaitingOK(traces, origin, level, i, m)
  BY <1>1, <1>2, <1>6, <1>7
<1> QED BY <1>4, <1>5, <1>7, <1>8 DEF w, s

(* proc_router_send_msg: the message goes to its module, or to the         *)
(* connector.                                                              *)
LEMMA SendsOK ==
    ASSUME NEW level, Tiered(level), Shape, Carried(level), NEW i \in Inst, RouterSend(i)
    PROVE  Shape' /\ Carried(level)'
<1> DEFINE s  == Advance(i, Head(waiting[i]))
           to == Target(i, s.msg)
           w  == Tail(waiting[i]) \o Clones(i, s)
           q  == Append(recvq[i][to], s.msg)
<1>1. /\ waiting[i] # <<>> /\ s.send
      /\ waiting' = ListSet(waiting, i, w)
      /\ recvq' = IF to = Empty THEN recvq ELSE QueueSet(recvq, i, to, q)
      /\ sendq' = sendq /\ pc' = pc /\ traces' = traces
      /\ dead' = dead /\ net' = net /\ nonces' = nonces /\ origin' = origin
  BY DEF RouterSend, history, ListSet, QueueSet, Put
<1>2. /\ SentOK(traces, origin, level, i, s.msg) /\ IsMsg(s.msg)
      /\ IsSeq(w) /\ \A m \in ToSet(w) : WaitingOK(traces, origin, level, i, m)
  BY <1>1, InHand
<1> HIDE DEF s, w
<1>3. to # Empty => to \in ModSet(i) /\ (to # Conn => s.msg.local)
  <2>1. s.msg.local \in BOOLEAN
    BY <1>2 DEF IsMsg
  <2>2. CASE s.msg.receiver = Empty
    BY <2>2 DEF Target
  <2>3. CASE s.msg.receiver # Empty /\ ~s.msg.local
    BY <2>3, ModsAssumption DEF Target
  <2>4. CASE s.msg.receiver # Empty /\ s.msg.local
    <3>1. to = IF s.msg.receiver \in ModSet(i) THEN s.msg.receiver ELSE Empty
      BY <2>4 DEF Target
    <3> HIDE DEF to
    <3> QED BY <2>4, <3>1
  <2> QED BY <2>1, <2>2, <2>3, <2>4
<1> HIDE DEF to
<1>4. QueuesShape(recvq') /\ RecvqOK(recvq', traces, origin, level)
  <2>1. CASE to = Empty
    BY <1>1, <2>1 DEF Shape, Carried
  <2>2. CASE to # Empty
    <3>1. to \in ModSet(i) /\ IsSeq(recvq[i][to])
      BY <1>3, <2>2 DEF Shape, QueuesShape
    <3>2. IsSeq(q) /\ ToSet(q) = ToSet(recvq[i][to]) \cup {s.msg}
      BY <3>1, AppendSeq
    <3> HIDE DEF q
    <3>3. \A m \in ToSet(q) : \/ m \in ToSet(recvq[i][to])
                              \/ /\ SentOK(traces, origin, level, i, m)
                                 /\ to # Conn => m.local
      BY <1>2, <1>3, <2>2, <3>2
    <3>4. QueuesShape(recvq) /\ RecvqOK(recvq, traces, origin, level)
      BY DEF Shape, Carried
    <3> QED BY <1>1, <2>2, <3>1, <3>2, <3>3, <3>4, RecvqSetOK
  <2> QED BY <2>1, <2>2
<1>5. ListsShape(waiting') /\ ListsOK(waiting', traces, origin, level)
  BY <1>1, <1>2, WaitingSetOK DEF Shape, Carried
<1>6. Shape'
  BY <1>1, <1>4, <1>5 DEF Shape
<1>7. Carried(level)'
  BY <1>1, <1>4, <1>5 DEF Carried
<1> QED BY <1>6, <1>7

(* Lists joined in either order. *)
LEMMA ConcatAssoc ==
    ASSUME NEW a, NEW b, NEW c, IsSeq(a), IsSeq(b), IsSeq(c)
    PROVE  (a \o b) \o c = a \o (b \o c)
<1> DEFINE S == ToSet(a) \cup ToSet(b) \cup ToSet(c)
<1>1. a \in Seq(S) /\ b \in Seq(S) /\ c \in Seq(S)
  BY DEF IsSeq, ToSet
<1> HIDE DEF S
<1> QED BY <1>1

(* The message diverted to the path of branch b, with its new nonce n. *)
LEMMA DivertedOK ==
    ASSUME NEW tr, NEW or, NEW level, Tiered(level), NEW i \in Inst, NEW m, IsMsg(m), NEW b,
           BranchOK(Table[i].paths, b), NEW n \in DOMAIN or, or[n].inst = i,
           NEW x, x = [AspectMessage(Table[i], m, b, n) EXCEPT !.trail = <<i>>]
    PROVE  /\ IsSeq(StartTraces(x))
           /\ \A t \in ToSet(StartTraces(x)) : TraceOK(tr, or, level, i, t)
           /\ (\A t \in ToSet(StartTraces(x)) : t \in ToSet(tr[i]))
                  => WaitingOK(tr, or, level, i, x)
<1> DEFINE m1 == [m EXCEPT !.nonce = n, !.ljump = 1, !.rjump = 1]
<1>1. x = [SetStart(Table[i], m1, b.path) EXCEPT !.trail = <<i>>]
  BY DEF AspectMessage
<1>2. IsMsg(m1) /\ m1.nonce = n /\ m1.rjump = 1
  BY JumpedOK
<1> HIDE DEF m1
<1>3. b.path \in DOMAIN Table[i].paths
  BY DEF BranchOK
<1>4. StartedOn(x, m1, i, b.path)
  BY <1>1, <1>2, <1>3, StartOK
<1>5. /\ IsMsg(x) /\ SiteOK(i, x) /\ x.flow \in {"DELIVER", "QUERY"} /\ x.state # "RESPONSE"
      /\ x.policy \in DOMAIN Table[i].paths /\ x.nonce = n /\ x.rjump = 1
  BY <1>2, <1>3, <1>4 DEF StartedOn
<1>6. StartTraces(x) = IF x.flow = "QUERY" THEN <<QueryTrace(x)>> ELSE <<>>
  BY <1>5 DEF StartTraces
<1>7. /\ IsSeq(<<QueryTrace(x)>>) /\ ToSet(<<QueryTrace(x)>>) = {QueryTrace(x)}
      /\ QueryTrace(x).kind = "query" /\ QueryTrace(x).nonce = x.nonce
      /\ TraceOK(tr, or, level, i, QueryTrace(x))
  <2>1. /\ x.policy \in DOMAIN Table[i].paths
        /\ x.nonce \in DOMAIN or /\ or[x.nonce].inst \in Inst
        /\ or[x.nonce].inst # i => Back(tr, or, level, i, x.sender, x.nonce)
    BY <1>5
  <2> QED BY ONLY i \in Inst, <2>1, StartTracesOK
<1>8. /\ IsSeq(StartTraces(x))
      /\ \A t \in ToSet(StartTraces(x)) : TraceOK(tr, or, level, i, t)
      /\ x.flow = "QUERY" => QueryTrace(x) \in ToSet(StartTraces(x))
  BY <1>6, <1>7, NilSeq
<1>9. ASSUME \A t \in ToSet(StartTraces(x)) : t \in ToSet(tr[i])
      PROVE  WaitingOK(tr, or, level, i, x)
  <2>1. x.flow = "QUERY" => Traced(tr, i, x.nonce)
    BY <1>7, <1>8, <1>9 DEF Traced
  <2>2. Counted(or, level, i, x.nonce, x.rjump)
    <3>1. level[i] \in Int
      BY SMTT(30) DEF Tiered
    <3> QED BY <1>5, <3>1 DEF Counted
  <2> QED BY <1>5, <2>1, <2>2 DEF WaitingOK, Underway
<1> QED BY <1>8, <1>9

(* route_aspect_message: the message is set aside and its diversion        *)
(* starts.                                                                 *)
LEMMA DivertsOK ==
    ASSUME NEW level, Tiered(level), Shape, Carried(level), NEW i \in Inst, RouterDivert(i)
    PROVE  Shape' /\ Carried(level)'
<1> DEFINE s   == Advance(i, Head(waiting[i]))
           bs  == Branches(Table[i], s.msg)
           a   == Diversion(i, s)
           n   == nonces + 1
           m   == [AspectMessage(Table[i], s.msg, bs[a], n) EXCEPT !.trail = <<i>>]
           old == Tail(waiting[i]) \o Clones(i, s)
           w   == old \o <<m>>
           asp == AspectTrace(s.msg, n)
           new == <<asp>> \o StartTraces(m)
           tr  == ListSet(traces, i, traces[i] \o new)
           or  == Append(origin, [inst |-> i, mod |-> Empty])
<1>1. /\ waiting[i] # <<>> /\ s.send /\ a # 0
      /\ waiting' = [waiting EXCEPT ![i] = Tail(@) \o Clones(i, s) \o <<m>>]
      /\ traces' = [traces EXCEPT ![i] = @ \o <<asp>> \o StartTraces(m)]
      /\ nonces' = n /\ origin' = or
      /\ sendq' = sendq /\ recvq' = recvq /\ pc' = pc /\ dead' = dead /\ net' = net
  BY ZenonT(30) DEF RouterDivert, queues
<1>2. /\ SentOK(traces, origin, level, i, s.msg) /\ IsMsg(s.msg) /\ SiteOK(i, s.msg)
      /\ IsSeq(old) /\ \A x \in ToSet(old) : WaitingOK(traces, origin, level, i, x)
  BY <1>1, InHand, ZenonT(30)
<1>3. waiting' = ListSet(waiting, i, w)
  BY <1>1 DEF ListSet
<1> HIDE DEF s, old
<1>4. IsSeq(bs) /\ \A b \in ToSet(bs) : BranchOK(Table[i].paths, b)
  BY <1>2, BranchesOK
<1>5. BranchOK(Table[i].paths, bs[a])
  <2> DEFINE T == {k \in DOMAIN bs : bs[k].kind = "ASPECT" /\ BranchMatches(Table[i], s.msg, bs[k])}
  <2>1. a = FirstOf(T)
    BY <1>1 DEF Diversion
  <2>2. T \subseteq DOMAIN bs /\ DOMAIN bs \subseteq Nat \ {0}
    BY <1>4, IsSeqFacts
  <2> HIDE DEF T, a, bs
  <2>3. a \in DOMAIN bs
    BY <1>1, <2>1, <2>2, FirstOfIn
  <2> QED BY <1>4, <2>3, IsSeqFacts, SMTT(30)
<1>6. /\ IsSeq(or) /\ n = Len(or) /\ n \in DOMAIN or /\ or[n].inst = i
      /\ \A k \in DOMAIN origin : k \in DOMAIN or /\ or[k] = origin[k]
  <2>1. IsSeq(origin) /\ nonces = Len(origin)
    BY DEF Shape
  <2>2. /\ IsSeq(or) /\ Len(or) = Len(origin) + 1
        /\ \A k \in DOMAIN origin : or[k] = origin[k]
        /\ or[Len(origin) + 1] = [inst |-> i, mod |-> Empty]
    BY <2>1, AppendSeq
  <2> HIDE DEF or
  <2>3. DOMAIN origin = 1 .. Len(origin) /\ DOMAIN or = 1 .. Len(or) /\ Len(origin) \in Nat
    BY <2>1, <2>2, IsSeqFacts
  <2> QED BY <2>1, <2>2, <2>3
<1> HIDE DEF a, bs, n, or
<1>7. /\ IsSeq(StartTraces(m))
      /\ \A t \in ToSet(StartTraces(m)) : TraceOK(tr, or, level, i, t)
      /\ (\A t \in ToSet(StartTraces(m)) : t \in ToSet(tr[i])) => WaitingOK(tr, or, level, i, m)
  <2> HIDE DEF tr
  <2> QED BY <1>2, <1>5, <1>6, DivertedOK
<1> HIDE DEF m
<1>8. IsSeq(<<asp>>) /\ ToSet(<<asp>>) = {asp}
  BY OneSeq
<1>9. IsSeq(new) /\ ToSet(new) = {asp} \cup ToSet(StartTraces(m))
  BY <1>7, <1>8, ConcatSeq
<1>10. Grows(traces, origin, tr, or) /\ \A t \in ToSet(new) : t \in ToSet(tr[i])
  BY <1>6, <1>9, TracesGrow DEF Shape
<1>11. traces' = tr
  <2>1. IsSeq(traces[i])
    BY DEF Shape, ListsShape
  <2>2. (traces[i] \o <<asp>>) \o StartTraces(m) = traces[i] \o (<<asp>> \o StartTraces(m))
    <3> DEFINE a0 == traces[i]
               a1 == <<asp>>
               a2 == StartTraces(m)
    <3>1. IsSeq(a0) /\ IsSeq(a1) /\ IsSeq(a2)
      BY <1>7, <1>8, <2>1
    <3> HIDE DEF a0, a1, a2
    <3>2. (a0 \o a1) \o a2 = a0 \o (a1 \o a2)
      BY <3>1, ConcatAssoc, SMTT(30)
    <3> QED BY <3>2 DEF a0, a1, a2
  <2>3. (traces[i] \o <<asp>>) \o StartTraces(m) = traces[i] \o new
    BY <2>2
  <2> HIDE DEF new
  <2> QED BY <1>1, <2>3 DEF ListSet
<1> HIDE DEF new
<1>12. WaitingOK(tr, or, level, i, m)
  BY <1>7, <1>9, <1>10
<1>13. TraceOK(tr, or, level, i, asp)
  <2>1. asp.kind = "aspect" /\ asp.saved[1] = s.msg
    BY DEF AspectTrace
  <2>2. SentOK(tr, or, level, i, s.msg)
    BY <1>2, <1>10, GrowsKeeps
  <2> HIDE DEF asp, tr
  <2> QED BY <2>1, <2>2 DEF TraceOK
<1>14. \A t \in ToSet(new) : TraceOK(tr, or, level, i, t)
  BY <1>7, <1>9, <1>13
<1>15. ListsShape(tr) /\ TracesOK(tr, or, level)
  BY <1>6, <1>9, <1>14, TracesAdded DEF Shape, Carried
<1> HIDE DEF tr, asp
<1>16. /\ SendqOK(sendq, tr, or, level) /\ RecvqOK(recvq, tr, or, level)
       /\ ListsOK(waiting, tr, or, level) /\ NetOK(net, tr, or, level)
  BY <1>10, GrowsKeepsAll DEF Carried
<1>17. IsSeq(w) /\ \A x \in ToSet(w) : WaitingOK(tr, or, level, i, x)
  <2>1. IsSeq(<<m>>) /\ ToSet(<<m>>) = {m}
    BY OneSeq
  <2>2. IsSeq(w) /\ ToSet(w) = ToSet(old) \cup {m}
    BY <1>2, <2>1, ConcatSeq
  <2> HIDE DEF w
  <2> QED BY <1>2, <1>10, <1>12, <2>2, GrowsKeeps
<1> HIDE DEF w
<1>18. ListsShape(waiting') /\ ListsOK(waiting', tr, or, level)
  BY <1>3, <1>16, <1>17, WaitingSetOK DEF Shape
<1>19. Shape'
  BY <1>1, <1>6, <1>11, <1>15, <1>18 DEF Shape
<1>20. Carried(level)'
  BY <1>1, <1>11, <1>15, <1>16, <1>18 DEF Carried
<1> QED BY <1>19, <1>20

-----------------------------------------------------------------------------
(* The steps of the modules. *)

(* What is taken from a queue was in it. *)
LEMMA QueueRest ==
    ASSUME NEW q, QueuesShape(q), NEW i \in Inst, NEW mod \in ModSet(i), q[i][mod] # <<>>
    PROVE  /\ IsSeq(q[i][mod]) /\ Got(q[i][mod]) \in ToSet(q[i][mod])
           /\ IsSeq(Rest(q[i][mod])) /\ ToSet(Rest(q[i][mod])) \subseteq ToSet(q[i][mod])
BY LastSeq DEF QueuesShape, Got, Rest

(* What is put into a queue is in it. *)
LEMMA QueuePut ==
    ASSUME NEW q, QueuesShape(q), NEW i \in Inst, NEW mod \in ModSet(i), NEW e
    PROVE  /\ IsSeq(Put(q[i][mod], e))
           /\ ToSet(Put(q[i][mod], e)) = ToSet(q[i][mod]) \cup {e}
BY AppendSeq DEF QueuesShape, Put

(* message_create. *)
LEMMA NewMessageOK ==
    ASSUME NEW type, NEW n
    PROVE  LET m == NewMessage(type, n)
           IN  /\ IsMsg(m) /\ m.nonce = n
               /\ m.policy = 0 /\ m.flow = "none" /\ m.state # "RESPONSE" /\ m.rjump = 0
<1> DEFINE m == NewMessage(type, n)
<1>1. /\ DOMAIN m = MsgFields /\ m.local = FALSE /\ m.rjump = 0 /\ m.site = NoSite
      /\ m.nonce = n /\ m.policy = 0 /\ m.flow = "none" /\ m.state = "none"
  BY DEF NewMessage, MsgFields
<1>2. DOMAIN NoSite = {"leg", "at"} /\ NoSite.at = 0
  BY DEF NoSite
<1> HIDE DEF m
<1>3. m.local \in BOOLEAN
  BY <1>1
<1>4. IsMsg(m)
  BY <1>1, <1>2, <1>3 DEF IsMsg
<1> QED BY <1>1, <1>4 DEF m

(* A client creates a message under a nonce of its own. *)
LEMMA AskOK ==
    ASSUME NEW level, Shape, Carried(level), NEW i \in Inst, NEW mod \in ModSet(i), Ask(i, mod)
    PROVE  Shape' /\ Carried(level)'
<1> DEFINE n  == nonces + 1
           m  == NewMessage(Says[mod], n)
           e  == Entry(m)
           q  == Put(sendq[i][mod], e)
           or == Append(origin, [inst |-> i, mod |-> mod])
<1>1. /\ Role[mod] = "client" /\ nonces' = n /\ origin' = or
      /\ sendq' = QueueSet(sendq, i, mod, q)
      /\ recvq' = recvq /\ pc' = pc /\ waiting' = waiting /\ traces' = traces
      /\ dead' = dead /\ net' = net
  BY DEF Ask, QueueSet
<1>2. mod # Conn
  BY <1>1, ModsAssumption DEF Conn
<1>3. /\ IsSeq(or) /\ n = Len(or) /\ n \in DOMAIN or /\ or[n].inst = i
      /\ \A k \in DOMAIN origin : k \in DOMAIN or /\ or[k] = origin[k]
  <2>1. IsSeq(origin) /\ nonces = Len(origin)
    BY DEF Shape
  <2>2. /\ IsSeq(or) /\ Len(or) = Len(origin) + 1
        /\ \A k \in DOMAIN origin : or[k] = origin[k]
        /\ or[Len(origin) + 1] = [inst |-> i, mod |-> mod]
    BY <2>1, AppendSeq
  <2> HIDE DEF or
  <2>3. DOMAIN origin = 1 .. Len(origin) /\ DOMAIN or = 1 .. Len(or) /\ Len(origin) \in Nat
    BY <2>1, <2>2, IsSeqFacts
  <2> QED BY <2>1, <2>2, <2>3
<1>4. /\ IsMsg(m) /\ m.nonce = n
      /\ m.policy = 0 /\ m.flow = "none" /\ m.state # "RESPONSE" /\ m.rjump = 0
  BY NewMessageOK
<1>5. DupActive(e) = m
  BY DEF DupActive, Entry
<1> HIDE DEF or, n, m, e
<1>6. EntryOK(traces, or, level, i, mod, e)
  BY <1>2, <1>3, <1>4, <1>5 DEF EntryOK, FreshOK
<1>7. Grows(traces, origin, traces, or)
  BY <1>3 DEF Grows
<1>8. /\ SendqOK(sendq, traces, or, level) /\ RecvqOK(recvq, traces, or, level)
      /\ ListsOK(waiting, traces, or, level) /\ NetOK(net, traces, or, level)
  BY <1>7, GrowsKeepsAll DEF Carried
<1>9. TracesOK(traces, or, level)
  BY <1>7, GrowsKeeps DEF Carried, TracesOK
<1>10. IsSeq(q) /\ ToSet(q) = ToSet(sendq[i][mod]) \cup {e}
  <2>1. QueuesShape(sendq)
    BY DEF Shape
  <2> QED BY <2>1, QueuePut
<1> HIDE DEF q
<1>11. QueuesShape(sendq') /\ SendqOK(sendq', traces, or, level)
  <2>1. \A x \in ToSet(q) : x \in ToSet(sendq[i][mod]) \/ EntryOK(traces, or, level, i, mod, x)
    BY <1>6, <1>10
  <2> QED BY <1>1, <1>8, <1>10, <2>1, SendqSetOK DEF Shape
<1>12. Shape'
  BY <1>1, <1>3, <1>11 DEF Shape
<1>13. Carried(level)'
  BY <1>1, <1>8, <1>9, <1>11 DEF Carried
<1> QED BY <1>12, <1>13

(* A message ends with its module. *)
LEMMA ConsumeOK ==
    ASSUME NEW level, Shape, Carried(level), NEW i \in Inst, NEW mod \in ModSet(i),
           Consume(i, mod)
    PROVE  Shape' /\ Carried(level)'
<1>1. /\ recvq[i][mod] # <<>> /\ recvq' = QueueSet(recvq, i, mod, Rest(recvq[i][mod]))
      /\ sendq' = sendq /\ pc' = pc /\ waiting' = waiting /\ traces' = traces
      /\ dead' = dead /\ net' = net /\ nonces' = nonces /\ origin' = origin
  BY DEF Consume, QueueSet
<1>2. QueuesShape(recvq') /\ RecvqOK(recvq', traces, origin, level)
  BY <1>1, QueueRest, RecvqSetOK DEF Shape, Carried
<1>3. Shape'
  BY <1>1, <1>2 DEF Shape
<1>4. Carried(level)'
  BY <1>1, <1>2 DEF Carried
<1> QED BY <1>3, <1>4

(* A module takes one message from its receive queue and sends entry e. *)
LEMMA PassedOn ==
    ASSUME NEW level, Shape, Carried(level), NEW i \in Inst, NEW mod \in ModSet(i), NEW e,
           recvq[i][mod] # <<>>, EntryOK(traces, origin, level, i, mod, e),
           sendq' = QueueSet(sendq, i, mod, Put(sendq[i][mod], e)),
           recvq' = QueueSet(recvq, i, mod, Rest(recvq[i][mod])),
           UNCHANGED <<pc, dead, waiting, traces, net, nonces, origin>>
    PROVE  Shape' /\ Carried(level)'
<1>1. /\ pc' = pc /\ waiting' = waiting /\ traces' = traces /\ dead' = dead
      /\ net' = net /\ nonces' = nonces /\ origin' = origin
  OBVIOUS
<1>2. QueuesShape(recvq') /\ RecvqOK(recvq', traces, origin, level)
  BY QueueRest, RecvqSetOK DEF Shape, Carried
<1>3. QueuesShape(sendq') /\ SendqOK(sendq', traces, origin, level)
  <2> DEFINE q == Put(sendq[i][mod], e)
  <2>0. QueuesShape(sendq) /\ SendqOK(sendq, traces, origin, level)
    BY DEF Shape, Carried
  <2>1. IsSeq(q) /\ ToSet(q) = ToSet(sendq[i][mod]) \cup {e}
    <3>1. IsSeq(sendq[i][mod])
      BY <2>0 DEF QueuesShape
    <3> QED BY <3>1, AppendSeq DEF Put
  <2>2. sendq' = QueueSet(sendq, i, mod, q)
    OBVIOUS
  <2> HIDE DEF q
  <2>3. \A x \in ToSet(q) : \/ x \in ToSet(sendq[i][mod])
                            \/ EntryOK(traces, origin, level, i, mod, x)
    BY <2>1
  <2> QED BY <2>0, <2>1, <2>2, <2>3, SendqSetOK
<1>4. Shape'
  BY <1>1, <1>2, <1>3 DEF Shape
<1>5. Carried(level)'
  BY <1>1, <1>2, <1>3 DEF Carried
<1> QED BY <1>4, <1>5

(* What a module is handed, it may send again. *)
LEMMA SentAgain ==
    ASSUME NEW tr, NEW or, NEW level, NEW i, NEW m, SentOK(tr, or, level, i, m), m.local,
           NEW x, IsMsg(x), x.flow = m.flow, x.state = m.state, x.nonce = m.nonce,
           x.rjump = m.rjump, x.policy = m.policy, x.site = m.site
    PROVE  WaitingOK(tr, or, level, i, x)
<1>1. SiteOK(i, x)
  BY DEF SentOK, Underway, SiteOK, Path
<1> QED BY <1>1 DEF SentOK, Underway, WaitingOK

(* What a module other than the connector is handed is local. *)
LEMMA HandedIn ==
    ASSUME NEW level, Shape, Carried(level), NEW i \in Inst, NEW mod \in ModSet(i),
           mod # Conn, recvq[i][mod] # <<>>
    PROVE  /\ SentOK(traces, origin, level, i, Got(recvq[i][mod]))
           /\ Got(recvq[i][mod]).local /\ IsMsg(Got(recvq[i][mod]))
<1>1. Got(recvq[i][mod]) \in ToSet(recvq[i][mod])
  BY QueueRest DEF Shape
<1> QED BY <1>1 DEF Carried, RecvqOK, SentOK, Underway

(* A module sends on what it was handed. *)
LEMMA ForwardOK ==
    ASSUME NEW level, Shape, Carried(level), NEW i \in Inst, NEW mod \in ModSet(i),
           Forward(i, mod)
    PROVE  Shape' /\ Carried(level)'
<1> DEFINE m == Got(recvq[i][mod])
           x == [m EXCEPT !.receiver = Empty]
           e == Entry(x)
<1>1. /\ Role[mod] = "forward" /\ recvq[i][mod] # <<>>
      /\ sendq' = QueueSet(sendq, i, mod, Put(sendq[i][mod], e))
      /\ recvq' = QueueSet(recvq, i, mod, Rest(recvq[i][mod]))
      /\ UNCHANGED <<pc, dead, waiting, traces, net, nonces, origin>>
  BY DEF Forward, QueueSet, history
<1>2. mod # Conn
  BY <1>1, ModsAssumption DEF Conn
<1>3. SentOK(traces, origin, level, i, m) /\ m.local /\ IsMsg(m)
  BY <1>1, <1>2, HandedIn
<1>4. DupActive(e) = x
  BY DEF DupActive, Entry
<1> HIDE DEF m, e
<1>5. /\ IsMsg(x) /\ x.flow = m.flow /\ x.state = m.state /\ x.nonce = m.nonce
      /\ x.rjump = m.rjump /\ x.policy = m.policy /\ x.site = m.site
  BY <1>3 DEF IsMsg, MsgFields
<1> HIDE DEF x
<1>6. WaitingOK(traces, origin, level, i, x)
  BY <1>3, <1>5, SentAgain
<1>7. EntryOK(traces, origin, level, i, mod, e)
  BY <1>2, <1>4, <1>5, <1>6 DEF EntryOK
<1> QED BY <1>1, <1>7, PassedOn

(* A module answers with a message that takes over the path of the one it  *)
(* was handed.                                                             *)
LEMMA ReplyOK ==
    ASSUME NEW level, Shape, Carried(level), NEW i \in Inst, NEW mod \in ModSet(i),
           Reply(i, mod)
    PROVE  Shape' /\ Carried(level)'
<1> DEFINE m == Got(recvq[i][mod])
           a == NewMessage(Says[mod], m.nonce)
           e == EntryFor(a, m)
           x == DupActive(e)
<1>1. /\ Role[mod] = "reply" /\ recvq[i][mod] # <<>>
      /\ sendq' = QueueSet(sendq, i, mod, Put(sendq[i][mod], e))
      /\ recvq' = QueueSet(recvq, i, mod, Rest(recvq[i][mod]))
      /\ UNCHANGED <<pc, dead, waiting, traces, net, nonces, origin>>
  BY DEF Reply, QueueSet, history
<1>2. mod # Conn
  BY <1>1, ModsAssumption DEF Conn
<1>3. SentOK(traces, origin, level, i, m) /\ m.local /\ IsMsg(m)
  BY <1>1, <1>2, HandedIn
<1>4. IsMsg(a)
  BY NewMessageOK
<1> HIDE DEF m, a
<1>5. x = [a EXCEPT !.flow = m.flow, !.state = m.state, !.local = m.local,
                    !.route = m.route, !.ljump = m.ljump, !.rjump = m.rjump,
                    !.nonce = m.nonce, !.policy = m.policy, !.site = m.site,
                    !.trail = m.trail]
  <2>1. e.act # <<>> /\ e.act[1] = m /\ e.msg = a
    BY DEF EntryFor
  <2> HIDE DEF e
  <2> QED BY <2>1 DEF DupActive
<1> HIDE DEF e, x
<1>6. /\ DOMAIN x = MsgFields /\ x.flow = m.flow /\ x.state = m.state /\ x.nonce = m.nonce
      /\ x.rjump = m.rjump /\ x.policy = m.policy /\ x.site = m.site /\ x.local = m.local
  BY <1>4, <1>5 DEF IsMsg, MsgFields
<1>7. IsMsg(x)
  BY <1>3, <1>6 DEF IsMsg
<1>8. WaitingOK(traces, origin, level, i, x)
  BY <1>3, <1>6, <1>7, SentAgain
<1>9. EntryOK(traces, origin, level, i, mod, e)
  BY <1>2, <1>7, <1>8 DEF EntryOK, x
<1> QED BY <1>1, <1>9, PassedOn

-----------------------------------------------------------------------------
(* The steps of the connector. *)

(* What is sent to a peer is fit to arrive there. *)
LEMMA Crosses ==
    ASSUME NEW tr, NEW or, NEW level, Tiered(level), NEW i \in Inst, NEW m,
           SentOK(tr, or, level, i, m), ~m.local, <<i, Peer(i, m.receiver)>> \in Joined
    PROVE  ArrivingOK(tr, or, level, i, Peer(i, m.receiver),
                      [m EXCEPT !.policy = 0, !.site = NoSite])
<1> DEFINE j == Peer(i, m.receiver)
           x == [m EXCEPT !.policy = 0, !.site = NoSite]
<1>1. /\ DOMAIN m = MsgFields /\ m.local \in BOOLEAN /\ m.rjump \in Int
      /\ m.flow \in {"DELIVER", "QUERY"}
      /\ m.state = "RESPONSE" => m.flow = "QUERY"
      /\ m.flow = "QUERY" => Traced(tr, i, m.nonce) /\ Counted(or, level, i, m.nonce, m.rjump)
      /\ m.state = "RESPONSE" => Back(tr, or, level, i, m.receiver, m.nonce)
      /\ m.flow = "QUERY" /\ m.state # "RESPONSE" => Ahead(level, i, m.receiver)
  BY DEF SentOK, Underway, IsMsg
<1>2. /\ DOMAIN x = MsgFields /\ x.local = m.local /\ x.rjump = m.rjump /\ x.policy = 0
      /\ x.site = NoSite /\ x.flow = m.flow /\ x.state = m.state /\ x.nonce = m.nonce
  BY <1>1 DEF MsgFields
<1>3. j = IF <<i, m.receiver>> \in Joined THEN m.receiver ELSE Default[i]
  BY DEF Peer
<1> HIDE DEF j, x
<1>4. <<i, j>> \in Joined
  BY DEF j
<1>5. j \in Inst /\ <<j, i>> \in Joined
  BY <1>4, JoinedBothWays
<1>6. level[i] \in Int /\ level[j] \in Int
  BY <1>5 DEF Tiered
<1>7. IsMsg(x)
  BY <1>1, <1>2 DEF IsMsg, NoSite
<1>8. ASSUME m.state = "RESPONSE"
      PROVE  Traced(tr, j, m.nonce) /\ Counted(or, level, j, m.nonce, m.rjump - 1)
  <2>1. Back(tr, or, level, i, j, m.nonce)
    BY <1>1, <1>3, <1>8 DEF Back
  <2>2. Counted(or, level, i, m.nonce, m.rjump)
    BY <1>1, <1>8
  <2>3. level[or[m.nonce].inst] \in Int
    BY <2>2 DEF Counted, Tiered
  <2> QED BY <1>1, <1>6, <2>1, <2>2, <2>3 DEF Back, Counted
<1>9. ASSUME m.flow = "QUERY", m.state # "RESPONSE"
      PROVE  Back(tr, or, level, j, i, m.nonce) /\ Counted(or, level, i, m.nonce, m.rjump)
  <2>1. Traced(tr, i, m.nonce) /\ Counted(or, level, i, m.nonce, m.rjump)
    BY <1>1, <1>9
  <2>2. level[j] = level[i] + 1
    BY <1>1, <1>3, <1>4, <1>9 DEF Ahead, Tiered
  <2> QED BY <1>5, <1>6, <2>1, <2>2 DEF Back, Counted
<1>10. ArrivingOK(tr, or, level, i, j, x)
  BY <1>1, <1>2, <1>7, <1>8, <1>9 DEF ArrivingOK
<1> QED BY <1>10 DEF j, x

(* The send loop of the connector thread. *)
LEMMA ConnSendOK ==
    ASSUME NEW level, Tiered(level), Shape, Carried(level), NEW i \in Inst, ConnSend(i)
    PROVE  Shape' /\ Carried(level)'
<1> DEFINE m == Got(recvq[i][Conn])
           j == Peer(i, m.receiver)
           x == [m EXCEPT !.policy = 0, !.site = NoSite]
           s == Append(net[<<i, j>>], x)
<1>1. /\ recvq[i][Conn] # <<>> /\ recvq' = QueueSet(recvq, i, Conn, Rest(recvq[i][Conn]))
      /\ net' = IF m.local \/ j = Empty THEN net ELSE ListSet(net, <<i, j>>, s)
      /\ sendq' = sendq /\ pc' = pc /\ waiting' = waiting /\ traces' = traces
      /\ dead' = dead /\ nonces' = nonces /\ origin' = origin
  BY DEF ConnSend, QueueSet, ListSet, history
<1>2. Conn \in ModSet(i)
  BY ModsAssumption
<1>3. QueuesShape(recvq') /\ RecvqOK(recvq', traces, origin, level)
  BY <1>1, <1>2, QueueRest, RecvqSetOK DEF Shape, Carried
<1>4. SentOK(traces, origin, level, i, m)
  <2>1. m \in ToSet(recvq[i][Conn])
    BY <1>1, <1>2, QueueRest DEF Shape
  <2> HIDE DEF m
  <2> QED BY <1>2, <2>1 DEF Carried, RecvqOK
<1>5. <<i, j>> \in Joined /\ ~m.local => ArrivingOK(traces, origin, level, i, j, x)
  BY <1>4, Crosses
<1> HIDE DEF m, j, x
<1>6. NetShape(net) /\ NetOK(net, traces, origin, level)
  BY DEF Shape, Carried
<1>7. NetShape(net') /\ NetOK(net', traces, origin, level)
  <2>1. CASE m.local \/ j = Empty
    BY <1>1, <1>6, <2>1
  <2>2. CASE ~(m.local \/ j = Empty) /\ <<i, j>> \in Joined
    <3>1. IsSeq(net[<<i, j>>])
      BY <1>6, <2>2 DEF NetShape
    <3>2. IsSeq(s) /\ ToSet(s) = ToSet(net[<<i, j>>]) \cup {x}
      BY <3>1, AppendSeq
    <3> HIDE DEF s
    <3>3. \A y \in ToSet(s) : \/ y \in ToSet(net[<<i, j>>])
                              \/ ArrivingOK(traces, origin, level, <<i, j>>[1], <<i, j>>[2], y)
      BY <1>5, <2>2, <3>2
    <3> QED BY <1>1, <1>6, <2>2, <3>2, <3>3, NetSetOK
  <2>3. CASE ~(m.local \/ j = Empty) /\ <<i, j>> \notin Joined
    <3> HIDE DEF s
    <3>1. /\ DOMAIN net' = Joined
          /\ \A l \in Joined : net'[l] = net[l]
      BY <1>1, <1>6, <2>3 DEF NetShape, ListSet
    <3> QED BY <1>6, <3>1 DEF NetShape, NetOK
  <2> QED BY <2>1, <2>2, <2>3
<1>8. Shape'
  BY <1>1, <1>3, <1>7 DEF Shape
<1>9. Carried(level)'
  BY <1>1, <1>3, <1>7 DEF Carried
<1> QED BY <1>8, <1>9

(* The first message in flight leaves its connection. *)
LEMMA NetTail ==
    ASSUME NEW level, Shape, Carried(level), NEW l \in Joined, net[l] # <<>>
    PROVE  /\ Head(net[l]) \in ToSet(net[l])
           /\ NetShape(ListSet(net, l, Tail(net[l])))
           /\ NetOK(ListSet(net, l, Tail(net[l])), traces, origin, level)
<1>1. /\ Head(net[l]) \in ToSet(net[l]) /\ IsSeq(Tail(net[l]))
      /\ ToSet(Tail(net[l])) \subseteq ToSet(net[l])
  BY TailSeq DEF Shape, NetShape
<1> QED BY <1>1, NetSetOK DEF Shape, Carried

(* A lost message only makes less to be sound. *)
LEMMA LoseOK ==
    ASSUME NEW level, Shape, Carried(level), NEW j, NEW i, Lose(j, i)
    PROVE  Shape' /\ Carried(level)'
<1>1. /\ <<j, i>> \in Joined /\ net[<<j, i>>] # <<>>
      /\ net' = ListSet(net, <<j, i>>, Tail(net[<<j, i>>]))
      /\ sendq' = sendq /\ recvq' = recvq /\ pc' = pc /\ waiting' = waiting
      /\ traces' = traces /\ dead' = dead /\ nonces' = nonces /\ origin' = origin
  BY DEF Lose, ListSet, queues, history
<1>2. NetShape(net') /\ NetOK(net', traces, origin, level)
  BY <1>1, NetTail
<1>3. Shape'
  BY <1>1, <1>2 DEF Shape
<1>4. Carried(level)'
  BY <1>1, <1>2 DEF Carried
<1> QED BY <1>3, <1>4

(* The receive loop of the connector thread. *)
LEMMA ConnRecvOK ==
    ASSUME NEW level, Shape, Carried(level), NEW j, NEW i, ConnRecv(j, i)
    PROVE  Shape' /\ Carried(level)'
<1> DEFINE m == Head(net[<<j, i>>])
           r == [m EXCEPT !.sender = j, !.receiver = Empty,
                          !.trail = IF m.state = "RESPONSE" THEN Front(@) ELSE Append(@, i)]
           e == Entry(r)
           q == Put(sendq[i][Conn], e)
<1>1. /\ <<j, i>> \in Joined /\ net[<<j, i>>] # <<>>
      /\ net' = ListSet(net, <<j, i>>, Tail(net[<<j, i>>]))
      /\ sendq' = QueueSet(sendq, i, Conn, q)
      /\ recvq' = recvq /\ pc' = pc /\ waiting' = waiting
      /\ traces' = traces /\ dead' = dead /\ nonces' = nonces /\ origin' = origin
  BY DEF ConnRecv, ListSet, QueueSet, history
<1>2. /\ m \in ToSet(net[<<j, i>>])
      /\ NetShape(net') /\ NetOK(net', traces, origin, level)
  BY <1>1, NetTail
<1>3. i \in Inst /\ j \in Inst
  BY <1>1, JoinedBothWays
<1>4. Conn \in ModSet(i)
  BY <1>3, ModsAssumption
<1>5. ArrivingOK(traces, origin, level, j, i, m)
  <2>1. \A y \in ToSet(net[<<j, i>>]) :
            ArrivingOK(traces, origin, level, <<j, i>>[1], <<j, i>>[2], y)
    BY <1>1 DEF Carried, NetOK
  <2> HIDE DEF m
  <2> QED BY <1>2, <2>1
<1>6. DupActive(e) = r
  BY DEF DupActive, Entry
<1> HIDE DEF m, e
<1>7. DOMAIN m = MsgFields
  BY <1>5 DEF ArrivingOK, IsMsg
<1>8. /\ DOMAIN r = MsgFields /\ r.sender = j /\ r.local = m.local /\ r.rjump = m.rjump
      /\ r.policy = m.policy /\ r.site = m.site /\ r.flow = m.flow /\ r.state = m.state
      /\ r.nonce = m.nonce
  BY <1>7 DEF MsgFields
<1> HIDE DEF r
<1>9. IsMsg(r)
  BY <1>5, <1>8 DEF ArrivingOK, IsMsg
<1>10. ArrivingOK(traces, origin, level, j, i, r)
  BY <1>5, <1>8, <1>9 DEF ArrivingOK
<1>11. EntryOK(traces, origin, level, i, Conn, e)
  BY <1>3, <1>6, <1>8, <1>10 DEF EntryOK
<1>12. QueuesShape(sendq) /\ SendqOK(sendq, traces, origin, level)
  BY DEF Shape, Carried
<1>13. IsSeq(q) /\ ToSet(q) = ToSet(sendq[i][Conn]) \cup {e}
  <2>1. IsSeq(sendq[i][Conn])
    BY <1>3, <1>4, <1>12 DEF QueuesShape
  <2> QED BY <2>1, AppendSeq DEF Put
<1> HIDE DEF q
<1>14. QueuesShape(sendq') /\ SendqOK(sendq', traces, origin, level)
  <2>1. \A y \in ToSet(q) : \/ y \in ToSet(sendq[i][Conn])
                            \/ EntryOK(traces, origin, level, i, Conn, y)
    BY <1>11, <1>13
  <2> QED BY <1>1, <1>3, <1>4, <1>12, <1>13, <2>1, SendqSetOK
<1>15. Shape'
  BY <1>1, <1>2, <1>14 DEF Shape
<1>16. Carried(level)'
  BY <1>1, <1>2, <1>14 DEF Carried
<1> QED BY <1>15, <1>16

-----------------------------------------------------------------------------
(* At the start nothing is under way. *)
LEMMA InitHolds ==
    ASSUME NEW level
    PROVE  Init => IInv(level)
<1> SUFFICES ASSUME Init PROVE IInv(level)
  OBVIOUS
<1>1. /\ sendq = [i \in Inst |-> [m \in ModSet(i) |-> <<>>]]
      /\ recvq = [i \in Inst |-> [m \in ModSet(i) |-> <<>>]]
      /\ pc = [i \in Inst |-> 1] /\ dead = [i \in Inst |-> FALSE]
      /\ waiting = [i \in Inst |-> <<>>] /\ traces = [i \in Inst |-> <<>>]
      /\ net = [l \in Joined |-> <<>>]
      /\ nonces = 0 /\ restarts = 0 /\ origin = <<>>
  BY DEF Init
<1>2. IsSeq(<<>>) /\ ToSet(<<>>) = {} /\ Len(<<>>) = 0
  BY NilSeq
<1>3. QueuesShape(sendq) /\ QueuesShape(recvq)
  BY <1>1, <1>2 DEF QueuesShape
<1>4. ListsShape(waiting) /\ ListsShape(traces) /\ NetShape(net)
  BY <1>1, <1>2 DEF ListsShape, NetShape
<1>5. Shape
  BY <1>1, <1>2, <1>3, <1>4 DEF Shape
<1>6. SendqOK(sendq, traces, origin, level) /\ RecvqOK(recvq, traces, origin, level)
  BY <1>1, <1>2 DEF SendqOK, RecvqOK
<1>7. /\ ListsOK(waiting, traces, origin, level) /\ TracesOK(traces, origin, level)
      /\ NetOK(net, traces, origin, level)
  BY <1>1, <1>2 DEF ListsOK, TracesOK, NetOK
<1>8. \A i \in Inst : ~dead[i]
  BY <1>1
<1> QED BY <1>1, <1>5, <1>6, <1>7, <1>8 DEF IInv, Carried

(* Every step keeps the invariant; a restart ends what it claims. *)
LEMMA NextHolds ==
    ASSUME NEW level, Tiered(level)
    PROVE  IInv(level) /\ [Next]_vars => IInv(level)'
<1> SUFFICES ASSUME IInv(level), [Next]_vars PROVE IInv(level)'
  OBVIOUS
<1>1. restarts \in Nat
  BY DEF IInv
<1>2. ASSUME NEW i \in Inst, Restart(i) PROVE IInv(level)'
  BY <1>1, <1>2 DEF Restart, IInv
<1>3. CASE UNCHANGED vars
  BY <1>3 DEF vars, queues, counts, history, IInv, Shape, Carried
<1>4. ASSUME restarts' = restarts, Shape /\ Carried(level) => Shape' /\ Carried(level)'
      PROVE  IInv(level)'
  BY <1>4 DEF IInv
<1>5. ASSUME NEW i \in Inst, Router(i) PROVE IInv(level)'
  <2>1. restarts' = restarts
    BY <1>5 DEF Router, RouterSkip, RouterContinue, RouterStart, RouterRemoteStart,
                RouterNoPolicy, RouterResume, RouterDie, RouterRound, RouterFinish, RouterSend,
                RouterDivert, TakeAnd, counts
  <2>2. ASSUME Shape, Carried(level) PROVE Shape' /\ Carried(level)'
    <3>1. CASE RouterSkip(i) \/ RouterRound(i)
      BY <2>2, <3>1, PollsOK
    <3>2. CASE RouterContinue(i)
      BY <2>2, <3>2, ContinueOK
    <3>3. CASE RouterStart(i)
      BY <2>2, <3>3, StartsOK
    <3>4. CASE RouterRemoteStart(i)
      BY <2>2, <3>4, RemoteStartsOK
    <3>5. CASE RouterNoPolicy(i)
      BY <2>2, <3>5, NoPolicyOK
    <3>6. CASE RouterResume(i)
      BY <2>2, <3>6, ResumesOK
    <3>7. CASE RouterDie(i)
      BY <2>2, <3>7, NeverDies
    <3>8. CASE RouterFinish(i)
      BY <2>2, <3>8, FinishOK
    <3>9. CASE RouterSend(i)
      BY <2>2, <3>9, SendsOK
    <3>10. CASE RouterDivert(i)
      BY <2>2, <3>10, DivertsOK
    <3> QED BY <1>5, <3>1, <3>2, <3>3, <3>4, <3>5, <3>6, <3>7, <3>8, <3>9, <3>10 DEF Router
  <2> QED BY <1>4, <2>1, <2>2, SMTT(30)
<1>6. ASSUME NEW i \in Inst, ConnSend(i) PROVE IInv(level)'
  <2>1. restarts' = restarts
    BY <1>6 DEF ConnSend, counts
  <2>2. Shape /\ Carried(level) => Shape' /\ Carried(level)'
    BY <1>6, ConnSendOK
  <2> QED BY <1>4, <2>1, <2>2
<1>7. ASSUME NEW i \in Inst, NEW mod \in ModSet(i), Ask(i, mod) \/ Module(i, mod)
      PROVE  IInv(level)'
  <2>1. restarts' = restarts
    BY <1>7 DEF Ask, Module, Consume, Forward, Reply, counts
  <2>2. ASSUME Shape, Carried(level) PROVE Shape' /\ Carried(level)'
    <3>1. CASE Ask(i, mod)
      BY <2>2, <3>1, AskOK
    <3>2. CASE Consume(i, mod)
      BY <2>2, <3>2, ConsumeOK
    <3>3. CASE Forward(i, mod)
      BY <2>2, <3>3, ForwardOK
    <3>4. CASE Reply(i, mod)
      BY <2>2, <3>4, ReplyOK
    <3> QED BY <1>7, <3>1, <3>2, <3>3, <3>4 DEF Module
  <2> QED BY <1>4, <2>1, <2>2
<1>8. ASSUME NEW j, NEW i, ConnRecv(j, i) \/ Lose(j, i) PROVE IInv(level)'
  <2>1. restarts' = restarts
    BY <1>8 DEF ConnRecv, Lose, counts
  <2>2. Shape /\ Carried(level) => Shape' /\ Carried(level)'
    BY <1>8, ConnRecvOK, LoseOK
  <2> QED BY <1>4, <2>1, <2>2
<1> QED BY <1>2, <1>3, <1>5, <1>6, <1>7, <1>8 DEF Next

(* A router returns only after a restart: without one,                     *)
(* message_route_findtrace finds a trace for every response that           *)
(* proc_router_start looks one up for, in every tiered network.            *)
THEOREM RouterLives ==
    ASSUME NEW level, Tiered(level)
    PROVE  Spec => []RouterDiesOnlyAfterRestart
<1>1. Init => IInv(level)
  BY InitHolds
<1>2. IInv(level) /\ [Next]_vars => IInv(level)'
  BY NextHolds
<1>3. IInv(level) => RouterDiesOnlyAfterRestart
  BY DEF IInv, Carried, RouterDiesOnlyAfterRestart
<1> QED BY <1>1, <1>2, <1>3, PTL DEF Spec
=============================================================================
