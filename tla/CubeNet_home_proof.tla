------------------------- MODULE CubeNet_home_proof -------------------------
(***************************************************************************)
(* The theorems on what a message carries, for every network with one way  *)
(* up: an answer goes back the way its query came and reaches the client   *)
(* that asked, and the heads of all messages agree with their paths.  They *)
(* hold at all times, after any number of restarts and losses.             *)
(*                                                                         *)
(* The invariant says of every message, wherever it is held, what its      *)
(* trail is and how many hops it has counted, and of a query that its      *)
(* trail climbs from the instance where its nonce was drawn: the nonce     *)
(* and the instance determine the trail then, so that the first trace of   *)
(* the nonce that a response finds names where its own query came from,    *)
(* whichever message left it.  The same goes for the policy: a nonce is    *)
(* bound to one route (its name in "kn"), so that the policy of the trace  *)
(* is one of the response's route.                                         *)
(*                                                                         *)
(* Nothing is said of traces that must be there, so that a restart, which  *)
(* only removes things, leaves all of it as it was.                        *)
(***************************************************************************)
EXTENDS CubeNet_proof

-----------------------------------------------------------------------------
(* The invariant.  kn binds the nonces drawn so far to who asked and to    *)
(* the name of the policy the question is put on.                          *)

Fits(kn, or) ==
    /\ IsSeq(or) /\ DOMAIN kn = DOMAIN or
    /\ \A n \in DOMAIN or : kn[n].who = or[n]

(* A name stands for one flow: all policies of that name have it. *)
FlowOfName(name, flow) ==
    \A j \in Inst : \A p \in ToSet(Table[j].paths) : p.name = name => p.flow = flow

(* A message at i, which has come hops instances on its path. *)
OnWay(kn, level, i, m, hops) ==
    /\ IsMsg(m)
    /\ m.flow \in {"DELIVER", "QUERY"}
    /\ m.state = "RESPONSE" => m.flow = "QUERY"
    /\ NamesAgree => FlowOfName(m.route, m.flow)
    /\ m.nonce \in DOMAIN kn
    /\ m.trail \in Seq(Inst) /\ m.trail # <<>> /\ Last(m.trail) = i
    /\ hops \in 1 .. Len(m.trail) /\ (PortsAsk => hops = Len(m.trail))
    /\ m.flow = "QUERY" => /\ Climbs(level, m.trail)
                           /\ m.trail[1] = kn[m.nonce].who.inst
                           /\ m.route = kn[m.nonce].name

(* The response path of policy p of i names no client but the one that     *)
(* asked.                                                                  *)
Answers(kn, i, n, p) ==
    \A node \in ToSet(Table[i].paths[p].resp) :
        ClientNode(node) => kn[n].who = [inst |-> i, mod |-> node.to]

(* Policy p of i is for what the one who asked sends. *)
Asked(kn, i, n, p) ==
    Table[i].paths[p].sender # Empty => kn[n].who = [inst |-> i, mod |-> Table[i].paths[p].sender]

(* A message of the router of i. *)
Routed(kn, level, i, m) ==
    /\ OnWay(kn, level, i, m, m.rjump)
    /\ SiteOK(i, m)
    /\ m.route = Path(i, m).name
    /\ Len(m.trail) = 1 => Asked(kn, i, m.nonce, m.policy)
    /\ m.flow = "QUERY" => Answers(kn, i, m.nonce, m.policy)

(* On the waiting list. *)
WaitingHome(kn, level, i, m) ==
    /\ Routed(kn, level, i, m)
    /\ m.site.leg # "none"
    /\ m.state = "RESPONSE" => m.site.leg = "resp"

(* Sent, to a module or to the connector. *)
SentHome(kn, level, i, m) ==
    /\ Routed(kn, level, i, m)
    /\ m.site.leg = "none" => m.receiver = Empty
    /\ m.state = "RESPONSE" /\ m.local =>
          /\ m.site.leg = "resp"
          /\ Role[m.receiver] = "client" => kn[m.nonce].who = [inst |-> i, mod |-> m.receiver]
    /\ m.state = "RESPONSE" /\ ~m.local =>
          m.rjump > 1 /\ Len(m.trail) > 1 /\ m.receiver = m.trail[Len(m.trail) - 1]
    /\ m.flow = "QUERY" /\ m.state # "RESPONSE" /\ ~m.local => Ahead(level, i, m.receiver)

(* On a receive queue. *)
RecvHome(kn, level, i, mod, m) ==
    /\ SentHome(kn, level, i, m) /\ m.site.leg # "none"
    /\ mod # Conn => m.local /\ m.receiver = mod

(* In flight from j to i. *)
FlightHome(kn, level, j, i, m) ==
    /\ m.policy = 0
    /\ OnWay(kn, level, j, m, m.rjump)
    /\ m.state = "RESPONSE" =>
          m.rjump > 1 /\ Len(m.trail) > 1 /\ m.trail[Len(m.trail) - 1] = i
    /\ m.flow = "QUERY" /\ m.state # "RESPONSE" => level[i] = level[j] + 1

(* Received by the connector of i, the hop not counted yet. *)
CameHome(kn, level, i, m) ==
    /\ m.policy = 0 /\ m.sender \in Inst
    /\ OnWay(kn, level, i, m, IF m.state = "RESPONSE" THEN m.rjump - 1 ELSE m.rjump + 1)
    /\ m.state # "RESPONSE" => m.rjump >= 1
    /\ m.flow = "QUERY" /\ m.state # "RESPONSE" =>
          Len(m.trail) > 1 /\ m.trail[Len(m.trail) - 1] = m.sender

(* What a module creates: the message the router will have in hand, and    *)
(* the name of the policy it will put it on.                               *)
FirstOfMod(mod) ==
    WithJumps(ModType[mod], [NewMessage(Says[mod], 0) EXCEPT !.sender = mod])
FirstName(i, mod) == Table[i].paths[FindRoutePolicy(Table[i], FirstOfMod(mod))].name

FreshHome(kn, i, mod, m) ==
    /\ mod # Conn
    /\ m.nonce \in DOMAIN kn
    /\ kn[m.nonce].who = [inst |-> i, mod |-> mod] /\ kn[m.nonce].name = FirstName(i, mod)
    /\ m = NewMessage(Says[mod], m.nonce)

(* On a send queue. *)
EntryHome(kn, level, i, mod, e) ==
    LET m == DupActive(e)
    IN  IF mod = Conn THEN CameHome(kn, level, i, m)
        ELSE \/ FreshHome(kn, i, mod, m)
             \/ WaitingHome(kn, level, i, m) /\ (PortsAsk => ModType[mod] # "PORT")

(* A trace of a query names the instance before i on the way up. *)
StepBack(kn, level, i, t) ==
    \E w \in Seq(Inst) :
        /\ Climbs(level, w) /\ w[1] = kn[t.nonce].who.inst /\ Last(w) = i
        /\ Len(w) > 1 /\ t.source = w[Len(w) - 1]

TraceHome(kn, level, i, t) ==
    \/ /\ t.kind = "query" /\ t.nonce \in DOMAIN kn
       /\ t.policy \in DOMAIN Table[i].paths
       /\ Table[i].paths[t.policy].name = kn[t.nonce].name
       /\ NamesAgree => Table[i].paths[t.policy].flow = "QUERY"
       /\ Answers(kn, i, t.nonce, t.policy)
       /\ kn[t.nonce].who.inst = i => Asked(kn, i, t.nonce, t.policy)
       /\ kn[t.nonce].who.inst # i => StepBack(kn, level, i, t)
    \/ t.kind = "aspect" /\ SentHome(kn, level, i, t.saved[1])

SendqHome(q, kn, level) ==
    \A i \in Inst : \A mod \in ModSet(i) :
        \A e \in ToSet(q[i][mod]) : EntryHome(kn, level, i, mod, e)
RecvqHome(q, kn, level) ==
    \A i \in Inst : \A mod \in ModSet(i) :
        \A m \in ToSet(q[i][mod]) : RecvHome(kn, level, i, mod, m)
ListsHome(w, kn, level) ==
    \A i \in Inst : \A m \in ToSet(w[i]) : WaitingHome(kn, level, i, m)
TracesHome(tr, kn, level) ==
    \A i \in Inst : \A t \in ToSet(tr[i]) : TraceHome(kn, level, i, t)
NetHome(n, kn, level) ==
    \A l \in Joined : \A m \in ToSet(n[l]) : FlightHome(kn, level, l[1], l[2], m)

(* The queues and lists with what they hold *)
Queues(kn, level) == /\ QueuesShape(sendq) /\ SendqHome(sendq, kn, level)
                     /\ QueuesShape(recvq) /\ RecvqHome(recvq, kn, level)
Lists(kn, level)  == /\ ListsShape(waiting) /\ ListsHome(waiting, kn, level)
                     /\ ListsShape(traces) /\ TracesHome(traces, kn, level)
                     /\ NetShape(net) /\ NetHome(net, kn, level)

(* The counters and flags *)
Counts ==
    /\ pc \in [Inst -> Nat] /\ \A i \in Inst : pc[i] \in 1 .. Len(Mods[i]) + 1
    /\ dead \in [Inst -> BOOLEAN]
    /\ nonces = Len(origin) /\ answered \subseteq 1 .. nonces

Bound(kn, level) == Fits(kn, origin) /\ Queues(kn, level) /\ Lists(kn, level)

HomeInv(level) == Counts /\ \E kn : Bound(kn, level)

(* The networks that this is about. *)
Homely(level) == Tiered(level) /\ OneWayUp(level, Seq(Inst)) /\ AskersOwn

-----------------------------------------------------------------------------
(* Trails. *)

(* One instance more *)
LEMMA TrailUp ==
    ASSUME NEW t \in Seq(Inst), t # <<>>, NEW j \in Inst
    PROVE  /\ Append(t, j) \in Seq(Inst) /\ Append(t, j) # <<>> /\ Last(Append(t, j)) = j
           /\ Len(Append(t, j)) = Len(t) + 1 /\ Append(t, j)[Len(t)] = Last(t)
           /\ Append(t, j)[1] = t[1]
           /\ \A k \in 1 .. Len(t) : Append(t, j)[k] = t[k]
           /\ Len(t) \in Nat \ {0}
<1> DEFINE r == Append(t, j)
<1>1. r \in Seq(Inst) /\ Len(r) = Len(t) + 1 /\ Len(t) \in Nat \ {0}
  OBVIOUS
<1>2. \A k \in 1 .. Len(t) : r[k] = t[k]
  OBVIOUS
<1>3. r[Len(t) + 1] = j
  OBVIOUS
<1> HIDE DEF r
<1>4. Last(r) = j /\ r # <<>>
  BY <1>1, <1>3 DEF Last
<1>5. r[Len(t)] = Last(t) /\ r[1] = t[1]
  BY <1>1, <1>2 DEF Last
<1> QED BY <1>1, <1>2, <1>4, <1>5 DEF r

(* climbs, if it is one tier up; *)
LEMMA ClimbsUp ==
    ASSUME NEW level, NEW t \in Seq(Inst), t # <<>>, NEW j \in Inst, Climbs(level, t),
           <<Last(t), j>> \in Joined, level[j] = level[Last(t)] + 1
    PROVE  Climbs(level, Append(t, j))
<1> DEFINE r == Append(t, j)
<1>1. /\ r # <<>> /\ Last(r) = j /\ Len(r) = Len(t) + 1 /\ r[Len(t)] = Last(t) /\ r[1] = t[1]
      /\ \A k \in 1 .. Len(t) : r[k] = t[k]
      /\ Len(t) \in Nat \ {0}
  BY TrailUp
<1>2. r[Len(t) + 1] = j
  BY <1>1 DEF Last
<1> HIDE DEF r
<1>3. t[1] \in Inst /\ \A k \in 1 .. Len(t) - 1 :
          <<t[k], t[k + 1]>> \in Joined /\ level[t[k + 1]] = level[t[k]] + 1
  BY DEF Climbs
<1>4. ASSUME NEW k \in 1 .. Len(r) - 1
      PROVE  <<r[k], r[k + 1]>> \in Joined /\ level[r[k + 1]] = level[r[k]] + 1
  <2>1. CASE k = Len(t)
    BY <1>1, <1>2, <2>1
  <2>2. CASE k # Len(t)
    <3>1. k \in 1 .. Len(t) - 1 /\ k \in 1 .. Len(t) /\ k + 1 \in 1 .. Len(t)
      BY <1>1, <2>2
    <3>2. r[k] = t[k] /\ r[k + 1] = t[k + 1]
      BY <1>1, <3>1
    <3> QED BY <1>3, <3>1, <3>2
  <2> QED BY <2>1, <2>2
<1>5. Climbs(level, r)
  BY <1>1, <1>3, <1>4 DEF Climbs
<1> QED BY <1>5 DEF r

(* one instance less, as long as there are two. *)
LEMMA TrailDown ==
    ASSUME NEW t \in Seq(Inst), Len(t) > 1
    PROVE  /\ Front(t) \in Seq(Inst) /\ Front(t) # <<>>
           /\ Last(Front(t)) = t[Len(t) - 1] /\ Len(Front(t)) = Len(t) - 1
           /\ Front(t)[1] = t[1]
           /\ \A level : Climbs(level, t) => Climbs(level, Front(t))
<1> DEFINE r == Front(t)
<1>1. Len(t) \in Nat /\ Len(t) - 1 \in Nat
  OBVIOUS
<1>2. r = [k \in 1 .. Len(t) - 1 |-> t[k]]
  BY <1>1 DEF Front
<1> HIDE DEF r
<1>3. r \in Seq(Inst) /\ Len(r) = Len(t) - 1
  <2>1. r \in [1 .. Len(t) - 1 -> Inst]
    BY <1>1, <1>2
  <2> QED BY <1>1, <2>1
<1>4. \A k \in 1 .. Len(t) - 1 : r[k] = t[k]
  BY <1>2
<1>5. Last(r) = t[Len(t) - 1] /\ r # <<>> /\ r[1] = t[1]
  <2>1. 1 \in 1 .. Len(t) - 1 /\ Len(t) - 1 \in 1 .. Len(t) - 1
    BY <1>1
  <2>2. r # <<>>
    BY <1>1, <1>3
  <2> QED BY <1>3, <1>4, <2>1, <2>2 DEF Last
<1>6. ASSUME NEW level, Climbs(level, t) PROVE Climbs(level, r)
  <2>1. ASSUME NEW k \in 1 .. Len(r) - 1
        PROVE  <<r[k], r[k + 1]>> \in Joined /\ level[r[k + 1]] = level[r[k]] + 1
    <3>1. k \in 1 .. Len(t) - 1 /\ k + 1 \in 1 .. Len(t) - 1
      BY <1>1, <1>3
    <3>2. r[k] = t[k] /\ r[k + 1] = t[k + 1]
      BY <1>4, <3>1
    <3> QED BY <1>6, <3>1, <3>2 DEF Climbs
  <2> QED BY <1>5, <1>6, <2>1 DEF Climbs
<1> QED BY <1>3, <1>5, <1>6 DEF r

(* A path begins with one. *)
LEMMA TrailOne ==
    ASSUME NEW i \in Inst
    PROVE  /\ <<i>> \in Seq(Inst) /\ <<i>> # <<>> /\ Last(<<i>>) = i /\ Len(<<i>>) = 1
           /\ <<i>>[1] = i
           /\ \A level : Climbs(level, <<i>>)
<1>1. <<i>> \in Seq(Inst) /\ Len(<<i>>) = 1 /\ <<i>>[1] = i /\ <<i>> # <<>>
  OBVIOUS
<1>2. 1 .. Len(<<i>>) - 1 = {}
  BY <1>1
<1> QED BY <1>1, <1>2 DEF Last, Climbs

(* The last instance of a trail is one of the network's. *)
LEMMA TrailEnd ==
    ASSUME NEW t \in Seq(Inst), t # <<>>
    PROVE  Last(t) \in Inst /\ Len(t) \in Nat \ {0} /\ (Len(t) = 1 => Last(t) = t[1])
BY DEF Last

(* A trail that climbs does not come back to where it began. *)
LEMMA ClimbsAway ==
    ASSUME NEW level, level \in [Inst -> Int], NEW t \in Seq(Inst), Climbs(level, t), Len(t) > 1
    PROVE  Last(t) # t[1]
<1>1. Len(t) \in Nat /\ \A k \in 1 .. Len(t) : t[k] \in Inst
  OBVIOUS
<1> DEFINE Bad == {k \in 1 .. Len(t) : level[t[k]] # level[t[1]] + k - 1}
<1>2. ASSUME Bad # {} PROVE FALSE
  <2>1. Bad \subseteq Nat
    BY <1>1
  <2>2. PICK k \in Bad : \A x \in Bad : k <= x
    <3> HIDE DEF Bad
    <3> QED BY <1>2, <2>1, Least
  <2>3. k \in 1 .. Len(t) /\ level[t[k]] # level[t[1]] + k - 1
    BY <2>2
  <2>4. k # 1
    <3>1. level[t[1]] \in Int
      BY <1>1
    <3> QED BY <2>3, <3>1
  <2>5. k - 1 \in 1 .. Len(t) - 1 /\ k - 1 \in 1 .. Len(t) /\ (k - 1) + 1 = k
    BY <1>1, <2>3, <2>4
  <2>6. level[t[k - 1]] = level[t[1]] + (k - 1) - 1
    BY <2>2, <2>5
  <2>7. level[t[k]] = level[t[k - 1]] + 1
    BY <2>5 DEF Climbs
  <2>8. level[t[1]] \in Int /\ k \in Int
    BY <1>1, <2>3
  <2> QED BY <2>3, <2>6, <2>7, <2>8
<1>3. level[t[Len(t)]] = level[t[1]] + Len(t) - 1
  BY <1>1, <1>2
<1>4. level[t[1]] \in Int
  BY <1>1
<1>5. level[t[Len(t)]] # level[t[1]]
  BY <1>1, <1>3, <1>4
<1> QED BY <1>5 DEF Last

-----------------------------------------------------------------------------
(* Searching the table. *)

(* router_find_policy_byname returns a policy of that name and of fitting  *)
(* jumps.                                                                  *)
LEMMA FoundByName ==
    ASSUME NEW t, IsSeq(t.forest), NEW name, NEW rjump, NEW ljump,
           FindPolicyByName(t, name, rjump, ljump) # 0
    PROVE  /\ t.paths[FindPolicyByName(t, name, rjump, ljump)].name = name
           /\ t.paths[FindPolicyByName(t, name, rjump, ljump)].rjump \in {0, rjump, -rjump}
<1> DEFINE Fit(p) == /\ p.name = name
                     /\ p.rjump = 0 \/ p.rjump = rjump \/ p.rjump = -rjump
                     /\ ljump = 0 \/ p.ljump = 0 \/ p.ljump = ljump
           T == {f \in DOMAIN t.forest : Fit(t.paths[t.forest[f]])}
<1>1. FindPolicyByName(t, name, rjump, ljump)
          = IF FirstOf(T) = 0 THEN 0 ELSE t.forest[FirstOf(T)]
  BY DEF FindPolicyByName
<1>2. T \subseteq Nat /\ 0 \notin T
  BY IsSeqFacts
<1>3. \A f \in T : Fit(t.paths[t.forest[f]])
  OBVIOUS
<1> HIDE DEF T, Fit
<1>4. FirstOf(T) # 0 => FirstOf(T) \in T
  BY <1>2, FirstOfIn
<1>5. FirstOf(T) \in T
  BY <1>1, <1>4
<1>6. FindPolicyByName(t, name, rjump, ljump) = t.forest[FirstOf(T)]
  BY <1>1
<1>7. Fit(t.paths[FindPolicyByName(t, name, rjump, ljump)])
  BY <1>3, <1>5, <1>6
<1> QED BY <1>7, ZenonT(30) DEF Fit

(* router_find_route_policy returns one that the message matches, *)
LEMMA FoundForRoute ==
    ASSUME NEW t, IsSeq(t.forest), NEW m, FindRoutePolicy(t, m) # 0
    PROVE  MatchesPolicy(t.paths[FindRoutePolicy(t, m)], m)
<1> DEFINE T == {f \in DOMAIN t.forest : MatchesPolicy(t.paths[t.forest[f]], m)}
<1>1. FindRoutePolicy(t, m) = IF FirstOf(T) = 0 THEN 0 ELSE t.forest[FirstOf(T)]
  BY DEF FindRoutePolicy
<1>2. T \subseteq Nat /\ 0 \notin T
  BY IsSeqFacts
<1>3. \A f \in T : MatchesPolicy(t.paths[t.forest[f]], m)
  OBVIOUS
<1> HIDE DEF T
<1>4. FirstOf(T) # 0 => FirstOf(T) \in T
  BY <1>2, FirstOfIn
<1> QED BY <1>1, <1>3, <1>4

(* and the same for all messages that agree in what it looks at. *)
LEMMA SameRoute ==
    ASSUME NEW t, NEW m, NEW x, x.sender = m.sender, x.rjump = m.rjump, x.ljump = m.ljump,
           x.route = m.route, x.type = m.type
    PROVE  FindRoutePolicy(t, x) = FindRoutePolicy(t, m)
<1>1. \A p : MatchesPolicy(p, x) <=> MatchesPolicy(p, m)
  BY DEF MatchesPolicy
<1>2. {f \in DOMAIN t.forest : MatchesPolicy(t.paths[t.forest[f]], x)}
        = {f \in DOMAIN t.forest : MatchesPolicy(t.paths[t.forest[f]], m)}
  BY <1>1
<1> QED BY <1>2 DEF FindRoutePolicy

(* The table of an instance and its paths. *)
LEMMA TableFacts ==
    ASSUME NEW level, Tiered(level), NEW i \in Inst
    PROVE  /\ IsSeq(Table[i].forest) /\ 0 \notin DOMAIN Table[i].paths
           /\ \A p \in DOMAIN Table[i].paths :
                 /\ Table[i].paths[p] \in ToSet(Table[i].paths)
                 /\ IsSeq(Table[i].paths[p].resp)
                 /\ PathOK(i, level, Table[i].paths, Table[i].paths[p])
<1>1. TableOK(i, level, Table[i])
  BY TablesOK
<1>2. 0 \notin DOMAIN Table[i].paths
  BY <1>1, FoundOK
<1>3. ASSUME NEW p \in DOMAIN Table[i].paths
      PROVE  /\ Table[i].paths[p] \in ToSet(Table[i].paths)
             /\ IsSeq(Table[i].paths[p].resp)
             /\ PathOK(i, level, Table[i].paths, Table[i].paths[p])
  <2>1. PathOK(i, level, Table[i].paths, Table[i].paths[p])
    BY <1>1 DEF TableOK
  <2>2. IsSeq(Leg(Table[i].paths[p], "resp"))
    BY <2>1 DEF PathOK
  <2> QED BY <2>1, <2>2 DEF Leg, ToSet
<1> QED BY <1>1, <1>2, <1>3 DEF TableOK

-----------------------------------------------------------------------------
(* What was known of the nonces stays known. *)
Learns(kn, kn2) == \A n \in DOMAIN kn : n \in DOMAIN kn2 /\ kn2[n] = kn[n]

(* What was sound of one message stays so. *)
LEMMA LearnsKeeps ==
    ASSUME NEW kn, NEW kn2, Learns(kn, kn2), NEW level, NEW i
    PROVE  /\ \A m : WaitingHome(kn, level, i, m) => WaitingHome(kn2, level, i, m)
           /\ \A m : SentHome(kn, level, i, m) => SentHome(kn2, level, i, m)
           /\ \A mod, m : RecvHome(kn, level, i, mod, m) => RecvHome(kn2, level, i, mod, m)
           /\ \A j, m : FlightHome(kn, level, j, i, m) => FlightHome(kn2, level, j, i, m)
           /\ \A mod, e : EntryHome(kn, level, i, mod, e) => EntryHome(kn2, level, i, mod, e)
           /\ \A t : TraceHome(kn, level, i, t) => TraceHome(kn2, level, i, t)
<1>1. ASSUME NEW j, NEW m, NEW h, OnWay(kn, level, j, m, h) PROVE OnWay(kn2, level, j, m, h)
  <2>1. m.nonce \in DOMAIN kn2 /\ kn2[m.nonce] = kn[m.nonce]
    BY <1>1 DEF OnWay, Learns
  <2> QED BY <1>1, <2>1 DEF OnWay
<1>2. ASSUME NEW n \in DOMAIN kn
      PROVE  /\ \A p : Answers(kn, i, n, p) => Answers(kn2, i, n, p)
             /\ \A p : Asked(kn, i, n, p) => Asked(kn2, i, n, p)
  <2>1. kn2[n] = kn[n]
    BY DEF Learns
  <2> QED BY <2>1 DEF Answers, Asked
<1>3. ASSUME NEW m, Routed(kn, level, i, m)
      PROVE  Routed(kn2, level, i, m) /\ kn2[m.nonce] = kn[m.nonce]
  <2>1. m.nonce \in DOMAIN kn
    BY <1>3 DEF Routed, OnWay
  <2> QED BY <1>1, <1>2, <1>3, <2>1 DEF Routed, Learns
<1>4. \A m : WaitingHome(kn, level, i, m) => WaitingHome(kn2, level, i, m)
  BY <1>3 DEF WaitingHome
<1>5. \A m : SentHome(kn, level, i, m) => SentHome(kn2, level, i, m)
  BY <1>3 DEF SentHome
<1>6. \A mod, m : RecvHome(kn, level, i, mod, m) => RecvHome(kn2, level, i, mod, m)
  BY <1>5 DEF RecvHome
<1>7. \A j, m : FlightHome(kn, level, j, i, m) => FlightHome(kn2, level, j, i, m)
  BY <1>1 DEF FlightHome
<1>8. \A m : CameHome(kn, level, i, m) => CameHome(kn2, level, i, m)
  BY <1>1 DEF CameHome
<1>9. \A mod, m : FreshHome(kn, i, mod, m) => FreshHome(kn2, i, mod, m)
  BY DEF FreshHome, Learns
<1>10. \A mod, e : EntryHome(kn, level, i, mod, e) => EntryHome(kn2, level, i, mod, e)
  BY <1>4, <1>8, <1>9 DEF EntryHome
<1>11. ASSUME NEW t, TraceHome(kn, level, i, t) PROVE TraceHome(kn2, level, i, t)
  <2>1. t.nonce \in DOMAIN kn =>
            /\ t.nonce \in DOMAIN kn2 /\ kn2[t.nonce] = kn[t.nonce]
            /\ StepBack(kn, level, i, t) => StepBack(kn2, level, i, t)
    BY DEF Learns, StepBack
  <2> QED BY <1>2, <1>5, <1>11, <2>1 DEF TraceHome
<1> QED BY <1>4, <1>5, <1>6, <1>7, <1>10, <1>11

(* and so does what was sound of all of them. *)
LEMMA LearnsKeepsAll ==
    ASSUME NEW kn, NEW kn2, Learns(kn, kn2), NEW level, Queues(kn, level), Lists(kn, level)
    PROVE  Queues(kn2, level) /\ Lists(kn2, level)
<1>1. SendqHome(sendq, kn2, level) /\ RecvqHome(recvq, kn2, level)
  BY LearnsKeeps DEF Queues, SendqHome, RecvqHome
<1>2. /\ ListsHome(waiting, kn2, level) /\ TracesHome(traces, kn2, level)
      /\ NetHome(net, kn2, level)
  BY LearnsKeeps DEF Lists, ListsHome, TracesHome, NetHome
<1> QED BY <1>1, <1>2 DEF Queues, Lists

-----------------------------------------------------------------------------
(* Changing one list. *)

LEMMA SendqSetHome ==
    ASSUME NEW q, NEW kn, NEW level, QueuesShape(q), SendqHome(q, kn, level),
           NEW i \in Inst, NEW mod \in ModSet(i), NEW s, IsSeq(s),
           \A e \in ToSet(s) : e \in ToSet(q[i][mod]) \/ EntryHome(kn, level, i, mod, e)
    PROVE  /\ QueuesShape(QueueSet(q, i, mod, s))
           /\ SendqHome(QueueSet(q, i, mod, s), kn, level)
<1>1. \A e \in ToSet(s) : EntryHome(kn, level, i, mod, e)
  BY DEF SendqHome
<1> QED BY <1>1, QueueSetOK DEF SendqHome

LEMMA RecvqSetHome ==
    ASSUME NEW q, NEW kn, NEW level, QueuesShape(q), RecvqHome(q, kn, level),
           NEW i \in Inst, NEW mod \in ModSet(i), NEW s, IsSeq(s),
           \A m \in ToSet(s) : m \in ToSet(q[i][mod]) \/ RecvHome(kn, level, i, mod, m)
    PROVE  /\ QueuesShape(QueueSet(q, i, mod, s))
           /\ RecvqHome(QueueSet(q, i, mod, s), kn, level)
<1>1. \A m \in ToSet(s) : RecvHome(kn, level, i, mod, m)
  BY DEF RecvqHome
<1> QED BY <1>1, QueueSetOK DEF RecvqHome

LEMMA ListSetHome ==
    ASSUME NEW w, NEW kn, NEW level, ListsShape(w), NEW i \in Inst, NEW s, IsSeq(s)
    PROVE  /\ ListsShape(ListSet(w, i, s))
           /\ ListsHome(w, kn, level)
                 /\ (\A m \in ToSet(s) : m \in ToSet(w[i]) \/ WaitingHome(kn, level, i, m))
              => ListsHome(ListSet(w, i, s), kn, level)
           /\ TracesHome(w, kn, level)
                 /\ (\A t \in ToSet(s) : t \in ToSet(w[i]) \/ TraceHome(kn, level, i, t))
              => TracesHome(ListSet(w, i, s), kn, level)
<1>1. /\ ListsShape(ListSet(w, i, s))
      /\ \A j \in Inst : ListSet(w, i, s)[j] = IF j = i THEN s ELSE w[j]
  BY ListSetOK
<1>2. ASSUME ListsHome(w, kn, level),
             \A m \in ToSet(s) : m \in ToSet(w[i]) \/ WaitingHome(kn, level, i, m)
      PROVE  ListsHome(ListSet(w, i, s), kn, level)
  <2>1. \A m \in ToSet(s) : WaitingHome(kn, level, i, m)
    BY <1>2 DEF ListsHome
  <2> QED BY <1>1, <1>2, <2>1 DEF ListsHome
<1>3. ASSUME TracesHome(w, kn, level),
             \A t \in ToSet(s) : t \in ToSet(w[i]) \/ TraceHome(kn, level, i, t)
      PROVE  TracesHome(ListSet(w, i, s), kn, level)
  <2>1. \A t \in ToSet(s) : TraceHome(kn, level, i, t)
    BY <1>3 DEF TracesHome
  <2> QED BY <1>1, <1>3, <2>1 DEF TracesHome
<1> QED BY <1>1, <1>2, <1>3

LEMMA NetSetHome ==
    ASSUME NEW n, NEW kn, NEW level, NetShape(n), NetHome(n, kn, level),
           NEW l \in Joined, NEW s, IsSeq(s),
           \A m \in ToSet(s) : m \in ToSet(n[l]) \/ FlightHome(kn, level, l[1], l[2], m)
    PROVE  NetShape(ListSet(n, l, s)) /\ NetHome(ListSet(n, l, s), kn, level)
<1>1. \A m \in ToSet(s) : FlightHome(kn, level, l[1], l[2], m)
  BY DEF NetHome
<1>2. /\ DOMAIN ListSet(n, l, s) = Joined
      /\ \A k \in Joined : ListSet(n, l, s)[k] = IF k = l THEN s ELSE n[k]
  BY DEF NetShape, ListSet
<1> QED BY <1>1, <1>2 DEF NetShape, NetHome

-----------------------------------------------------------------------------
(* Moving along a path. *)

(* The fields that what a message may do depends on *)
SamePlace(x, m) ==
    /\ x.flow = m.flow /\ x.state = m.state /\ x.nonce = m.nonce /\ x.rjump = m.rjump
    /\ x.policy = m.policy /\ x.trail = m.trail /\ x.route = m.route

LEMMA RoutedSame ==
    ASSUME NEW kn, NEW level, NEW i, NEW m, NEW x, Routed(kn, level, i, m),
           IsMsg(x), SiteOK(i, x), SamePlace(x, m)
    PROVE  Routed(kn, level, i, x)
<1>1. OnWay(kn, level, i, x, x.rjump)
  BY DEF Routed, OnWay, SamePlace
<1> QED BY <1>1 DEF Routed, Path, SamePlace

LEMMA SentHomeSame ==
    ASSUME NEW kn, NEW level, NEW i, NEW m, NEW x, SentHome(kn, level, i, m), IsMsg(x),
           SamePlace(x, m), x.site = m.site, x.local = m.local, x.receiver = m.receiver
    PROVE  SentHome(kn, level, i, x)
<1>1. SiteOK(i, x)
  BY DEF SentHome, Routed, SiteOK, Path, SamePlace
<1>2. Routed(kn, level, i, x)
  BY <1>1, RoutedSame DEF SentHome
<1> QED BY <1>2 DEF SentHome, SamePlace

(* message_route_setnext leaves trail and route as they are, addresses the *)
(* message as the node says, and leaves no path_site only without a        *)
(* receiver.                                                               *)
LEMMA NextHome ==
    ASSUME NEW level, Tiered(level), NEW i \in Inst, NEW m, IsMsg(m), SiteOK(i, m),
           m.site.leg # "none"
    PROVE  LET nx == SetNext(Table[i], m)
           IN  /\ nx.msg.trail = m.trail /\ nx.msg.route = m.route
               /\ nx.msg.site.leg = "none" => nx.ret = "end"
               /\ nx.ret \in {"LOCAL", "PORT"} =>
                     \E node \in ToSet(Leg(Path(i, m), m.site.leg)) :
                         node.kind = nx.ret /\ node.to = nx.msg.receiver
<1> DEFINE t == Table[i]
           nx == SetNext(t, m)
           list == Leg(t.paths[m.policy], m.site.leg)
           at == m.site.at + 1
           past == m.site.leg = "none" \/ at > Len(list)
           e == [m EXCEPT !.receiver = Empty,
                          !.site = IF m.site.leg = "resp" THEN [leg |-> "resp", at |-> 0] ELSE NoSite]
           a == [m EXCEPT !.site.at = at]
<1>1. nx = IF past THEN [ret |-> "end", msg |-> e]
           ELSE [ret |-> list[at].kind, msg |-> GetTarget(list[at], a)]
  BY DEF SetNext
<1>2. /\ DOMAIN m = MsgFields /\ DOMAIN m.site = {"leg", "at"} /\ m.site.at \in Nat
  BY DEF IsMsg
<1>3. PathOK(i, level, t.paths, t.paths[m.policy])
  BY TableFacts DEF SiteOK
<1>4. IsSeq(list) /\ \A node \in ToSet(list) : NodeOK(i, level, t.paths, m.site.leg, node)
  BY <1>3 DEF PathOK, SiteOK
<1>5. CASE past
  <2>1. nx.ret = "end" /\ nx.msg = e
    BY <1>1, <1>5
  <2>2. e.trail = m.trail /\ e.route = m.route
    BY <1>2 DEF MsgFields
  <2> HIDE DEF e, past
  <2> QED BY <2>1, <2>2
<1>6. CASE ~past
  <2> DEFINE node == list[at]
             g == GetTarget(node, a)
  <2>1. at \in 1 .. Len(list) /\ Len(list) \in Nat /\ DOMAIN list = 1 .. Len(list)
    BY <1>2, <1>4, <1>6, IsSeqFacts
  <2>2. node \in ToSet(list)
    BY <1>4, <2>1, IsSeqFacts
  <2>3. Leads(i, level, m.site.leg, node)
    BY <1>4, <2>2 DEF NodeOK
  <2>4. nx.ret = node.kind /\ nx.msg = g
    BY <1>1, <1>6
  <2>5. a.trail = m.trail /\ a.route = m.route /\ DOMAIN a = MsgFields /\ a.site.leg = m.site.leg
    BY <1>2 DEF MsgFields
  <2> HIDE DEF a, node, at, list
  <2>6. \/ node.kind \in {"LOCAL", "PORT"} /\ g = [a EXCEPT !.receiver = node.to, !.local = TRUE]
        \/ node.kind \in {"NAME", "CONN"} /\ g = [a EXCEPT !.receiver = node.to, !.local = FALSE]
        \/ node.kind = "FINISH" /\ g = a
    BY <2>3 DEF GetTarget, Leads
  <2>7. /\ g.trail = a.trail /\ g.route = a.route /\ g.site = a.site
        /\ node.kind \in {"LOCAL", "PORT"} => g.receiver = node.to
    <3> HIDE DEF g
    <3> QED BY <2>5, <2>6 DEF MsgFields
  <2> HIDE DEF g
  <2>8. nx.msg.site.leg # "none"
    BY <2>4, <2>5, <2>7
  <2> QED BY <2>2, <2>4, <2>5, <2>7, <2>8 DEF list, Path
<1> HIDE DEF nx
<1> QED BY <1>5, <1>6 DEF nx

(* The answer goes to the instance before this one on the trail, whichever *)
(* message left the trace: there is one way up.                            *)
LEMMA AnswerHome ==
    ASSUME NEW kn, NEW level, Homely(level), NEW i \in Inst, NEW m, NEW t,
           Routed(kn, level, i, m), m.flow = "QUERY", m.rjump > 1, m.site.leg # "none",
           t.kind = "query", t.nonce = m.nonce, TraceHome(kn, level, i, t)
    PROVE  SentHome(kn, level, i, SetTraceSrc(m, t))
<1> DEFINE x == SetTraceSrc(m, t)
<1>1. /\ IsMsg(m) /\ DOMAIN m = MsgFields
      /\ m.trail \in Seq(Inst) /\ m.trail # <<>> /\ Last(m.trail) = i
      /\ m.rjump \in 1 .. Len(m.trail)
      /\ Climbs(level, m.trail) /\ m.trail[1] = kn[m.nonce].who.inst
  BY DEF Routed, OnWay, IsMsg
<1>2. /\ DOMAIN x = MsgFields
      /\ x.flow = "QUERY" /\ x.state = "RESPONSE" /\ x.nonce = m.nonce /\ x.rjump = m.rjump
      /\ x.policy = m.policy /\ x.site = m.site /\ x.local = FALSE /\ x.receiver = t.source
      /\ x.trail = m.trail /\ x.route = m.route
  BY <1>1 DEF SetTraceSrc, MsgFields
<1> HIDE DEF x
<1>3. IsMsg(x)
  BY <1>1, <1>2 DEF IsMsg
<1>4. SiteOK(i, x)
  BY <1>2 DEF SiteOK, Path, Routed
<1>5. OnWay(kn, level, i, x, x.rjump)
  BY <1>2, <1>3 DEF Routed, OnWay
<1>6. Routed(kn, level, i, x)
  BY <1>2, <1>4, <1>5 DEF Routed, Path
<1>7. Len(m.trail) > 1 /\ level \in [Inst -> Int]
  <2>1. Len(m.trail) \in Nat /\ m.rjump \in Int
    BY <1>1 DEF IsMsg
  <2> QED BY <1>1, <2>1 DEF Homely, Tiered
<1>8. kn[m.nonce].who.inst # i
  BY <1>1, <1>7, ClimbsAway
<1>9. PICK w \in Seq(Inst) : /\ Climbs(level, w) /\ w[1] = kn[m.nonce].who.inst /\ Last(w) = i
                             /\ Len(w) > 1 /\ t.source = w[Len(w) - 1]
  BY <1>8 DEF TraceHome, StepBack
<1>10. w = m.trail
  BY <1>1, <1>9 DEF Homely, OneWayUp
<1>11. t.source = m.trail[Len(m.trail) - 1]
  BY <1>9, <1>10
<1>12. SentHome(kn, level, i, x)
  BY <1>2, <1>6, <1>7, <1>11 DEF SentHome
<1> QED BY <1>12 DEF x

(* A message that comes back from an aspect is what was set aside. *)
LEMMA RecoveredHome ==
    ASSUME NEW kn, NEW level, NEW i, NEW m, NEW t, IsMsg(m), SentHome(kn, level, i, t.saved[1])
    PROVE  SentHome(kn, level, i, [RecoverAspect(m, t) EXCEPT !.trail = t.saved[1].trail])
<1> DEFINE s == t.saved[1]
           x == [RecoverAspect(m, t) EXCEPT !.trail = s.trail]
<1>1. DOMAIN m = MsgFields
  BY DEF IsMsg
<1>2. /\ DOMAIN x = MsgFields /\ x.trail = s.trail /\ x.route = s.route
      /\ x.flow = s.flow /\ x.state = s.state /\ x.nonce = s.nonce /\ x.rjump = s.rjump
      /\ x.policy = s.policy /\ x.site = s.site /\ x.local = s.local /\ x.receiver = s.receiver
  BY <1>1 DEF RecoverAspect, MsgFields
<1>3. IsMsg(s)
  BY DEF SentHome, Routed, OnWay
<1>4. SentHome(kn, level, i, s)
  OBVIOUS
<1> HIDE DEF x, s
<1>5. IsMsg(x)
  BY <1>2, <1>3 DEF IsMsg
<1>6. SentHome(kn, level, i, x)
  BY <1>2, <1>4, <1>5, SentHomeSame DEF SamePlace
<1> QED BY <1>6 DEF x, s

(* What the router sends, it may send. *)
LEMMA AdvanceHome ==
    ASSUME NEW kn, NEW level, Homely(level), NEW i \in Inst, NEW m,
           WaitingHome(kn, level, i, m), IsSeq(traces[i]),
           \A t \in ToSet(traces[i]) : TraceHome(kn, level, i, t),
           Advance(i, m).send
    PROVE  SentHome(kn, level, i, Advance(i, m).msg)
<1> DEFINE nx    == SetNext(Table[i], m)
           query == FindTrace(traces[i], nx.msg.nonce, "query")
           asp   == FindTrace(traces[i], nx.msg.nonce, "aspect")
           s     == Advance(i, m)
           OK(x) == SentHome(kn, level, i, x)
<1>0. Tiered(level)
  BY DEF Homely
<1>1. /\ IsMsg(m) /\ SiteOK(i, m) /\ m.flow \in {"DELIVER", "QUERY"} /\ m.site.leg # "none"
      /\ m.state = "RESPONSE" => m.flow = "QUERY" /\ m.site.leg = "resp"
      /\ m.flow = "QUERY" => Answers(kn, i, m.nonce, m.policy)
      /\ m.rjump \in Int
  BY DEF WaitingHome, Routed, OnWay, IsMsg
<1>2. /\ IsMsg(nx.msg) /\ SiteOK(i, nx.msg) /\ SameHead(nx.msg, m)
      /\ nx.ret \in {"end", "FINISH", "LOCAL", "PORT", "NAME", "CONN"}
      /\ nx.ret = "end" => nx.msg.receiver = Empty
      /\ nx.ret \in {"LOCAL", "PORT"} => nx.msg.local
      /\ nx.ret \in {"NAME", "CONN"} => m.site.leg # "resp" /\ Ahead(level, i, nx.msg.receiver)
      /\ m.site.leg = "resp" => nx.msg.site.leg = "resp"
  BY <1>0, <1>1, NextOK
<1>3. /\ nx.msg.trail = m.trail /\ nx.msg.route = m.route
      /\ nx.msg.site.leg = "none" => nx.ret = "end"
      /\ nx.ret \in {"LOCAL", "PORT"} =>
            \E node \in ToSet(Leg(Path(i, m), m.site.leg)) :
                node.kind = nx.ret /\ node.to = nx.msg.receiver
  BY <1>0, <1>1, NextHome
<1>4. Routed(kn, level, i, nx.msg) /\ SamePlace(nx.msg, m)
  <2> HIDE DEF nx
  <2>1. SamePlace(nx.msg, m)
    BY <1>2, <1>3 DEF SamePlace, SameHead
  <2> QED BY <1>2, <2>1, RoutedSame DEF WaitingHome
<1>5. CASE m.flow = "DELIVER"
  <2>1. s.send => s.msg = nx.msg
    BY <1>5 DEF Advance
  <2> HIDE DEF nx
  <2>2. OK(nx.msg)
    BY <1>1, <1>2, <1>3, <1>4, <1>5 DEF SentHome, SamePlace
  <2> HIDE DEF s
  <2> QED BY <2>1, <2>2 DEF s
<1>6. CASE m.flow = "QUERY" /\ nx.ret \notin {"end", "FINISH"}
  <2>1. s.msg = nx.msg
    BY <1>6 DEF Advance
  <2> HIDE DEF nx
  <2>2. ASSUME m.state = "RESPONSE"
        PROVE  /\ nx.msg.local /\ nx.msg.site.leg = "resp"
               /\ Role[nx.msg.receiver] = "client"
                     => kn[m.nonce].who = [inst |-> i, mod |-> nx.msg.receiver]
    <3>1. nx.ret \in {"LOCAL", "PORT"} /\ m.site.leg = "resp"
      BY <1>1, <1>2, <1>6, <2>2
    <3>2. PICK node \in ToSet(Leg(Path(i, m), m.site.leg)) :
                   node.kind = nx.ret /\ node.to = nx.msg.receiver
      BY <1>3, <3>1
    <3>3. node \in ToSet(Table[i].paths[m.policy].resp)
      BY <3>1, <3>2 DEF Leg, Path
    <3> QED BY <1>1, <1>2, <1>6, <3>1, <3>2, <3>3 DEF Answers, ClientNode
  <2>3. OK(nx.msg)
    BY <1>1, <1>2, <1>3, <1>4, <1>6, <2>2 DEF SentHome, SamePlace
  <2> HIDE DEF s
  <2> QED BY <2>1, <2>3 DEF s
<1>7. CASE m.flow = "QUERY" /\ nx.ret \in {"end", "FINISH"} /\ m.rjump > 1
  <2>1. /\ s.send => query # 0
        /\ (query # 0 /\ (m.state = "RESPONSE" \/ nx.ret = "FINISH"))
               => s.msg = SetTraceSrc(nx.msg, traces[i][query])
        /\ (query # 0 /\ ~(m.state = "RESPONSE" \/ nx.ret = "FINISH")) => s.msg = nx.msg
    <3>0. m.flow # "DELIVER" /\ ~(nx.ret \notin {"end", "FINISH"}) /\ m.rjump \in Int
      BY <1>1, <1>7
    <3>1. query = 0 => s.send = FALSE
      BY <1>7, <3>0, SMTT(30) DEF Advance
    <3>2. (query # 0 /\ (m.state = "RESPONSE" \/ nx.ret = "FINISH"))
               => s.msg = SetTraceSrc(nx.msg, traces[i][query])
      BY <1>7, <3>0, SMTT(30) DEF Advance
    <3>3. (query # 0 /\ ~(m.state = "RESPONSE" \/ nx.ret = "FINISH")) => s.msg = nx.msg
      BY <1>7, <3>0 DEF Advance
    <3> HIDE DEF s, query, nx
    <3> QED BY <3>1, <3>2, <3>3
  <2> HIDE DEF nx, s
  <2>2. query # 0 => /\ traces[i][query] \in ToSet(traces[i])
                     /\ traces[i][query].nonce = nx.msg.nonce
                     /\ traces[i][query].kind = "query"
    BY FindTraceOK
  <2> HIDE DEF query
  <2>3. ASSUME query # 0, m.state = "RESPONSE" \/ nx.ret = "FINISH"
        PROVE  OK(SetTraceSrc(nx.msg, traces[i][query]))
    <3>1. nx.msg.flow = "QUERY" /\ nx.msg.rjump > 1 /\ nx.msg.site.leg # "none"
      BY <1>1, <1>2, <1>3, <1>4, <1>7, <2>3 DEF SamePlace
    <3> QED BY <1>4, <2>2, <2>3, <3>1, AnswerHome
  <2>4. ASSUME ~(m.state = "RESPONSE" \/ nx.ret = "FINISH") PROVE OK(nx.msg)
    <3>1. nx.msg.receiver = Empty /\ nx.msg.state # "RESPONSE"
      BY <1>2, <1>4, <1>7, <2>4 DEF SamePlace
    <3>2. Ahead(level, i, Empty)
      BY JoinedBothWays DEF Ahead
    <3> QED BY <1>4, <3>1, <3>2 DEF SentHome
  <2> HIDE DEF OK
  <2>5. OK(s.msg)
    BY <2>1, <2>3, <2>4 DEF s
  <2> QED BY <2>5 DEF OK, s
<1>8. CASE m.flow = "QUERY" /\ nx.ret \in {"end", "FINISH"} /\ m.rjump <= 1
  <2>1. /\ s.send => asp # 0
        /\ asp # 0 => s.msg = [RecoverAspect(nx.msg, traces[i][asp])
                                  EXCEPT !.trail = traces[i][asp].saved[1].trail]
    <3>1. ~(m.rjump > 1)
      BY <1>1, <1>8
    <3> QED BY <1>8, <3>1 DEF Advance
  <2> HIDE DEF nx, s
  <2>2. asp # 0 => traces[i][asp] \in ToSet(traces[i]) /\ traces[i][asp].kind = "aspect"
    BY FindTraceOK
  <2> HIDE DEF asp
  <2>3. asp # 0 => OK(traces[i][asp].saved[1])
    BY <2>2 DEF TraceHome
  <2>4. asp # 0 => OK([RecoverAspect(nx.msg, traces[i][asp])
                          EXCEPT !.trail = traces[i][asp].saved[1].trail])
    BY <1>2, <2>3, RecoveredHome
  <2> HIDE DEF OK
  <2>5. OK(s.msg)
    BY <2>1, <2>4 DEF s
  <2> QED BY <2>5 DEF OK, s
<1>9. m.rjump > 1 \/ m.rjump <= 1
  BY <1>1
<1> HIDE DEF nx
<1> QED BY <1>1, <1>2, <1>5, <1>6, <1>7, <1>8, <1>9


-----------------------------------------------------------------------------
(* Starting on a path. *)

(* The policies of a name have one flow, if the names agree. *)
LEMMA NamedFlow ==
    ASSUME NamesAgree, NEW i \in Inst, NEW p \in ToSet(Table[i].paths)
    PROVE  FlowOfName(p.name, p.flow)
BY DEF NamesAgree, FlowOfName

(* message_route_setstart names the message after the policy. *)
LEMMA StartNamed ==
    ASSUME NEW i, NEW m, IsMsg(m), NEW p, NEW trail
    PROVE  /\ [SetStart(Table[i], m, p) EXCEPT !.trail = trail].route = Table[i].paths[p].name
           /\ [SetStart(Table[i], m, p) EXCEPT !.trail = trail].trail = trail
BY DEF IsMsg, MsgFields, SetStart

(* A message that starts on a path, and the trace it leaves: for a client  *)
(* or a diversion, or, as a clone does, without a question.                *)
LEMMA StartHome ==
    ASSUME NEW kn, NEW level, Homely(level), NEW i \in Inst, NEW m, IsMsg(m), m.rjump = 1,
           m.nonce \in DOMAIN kn, NEW p \in DOMAIN Table[i].paths, Asked(kn, i, m.nonce, p),
           Table[i].paths[p].flow = "QUERY" =>
               /\ kn[m.nonce].who = [inst |-> i, mod |-> Table[i].paths[p].sender]
               /\ kn[m.nonce].name = Table[i].paths[p].name,
           NEW x, x = [SetStart(Table[i], m, p) EXCEPT !.trail = <<i>>]
    PROVE  /\ WaitingHome(kn, level, i, x)
           /\ IsSeq(StartTraces(x)) /\ \A t \in ToSet(StartTraces(x)) : TraceHome(kn, level, i, t)
<1> DEFINE q == Table[i].paths[p]
<1>1. /\ IsMsg(x) /\ SiteOK(i, x)
      /\ x.flow = q.flow /\ x.flow \in {"DELIVER", "QUERY"}
      /\ x.policy = p /\ x.state = "MATCH" /\ x.site.leg = "main"
      /\ x.nonce = m.nonce /\ x.rjump = 1
  <2>1. Tiered(level)
    BY DEF Homely
  <2>2. StartedOn([SetStart(Table[i], m, p) EXCEPT !.trail = <<i>>], m, i, p)
    BY <2>1, StartOK
  <2> QED BY <2>2 DEF StartedOn
<1>2. x.route = q.name /\ x.trail = <<i>>
  BY StartNamed
<1>3. q \in ToSet(Table[i].paths)
  BY TableFacts DEF Homely
<1>4. NamesAgree => FlowOfName(q.name, q.flow)
  BY <1>3, NamedFlow
<1>5. q.flow = "QUERY" => Answers(kn, i, m.nonce, p)
  BY <1>3 DEF Answers, Homely, AskersOwn
<1>6. q.flow = "QUERY" =>
         kn[m.nonce].who.inst = i /\ kn[m.nonce].name = q.name
  OBVIOUS
<1>7. Asked(kn, i, m.nonce, p)
  OBVIOUS
<1>8. Path(i, x) = q
  BY <1>1 DEF Path
<1> HIDE DEF q
<1>9. OnWay(kn, level, i, x, x.rjump)
  <2>1. /\ <<i>> \in Seq(Inst) /\ <<i>> # <<>> /\ Last(<<i>>) = i /\ Len(<<i>>) = 1
        /\ <<i>>[1] = i /\ Climbs(level, <<i>>)
    BY TrailOne
  <2>2. 1 \in 1 .. 1
    OBVIOUS
  <2> QED BY <1>1, <1>2, <1>4, <1>6, <2>1, <2>2 DEF OnWay
<1>10. WaitingHome(kn, level, i, x)
  BY <1>1, <1>2, <1>5, <1>7, <1>8, <1>9 DEF WaitingHome, Routed
<1>11. StartTraces(x) = IF x.flow = "QUERY" THEN <<QueryTrace(x)>> ELSE <<>>
  BY <1>1 DEF StartTraces
<1>12. ASSUME x.flow = "QUERY" PROVE TraceHome(kn, level, i, QueryTrace(x))
  <2>1. /\ QueryTrace(x).kind = "query" /\ QueryTrace(x).nonce = m.nonce
        /\ QueryTrace(x).policy = p
    BY <1>1 DEF QueryTrace
  <2>2. Table[i].paths[p].flow = "QUERY" /\ kn[m.nonce].name = Table[i].paths[p].name
    BY <1>1, <1>6, <1>12 DEF q
  <2> QED BY <1>1, <1>5, <1>6, <1>7, <1>12, <2>1, <2>2 DEF TraceHome
<1> QED BY <1>10, <1>11, <1>12, NilSeq, OneSeq

(* A clone asks nothing. *)
LEMMA DupHome ==
    ASSUME NEW kn, NEW level, Homely(level), NEW i \in Inst, NEW m, IsMsg(m),
           m.nonce \in DOMAIN kn, NEW b, BranchOK(Table[i].paths, b), b.kind = "DUP"
    PROVE  WaitingHome(kn, level, i, [DupMessage(Table[i], m, b) EXCEPT !.trail = <<i>>])
<1> DEFINE m1 == [m EXCEPT !.ljump = 1, !.rjump = 1]
           x == [SetStart(Table[i], m1, b.path) EXCEPT !.trail = <<i>>]
<1>1. [DupMessage(Table[i], m, b) EXCEPT !.trail = <<i>>] = x
  BY DEF DupMessage
<1>2. /\ b.path \in DOMAIN Table[i].paths /\ Table[i].paths[b.path].flow = "DELIVER"
      /\ Table[i].paths[b.path].sender = Empty
  BY DEF BranchOK
<1>3. IsMsg(m1) /\ m1.rjump = 1 /\ m1.nonce = m.nonce
  <2>1. IsMsg(m1)
    BY JumpedOK
  <2> QED BY <2>1 DEF IsMsg, MsgFields
<1> HIDE DEF m1
<1>4. Asked(kn, i, m1.nonce, b.path)
  BY <1>2 DEF Asked
<1>5. WaitingHome(kn, level, i, x)
  BY <1>2, <1>3, <1>4, StartHome
<1> QED BY <1>1, <1>5

(* All the clones made at a node are fit to wait. *)
LEMMA ClonesHome ==
    ASSUME NEW kn, NEW level, Homely(level), NEW i \in Inst, NEW s,
           IsMsg(s.msg), SiteOK(i, s.msg), s.msg.nonce \in DOMAIN kn
    PROVE  /\ IsSeq(Clones(i, s))
           /\ \A x \in ToSet(Clones(i, s)) : WaitingHome(kn, level, i, x)
<1> DEFINE bs   == Branches(Table[i], s.msg)
           a    == Diversion(i, s)
           K    == {k \in DOMAIN bs : /\ a = 0 \/ k < a
                                      /\ bs[k].kind = "DUP"
                                      /\ BranchMatches(Table[i], s.msg, bs[k])}
           dups == Picked(bs, K)
           New(b) == [DupMessage(Table[i], s.msg, b) EXCEPT !.trail = <<i>>]
           cs   == [k \in DOMAIN dups |-> New(dups[k])]
<1>1. Clones(i, s) = cs
  BY DEF Clones
<1>2. IsSeq(bs) /\ \A b \in ToSet(bs) : BranchOK(Table[i].paths, b)
  BY BranchesOK DEF Homely
<1>3. K \subseteq DOMAIN bs /\ \A k \in K : bs[k].kind = "DUP" /\ bs[k] \in ToSet(bs)
  BY <1>2, IsSeqFacts
<1> HIDE DEF bs, K
<1>4. DOMAIN dups = 1 .. Cardinality(K) /\ \A n \in 1 .. Cardinality(K) : \E k \in K : dups[n] = bs[k]
  BY <1>2, <1>3, PickedIn
<1> HIDE DEF dups
<1>5. ASSUME NEW n \in DOMAIN dups PROVE WaitingHome(kn, level, i, New(dups[n]))
  <2>1. BranchOK(Table[i].paths, dups[n]) /\ dups[n].kind = "DUP"
    BY <1>2, <1>3, <1>4
  <2> QED BY <2>1, DupHome
<1> HIDE DEF New
<1>6. DOMAIN cs = DOMAIN dups /\ \A n \in DOMAIN dups : cs[n] = New(dups[n])
  OBVIOUS
<1>7. IsSeq(cs)
  BY <1>1, ClonesOK DEF Homely
<1> HIDE DEF cs
<1> QED BY <1>1, <1>5, <1>6, <1>7 DEF ToSet

(* A message under a new nonce *)
LEMMA Renamed ==
    ASSUME NEW m, IsMsg(m), NEW n
    PROVE  LET m1 == [m EXCEPT !.nonce = n, !.ljump = 1, !.rjump = 1]
           IN  IsMsg(m1) /\ m1.nonce = n /\ m1.rjump = 1
BY JumpedOK, Zenon

(* The message diverted to the path of branch b asks for itself, under its *)
(* new nonce.                                                              *)
LEMMA DivertedHome ==
    ASSUME NEW kn, NEW level, Homely(level), NEW i \in Inst, NEW m, IsMsg(m), NEW b,
           BranchOK(Table[i].paths, b), NEW n \in DOMAIN kn,
           kn[n] = [who |-> [inst |-> i, mod |-> Empty], name |-> Table[i].paths[b.path].name],
           NEW x, x = [AspectMessage(Table[i], m, b, n) EXCEPT !.trail = <<i>>]
    PROVE  /\ WaitingHome(kn, level, i, x)
           /\ IsSeq(StartTraces(x)) /\ \A t \in ToSet(StartTraces(x)) : TraceHome(kn, level, i, t)
<1> DEFINE m1 == [m EXCEPT !.nonce = n, !.ljump = 1, !.rjump = 1]
<1>1. x = [SetStart(Table[i], m1, b.path) EXCEPT !.trail = <<i>>]
  BY DEF AspectMessage
<1>2. IsMsg(m1) /\ m1.nonce = n /\ m1.rjump = 1
  BY Renamed, Zenon
<1> HIDE DEF m1
<1>3. b.path \in DOMAIN Table[i].paths /\ Table[i].paths[b.path].sender = Empty
  BY DEF BranchOK
<1>4. /\ kn[n].who = [inst |-> i, mod |-> Table[i].paths[b.path].sender]
      /\ kn[n].name = Table[i].paths[b.path].name
  BY <1>3
<1>5. Asked(kn, i, n, b.path)
  BY <1>3 DEF Asked
<1> QED BY <1>1, <1>2, <1>3, <1>4, <1>5, StartHome

-----------------------------------------------------------------------------
(* The message the router takes. *)

(* A message that has just come to i, over a connection: *)
ComeHome(kn, level, i, m) ==
    /\ m.policy = 0
    /\ OnWay(kn, level, i, m, m.rjump)
    /\ m.state # "RESPONSE" => m.rjump >= 2
    /\ m.flow = "QUERY" /\ m.state # "RESPONSE" =>
          Len(m.trail) > 1 /\ m.trail[Len(m.trail) - 1] = m.sender

(* or made by one of its modules. *)
MadeHome(kn, i, m) ==
    /\ IsMsg(m) /\ m.policy = 0 /\ m.flow = "none" /\ m.state # "RESPONSE" /\ m.rjump = 1
    /\ m.nonce \in DOMAIN kn
    /\ kn[m.nonce].who = [inst |-> i, mod |-> m.sender]
    /\ kn[m.nonce].name = Table[i].paths[FindRoutePolicy(Table[i], m)].name

(* The fields that taking a message leaves as they are: putting in the     *)
(* sender,                                                                 *)
LEMMA SenderLeaves ==
    ASSUME NEW m, IsMsg(m), NEW s
    PROVE  /\ [m EXCEPT !.sender = s].trail = m.trail /\ [m EXCEPT !.sender = s].route = m.route
           /\ [m EXCEPT !.sender = s].type = m.type /\ [m EXCEPT !.sender = s].ljump = m.ljump
BY DEF IsMsg, MsgFields

(* and counting the jumps. *)
LEMMA JumpsLeave ==
    ASSUME NEW type, NEW m, IsMsg(m)
    PROVE  LET x == WithJumps(type, m)
           IN  /\ x.trail = m.trail /\ x.route = m.route /\ x.type = m.type
               /\ type \notin {"CONN", "PORT"} /\ m.rjump # 0 => x.rjump = m.rjump
               /\ type \notin {"CONN", "PORT"} => x.ljump = m.ljump + 1
               /\ type = "PORT" => x.ljump = 1
<1> DEFINE x == WithJumps(type, m)
<1>1. DOMAIN m = MsgFields
  BY DEF IsMsg
<1>2. \/ /\ type = "CONN"
         /\ x = [m EXCEPT !.ljump = 1,
                          !.rjump = IF m.state # "RESPONSE" THEN @ + 1 ELSE @ - 1]
      \/ type = "PORT" /\ x = [m EXCEPT !.ljump = 1, !.rjump = 1]
      \/ /\ type \notin {"CONN", "PORT"}
         /\ x = [m EXCEPT !.ljump = @ + 1, !.rjump = IF @ = 0 THEN 1 ELSE @]
  BY DEF WithJumps
<1> HIDE DEF x
<1>3. x.trail = m.trail /\ x.route = m.route /\ x.type = m.type
  BY <1>1, <1>2 DEF MsgFields
<1>4. /\ type \notin {"CONN", "PORT"} /\ m.rjump # 0 => x.rjump = m.rjump
      /\ type \notin {"CONN", "PORT"} => x.ljump = m.ljump + 1
      /\ type = "PORT" => x.ljump = 1
  BY <1>1, <1>2 DEF MsgFields
<1> QED BY <1>3, <1>4 DEF x

(* A new message gets the policy that its module's messages get. *)
LEMMA FreshTaken ==
    ASSUME NEW kn, NEW i, NEW mod, NEW m, FreshHome(kn, i, mod, m), ModType[mod] # "CONN"
    PROVE  MadeHome(kn, i, WithJumps(ModType[mod], [m EXCEPT !.sender = mod]))
<1> DEFINE type == ModType[mod]
           n == NewMessage(Says[mod], 0)
           x == WithJumps(type, [m EXCEPT !.sender = mod])
           f == WithJumps(type, [n EXCEPT !.sender = mod])
<1>1. m = NewMessage(Says[mod], m.nonce)
  BY DEF FreshHome
<1>2. /\ IsMsg(m) /\ m.policy = 0 /\ m.flow = "none" /\ m.state # "RESPONSE" /\ m.rjump = 0
      /\ m.ljump = 0 /\ m.route = Empty /\ m.type = Says[mod]
  <2>1. /\ IsMsg(NewMessage(Says[mod], m.nonce))
        /\ NewMessage(Says[mod], m.nonce).policy = 0 /\ NewMessage(Says[mod], m.nonce).flow = "none"
        /\ NewMessage(Says[mod], m.nonce).state # "RESPONSE"
        /\ NewMessage(Says[mod], m.nonce).rjump = 0
    BY NewMessageOK
  <2>2. /\ NewMessage(Says[mod], m.nonce).ljump = 0
        /\ NewMessage(Says[mod], m.nonce).route = Empty
        /\ NewMessage(Says[mod], m.nonce).type = Says[mod]
    BY DEF NewMessage
  <2> QED BY <1>1, <2>1, <2>2
<1>3. IsMsg(n) /\ n.rjump = 0 /\ n.ljump = 0 /\ n.route = Empty /\ n.type = Says[mod]
  <2>1. IsMsg(n) /\ n.rjump = 0
    BY NewMessageOK
  <2>2. n.ljump = 0 /\ n.route = Empty /\ n.type = Says[mod]
    BY DEF NewMessage
  <2> QED BY <2>1, <2>2
<1> HIDE DEF n
<1>4. ASSUME NEW y, IsMsg(y), y.rjump = 0, y.ljump = 0
      PROVE  LET z == WithJumps(type, [y EXCEPT !.sender = mod])
             IN  /\ IsMsg(z) /\ z.policy = y.policy /\ z.flow = y.flow /\ z.state = y.state
                 /\ z.nonce = y.nonce /\ z.sender = mod /\ z.rjump = 1 /\ z.ljump = 1
                 /\ z.route = y.route /\ z.type = y.type
  <2> DEFINE w == [y EXCEPT !.sender = mod]
             z == WithJumps(type, w)
  <2>1. /\ IsMsg(w) /\ w.policy = y.policy /\ w.flow = y.flow /\ w.state = y.state
        /\ w.nonce = y.nonce /\ w.rjump = y.rjump /\ w.sender = mod
        /\ w.route = y.route /\ w.type = y.type /\ w.ljump = y.ljump
    BY <1>4, SenderSet, SenderLeaves
  <2> HIDE DEF w
  <2>2. /\ z.route = w.route /\ z.type = w.type
        /\ type \notin {"CONN", "PORT"} => z.ljump = w.ljump + 1
        /\ type = "PORT" => z.ljump = 1
    BY <2>1, JumpsLeave
  <2>3. /\ IsMsg(z) /\ z.policy = w.policy /\ z.flow = w.flow /\ z.state = w.state
        /\ z.nonce = w.nonce /\ z.sender = w.sender
        /\ z.rjump = 1 \/ (w.rjump # 0 /\ z.rjump = w.rjump)
    BY <2>1, WithJumpsOK
  <2> HIDE DEF z
  <2>4. z.ljump = 1
    BY <1>4, <2>1, <2>2 DEF type
  <2> QED BY <1>4, <2>1, <2>2, <2>3, <2>4 DEF z, w
<1>5. /\ IsMsg(x) /\ x.policy = 0 /\ x.flow = "none" /\ x.state # "RESPONSE" /\ x.rjump = 1
      /\ x.nonce = m.nonce /\ x.sender = mod /\ x.ljump = 1 /\ x.route = Empty
      /\ x.type = Says[mod]
  BY <1>2, <1>4
<1>6. f.sender = mod /\ f.rjump = 1 /\ f.ljump = 1 /\ f.route = Empty /\ f.type = Says[mod]
  BY <1>3, <1>4
<1>7. FirstOfMod(mod) = f
  BY DEF FirstOfMod, n
<1> HIDE DEF x, f
<1>8. FindRoutePolicy(Table[i], x) = FindRoutePolicy(Table[i], f)
  BY <1>5, <1>6, SameRoute
<1>9. MadeHome(kn, i, x)
  BY <1>5, <1>7, <1>8 DEF MadeHome, FreshHome, FirstName
<1> QED BY <1>9 DEF x

(* What waits again, waits on the same way. *)
LEMMA WaitingTaken ==
    ASSUME NEW kn, NEW level, NEW i, NEW mod, NEW m, WaitingHome(kn, level, i, m),
           ModType[mod] # "CONN", PortsAsk => ModType[mod] # "PORT"
    PROVE  WaitingHome(kn, level, i, WithJumps(ModType[mod], [m EXCEPT !.sender = mod]))
<1> DEFINE type == ModType[mod]
           w == [m EXCEPT !.sender = mod]
           x == WithJumps(type, w)
<1>1. /\ IsMsg(m) /\ m.rjump \in 1 .. Len(m.trail) /\ m.trail \in Seq(Inst) /\ m.trail # <<>>
  BY DEF WaitingHome, Routed, OnWay
<1>2. /\ IsMsg(w) /\ w.policy = m.policy /\ w.flow = m.flow /\ w.state = m.state
      /\ w.nonce = m.nonce /\ w.rjump = m.rjump /\ w.sender = mod /\ w.site = m.site
      /\ w.trail = m.trail /\ w.route = m.route
  <2>1. /\ IsMsg(w) /\ w.policy = m.policy /\ w.flow = m.flow /\ w.state = m.state
        /\ w.nonce = m.nonce /\ w.rjump = m.rjump /\ w.sender = mod /\ w.site = m.site
    BY <1>1, SenderSet, ZenonT(30)
  <2>2. w.trail = m.trail /\ w.route = m.route
    BY <1>1, SenderLeaves
  <2> HIDE DEF w
  <2> QED BY <2>1, <2>2
<1> HIDE DEF w
<1>3. /\ x.trail = w.trail /\ x.route = w.route
      /\ type \notin {"CONN", "PORT"} /\ w.rjump # 0 => x.rjump = w.rjump
  BY <1>2, JumpsLeave
<1>4. /\ IsMsg(x) /\ x.site = w.site /\ x.policy = w.policy /\ x.flow = w.flow
      /\ x.state = w.state /\ x.nonce = w.nonce
      /\ x.rjump = 1 \/ (w.rjump # 0 /\ x.rjump = w.rjump)
  BY <1>2, WithJumpsOK
<1> HIDE DEF x
<1>5. SiteOK(i, x)
  BY <1>2, <1>4 DEF WaitingHome, Routed, SiteOK, Path
<1>6. x.rjump \in 1 .. Len(m.trail) /\ (PortsAsk => x.rjump = m.rjump)
  BY <1>1, <1>2, <1>3, <1>4
<1>7. OnWay(kn, level, i, x, x.rjump)
  BY <1>2, <1>3, <1>4, <1>6 DEF WaitingHome, Routed, OnWay
<1>8. Routed(kn, level, i, x)
  BY <1>2, <1>3, <1>4, <1>5, <1>7 DEF WaitingHome, Routed, Path
<1> QED BY <1>2, <1>4, <1>8 DEF WaitingHome, x, w

(* The connector's hop is counted. *)
LEMMA CameTaken ==
    ASSUME NEW kn, NEW level, NEW i, NEW m, CameHome(kn, level, i, m)
    PROVE  ComeHome(kn, level, i, WithJumps("CONN", m))
<1> DEFINE x == WithJumps("CONN", m)
<1>1. IsMsg(m) /\ m.rjump \in Int /\ "rjump" \in DOMAIN m
  BY DEF CameHome, OnWay, IsMsg, MsgFields
<1>2. /\ IsMsg(x) /\ x.policy = m.policy /\ x.flow = m.flow
      /\ x.state = m.state /\ x.nonce = m.nonce /\ x.sender = m.sender
      /\ x.rjump = IF m.state # "RESPONSE" THEN m.rjump + 1 ELSE m.rjump - 1
  BY <1>1, WithJumpsOK
<1>3. x.trail = m.trail /\ x.route = m.route
  <2>1. x = [m EXCEPT !.ljump = 1,
                      !.rjump = IF m.state # "RESPONSE" THEN @ + 1 ELSE @ - 1]
    BY DEF WithJumps
  <2> HIDE DEF x
  <2> QED BY <1>1, <2>1 DEF IsMsg, MsgFields
<1> HIDE DEF x
<1>4. OnWay(kn, level, i, x, x.rjump)
  BY <1>2, <1>3 DEF CameHome, OnWay
<1>5. m.state # "RESPONSE" => x.rjump >= 2
  BY <1>1, <1>2 DEF CameHome
<1> QED BY <1>2, <1>3, <1>4, <1>5 DEF CameHome, ComeHome, x

(* A message taken from a module is on its path already, has come over a   *)
(* connection, or is new.                                                  *)
LEMMA TakenHome ==
    ASSUME NEW kn, NEW level, Queues(kn, level), NEW i \in Inst, NEW mod \in ModSet(i),
           mod = Polled(i), sendq[i][mod] # <<>>
    PROVE  \/ WaitingHome(kn, level, i, Taken(i))
           \/ ComeHome(kn, level, i, Taken(i))
           \/ MadeHome(kn, i, Taken(i))
<1> DEFINE e == Got(sendq[i][mod])
           m == DupActive(e)
           s == IF mod # Conn \/ m.sender = Empty THEN [m EXCEPT !.sender = mod] ELSE m
<1>1. Taken(i) = WithJumps(ModType[mod], s)
  BY DEF Taken
<1>2. e \in ToSet(sendq[i][mod])
  BY QueueRest DEF Queues
<1>3. EntryHome(kn, level, i, mod, e)
  BY <1>2 DEF Queues, SendqHome
<1>4. ModType[mod] = "CONN" <=> mod = Conn
  BY ModsAssumption
<1>5. CASE mod = Conn
  <2>1. CameHome(kn, level, i, m) /\ m.sender \in Inst
    BY <1>3, <1>5 DEF EntryHome, CameHome
  <2>2. s = m
    BY <1>5, <2>1, LinksAssumption
  <2>3. Taken(i) = WithJumps("CONN", m)
    BY <1>1, <1>4, <1>5, <2>2
  <2> HIDE DEF m
  <2> QED BY <2>1, <2>3, CameTaken
<1>6. CASE mod # Conn
  <2>1. \/ FreshHome(kn, i, mod, m)
        \/ WaitingHome(kn, level, i, m) /\ (PortsAsk => ModType[mod] # "PORT")
    BY <1>3, <1>6 DEF EntryHome
  <2>2. s = [m EXCEPT !.sender = mod]
    BY <1>6
  <2>3. /\ FreshHome(kn, i, mod, m) =>
               MadeHome(kn, i, WithJumps(ModType[mod], [m EXCEPT !.sender = mod]))
        /\ WaitingHome(kn, level, i, m) /\ (PortsAsk => ModType[mod] # "PORT") =>
               WaitingHome(kn, level, i, WithJumps(ModType[mod], [m EXCEPT !.sender = mod]))
    <3> HIDE DEF m
    <3> QED BY <1>4, <1>6, FreshTaken, WaitingTaken
  <2>4. Taken(i) = WithJumps(ModType[mod], [m EXCEPT !.sender = mod])
    BY <1>1, <2>2
  <2> DEFINE x == WithJumps(ModType[mod], [m EXCEPT !.sender = mod])
  <2>5. MadeHome(kn, i, x) \/ WaitingHome(kn, level, i, x)
    BY <2>1, <2>3
  <2>6. Taken(i) = x
    BY <2>4
  <2> HIDE DEF x
  <2> QED BY <2>5, <2>6
<1> QED BY <1>5, <1>6

-----------------------------------------------------------------------------
(* The steps of the router's first half. *)

(* The module polled is one of this instance's. *)
LEMMA PolledHere ==
    ASSUME Counts, NEW i \in Inst, HasMsg(i)
    PROVE  Polled(i) \in ModSet(i) /\ sendq[i][Polled(i)] # <<>>
<1>1. pc[i] \in 1 .. Len(Mods[i]) + 1 /\ pc[i] <= Len(Mods[i])
  BY DEF Counts, HasMsg, Polling
<1>2. Mods[i] \in Seq(ModSet(i))
  BY ModsAssumption
<1>3. pc[i] \in DOMAIN Mods[i]
  BY <1>1, <1>2
<1>4. Polled(i) \in ModSet(i)
  BY <1>3 DEF Polled, ModSet
<1> QED BY <1>4 DEF HasMsg

(* The router goes on to the next module, or back to the first. *)
LEMMA PcTurns ==
    ASSUME Counts, NEW i \in Inst
    PROVE  /\ pc[i] <= Len(Mods[i]) =>
                 LET p == [pc EXCEPT ![i] = @ + 1]
                 IN  p \in [Inst -> Nat] /\ \A j \in Inst : p[j] \in 1 .. Len(Mods[j]) + 1
           /\ LET p == [pc EXCEPT ![i] = 1]
              IN  p \in [Inst -> Nat] /\ \A j \in Inst : p[j] \in 1 .. Len(Mods[j]) + 1
<1>1. Mods[i] \in Seq(ModSet(i))
  BY ModsAssumption
<1>2. Len(Mods[i]) \in Nat
  BY <1>1
<1> QED BY <1>2 DEF Counts

(* What is the same for the steps that draw no nonce *)
LEMMA CountsStay ==
    ASSUME Counts, pc' = pc, dead' = dead, nonces' = nonces, origin' = origin, answered' = answered
    PROVE  Counts'
BY DEF Counts

(* Taking a message, with what joins the waiting list and the traces. *)
LEMMA TakeAndHome ==
    ASSUME NEW level, Counts, NEW kn, Bound(kn, level), NEW i \in Inst, HasMsg(i),
           NEW add, NEW new, TakeAnd(i, add, new), IsSeq(add), IsSeq(new),
           \A t \in ToSet(new) : TraceHome(kn, level, i, t),
           \A m \in ToSet(add) : WaitingHome(kn, level, i, m)
    PROVE  HomeInv(level)'
<1> DEFINE q  == Rest(sendq[i][Polled(i)])
           w  == waiting[i] \o add
           ts == traces[i] \o new
<1>1. /\ sendq' = QueueSet(sendq, i, Polled(i), q) /\ waiting' = ListSet(waiting, i, w)
      /\ traces' = ListSet(traces, i, ts) /\ pc' = [pc EXCEPT ![i] = @ + 1]
      /\ recvq' = recvq /\ dead' = dead /\ net' = net /\ nonces' = nonces /\ origin' = origin
      /\ answered' = answered
  BY DEF TakeAnd, QueueSet, ListSet, history
<1>2. /\ Polled(i) \in ModSet(i) /\ QueuesShape(sendq) /\ SendqHome(sendq, kn, level)
      /\ sendq[i][Polled(i)] # <<>>
  BY PolledHere DEF Bound, Queues
<1>3. IsSeq(q) /\ ToSet(q) \subseteq ToSet(sendq[i][Polled(i)])
  BY <1>2, QueueRest
<1>4. IsSeq(w) /\ ToSet(w) = ToSet(waiting[i]) \cup ToSet(add)
  BY ConcatSeq DEF Bound, Lists, ListsShape
<1>5. IsSeq(ts) /\ ToSet(ts) = ToSet(traces[i]) \cup ToSet(new)
  BY ConcatSeq DEF Bound, Lists, ListsShape
<1> HIDE DEF q, w, ts
<1>6. QueuesShape(sendq') /\ SendqHome(sendq', kn, level)
  BY <1>1, <1>2, <1>3, SendqSetHome
<1>7. ListsShape(waiting') /\ ListsHome(waiting', kn, level)
  BY <1>1, <1>4, ListSetHome DEF Bound, Lists
<1>8. ListsShape(traces') /\ TracesHome(traces', kn, level)
  BY <1>1, <1>5, ListSetHome DEF Bound, Lists
<1>9. Bound(kn, level)'
  BY <1>1, <1>6, <1>7, <1>8 DEF Bound, Queues, Lists
<1>10. Counts'
  <2>1. pc[i] <= Len(Mods[i])
    BY DEF HasMsg, Polling
  <2> QED BY <1>1, <2>1, PcTurns DEF Counts
<1> QED BY <1>9, <1>10 DEF HomeInv

(* "message has path already": it waits. *)
LEMMA ContinueHome ==
    ASSUME NEW level, Homely(level), Counts, NEW kn, Bound(kn, level), NEW i \in Inst,
           RouterContinue(i)
    PROVE  HomeInv(level)'
<1>1. HasMsg(i) /\ Taken(i).policy # 0 /\ TakeAnd(i, <<Taken(i)>>, <<>>)
  BY DEF RouterContinue
<1>2. WaitingHome(kn, level, i, Taken(i))
  BY <1>1, PolledHere, TakenHome DEF ComeHome, MadeHome, Bound
<1>3. /\ IsSeq(<<Taken(i)>>) /\ ToSet(<<Taken(i)>>) = {Taken(i)}
      /\ IsSeq(<<>>) /\ ToSet(<<>>) = {}
  BY OneSeq, NilSeq
<1> QED BY <1>1, <1>2, <1>3, TakeAndHome

(* A message with no policy is dropped. *)
LEMMA NoPolicyHome ==
    ASSUME NEW level, Counts, NEW kn, Bound(kn, level), NEW i \in Inst, RouterNoPolicy(i)
    PROVE  HomeInv(level)'
<1>1. HasMsg(i) /\ TakeAnd(i, <<>>, <<>>)
  BY DEF RouterNoPolicy, Unrouted
<1> QED BY <1>1, NilSeq, TakeAndHome

(* A message with a path is not taken for one without. *)
LEMMA UnroutedHome ==
    ASSUME NEW level, Homely(level), Counts, NEW kn, Bound(kn, level), NEW i \in Inst,
           Unrouted(i)
    PROVE  /\ HasMsg(i) /\ Taken(i).policy = 0
           /\ ComeHome(kn, level, i, Taken(i)) \/ MadeHome(kn, i, Taken(i))
<1>1. HasMsg(i) /\ Taken(i).policy = 0
  BY DEF Unrouted
<1>2. 0 \notin DOMAIN Table[i].paths
  BY TableFacts DEF Homely
<1>3. ~WaitingHome(kn, level, i, Taken(i))
  BY <1>1, <1>2 DEF WaitingHome, Routed, SiteOK
<1> QED BY <1>1, <1>3, PolledHere, TakenHome DEF Bound

(* "message is init message": it starts on a policy for the one who asked. *)
LEMMA StartsHome ==
    ASSUME NEW level, Homely(level), Counts, NEW kn, Bound(kn, level), NEW i \in Inst,
           RouterStart(i)
    PROVE  HomeInv(level)'
<1> DEFINE c == Taken(i)
           p == FindRoutePolicy(Table[i], c)
           m == [SetStart(Table[i], c, p) EXCEPT !.trail = <<i>>]
           new == StartTraces(m)
<1>1. Unrouted(i) /\ c.flow = "none" /\ p # 0 /\ TakeAnd(i, <<m>>, new)
  BY DEF RouterStart
<1>2. HasMsg(i) /\ MadeHome(kn, i, c)
  BY <1>1, UnroutedHome DEF ComeHome, OnWay
<1>3. /\ p \in DOMAIN Table[i].paths /\ Table[i].paths[p].sender = c.sender
  <2>1. TableOK(i, level, Table[i]) /\ IsSeq(Table[i].forest)
    BY TablesOK, TableFacts DEF Homely
  <2>2. p \in DOMAIN Table[i].paths
    BY <1>1, <2>1, FoundOK
  <2>3. MatchesPolicy(Table[i].paths[p], c)
    BY <1>1, <2>1, FoundForRoute
  <2> QED BY <2>2, <2>3 DEF MatchesPolicy
<1>4. /\ IsMsg(c) /\ c.rjump = 1 /\ c.nonce \in DOMAIN kn
      /\ kn[c.nonce].who = [inst |-> i, mod |-> Table[i].paths[p].sender]
      /\ kn[c.nonce].name = Table[i].paths[p].name
  BY <1>2, <1>3 DEF MadeHome
<1> HIDE DEF c, p
<1>5. Asked(kn, i, c.nonce, p)
  BY <1>4 DEF Asked
<1>6. /\ WaitingHome(kn, level, i, m)
      /\ IsSeq(new) /\ \A t \in ToSet(new) : TraceHome(kn, level, i, t)
  BY <1>3, <1>4, <1>5, StartHome
<1> HIDE DEF m, new
<1>7. IsSeq(<<m>>) /\ \A x \in ToSet(<<m>>) : WaitingHome(kn, level, i, x)
  BY <1>6, OneSeq
<1> QED BY <1>1, <1>2, <1>6, <1>7, TakeAndHome

(* "message is not return message": it starts on the policy of its name    *)
(* here, which is looked for two hops or more from where it began and so   *)
(* names no client; a query's trace leads one step back on its trail.      *)
LEMMA RemoteStartsHome ==
    ASSUME NEW level, Homely(level), Counts, NEW kn, Bound(kn, level), NEW i \in Inst,
           RouterRemoteStart(i)
    PROVE  HomeInv(level)'
<1> DEFINE c == Taken(i)
           p == FindPolicyByName(Table[i], c.route, c.rjump, 0)
           m == SetRemoteStart(Table[i], c)
           new == StartTraces(m)
<1>1. /\ Unrouted(i) /\ c.flow # "none" /\ c.state # "RESPONSE" /\ m.policy # 0
      /\ TakeAnd(i, <<m>>, new)
  BY DEF RouterRemoteStart
<1>2. HasMsg(i) /\ ComeHome(kn, level, i, c) /\ c.policy = 0
  BY <1>1, UnroutedHome DEF MadeHome
<1>3. m = IF p = 0 THEN c ELSE [c EXCEPT !.policy = p, !.site = [leg |-> "main", at |-> 0]]
  BY DEF SetRemoteStart
<1>4. Tiered(level) /\ TableOK(i, level, Table[i]) /\ IsSeq(Table[i].forest)
  BY TablesOK, TableFacts DEF Homely
<1>5. p # 0 => /\ p \in DOMAIN Table[i].paths
               /\ Table[i].paths[p].name = c.route
               /\ Table[i].paths[p].rjump \in {0, c.rjump, -c.rjump}
  BY <1>4, FoundOK, FoundByName
<1> HIDE DEF p, m, c
<1>6. p # 0 /\ m = [c EXCEPT !.policy = p, !.site = [leg |-> "main", at |-> 0]]
  BY <1>1, <1>2, <1>3
<1>7. /\ IsMsg(c) /\ DOMAIN c = MsgFields /\ c.local \in BOOLEAN /\ c.rjump \in Int
      /\ c.trail \in Seq(Inst) /\ c.trail # <<>> /\ Last(c.trail) = i
      /\ c.rjump \in 1 .. Len(c.trail) /\ c.rjump >= 2
  BY <1>1, <1>2 DEF ComeHome, OnWay, IsMsg
<1>8. /\ DOMAIN m = MsgFields /\ m.local = c.local /\ m.rjump = c.rjump /\ m.policy = p
      /\ m.site = [leg |-> "main", at |-> 0] /\ m.flow = c.flow /\ m.state = c.state
      /\ m.nonce = c.nonce /\ m.sender = c.sender /\ m.trail = c.trail /\ m.route = c.route
  BY <1>6, <1>7 DEF MsgFields
<1>9. /\ SiteOK(i, m) /\ DOMAIN m.site = {"leg", "at"} /\ m.site.at = 0 /\ m.site.leg = "main"
  BY <1>4, <1>5, <1>6, <1>8, HeadPlace
<1>10. IsMsg(m)
  BY <1>7, <1>8, <1>9 DEF IsMsg
<1>11. OnWay(kn, level, i, m, m.rjump)
  BY <1>2, <1>8, <1>10 DEF ComeHome, OnWay
<1>12. Answers(kn, i, m.nonce, p)
  <2>1. Table[i].paths[p].rjump # 1
    BY <1>5, <1>6, <1>7
  <2>2. Table[i].paths[p] \in ToSet(Table[i].paths)
    BY <1>4, <1>5, <1>6, TableFacts
  <2> QED BY <2>1, <2>2 DEF Answers, Homely, AskersOwn
<1>13. Len(m.trail) > 1 /\ Len(m.trail) # 1
  <2> DEFINE n == Len(c.trail)
             r == c.rjump
  <2>1. n \in Nat /\ r \in 1 .. n /\ r >= 2
    BY <1>7
  <2> HIDE DEF n, r
  <2>2. n > 1 /\ n # 1
    BY <2>1
  <2>3. Len(c.trail) > 1 /\ Len(c.trail) # 1
    BY <2>2 DEF n
  <2> QED BY <1>8, <2>3
<1>14. WaitingHome(kn, level, i, m)
  <2>1. m.route = Path(i, m).name
    BY <1>5, <1>6, <1>8 DEF Path
  <2>2. Routed(kn, level, i, m)
    BY <1>8, <1>9, <1>11, <1>12, <1>13, <2>1 DEF Routed
  <2> QED BY <1>1, <1>8, <1>9, <2>2 DEF WaitingHome
<1>15. new = IF m.flow = "QUERY" THEN <<QueryTrace(m)>> ELSE <<>>
  BY <1>1, <1>8 DEF StartTraces
<1>16. ASSUME m.flow = "QUERY" PROVE TraceHome(kn, level, i, QueryTrace(m))
  <2> DEFINE t == QueryTrace(m)
  <2>1. t.kind = "query" /\ t.nonce = m.nonce /\ t.policy = p /\ t.source = c.sender
    BY <1>8 DEF QueryTrace
  <2> HIDE DEF t
  <2>2. /\ Climbs(level, m.trail) /\ m.trail[1] = kn[m.nonce].who.inst /\ Last(m.trail) = i
        /\ m.route = kn[m.nonce].name /\ m.nonce \in DOMAIN kn /\ m.trail \in Seq(Inst)
        /\ NamesAgree => FlowOfName(m.route, m.flow)
    BY <1>11, <1>16 DEF OnWay
  <2>3. kn[m.nonce].who.inst # i
    <3>1. level \in [Inst -> Int]
      BY <1>4 DEF Tiered
    <3> QED BY <1>13, <2>2, <3>1, ClimbsAway
  <2>4. m.trail[Len(m.trail) - 1] = c.sender
    BY <1>1, <1>2, <1>8, <1>16 DEF ComeHome
  <2>5. StepBack(kn, level, i, t)
    BY <1>13, <2>1, <2>2, <2>4 DEF StepBack
  <2>6. NamesAgree => Table[i].paths[p].flow = "QUERY"
    <3>1. Table[i].paths[p] \in ToSet(Table[i].paths) /\ Table[i].paths[p].name = m.route
      BY <1>4, <1>5, <1>6, <1>8, TableFacts
    <3> QED BY <1>16, <2>2, <3>1 DEF FlowOfName
  <2>7. p \in DOMAIN Table[i].paths /\ Table[i].paths[p].name = kn[m.nonce].name
    BY <1>5, <1>6, <1>8, <2>2
  <2>8. TraceHome(kn, level, i, t)
    BY <1>12, <2>1, <2>2, <2>3, <2>5, <2>6, <2>7 DEF TraceHome
  <2> QED BY <2>8 DEF t
<1>17. IsSeq(new) /\ \A t \in ToSet(new) : TraceHome(kn, level, i, t)
  BY <1>15, <1>16, NilSeq, OneSeq
<1>18. IsSeq(<<m>>) /\ \A x \in ToSet(<<m>>) : WaitingHome(kn, level, i, x)
  BY <1>14, OneSeq
<1> HIDE DEF new
<1> QED BY <1>1, <1>2, <1>17, <1>18, TakeAndHome DEF m, new

(* A response resumes where a query of its nonce left off: on a policy of  *)
(* its own name, and for the one who asked.                                *)
LEMMA ResumesHome ==
    ASSUME NEW level, Homely(level), Counts, NEW kn, Bound(kn, level), NEW i \in Inst,
           RouterResume(i)
    PROVE  HomeInv(level)'
<1> DEFINE c == Taken(i)
           k == FindTrace(traces[i], c.nonce, "query")
           t == traces[i][k]
           m == SetTraceTarget(c, t)
<1>1. Unrouted(i) /\ c.state = "RESPONSE" /\ k # 0 /\ TakeAnd(i, <<m>>, <<>>)
  BY DEF RouterResume
<1>2. HasMsg(i) /\ ComeHome(kn, level, i, c)
  BY <1>1, UnroutedHome DEF MadeHome
<1>3. t \in ToSet(traces[i]) /\ t.kind = "query" /\ t.nonce = c.nonce
  BY <1>1, FindTraceOK DEF Bound, Lists, ListsShape
<1> HIDE DEF k, t, c
<1>4. /\ t.policy \in DOMAIN Table[i].paths
      /\ Table[i].paths[t.policy].name = kn[c.nonce].name
      /\ Answers(kn, i, c.nonce, t.policy)
      /\ kn[c.nonce].who.inst = i => Asked(kn, i, c.nonce, t.policy)
  <2>1. TraceHome(kn, level, i, t)
    BY <1>3 DEF Bound, Lists, TracesHome
  <2> QED BY <1>3, <2>1 DEF TraceHome
<1>5. /\ DOMAIN c = MsgFields /\ c.rjump \in Int
      /\ c.flow = "QUERY" /\ c.route = kn[c.nonce].name
      /\ c.trail \in Seq(Inst) /\ c.trail # <<>> /\ Last(c.trail) = i
      /\ c.trail[1] = kn[c.nonce].who.inst
  BY <1>1, <1>2 DEF ComeHome, OnWay, IsMsg
<1>6. /\ DOMAIN m = MsgFields /\ m.local = FALSE /\ m.rjump = c.rjump /\ m.policy = t.policy
      /\ m.site = [leg |-> "resp", at |-> 0] /\ m.flow = c.flow /\ m.state = c.state
      /\ m.nonce = c.nonce /\ m.trail = c.trail /\ m.route = c.route
  BY <1>5 DEF SetTraceTarget, MsgFields
<1> HIDE DEF m
<1>7. /\ SiteOK(i, m) /\ DOMAIN m.site = {"leg", "at"} /\ m.site.at = 0 /\ m.site.leg = "resp"
  BY <1>4, <1>6, HeadPlace DEF Homely
<1>8. IsMsg(m)
  <2>1. m.local \in BOOLEAN
    BY <1>6
  <2> QED BY <1>5, <1>6, <1>7, <2>1 DEF IsMsg
<1>9. OnWay(kn, level, i, m, m.rjump)
  BY <1>2, <1>6, <1>8 DEF ComeHome, OnWay
<1>10. Len(m.trail) = 1 => Asked(kn, i, m.nonce, m.policy)
  BY <1>4, <1>5, <1>6, TrailEnd
<1>11. WaitingHome(kn, level, i, m)
  BY <1>4, <1>5, <1>6, <1>7, <1>9, <1>10 DEF WaitingHome, Routed, Path
<1>12. /\ IsSeq(<<m>>) /\ \A x \in ToSet(<<m>>) : WaitingHome(kn, level, i, x)
       /\ IsSeq(<<>>) /\ \A x \in ToSet(<<>>) : TraceHome(kn, level, i, x)
  BY <1>11, OneSeq, NilSeq
<1> QED BY <1>1, <1>2, <1>12, TakeAndHome

(* proc_router_start returns. *)
LEMMA DiesHome ==
    ASSUME NEW level, Counts, NEW kn, Bound(kn, level), NEW i \in Inst, RouterDie(i)
    PROVE  HomeInv(level)'
<1> DEFINE q == Rest(sendq[i][Polled(i)])
<1>1. /\ HasMsg(i) /\ sendq' = QueueSet(sendq, i, Polled(i), q)
      /\ dead' = [dead EXCEPT ![i] = TRUE]
      /\ recvq' = recvq /\ pc' = pc /\ waiting' = waiting /\ traces' = traces /\ net' = net
      /\ nonces' = nonces /\ origin' = origin /\ answered' = answered
  BY DEF RouterDie, Unrouted, QueueSet, history
<1>2. /\ Polled(i) \in ModSet(i) /\ QueuesShape(sendq) /\ SendqHome(sendq, kn, level)
      /\ sendq[i][Polled(i)] # <<>>
  BY <1>1, PolledHere DEF Bound, Queues
<1>3. IsSeq(q) /\ ToSet(q) \subseteq ToSet(sendq[i][Polled(i)])
  BY <1>2, QueueRest
<1> HIDE DEF q
<1>4. QueuesShape(sendq') /\ SendqHome(sendq', kn, level)
  BY <1>1, <1>2, <1>3, SendqSetHome
<1>5. Bound(kn, level)'
  BY <1>1, <1>4 DEF Bound, Queues, Lists
<1>6. Counts'
  BY <1>1 DEF Counts
<1> QED BY <1>5, <1>6 DEF HomeInv

(* The router goes round its modules. *)
LEMMA PollsHome ==
    ASSUME NEW level, Counts, NEW kn, Bound(kn, level), NEW i \in Inst,
           RouterSkip(i) \/ RouterRound(i)
    PROVE  HomeInv(level)'
<1>1. /\ sendq' = sendq /\ recvq' = recvq /\ waiting' = waiting /\ traces' = traces
      /\ dead' = dead /\ net' = net /\ nonces' = nonces /\ origin' = origin
      /\ answered' = answered
      /\ \/ pc[i] <= Len(Mods[i]) /\ pc' = [pc EXCEPT ![i] = @ + 1]
         \/ pc' = [pc EXCEPT ![i] = 1]
  BY DEF RouterSkip, RouterRound, Polling, queues, history
<1>2. pc' \in [Inst -> Nat] /\ \A j \in Inst : pc'[j] \in 1 .. Len(Mods[j]) + 1
  BY <1>1, PcTurns
<1>3. Counts'
  BY <1>1, <1>2 DEF Counts
<1>4. Bound(kn, level)'
  BY <1>1 DEF Bound, Queues, Lists
<1> QED BY <1>3, <1>4 DEF HomeInv

-----------------------------------------------------------------------------
(* The steps of the router's second half. *)

(* The head of the waiting list has reached its end. *)
LEMMA FinishHome ==
    ASSUME NEW level, Counts, NEW kn, Bound(kn, level), NEW i \in Inst, RouterFinish(i)
    PROVE  HomeInv(level)'
<1>1. /\ waiting' = ListSet(waiting, i, Tail(waiting[i])) /\ waiting[i] # <<>>
      /\ sendq' = sendq /\ recvq' = recvq /\ pc' = pc /\ traces' = traces
      /\ dead' = dead /\ net' = net /\ nonces' = nonces /\ origin' = origin
      /\ answered' = answered
  BY DEF RouterFinish, queues, history, ListSet
<1>2. IsSeq(Tail(waiting[i])) /\ ToSet(Tail(waiting[i])) \subseteq ToSet(waiting[i])
  BY <1>1, TailSeq DEF Bound, Lists, ListsShape
<1>3. ListsShape(waiting') /\ ListsHome(waiting', kn, level)
  BY <1>1, <1>2, ListSetHome DEF Bound, Lists
<1>4. Bound(kn, level)'
  BY <1>1, <1>3 DEF Bound, Queues, Lists
<1>5. Counts'
  BY <1>1, CountsStay
<1> QED BY <1>4, <1>5 DEF HomeInv

(* What the router has in hand when it sends, and the clones it leaves. *)
LEMMA HomeInHand ==
    ASSUME NEW level, Homely(level), NEW kn, Bound(kn, level), NEW i \in Inst,
           waiting[i] # <<>>, Advance(i, Head(waiting[i])).send
    PROVE  LET s == Advance(i, Head(waiting[i]))
               w == Tail(waiting[i]) \o Clones(i, s)
           IN  /\ SentHome(kn, level, i, s.msg)
               /\ IsMsg(s.msg) /\ SiteOK(i, s.msg)
               /\ IsSeq(w) /\ \A m \in ToSet(w) : WaitingHome(kn, level, i, m)
<1> DEFINE h == Head(waiting[i])
           s == Advance(i, h)
           w == Tail(waiting[i]) \o Clones(i, s)
<1>1. /\ h \in ToSet(waiting[i]) /\ IsSeq(Tail(waiting[i]))
      /\ ToSet(Tail(waiting[i])) \subseteq ToSet(waiting[i])
  BY TailSeq DEF Bound, Lists, ListsShape
<1>2. \A m \in ToSet(waiting[i]) : WaitingHome(kn, level, i, m)
  BY DEF Bound, Lists, ListsHome
<1>3. IsSeq(traces[i]) /\ \A t \in ToSet(traces[i]) : TraceHome(kn, level, i, t)
  BY DEF Bound, Lists, ListsShape, TracesHome
<1>4. SentHome(kn, level, i, s.msg)
  BY <1>1, <1>2, <1>3, AdvanceHome
<1> HIDE DEF s
<1>5. IsMsg(s.msg) /\ SiteOK(i, s.msg) /\ s.msg.nonce \in DOMAIN kn
  BY <1>4 DEF SentHome, Routed, OnWay
<1>6. /\ IsSeq(Clones(i, s))
      /\ \A x \in ToSet(Clones(i, s)) : WaitingHome(kn, level, i, x)
  BY <1>5, ClonesHome
<1>7. IsSeq(w) /\ ToSet(w) = ToSet(Tail(waiting[i])) \cup ToSet(Clones(i, s))
  BY <1>1, <1>6, ConcatSeq
<1> HIDE DEF w
<1>8. \A m \in ToSet(w) : WaitingHome(kn, level, i, m)
  BY <1>1, <1>2, <1>6, <1>7
<1> QED BY <1>4, <1>5, <1>7, <1>8 DEF w, s

(* proc_router_send_msg: the message goes to its module, or to the         *)
(* connector.                                                              *)
LEMMA SendsHome ==
    ASSUME NEW level, Homely(level), Counts, NEW kn, Bound(kn, level), NEW i \in Inst,
           RouterSend(i)
    PROVE  HomeInv(level)'
<1> DEFINE s  == Advance(i, Head(waiting[i]))
           to == Target(i, s.msg)
           w  == Tail(waiting[i]) \o Clones(i, s)
           q  == Append(recvq[i][to], s.msg)
<1>1. /\ waiting[i] # <<>> /\ s.send
      /\ waiting' = ListSet(waiting, i, w)
      /\ recvq' = IF to = Empty THEN recvq ELSE QueueSet(recvq, i, to, q)
      /\ sendq' = sendq /\ pc' = pc /\ traces' = traces
      /\ dead' = dead /\ net' = net /\ nonces' = nonces /\ origin' = origin
      /\ answered' = answered
  BY DEF RouterSend, history, ListSet, QueueSet, Put
<1>2. /\ SentHome(kn, level, i, s.msg) /\ IsMsg(s.msg)
      /\ IsSeq(w) /\ \A m \in ToSet(w) : WaitingHome(kn, level, i, m)
  BY <1>1, HomeInHand
<1> HIDE DEF s, w
<1>3. to # Empty => to \in ModSet(i) /\ RecvHome(kn, level, i, to, s.msg)
  <2>1. s.msg.local \in BOOLEAN
    BY <1>2 DEF IsMsg
  <2>2. CASE s.msg.receiver = Empty
    BY <2>2 DEF Target
  <2>3. CASE s.msg.receiver # Empty
    <3>1. s.msg.site.leg # "none"
      BY <1>2, <2>3 DEF SentHome
    <3>2. to # Empty => /\ to \in ModSet(i)
                        /\ to # Conn => s.msg.local /\ s.msg.receiver = to
      <4>1. CASE ~s.msg.local
        BY <2>3, <4>1, ModsAssumption DEF Target
      <4>2. CASE s.msg.local
        <5>1. to = IF s.msg.receiver \in ModSet(i) THEN s.msg.receiver ELSE Empty
          BY <2>3, <4>2 DEF Target
        <5> HIDE DEF to
        <5> QED BY <4>2, <5>1
      <4> QED BY <2>1, <4>1, <4>2
    <3> HIDE DEF to
    <3> QED BY <1>2, <3>1, <3>2 DEF RecvHome
  <2> QED BY <2>2, <2>3
<1> HIDE DEF to
<1>4. QueuesShape(recvq') /\ RecvqHome(recvq', kn, level)
  <2>0. QueuesShape(recvq) /\ RecvqHome(recvq, kn, level)
    BY DEF Bound, Queues
  <2>1. CASE to = Empty
    BY <1>1, <2>0, <2>1
  <2>2. CASE to # Empty
    <3>1. to \in ModSet(i) /\ IsSeq(recvq[i][to])
      BY <1>3, <2>0, <2>2 DEF QueuesShape
    <3>2. IsSeq(q) /\ ToSet(q) = ToSet(recvq[i][to]) \cup {s.msg}
      BY <3>1, AppendSeq
    <3> HIDE DEF q
    <3>3. \A m \in ToSet(q) : m \in ToSet(recvq[i][to]) \/ RecvHome(kn, level, i, to, m)
      BY <1>3, <2>2, <3>2
    <3> QED BY <1>1, <2>0, <2>2, <3>1, <3>2, <3>3, RecvqSetHome
  <2> QED BY <2>1, <2>2
<1>5. ListsShape(waiting') /\ ListsHome(waiting', kn, level)
  BY <1>1, <1>2, ListSetHome DEF Bound, Lists
<1>6. Bound(kn, level)'
  BY <1>1, <1>4, <1>5 DEF Bound, Queues, Lists
<1>7. Counts'
  BY <1>1, CountsStay
<1> QED BY <1>6, <1>7 DEF HomeInv

(* A nonce is drawn, and bound to who asks and to a name. *)
Drawn(kn, n, who, name) ==
    [k \in DOMAIN kn \cup {n} |-> IF k = n THEN [who |-> who, name |-> name] ELSE kn[k]]

LEMMA DrawnFits ==
    ASSUME NEW kn, Counts, Fits(kn, origin), NEW who, NEW name,
           nonces' = nonces + 1, origin' = Append(origin, who)
    PROVE  /\ Learns(kn, Drawn(kn, nonces + 1, who, name))
           /\ Fits(Drawn(kn, nonces + 1, who, name), origin')
           /\ nonces + 1 \in DOMAIN Drawn(kn, nonces + 1, who, name)
           /\ Drawn(kn, nonces + 1, who, name)[nonces + 1] = [who |-> who, name |-> name]
           /\ nonces' = Len(origin') /\ 1 .. nonces \subseteq 1 .. nonces'
<1> DEFINE n   == nonces + 1
           kn2 == Drawn(kn, n, who, name)
<1>1. /\ IsSeq(origin) /\ nonces = Len(origin) /\ Len(origin) \in Nat
      /\ DOMAIN origin = 1 .. Len(origin)
  BY IsSeqFacts DEF Counts, Fits
<1>2. /\ IsSeq(origin') /\ Len(origin') = n /\ DOMAIN origin' = 1 .. n
      /\ \A k \in DOMAIN origin : origin'[k] = origin[k]
      /\ origin'[n] = who
  <2>1. /\ IsSeq(origin') /\ Len(origin') = n
        /\ \A k \in DOMAIN origin : origin'[k] = origin[k]
        /\ origin'[n] = who
    BY <1>1, AppendSeq
  <2> HIDE DEF n
  <2> QED BY <2>1, IsSeqFacts
<1>3. DOMAIN origin' = DOMAIN kn \cup {n} /\ n \notin DOMAIN kn /\ DOMAIN kn = DOMAIN origin
  BY <1>1, <1>2 DEF Fits
<1>4. /\ DOMAIN kn2 = DOMAIN kn \cup {n}
      /\ \A k \in DOMAIN kn : kn2[k] = kn[k]
      /\ kn2[n] = [who |-> who, name |-> name]
  BY <1>3 DEF Drawn
<1> HIDE DEF kn2
<1>5. Learns(kn, kn2)
  BY <1>4 DEF Learns
<1>6. Fits(kn2, origin')
  <2>1. ASSUME NEW k \in DOMAIN origin' PROVE kn2[k].who = origin'[k]
    <3>1. CASE k = n
      BY <1>2, <1>4, <3>1
    <3>2. CASE k # n
      BY <1>2, <1>3, <1>4, <2>1, <3>2 DEF Fits
    <3> QED BY <3>1, <3>2
  <2> QED BY <1>2, <1>3, <1>4, <2>1 DEF Fits
<1> QED BY <1>1, <1>2, <1>4, <1>5, <1>6 DEF kn2, n

(* route_aspect_message: the message is set aside and its diversion        *)
(* starts.                                                                 *)
LEMMA DivertsHome ==
    ASSUME NEW level, Homely(level), Counts, NEW kn, Bound(kn, level), NEW i \in Inst,
           RouterDivert(i)
    PROVE  HomeInv(level)'
<1> DEFINE s   == Advance(i, Head(waiting[i]))
           bs  == Branches(Table[i], s.msg)
           a   == Diversion(i, s)
           n   == nonces + 1
           m   == [AspectMessage(Table[i], s.msg, bs[a], n) EXCEPT !.trail = <<i>>]
           old == Tail(waiting[i]) \o Clones(i, s)
           w   == old \o <<m>>
           asp == AspectTrace(s.msg, n)
           new == <<asp>> \o StartTraces(m)
           ts  == traces[i] \o new
           who == [inst |-> i, mod |-> Empty]
<1>1. /\ waiting[i] # <<>> /\ s.send /\ a # 0
      /\ waiting' = [waiting EXCEPT ![i] = Tail(@) \o Clones(i, s) \o <<m>>]
      /\ traces' = [traces EXCEPT ![i] = @ \o <<asp>> \o StartTraces(m)]
      /\ nonces' = n /\ origin' = Append(origin, who)
      /\ sendq' = sendq /\ recvq' = recvq /\ pc' = pc /\ dead' = dead /\ net' = net
      /\ answered' = answered
  BY ZenonT(30) DEF RouterDivert, queues
<1>2. /\ SentHome(kn, level, i, s.msg) /\ IsMsg(s.msg) /\ SiteOK(i, s.msg)
      /\ IsSeq(old) /\ \A x \in ToSet(old) : WaitingHome(kn, level, i, x)
  BY <1>1, HomeInHand, ZenonT(30)
<1>3. waiting' = ListSet(waiting, i, w)
  BY <1>1 DEF ListSet
<1> HIDE DEF s, old
<1>4. IsSeq(bs) /\ \A b \in ToSet(bs) : BranchOK(Table[i].paths, b)
  BY <1>2, BranchesOK DEF Homely
<1>5. BranchOK(Table[i].paths, bs[a])
  <2> DEFINE T == {k \in DOMAIN bs : bs[k].kind = "ASPECT" /\ BranchMatches(Table[i], s.msg, bs[k])}
  <2>1. a = FirstOf(T)
    BY <1>1 DEF Diversion
  <2>2. T \subseteq DOMAIN bs /\ DOMAIN bs \subseteq Nat \ {0}
    BY <1>4, IsSeqFacts
  <2> HIDE DEF T, a, bs
  <2>3. a \in DOMAIN bs
    BY <1>1, <2>1, <2>2, FirstOfIn
  <2> QED BY <1>4, <2>3, IsSeqFacts
<1> HIDE DEF a, bs
<1>6. PICK kn2 : /\ Learns(kn, kn2) /\ Fits(kn2, origin') /\ n \in DOMAIN kn2
                 /\ kn2[n] = [who |-> who, name |-> Table[i].paths[bs[a].path].name]
                 /\ nonces' = Len(origin') /\ 1 .. nonces \subseteq 1 .. nonces'
  <2> DEFINE dr == Drawn(kn, n, who, Table[i].paths[bs[a].path].name)
  <2>1. /\ Learns(kn, dr) /\ Fits(dr, origin') /\ n \in DOMAIN dr
        /\ dr[n] = [who |-> who, name |-> Table[i].paths[bs[a].path].name]
        /\ nonces' = Len(origin') /\ 1 .. nonces \subseteq 1 .. nonces'
    BY <1>1, DrawnFits DEF Bound
  <2> HIDE DEF dr, n, who
  <2> QED BY <2>1
<1> HIDE DEF n
<1>7. Queues(kn2, level) /\ Lists(kn2, level)
  BY <1>6, LearnsKeepsAll DEF Bound
<1>8. /\ WaitingHome(kn2, level, i, m)
      /\ IsSeq(StartTraces(m)) /\ \A t \in ToSet(StartTraces(m)) : TraceHome(kn2, level, i, t)
  BY <1>2, <1>5, <1>6, DivertedHome
<1> HIDE DEF m
<1>9. IsSeq(<<asp>>) /\ ToSet(<<asp>>) = {asp}
  BY OneSeq
<1>10. IsSeq(new) /\ ToSet(new) = {asp} \cup ToSet(StartTraces(m))
  BY <1>8, <1>9, ConcatSeq
<1>11. IsSeq(traces[i])
  BY DEF Bound, Lists, ListsShape
<1>12. traces' = ListSet(traces, i, ts)
  <2>1. (traces[i] \o <<asp>>) \o StartTraces(m) = traces[i] \o (<<asp>> \o StartTraces(m))
    <3> DEFINE a0 == traces[i]
               a1 == <<asp>>
               a2 == StartTraces(m)
    <3>1. IsSeq(a0) /\ IsSeq(a1) /\ IsSeq(a2)
      BY <1>8, <1>9, <1>11
    <3> HIDE DEF a0, a1, a2
    <3>2. (a0 \o a1) \o a2 = a0 \o (a1 \o a2)
      BY <3>1, ConcatAssoc, SMTT(30)
    <3> QED BY <3>2 DEF a0, a1, a2
  <2>2. (traces[i] \o <<asp>>) \o StartTraces(m) = ts
    BY <2>1
  <2> HIDE DEF ts
  <2> QED BY <1>1, <2>2 DEF ListSet
<1>13. IsSeq(ts) /\ ToSet(ts) = ToSet(traces[i]) \cup ToSet(new)
  BY <1>10, <1>11, ConcatSeq
<1> HIDE DEF new, ts
<1>14. TraceHome(kn2, level, i, asp)
  <2>1. asp.kind = "aspect" /\ asp.saved[1] = s.msg
    BY DEF AspectTrace
  <2>2. SentHome(kn2, level, i, s.msg)
    BY <1>2, <1>6, LearnsKeeps
  <2> HIDE DEF asp
  <2> QED BY <2>1, <2>2 DEF TraceHome
<1> HIDE DEF asp
<1>15. ListsShape(traces') /\ TracesHome(traces', kn2, level)
  <2>1. \A t \in ToSet(ts) : t \in ToSet(traces[i]) \/ TraceHome(kn2, level, i, t)
    BY <1>8, <1>10, <1>13, <1>14
  <2> QED BY <1>7, <1>12, <1>13, <2>1, ListSetHome DEF Lists
<1>16. IsSeq(w) /\ \A x \in ToSet(w) : WaitingHome(kn2, level, i, x)
  <2>1. IsSeq(<<m>>) /\ ToSet(<<m>>) = {m}
    BY OneSeq
  <2>2. IsSeq(w) /\ ToSet(w) = ToSet(old) \cup {m}
    BY <1>2, <2>1, ConcatSeq
  <2> HIDE DEF w
  <2> QED BY <1>2, <1>6, <1>8, <2>2, LearnsKeeps
<1> HIDE DEF w
<1>17. ListsShape(waiting') /\ ListsHome(waiting', kn2, level)
  BY <1>3, <1>7, <1>16, ListSetHome DEF Lists
<1>18. Bound(kn2, level)'
  BY <1>1, <1>6, <1>7, <1>15, <1>17 DEF Bound, Queues, Lists
<1>19. Counts'
  BY <1>1, <1>6 DEF Counts
<1> QED BY <1>18, <1>19, SMTT(30) DEF HomeInv

-----------------------------------------------------------------------------
(* The steps of the modules. *)

(* A client draws a nonce; it is bound to the client and to the name of    *)
(* the policy the router will put the message on.                          *)
LEMMA AskHome ==
    ASSUME NEW level, Counts, NEW kn, Bound(kn, level), NEW i \in Inst, NEW mod \in ModSet(i),
           Ask(i, mod)
    PROVE  HomeInv(level)'
<1> DEFINE n   == nonces + 1
           m   == NewMessage(Says[mod], n)
           e   == Entry(m)
           q   == Put(sendq[i][mod], e)
           who == [inst |-> i, mod |-> mod]
<1>1. /\ Role[mod] = "client" /\ nonces' = n /\ origin' = Append(origin, who)
      /\ sendq' = QueueSet(sendq, i, mod, q)
      /\ recvq' = recvq /\ pc' = pc /\ waiting' = waiting /\ traces' = traces
      /\ dead' = dead /\ net' = net /\ answered' = answered
  BY DEF Ask, QueueSet
<1>2. mod # Conn
  BY <1>1, ModsAssumption DEF Conn
<1>3. PICK kn2 : /\ Learns(kn, kn2) /\ Fits(kn2, origin') /\ n \in DOMAIN kn2
                 /\ kn2[n] = [who |-> who, name |-> FirstName(i, mod)]
                 /\ nonces' = Len(origin') /\ 1 .. nonces \subseteq 1 .. nonces'
  <2> DEFINE dr == Drawn(kn, n, who, FirstName(i, mod))
  <2>1. /\ Learns(kn, dr) /\ Fits(dr, origin') /\ n \in DOMAIN dr
        /\ dr[n] = [who |-> who, name |-> FirstName(i, mod)]
        /\ nonces' = Len(origin') /\ 1 .. nonces \subseteq 1 .. nonces'
    BY <1>1, DrawnFits DEF Bound
  <2> HIDE DEF dr, n, who
  <2> QED BY <2>1
<1>4. Queues(kn2, level) /\ Lists(kn2, level)
  BY <1>3, LearnsKeepsAll DEF Bound
<1>5. DupActive(e) = m /\ m = NewMessage(Says[mod], n) /\ m.nonce = n
  BY NewMessageOK DEF DupActive, Entry
<1>6. who.inst = i /\ who.mod = mod
  OBVIOUS
<1> HIDE DEF n, m, e
<1>7. EntryHome(kn2, level, i, mod, e)
  <2>1. FreshHome(kn2, i, mod, m)
    BY <1>2, <1>3, <1>5 DEF FreshHome
  <2> QED BY <1>2, <1>5, <2>1 DEF EntryHome
<1>8. IsSeq(q) /\ ToSet(q) = ToSet(sendq[i][mod]) \cup {e}
  <2>1. IsSeq(sendq[i][mod])
    BY DEF Bound, Queues, QueuesShape
  <2> QED BY <2>1, AppendSeq DEF Put
<1> HIDE DEF q
<1>9. QueuesShape(sendq') /\ SendqHome(sendq', kn2, level)
  <2>1. \A x \in ToSet(q) : x \in ToSet(sendq[i][mod]) \/ EntryHome(kn2, level, i, mod, x)
    BY <1>7, <1>8
  <2> QED BY <1>1, <1>4, <1>8, <2>1, SendqSetHome DEF Queues
<1>10. Bound(kn2, level)'
  BY <1>1, <1>3, <1>4, <1>9 DEF Bound, Queues, Lists
<1>11. Counts'
  BY <1>1, <1>3 DEF Counts
<1> QED BY <1>10, <1>11 DEF HomeInv

(* A message ends with its module. *)
LEMMA ConsumeHome ==
    ASSUME NEW level, Counts, NEW kn, Bound(kn, level), NEW i \in Inst, NEW mod \in ModSet(i),
           Consume(i, mod)
    PROVE  HomeInv(level)'
<1> DEFINE m == Got(recvq[i][mod])
<1>1. /\ recvq[i][mod] # <<>> /\ recvq' = QueueSet(recvq, i, mod, Rest(recvq[i][mod]))
      /\ answered' = answered \/ answered' = answered \cup {m.nonce}
      /\ sendq' = sendq /\ pc' = pc /\ waiting' = waiting /\ traces' = traces
      /\ dead' = dead /\ net' = net /\ nonces' = nonces /\ origin' = origin
  BY DEF Consume, QueueSet
<1>2. QueuesShape(recvq) /\ RecvqHome(recvq, kn, level)
  BY DEF Bound, Queues
<1>3. /\ m \in ToSet(recvq[i][mod]) /\ IsSeq(Rest(recvq[i][mod]))
      /\ ToSet(Rest(recvq[i][mod])) \subseteq ToSet(recvq[i][mod])
  BY <1>1, <1>2, QueueRest
<1> HIDE DEF m
<1>4. QueuesShape(recvq') /\ RecvqHome(recvq', kn, level)
  BY <1>1, <1>2, <1>3, RecvqSetHome
<1>5. Bound(kn, level)'
  BY <1>1, <1>4 DEF Bound, Queues, Lists
<1>6. m.nonce \in 1 .. nonces
  <2>1. m.nonce \in DOMAIN kn
    BY <1>2, <1>3 DEF RecvqHome, RecvHome, SentHome, Routed, OnWay
  <2> QED BY <2>1, IsSeqFacts DEF Bound, Fits, Counts
<1>7. Counts'
  BY <1>1, <1>6 DEF Counts
<1> QED BY <1>5, <1>7 DEF HomeInv

(* A module takes one message from its receive queue and sends entry e. *)
LEMMA PassedOnHome ==
    ASSUME NEW level, Counts, NEW kn, Bound(kn, level), NEW i \in Inst, NEW mod \in ModSet(i),
           NEW e, recvq[i][mod] # <<>>, EntryHome(kn, level, i, mod, e),
           sendq' = QueueSet(sendq, i, mod, Put(sendq[i][mod], e)),
           recvq' = QueueSet(recvq, i, mod, Rest(recvq[i][mod])),
           UNCHANGED <<pc, dead, waiting, traces, net, nonces, origin, answered>>
    PROVE  HomeInv(level)'
<1>1. /\ pc' = pc /\ waiting' = waiting /\ traces' = traces /\ dead' = dead
      /\ net' = net /\ nonces' = nonces /\ origin' = origin /\ answered' = answered
  OBVIOUS
<1>2. QueuesShape(recvq') /\ RecvqHome(recvq', kn, level)
  BY QueueRest, RecvqSetHome DEF Bound, Queues
<1>3. QueuesShape(sendq') /\ SendqHome(sendq', kn, level)
  <2> DEFINE q == Put(sendq[i][mod], e)
  <2>0. QueuesShape(sendq) /\ SendqHome(sendq, kn, level)
    BY DEF Bound, Queues
  <2>1. IsSeq(q) /\ ToSet(q) = ToSet(sendq[i][mod]) \cup {e}
    <3>1. IsSeq(sendq[i][mod])
      BY <2>0 DEF QueuesShape
    <3> QED BY <3>1, AppendSeq DEF Put
  <2>2. sendq' = QueueSet(sendq, i, mod, q)
    OBVIOUS
  <2> HIDE DEF q
  <2>3. \A x \in ToSet(q) : x \in ToSet(sendq[i][mod]) \/ EntryHome(kn, level, i, mod, x)
    BY <2>1
  <2> QED BY <2>0, <2>1, <2>2, <2>3, SendqSetHome
<1>4. Bound(kn, level)'
  BY <1>1, <1>2, <1>3 DEF Bound, Queues, Lists
<1>5. Counts'
  BY <1>1, CountsStay
<1> QED BY <1>4, <1>5 DEF HomeInv

(* What a module is handed may wait again. *)
LEMMA HandedHome ==
    ASSUME NEW level, NEW kn, Bound(kn, level), NEW i \in Inst, NEW mod \in ModSet(i),
           mod # Conn, recvq[i][mod] # <<>>
    PROVE  LET m == Got(recvq[i][mod])
           IN  IsMsg(m) /\ WaitingHome(kn, level, i, m)
<1> DEFINE m == Got(recvq[i][mod])
<1>1. m \in ToSet(recvq[i][mod])
  BY QueueRest DEF Bound, Queues
<1> HIDE DEF m
<1>2. RecvHome(kn, level, i, mod, m)
  BY <1>1 DEF Bound, Queues, RecvqHome
<1>3. IsMsg(m)
  BY <1>2 DEF RecvHome, SentHome, Routed, OnWay
<1>4. WaitingHome(kn, level, i, m)
  BY <1>2 DEF RecvHome, SentHome, WaitingHome
<1> QED BY <1>3, <1>4 DEF m

(* The same message in all that its path depends on may wait, too. *)
LEMMA WaitingSame ==
    ASSUME NEW kn, NEW level, NEW i, NEW m, NEW x, WaitingHome(kn, level, i, m), IsMsg(x),
           SamePlace(x, m), x.site = m.site
    PROVE  WaitingHome(kn, level, i, x)
<1>1. SiteOK(i, x)
  BY DEF WaitingHome, Routed, SiteOK, Path, SamePlace
<1>2. Routed(kn, level, i, x)
  BY <1>1, RoutedSame DEF WaitingHome
<1> QED BY <1>2 DEF WaitingHome, SamePlace

(* A module sends on what it was handed. *)
LEMMA ForwardHome ==
    ASSUME NEW level, Counts, NEW kn, Bound(kn, level), NEW i \in Inst, NEW mod \in ModSet(i),
           Forward(i, mod)
    PROVE  HomeInv(level)'
<1> DEFINE m == Got(recvq[i][mod])
           x == [m EXCEPT !.receiver = Empty]
           e == Entry(x)
<1>1. /\ Role[mod] = "forward" /\ recvq[i][mod] # <<>>
      /\ sendq' = QueueSet(sendq, i, mod, Put(sendq[i][mod], e))
      /\ recvq' = QueueSet(recvq, i, mod, Rest(recvq[i][mod]))
      /\ UNCHANGED <<pc, dead, waiting, traces, net, nonces, origin, answered>>
  BY DEF Forward, QueueSet, history
<1>2. mod # Conn
  BY <1>1, ModsAssumption DEF Conn
<1>3. IsMsg(m) /\ WaitingHome(kn, level, i, m)
  BY <1>1, <1>2, HandedHome
<1>4. DupActive(e) = x
  BY DEF DupActive, Entry
<1> HIDE DEF m, e
<1>5. /\ DOMAIN x = MsgFields /\ x.flow = m.flow /\ x.state = m.state /\ x.nonce = m.nonce
      /\ x.rjump = m.rjump /\ x.policy = m.policy /\ x.site = m.site /\ x.local = m.local
      /\ x.trail = m.trail /\ x.route = m.route
  BY <1>3 DEF IsMsg, MsgFields
<1> HIDE DEF x
<1>6. IsMsg(x)
  BY <1>3, <1>5 DEF IsMsg
<1>7. WaitingHome(kn, level, i, x)
  BY <1>3, <1>5, <1>6, WaitingSame DEF SamePlace
<1>8. PortsAsk => ModType[mod] # "PORT"
  BY <1>1 DEF PortsAsk
<1>9. EntryHome(kn, level, i, mod, e)
  BY <1>2, <1>4, <1>7, <1>8 DEF EntryHome
<1> QED BY <1>1, <1>9, PassedOnHome

(* A module answers with a message that takes over the path of the one it  *)
(* was handed.                                                             *)
LEMMA ReplyHome ==
    ASSUME NEW level, Counts, NEW kn, Bound(kn, level), NEW i \in Inst, NEW mod \in ModSet(i),
           Reply(i, mod)
    PROVE  HomeInv(level)'
<1> DEFINE m == Got(recvq[i][mod])
           a == NewMessage(Says[mod], m.nonce)
           e == EntryFor(a, m)
           x == DupActive(e)
<1>1. /\ Role[mod] = "reply" /\ recvq[i][mod] # <<>>
      /\ sendq' = QueueSet(sendq, i, mod, Put(sendq[i][mod], e))
      /\ recvq' = QueueSet(recvq, i, mod, Rest(recvq[i][mod]))
      /\ UNCHANGED <<pc, dead, waiting, traces, net, nonces, origin, answered>>
  BY DEF Reply, QueueSet, history
<1>2. mod # Conn
  BY <1>1, ModsAssumption DEF Conn
<1>3. IsMsg(m) /\ WaitingHome(kn, level, i, m)
  BY <1>1, <1>2, HandedHome
<1>4. IsMsg(a)
  BY NewMessageOK
<1> HIDE DEF m, a
<1>5. x = [a EXCEPT !.flow = m.flow, !.state = m.state, !.local = m.local,
                    !.route = m.route, !.ljump = m.ljump, !.rjump = m.rjump,
                    !.nonce = m.nonce, !.policy = m.policy, !.site = m.site,
                    !.trail = m.trail]
  <2>1. e.act # <<>> /\ e.act[1] = m /\ e.msg = a
    BY DEF EntryFor
  <2> HIDE DEF e
  <2> QED BY <2>1 DEF DupActive
<1> HIDE DEF e, x
<1>6. /\ DOMAIN x = MsgFields /\ x.flow = m.flow /\ x.state = m.state /\ x.nonce = m.nonce
      /\ x.rjump = m.rjump /\ x.policy = m.policy /\ x.site = m.site /\ x.local = m.local
      /\ x.trail = m.trail /\ x.route = m.route
  BY <1>4, <1>5 DEF IsMsg, MsgFields
<1>7. IsMsg(x)
  BY <1>3, <1>6 DEF IsMsg
<1>8. WaitingHome(kn, level, i, x)
  BY <1>3, <1>6, <1>7, WaitingSame DEF SamePlace
<1>9. PortsAsk => ModType[mod] # "PORT"
  BY <1>1 DEF PortsAsk
<1>10. EntryHome(kn, level, i, mod, e)
  BY <1>2, <1>8, <1>9 DEF EntryHome, x
<1> QED BY <1>1, <1>10, PassedOnHome

-----------------------------------------------------------------------------
(* The steps of the connector. *)

(* What is sent to a peer arrives there: a response at the instance before *)
(* this one on its trail, which is joined to it.                           *)
LEMMA CrossesHome ==
    ASSUME NEW kn, NEW level, Tiered(level), NEW i \in Inst, NEW m,
           SentHome(kn, level, i, m), ~m.local, <<i, Peer(i, m.receiver)>> \in Joined
    PROVE  FlightHome(kn, level, i, Peer(i, m.receiver),
                      [m EXCEPT !.policy = 0, !.site = NoSite])
<1> DEFINE j == Peer(i, m.receiver)
           x == [m EXCEPT !.policy = 0, !.site = NoSite]
<1>1. /\ DOMAIN m = MsgFields /\ m.local \in BOOLEAN /\ m.rjump \in Int
      /\ OnWay(kn, level, i, m, m.rjump)
      /\ m.state = "RESPONSE" =>
            m.rjump > 1 /\ Len(m.trail) > 1 /\ m.receiver = m.trail[Len(m.trail) - 1]
      /\ m.flow = "QUERY" /\ m.state # "RESPONSE" => Ahead(level, i, m.receiver)
  BY DEF SentHome, Routed, OnWay, IsMsg
<1>2. /\ DOMAIN x = MsgFields /\ x.local = m.local /\ x.rjump = m.rjump /\ x.policy = 0
      /\ x.site = NoSite /\ x.flow = m.flow /\ x.state = m.state /\ x.nonce = m.nonce
      /\ x.trail = m.trail /\ x.route = m.route
  BY <1>1 DEF MsgFields
<1>3. j = IF <<i, m.receiver>> \in Joined THEN m.receiver ELSE Default[i]
  BY DEF Peer
<1> HIDE DEF j, x
<1>4. <<i, j>> \in Joined
  BY DEF j
<1>5. IsMsg(x)
  BY <1>1, <1>2 DEF IsMsg, NoSite
<1>6. OnWay(kn, level, i, x, x.rjump)
  BY <1>1, <1>2, <1>5 DEF OnWay
<1>7. ASSUME m.state = "RESPONSE" PROVE m.trail[Len(m.trail) - 1] = j
  <2>1. /\ Climbs(level, m.trail) /\ m.trail \in Seq(Inst) /\ Last(m.trail) = i
        /\ Len(m.trail) > 1 /\ m.receiver = m.trail[Len(m.trail) - 1]
    BY <1>1, <1>7 DEF OnWay
  <2> DEFINE t == m.trail
             k == Len(t) - 1
  <2>2. k \in 1 .. Len(t) - 1 /\ t[k + 1] = i
    BY <2>1 DEF Last
  <2>3. <<t[k], t[k + 1]>> \in Joined
    BY <2>1, <2>2 DEF Climbs
  <2>4. <<i, m.receiver>> \in Joined
    BY <2>1, <2>2, <2>3, JoinedBothWays
  <2> QED BY <1>3, <2>1, <2>4
<1>8. ASSUME m.flow = "QUERY", m.state # "RESPONSE" PROVE level[j] = level[i] + 1
  BY <1>1, <1>3, <1>4, <1>8 DEF Ahead, Tiered
<1>9. FlightHome(kn, level, i, j, x)
  BY <1>1, <1>2, <1>6, <1>7, <1>8 DEF FlightHome
<1> QED BY <1>9 DEF j, x

(* The send loop of the connector thread. *)
LEMMA ConnSendHome ==
    ASSUME NEW level, Homely(level), Counts, NEW kn, Bound(kn, level), NEW i \in Inst,
           ConnSend(i)
    PROVE  HomeInv(level)'
<1> DEFINE m == Got(recvq[i][Conn])
           j == Peer(i, m.receiver)
           x == [m EXCEPT !.policy = 0, !.site = NoSite]
           s == Append(net[<<i, j>>], x)
<1>1. /\ recvq[i][Conn] # <<>> /\ recvq' = QueueSet(recvq, i, Conn, Rest(recvq[i][Conn]))
      /\ net' = IF m.local \/ j = Empty THEN net ELSE ListSet(net, <<i, j>>, s)
      /\ sendq' = sendq /\ pc' = pc /\ waiting' = waiting /\ traces' = traces
      /\ dead' = dead /\ nonces' = nonces /\ origin' = origin /\ answered' = answered
  BY DEF ConnSend, QueueSet, ListSet, history
<1>2. Conn \in ModSet(i)
  BY ModsAssumption
<1>3. QueuesShape(recvq') /\ RecvqHome(recvq', kn, level)
  BY <1>1, <1>2, QueueRest, RecvqSetHome DEF Bound, Queues
<1>4. SentHome(kn, level, i, m)
  <2>1. m \in ToSet(recvq[i][Conn])
    BY <1>1, <1>2, QueueRest DEF Bound, Queues
  <2> HIDE DEF m
  <2> QED BY <1>2, <2>1 DEF Bound, Queues, RecvqHome, RecvHome
<1>5. <<i, j>> \in Joined /\ ~m.local => FlightHome(kn, level, i, j, x)
  BY <1>4, CrossesHome DEF Homely
<1> HIDE DEF m, j, x
<1>6. NetShape(net) /\ NetHome(net, kn, level)
  BY DEF Bound, Lists
<1>7. NetShape(net') /\ NetHome(net', kn, level)
  <2>1. CASE m.local \/ j = Empty
    BY <1>1, <1>6, <2>1
  <2>2. CASE ~(m.local \/ j = Empty) /\ <<i, j>> \in Joined
    <3>1. IsSeq(net[<<i, j>>])
      BY <1>6, <2>2 DEF NetShape
    <3>2. IsSeq(s) /\ ToSet(s) = ToSet(net[<<i, j>>]) \cup {x}
      BY <3>1, AppendSeq
    <3> HIDE DEF s
    <3>3. \A y \in ToSet(s) : \/ y \in ToSet(net[<<i, j>>])
                              \/ FlightHome(kn, level, <<i, j>>[1], <<i, j>>[2], y)
      BY <1>5, <2>2, <3>2
    <3> QED BY <1>1, <1>6, <2>2, <3>2, <3>3, NetSetHome
  <2>3. CASE ~(m.local \/ j = Empty) /\ <<i, j>> \notin Joined
    <3> HIDE DEF s
    <3>1. /\ DOMAIN net' = Joined
          /\ \A l \in Joined : net'[l] = net[l]
      BY <1>1, <1>6, <2>3 DEF NetShape, ListSet
    <3> QED BY <1>6, <3>1 DEF NetShape, NetHome
  <2> QED BY <2>1, <2>2, <2>3
<1>8. Bound(kn, level)'
  BY <1>1, <1>3, <1>7 DEF Bound, Queues, Lists
<1>9. Counts'
  BY <1>1, CountsStay
<1> QED BY <1>8, <1>9 DEF HomeInv

(* The first message in flight leaves its connection. *)
LEMMA NetTailHome ==
    ASSUME NEW level, NEW kn, Bound(kn, level), NEW l \in Joined, net[l] # <<>>
    PROVE  /\ Head(net[l]) \in ToSet(net[l])
           /\ NetShape(ListSet(net, l, Tail(net[l])))
           /\ NetHome(ListSet(net, l, Tail(net[l])), kn, level)
<1>1. NetShape(net) /\ NetHome(net, kn, level)
  BY DEF Bound, Lists
<1>2. /\ Head(net[l]) \in ToSet(net[l]) /\ IsSeq(Tail(net[l]))
      /\ ToSet(Tail(net[l])) \subseteq ToSet(net[l])
  BY <1>1, TailSeq DEF NetShape
<1> QED BY <1>1, <1>2, NetSetHome

(* A lost message only makes less to be sound. *)
LEMMA LoseHome ==
    ASSUME NEW level, Counts, NEW kn, Bound(kn, level), NEW j, NEW i, Lose(j, i)
    PROVE  HomeInv(level)'
<1>1. /\ <<j, i>> \in Joined /\ net[<<j, i>>] # <<>>
      /\ net' = ListSet(net, <<j, i>>, Tail(net[<<j, i>>]))
      /\ sendq' = sendq /\ recvq' = recvq /\ pc' = pc /\ waiting' = waiting
      /\ traces' = traces /\ dead' = dead /\ nonces' = nonces /\ origin' = origin
      /\ answered' = answered
  BY DEF Lose, ListSet, queues, history
<1>2. NetShape(net') /\ NetHome(net', kn, level)
  BY <1>1, NetTailHome
<1>3. Bound(kn, level)'
  BY <1>1, <1>2 DEF Bound, Queues, Lists
<1>4. Counts'
  BY <1>1, CountsStay
<1> QED BY <1>3, <1>4 DEF HomeInv

(* A message received has come one instance further, a response one back. *)
LEMMA ArrivesHome ==
    ASSUME NEW kn, NEW level, level \in [Inst -> Int], NEW j \in Inst, NEW i \in Inst,
           <<j, i>> \in Joined, NEW m, FlightHome(kn, level, j, i, m)
    PROVE  CameHome(kn, level, i,
                    [m EXCEPT !.sender = j, !.receiver = Empty,
                              !.trail = IF m.state = "RESPONSE" THEN Front(@) ELSE Append(@, i)])
<1> DEFINE r == [m EXCEPT !.sender = j, !.receiver = Empty,
                          !.trail = IF m.state = "RESPONSE" THEN Front(@) ELSE Append(@, i)]
           t == m.trail
           n == Len(m.trail)
           h == m.rjump
<1>1. /\ m.policy = 0 /\ IsMsg(m) /\ DOMAIN m = MsgFields /\ t \in Seq(Inst) /\ t # <<>> /\ Last(t) = j
      /\ h \in 1 .. n /\ n \in Nat /\ (PortsAsk => h = n)
      /\ m.flow = "QUERY" => Climbs(level, t) /\ t[1] = kn[m.nonce].who.inst
      /\ m.state = "RESPONSE" => m.flow = "QUERY" /\ h > 1 /\ n > 1 /\ t[n - 1] = i
  BY DEF FlightHome, OnWay, IsMsg
<1>2. /\ DOMAIN r = MsgFields /\ r.sender = j /\ r.local = m.local /\ r.rjump = m.rjump
      /\ r.policy = m.policy /\ r.site = m.site /\ r.flow = m.flow /\ r.state = m.state
      /\ r.nonce = m.nonce /\ r.route = m.route
      /\ r.trail = IF m.state = "RESPONSE" THEN Front(t) ELSE Append(t, i)
  BY <1>1 DEF MsgFields
<1> HIDE DEF r, t, n, h
<1>3. IsMsg(r)
  BY <1>1, <1>2 DEF IsMsg
<1>4. ASSUME m.state = "RESPONSE" PROVE CameHome(kn, level, i, r)
  <2>1. /\ r.trail \in Seq(Inst) /\ r.trail # <<>> /\ Last(r.trail) = i
        /\ Len(r.trail) = n - 1 /\ r.trail[1] = t[1] /\ Climbs(level, r.trail)
    <3> DEFINE f == Front(t)
    <3>1. n = Len(t) /\ Climbs(level, t) /\ t \in Seq(Inst) /\ Len(t) > 1 /\ t[n - 1] = i
      BY <1>1, <1>4 DEF t, n
    <3>2. /\ f \in Seq(Inst) /\ f # <<>> /\ Last(f) = t[Len(t) - 1] /\ Len(f) = Len(t) - 1
          /\ f[1] = t[1] /\ Climbs(level, f)
      BY <3>1, TrailDown
    <3>3. r.trail = f
      BY <1>2, <1>4
    <3> HIDE DEF f
    <3> QED BY <3>1, <3>2, <3>3
  <2>2. h - 1 \in 1 .. n - 1 /\ (PortsAsk => h - 1 = n - 1)
    BY <1>1, <1>4
  <2>3. OnWay(kn, level, i, r, h - 1)
    BY <1>1, <1>2, <1>3, <1>4, <2>1, <2>2 DEF FlightHome, OnWay
  <2>4. OnWay(kn, level, i, r, IF r.state = "RESPONSE" THEN r.rjump - 1 ELSE r.rjump + 1)
    BY <1>2, <1>4, <2>3 DEF h
  <2> QED BY <1>1, <1>2, <1>4, <2>4 DEF CameHome
<1>5. ASSUME m.state # "RESPONSE" PROVE CameHome(kn, level, i, r)
  <2>1. /\ r.trail \in Seq(Inst) /\ r.trail # <<>> /\ Last(r.trail) = i
        /\ Len(r.trail) = n + 1 /\ r.trail[n] = j /\ r.trail[1] = t[1]
    <3> DEFINE f == Append(t, i)
    <3>1. t \in Seq(Inst) /\ t # <<>> /\ Last(t) = j /\ n = Len(t)
      BY <1>1 DEF t, n
    <3>2. /\ f \in Seq(Inst) /\ f # <<>> /\ Last(f) = i
          /\ Len(f) = Len(t) + 1 /\ f[Len(t)] = Last(t) /\ f[1] = t[1]
      BY <3>1, TrailUp
    <3>3. r.trail = f
      BY <1>2, <1>5
    <3> HIDE DEF f
    <3> QED BY <3>1, <3>2, <3>3
  <2>2. m.flow = "QUERY" => Climbs(level, r.trail)
    <3> SUFFICES ASSUME m.flow = "QUERY" PROVE Climbs(level, r.trail)
      OBVIOUS
    <3>1. t \in Seq(Inst) /\ t # <<>> /\ Climbs(level, t) /\ <<Last(t), i>> \in Joined
      BY <1>1
    <3>2. level[i] = level[Last(t)] + 1
      BY <1>1, <1>5 DEF FlightHome
    <3>3. Climbs(level, Append(t, i))
      BY <3>1, <3>2, ClimbsUp
    <3> QED BY <1>2, <1>5, <3>3
  <2>3. h + 1 \in 1 .. n + 1 /\ (PortsAsk => h + 1 = n + 1) /\ h >= 1
    BY <1>1
  <2>4. OnWay(kn, level, i, r, h + 1)
    BY <1>1, <1>2, <1>3, <2>1, <2>2, <2>3 DEF FlightHome, OnWay
  <2>5. Len(r.trail) > 1 /\ r.trail[Len(r.trail) - 1] = j
    <3>1. (n + 1) - 1 = n /\ n + 1 > 1
      BY <1>1
    <3> QED BY <2>1, <3>1
  <2>6. OnWay(kn, level, i, r, IF r.state = "RESPONSE" THEN r.rjump - 1 ELSE r.rjump + 1)
    BY <1>2, <1>5, <2>4 DEF h
  <2>7. r.rjump >= 1
    BY <1>2, <2>3 DEF h
  <2> QED BY <1>1, <1>2, <1>5, <2>5, <2>6, <2>7 DEF CameHome
<1> QED BY <1>4, <1>5 DEF r

(* The receive loop of the connector thread. *)
LEMMA ConnRecvHome ==
    ASSUME NEW level, Homely(level), Counts, NEW kn, Bound(kn, level), NEW j, NEW i,
           ConnRecv(j, i)
    PROVE  HomeInv(level)'
<1> DEFINE m == Head(net[<<j, i>>])
           r == [m EXCEPT !.sender = j, !.receiver = Empty,
                          !.trail = IF m.state = "RESPONSE" THEN Front(@) ELSE Append(@, i)]
           e == Entry(r)
           q == Put(sendq[i][Conn], e)
<1>1. /\ <<j, i>> \in Joined /\ net[<<j, i>>] # <<>>
      /\ net' = ListSet(net, <<j, i>>, Tail(net[<<j, i>>]))
      /\ sendq' = QueueSet(sendq, i, Conn, q)
      /\ recvq' = recvq /\ pc' = pc /\ waiting' = waiting
      /\ traces' = traces /\ dead' = dead /\ nonces' = nonces /\ origin' = origin
      /\ answered' = answered
  BY DEF ConnRecv, ListSet, QueueSet, history
<1>2. /\ m \in ToSet(net[<<j, i>>])
      /\ NetShape(net') /\ NetHome(net', kn, level)
  BY <1>1, NetTailHome
<1>3. i \in Inst /\ j \in Inst
  BY <1>1, JoinedBothWays
<1>4. Conn \in ModSet(i)
  BY <1>3, ModsAssumption
<1>5. FlightHome(kn, level, j, i, m)
  <2>1. \A y \in ToSet(net[<<j, i>>]) :
            FlightHome(kn, level, <<j, i>>[1], <<j, i>>[2], y)
    BY <1>1 DEF Bound, Lists, NetHome
  <2> HIDE DEF m
  <2> QED BY <1>2, <2>1
<1>6. DupActive(e) = r
  BY DEF DupActive, Entry
<1> HIDE DEF m, e
<1>7. CameHome(kn, level, i, r)
  BY <1>1, <1>3, <1>5, ArrivesHome DEF Homely, Tiered
<1> HIDE DEF r
<1>8. EntryHome(kn, level, i, Conn, e)
  BY <1>6, <1>7 DEF EntryHome
<1>9. QueuesShape(sendq) /\ SendqHome(sendq, kn, level)
  BY DEF Bound, Queues
<1>10. IsSeq(q) /\ ToSet(q) = ToSet(sendq[i][Conn]) \cup {e}
  <2>1. IsSeq(sendq[i][Conn])
    BY <1>3, <1>4, <1>9 DEF QueuesShape
  <2> QED BY <2>1, AppendSeq DEF Put
<1> HIDE DEF q
<1>11. QueuesShape(sendq') /\ SendqHome(sendq', kn, level)
  <2>1. \A y \in ToSet(q) : y \in ToSet(sendq[i][Conn]) \/ EntryHome(kn, level, i, Conn, y)
    BY <1>8, <1>10
  <2> QED BY <1>1, <1>3, <1>4, <1>9, <1>10, <2>1, SendqSetHome
<1>12. Bound(kn, level)'
  BY <1>1, <1>2, <1>11 DEF Bound, Queues, Lists
<1>13. Counts'
  BY <1>1, CountsStay
<1> QED BY <1>12, <1>13 DEF HomeInv

-----------------------------------------------------------------------------
(* A restart takes things away, and leaves what is said of the others. *)
LEMMA RestartHome ==
    ASSUME NEW level, Counts, NEW kn, Bound(kn, level), NEW i \in Inst, Restart(i)
    PROVE  HomeInv(level)'
<1> DEFINE none == [m \in ModSet(i) |-> <<>>]
<1>1. /\ sendq' = [sendq EXCEPT ![i] = none] /\ recvq' = [recvq EXCEPT ![i] = none]
      /\ pc' = [pc EXCEPT ![i] = 1] /\ dead' = [dead EXCEPT ![i] = FALSE]
      /\ waiting' = ListSet(waiting, i, <<>>) /\ traces' = ListSet(traces, i, <<>>)
      /\ net' = [l \in Joined |-> IF i \in {l[1], l[2]} THEN <<>> ELSE net[l]]
      /\ nonces' = nonces /\ origin' = origin /\ answered' = answered
  BY DEF Restart, ListSet, history
<1>2. /\ QueuesShape(sendq) /\ SendqHome(sendq, kn, level)
      /\ QueuesShape(recvq) /\ RecvqHome(recvq, kn, level)
      /\ ListsShape(waiting) /\ ListsHome(waiting, kn, level)
      /\ ListsShape(traces) /\ TracesHome(traces, kn, level)
      /\ NetShape(net) /\ NetHome(net, kn, level)
  BY DEF Bound, Queues, Lists
<1>3. IsSeq(<<>>) /\ ToSet(<<>>) = {}
  BY NilSeq
<1>4. ASSUME NEW q, QueuesShape(q)
      PROVE  /\ QueuesShape([q EXCEPT ![i] = none])
             /\ \A j \in Inst : \A mod \in ModSet(j) :
                   ToSet([q EXCEPT ![i] = none][j][mod]) \subseteq ToSet(q[j][mod])
  <2>1. /\ DOMAIN none = ModSet(i)
        /\ \A mod \in ModSet(i) : none[mod] = <<>>
    OBVIOUS
  <2> HIDE DEF none
  <2>2. \A j \in Inst : [q EXCEPT ![i] = none][j] = IF j = i THEN none ELSE q[j]
    BY <1>4 DEF QueuesShape
  <2>3. DOMAIN [q EXCEPT ![i] = none] = DOMAIN q
    OBVIOUS
  <2> QED BY <1>3, <1>4, <2>1, <2>2, <2>3 DEF QueuesShape
<1> HIDE DEF none
<1>5. QueuesShape(sendq') /\ SendqHome(sendq', kn, level)
  BY <1>1, <1>2, <1>4 DEF SendqHome
<1>6. QueuesShape(recvq') /\ RecvqHome(recvq', kn, level)
  BY <1>1, <1>2, <1>4 DEF RecvqHome
<1>7. ListsShape(waiting') /\ ListsHome(waiting', kn, level)
  BY <1>1, <1>2, <1>3, ListSetHome
<1>8. ListsShape(traces') /\ TracesHome(traces', kn, level)
  BY <1>1, <1>2, <1>3, ListSetHome
<1>9. NetShape(net') /\ NetHome(net', kn, level)
  BY <1>1, <1>2, <1>3 DEF NetShape, NetHome
<1>10. Bound(kn, level)'
  BY <1>1, <1>5, <1>6, <1>7, <1>8, <1>9 DEF Bound, Queues, Lists
<1>11. Counts'
  BY <1>1, PcTurns DEF Counts
<1> QED BY <1>10, <1>11 DEF HomeInv

(* At the start nothing is under way. *)
LEMMA InitHome ==
    ASSUME NEW level
    PROVE  Init => HomeInv(level)
<1> SUFFICES ASSUME Init PROVE HomeInv(level)
  OBVIOUS
<1>1. /\ sendq = [i \in Inst |-> [m \in ModSet(i) |-> <<>>]]
      /\ recvq = [i \in Inst |-> [m \in ModSet(i) |-> <<>>]]
      /\ pc = [i \in Inst |-> 1] /\ dead = [i \in Inst |-> FALSE]
      /\ waiting = [i \in Inst |-> <<>>] /\ traces = [i \in Inst |-> <<>>]
      /\ net = [l \in Joined |-> <<>>]
      /\ nonces = 0 /\ origin = <<>> /\ answered = {}
  BY DEF Init
<1>2. IsSeq(<<>>) /\ ToSet(<<>>) = {} /\ Len(<<>>) = 0 /\ DOMAIN <<>> = {}
  BY NilSeq
<1> DEFINE kn == <<>>
<1>3. Fits(kn, origin)
  BY <1>1, <1>2 DEF Fits
<1>4. /\ QueuesShape(sendq) /\ SendqHome(sendq, kn, level)
      /\ QueuesShape(recvq) /\ RecvqHome(recvq, kn, level)
  BY <1>1, <1>2 DEF QueuesShape, SendqHome, RecvqHome
<1>5. /\ ListsShape(waiting) /\ ListsHome(waiting, kn, level)
      /\ ListsShape(traces) /\ TracesHome(traces, kn, level)
  BY <1>1, <1>2 DEF ListsShape, ListsHome, TracesHome
<1>6. NetShape(net) /\ NetHome(net, kn, level)
  BY <1>1, <1>2 DEF NetShape, NetHome
<1>7. Counts
  <2>1. \A i \in Inst : Len(Mods[i]) \in Nat
    BY ModsAssumption
  <2> QED BY <1>1, <1>2, <2>1 DEF Counts
<1> HIDE DEF kn
<1>8. Bound(kn, level)
  BY <1>3, <1>4, <1>5, <1>6 DEF Bound, Queues, Lists
<1> QED BY <1>7, <1>8 DEF HomeInv

(* Every step keeps the invariant, a restart and a loss among them. *)
LEMMA NextKeepsHome ==
    ASSUME NEW level, Homely(level)
    PROVE  HomeInv(level) /\ [Next]_vars => HomeInv(level)'
<1> SUFFICES ASSUME HomeInv(level), [Next]_vars PROVE HomeInv(level)'
  OBVIOUS
<1>1. Counts
  BY DEF HomeInv
<1>2. PICK kn : Bound(kn, level)
  BY DEF HomeInv
<1>3. CASE UNCHANGED vars
  <2>1. /\ sendq' = sendq /\ recvq' = recvq /\ pc' = pc /\ waiting' = waiting
        /\ traces' = traces /\ dead' = dead /\ net' = net /\ nonces' = nonces
        /\ origin' = origin /\ answered' = answered
    BY <1>3 DEF vars, queues, history
  <2>2. Bound(kn, level)'
    BY <1>2, <2>1 DEF Bound, Queues, Lists
  <2>3. Counts'
    BY <1>1, <2>1, CountsStay
  <2> QED BY <2>2, <2>3 DEF HomeInv
<1>4. ASSUME NEW i \in Inst, Router(i) PROVE HomeInv(level)'
  <2>1. CASE RouterSkip(i) \/ RouterRound(i)
    BY <1>1, <1>2, <2>1, PollsHome
  <2>2. CASE RouterContinue(i)
    BY <1>1, <1>2, <2>2, ContinueHome
  <2>3. CASE RouterStart(i)
    BY <1>1, <1>2, <2>3, StartsHome
  <2>4. CASE RouterRemoteStart(i)
    BY <1>1, <1>2, <2>4, RemoteStartsHome
  <2>5. CASE RouterNoPolicy(i)
    BY <1>1, <1>2, <2>5, NoPolicyHome
  <2>6. CASE RouterResume(i)
    BY <1>1, <1>2, <2>6, ResumesHome
  <2>7. CASE RouterDie(i)
    BY <1>1, <1>2, <2>7, DiesHome
  <2>8. CASE RouterFinish(i)
    BY <1>1, <1>2, <2>8, FinishHome
  <2>9. CASE RouterSend(i)
    BY <1>1, <1>2, <2>9, SendsHome
  <2>10. CASE RouterDivert(i)
    BY <1>1, <1>2, <2>10, DivertsHome
  <2> QED BY <1>4, <2>1, <2>2, <2>3, <2>4, <2>5, <2>6, <2>7, <2>8, <2>9, <2>10 DEF Router
<1>5. ASSUME NEW i \in Inst, ConnSend(i) \/ Restart(i) PROVE HomeInv(level)'
  BY <1>1, <1>2, <1>5, ConnSendHome, RestartHome
<1>6. ASSUME NEW i \in Inst, NEW mod \in ModSet(i), Ask(i, mod) \/ Module(i, mod)
      PROVE  HomeInv(level)'
  BY <1>1, <1>2, <1>6, AskHome, ConsumeHome, ForwardHome, ReplyHome DEF Module
<1>7. ASSUME NEW j, NEW i, ConnRecv(j, i) \/ Lose(j, i) PROVE HomeInv(level)'
  BY <1>1, <1>2, <1>7, ConnRecvHome, LoseHome
<1> QED BY <1>3, <1>4, <1>5, <1>6, <1>7 DEF Next

-----------------------------------------------------------------------------
(* What follows of the messages on their way. *)

(* A message the router has on its way is of its router, whether it waits  *)
(* or is on a receive queue.                                               *)
LEMMA OnPathRouted ==
    ASSUME NEW level, NEW kn, Bound(kn, level), NEW i \in Inst, NEW m \in OnPath(i)
    PROVE  Routed(kn, level, i, m) /\ m.site.leg # "none"
<1>1. CASE m \in ToSet(waiting[i])
  BY <1>1 DEF Bound, Lists, ListsHome, WaitingHome
<1>2. ASSUME NEW mod \in ModSet(i), m \in ToSet(recvq[i][mod])
      PROVE  Routed(kn, level, i, m) /\ m.site.leg # "none"
  BY <1>2 DEF Bound, Queues, RecvqHome, RecvHome, SentHome
<1> QED BY <1>1, <1>2 DEF OnPath

(* Answers go back the way their queries came, and to those who asked. *)
LEMMA HomeAnswers ==
    ASSUME NEW level
    PROVE  HomeInv(level) => AnswersComeHome
<1> SUFFICES ASSUME HomeInv(level) PROVE AnswersComeHome
  OBVIOUS
<1>1. PICK kn : Bound(kn, level)
  BY DEF HomeInv
<1>2. ResponseRetracesQuery
  BY <1>1 DEF Bound, Lists, NetHome, FlightHome, ResponseRetracesQuery
<1>3. ASSUME NEW i \in Inst, NEW mod \in ModSet(i), NEW m \in ToSet(recvq[i][mod]),
             Role[mod] = "client", m.state = "RESPONSE"
      PROVE  origin[m.nonce] = [inst |-> i, mod |-> mod]
  <2>1. RecvHome(kn, level, i, mod, m)
    BY <1>1 DEF Bound, Queues, RecvqHome
  <2>2. mod # Conn
    BY <1>3, ModsAssumption DEF Conn
  <2>3. m.local /\ m.receiver = mod /\ kn[m.nonce].who = [inst |-> i, mod |-> m.receiver]
    BY <1>3, <2>1, <2>2 DEF RecvHome, SentHome
  <2>4. m.nonce \in DOMAIN kn
    BY <2>1 DEF RecvHome, SentHome, Routed, OnWay
  <2> QED BY <1>1, <2>3, <2>4 DEF Bound, Fits
<1> QED BY <1>2, <1>3 DEF AnswersComeHome, AnswerReachesAsker

(* The heads agree with the paths. *)
LEMMA HomeHeads ==
    ASSUME NEW level, Tiered(level), NamesAgree, PortsAsk
    PROVE  HomeInv(level) => HeadsAgree
<1> SUFFICES ASSUME HomeInv(level) PROVE HeadsAgree
  OBVIOUS
<1>1. PICK kn : Bound(kn, level)
  BY DEF HomeInv
<1>2. Counts
  BY DEF HomeInv
<1>3. ASSUME NEW i \in Inst, NEW m \in OnPath(i)
      PROVE  /\ m.policy \in DOMAIN Table[i].paths
             /\ m.nonce \in 1 .. nonces
             /\ m.site.leg \in {"main", "resp"}
             /\ m.site.at \in 0 .. Len(Leg(Path(i, m), m.site.leg))
             /\ m.rjump = Len(m.trail) /\ Last(m.trail) = i
             /\ m.route = Path(i, m).name /\ m.flow = Path(i, m).flow
             /\ Len(m.trail) = 1 /\ Path(i, m).sender # Empty
                   => origin[m.nonce] = [inst |-> i, mod |-> Path(i, m).sender]
  <2>1. Routed(kn, level, i, m) /\ m.site.leg # "none"
    BY <1>1, OnPathRouted
  <2>2. /\ OnWay(kn, level, i, m, m.rjump) /\ SiteOK(i, m)
        /\ m.route = Path(i, m).name
        /\ Len(m.trail) = 1 => Asked(kn, i, m.nonce, m.policy)
    BY <2>1 DEF Routed
  <2>3. m.nonce \in 1 .. nonces /\ kn[m.nonce].who = origin[m.nonce]
    <3>1. m.nonce \in DOMAIN kn /\ Fits(kn, origin)
      BY <1>1, <2>2 DEF OnWay, Bound
    <3> QED BY <1>2, <3>1, IsSeqFacts DEF Fits, Counts
  <2>4. m.rjump = Len(m.trail) /\ Last(m.trail) = i /\ FlowOfName(m.route, m.flow)
    BY <2>2 DEF OnWay
  <2>5. /\ m.policy \in DOMAIN Table[i].paths /\ m.site.leg \in {"main", "resp"}
        /\ m.site.at \in 0 .. Len(Leg(Path(i, m), m.site.leg))
    BY <2>1, <2>2 DEF SiteOK, Path
  <2>6. Path(i, m) \in ToSet(Table[i].paths)
    BY <2>5, TableFacts DEF Path
  <2>7. m.flow = Path(i, m).flow
    BY <2>2, <2>4, <2>6 DEF FlowOfName
  <2>8. Len(m.trail) = 1 /\ Path(i, m).sender # Empty
            => origin[m.nonce] = [inst |-> i, mod |-> Path(i, m).sender]
    BY <2>2, <2>3 DEF Asked, Path
  <2> QED BY <2>2, <2>3, <2>4, <2>5, <2>7, <2>8
<1>4. DOMAIN net = Joined
  BY <1>1 DEF Bound, Lists, NetShape
<1>5. TypeOK
  BY <1>2, <1>3, <1>4 DEF TypeOK, Counts
<1>6. RjumpIsDepth
  BY <1>3 DEF RjumpIsDepth
<1>7. HeadAgreesWithPath
  BY <1>3 DEF HeadAgreesWithPath
<1> QED BY <1>5, <1>6, <1>7 DEF HeadsAgree

(* An answer goes back the way its query came and reaches the client that  *)
(* asked (message_route_gettracesrc, message_route_gettracetarget), in     *)
(* every tiered network with one way up, whatever restarts and losses      *)
(* there were, if the response paths of the policy files name only the     *)
(* clients whose questions they are for.                                   *)
THEOREM AnswersComeHomeCorrect ==
    ASSUME NEW level, Homely(level)
    PROVE  Spec => []AnswersComeHome
<1>1. Init => HomeInv(level)
  BY InitHome
<1>2. HomeInv(level) /\ [Next]_vars => HomeInv(level)'
  BY NextKeepsHome
<1>3. HomeInv(level) => AnswersComeHome
  BY HomeAnswers
<1> QED BY <1>1, <1>2, <1>3, PTL DEF Spec

(* The head of every message on its way is of the path it is on, after     *)
(* aspects, clones, replies and hops (router_dup_activemsg_info,           *)
(* router_recover_aspect_message): policy and path_site are of the table,  *)
(* rjump counts the hops, name and flow are the policy's.                  *)
THEOREM HeadsAgreeCorrect ==
    ASSUME NEW level, Homely(level), NamesAgree, PortsAsk
    PROVE  Spec => []HeadsAgree
<1>1. Init => HomeInv(level)
  BY InitHome
<1>2. HomeInv(level) /\ [Next]_vars => HomeInv(level)'
  BY NextKeepsHome
<1>3. HomeInv(level) => HeadsAgree
  BY HomeHeads DEF Homely
<1> QED BY <1>1, <1>2, <1>3, PTL DEF Spec
=============================================================================
