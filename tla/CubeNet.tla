------------------------------- MODULE CubeNet -------------------------------
(***************************************************************************)
(* A network of cube instances.  Each instance is one process with a       *)
(* router thread (proc_router_start), a connector thread (proc_conn_start) *)
(* and one thread per application module; they share the send and receive  *)
(* queue of every module, and the instances exchange messages over TCP     *)
(* connections.                                                            *)
(*                                                                         *)
(* A message travels along its policy's path: the router takes it from the *)
(* send queue of a module, finds or resumes its path, moves it to the next *)
(* node and puts it on the receive queue of that node's module, or of the  *)
(* connector.  At the end of its path a query turns into a response, which *)
(* goes back instance by instance along the trace nodes it left behind.    *)
(***************************************************************************)
EXTENDS RouteTree, Bags

CONSTANTS
    Inst,           \* the instances
    Mods,           \* [Inst -> Seq(names)]: the module list, in list order
    Role,           \* [names -> "client", "forward", "reply", "sink", "conn"]
    ModType,        \* [names -> MOD_TYPE "CONN", "PORT", "NORMAL"]
    Says,           \* [names -> message type]: the type a module creates
    Policies,       \* [Inst -> Seq(raw policies)]: the policy files
    Links,          \* the pairs of instances a connection joins
    Default,        \* [Inst -> Inst, or Empty]: default_conn
    MaxAsks,        \* bound: messages the clients create
    MaxRestarts,    \* bound: restarts of an instance
    MaxLoss         \* bound: messages lost by a connection

Conn == "conn"      \* connector_proc

ModSet(i) == {Mods[i][k] : k \in DOMAIN Mods[i]}

(* main creates one module of type CONN, connector_proc. *)
ASSUME ModsAssumption ==
    \A i \in Inst :
        /\ Mods[i] \in Seq(ModSet(i)) /\ Conn \in ModSet(i)
        /\ \A m \in ModSet(i) : /\ Role[m] = Conn <=> m = Conn
                                /\ ModType[m] = "CONN" <=> m = Conn
ASSUME PoliciesAssumption ==
    \A i \in Inst :
        /\ Policies[i] \in Seq(ToSet(Policies[i]))
        /\ \A k \in DOMAIN Policies[i] :
              LET raw   == Policies[i][k]
                  rules == ToSet(raw.main) \cup ToSet(raw.response)
              IN  /\ raw.type \in {"DELIVER", "QUERY", "DUP", "ASPECT"}
                  /\ raw.main \in Seq(rules) /\ raw.response \in Seq(rules)
                  /\ \A r \in rules : r.kind \in {"LOCAL", "PORT", "NAME", "CONN"}
(* A branch names a node of its base: route_read_policy returns an error   *)
(* code as a pointer for one that does not, and the process does not start. *)
ASSUME BranchesAssumption ==
    \A i \in Inst : \A b, k \in DOMAIN Policies[i] :
        LET base == NewPath(Policies[i][b])
            raw  == Policies[i][k]
        IN  IsBranch(raw) /\ base.name = raw.name
                => raw.ljump \in DOMAIN Leg(base, IF raw.rjump >= 0 THEN "main" ELSE "resp")
(* The empty uuid names no instance. *)
ASSUME LinksAssumption ==
    Empty \notin Inst /\ Links \subseteq Inst \X Inst /\ \A l \in Links : l[1] # l[2]
ASSUME BoundsAssumption == MaxAsks \in Nat /\ MaxRestarts \in Nat /\ MaxLoss \in Nat

(* The tables of all instances, read once at start (proc_router_init). *)
Table == [i \in Inst |-> ReadDispatchFile(Policies[i])]

Joined == Links \cup {<<l[2], l[1]>> : l \in Links}

VARIABLES
    sendq, recvq,   \* per instance and module: the message queues
    pc,             \* per instance: the module the router polls next, or past
                    \* the last one when it works off waiting_message_list
    dead,           \* per instance: proc_router_start has returned
    waiting,        \* per instance: waiting_message_list
    traces,         \* per instance: the trace and aspect nodes
    net,            \* per ordered pair: bytes in flight
    nonces,         \* the number of nonces drawn so far
    asks, restarts, lost,   \* counters for the bounds
    origin,         \* history: nonce -> the instance and module that asked
    delivered,      \* history: the bag of deliveries to modules
    answered        \* history: nonces whose response its client consumed

queues  == <<sendq, recvq>>
counts  == <<asks, restarts, lost>>
history == <<origin, answered>>
vars    == <<queues, pc, dead, waiting, traces, net, nonces, counts, history, delivered>>

-----------------------------------------------------------------------------
(* Messages.  trail is history: the instances a message has come through,  *)
(* first the one where its path began.  A queue entry is a message and its *)
(* active message, if that is another one.                                 *)

(* message_create: a head of zeroes with a nonce. *)
NewMessage(type, nonce) ==
    [type |-> type, nonce |-> nonce, sender |-> Empty, receiver |-> Empty,
     local |-> FALSE, flow |-> "none", state |-> "none", ljump |-> 0, rjump |-> 0,
     route |-> Empty, policy |-> 0, site |-> NoSite, trail |-> <<>>]

Entry(m)         == [msg |-> m, act |-> <<>>]
EntryFor(m, act) == [msg |-> m, act |-> <<act>>]

(* sec_msgqueue.c: __message_queue_putmsg adds at the tail of the list,    *)
(* __message_queue_getmsg takes from there too.                            *)
Put(q, e) == Append(q, e)
Got(q)    == Last(q)
Rest(q)   == Front(q)

-----------------------------------------------------------------------------
(* Application modules. *)

(* A client creates a message and sends it: message_create, ex_module_sendmsg. *)
Ask(i, mod) ==
    /\ Role[mod] = "client"
    /\ asks < MaxAsks
    /\ asks' = asks + 1 /\ nonces' = nonces + 1
    /\ origin' = Append(origin, [inst |-> i, mod |-> mod])
    /\ sendq' = [sendq EXCEPT ![i][mod] = Put(@, Entry(NewMessage(Says[mod], nonces + 1)))]
    /\ UNCHANGED <<recvq, pc, dead, waiting, traces, net, restarts, lost, delivered, answered>>

(* A client or a sink takes a message and is done with it. *)
Consume(i, mod) ==
    /\ Role[mod] \in {"client", "sink"} /\ recvq[i][mod] # <<>>
    /\ LET m == Got(recvq[i][mod])
       IN  answered' = IF m.state = "RESPONSE" THEN answered \cup {m.nonce} ELSE answered
    /\ recvq' = [recvq EXCEPT ![i][mod] = Rest(@)]
    /\ UNCHANGED <<sendq, pc, dead, waiting, traces, net, nonces, counts, origin, delivered>>

(* A module sends on the message it received: ex_module_sendmsg clears the *)
(* receiver.                                                               *)
Forward(i, mod) ==
    /\ Role[mod] = "forward" /\ recvq[i][mod] # <<>>
    /\ LET m == Got(recvq[i][mod])
       IN  sendq' = [sendq EXCEPT ![i][mod] = Put(@, Entry([m EXCEPT !.receiver = Empty]))]
    /\ recvq' = [recvq EXCEPT ![i][mod] = Rest(@)]
    /\ UNCHANGED <<pc, dead, waiting, traces, net, nonces, counts, history, delivered>>

(* A module answers with a message of its own, created for the one it      *)
(* received (message_create with an active message).                       *)
Reply(i, mod) ==
    /\ Role[mod] = "reply" /\ recvq[i][mod] # <<>>
    /\ LET m == Got(recvq[i][mod])
       IN  sendq' = [sendq EXCEPT ![i][mod] =
                        Put(@, EntryFor(NewMessage(Says[mod], m.nonce), m))]
    /\ recvq' = [recvq EXCEPT ![i][mod] = Rest(@)]
    /\ UNCHANGED <<pc, dead, waiting, traces, net, nonces, counts, history, delivered>>

-----------------------------------------------------------------------------
(* The connector. *)

(* hub_get_connector*: the peer a message for "receiver" is sent to, the   *)
(* default connection when none is found.                                  *)
Peer(i, receiver) == IF <<i, receiver>> \in Joined THEN receiver ELSE Default[i]

(* The send loop of proc_conn_start.  A local message is freed, one with   *)
(* no connection is dropped; the others go out without what a blob does    *)
(* not carry (policy, path_site, active_msg).                              *)
ConnSend(i) ==
    /\ recvq[i][Conn] # <<>>
    /\ LET m == Got(recvq[i][Conn])
           j == Peer(i, m.receiver)
       IN  net' = IF m.local \/ j = Empty THEN net
                  ELSE [net EXCEPT ![<<i, j>>] =
                            Append(@, [m EXCEPT !.policy = 0, !.site = NoSite])]
    /\ recvq' = [recvq EXCEPT ![i][Conn] = Rest(@)]
    /\ UNCHANGED <<sendq, pc, dead, waiting, traces, nonces, counts, history, delivered>>

(* The receive loop: the sender becomes the peer's uuid. *)
ConnRecv(j, i) ==
    /\ <<j, i>> \in Joined /\ net[<<j, i>>] # <<>>
    /\ LET m == Head(net[<<j, i>>])
           r == [m EXCEPT !.sender = j, !.receiver = Empty,
                          !.trail = IF m.state = "RESPONSE" THEN Front(@) ELSE Append(@, i)]
       IN  sendq' = [sendq EXCEPT ![i][Conn] = Put(@, Entry(r))]
    /\ net' = [net EXCEPT ![<<j, i>>] = Tail(@)]
    /\ UNCHANGED <<recvq, pc, dead, waiting, traces, nonces, counts, history, delivered>>

(* A connection breaks with a message in flight. *)
Lose(j, i) ==
    /\ <<j, i>> \in Joined /\ net[<<j, i>>] # <<>> /\ lost < MaxLoss
    /\ net' = [net EXCEPT ![<<j, i>>] = Tail(@)]
    /\ lost' = lost + 1
    /\ UNCHANGED <<queues, pc, dead, waiting, traces, nonces, asks, restarts, history, delivered>>

-----------------------------------------------------------------------------
(* The router, first half of the loop: one message from each module. *)

Polled(i)  == Mods[i][pc[i]]
Polling(i) == ~dead[i] /\ pc[i] <= Len(Mods[i])
HasMsg(i)  == Polling(i) /\ sendq[i][Polled(i)] # <<>>

(* router_dup_activemsg_info *)
DupActive(e) ==
    IF e.act = <<>> THEN e.msg
    ELSE LET a == e.act[1]
         IN  [e.msg EXCEPT !.flow = a.flow, !.state = a.state, !.local = a.local,
                           !.route = a.route, !.ljump = a.ljump, !.rjump = a.rjump,
                           !.nonce = a.nonce, !.policy = a.policy, !.site = a.site,
                           !.trail = a.trail]

(* Mutant: a response counts its hops upwards too. *)
WithJumps_Up(type, m) ==
    CASE type = "CONN" -> [m EXCEPT !.ljump = 1, !.rjump = @ + 1]
      [] type = "PORT" -> [m EXCEPT !.ljump = 1, !.rjump = 1]
      [] OTHER         -> [m EXCEPT !.ljump = @ + 1, !.rjump = IF @ = 0 THEN 1 ELSE @]

(* The switch on ex_module_gettype. *)
WithJumps(type, m) ==
    CASE type = "CONN" -> [m EXCEPT !.ljump = 1,
                                    !.rjump = IF m.state # "RESPONSE" THEN @ + 1 ELSE @ - 1]
      [] type = "PORT" -> [m EXCEPT !.ljump = 1, !.rjump = 1]
      [] OTHER         -> [m EXCEPT !.ljump = @ + 1, !.rjump = IF @ = 0 THEN 1 ELSE @]

(* The message the router has in hand after taking it from its module. *)
Taken(i) ==
    LET mod == Polled(i)
        m   == DupActive(Got(sendq[i][mod]))
        s   == IF mod # Conn \/ m.sender = Empty THEN [m EXCEPT !.sender = mod] ELSE m
    IN  WithJumps(ModType[mod], s)

(* The effect of handling it: it leaves the send queue, "add" joins the    *)
(* waiting list, "new" the traces, and the next module is up.              *)
TakeAnd(i, add, new) ==
    /\ sendq' = [sendq EXCEPT ![i][Polled(i)] = Rest(@)]
    /\ waiting' = [waiting EXCEPT ![i] = @ \o add]
    /\ traces' = [traces EXCEPT ![i] = @ \o new]
    /\ pc' = [pc EXCEPT ![i] = @ + 1]
    /\ UNCHANGED <<recvq, dead, net, nonces, counts, history, delivered>>

RouterSkip(i) ==
    /\ Polling(i) /\ ~HasMsg(i)
    /\ pc' = [pc EXCEPT ![i] = @ + 1]
    /\ UNCHANGED <<queues, dead, waiting, traces, net, nonces, counts, history, delivered>>

(* "message has path already" *)
RouterContinue(i) ==
    /\ HasMsg(i) /\ Taken(i).policy # 0
    /\ TakeAnd(i, <<Taken(i)>>, <<>>)

Unrouted(i) == HasMsg(i) /\ Taken(i).policy = 0

(* "message is init message" *)
RouterStart(i) ==
    /\ Unrouted(i) /\ Taken(i).flow = "none"
    /\ LET p == FindRoutePolicy(Table[i], Taken(i))
           m == [SetStart(Table[i], Taken(i), p) EXCEPT !.trail = <<i>>]
       IN  p # 0 /\ TakeAnd(i, <<m>>, StartTraces(m))

(* "message is not return message" *)
RouterRemoteStart(i) ==
    /\ Unrouted(i) /\ Taken(i).flow # "none" /\ Taken(i).state # "RESPONSE"
    /\ LET m == SetRemoteStart(Table[i], Taken(i))
       IN  m.policy # 0 /\ TakeAnd(i, <<m>>, StartTraces(m))

(* Neither search finds a policy: the message is dropped. *)
RouterNoPolicy(i) ==
    /\ Unrouted(i) /\ Taken(i).state # "RESPONSE"
    /\ IF Taken(i).flow = "none"
       THEN FindRoutePolicy(Table[i], Taken(i)) = 0
       ELSE SetRemoteStart(Table[i], Taken(i)).policy = 0
    /\ TakeAnd(i, <<>>, <<>>)

(* "message is a return message" *)
RouterResume(i) ==
    /\ Unrouted(i) /\ Taken(i).state = "RESPONSE"
    /\ LET k == FindTrace(traces[i], Taken(i).nonce, "query")
       IN  k # 0 /\ TakeAnd(i, <<SetTraceTarget(Taken(i), traces[i][k])>>, <<>>)

(* A response without a trace: proc_router_start returns. *)
RouterDie(i) ==
    /\ Unrouted(i) /\ Taken(i).state = "RESPONSE"
    /\ FindTrace(traces[i], Taken(i).nonce, "query") = 0
    /\ dead' = [dead EXCEPT ![i] = TRUE]
    /\ sendq' = [sendq EXCEPT ![i][Polled(i)] = Rest(@)]
    /\ UNCHANGED <<recvq, pc, waiting, traces, net, nonces, counts, history, delivered>>

-----------------------------------------------------------------------------
(* The router, second half: the waiting list is worked off. *)

Draining(i) == ~dead[i] /\ pc[i] > Len(Mods[i])

RouterRound(i) ==
    /\ Draining(i) /\ waiting[i] = <<>>
    /\ pc' = [pc EXCEPT ![i] = 1]
    /\ UNCHANGED <<queues, dead, waiting, traces, net, nonces, counts, history, delivered>>

(* What the router makes of the message at the head of the list: whether   *)
(* it is to be sent (issend) and whether it has just come back from an     *)
(* aspect (isaspect).                                                      *)
Advance(i, m) ==
    LET nx    == SetNext(Table[i], m)
        query == FindTrace(traces[i], nx.msg.nonce, "query")
        asp   == FindTrace(traces[i], nx.msg.nonce, "aspect")
        drop  == [msg |-> nx.msg, send |-> FALSE, isaspect |-> FALSE]
        sent(x) == [msg |-> x, send |-> TRUE, isaspect |-> FALSE]
    IN  CASE m.flow = "DELIVER" ->
                IF nx.ret = "end" THEN drop ELSE sent(nx.msg)
          [] m.flow = "QUERY" /\ nx.ret \notin {"end", "FINISH"} ->
                sent(nx.msg)
          [] m.flow = "QUERY" /\ nx.ret \in {"end", "FINISH"} /\ m.rjump > 1 ->
                IF query = 0 THEN drop
                ELSE IF m.state = "RESPONSE" \/ nx.ret = "FINISH"
                     THEN sent(SetTraceSrc(nx.msg, traces[i][query]))
                     ELSE sent(nx.msg)  \* message_route_gettracetarget: stores
                                        \* the receiver just cleared
          [] m.flow = "QUERY" /\ nx.ret \in {"end", "FINISH"} /\ m.rjump <= 1 ->
                IF asp = 0 THEN drop
                ELSE [msg |-> [RecoverAspect(nx.msg, traces[i][asp])
                                   EXCEPT !.trail = traces[i][asp].saved[1].trail],
                      send |-> TRUE, isaspect |-> TRUE]

(* The branch the message is diverted to: the first aspect that matches,   *)
(* unless the message comes from one; 0 for none.                          *)
Diversion(i, s) ==
    LET bs == Branches(Table[i], s.msg)
    IN  IF s.isaspect THEN 0
        ELSE FirstOf({k \in DOMAIN bs : bs[k].kind = "ASPECT"
                                        /\ BranchMatches(Table[i], s.msg, bs[k])})

(* Mutant: the loop over the branches goes on with the diverted message. *)
Clones_All(i, s) ==
    LET bs   == Branches(Table[i], s.msg)
        dups == Picked(bs, {k \in DOMAIN bs : bs[k].kind = "DUP"
                                               /\ BranchMatches(Table[i], s.msg, bs[k])})
    IN  [k \in DOMAIN dups |-> [DupMessage(Table[i], s.msg, dups[k]) EXCEPT !.trail = <<i>>]]

(* The clones made on the way there; past the diversion the router holds   *)
(* no message, and matches nothing.                                        *)
Clones(i, s) ==
    LET bs   == Branches(Table[i], s.msg)
        a    == Diversion(i, s)
        dups == Picked(bs, {k \in DOMAIN bs : /\ a = 0 \/ k < a
                                              /\ bs[k].kind = "DUP"
                                              /\ BranchMatches(Table[i], s.msg, bs[k])})
    IN  [k \in DOMAIN dups |-> [DupMessage(Table[i], s.msg, dups[k]) EXCEPT !.trail = <<i>>]]

(* proc_router_send_msg *)
Target(i, m) ==
    CASE m.receiver = Empty                            -> Empty
      [] m.receiver # Empty /\ ~m.local                -> Conn
      [] m.receiver # Empty /\ m.local                 ->
            IF m.receiver \in ModSet(i) THEN m.receiver ELSE Empty

Delivery(i, m) ==
    [inst |-> i, mod |-> m.receiver, nonce |-> m.nonce, policy |-> m.policy, site |-> m.site]

RouterFinish(i) ==
    /\ Draining(i) /\ waiting[i] # <<>>
    /\ ~Advance(i, Head(waiting[i])).send
    /\ waiting' = [waiting EXCEPT ![i] = Tail(@)]
    /\ UNCHANGED <<queues, pc, dead, traces, net, nonces, counts, history, delivered>>

RouterSend(i) ==
    /\ Draining(i) /\ waiting[i] # <<>>
    /\ LET s  == Advance(i, Head(waiting[i]))
           to == Target(i, s.msg)
       IN  /\ s.send /\ Diversion(i, s) = 0
           /\ waiting' = [waiting EXCEPT ![i] = Tail(@) \o Clones(i, s)]
           /\ recvq' = IF to = Empty THEN recvq
                       ELSE [recvq EXCEPT ![i][to] = Put(@, s.msg)]
           /\ delivered' = IF to \in {Empty, Conn} THEN delivered
                           ELSE delivered (+) SetToBag({Delivery(i, s.msg)})
    /\ UNCHANGED <<sendq, pc, dead, traces, net, nonces, counts, history>>

RouterDivert(i) ==
    /\ Draining(i) /\ waiting[i] # <<>>
    /\ LET s == Advance(i, Head(waiting[i]))
           a == Diversion(i, s)
           m == [AspectMessage(Table[i], s.msg, Branches(Table[i], s.msg)[a], nonces + 1)
                    EXCEPT !.trail = <<i>>]
       IN  /\ s.send /\ a # 0
           /\ waiting' = [waiting EXCEPT ![i] = Tail(@) \o Clones(i, s) \o <<m>>]
           /\ traces' = [traces EXCEPT ![i] = @ \o <<AspectTrace(s.msg, nonces + 1)>>
                                                \o StartTraces(m)]
    /\ nonces' = nonces + 1
    /\ origin' = Append(origin, [inst |-> i, mod |-> Empty])
    /\ UNCHANGED <<queues, pc, dead, net, counts, delivered, answered>>

-----------------------------------------------------------------------------
(* An instance is killed and started again: what it held in memory is gone,*)
(* and so is what its connections had in flight.                           *)
Restart(i) ==
    /\ restarts < MaxRestarts
    /\ restarts' = restarts + 1
    /\ sendq' = [sendq EXCEPT ![i] = [m \in ModSet(i) |-> <<>>]]
    /\ recvq' = [recvq EXCEPT ![i] = [m \in ModSet(i) |-> <<>>]]
    /\ pc' = [pc EXCEPT ![i] = 1] /\ dead' = [dead EXCEPT ![i] = FALSE]
    /\ waiting' = [waiting EXCEPT ![i] = <<>>]
    /\ traces' = [traces EXCEPT ![i] = <<>>]
    /\ net' = [l \in Joined |-> IF i \in {l[1], l[2]} THEN <<>> ELSE net[l]]
    /\ UNCHANGED <<nonces, asks, lost, history, delivered>>

-----------------------------------------------------------------------------
Init ==
    /\ sendq = [i \in Inst |-> [m \in ModSet(i) |-> <<>>]]
    /\ recvq = [i \in Inst |-> [m \in ModSet(i) |-> <<>>]]
    /\ pc = [i \in Inst |-> 1] /\ dead = [i \in Inst |-> FALSE]
    /\ waiting = [i \in Inst |-> <<>>] /\ traces = [i \in Inst |-> <<>>]
    /\ net = [l \in Joined |-> <<>>]
    /\ nonces = 0 /\ asks = 0 /\ restarts = 0 /\ lost = 0
    /\ origin = <<>> /\ delivered = EmptyBag /\ answered = {}

Router(i) ==
    \/ RouterSkip(i) \/ RouterContinue(i) \/ RouterStart(i) \/ RouterRemoteStart(i)
    \/ RouterNoPolicy(i) \/ RouterResume(i) \/ RouterDie(i)
    \/ RouterRound(i) \/ RouterFinish(i) \/ RouterSend(i) \/ RouterDivert(i)

Module(i, mod) == Consume(i, mod) \/ Forward(i, mod) \/ Reply(i, mod)

Next ==
    \/ \E i \in Inst : Router(i) \/ ConnSend(i) \/ Restart(i)
    \/ \E i \in Inst : \E mod \in ModSet(i) : Ask(i, mod) \/ Module(i, mod)
    \/ \E l \in Joined : ConnRecv(l[1], l[2]) \/ Lose(l[1], l[2])

Spec == Init /\ [][Next]_vars

(* Every thread keeps running: the router and the connector loop over      *)
(* usleep and select, a module over its receive queue.  The router can     *)
(* always take a step unless it has returned, so its weak fairness is      *)
(* written out.                                                            *)
Fairness ==
    /\ \A i \in Inst : ([]<>dead[i] \/ []<><<Router(i)>>_vars) /\ WF_vars(ConnSend(i))
    /\ \A l \in Joined : WF_vars(ConnRecv(l[1], l[2]))
    /\ \A i \in Inst : \A mod \in ModSet(i) : WF_vars(Module(i, mod))

FairSpec == Spec /\ Fairness

-----------------------------------------------------------------------------
(* A tiered network: its instances stand in tiers, and policies and        *)
(* default connections send messages one tier up, to instances nearer to   *)
(* the servers; the rules for responses name local modules only, as the    *)
(* way back is the router's to find.                                       *)
Ahead(level, i, j) == <<i, j>> \in Joined => level[j] = level[i] + 1

Tiered(level) ==
    /\ level \in [Inst -> Int]
    /\ \A i \in Inst :
          /\ Ahead(level, i, Default[i])
          /\ \A k \in DOMAIN Policies[i] :
                /\ \A r \in ToSet(Policies[i][k].main) :
                      r.kind \in {"NAME", "CONN"} => Ahead(level, i, r.to)
                /\ \A r \in ToSet(Policies[i][k].response) : r.kind \in {"LOCAL", "PORT"}

(* There is one way up from one instance to another: two trails that climb *)
(* tier by tier from the same instance to the same instance are the same.  *)
Climbs(level, t) ==
    /\ t # <<>> /\ t[1] \in Inst
    /\ \A k \in 1 .. Len(t) - 1 :
          <<t[k], t[k + 1]>> \in Joined /\ level[t[k + 1]] = level[t[k]] + 1

OneWayUp(level, trails) ==
    \A s, t \in trails :
        Climbs(level, s) /\ Climbs(level, t) /\ s[1] = t[1] /\ Last(s) = Last(t) => s = t

(* What the policy files have to agree on: a response path names, of the   *)
(* clients, only the one whose questions the policy is for, and is looked  *)
(* for where these begin; a name stands for one flow on all instances; and *)
(* a module of type PORT, whose messages begin a path each, sends only     *)
(* what it creates.                                                        *)
ClientNode(node) == node.kind \in {"LOCAL", "PORT"} /\ Role[node.to] = "client"

AskersOwn ==
    \A i \in Inst : \A p \in ToSet(Table[i].paths) : \A node \in ToSet(p.resp) :
        ClientNode(node) => p.sender = node.to /\ p.rjump = 1

NamesAgree ==
    \A i, j \in Inst : \A p \in ToSet(Table[i].paths), q \in ToSet(Table[j].paths) :
        p.name = q.name => p.flow = q.flow

PortsAsk ==
    \A i \in Inst : \A mod \in ModSet(i) :
        ModType[mod] = "PORT" => Role[mod] \in {"client", "sink"}

-----------------------------------------------------------------------------
(* Properties. *)

(* The messages the router of i has on their way: waiting, or on a receive *)
(* queue (the connector's included).                                       *)
OnPath(i) == ToSet(waiting[i]) \cup UNION {ToSet(recvq[i][m]) : m \in ModSet(i)}

Path(i, m) == Table[i].paths[m.policy]

(* Shape of the state. *)
TypeOK ==
    /\ pc \in [Inst -> Nat] /\ \A i \in Inst : pc[i] \in 1 .. Len(Mods[i]) + 1
    /\ dead \in [Inst -> BOOLEAN]
    /\ DOMAIN net = Joined
    /\ nonces = Len(origin) /\ answered \subseteq 1 .. nonces
    /\ \A i \in Inst : \A m \in OnPath(i) :
          /\ m.policy \in DOMAIN Table[i].paths
          /\ m.nonce \in 1 .. nonces
          /\ m.site.leg \in {"main", "resp"}
          /\ m.site.at \in 0 .. Len(Leg(Path(i, m), m.site.leg))

(* rjump, which the policies of the other instances are found by, counts   *)
(* the instances between a message and the one its path began at, on the   *)
(* way there and on the way back, through aspects, clones and replies.     *)
RjumpIsDepth ==
    \A i \in Inst : \A m \in OnPath(i) : m.rjump = Len(m.trail) /\ Last(m.trail) = i

(* A response in flight goes to the instance its query came from, not to   *)
(* another one that asked the same server.                                 *)
ResponseRetracesQuery ==
    \A l \in Joined : \A m \in ToSet(net[l]) :
        m.state = "RESPONSE" => Len(m.trail) > 1 /\ m.trail[Len(m.trail) - 1] = l[2]

(* A client is handed responses to its own questions only. *)
AnswerReachesAsker ==
    \A i \in Inst : \A mod \in ModSet(i) : \A m \in ToSet(recvq[i][mod]) :
        Role[mod] = "client" /\ m.state = "RESPONSE"
            => origin[m.nonce] = [inst |-> i, mod |-> mod]

(* The head of a message agrees with the path it is on.  A diversion       *)
(* through an aspect replaces nonce, route, jumps, receiver and path, and  *)
(* the recovery has to put all of them back: what a module receives is     *)
(* addressed to it, carries its policy's name and flow, and the nonce of   *)
(* the question, or of the diversion, that started this path.              *)
HeadAgreesWithPath ==
    \A i \in Inst : \A m \in OnPath(i) :
        /\ m.route = Path(i, m).name /\ m.flow = Path(i, m).flow
        /\ Len(m.trail) = 1 /\ Path(i, m).sender # Empty
              => origin[m.nonce] = [inst |-> i, mod |-> Path(i, m).sender]

(* No module is handed the same message twice for the same place of the    *)
(* same path.                                                              *)
DeliveredOnce == \A d \in BagToSet(delivered) : delivered[d] = 1

(* A router returns only at a response it has no trace for, and that takes *)
(* a restart of the instance while the query was away.                     *)
RouterDiesOnlyAfterRestart == \A i \in Inst : dead[i] => restarts > 0

(* "policy %s is ignored!", says the log of read_dispatch_file of a policy *)
(* it keeps out of the forest: no message is put on its path.              *)
IgnoredPolicyUnused ==
    \A i \in Inst : \A m \in OnPath(i) : Path(i, m).state # "ignore"

(* Every question of a client is answered: with all threads running, no    *)
(* loss and no restart, neither the last-in-first-out queues nor the       *)
(* router's one message per module and round can strand it.  (Nonces drawn *)
(* for diversions are not questions; a question is diverted at most once.) *)
EveryQueryAnswered ==
    \A n \in 1 .. 2 * MaxAsks :
        n \in DOMAIN origin /\ origin[n].mod # Empty ~> n \in answered

(* The head fields of every message, wherever it is: of their types, with  *)
(* the hop count of its path, and with what its aspects set aside.         *)
HeadsAgree ==
    /\ TypeOK /\ RjumpIsDepth /\ HeadAgreesWithPath

(* A response goes back the way its query came, and reaches the one who    *)
(* asked.                                                                  *)
AnswersComeHome == ResponseRetracesQuery /\ AnswerReachesAsker
=============================================================================
