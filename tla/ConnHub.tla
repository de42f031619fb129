------------------------------ MODULE ConnHub ------------------------------
(***************************************************************************)
(* The connector hub of an instance that listens (connector_hub.c), the    *)
(* thread that serves it (proc_conn_start) and the handshake by which it   *)
(* learns who is at the other end of a connection (connect_message.c).     *)
(*                                                                         *)
(* The peers are instances with one CLIENT connector each.  A peer may be  *)
(* killed and started again; it then connects anew while the hub still     *)
(* holds a connector for its old connection, whose data may be unread.     *)
(* Connections are numbered in the order in which they are made.           *)
(***************************************************************************)
EXTENDS Integers, Sequences, FiniteSets

CONSTANTS
    Peers,      \* the instances that connect
    MaxConns,   \* bound: connections made
    MaxMsgs     \* bound: messages for peers, and messages of peers

ASSUME MaxConnsAssumption == MaxConns \in Nat
ASSUME MaxMsgsAssumption == MaxMsgs \in Nat
ASSUME PeersAssumption == Peers \cap {"none", "zero"} = {}

None   == "none"    \* conn_extern_info is NULL
Zeroed == "zero"    \* conn_extern_info is an empty connect_proc_info
Srv    == 0         \* the SERVER connector
ListHead == -1        \* the head of connector_list
Conns  == 1 .. MaxConns

VARIABLES
    hub,        \* connector_list
    cursor,     \* curr_read: a connector, or the list head
    readfds,    \* the connectors whose bit is set
    phase,      \* where proc_conn_start is: "select", "sweep", "handle", "send"
    info,       \* per channel: the peer in conn_extern_info
    queue,      \* the connector module's recv_queue: the receivers
    backlog,    \* connections made and not accepted yet
    toSrv, toCli,   \* per connection: the messages in the socket buffers
    cut,        \* connections the server has disconnected
    conn,       \* per peer: its connection, 0 for none
    cstate,     \* per peer: conn_state of its CLIENT connector
    cinfo,      \* per peer: has its connector a conn_extern_info
    made, msgs, \* counters for the bounds
    acked,      \* history: the channels whose ACK was handled
    served      \* history: the connectors handled since the last select

server == <<hub, cursor, readfds, phase, info, queue, cut, acked, served>>
net    == <<backlog, toSrv, toCli>>
peer   == <<conn, cstate, cinfo>>
vars   == <<server, net, peer, made, msgs>>

Elems(s) == {s[k] : k \in DOMAIN s}

(* proc_conn_init: the SERVER connector of the configuration listens. *)
Init ==
    /\ hub = <<Srv>> /\ cursor = ListHead /\ readfds = {} /\ phase = "select"
    /\ info = [c \in Conns |-> None] /\ queue = <<>>
    /\ backlog = <<>> /\ cut = {} /\ acked = {} /\ served = {}
    /\ toSrv = [c \in Conns |-> <<>>] /\ toCli = [c \in Conns |-> <<>>]
    /\ conn = [p \in Peers |-> 0]
    /\ cstate = [p \in Peers |-> "INIT"] /\ cinfo = [p \in Peers |-> FALSE]
    /\ made = 0 /\ msgs = 0

-----------------------------------------------------------------------------
(* The peers. *)

Up(c)       == \E p \in Peers : conn[p] = c     \* the peer's end is open
Usable(p)   == conn[p] # 0 /\ conn[p] \notin cut

(* conn_client_connect.  On a connector in state RESPONSE it calls connect *)
(* too, on a socket that is connected: that fails and changes nothing.     *)
Connect(p) ==
    /\ cstate[p] # "CONNECT" /\ conn[p] = 0 /\ made < MaxConns
    /\ made' = made + 1
    /\ conn' = [conn EXCEPT ![p] = made + 1]
    /\ cstate' = [cstate EXCEPT ![p] = "CONNECT"]
    /\ backlog' = Append(backlog, made + 1)
    /\ UNCHANGED <<server, toSrv, toCli, cinfo, msgs>>

(* The CLIENT branch of proc_conn_start: a SYN is answered by an ACK       *)
(* (build_client_ack_message), other messages go to the router.            *)
ClientRead(p) ==
    /\ conn[p] # 0 /\ toCli[conn[p]] # <<>>
    /\ LET c == conn[p]
           m == toCli[c][1]
       IN  /\ toCli' = [toCli EXCEPT ![c] = Tail(@)]
           /\ IF m = "SYN"
              THEN /\ cinfo' = [cinfo EXCEPT ![p] = TRUE]
                   /\ cstate' = [cstate EXCEPT ![p] = "RESPONSE"]
                   /\ toSrv' = IF c \in cut THEN toSrv
                               ELSE [toSrv EXCEPT ![c] = Append(@, [kind |-> "ACK", from |-> p])]
              ELSE UNCHANGED <<cinfo, cstate, toSrv>>
    /\ UNCHANGED <<server, backlog, conn, made, msgs>>

(* Its send loop: a target given by the connector's name (":name") needs   *)
(* no handshake.                                                           *)
ClientSend(p) ==
    /\ Usable(p) /\ msgs < MaxMsgs
    /\ msgs' = msgs + 1
    /\ toSrv' = [toSrv EXCEPT ![conn[p]] = Append(@, [kind |-> "DATA", from |-> p])]
    /\ UNCHANGED <<server, backlog, toCli, peer, made>>

(* The peer is killed and starts again.  What it sent stays readable. *)
Crash(p) ==
    /\ conn[p] # 0
    /\ conn' = [conn EXCEPT ![p] = 0]
    /\ cstate' = [cstate EXCEPT ![p] = "INIT"] /\ cinfo' = [cinfo EXCEPT ![p] = FALSE]
    /\ UNCHANGED <<server, net, made, msgs>>

-----------------------------------------------------------------------------
(* The list. *)

(* The position of the cursor, 0 for the head. *)
Pos(s, x) == IF x = ListHead THEN 0 ELSE CHOOSE k \in DOMAIN s : s[k] = x

(* List_del *)
Unlink(s, d) ==
    LET i == Pos(s, d) IN [j \in 1 .. Len(s) - 1 |-> IF j < i THEN s[j] ELSE s[j + 1]]

(* Mutant: List_add. *)
AddConnector_AtHead(s, c) == <<c>> \o s

(* connector_hub_add_connector: List_add_tail. *)
AddConnector(s, c) == Append(s, c)

(* Where connector_hub_del_connector leaves curr_read. *)
CursorWithout(s, d) ==
    IF cursor # d THEN cursor
    ELSE IF Pos(s, d) = Len(s) THEN ListHead ELSE s[Pos(s, d) + 1]

(* hub_get_connector_bypeeruuid: the first connector known to be p's. *)
Found(s, inf, p) ==
    LET hits == {k \in DOMAIN s : s[k] \in Conns /\ inf[s[k]] = p}
    IN  IF hits = {} THEN 0 ELSE s[CHOOSE k \in hits : \A j \in hits : k <= j]

-----------------------------------------------------------------------------
(* The thread of the connector module. *)

(* A closed connection reads as ready for ever. *)
Ready(c) == IF c = Srv THEN backlog # <<>> ELSE toSrv[c] # <<>> \/ ~Up(c)

(* connector_hub_select, and connector_hub_reset before it. *)
Select ==
    /\ phase = "select"
    /\ cursor' = ListHead
    /\ readfds' = {c \in Elems(hub) : Ready(c)}
    /\ phase' = IF readfds' = {} THEN "send" ELSE "sweep"
    /\ served' = {}
    /\ UNCHANGED <<hub, info, queue, cut, acked, net, peer, made, msgs>>

(* connector_hub_getactiveread *)
GetActiveRead ==
    /\ phase = "sweep"
    /\ LET next == {k \in DOMAIN hub : k > Pos(hub, cursor) /\ hub[k] \in readfds}
       IN  IF next = {}
           THEN cursor' = ListHead /\ phase' = "send" /\ UNCHANGED served
           ELSE /\ cursor' = hub[CHOOSE k \in next : \A j \in next : k <= j]
                /\ phase' = "handle" /\ served' = served \cup {cursor'}
    /\ UNCHANGED <<hub, readfds, info, queue, cut, acked, net, peer, made, msgs>>

(* SERVER: accept, send a SYN, add the channel to the hub; not added when  *)
(* the SYN cannot be written.                                              *)
Accept(written) ==
    /\ phase = "handle" /\ cursor = Srv /\ backlog # <<>>
    /\ LET c == backlog[1]
       IN  /\ written \/ ~Up(c)
           /\ hub' = IF written THEN AddConnector(hub, c) ELSE hub
           /\ readfds' = IF written THEN readfds \cup {c} ELSE readfds
           /\ toCli' = [toCli EXCEPT ![c] = IF written /\ Up(c) THEN <<"SYN">> ELSE @]
    /\ backlog' = Tail(backlog)
    /\ phase' = "sweep"
    /\ UNCHANGED <<cursor, info, queue, cut, toSrv, peer, made, msgs, acked, served>>

(* Mutant: conn_extern_info is filled in before the search. *)
ReadAck_FillsFirst(c) ==
    LET p   == toSrv[c][1].from
        inf == [info EXCEPT ![c] = p]
        old == Found(hub, inf, p)
    IN  /\ hub' = IF old = 0 THEN hub ELSE Unlink(hub, old)
        /\ cursor' = IF old = 0 THEN cursor ELSE CursorWithout(hub, old)
        /\ readfds' = IF old = 0 THEN readfds ELSE readfds \ {old}
        /\ cut' = IF old = 0 THEN cut ELSE cut \cup {old}
        /\ info' = inf
        /\ acked' = acked \cup {c}

(* Mutant: no search for an older connector. *)
ReadAck_KeepsOld(c) ==
    /\ info' = [info EXCEPT ![c] = toSrv[c][1].from]
    /\ acked' = acked \cup {c}
    /\ UNCHANGED <<hub, cursor, readfds, cut>>

(* Mutant: returns once it has disconnected an older connector. *)
ReadAck_ReturnsEarly(c) ==
    LET p   == toSrv[c][1].from
        old == Found(hub, [info EXCEPT ![c] = Zeroed], p)
    IN  /\ hub' = IF old = 0 THEN hub ELSE Unlink(hub, old)
        /\ cursor' = IF old = 0 THEN cursor ELSE CursorWithout(hub, old)
        /\ readfds' = IF old = 0 THEN readfds ELSE readfds \ {old}
        /\ cut' = IF old = 0 THEN cut ELSE cut \cup {old}
        /\ info' = [info EXCEPT ![c] = IF old = 0 THEN p ELSE Zeroed]
        /\ acked' = acked \cup {c}

(* Mutant: the sweep ends where a connector is deleted. *)
ReadAck_Rewinds(c) ==
    LET p   == toSrv[c][1].from
        old == Found(hub, [info EXCEPT ![c] = Zeroed], p)
    IN  /\ hub' = IF old = 0 THEN hub ELSE Unlink(hub, old)
        /\ cursor' = IF old = 0 THEN cursor ELSE hub[Len(hub)]
        /\ readfds' = IF old = 0 THEN readfds ELSE readfds \ {old}
        /\ cut' = IF old = 0 THEN cut ELSE cut \cup {old}
        /\ info' = [info EXCEPT ![c] = p]
        /\ acked' = acked \cup {c}

(* receive_local_client_ack: a fresh conn_extern_info; another connector   *)
(* of the same peer is taken from the hub and disconnected; then the       *)
(* conn_extern_info is filled in.                                          *)
ReadAck(c) ==
    LET p   == toSrv[c][1].from
        old == Found(hub, [info EXCEPT ![c] = Zeroed], p)
    IN  /\ hub' = IF old = 0 THEN hub ELSE Unlink(hub, old)
        /\ cursor' = IF old = 0 THEN cursor ELSE CursorWithout(hub, old)
        /\ readfds' = IF old = 0 THEN readfds ELSE readfds \ {old}
        /\ cut' = IF old = 0 THEN cut ELSE cut \cup {old}
        /\ info' = [info EXCEPT ![c] = p]
        /\ acked' = acked \cup {c}

(* CHANNEL: one message is read.  Every message, the ACK included, goes on *)
(* to the router.                                                          *)
ReadMessage(c) ==
    /\ phase = "handle" /\ cursor = c /\ toSrv[c] # <<>>
    /\ IF toSrv[c][1].kind = "ACK" THEN ReadAck(c)
       ELSE UNCHANGED <<hub, cursor, readfds, cut, info, acked>>
    /\ toSrv' = [toSrv EXCEPT ![c] = Tail(@)]
    /\ UNCHANGED <<phase, queue, backlog, toCli, peer, made, msgs, served>>

(* Mutant: the end of the stream is read again and again. *)
ReadNothing_Retries(c) ==
    /\ phase = "handle" /\ cursor = c /\ toSrv[c] = <<>>
    /\ phase' = IF Up(c) THEN "sweep" ELSE "handle"
    /\ UNCHANGED <<hub, cursor, readfds, info, queue, cut, acked, served, net, peer, made, msgs>>

(* Nothing left to read, or the end of the stream. *)
ReadNothing(c) ==
    /\ phase = "handle" /\ cursor = c /\ toSrv[c] = <<>>
    /\ phase' = "sweep"
    /\ UNCHANGED <<hub, cursor, readfds, info, queue, cut, acked, served, net, peer, made, msgs>>

(* The send loop, one message: it goes to the connector of its receiver;   *)
(* without one it is dropped (there is no default connector here).         *)
SendOne ==
    /\ phase = "send" /\ queue # <<>>
    /\ LET c == Found(hub, info, queue[Len(queue)])
       IN  toCli' = IF c # 0 /\ Up(c) THEN [toCli EXCEPT ![c] = Append(@, "DATA")] ELSE toCli
    /\ queue' = SubSeq(queue, 1, Len(queue) - 1)
    /\ UNCHANGED <<hub, cursor, readfds, phase, info, cut, acked, served,
                   backlog, toSrv, peer, made, msgs>>

SendDone ==
    /\ phase = "send" /\ queue = <<>>
    /\ phase' = "select"
    /\ UNCHANGED <<hub, cursor, readfds, info, queue, cut, acked, served, net, peer, made, msgs>>

(* The router hands the connector a message for a peer. *)
Route(p) ==
    /\ msgs < MaxMsgs
    /\ msgs' = msgs + 1
    /\ queue' = Append(queue, p)
    /\ UNCHANGED <<hub, cursor, readfds, phase, info, cut, acked, served, net, peer, made>>

-----------------------------------------------------------------------------
Thread ==
    \/ Select \/ GetActiveRead \/ SendOne \/ SendDone
    \/ \E w \in BOOLEAN : Accept(w)
    \/ \E c \in Conns : ReadMessage(c) \/ ReadNothing(c)

Next ==
    \/ Thread
    \/ \E p \in Peers : Connect(p) \/ ClientRead(p) \/ ClientSend(p) \/ Crash(p) \/ Route(p)

Spec == Init /\ [][Next]_vars

(* The connector threads of the hub's instance and of the peers loop for   *)
(* ever; nothing makes a peer send, crash or connect.                      *)
HubFair == WF_vars(Thread) /\ \A p \in Peers : WF_vars(ClientRead(p))

FairSpec == Spec /\ HubFair

-----------------------------------------------------------------------------
(* Properties. *)

(* Shape of the state; connector_list is a list of distinct connectors     *)
(* with the SERVER first, and curr_read never points out of it.            *)
TypeOK ==
    /\ hub \in Seq({Srv} \cup Conns) /\ hub # <<>> /\ hub[1] = Srv
    /\ \A i, j \in DOMAIN hub : hub[i] = hub[j] => i = j
    /\ cursor \in Elems(hub) \cup {ListHead} /\ readfds \subseteq Elems(hub)
    /\ phase \in {"select", "sweep", "handle", "send"}
    /\ info \in [Conns -> Peers \cup {None, Zeroed}] /\ queue \in Seq(Peers)
    /\ conn \in [Peers -> Conns \cup {0}]
    /\ cut \subseteq Conns /\ acked \subseteq Conns
    /\ cut \cap Elems(hub) = {}

(* The hub never holds two connectors of one peer: hub_get_connector_-     *)
(* bypeeruuid would go on finding the older one, and every message for the *)
(* peer would go to the connection it has left.                            *)
OneConnectorPerPeer ==
    \A c, d \in Elems(hub) \cap Conns : info[c] \in Peers /\ info[c] = info[d] => c = d

(* Once the hub has the ACK of a peer's present connection, what it sends  *)
(* to the peer goes there, whatever acknowledgements of earlier            *)
(* connections of the peer were still unread at the time.                  *)
LookupIsPresent ==
    \A p \in Peers : conn[p] \in acked => Found(hub, info, p) = conn[p]

(* A peer the hub knows stays known, and is never looked up on an older    *)
(* connection than before.                                                 *)
LookupMovesForward ==
    [][\A p \in Peers : Found(hub', info', p) >= Found(hub, info, p)]_vars

(* The sweep after a select reaches every connector select reported, also  *)
(* when a connector is taken from the list in the middle of it.            *)
SweepComplete == phase = "send" => readfds \subseteq served

(* A connection that stays up is acknowledged: dead connections, which     *)
(* select reports for ever, do not keep the hub from it.                   *)
HandshakeCompletes ==
    \A p \in Peers : \A c \in Conns : conn[p] = c ~> c \in acked \/ conn[p] # c

(* The hub has one connector of a peer, finds it by the peer's identity,   *)
(* and serves every ready one in a sweep.                                  *)
HubSound ==
    /\ TypeOK /\ OneConnectorPerPeer /\ LookupIsPresent
    /\ SweepComplete
=============================================================================
