------------------------------- MODULE TcpLink -------------------------------
(***************************************************************************)
(* Two instances that are connected by TCP, as the kernel and              *)
(* connector_inet.c see it.  Each has a SERVER connector, those of         *)
(* TlClients also a CLIENT connector to the other; a process may be killed *)
(* and started again.  A CLIENT connector has one descriptor for its life: *)
(* connect on it fails for ever once it was connected.                     *)
(*                                                                         *)
(* An instance tells its connectors apart by the peer.  When the           *)
(* acknowledgement of a peer comes in, another connector of the same peer, *)
(* the own CLIENT connector included, is taken from the hub and            *)
(* disconnected.                                                           *)
(***************************************************************************)
EXTENDS Integers, Sequences, FiniteSets

CONSTANTS TlNodes, TlClients,
          TlMaxBoots    \* bound: starts of a process

ASSUME TlAssumption ==
    IsFiniteSet(TlNodes) /\ Cardinality(TlNodes) = 2 /\ TlClients \subseteq TlNodes

VARIABLES
    boots,    \* starts of each process
    up,       \* is it running
    bound,    \* has its server the port of the configuration
    cfd,      \* descriptor of the CLIENT: "fresh", "open", "eof", "closed"
    cst,      \* its conn_state: "INIT", "CONNECT", "RESPONSE", "CUT"
    known,    \* has the CLIENT the SYNI of its peer (conn_extern_info)
    pending,  \* at each server: connections to accept
    chans,    \* at each server: channels in the hub, in order: [id, end, acked]
    lost,     \* at each server: descriptors that are in no hub
    syn, ack, \* connections with a SYNI, an ACKI to be read
    crossed   \* history: a client was cut whose own ACKI was not handled yet

tlvars == <<boots, up, bound, cfd, cst, known, pending, chans, lost, syn, ack, crossed>>

Peer(i) == CHOOSE j \in TlNodes : j # i
Id(i) == <<i, boots[i]>>            \* the connection that i's present process makes
Owner(id) == id[1]
Mine(id) == up[Owner(id)] /\ boots[Owner(id)] = id[2] /\ cfd[Owner(id)] # "closed"

-----------------------------------------------------------------------------
(* connector_af_inet_server_init, connector_af_inet_listen: the result of  *)
(* bind is thrown away; a server without its port listens at another one.  *)
ServerInit(i) == \E b \in BOOLEAN : bound' = [bound EXCEPT ![i] = b]

(* connector_af_inet_client_init, on what get_connector returned           *)
ClientInit(i) ==
    /\ cfd' = [cfd EXCEPT ![i] = "fresh"] /\ cst' = [cst EXCEPT ![i] = "INIT"]
    /\ known' = [known EXCEPT ![i] = FALSE]

(* proc_conn_init in a process that is started                             *)
Boot(i) ==
    /\ ~up[i] /\ boots[i] < TlMaxBoots
    /\ boots' = [boots EXCEPT ![i] = @ + 1]
    /\ up' = [up EXCEPT ![i] = TRUE]
    /\ ServerInit(i) /\ ClientInit(i)
    /\ UNCHANGED <<pending, chans, lost, syn, ack, crossed>>

(* The kernel closes what a killed process leaves: its client's channel    *)
(* reads as ended, and so does the client of each of its channels.         *)
Ended(s, id) == [k \in DOMAIN s |-> IF s[k].id = id THEN [s[k] EXCEPT !.end = "eof"] ELSE s[k]]
Eof(j) == IF cfd[j] = "open" THEN "eof" ELSE cfd[j]

Kill(i) ==
    /\ up[i]
    /\ up' = [up EXCEPT ![i] = FALSE] /\ bound' = [bound EXCEPT ![i] = FALSE]
    /\ cfd' = [cfd EXCEPT ![i] = "closed", ![Peer(i)] = Eof(Peer(i))]
    /\ pending' = [pending EXCEPT ![i] = <<>>]
    /\ chans' = [chans EXCEPT ![i] = <<>>, ![Peer(i)] = Ended(@, Id(i))]
    /\ lost' = [lost EXCEPT ![i] = 0]
    /\ syn' = syn \ {Id(i)}
    /\ ack' = {id \in ack : Owner(id) = i}
    /\ crossed' = FALSE
    /\ UNCHANGED <<boots, cst, known>>

-----------------------------------------------------------------------------
(* the state is set before connect is called *)
LinkConnect_First(i) ==
    /\ up[i] /\ i \in TlClients /\ cst[i] \notin {"CONNECT", "CUT"} /\ cfd[i] = "fresh"
    /\ cst' = [cst EXCEPT ![i] = "CONNECT"]
    /\ IF bound[Peer(i)] /\ up[Peer(i)]
       THEN /\ cfd' = [cfd EXCEPT ![i] = "open"]
            /\ pending' = [pending EXCEPT ![Peer(i)] = Append(@, Id(i))]
       ELSE UNCHANGED <<cfd, pending>>
    /\ UNCHANGED <<boots, up, bound, known, chans, lost, syn, ack, crossed>>

(* connector_af_inet_connect: refused while nobody has the port, and with  *)
(* EISCONN when the descriptor was connected before                        *)
Connected(i) ==
    /\ cfd[i] = "fresh" /\ bound[Peer(i)] /\ up[Peer(i)]
    /\ cfd' = [cfd EXCEPT ![i] = "open"]
    /\ cst' = [cst EXCEPT ![i] = "CONNECT"]
    /\ pending' = [pending EXCEPT ![Peer(i)] = Append(@, Id(i))]

(* conn_client_connect: tried again for every CLIENT connector of the hub  *)
(* that is not in state CONNECT                                            *)
LinkConnect(i) ==
    /\ up[i] /\ i \in TlClients /\ cst[i] \notin {"CONNECT", "CUT"}
    /\ Connected(i)
    /\ UNCHANGED <<boots, up, bound, known, chans, lost, syn, ack, crossed>>

(* no look at whether the SYNI was written *)
LinkAccept_Blind(j) ==
    /\ up[j] /\ pending[j] # <<>>
    /\ pending' = [pending EXCEPT ![j] = Tail(@)]
    /\ chans' = [chans EXCEPT ![j] = Append(@, [id |-> Head(pending[j]), end |-> "open", acked |-> FALSE])]
    /\ syn' = syn \cup {Head(pending[j])}
    /\ UNCHANGED <<boots, up, bound, cfd, cst, known, lost, ack, crossed>>

(* connector_af_inet_accept *)
Channel(id) == [id |-> id, end |-> IF Mine(id) THEN "open" ELSE "eof", acked |-> FALSE]

(* The server's turn: accept, and write the SYNI.  When that cannot be written,   *)
(* the channel does not come to the hub and its descriptor is lost.        *)
LinkAccept(j) ==
    /\ up[j] /\ pending[j] # <<>>
    /\ LET id == Head(pending[j])
       IN /\ pending' = [pending EXCEPT ![j] = Tail(@)]
          /\ \/ /\ Mine(id)
                /\ chans' = [chans EXCEPT ![j] = Append(@, Channel(id))]
                /\ syn' = syn \cup {id} /\ UNCHANGED lost
             \/ /\ ~Mine(id)
                /\ chans' = [chans EXCEPT ![j] = Append(@, Channel(id))] /\ UNCHANGED <<syn, lost>>
             \/ /\ ~Mine(id)
                /\ lost' = [lost EXCEPT ![j] = @ + 1] /\ UNCHANGED <<chans, syn>>
    /\ UNCHANGED <<boots, up, bound, cfd, cst, known, ack, crossed>>

(* The CLIENT's turn: the SYNI is read and answered.                       *)
ReadSyn(i) ==
    /\ up[i] /\ cfd[i] \in {"open", "eof"} /\ Id(i) \in syn
    /\ syn' = syn \ {Id(i)}
    /\ known' = [known EXCEPT ![i] = TRUE]
    /\ cst' = [cst EXCEPT ![i] = "RESPONSE"]
    /\ ack' = IF cfd[i] = "open" THEN ack \cup {Id(i)} ELSE ack
    /\ UNCHANGED <<boots, up, bound, cfd, pending, chans, lost, crossed>>

(* hub_get_connector_bypeeruuid: the CLIENT comes before the channels. *)
OwnClient_Never(j) == FALSE

OwnClient(j) == j \in TlClients /\ cst[j] # "CUT" /\ known[j]

OlderChannels(j, k) == {n \in DOMAIN chans[j] : n # k /\ chans[j][n].acked}

(* the list is not shortened *)
Without_Kept(s, n) == [m \in DOMAIN s |-> IF m < n \/ m = Len(s) THEN s[m] ELSE s[m + 1]]

Without(s, n) == [m \in 1 .. Len(s) - 1 |-> IF m < n THEN s[m] ELSE s[m + 1]]
Acked(s, id) == [m \in DOMAIN s |-> IF s[m].id = id THEN [s[m] EXCEPT !.acked = TRUE] ELSE s[m]]

(* connector_af_inet_disconnect, of the own client                         *)
Disconnected(j) == [cfd EXCEPT ![j] = "closed"]

(* receive_local_client_ack; a sweep reads the channels in order.          *)
LinkReadAck(j, k) ==
    /\ up[j] /\ k \in DOMAIN chans[j] /\ chans[j][k].id \in ack
    /\ \A n \in 1 .. k - 1 : chans[j][n].id \notin ack
    /\ LET id == chans[j][k].id
           old == OlderChannels(j, k)
           mine == [chans EXCEPT ![j] = Acked(@, id)]
       IN /\ ack' = ack \ {id}
          /\ IF OwnClient(j)
             THEN /\ cfd' = Disconnected(j) /\ cst' = [cst EXCEPT ![j] = "CUT"]
                  /\ chans' = [mine EXCEPT ![Peer(j)] = Ended(@, Id(j))]
                  /\ crossed' = (crossed \/ Id(j) \in ack)
             ELSE /\ UNCHANGED <<cst, crossed>>
                  /\ IF old = {} THEN chans' = mine /\ UNCHANGED cfd
                     ELSE LET n == CHOOSE x \in old : \A y \in old : x <= y
                          IN /\ chans' = [chans EXCEPT ![j] = Without(Acked(@, id), n)]
                             /\ cfd' = IF Mine(chans[j][n].id)
                                       THEN [cfd EXCEPT ![Peer(j)] = Eof(Peer(j))] ELSE cfd
    /\ UNCHANGED <<boots, up, bound, known, pending, lost, syn>>

-----------------------------------------------------------------------------
TlInit ==
    /\ boots = [i \in TlNodes |-> 0] /\ up = [i \in TlNodes |-> FALSE]
    /\ bound = [i \in TlNodes |-> FALSE]
    /\ cfd = [i \in TlNodes |-> "closed"] /\ cst = [i \in TlNodes |-> "INIT"]
    /\ known = [i \in TlNodes |-> FALSE]
    /\ pending = [i \in TlNodes |-> <<>>] /\ chans = [i \in TlNodes |-> <<>>]
    /\ lost = [i \in TlNodes |-> 0] /\ syn = {} /\ ack = {} /\ crossed = FALSE

Threads(i) == LinkConnect(i) \/ LinkAccept(i) \/ ReadSyn(i) \/ \E k \in DOMAIN chans[i] : LinkReadAck(i, k)

TlNext == \E i \in TlNodes : Boot(i) \/ Kill(i) \/ Threads(i)

(* The connector thread of each process loops for ever; processes are      *)
(* killed and started by nobody in particular.                             *)
TlFair == \A i \in TlNodes : WF_tlvars(Threads(i))

TlSpec == TlInit /\ [][TlNext]_tlvars /\ TlFair

-----------------------------------------------------------------------------
TlTypeOK ==
    \A i \in TlNodes :
        /\ cfd[i] \in {"fresh", "open", "eof", "closed"}
        /\ cst[i] \in {"INIT", "CONNECT", "RESPONSE", "CUT"}
        /\ \A k \in DOMAIN chans[i] : Owner(chans[i][k].id) # i
        /\ \A m, n \in DOMAIN chans[i] : chans[i][m].id = chans[i][n].id => m = n

(* A channel that reads as open leads to a client that still holds its     *)
(* descriptor, and a client with an open descriptor has a server that      *)
(* knows the connection: neither side goes on with half a connection for   *)
(* longer than the other's process lives (connector_af_inet_disconnect).   *)
TlBothEnds ==
    \A i \in TlNodes :
        /\ \A k \in DOMAIN chans[i] : chans[i][k].end = "open" => Mine(chans[i][k].id)
        /\ cfd[i] = "open" =>
             \/ \E k \in DOMAIN chans[Peer(i)] : chans[Peer(i)][k].id = Id(i)
             \/ \E k \in DOMAIN pending[Peer(i)] : pending[Peer(i)][k] = Id(i)

(* A client whose connection ended, by the death of the server's process   *)
(* or by its own, is not connected again while its process lives: connect  *)
(* is called on the old descriptor, or not at all.                         *)
TlNeverReconnects ==
    [][\A i \in TlNodes :
         (cfd[i] \in {"eof", "closed"} /\ boots'[i] = boots[i]) => cfd'[i] # "open"]_tlvars

(* Two instances that are clients of each other never keep both of their   *)
(* connections when both handshakes are over.  They keep one, unless a     *)
(* client was disconnected while its own ACKI was on the way: that ACKI    *)
(* makes the other side disconnect its client too, and none is left        *)
(* (receive_local_client_ack).                                             *)
Live(i) == cfd[i] = "open" /\ \E k \in DOMAIN chans[Peer(i)] :
                chans[Peer(i)][k].id = Id(i) /\ chans[Peer(i)][k].acked
HandshakesOver ==
    \A i \in TlNodes : /\ up[i] /\ known[i]
                       /\ Id(i) \notin ack
                       /\ \E k \in DOMAIN chans[Peer(i)] : chans[Peer(i)][k].id = Id(i)
TlOneLinkLeft ==
    HandshakesOver => \E links \in {Cardinality({i \in TlNodes : Live(i)})} :
                         links = 1 \/ (links = 0 /\ crossed)

(* A client whose server comes up late is connected in the end: it tries   *)
(* again until a process has the port.                                     *)
TlConnectsInTheEnd ==
    \A i \in TlClients :
        <>[](up[i] /\ up[Peer(i)] /\ bound[Peer(i)]) => <>[](cfd[i] # "fresh")

(* Of every connection both ends know, and two instances that are clients  *)
(* of each other end with one.                                             *)
TlLinksSettle ==
    /\ TlTypeOK /\ TlBothEnds /\ TlOneLinkLeft

(* A client is connected in the end to a server that comes up late, and    *)
(* never again to one that came back.                                      *)
TlConnects == TlNeverReconnects /\ TlConnectsInTheEnd
=============================================================================
