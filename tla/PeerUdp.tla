------------------------------- MODULE PeerUdp -------------------------------
(***************************************************************************)
(* The datagram connectors (CONN_P2P_BIND, CONN_P2P_RAND): one instance    *)
(* with a bound port, and clients on random ports that send P2P_UDP_INIT   *)
(* every now and then, answer a SYNI with an ACKI, send messages, and may  *)
(* be restarted, which gives them another port.                            *)
(*                                                                         *)
(* The bound connector has a list of peers, each with the bytes that came  *)
(* from its address and are not read yet, and one cursor (curr_peer) that  *)
(* the sweep of the connector thread, the handshake and the sending of     *)
(* messages all move.  Datagrams may be lost and overtake each other.  A   *)
(* message has a head and two pieces of body; a read takes at most UdCount *)
(* pieces (the 4096 bytes of the sweep's buffer).                          *)
(***************************************************************************)
EXTENDS Integers, Sequences, SequencesExt, FiniteSetsExt

CONSTANTS UdClients, UdCount,
          UdMaxSent,    \* bound: datagrams that clients send
          UdMaxBoots    \* bound: starts of a client

VARIABLES
    peers,   \* peer_list: [addr, uuid, buf]
    cur,     \* curr_peer: 0 is the head of the list
    mode,    \* "idle", or the read_state of a sweep: "CONN", "BUF"
    sock,    \* the datagrams in the bound socket: [from, item, id]
    syns,    \* addresses a SYNI is under way to
    boots,   \* how often a client was started
    sent,    \* number of datagrams the clients sent
    given,   \* what the thread handed on: [id, from, torn]
    seen     \* what the traffic was like (see Seen)

udvars == <<peers, cur, mode, sock, syns, boots, sent, given, seen>>

NoClient == "nobody"
AddrOf(c) == <<c, boots[c]>>

(* A datagram's pieces *)
Pieces(d) == IF d.item = "INIT" THEN <<[id |-> d.id, item |-> "INIT", part |-> 1]>>
             ELSE [k \in 1 .. 3 |-> [id |-> d.id, item |-> d.item, part |-> k]]

-----------------------------------------------------------------------------
(* Clients and network *)

(* A datagram is lost, or comes to the socket, where it may overtake the   *)
(* last one.                                                               *)
Emit(c, item) ==
    LET d == [from |-> AddrOf(c), item |-> item, id |-> sent + 1]
    IN /\ sent < UdMaxSent
       /\ sent' = sent + 1
       /\ sock' \in {sock, Append(sock, d)} \cup
                    (IF sock = <<>> THEN {} ELSE {InsertAt(sock, Len(sock), d)})

(* connector_af_inet_p2p_rand_connect: a client is never taken for         *)
(* connected and repeats this with every hundredth turn of its thread.     *)
RandConnect(c) ==
    /\ Emit(c, "INIT")
    /\ UNCHANGED <<peers, cur, mode, syns, boots, given, seen>>

(* The client's sweep reads a SYNI, which the network may bring twice:     *)
(* build_peer_ack_message                                                  *)
RandRead(c) ==
    /\ AddrOf(c) \in syns
    /\ syns' \in {syns, syns \ {AddrOf(c)}}
    /\ Emit(c, "ACKI")
    /\ UNCHANGED <<peers, cur, mode, boots, given, seen>>

RandSend(c) ==
    /\ Emit(c, "DATA")
    /\ UNCHANGED <<peers, cur, mode, syns, boots, given, seen>>

RandRestart(c) ==
    /\ boots[c] < UdMaxBoots
    /\ boots' = [boots EXCEPT ![c] = @ + 1]
    /\ syns' = syns \ {AddrOf(c)}
    /\ UNCHANGED <<peers, cur, mode, sock, sent, given, seen>>

-----------------------------------------------------------------------------
(* The bound connector *)

(* af_inet_p2p_findpeer, af_inet_p2p_findpeerbyuuid: 0 when there is none  *)
FindPeer(ps, addr) == SelectInSeq(ps, LAMBDA p : p.addr = addr)
FindByUuid(ps, u) == SelectInSeq(ps, LAMBDA p : p.uuid = u)

(* Mutant: a datagram takes the place of the bytes that are still there. *)
WithDatagram_Fresh(ps, d) ==
    LET k == FindPeer(ps, d.from)
    IN IF k = 0 THEN Append(ps, [addr |-> d.from, uuid |-> NoClient, buf |-> Pieces(d)])
       ELSE [ps EXCEPT ![k].buf = Pieces(d)]

(* af_inet_p2p_addpeer *)
WithDatagram(ps, d) ==
    LET k == FindPeer(ps, d.from)
    IN IF k = 0 THEN Append(ps, [addr |-> d.from, uuid |-> NoClient, buf |-> Pieces(d)])
       ELSE [ps EXCEPT ![k].buf = @ \o Pieces(d)]

(* The first sweep of connector_af_inet_p2p_read empties the socket.       *)
Drained(ps, s) == FoldLeft(WithDatagram, ps, s)

(* Where the read goes on: the cursor is put back to where it was, or to   *)
(* the first peer if there was none.                                       *)
ReadSite(k) == IF k = 0 THEN 1 ELSE k

(* A sweep's state while it handles what it read from the peer at `at`: r  *)
(* has the peers, the cursor, what is handed on and what is answered.      *)

(* Mutant: the old entry of the peer stays. *)
PeerAck_Keeps(r, u) ==
    LET found == FindByUuid(r.ps, u)
    IN [r EXCEPT !.ps[r.cur].uuid = u,
                 !.cur = IF found = 0 THEN Len(r.ps) ELSE found]

(* Mutant: the search comes before the peer is taken from the cursor. *)
PeerAck_Last(r, u) == [r EXCEPT !.ps[Len(r.ps)].uuid = u, !.cur = Len(r.ps)]

(* af_inet_p2p_delpeer: the cursor goes behind the deleted peer, whose     *)
(* unread bytes are gone.                                                  *)
DelPeer(r, k) ==
    [r EXCEPT !.ps = RemoveAt(@, k),
              !.cur = IF k = Len(r.ps) THEN 0 ELSE k,
              !.gone = @ \cup {p.id : p \in ToSet(r.ps[k].buf)}]

(* receive_local_peer_ack: looking for the uuid leaves the cursor where it *)
(* was found, or on the last peer; an old entry of the uuid is deleted.    *)
PeerAck(r, u) ==
    LET found == FindByUuid(r.ps, u)
        marked == [r EXCEPT !.ps[r.cur].uuid = u,
                            !.cur = IF found = 0 THEN Len(r.ps) ELSE found]
    IN CASE r.cur = 0 -> r
         [] r.cur # 0 /\ found \in {0, r.cur} -> marked
         [] OTHER -> DelPeer(marked, found)

(* message_read_from_blob: a head alone is refused, and so is what does    *)
(* not begin with one; part of a body counts as nothing, so that the head  *)
(* is handed on and what follows is taken for the next head.               *)
SockReadable(s) == Len(s) >= 2 /\ s[1].part = 1 /\ s[1].item # "INIT"

(* Mutant: a message needs more than its own bytes. *)
HandOn_Strict(r, s, from) ==
    [r EXCEPT !.given = @ \cup {[id |-> s[1].id, from |-> from, torn |-> Len(s) <= 3]}]

HandOn(r, s, from) ==
    LET torn == Len(s) < 3
        r2 == [r EXCEPT !.given = @ \cup {[id |-> s[1].id, from |-> from, torn |-> torn]}]
    IN IF s[1].item = "ACKI" /\ ~torn THEN PeerAck(r2, from[1]) ELSE r2

(* The messages of one read, one after the other, up to the first that is  *)
(* refused                                                                 *)
HandOnAll(r, s, from) ==
    LET rest(i) == SubSeq(s, 3 * i - 2, Len(s))
        all[i \in Nat] ==
          IF i = 0 THEN r
          ELSE IF \A j \in 1 .. i : SockReadable(rest(j)) THEN HandOn(all[i - 1], rest(i), from)
          ELSE all[i - 1]
    IN all[Len(s)]

(* The SYNI goes to the peer under the cursor, the rest is dropped.        *)
Handled(r, s, from) ==
    CASE s = <<>> -> r
      [] s # <<>> /\ s[1].item = "INIT" -> [r EXCEPT !.reply = {r.ps[r.cur].addr}]
      [] OTHER -> HandOnAll(r, s, from)

Acks(s) == Cardinality({k \in DOMAIN s : s[k].item = "ACKI" /\ s[k].part = 3})

(* seen.twice: a read had two ACKIs of a peer; seen.new: a peer's ACKI that*)
(* was not listed was read while others stood behind it, in this sweep;    *)
(* seen.cut: a read ended inside a message; seen.behind: messages that     *)
(* were read behind an INIT; seen.gone: unread ones of a deleted peer;     *)
(* seen.taken: all that were taken from the socket                         *)
Seen(old, s, from, after) ==
    [old EXCEPT
        !.twice = @ \/ Acks(s) > 1,
        !.new = @ \/ (Acks(s) > 0 /\ \A k \in DOMAIN peers : peers[k].uuid # from[1]),
        !.moved = @ \/ (Acks(s) > 0 /\ \E k \in DOMAIN peers :
                                          peers[k].uuid = from[1] /\ peers[k].addr # from),
        !.cut = @ \/ (s # <<>> /\ Last(s).item # "INIT" /\ Last(s).part # 3)
                  \/ (s # <<>> /\ s[1].part # 1),
        !.behind = @ \cup {s[k].id : k \in {j \in DOMAIN s :
                                              \E i \in 1 .. j - 1 : s[i].item = "INIT"}},
        !.full = @ \/ Len(s) = UdCount,
        !.gone = after.gone,
        !.taken = IF mode = "CONN" THEN @ \cup {d.id : d \in {x \in ToSet(sock) : x.item # "INIT"}}
                  ELSE @]

(* select reports the socket: af_inet_p2p_read_refresh and getfirstpeer    *)
SweepStart ==
    /\ mode = "idle" /\ sock # <<>>
    /\ mode' = "CONN"
    /\ cur' = IF peers = <<>> THEN 0 ELSE 1
    /\ seen' = [seen EXCEPT !.new = FALSE, !.moved = FALSE, !.full = FALSE]
    /\ UNCHANGED <<peers, sock, syns, boots, sent, given>>

(* Mutants: the last peer is left out; the end of the list is overrun. *)
NextPeer_Short(k, n) == IF k + 1 >= n THEN -1 ELSE k + 1
NextPeer_Over(k, n) == IF k > n THEN -1 ELSE k + 1

(* af_inet_p2p_getnextpeer, from wherever the cursor is: -1 for NULL       *)
NextPeer(k, n) == IF k = n THEN -1 ELSE k + 1

(* One turn of the sweep's loop: read a peer, handle what was read, go on  *)
SweepPeer ==
    /\ mode \in {"CONN", "BUF"}
    /\ \E ps \in {IF mode = "CONN" THEN Drained(peers, sock) ELSE peers} :
       \E at \in {ReadSite(cur)} :
       \E s \in {SubSeq(ps[at].buf, 1, Min({UdCount, Len(ps[at].buf)}))} :
       \E r \in {Handled([ps |-> [ps EXCEPT ![at].buf = SubSeq(@, UdCount + 1, Len(@))],
                          cur |-> at, given |-> given, reply |-> {}, gone |-> seen.gone],
                         s, ps[at].addr)} :
       \E next \in {NextPeer(r.cur, Len(r.ps))} :
          /\ peers' = r.ps
          /\ given' = r.given
          /\ syns' = syns \cup {a \in r.reply : a = AddrOf(a[1])}
          /\ cur' = IF next = -1 THEN r.cur ELSE next
          /\ mode' = IF next = -1 THEN "idle" ELSE "BUF"
          /\ sock' = IF mode = "CONN" THEN <<>> ELSE sock
          /\ seen' = Seen(seen, s, ps[at].addr, r)
          /\ UNCHANGED <<boots, sent>>

-----------------------------------------------------------------------------
(* Sending: by uuid, by name, or by the connector's own name *)

(* Mutant: the cursor has already moved on, as when a name is looked up. *)
ByUuid_Past(c) ==
    LET k == FindByUuid(peers, c)
    IN IF k = 0 \/ k = Len(peers) THEN Len(peers) ELSE k + 1

(* hub_get_connector_bypeeruuid stops with the cursor on the peer.         *)
ByUuid(c) ==
    LET k == FindByUuid(peers, c) IN IF k = 0 THEN Len(peers) ELSE k

(* hub_get_connector_byreceiver moves the cursor on before it compares.    *)
ByName(c) ==
    LET k == FindByUuid(peers, c)
    IN IF k = 0 \/ k = Len(peers) THEN Len(peers) ELSE k + 1

(* connector_af_inet_p2p_write sends to the peer under the cursor.         *)
PeerSend(c, how) ==
    /\ mode = "idle"
    /\ cur' = CASE how = "uuid" -> ByUuid(c) [] how = "name" -> ByName(c)
                [] OTHER -> IF peers = <<>> THEN 0 ELSE 1
    /\ UNCHANGED <<peers, mode, sock, syns, boots, sent, given, seen>>

-----------------------------------------------------------------------------
(* connector_af_inet_p2p_bind_init, connector_af_inet_p2p_listen *)
UdInit ==
    /\ peers = <<>> /\ cur = 0 /\ mode = "idle" /\ sock = <<>> /\ syns = {}
    /\ boots = [c \in UdClients |-> 1] /\ sent = 0 /\ given = {}
    /\ seen = [twice |-> FALSE, new |-> FALSE, moved |-> FALSE, cut |-> FALSE, full |-> FALSE,
               behind |-> {}, gone |-> {}, taken |-> {}]

UdNext ==
    \/ \E c \in UdClients : RandConnect(c) \/ RandRead(c) \/ RandSend(c) \/ RandRestart(c)
    \/ SweepStart \/ SweepPeer
    \/ \E c \in UdClients, how \in {"uuid", "name", "port"} : PeerSend(c, how)

UdSpec == UdInit /\ [][UdNext]_udvars

-----------------------------------------------------------------------------
(* Properties *)

(* The cursor stays on the list and a read stays inside its buffer.        *)
UdTypeOK ==
    /\ cur \in 0 .. Len(peers) /\ mode \in {"idle", "CONN", "BUF"}
    /\ \A p \in ToSet(peers) : p.uuid \in UdClients \cup {NoClient}
    /\ sent \in 0 .. UdMaxSent

(* A client that came back on another port, or whose ACKI was repeated,    *)
(* has one entry: no two entries have an address or an identity in common. *)
UdOneEntry ==
    \A i, j \in DOMAIN peers : i # j =>
        /\ peers[i].addr # peers[j].addr
        /\ peers[i].uuid # peers[j].uuid \/ peers[i].uuid = NoClient

(* An identity is bound to the address its ACKI came from, as long as no   *)
(* read brings two ACKIs: the first one moves the cursor, and the second   *)
(* is then put down to whatever peer stands there.                         *)
UdBoundToSender ==
    ~seen.twice => \A p \in ToSet(peers) : p.uuid \in {NoClient, p.addr[1]}

(* Messages waiting in the buffers *)
Waiting == {x.id : x \in UNION {ToSet(p.buf) : p \in ToSet(peers)}}

(* Every message that was taken from the socket is handed on or waits, as  *)
(* long as no read was cut, but for those read behind an INIT, and those   *)
(* unread when their peer's entry was replaced.                            *)
UdNothingElseLost ==
    ~seen.cut => seen.taken \subseteq
                 {g.id : g \in given} \cup Waiting \cup seen.behind \cup seen.gone

(* A message is handed on whole, as long as no read was cut.               *)
UdWhole == \A g \in given : g.torn => seen.cut

(* After a sweep no buffer holds a byte, unless a read was full or an ACKI *)
(* moved the cursor past peers that had not been read: their messages wait *)
(* until somebody sends the next datagram.                                 *)
UdSweptClean ==
    mode = "idle" /\ ~seen.new /\ ~seen.moved /\ ~seen.full => Waiting = {}

(* As long as no read brought two ACKIs, a message for an identity goes to *)
(* an address of that client, also after it came back on another port; one *)
(* for its name does so if it is the last of the list, and else goes to    *)
(* another client.                                                         *)
UdSentToWanted ==
    ~seen.twice =>
        \A k \in DOMAIN peers : peers[k].uuid # NoClient =>
            /\ peers[ByUuid(peers[k].uuid)].addr[1] = peers[k].uuid
            /\ ByName(peers[k].uuid) = k <=> k = Len(peers)

(* The list of peers and its one cursor: one entry for an address and an   *)
(* identity, bound to where the acknowledgement came from, and used for    *)
(* what is sent.                                                           *)
UdPeersKept ==
    /\ UdTypeOK /\ UdOneEntry /\ UdBoundToSender
    /\ UdSentToWanted

(* What is read from the socket is handed on, whole and in the sweep that  *)
(* read it, but for the exceptions named above.                            *)
UdBytesKept ==
    /\ UdNothingElseLost /\ UdWhole /\ UdSweptClean
=============================================================================
