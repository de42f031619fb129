---------------------------- MODULE ConnHub_proof ----------------------------
(***************************************************************************)
(* For any number of peers, connections and messages the hub has one       *)
(* connector of each peer, looks it up on its newest acknowledged          *)
(* connection, and serves all that select reported.                        *)
(*                                                                         *)
(* The lists are in the order of the connections' numbers, so that the     *)
(* place of the cursor can be told from the number it stands at.  What     *)
(* keeps an older acknowledgement from being read after a newer one of the *)
(* same peer is the order of a sweep: connections are accepted at its      *)
(* start only, and every channel is read until it is empty.                *)
(***************************************************************************)
EXTENDS ConnHub, TLAPS, WellFoundedInduction

Message == [kind : {"ACK", "DATA"}, from : Peers]

Increasing(s) == \A i, j \in DOMAIN s : i < j => s[i] < s[j]

(* What connection c shows of peer p: p uses it, is known to be at its end,*)
(* or has sent something that is not read yet.                             *)
AckFrom(p, c) == [kind |-> "ACK", from |-> p] \in Elems(toSrv[c])
SentBy(p, c) == \E m \in Elems(toSrv[c]) : m.from = p
Of(p, c) == conn[p] = c \/ info[c] = p \/ SentBy(p, c)

Typed ==
    /\ TypeOK
    /\ toSrv \in [Conns -> Seq(Message)] /\ toCli \in [Conns -> Seq({"SYN", "DATA"})]
    /\ backlog \in Seq(Conns) /\ made \in 0 .. MaxConns

(* Connections are accepted in the order in which they are made. *)
Ordered ==
    /\ Increasing(hub) /\ Increasing(backlog)
    /\ \A x \in Elems(hub) : x <= made /\ \A y \in Elems(backlog) : x < y
    /\ \A y \in Elems(backlog) : y <= made

(* A connection is of one peer, and a peer uses its last one. *)
Owned ==
    \A c \in Conns, p \in Peers : Of(p, c) =>
        /\ c <= made
        /\ \A q \in Peers : Of(q, c) => p = q
        /\ conn[p] # 0 => c <= conn[p]

(* A connection before its acceptance has no part in a handshake. *)
Shaken(c) == c \in acked \/ "SYN" \in Elems(toCli[c]) \/ \E p \in Peers : AckFrom(p, c)

Accepted == \A c \in Conns : Shaken(c) => c <= made /\ c \notin Elems(backlog)

(* The acknowledged connections are those whose peer is known; one of them *)
(* leaves the hub for a later one of its peer.                             *)
Known ==
    /\ \A c \in Conns : IF c \in acked THEN info[c] \in Peers ELSE info[c] = None
    /\ cut \subseteq acked
    /\ \A c \in acked : c \in Elems(hub) \/
          \E d \in acked \cap Elems(hub) : c < d /\ info[d] = info[c]

(* No acknowledgement is unread in the hub once a later one of the same    *)
(* peer was read.                                                          *)
Newest ==
    \A c \in Elems(hub) \cap Conns, d \in acked : AckFrom(info[d], c) => d <= c

(* Has the sweep still to come to c, or to the end of what c sent?         *)
Ahead(c) == cursor < c \/ (cursor = c /\ phase = "handle")

(* A sweep comes to an older connection of a peer before a later one that  *)
(* is in the hub, or is the next to be accepted.                           *)
SweepOrder ==
    phase \in {"sweep", "handle"} =>
        /\ \A c, d \in Elems(hub) \cap Conns, p \in Peers :
              c < d /\ AckFrom(p, c) /\ Of(p, d) => c \in readfds /\ Ahead(c)
        /\ Srv \in readfds /\ Ahead(Srv) =>
              /\ backlog # <<>>
              /\ \A c \in Elems(hub) \cap Conns, p \in Peers :
                    AckFrom(p, c) /\ Of(p, backlog[1]) => c \in readfds

(* The sweep has served what it has passed. *)
Swept ==
    /\ phase \in {"select", "send"} => cursor = ListHead
    /\ phase = "handle" => cursor \in readfds
    /\ phase \in {"sweep", "handle"} => \A x \in readfds : x <= cursor => x \in served
    /\ SweepComplete

IInv ==
    /\ Typed /\ Ordered /\ Owned /\ Accepted /\ Known /\ Newest /\ SweepOrder /\ Swept
    /\ OneConnectorPerPeer

-----------------------------------------------------------------------------
(* Lists. *)

LEMMA Least ==
    ASSUME NEW T, T \subseteq Nat, T # {}
    PROVE  \E x \in T : \A y \in T : x <= y
<1> DEFINE R == OpToRel(<, Nat)
<1>1. IsWellFoundedOn(R, Nat)
  BY NatLessThanWellFounded
<1>2. \E x \in T : \A y \in T : ~ (<<y, x>> \in R)
  <2> HIDE DEF R
  <2> QED BY <1>1, WFMin
<1>3. \A x, y \in Nat : ~ (<<y, x>> \in R) => x <= y
  BY DEF OpToRel
<1> QED BY <1>2, <1>3

LEMMA SeqMonotone == \A S, T : S \subseteq T => Seq(S) \subseteq Seq(T)
OBVIOUS

LEMMA SeqElems ==
    ASSUME NEW S, NEW s \in Seq(S)
    PROVE  /\ Elems(s) \subseteq S /\ s \in Seq(Elems(s)) /\ Elems(<<>>) = {}
           /\ \A e \in S : Elems(Append(s, e)) = Elems(s) \cup {e}
           /\ s # <<>> => /\ s[1] \in Elems(s) /\ Elems(Tail(s)) \subseteq Elems(s)
                          /\ Elems(s) = Elems(Tail(s)) \cup {s[1]}
                          /\ Tail(s) \in Seq(S)
<1>1. Elems(s) \subseteq S /\ Elems(<<>>) = {}
  BY DEF Elems
<1>2. s \in Seq(Elems(s))
  <2>1. s \in [1 .. Len(s) -> Elems(s)]
    BY DEF Elems
  <2> QED BY <2>1
<1>3. ASSUME NEW e \in S PROVE Elems(Append(s, e)) = Elems(s) \cup {e}
  <2>1. /\ DOMAIN Append(s, e) = DOMAIN s \cup {Len(s) + 1}
        /\ \A i \in DOMAIN s : Append(s, e)[i] = s[i]
        /\ Append(s, e)[Len(s) + 1] = e
    OBVIOUS
  <2> QED BY <2>1 DEF Elems
<1>4. ASSUME s # <<>> PROVE /\ s[1] \in Elems(s) /\ Tail(s) \in Seq(S)
                            /\ Elems(s) = Elems(Tail(s)) \cup {s[1]}
  <2>1. /\ Len(s) \in Nat \ {0} /\ DOMAIN s = 1 .. Len(s) /\ Tail(s) \in Seq(S)
        /\ DOMAIN Tail(s) = 1 .. Len(s) - 1
        /\ \A i \in DOMAIN Tail(s) : Tail(s)[i] = s[i + 1]
    BY <1>4
  <2>2. \A i \in DOMAIN s : i = 1 \/ (i - 1 \in DOMAIN Tail(s) /\ s[i] = Tail(s)[i - 1])
    BY <2>1
  <2>3. \A i \in DOMAIN Tail(s) : i + 1 \in DOMAIN s
    BY <2>1
  <2>4. 1 \in DOMAIN s
    BY <2>1
  <2>5. ASSUME NEW e \in Elems(s) PROVE e \in Elems(Tail(s)) \cup {s[1]}
    <3>1. PICK i \in DOMAIN s : e = s[i]
      BY DEF Elems
    <3> QED BY <2>2, <3>1 DEF Elems
  <2>6. Elems(Tail(s)) \cup {s[1]} \subseteq Elems(s)
    BY <2>1, <2>3, <2>4 DEF Elems
  <2> QED BY <2>1, <2>4, <2>5, <2>6 DEF Elems
<1> QED BY <1>1, <1>2, <1>3, <1>4

(* An increasing list that grows at its end, or loses its first element. *)
LEMMA IncreasingEnds ==
    ASSUME NEW s \in Seq(Int), Increasing(s)
    PROVE  /\ \A e \in Int : (\A x \in Elems(s) : x < e) => Increasing(Append(s, e))
           /\ s # <<>> => /\ Increasing(Tail(s))
                          /\ \A x \in Elems(Tail(s)) : s[1] < x
<1>1. ASSUME NEW e \in Int, \A x \in Elems(s) : x < e PROVE Increasing(Append(s, e))
  <2>1. /\ DOMAIN s = 1 .. Len(s) /\ DOMAIN Append(s, e) = 1 .. Len(s) + 1
        /\ \A i \in DOMAIN s : Append(s, e)[i] = s[i] /\ s[i] < e
        /\ Append(s, e)[Len(s) + 1] = e /\ Len(s) \in Nat
    BY <1>1 DEF Elems
  <2> QED BY <2>1 DEF Increasing
<1>2. ASSUME s # <<>> PROVE Increasing(Tail(s)) /\ \A x \in Elems(Tail(s)) : s[1] < x
  <2>1. /\ Len(s) \in Nat \ {0} /\ DOMAIN s = 1 .. Len(s)
        /\ DOMAIN Tail(s) = 1 .. Len(s) - 1
        /\ \A i \in DOMAIN Tail(s) : Tail(s)[i] = s[i + 1]
    BY <1>2
  <2>2. \A i \in DOMAIN Tail(s) : 1 \in DOMAIN s /\ i + 1 \in DOMAIN s /\ 1 < i + 1
    BY <2>1
  <2>3. \A i \in DOMAIN Tail(s) : s[1] < Tail(s)[i]
    BY <2>1, <2>2 DEF Increasing
  <2>4. Increasing(Tail(s))
    BY <2>1 DEF Increasing
  <2> QED BY <2>3, <2>4 DEF Elems
<1> QED BY <1>1, <1>2

(* The place of an element of an increasing list. *)
LEMMA PosOf ==
    ASSUME NEW s \in Seq(Nat), Increasing(s), NEW x \in Elems(s)
    PROVE  /\ Pos(s, x) \in DOMAIN s /\ s[Pos(s, x)] = x
           /\ \A k \in DOMAIN s : /\ k < Pos(s, x) <=> s[k] < x
                                  /\ k > Pos(s, x) <=> s[k] > x
<1>1. x # ListHead /\ \E k \in DOMAIN s : s[k] = x
  BY DEF Elems, ListHead
<1>2. Pos(s, x) \in DOMAIN s /\ s[Pos(s, x)] = x
  BY <1>1 DEF Pos
<1>3. DOMAIN s \subseteq Nat /\ \A k \in DOMAIN s : s[k] \in Nat
  OBVIOUS
<1> QED BY <1>2, <1>3 DEF Increasing

(* List_del of an element of an increasing list. *)
LEMMA UnlinkSorted ==
    ASSUME NEW s \in Seq(Nat), Increasing(s), NEW d \in Elems(s), s[1] # d
    PROVE  LET t == Unlink(s, d)
           IN  /\ t \in Seq(Elems(s) \ {d}) /\ t # <<>> /\ t[1] = s[1]
               /\ Elems(t) = Elems(s) \ {d} /\ Increasing(t)
<1> DEFINE t == Unlink(s, d)
           i == Pos(s, d)
           n == Len(s)
<1>1. /\ i \in DOMAIN s /\ s[i] = d /\ i # 1
      /\ \A k \in DOMAIN s : k # i => s[k] # d
  BY PosOf DEF Increasing
<1>2. n \in Nat /\ DOMAIN s = 1 .. n /\ i \in 2 .. n
  BY <1>1
<1>3. /\ t = [j \in 1 .. n - 1 |-> IF j < i THEN s[j] ELSE s[j + 1]]
  BY DEF Unlink
<1>4. \A j \in 1 .. n - 1 : t[j] = s[IF j < i THEN j ELSE j + 1]
                          /\ (IF j < i THEN j ELSE j + 1) \in (DOMAIN s) \ {i}
  BY <1>2, <1>3
<1>5. \A k \in (DOMAIN s) \ {i} : /\ (IF k < i THEN k ELSE k - 1) \in 1 .. n - 1
                                  /\ t[IF k < i THEN k ELSE k - 1] = s[k]
  <2> SUFFICES ASSUME NEW k \in (DOMAIN s) \ {i}
               PROVE  /\ (IF k < i THEN k ELSE k - 1) \in 1 .. n - 1
                      /\ t[IF k < i THEN k ELSE k - 1] = s[k]
    OBVIOUS
  <2> HIDE DEF t, i, n
  <2>1. CASE k < i
    BY <1>2, <1>3, <2>1
  <2>2. CASE ~ (k < i)
    <3>1. k \in Int /\ k - 1 \in 1 .. n - 1 /\ ~ (k - 1 < i) /\ (k - 1) + 1 = k
      BY <1>2, <2>2
    <3> QED BY <1>3, <2>2, <3>1
  <2> QED BY <2>1, <2>2
<1>6. \A j \in 1 .. n - 1 : t[j] \in Elems(s) \ {d}
  BY <1>1, <1>4 DEF Elems
<1>7. t \in [1 .. n - 1 -> Elems(s) \ {d}] /\ n - 1 \in Nat /\ n - 1 > 0
  BY <1>2, <1>3, <1>6
<1>8. t \in Seq(Elems(s) \ {d}) /\ t # <<>> /\ DOMAIN t = 1 .. n - 1
  BY <1>7
<1>9. t[1] = s[1]
  BY <1>2, <1>3
<1>10. Elems(t) = Elems(s) \ {d}
  <2>1. \A x \in Elems(s) \ {d} : \E k \in (DOMAIN s) \ {i} : x = s[k]
    BY <1>1 DEF Elems
  <2>2. \A x \in Elems(s) \ {d} : \E j \in 1 .. n - 1 : x = t[j]
    BY <2>1, <1>5
  <2>3. \A x \in Elems(t) : x \in Elems(s) \ {d}
    BY <1>6, <1>8 DEF Elems
  <2>4. \A x \in Elems(s) \ {d} : x \in Elems(t)
    BY <2>2, <1>8 DEF Elems
  <2> QED BY <2>3, <2>4
<1>11. Increasing(t)
  <2> SUFFICES ASSUME NEW j \in 1 .. n - 1, NEW k \in 1 .. n - 1, j < k PROVE t[j] < t[k]
    BY <1>8 DEF Increasing
  <2>1. (IF j < i THEN j ELSE j + 1) < (IF k < i THEN k ELSE k + 1)
    BY <1>2
  <2> QED BY <1>4, <2>1 DEF Increasing
<1> QED BY <1>8, <1>9, <1>10, <1>11

(* hub_get_connector_bypeeruuid answers 0 or a connector of the peer. *)
LEMMA FoundIs ==
    ASSUME NEW s \in Seq(Nat), NEW inf, NEW p
    PROVE  \/ /\ Found(s, inf, p) = 0
              /\ \A c \in Elems(s) \cap Conns : inf[c] # p
           \/ /\ Found(s, inf, p) \in Elems(s) \cap Conns
              /\ inf[Found(s, inf, p)] = p
<1> DEFINE hits == {k \in DOMAIN s : s[k] \in Conns /\ inf[s[k]] = p}
<1>1. CASE hits = {}
  BY <1>1 DEF Found, Elems
<1>2. CASE hits # {}
  <2>1. hits \subseteq Nat
    OBVIOUS
  <2>2. \E k \in hits : \A j \in hits : k <= j
    <3> HIDE DEF hits
    <3> QED BY <1>2, <2>1, Least
  <2>3. PICK k \in hits : Found(s, inf, p) = s[k]
    BY <1>2, <2>2 DEF Found
  <2> QED BY <2>3 DEF Elems
<1> QED BY <1>1, <1>2

-----------------------------------------------------------------------------
(* What the invariant says of the numbers. *)
LEMMA Numbers ==
    ASSUME Typed
    PROVE  /\ Srv = 0 /\ ListHead = -1 /\ Conns \subseteq Nat \ {0} /\ Srv \notin Conns
           /\ hub \in Seq(Nat) /\ hub \in Seq(Int) /\ backlog \in Seq(Int)
           /\ Elems(hub) \subseteq Nat /\ Elems(hub) \subseteq {Srv} \cup Conns
           /\ Srv \in Elems(hub)
           /\ Elems(backlog) \subseteq Conns /\ made \in Nat
           /\ cursor \in Int /\ readfds \subseteq Elems(hub)
           /\ None \notin Peers /\ Zeroed \notin Peers
<1>1. Srv = 0 /\ ListHead = -1 /\ Conns \subseteq Nat \ {0} /\ {Srv} \cup Conns \subseteq Nat
  BY DEF Srv, ListHead, Conns
<1>2. hub \in Seq({Srv} \cup Conns) /\ hub # <<>> /\ hub[1] = Srv /\ backlog \in Seq(Conns)
  BY DEF Typed, TypeOK
<1>3. \A S, T : S \subseteq T => Seq(S) \subseteq Seq(T)
  BY SeqMonotone
<1>4. Elems(hub) \subseteq {Srv} \cup Conns /\ Srv \in Elems(hub)
      /\ Elems(backlog) \subseteq Conns
  BY <1>2, SeqElems
<1>5. /\ {Srv} \cup Conns \subseteq Nat /\ {Srv} \cup Conns \subseteq Int
      /\ Conns \subseteq Int
  BY <1>1
<1>6. hub \in Seq(Nat) /\ hub \in Seq(Int) /\ backlog \in Seq(Int)
  BY <1>2, <1>3, <1>5
<1>7. made \in Nat /\ readfds \subseteq Elems(hub) /\ cursor \in Elems(hub) \cup {ListHead}
  BY MaxConnsAssumption DEF Typed, TypeOK
<1>8. cursor \in Int
  BY <1>1, <1>4, <1>5, <1>7
<1>9. None \notin Peers /\ Zeroed \notin Peers
  BY PeersAssumption DEF None, Zeroed
<1> QED BY <1>1, <1>4, <1>5, <1>6, <1>7, <1>8, <1>9

(* A step that leaves the lists and what the hub knows alone, and adds     *)
(* nothing that a connection shows of a peer.                              *)
LEMMA QuietStep ==
    ASSUME IInv, UNCHANGED <<hub, backlog, acked, cut, info, made>>,
           \A p \in Peers, c \in Conns : /\ Of(p, c)' => Of(p, c)
                                         /\ AckFrom(p, c)' => AckFrom(p, c),
           \A c \in Conns : "SYN" \in Elems(toCli'[c]) => "SYN" \in Elems(toCli[c]),
           \A p \in Peers : conn'[p] \in {0, conn[p]}
    PROVE  /\ Ordered' /\ Owned' /\ Accepted' /\ Known' /\ Newest' /\ OneConnectorPerPeer'
           /\ UNCHANGED <<cursor, readfds, phase, served>> => SweepOrder' /\ Swept'
<1> USE DEF IInv
<1>1. Ordered' /\ OneConnectorPerPeer'
  BY DEF Ordered, OneConnectorPerPeer, Increasing
<1>2. Owned'
  BY DEF Owned
<1>3. Accepted'
  <2>1. ASSUME NEW c \in Conns, Shaken(c)' PROVE Shaken(c)
    BY <2>1 DEF Shaken
  <2> QED BY <2>1 DEF Accepted
<1>4. Known'
  BY DEF Known
<1>5. Newest'
  <2>1. \A d \in acked : info[d] \in Peers
    BY DEF Known, Typed, TypeOK
  <2> QED BY <2>1 DEF Newest
<1>6. ASSUME UNCHANGED <<cursor, readfds, phase, served>> PROVE SweepOrder' /\ Swept'
  <2>1. \A c : Ahead(c)' = Ahead(c)
    BY <1>6 DEF Ahead
  <2>2. Swept'
    BY <1>6 DEF Swept, SweepComplete
  <2>3. ASSUME backlog # <<>> PROVE backlog[1] \in Conns
    BY <2>3, SeqElems DEF Typed
  <2>4. SweepOrder'
    BY <1>6, <2>1, <2>3 DEF SweepOrder
  <2> QED BY <2>2, <2>4
<1> QED BY <1>1, <1>2, <1>3, <1>4, <1>5, <1>6

-----------------------------------------------------------------------------
LEMMA InitIInv == Init => IInv
<1> SUFFICES ASSUME Init PROVE IInv
  OBVIOUS
<1> USE DEF Init
<1>1. /\ Elems(<<>>) = {} /\ \A S : <<>> \in Seq(S)
      /\ hub \in Seq({Srv} \cup Conns) /\ Elems(hub) = {Srv} /\ DOMAIN hub = {1}
  BY DEF Elems
<1>2. \A S : Elems(<<>>) \cap S = {}
  BY <1>1
<1>3. Typed
  <2>1. TypeOK
    BY <1>1 DEF TypeOK, None
  <2>2. made \in 0 .. MaxConns
    BY MaxConnsAssumption
  <2> QED BY <1>1, <2>1, <2>2 DEF Typed
<1>4. \A p \in Peers, c \in Conns : ~ Of(p, c) /\ ~ AckFrom(p, c)
  BY <1>1, Numbers, <1>3 DEF Of, AckFrom, SentBy, Conns
<1>5. Ordered
  BY <1>1 DEF Ordered, Increasing, Srv
<1>6. Owned /\ OneConnectorPerPeer
  BY <1>4, <1>3, Numbers DEF Owned, OneConnectorPerPeer
<1>7. Accepted
  BY <1>1, <1>4 DEF Accepted, Shaken
<1>8. Known /\ Newest
  BY DEF Known, Newest
<1>9. SweepOrder /\ Swept
  BY DEF SweepOrder, Swept, SweepComplete
<1> QED BY <1>3, <1>5, <1>6, <1>7, <1>8, <1>9 DEF IInv

-----------------------------------------------------------------------------
(* The hub's thread. *)

LEMMA SelectStep == ASSUME IInv, Select PROVE IInv'
<1> USE DEF Select, net, peer
<1>1. Typed
  BY DEF IInv
<1>2. Typed'
  BY <1>1 DEF Typed, TypeOK
<1>3. /\ Ordered' /\ Owned' /\ Accepted' /\ Known' /\ Newest' /\ OneConnectorPerPeer'
  <2>1. \A p \in Peers, c \in Conns : /\ Of(p, c)' => Of(p, c)
                                      /\ AckFrom(p, c)' => AckFrom(p, c)
    BY DEF Of, AckFrom, SentBy
  <2> QED BY <2>1, QuietStep
<1>4. \A x \in Elems(hub) : cursor' < x
  BY <1>1, Numbers
<1>5. \A c \in Conns, p \in Peers : c \in Elems(hub) /\ AckFrom(p, c) => c \in readfds'
  <2> SUFFICES ASSUME NEW c \in Conns, NEW p \in Peers, c \in Elems(hub), AckFrom(p, c)
               PROVE  toSrv[c] # <<>>
    BY <1>1, Numbers DEF Ready
  <2>1. Elems(<<>>) = {}
    BY DEF Elems
  <2> QED BY <2>1 DEF AckFrom
<1>6. SweepOrder'
  <2>1. \A c \in Conns, p \in Peers : AckFrom(p, c)' <=> AckFrom(p, c)
    BY DEF AckFrom
  <2>2. \A x \in Elems(hub) : Ahead(x)'
    BY <1>4 DEF Ahead
  <2>3. Srv \in readfds' => backlog # <<>>
    BY DEF Ready
  <2>4. ASSUME backlog # <<>> PROVE backlog[1] \in Conns
    BY <2>4, <1>1, SeqElems DEF Typed
  <2> QED BY <1>5, <2>1, <2>2, <2>3, <2>4 DEF SweepOrder
<1>7. Swept'
  <2>1. \A x \in readfds' : ~ (x <= cursor')
    BY <1>1, <1>4, Numbers
  <2> QED BY <2>1 DEF Swept, SweepComplete
<1> QED BY <1>2, <1>3, <1>6, <1>7 DEF IInv

(* The next connector of the sweep, told by its number. *)
LEMMA NextActive ==
    ASSUME Typed, Ordered, GetActiveRead
    PROVE  \/ /\ phase' = "send" /\ cursor' = ListHead /\ UNCHANGED served
              /\ \A x \in readfds : x <= cursor
           \/ /\ phase' = "handle" /\ cursor' \in readfds /\ cursor < cursor'
              /\ served' = served \cup {cursor'}
              /\ \A x \in readfds : x <= cursor \/ cursor' <= x
<1> DEFINE next == {k \in DOMAIN hub : k > Pos(hub, cursor) /\ hub[k] \in readfds}
<1>1. /\ hub \in Seq(Nat) /\ Increasing(hub) /\ readfds \subseteq Elems(hub)
      /\ cursor \in Elems(hub) \cup {ListHead} /\ ListHead = -1
  BY Numbers DEF Typed, TypeOK, Ordered
<1>2. \A k \in DOMAIN hub : k \in Nat /\ hub[k] \in Nat /\ (k > Pos(hub, cursor) <=> hub[k] > cursor)
  <2>1. CASE cursor = ListHead
    <3>1. Pos(hub, cursor) = 0
      BY <2>1 DEF Pos
    <3> QED BY <1>1, <2>1, <3>1
  <2>2. CASE cursor \in Elems(hub)
    BY <1>1, <2>2, PosOf
  <2> QED BY <1>1, <2>1, <2>2
<1>3. \A x \in readfds : \E k \in DOMAIN hub : x = hub[k]
  BY <1>1 DEF Elems
<1>4. cursor \in Int /\ readfds \subseteq Nat
  BY Numbers
<1>5. CASE next = {}
  <2>1. phase' = "send" /\ cursor' = ListHead /\ UNCHANGED served
    BY <1>5 DEF GetActiveRead
  <2>2. \A x \in readfds : x <= cursor
    BY <1>2, <1>3, <1>4, <1>5
  <2> QED BY <2>1, <2>2
<1>6. CASE next # {}
  <2>1. /\ phase' = "handle" /\ served' = served \cup {cursor'}
        /\ cursor' = hub[CHOOSE k \in next : \A j \in next : k <= j]
    BY <1>6 DEF GetActiveRead
  <2>2. next \subseteq Nat
    BY <1>2
  <2>3. \E k \in next : \A j \in next : k <= j
    <3> HIDE DEF next
    <3> QED BY <1>6, <2>2, Least
  <2>4. PICK k \in next : cursor' = hub[k] /\ \A j \in next : k <= j
    BY <2>1, <2>3
  <2>5. ASSUME NEW x \in readfds, x > cursor PROVE cursor' <= x
    <3>1. PICK j \in DOMAIN hub : x = hub[j]
      BY <1>3
    <3>2. j \in next /\ k <= j /\ k \in DOMAIN hub
      BY <1>2, <2>4, <2>5, <3>1
    <3> QED BY <1>1, <1>2, <2>4, <3>1, <3>2 DEF Increasing
  <2>6. cursor' \in readfds /\ cursor < cursor'
    BY <1>2, <2>4
  <2> QED BY <1>4, <2>1, <2>5, <2>6
<1> QED BY <1>5, <1>6

LEMMA GetActiveReadStep == ASSUME IInv, GetActiveRead PROVE IInv'
<1>1. /\ Typed /\ Ordered /\ SweepOrder /\ Swept /\ phase = "sweep"
      /\ UNCHANGED <<hub, readfds, info, queue, cut, acked, net, peer, made, msgs>>
  BY DEF IInv, GetActiveRead
<1>2. /\ UNCHANGED <<hub, readfds, info, queue, cut, acked, made>>
      /\ UNCHANGED <<backlog, toSrv, toCli, conn>>
  BY <1>1 DEF net, peer
<1>3. Typed'
  BY <1>1, <1>2, NextActive DEF Typed, TypeOK
<1>4. \A p \in Peers, c \in Conns : (Of(p, c)' <=> Of(p, c)) /\ (AckFrom(p, c)' <=> AckFrom(p, c))
  BY <1>2 DEF Of, AckFrom, SentBy
<1>5. /\ Ordered' /\ Owned' /\ Accepted' /\ Known' /\ Newest' /\ OneConnectorPerPeer'
  BY <1>2, <1>4, QuietStep
<1>6. \A x \in readfds : x \in Nat
  BY <1>1, Numbers
<1>7. SweepOrder'
  <2>1. ASSUME NEW x \in readfds, Ahead(x), phase' = "handle" PROVE Ahead(x)'
    BY <1>1, <1>6, <2>1, NextActive, Numbers DEF Ahead
  <2>2. ASSUME Ahead(Srv)', phase' = "handle" PROVE Ahead(Srv)
    BY <1>1, <1>6, <2>2, NextActive, Numbers DEF Ahead
  <2>3. ASSUME backlog # <<>> PROVE backlog[1] \in Conns
    BY <2>3, <1>1, SeqElems DEF Typed
  <2>4. phase' \in {"send", "handle"}
    BY <1>1, NextActive
  <2> QED BY <1>1, <1>2, <1>4, <2>1, <2>2, <2>3, <2>4 DEF SweepOrder
<1>8. Swept'
  <2>1. CASE phase' = "send"
    BY <1>1, <1>2, <2>1, NextActive DEF Swept, SweepComplete
  <2>2. CASE phase' = "handle"
    <3>1. /\ cursor' \in readfds /\ served' = served \cup {cursor'}
          /\ \A x \in readfds : x <= cursor \/ cursor' <= x
      BY <1>1, <2>2, NextActive
    <3>2. \A x \in readfds : x <= cursor' => x \in served'
      BY <1>1, <1>6, <3>1 DEF Swept
    <3> QED BY <1>2, <2>2, <3>1, <3>2 DEF Swept, SweepComplete
  <2> QED BY <1>1, <2>1, <2>2, NextActive
<1> QED BY <1>3, <1>5, <1>7, <1>8 DEF IInv

LEMMA SendStep == ASSUME IInv, SendOne \/ SendDone PROVE IInv'
<1>1. Typed /\ phase = "send" /\ phase' \in {"send", "select"} /\ Swept
  BY DEF IInv, SendOne, SendDone
<1>2. /\ UNCHANGED <<hub, readfds, cursor, info, cut, acked, served, made>>
      /\ UNCHANGED <<backlog, toSrv, conn>>
  BY DEF SendOne, SendDone, net, peer
<1>3. /\ toCli' \in [Conns -> Seq({"SYN", "DATA"})] /\ queue' \in Seq(Peers)
      /\ \A c \in Conns : "SYN" \in Elems(toCli'[c]) => "SYN" \in Elems(toCli[c])
  <2>1. CASE SendOne
    <3>1. /\ hub \in Seq(Nat) /\ queue \in Seq(Peers) /\ queue # <<>>
          /\ toCli \in [Conns -> Seq({"SYN", "DATA"})]
      BY <1>1, <2>1, Numbers DEF Typed, TypeOK, SendOne
    <3>2. SubSeq(queue, 1, Len(queue) - 1) \in Seq(Peers)
      BY <3>1
    <3>3. ASSUME NEW c \in Conns PROVE
             /\ Append(toCli[c], "DATA") \in Seq({"SYN", "DATA"})
             /\ Elems(Append(toCli[c], "DATA")) = Elems(toCli[c]) \cup {"DATA"}
      BY <3>1, SeqElems
    <3>4. PICK c \in Conns \cup {0} :
             toCli' = IF c # 0 /\ Up(c) THEN [toCli EXCEPT ![c] = Append(@, "DATA")] ELSE toCli
      BY <2>1, <3>1, FoundIs DEF SendOne
    <3>5. toCli' \in [Conns -> Seq({"SYN", "DATA"})]
      BY <3>1, <3>3, <3>4
    <3>6. ASSUME NEW d \in Conns, "SYN" \in Elems(toCli'[d]) PROVE "SYN" \in Elems(toCli[d])
      BY <3>1, <3>3, <3>4, <3>6
    <3> QED BY <2>1, <3>2, <3>5, <3>6 DEF SendOne
  <2>2. CASE SendDone
    BY <1>1, <2>2 DEF SendDone, net, Typed, TypeOK
  <2> QED BY <2>1, <2>2
<1>4. Typed'
  BY <1>1, <1>2, <1>3 DEF Typed, TypeOK
<1>5. \A p \in Peers, c \in Conns : (Of(p, c)' <=> Of(p, c)) /\ (AckFrom(p, c)' <=> AckFrom(p, c))
  BY <1>2 DEF Of, AckFrom, SentBy
<1>6. /\ Ordered' /\ Owned' /\ Accepted' /\ Known' /\ Newest' /\ OneConnectorPerPeer'
  BY <1>2, <1>3, <1>5, QuietStep
<1>7. SweepOrder' /\ Swept'
  BY <1>1, <1>2 DEF SweepOrder, Swept, SweepComplete
<1> QED BY <1>4, <1>6, <1>7 DEF IInv

(* A connection is accepted at the start of a sweep. *)
LEMMA AcceptStep == ASSUME IInv, NEW w \in BOOLEAN, Accept(w) PROVE IInv'
<1> DEFINE c == backlog[1]
<1>1. /\ Typed /\ Ordered /\ Accepted /\ Known /\ Newest /\ SweepOrder /\ Swept
      /\ phase = "handle" /\ cursor = Srv /\ backlog # <<>>
      /\ phase' = "sweep" /\ backlog' = Tail(backlog)
      /\ hub' = (IF w THEN Append(hub, c) ELSE hub)
      /\ readfds' = (IF w THEN readfds \cup {c} ELSE readfds)
      /\ UNCHANGED <<cursor, info, queue, cut, toSrv, peer, made, msgs, acked, served>>
  BY DEF IInv, Accept, AddConnector
<1>2. /\ UNCHANGED <<cursor, info, queue, cut, toSrv, conn, made, acked, served>>
  BY <1>1 DEF peer
<1>3. /\ c \in Conns /\ c \in Elems(backlog) /\ c <= made /\ c \notin Elems(hub)
      /\ backlog' \in Seq(Conns) /\ Increasing(backlog') /\ c \notin Elems(backlog')
      /\ Elems(backlog) = Elems(backlog') \cup {c}
      /\ \A y \in Elems(backlog') : c < y /\ y <= made
      /\ \A x \in Elems(hub) : x < c
  <2>1. /\ backlog \in Seq(Conns) /\ backlog \in Seq(Int) /\ Elems(hub) \subseteq Nat
        /\ Conns \subseteq Nat
    BY <1>1, Numbers DEF Typed
  <2>2. /\ c \in Elems(backlog) /\ Elems(backlog) = Elems(Tail(backlog)) \cup {c}
        /\ Tail(backlog) \in Seq(Conns) /\ Elems(backlog) \subseteq Conns
    BY <1>1, <2>1, SeqElems
  <2>3. Increasing(Tail(backlog)) /\ \A y \in Elems(Tail(backlog)) : c < y
    BY <1>1, <2>1, IncreasingEnds DEF Ordered
  <2>4. /\ \A y \in Elems(backlog) : y <= made
        /\ \A x \in Elems(hub) : x < c
    BY <1>1, <2>2 DEF Ordered
  <2>5. c \notin Elems(hub) /\ c \notin Elems(Tail(backlog))
    BY <2>1, <2>2, <2>3, <2>4
  <2> QED BY <1>1, <2>2, <2>3, <2>4, <2>5
<1> HIDE DEF c
<1>4. /\ hub' \in Seq({Srv} \cup Conns) /\ hub' # <<>> /\ hub'[1] = Srv
      /\ Increasing(hub') /\ Elems(hub') = (IF w THEN Elems(hub) \cup {c} ELSE Elems(hub))
  <2>1. /\ hub \in Seq({Srv} \cup Conns) /\ hub # <<>> /\ hub[1] = Srv /\ Increasing(hub)
        /\ hub \in Seq(Int) /\ c \in Int
    BY <1>1, <1>3, Numbers DEF Typed, TypeOK, Ordered
  <2>2. /\ Append(hub, c) \in Seq({Srv} \cup Conns) /\ Append(hub, c) # <<>>
        /\ Append(hub, c)[1] = Srv
    BY <1>3, <2>1
  <2>3. Increasing(Append(hub, c))
    BY <1>3, <2>1, IncreasingEnds
  <2>4. Elems(Append(hub, c)) = Elems(hub) \cup {c}
    BY <1>3, <2>1, SeqElems
  <2> QED BY <1>1, <2>1, <2>2, <2>3, <2>4
<1>5. /\ toCli' \in [Conns -> Seq({"SYN", "DATA"})]
      /\ \A d \in Conns : d # c => toCli'[d] = toCli[d]
  <2>1. toCli' = [toCli EXCEPT ![c] = IF w /\ Up(c) THEN <<"SYN">> ELSE @]
    BY DEF Accept, c
  <2>2. toCli \in [Conns -> Seq({"SYN", "DATA"})] /\ <<"SYN">> \in Seq({"SYN", "DATA"})
    BY <1>1 DEF Typed
  <2> QED BY <2>1, <2>2
<1>6. c \notin acked /\ (\A p \in Peers : ~ AckFrom(p, c)) /\ info[c] = None
  BY <1>1, <1>3 DEF Accepted, Shaken, Known
<1>7. \A p \in Peers, d \in Conns : (Of(p, d)' <=> Of(p, d)) /\ (AckFrom(p, d)' <=> AckFrom(p, d))
  BY <1>2 DEF Of, AckFrom, SentBy
<1>8. Ordered'
  BY <1>1, <1>2, <1>3, <1>4 DEF Ordered
<1>9. Typed'
  <2>1. \A i, j \in DOMAIN hub' : hub'[i] = hub'[j] => i = j
    <3>1. hub' \in Seq(Nat)
      BY <1>4, <1>1, Numbers
    <3> QED BY <1>4, <3>1 DEF Increasing
  <2>2. cut \cap Elems(hub') = {}
    BY <1>1, <1>4, <1>6 DEF Typed, TypeOK, Known
  <2>3. cursor' \in Elems(hub') \cup {ListHead} /\ readfds' \subseteq Elems(hub')
    BY <1>1, <1>4 DEF Typed, TypeOK
  <2>4. TypeOK'
    BY <1>1, <1>2, <1>4, <2>1, <2>2, <2>3 DEF Typed, TypeOK
  <2> QED BY <1>1, <1>2, <1>3, <1>5, <2>4 DEF Typed
<1>10. Owned'
  BY <1>2, <1>7 DEF Owned, IInv
<1>11. Accepted'
  <2>1. ASSUME NEW d \in Conns, Shaken(d)' PROVE d = c \/ Shaken(d)
    BY <1>2, <1>5, <1>7, <2>1 DEF Shaken
  <2> QED BY <1>1, <1>2, <1>3, <2>1 DEF Accepted
<1>12. Known'
  BY <1>1, <1>2, <1>4 DEF Known
<1>13. Newest'
  <2>1. \A d \in acked : info[d] \in Peers
    BY <1>1 DEF Known, Typed, TypeOK
  <2> QED BY <1>1, <1>2, <1>4, <1>6, <1>7, <2>1 DEF Newest
<1>14. SweepOrder'
  <2>1. /\ \A x \in Elems(hub') : Ahead(x)' <=> Srv < x
        /\ ~ Ahead(Srv)' /\ Ahead(Srv) /\ Srv \in readfds
    BY <1>1, Numbers DEF Ahead, Swept
  <2>2. ASSUME NEW x \in Elems(hub') \cap Conns, NEW y \in Elems(hub') \cap Conns,
               NEW p \in Peers, x < y, AckFrom(p, x), Of(p, y)
        PROVE  x \in readfds'
    <3>1. x # c
      BY <1>6, <2>2
    <3>2. CASE y = c
      BY <1>1, <1>4, <2>1, <2>2, <3>1, <3>2 DEF SweepOrder, c
    <3>3. CASE y # c
      BY <1>1, <1>4, <2>2, <3>1, <3>3 DEF SweepOrder
    <3> QED BY <3>2, <3>3
  <2>3. \A x \in Conns : Srv < x
    BY <1>1, Numbers
  <2> QED BY <1>1, <1>7, <2>1, <2>2, <2>3 DEF SweepOrder
<1>15. Swept'
  <2>1. ASSUME NEW x \in readfds', x <= cursor' PROVE x \in served'
    <3>1. x # c
      BY <1>1, <1>2, <1>3, <2>1, Numbers
    <3> QED BY <1>1, <1>2, <2>1, <3>1 DEF Swept
  <2> QED BY <1>1, <2>1 DEF Swept, SweepComplete
<1>16. OneConnectorPerPeer'
  <2>1. None \notin Peers
    BY <1>1, Numbers
  <2> QED BY <1>2, <1>4, <1>6, <2>1 DEF OneConnectorPerPeer, IInv
<1> QED BY <1>8, <1>9, <1>10, <1>11, <1>12, <1>13, <1>14, <1>15, <1>16 DEF IInv

(* What the removal of the first message of a connection takes away. *)
LEMMA ReadShrinks ==
    ASSUME Typed, NEW c \in Conns, toSrv[c] # <<>>, toSrv' = [toSrv EXCEPT ![c] = Tail(@)]
    PROVE  /\ toSrv' \in [Conns -> Seq(Message)]
           /\ \A d \in Conns : Elems(toSrv'[d]) \subseteq Elems(toSrv[d])
           /\ \A p \in Peers, d \in Conns : /\ AckFrom(p, d)' => AckFrom(p, d)
                                            /\ SentBy(p, d)' => SentBy(p, d)
<1>1. toSrv \in [Conns -> Seq(Message)]
  BY DEF Typed
<1>2. Tail(toSrv[c]) \in Seq(Message) /\ Elems(Tail(toSrv[c])) \subseteq Elems(toSrv[c])
  BY <1>1, SeqElems
<1>3. toSrv' \in [Conns -> Seq(Message)]
  BY <1>1, <1>2
<1>4. \A d \in Conns : Elems(toSrv'[d]) \subseteq Elems(toSrv[d])
  BY <1>1, <1>2
<1>5. \A p \in Peers, d \in Conns : /\ AckFrom(p, d)' => AckFrom(p, d)
                                    /\ SentBy(p, d)' => SentBy(p, d)
  BY <1>4 DEF AckFrom, SentBy
<1> QED BY <1>3, <1>4, <1>5

(* The connector a new acknowledgement replaces, if any, is an older one,  *)
(* known to be of the same peer; the sweep stands at the newer.            *)
LEMMA AckReplaces ==
    ASSUME IInv, NEW c \in Conns, ReadMessage(c), toSrv[c][1].kind = "ACK"
    PROVE  \E p \in Peers, old \in Conns \cup {0} :
              /\ p = toSrv[c][1].from /\ AckFrom(p, c) /\ Of(p, c)
              /\ info' = [info EXCEPT ![c] = p] /\ acked' = acked \cup {c}
              /\ UNCHANGED cursor /\ cut' = (IF old = 0 THEN cut ELSE cut \cup {old})
              /\ readfds' = (IF old = 0 THEN readfds ELSE readfds \ {old})
              /\ hub' \in Seq({Srv} \cup Conns) /\ hub' # <<>> /\ hub'[1] = Srv
              /\ Increasing(hub') /\ c \in Elems(hub')
              /\ Elems(hub') = (IF old = 0 THEN Elems(hub) ELSE Elems(hub) \ {old})
              /\ IF old = 0 THEN \A x \in Elems(hub) \cap Conns : x # c => info[x] # p
                 ELSE old \in Elems(hub) /\ old \in acked /\ info[old] = p /\ old < c
              /\ c \in acked => info[c] = p
<1> DEFINE p == toSrv[c][1].from
           inf == [info EXCEPT ![c] = Zeroed]
           old == Found(hub, inf, p)
<1>1. /\ Typed /\ Ordered /\ Owned /\ Known /\ Newest
      /\ phase = "handle" /\ cursor = c /\ toSrv[c] # <<>>
  BY DEF IInv, ReadMessage
<1>2. /\ hub' = (IF old = 0 THEN hub ELSE Unlink(hub, old))
      /\ cursor' = (IF old = 0 THEN cursor ELSE CursorWithout(hub, old))
      /\ readfds' = (IF old = 0 THEN readfds ELSE readfds \ {old})
      /\ cut' = (IF old = 0 THEN cut ELSE cut \cup {old})
      /\ info' = [info EXCEPT ![c] = p]
      /\ acked' = acked \cup {c}
  BY DEF ReadMessage, ReadAck
<1>3. p \in Peers /\ AckFrom(p, c) /\ Of(p, c)
  <2>1. toSrv[c] \in Seq(Message)
    BY <1>1 DEF Typed
  <2>2. toSrv[c][1] \in Elems(toSrv[c]) /\ toSrv[c][1] \in Message
    BY <1>1, <2>1, SeqElems
  <2>3. toSrv[c][1] = [kind |-> "ACK", from |-> p] /\ p \in Peers
    BY <2>2 DEF Message
  <2> QED BY <2>2, <2>3 DEF AckFrom, SentBy, Of
<1>4. c \in Elems(hub)
  BY <1>1, Numbers DEF Typed, TypeOK
<1>5. info \in [Conns -> Peers \cup {None, Zeroed}] /\ inf[c] = Zeroed
      /\ (\A x \in Conns : x # c => inf[x] = info[x]) /\ Zeroed # p
  BY <1>1, <1>3, Numbers DEF Typed, TypeOK
<1>6. c \in acked => info[c] = p
  BY <1>1, <1>3, <1>5 DEF Known, Owned, Of
<1>7. hub \in Seq(Nat) /\ hub \in Seq({Srv} \cup Conns) /\ hub # <<>> /\ hub[1] = Srv
      /\ Increasing(hub) /\ Srv = 0 /\ Conns \subseteq Nat \ {0}
  BY <1>1, Numbers DEF Typed, TypeOK, Ordered
<1> HIDE DEF p, inf, old
<1>8. CASE old = 0
  <2>1. \A x \in Elems(hub) \cap Conns : inf[x] # p
    BY <1>7, <1>8, FoundIs DEF old
  <2>2. \A x \in Elems(hub) \cap Conns : x # c => info[x] # p
    BY <1>5, <2>1
  <2>3. 0 \in Conns \cup {0}
    OBVIOUS
  <2> USE <1>3, <2>3
  <2> WITNESS p \in Peers, 0 \in Conns \cup {0}
  <2> QED BY <1>2, <1>3, <1>4, <1>6, <1>7, <1>8, <2>2 DEF p
<1>9. CASE old # 0
  <2>1. old \in Elems(hub) /\ old \in Conns /\ inf[old] = p
    BY <1>7, <1>9, FoundIs DEF old
  <2>2. old # c /\ info[old] = p
    BY <1>5, <2>1
  <2>3. old \in acked
    BY <1>1, <1>3, <2>1, <2>2, Numbers DEF Known
  <2>4. old <= c
    BY <1>1, <1>3, <1>4, <2>2, <2>3 DEF Newest
  <2>5. old < c
    BY <1>7, <2>1, <2>2, <2>4
  <2>6. cursor' = cursor
    BY <1>1, <1>2, <1>9, <2>2 DEF CursorWithout
  <2>7. /\ hub' \in Seq(Elems(hub) \ {old}) /\ hub' # <<>> /\ hub'[1] = Srv
        /\ Elems(hub') = Elems(hub) \ {old} /\ Increasing(hub')
    BY <1>2, <1>7, <1>9, <2>1, UnlinkSorted
  <2>8. hub' \in Seq({Srv} \cup Conns)
    <3>1. Elems(hub) \ {old} \subseteq {Srv} \cup Conns
      BY <1>7, SeqElems
    <3> QED BY <2>7, <3>1, SeqMonotone
  <2>9. old \in Conns \cup {0}
    BY <2>1
  <2> USE <1>3, <2>9
  <2> WITNESS p \in Peers, old \in Conns \cup {0}
  <2> QED BY <1>2, <1>3, <1>4, <1>6, <1>9, <2>1, <2>2, <2>3, <2>5, <2>6, <2>7, <2>8 DEF p
<1> QED BY <1>8, <1>9

LEMMA ReadAckStep ==
    ASSUME IInv, NEW c \in Conns, ReadMessage(c), toSrv[c][1].kind = "ACK"
    PROVE  IInv'
<1>1. /\ Typed /\ Ordered /\ Owned /\ Accepted /\ Known /\ Newest /\ SweepOrder /\ Swept
      /\ OneConnectorPerPeer
      /\ phase = "handle" /\ cursor = c /\ toSrv[c] # <<>>
      /\ toSrv' = [toSrv EXCEPT ![c] = Tail(@)]
      /\ UNCHANGED <<phase, queue, backlog, toCli, peer, made, msgs, served>>
  BY DEF IInv, ReadMessage
<1>2. UNCHANGED <<phase, queue, backlog, toCli, conn, made, msgs, served>>
  BY <1>1 DEF peer
<1>3. PICK p \in Peers, old \in Conns \cup {0} :
        /\ AckFrom(p, c) /\ Of(p, c)
        /\ info' = [info EXCEPT ![c] = p] /\ acked' = acked \cup {c}
        /\ UNCHANGED cursor /\ cut' = (IF old = 0 THEN cut ELSE cut \cup {old})
        /\ readfds' = (IF old = 0 THEN readfds ELSE readfds \ {old})
        /\ hub' \in Seq({Srv} \cup Conns) /\ hub' # <<>> /\ hub'[1] = Srv
        /\ Increasing(hub') /\ c \in Elems(hub')
        /\ Elems(hub') = (IF old = 0 THEN Elems(hub) ELSE Elems(hub) \ {old})
        /\ IF old = 0 THEN \A x \in Elems(hub) \cap Conns : x # c => info[x] # p
           ELSE old \in Elems(hub) /\ old \in acked /\ info[old] = p /\ old < c
        /\ c \in acked => info[c] = p
  BY AckReplaces
<1>4. /\ Conns \subseteq Nat \ {0} /\ Srv = 0 /\ None \notin Peers
      /\ Elems(hub) \subseteq Nat /\ readfds \subseteq Elems(hub)
  BY <1>1, Numbers
<1>5. /\ info \in [Conns -> Peers \cup {None, Zeroed}] /\ info' \in [Conns -> Peers \cup {None, Zeroed}]
      /\ info'[c] = p /\ \A x \in Conns : x # c => info'[x] = info[x]
      /\ acked \subseteq Conns /\ cut \subseteq Conns
  BY <1>1, <1>3 DEF Typed, TypeOK
<1>6. \A q \in Peers, x \in Conns : /\ AckFrom(q, x)' => AckFrom(q, x)
                                    /\ Of(q, x)' => Of(q, x)
  <2>1. \A q \in Peers, x \in Conns : /\ AckFrom(q, x)' => AckFrom(q, x)
                                      /\ SentBy(q, x)' => SentBy(q, x)
    BY <1>1, ReadShrinks
  <2>2. ASSUME NEW q \in Peers, NEW x \in Conns, Of(q, x)' PROVE Of(q, x)
    <3>1. CASE x = c /\ info'[x] = q
      BY <1>3, <1>5, <3>1
    <3>2. CASE ~ (x = c /\ info'[x] = q)
      BY <1>2, <1>5, <2>1, <2>2, <3>2 DEF Of
    <3> QED BY <3>1, <3>2
  <2> QED BY <2>1, <2>2
<1>7. Typed'
  <2>1. hub' \in Seq(Nat)
    BY <1>3, <1>4, SeqMonotone
  <2>2. \A i, j \in DOMAIN hub' : hub'[i] = hub'[j] => i = j
    BY <1>3, <2>1 DEF Increasing
  <2>3. cut' \cap Elems(hub') = {}
    BY <1>1, <1>3 DEF Typed, TypeOK
  <2>4. cursor' \in Elems(hub') /\ readfds' \subseteq Elems(hub')
    BY <1>1, <1>3, <1>4
  <2>5. cut' \subseteq Conns /\ acked' \subseteq Conns
    BY <1>3, <1>5
  <2>6. TypeOK'
    BY <1>1, <1>2, <1>3, <1>5, <2>2, <2>3, <2>4, <2>5 DEF Typed, TypeOK
  <2>7. toSrv' \in [Conns -> Seq(Message)]
    BY <1>1, ReadShrinks
  <2> QED BY <1>1, <1>2, <2>6, <2>7 DEF Typed
<1>8. Ordered'
  BY <1>1, <1>2, <1>3 DEF Ordered
<1>9. Owned'
  BY <1>1, <1>2, <1>6 DEF Owned
<1>10. Accepted'
  <2>1. Shaken(c)
    BY <1>3 DEF Shaken
  <2>2. \A x \in Conns : Shaken(x)' => Shaken(x)
    BY <1>2, <1>3, <1>6, <2>1 DEF Shaken
  <2> QED BY <1>1, <1>2, <2>2 DEF Accepted
<1>11. Known'
  <2>1. \A x \in Conns : IF x \in acked' THEN info'[x] \in Peers ELSE info'[x] = None
    BY <1>1, <1>3, <1>5 DEF Known
  <2>2. cut' \subseteq acked'
    BY <1>1, <1>3 DEF Known
  <2>3. ASSUME NEW x \in acked', x \notin Elems(hub')
        PROVE  \E d \in acked' \cap Elems(hub') : x < d /\ info'[d] = info'[x]
    <3>1. x # c /\ x \in acked /\ x \in Conns /\ info'[x] = info[x]
      BY <1>3, <1>5, <2>3
    <3>2. CASE x \in Elems(hub)
      BY <1>3, <1>5, <2>3, <3>1, <3>2
    <3>3. CASE x \notin Elems(hub)
      <4>1. PICK d \in acked \cap Elems(hub) : x < d /\ info[d] = info[x]
        BY <1>1, <3>1, <3>3 DEF Known
      <4>2. d \in Conns /\ info'[d] = info[d]
        BY <1>3, <1>5, <4>1
      <4>3. CASE d \in Elems(hub')
        BY <1>3, <3>1, <4>1, <4>2, <4>3
      <4>4. CASE d \notin Elems(hub')
        <5>1. d = old /\ old < c /\ info[old] = p /\ old \in Conns
          BY <1>3, <4>1, <4>4
        <5>2. x < c /\ info'[c] = info'[x]
          BY <1>4, <1>5, <3>1, <4>1, <5>1
        <5> QED BY <1>3, <5>2
      <4> QED BY <4>3, <4>4
    <3> QED BY <3>2, <3>3
  <2> QED BY <2>1, <2>2, <2>3 DEF Known
<1>12. Newest'
  <2>1. ASSUME NEW x \in Elems(hub') \cap Conns, NEW d \in acked', AckFrom(info[d], x)'
        PROVE  d <= x
    <3>1. x \in Elems(hub) \cap Conns
      BY <1>3
    <3>2. CASE d \in acked
      <4>1. info'[d] = info[d] /\ info[d] \in Peers
        BY <1>1, <1>3, <1>5, <3>2 DEF Known
      <4>2. AckFrom(info[d], x)
        BY <1>6, <2>1, <4>1 DEF AckFrom
      <4> QED BY <1>1, <3>1, <3>2, <4>2 DEF Newest
    <3>3. CASE d \notin acked
      <4>1. d = c /\ AckFrom(p, x)
        BY <1>3, <1>5, <1>6, <2>1, <3>3 DEF AckFrom
      <4>2. c \in Elems(hub)
        BY <1>3
      <4>3. ASSUME x < c PROVE FALSE
        <5>1. Ahead(x)
          BY <1>1, <1>3, <3>1, <4>1, <4>2, <4>3 DEF SweepOrder
        <5> QED BY <1>1, <1>4, <3>1, <4>3, <5>1 DEF Ahead
      <4> QED BY <1>4, <3>1, <4>1, <4>3
    <3> QED BY <3>2, <3>3
  <2> QED BY <2>1 DEF Newest
<1>13. SweepOrder'
  <2>1. ~ Ahead(Srv)'
    BY <1>1, <1>3, <1>4 DEF Ahead
  <2>2. \A x : Ahead(x) => Ahead(x)'
    BY <1>2, <1>3 DEF Ahead
  <2>3. ASSUME NEW x \in Elems(hub') \cap Conns, NEW y \in Elems(hub') \cap Conns,
               NEW q \in Peers, x < y, AckFrom(q, x)', Of(q, y)'
        PROVE  x \in readfds' /\ Ahead(x)'
    <3>1. x \in Elems(hub) \cap Conns /\ y \in Elems(hub) \cap Conns
      BY <1>3
    <3>2. x \in readfds /\ Ahead(x)
      BY <1>1, <1>6, <2>3, <3>1 DEF SweepOrder
    <3> QED BY <1>3, <2>2, <3>2
  <2> QED BY <2>1, <2>3 DEF SweepOrder
<1>14. Swept'
  <2>1. c \in readfds'
    BY <1>1, <1>3 DEF Swept
  <2> QED BY <1>1, <1>2, <1>3, <2>1 DEF Swept, SweepComplete
<1>15. OneConnectorPerPeer'
  <2>1. ASSUME NEW x \in Elems(hub') \cap Conns, x # c PROVE info'[x] # p
    <3>1. info'[x] = info[x] /\ x \in Elems(hub) \cap Conns
      BY <1>3, <1>5, <2>1
    <3>2. CASE old = 0
      BY <1>3, <2>1, <3>1, <3>2
    <3>3. CASE old # 0
      BY <1>1, <1>3, <2>1, <3>1, <3>3 DEF OneConnectorPerPeer
    <3> QED BY <3>2, <3>3
  <2>2. ASSUME NEW x \in Elems(hub') \cap Conns, NEW y \in Elems(hub') \cap Conns,
               info'[x] \in Peers, info'[x] = info'[y]
        PROVE  x = y
    <3>1. CASE x = c \/ y = c
      BY <1>5, <2>1, <2>2, <3>1
    <3>2. CASE x # c /\ y # c
      BY <1>1, <1>3, <1>5, <2>2, <3>2 DEF OneConnectorPerPeer
    <3> QED BY <3>1, <3>2
  <2> QED BY <2>2 DEF OneConnectorPerPeer
<1> QED BY <1>7, <1>8, <1>9, <1>10, <1>11, <1>12, <1>13, <1>14, <1>15 DEF IInv

LEMMA ReadDataStep ==
    ASSUME IInv, NEW c \in Conns, ReadMessage(c), toSrv[c][1].kind # "ACK"
    PROVE  IInv'
<1>1. /\ Typed /\ toSrv[c] # <<>> /\ toSrv' = [toSrv EXCEPT ![c] = Tail(@)]
      /\ UNCHANGED <<hub, cursor, readfds, cut, info, acked>>
      /\ UNCHANGED <<phase, queue, backlog, toCli, made, msgs, served, conn>>
  BY DEF IInv, ReadMessage, peer
<1>2. Typed'
  BY <1>1, ReadShrinks DEF Typed, TypeOK
<1>3. \A p \in Peers, d \in Conns : /\ Of(p, d)' => Of(p, d)
                                    /\ AckFrom(p, d)' => AckFrom(p, d)
  BY <1>1, ReadShrinks DEF Of
<1> QED BY <1>1, <1>2, <1>3, QuietStep DEF IInv

LEMMA ReadNothingStep == ASSUME IInv, NEW c \in Conns, ReadNothing(c) PROVE IInv'
<1>1. /\ Typed /\ SweepOrder /\ Swept /\ phase = "handle" /\ cursor = c /\ toSrv[c] = <<>>
      /\ phase' = "sweep"
      /\ UNCHANGED <<hub, cursor, readfds, info, queue, cut, acked, served>>
      /\ UNCHANGED <<backlog, toSrv, toCli, conn, made>>
  BY DEF IInv, ReadNothing, net, peer
<1>2. Typed'
  BY <1>1 DEF Typed, TypeOK
<1>3. \A p \in Peers, d \in Conns : (Of(p, d)' <=> Of(p, d)) /\ (AckFrom(p, d)' <=> AckFrom(p, d))
  BY <1>1 DEF Of, AckFrom, SentBy
<1>4. /\ Ordered' /\ Owned' /\ Accepted' /\ Known' /\ Newest' /\ OneConnectorPerPeer'
  BY <1>1, <1>3, QuietStep
<1>5. \A p \in Peers : ~ AckFrom(p, c)
  <2>1. Elems(<<>>) = {}
    BY DEF Elems
  <2> QED BY <1>1, <2>1 DEF AckFrom
<1>6. SweepOrder'
  <2>1. ~ Ahead(Srv)'
    BY <1>1, Numbers DEF Ahead
  <2>2. \A x \in Conns : x # c /\ Ahead(x) => Ahead(x)'
    BY <1>1 DEF Ahead
  <2> QED BY <1>1, <1>3, <1>5, <2>1, <2>2 DEF SweepOrder
<1>7. Swept'
  BY <1>1 DEF Swept, SweepComplete
<1> QED BY <1>2, <1>4, <1>6, <1>7 DEF IInv

-----------------------------------------------------------------------------
(* The peers, and the router. *)

LEMMA ConnectStep == ASSUME IInv, NEW p \in Peers, Connect(p) PROVE IInv'
<1> DEFINE c == made + 1
<1>1. /\ Typed /\ Ordered /\ Owned /\ Accepted /\ SweepOrder /\ Swept
      /\ conn[p] = 0 /\ made < MaxConns /\ made' = c
      /\ conn' = [conn EXCEPT ![p] = c]
      /\ backlog' = Append(backlog, c)
      /\ UNCHANGED <<hub, cursor, readfds, phase, info, queue, cut, acked, served>>
      /\ UNCHANGED <<toSrv, toCli>>
  BY DEF IInv, Connect, server
<1>2. /\ made \in Nat /\ c \in Nat /\ c \in Conns /\ made' \in 0 .. MaxConns
      /\ Conns \subseteq Nat \ {0}
  BY <1>1, MaxConnsAssumption, Numbers DEF Conns
<1>3. conn \in [Peers -> Conns \cup {0}] /\ conn' \in [Peers -> Conns \cup {0}]
      /\ conn'[p] = c /\ \A q \in Peers : q # p => conn'[q] = conn[q]
  BY <1>1, <1>2 DEF Typed, TypeOK
<1>4. /\ backlog \in Seq(Conns) /\ backlog \in Seq(Int) /\ Increasing(backlog)
      /\ Elems(backlog) \subseteq Conns /\ Elems(hub) \subseteq Nat
      /\ \A y \in Elems(backlog) : y < c
      /\ \A x \in Elems(hub) : x < c
  <2>1. /\ backlog \in Seq(Conns) /\ backlog \in Seq(Int) /\ Increasing(backlog)
        /\ Elems(backlog) \subseteq Conns /\ Elems(hub) \subseteq Nat
    BY <1>1, Numbers DEF Typed, Ordered
  <2>2. /\ \A y \in Elems(backlog) : y <= made
        /\ \A x \in Elems(hub) : x <= made
    BY <1>1 DEF Ordered
  <2>3. \A y \in Nat : y <= made => y < c
    BY <1>2
  <2> QED BY <1>2, <2>1, <2>2, <2>3
<1> HIDE DEF c
<1>5. /\ backlog' \in Seq(Conns) /\ Increasing(backlog')
      /\ Elems(backlog') = Elems(backlog) \cup {c}
      /\ backlog # <<>> => backlog'[1] = backlog[1] /\ backlog[1] \in Elems(backlog)
  BY <1>1, <1>2, <1>4, IncreasingEnds, SeqElems
<1>6. Typed'
  BY <1>1, <1>2, <1>3, <1>5 DEF Typed, TypeOK
<1>7. Ordered'
  <2>1. \A y \in Elems(backlog') : y <= c
    <3>1. \A y \in Elems(backlog) : y <= c
      <4>1. \A y \in Nat : y < c => y <= c
        BY <1>2
      <4> QED BY <1>2, <1>4, <4>1
    <3> QED BY <1>2, <1>5, <3>1
  <2>2. \A x \in Elems(hub) : x <= c
    BY <1>2, <1>4
  <2> QED BY <1>1, <1>4, <1>5, <2>1, <2>2 DEF Ordered
<1>8. \A q \in Peers, x \in Conns : AckFrom(q, x)' <=> AckFrom(q, x)
  BY <1>1 DEF AckFrom
<1>9. \A q \in Peers, x \in Conns : Of(q, x)' => Of(q, x) \/ (q = p /\ x = c)
  <2>1. \A q \in Peers, x \in Conns : SentBy(q, x)' <=> SentBy(q, x)
    BY <1>1 DEF SentBy
  <2> QED BY <1>1, <1>3, <2>1 DEF Of
<1>10. \A q \in Peers, x \in Conns : Of(q, x) => x <= made /\ x < c
  BY <1>1, <1>2 DEF Owned, c
<1>11. Owned'
  <2> SUFFICES ASSUME NEW x \in Conns, NEW q \in Peers, Of(q, x)'
               PROVE  /\ x <= c
                      /\ \A r \in Peers : Of(r, x)' => q = r
                      /\ conn'[q] # 0 => x <= conn'[q]
    BY <1>1 DEF Owned
  <2>1. CASE q = p /\ x = c
    BY <1>2, <1>3, <1>9, <1>10, <2>1
  <2>2. CASE ~ (q = p /\ x = c)
    <3>1. Of(q, x) /\ x < c
      BY <1>9, <1>10, <2>2
    <3>2. \A r \in Peers : Of(r, x)' => q = r
      BY <1>1, <1>2, <1>9, <3>1 DEF Owned
    <3>3. conn'[q] # 0 => x <= conn'[q]
      BY <1>1, <1>2, <1>3, <3>1 DEF Owned
    <3> QED BY <1>2, <3>1, <3>2, <3>3
  <2> QED BY <2>1, <2>2
<1>12. Accepted'
  <2>1. \A x \in Conns : Shaken(x)' => Shaken(x)
    BY <1>1, <1>8 DEF Shaken
  <2>2. \A x \in Conns : Shaken(x) => x <= made /\ x # c /\ x <= c
    BY <1>1, <1>2 DEF Accepted, c
  <2> QED BY <1>1, <1>5, <2>1, <2>2 DEF Accepted
<1>13. Known' /\ OneConnectorPerPeer'
  BY <1>1 DEF Known, OneConnectorPerPeer, IInv
<1>14. Newest'
  <2>1. \A d \in acked : info[d] \in Peers
    BY DEF IInv, Known, Typed, TypeOK
  <2> QED BY <1>1, <1>8, <2>1 DEF Newest, IInv
<1>15. SweepOrder'
  <2>1. \A x : Ahead(x)' <=> Ahead(x)
    BY <1>1 DEF Ahead
  <2>2. \A q \in Peers, x \in Conns : x # c /\ Of(q, x)' => Of(q, x)
    BY <1>9
  <2>3. c \notin Elems(hub)
    BY <1>2, <1>4
  <2>4. ASSUME backlog # <<>>
        PROVE  backlog' # <<>> /\ backlog'[1] = backlog[1] /\ backlog[1] \in Conns /\ backlog[1] # c
    BY <1>1, <1>2, <1>4, <1>5, <2>4
  <2> QED BY <1>1, <1>8, <2>1, <2>2, <2>3, <2>4 DEF SweepOrder
<1>16. Swept'
  BY <1>1 DEF Swept, SweepComplete
<1> QED BY <1>6, <1>7, <1>11, <1>12, <1>13, <1>14, <1>15, <1>16 DEF IInv

(* A peer answers on the connection it uses, its newest. *)
LEMMA ClientReadStep == ASSUME IInv, NEW p \in Peers, ClientRead(p) PROVE IInv'
<1> DEFINE c == conn[p]
           ack == [kind |-> "ACK", from |-> p]
<1>1. /\ Typed /\ Ordered /\ Owned /\ Accepted /\ Known /\ Newest /\ SweepOrder /\ Swept
      /\ OneConnectorPerPeer
      /\ c # 0 /\ toCli[c] # <<>> /\ toCli' = [toCli EXCEPT ![c] = Tail(@)]
      /\ \/ toSrv' = toSrv
         \/ toCli[c][1] = "SYN" /\ toSrv' = [toSrv EXCEPT ![c] = Append(@, ack)]
      /\ UNCHANGED <<hub, cursor, readfds, phase, info, queue, cut, acked, served>>
      /\ UNCHANGED <<backlog, conn, made>>
  BY DEF IInv, ClientRead, server
<1>2. /\ c \in Conns /\ Of(p, c) /\ toCli \in [Conns -> Seq({"SYN", "DATA"})]
      /\ toSrv \in [Conns -> Seq(Message)] /\ ack \in Message /\ Conns \subseteq Nat
      /\ conn \in [Peers -> Conns \cup {0}]
  BY <1>1, Numbers DEF Typed, TypeOK, Of, Message
<1> HIDE DEF c, ack
<1>3. /\ Tail(toCli[c]) \in Seq({"SYN", "DATA"}) /\ toCli[c][1] \in Elems(toCli[c])
      /\ Elems(Tail(toCli[c])) \subseteq Elems(toCli[c])
      /\ Append(toSrv[c], ack) \in Seq(Message)
      /\ Elems(Append(toSrv[c], ack)) = Elems(toSrv[c]) \cup {ack}
  BY <1>1, <1>2, SeqElems
<1>4. /\ toCli' \in [Conns -> Seq({"SYN", "DATA"})] /\ toSrv' \in [Conns -> Seq(Message)]
      /\ \A x \in Conns : /\ Elems(toCli'[x]) \subseteq Elems(toCli[x])
                          /\ Elems(toSrv'[x]) \subseteq Elems(toSrv[x]) \cup {ack}
                          /\ x # c => toSrv'[x] = toSrv[x]
                          /\ toSrv'[x] # toSrv[x] => "SYN" \in Elems(toCli[x])
  BY <1>1, <1>2, <1>3
<1>5. Typed'
  BY <1>1, <1>4 DEF Typed, TypeOK
<1>6. \A q \in Peers, x \in Conns : AckFrom(q, x)' => AckFrom(q, x) \/ (q = p /\ x = c)
  BY <1>4 DEF AckFrom, ack
<1>7. \A q \in Peers, x \in Conns : Of(q, x)' => Of(q, x)
  <2>1. \A q \in Peers, x \in Conns : SentBy(q, x)' => SentBy(q, x) \/ (q = p /\ x = c)
    BY <1>4 DEF SentBy, ack
  <2> QED BY <1>1, <1>2, <2>1 DEF Of
<1>8. Ordered' /\ Known' /\ OneConnectorPerPeer'
  BY <1>1 DEF Ordered, Known, OneConnectorPerPeer
<1>9. Owned'
  BY <1>1, <1>7 DEF Owned
<1>10. Accepted'
  <2>1. \A x \in Conns : Shaken(x)' => Shaken(x)
    BY <1>1, <1>4 DEF Shaken, AckFrom
  <2> QED BY <1>1, <2>1 DEF Accepted
<1>11. \A x \in Conns : Of(p, x) => x <= c
  BY <1>1, <1>2 DEF Owned, c
<1>12. Newest'
  <2>1. ASSUME NEW x \in Elems(hub) \cap Conns, NEW d \in acked, AckFrom(info[d], x)' PROVE d <= x
    <3>1. info[d] \in Peers /\ d \in Conns /\ Of(info[d], d) /\ info'[d] = info[d]
      BY <1>1 DEF Known, Typed, TypeOK, Of
    <3>2. AckFrom(info[d], x) \/ (info[d] = p /\ x = c)
      BY <1>6, <2>1, <3>1 DEF AckFrom
    <3> QED BY <1>1, <1>11, <3>1, <3>2 DEF Newest
  <2> QED BY <1>1, <2>1 DEF Newest
<1>13. SweepOrder'
  <2>1. \A x : Ahead(x)' <=> Ahead(x)
    BY <1>1 DEF Ahead
  <2>2. \A x \in Conns : Of(p, x) => ~ (c < x)
    BY <1>2, <1>11
  <2>3. ASSUME backlog # <<>> PROVE backlog[1] \in Conns /\ backlog[1] \in Elems(backlog)
    BY <2>3, <1>1, SeqElems DEF Typed
  <2>4. \A x \in Elems(hub) : \A y \in Elems(backlog) : x < y
    BY <1>1 DEF Ordered
  <2>5. ASSUME NEW x \in Elems(hub) \cap Conns, NEW y \in Elems(hub) \cap Conns,
               NEW q \in Peers, x < y, AckFrom(q, x)', Of(q, y)'
        PROVE  AckFrom(q, x) /\ Of(q, y)
    BY <1>6, <1>7, <2>2, <2>5
  <2>6. ASSUME backlog # <<>>, NEW x \in Elems(hub) \cap Conns, NEW q \in Peers,
               AckFrom(q, x)', Of(q, backlog[1])'
        PROVE  AckFrom(q, x) /\ Of(q, backlog[1])
    <3>1. backlog[1]' = backlog[1]
      BY <1>1
    <3>2. Of(q, backlog[1])
      BY <1>1, <1>7, <2>3, <2>6 DEF Of, SentBy
    <3> QED BY <1>6, <2>2, <2>3, <2>4, <2>6, <3>2
  <2> QED BY <1>1, <2>1, <2>3, <2>5, <2>6 DEF SweepOrder
<1>14. Swept'
  BY <1>1 DEF Swept, SweepComplete
<1> QED BY <1>5, <1>8, <1>9, <1>10, <1>12, <1>13, <1>14 DEF IInv

LEMMA ClientSendStep == ASSUME IInv, NEW p \in Peers, ClientSend(p) PROVE IInv'
<1> DEFINE c == conn[p]
           data == [kind |-> "DATA", from |-> p]
<1>1. /\ Typed /\ c # 0 /\ toSrv' = [toSrv EXCEPT ![c] = Append(@, data)]
      /\ UNCHANGED <<hub, cursor, readfds, phase, info, queue, cut, acked, served>>
      /\ UNCHANGED <<backlog, toCli, conn, made>>
  BY DEF IInv, ClientSend, Usable, server, peer
<1>2. /\ c \in Conns /\ Of(p, c) /\ toSrv \in [Conns -> Seq(Message)] /\ data \in Message
  BY <1>1 DEF Typed, TypeOK, Of, Message
<1> HIDE DEF c, data
<1>3. /\ Append(toSrv[c], data) \in Seq(Message)
      /\ Elems(Append(toSrv[c], data)) = Elems(toSrv[c]) \cup {data}
  BY <1>1, <1>2, SeqElems
<1>4. /\ toSrv' \in [Conns -> Seq(Message)]
      /\ \A x \in Conns : /\ Elems(toSrv'[x]) \subseteq Elems(toSrv[x]) \cup {data}
                          /\ x # c => toSrv'[x] = toSrv[x]
  BY <1>1, <1>2, <1>3
<1>5. Typed'
  BY <1>1, <1>4 DEF Typed, TypeOK
<1>6. \A q \in Peers, x \in Conns : AckFrom(q, x)' => AckFrom(q, x)
  BY <1>4 DEF AckFrom, data
<1>7. \A q \in Peers, x \in Conns : Of(q, x)' => Of(q, x)
  <2>1. \A q \in Peers, x \in Conns : SentBy(q, x)' => SentBy(q, x) \/ (q = p /\ x = c)
    BY <1>4 DEF SentBy, data
  <2> QED BY <1>1, <1>2, <2>1 DEF Of
<1> QED BY <1>1, <1>5, <1>6, <1>7, QuietStep DEF IInv

LEMMA CrashStep == ASSUME IInv, NEW p \in Peers, Crash(p) PROVE IInv'
<1>1. /\ Typed /\ conn' = [conn EXCEPT ![p] = 0]
      /\ UNCHANGED <<hub, cursor, readfds, phase, info, queue, cut, acked, served>>
      /\ UNCHANGED <<backlog, toSrv, toCli, made>>
  BY DEF IInv, Crash, server, net
<1>2. /\ conn' \in [Peers -> Conns \cup {0}] /\ \A q \in Peers : conn'[q] \in {0, conn[q]}
      /\ 0 \notin Conns
  BY <1>1, Numbers DEF Typed, TypeOK
<1>3. Typed'
  BY <1>1, <1>2 DEF Typed, TypeOK
<1>4. \A q \in Peers, x \in Conns : /\ AckFrom(q, x)' => AckFrom(q, x)
                                    /\ Of(q, x)' => Of(q, x)
  BY <1>1, <1>2 DEF AckFrom, SentBy, Of
<1> QED BY <1>1, <1>2, <1>3, <1>4, QuietStep DEF IInv

LEMMA RouteStep == ASSUME IInv, NEW p \in Peers, Route(p) PROVE IInv'
<1>1. /\ Typed /\ queue' = Append(queue, p)
      /\ UNCHANGED <<hub, cursor, readfds, phase, info, cut, acked, served>>
      /\ UNCHANGED <<backlog, toSrv, toCli, conn, made>>
  BY DEF IInv, Route, net, peer
<1>2. Typed'
  BY <1>1 DEF Typed, TypeOK
<1>3. \A q \in Peers, x \in Conns : /\ AckFrom(q, x)' => AckFrom(q, x)
                                    /\ Of(q, x)' => Of(q, x)
  BY <1>1 DEF AckFrom, SentBy, Of
<1> QED BY <1>1, <1>2, <1>3, QuietStep DEF IInv

LEMMA StutterStep == ASSUME IInv, UNCHANGED vars PROVE IInv'
<1>1. /\ Typed
      /\ UNCHANGED <<hub, cursor, readfds, phase, info, queue, cut, acked, served>>
      /\ UNCHANGED <<backlog, toSrv, toCli, conn, made>>
  BY DEF IInv, vars, server, net, peer
<1>2. Typed'
  BY <1>1 DEF Typed, TypeOK
<1>3. \A q \in Peers, x \in Conns : /\ AckFrom(q, x)' => AckFrom(q, x)
                                    /\ Of(q, x)' => Of(q, x)
  BY <1>1 DEF AckFrom, SentBy, Of
<1> QED BY <1>1, <1>2, <1>3, QuietStep DEF IInv

LEMMA NextIInv == IInv /\ [Next]_vars => IInv'
<1> SUFFICES ASSUME IInv, [Next]_vars PROVE IInv'
  OBVIOUS
<1>1. ASSUME NEW c \in Conns, ReadMessage(c) PROVE IInv'
  BY <1>1, ReadAckStep, ReadDataStep
<1>2. CASE Thread
  BY <1>1, <1>2, SelectStep, GetActiveReadStep, SendStep, AcceptStep, ReadNothingStep
     DEF Thread
<1>3. ASSUME NEW p \in Peers,
             Connect(p) \/ ClientRead(p) \/ ClientSend(p) \/ Crash(p) \/ Route(p)
      PROVE  IInv'
  BY <1>3, ConnectStep, ClientReadStep, ClientSendStep, CrashStep, RouteStep
<1>4. CASE UNCHANGED vars
  BY <1>4, StutterStep
<1> QED BY <1>2, <1>3, <1>4 DEF Next

-----------------------------------------------------------------------------
(* A peer that is known is found on the last acknowledged of its           *)
(* connections: the one of its connectors in the hub.                      *)
Latest(p, f) ==
    /\ f \in Nat
    /\ f = 0 => \A c \in acked : info[c] # p
    /\ f # 0 => /\ f \in Elems(hub) \cap acked /\ info[f] = p
                /\ \A c \in acked : info[c] = p => c <= f

FoundLatest == \A p \in Peers : Latest(p, Found(hub, info, p))

LEMMA FoundIsKnown == IInv => FoundLatest
<1> SUFFICES ASSUME IInv, NEW p \in Peers PROVE Latest(p, Found(hub, info, p))
  BY DEF FoundLatest
<1> DEFINE f == Found(hub, info, p)
<1>1. /\ Typed /\ Known /\ OneConnectorPerPeer /\ hub \in Seq(Nat)
      /\ Conns \subseteq Nat \ {0} /\ None \notin Peers /\ acked \subseteq Conns
  BY Numbers DEF IInv, Typed, TypeOK
<1>2. ASSUME NEW c \in acked, info[c] = p
      PROVE  \E d \in Elems(hub) \cap Conns : c <= d /\ info[d] = p
  <2>1. c \in Elems(hub) \/ \E d \in acked \cap Elems(hub) : c < d /\ info[d] = info[c]
    BY <1>1 DEF Known
  <2> QED BY <1>1, <1>2, <2>1
<1>3. CASE f = 0
  <2>1. \A c \in Elems(hub) \cap Conns : info[c] # p
    BY <1>1, <1>3, FoundIs
  <2> QED BY <1>2, <1>3, <2>1 DEF Latest
<1>4. CASE f # 0
  <2>1. f \in Elems(hub) \cap Conns /\ info[f] = p
    BY <1>1, <1>4, FoundIs
  <2>2. f \in acked
    BY <1>1, <2>1 DEF Known
  <2>3. ASSUME NEW c \in acked, info[c] = p PROVE c <= f
    <3>1. PICK d \in Elems(hub) \cap Conns : c <= d /\ info[d] = p
      BY <1>2, <2>3
    <3>2. d = f
      BY <1>1, <2>1, <3>1 DEF OneConnectorPerPeer
    <3> QED BY <3>1, <3>2
  <2> QED BY <1>1, <1>4, <2>1, <2>2, <2>3 DEF Latest
<1> QED BY <1>3, <1>4

(* The present connection of a peer, once acknowledged, is the one found.  *)
LEMMA PresentIsFound == IInv => LookupIsPresent
<1> SUFFICES ASSUME IInv, NEW p \in Peers, conn[p] \in acked
             PROVE  Found(hub, info, p) = conn[p]
  BY DEF LookupIsPresent
<1> DEFINE f == Found(hub, info, p)
<1>1. /\ Typed /\ Owned /\ Known /\ acked \subseteq Conns /\ Conns \subseteq Nat \ {0}
      /\ conn[p] \in Conns
  BY Numbers DEF IInv, Typed, TypeOK
<1>2. info[conn[p]] = p
  <2>1. info[conn[p]] \in Peers
    BY <1>1 DEF Known
  <2> QED BY <1>1, <2>1 DEF Owned, Of
<1>3. f # 0 /\ f \in Conns /\ info[f] = p /\ conn[p] <= f
  BY <1>1, <1>2, FoundIsKnown DEF FoundLatest, Latest
<1>4. f <= conn[p]
  BY <1>1, <1>3 DEF Owned, Of
<1>5. f \in Nat /\ conn[p] \in Nat
  BY <1>1, <1>3
<1> HIDE DEF f
<1>6. f = conn[p]
  BY <1>3, <1>4, <1>5
<1> QED BY <1>6 DEF f

(* The hub holds one connector of a peer, finds the peer on its present    *)
(* connection, and its sweeps serve every connector that is ready.         *)
THEOREM HubSoundCorrect == Spec => []HubSound
<1>1. IInv => HubSound
  BY PresentIsFound DEF IInv, Typed, Swept, HubSound
<1>2. Init => IInv
  BY InitIInv
<1>3. IInv /\ [Next]_vars => IInv'
  BY NextIInv
<1> QED BY <1>1, <1>2, <1>3, PTL DEF Spec

(* A step keeps what was acknowledged, and whose it is. *)
LEMMA AckedStays ==
    ASSUME IInv, [Next]_vars
    PROVE  acked \subseteq acked' /\ \A c \in acked : info'[c] = info[c]
<1>1. ASSUME NEW c \in Conns, ReadMessage(c), toSrv[c][1].kind = "ACK"
      PROVE  acked \subseteq acked' /\ \A x \in acked : info'[x] = info[x]
  <2>1. PICK p \in Peers : /\ info' = [info EXCEPT ![c] = p] /\ acked' = acked \cup {c}
                           /\ c \in acked => info[c] = p
    BY <1>1, AckReplaces
  <2>2. info \in [Conns -> Peers \cup {None, Zeroed}] /\ acked \subseteq Conns
    BY DEF IInv, Typed, TypeOK
  <2> QED BY <2>1, <2>2
<1>2. ASSUME NEW c \in Conns, ReadMessage(c), toSrv[c][1].kind # "ACK"
      PROVE  UNCHANGED <<acked, info>>
  BY <1>2 DEF ReadMessage
<1>3. CASE Thread
  <2>1. CASE \E c \in Conns : ReadMessage(c)
    BY <1>1, <1>2, <2>1
  <2>2. CASE ~ \E c \in Conns : ReadMessage(c)
    BY <1>3, <2>2 DEF Thread, Select, GetActiveRead, SendOne, SendDone, Accept, ReadNothing
  <2> QED BY <2>1, <2>2
<1>4. ASSUME NEW p \in Peers,
             Connect(p) \/ ClientRead(p) \/ ClientSend(p) \/ Crash(p) \/ Route(p)
      PROVE  UNCHANGED <<acked, info>>
  BY <1>4 DEF Connect, ClientRead, ClientSend, Crash, Route, server
<1>5. CASE UNCHANGED vars
  BY <1>5 DEF vars, server
<1> QED BY <1>3, <1>4, <1>5 DEF Next

(* A step never turns the lookup of a peer back to an older connection, or *)
(* to none.                                                                *)
THEOREM LookupMovesForwardCorrect == Spec => LookupMovesForward
<1>1. IInv => FoundLatest
  BY FoundIsKnown
<1>2. IInv /\ [Next]_vars => IInv'
  BY NextIInv
<1>3. IInv /\ [Next]_vars => FoundLatest /\ FoundLatest'
  BY <1>1, <1>2, PTL
<1>4. ASSUME IInv, [Next]_vars, NEW p \in Peers
      PROVE  Found(hub', info', p) >= Found(hub, info, p)
  <2> DEFINE f == Found(hub, info, p)
             g == Found(hub', info', p)
  <2>1. /\ f \in Nat /\ (f # 0 => f \in acked /\ info[f] = p)
        /\ g \in Nat /\ (g = 0 => \A c \in acked' : info'[c] # p)
        /\ (g # 0 => \A c \in acked' : info'[c] = p => c <= g)
    BY <1>3, <1>4 DEF FoundLatest, Latest
  <2>2. acked \subseteq acked' /\ \A c \in acked : info'[c] = info[c]
    BY <1>4, AckedStays
  <2> HIDE DEF f, g
  <2>3. g >= f
    BY <2>1, <2>2
  <2> QED BY <2>3 DEF f, g
<1>5. IInv /\ [Next]_vars => \A p \in Peers : Found(hub', info', p) >= Found(hub, info, p)
  BY <1>4
<1>6. Init => IInv
  BY InitIInv
<1> QED BY <1>2, <1>5, <1>6, PTL DEF Spec, LookupMovesForward
=============================================================================
