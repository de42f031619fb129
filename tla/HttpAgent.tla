----------------------------- MODULE HttpAgent -----------------------------
(***************************************************************************)
(* The agent of the HTTP file server, http_fileserver_agent.c: it          *)
(* registers servers, starts them, and downloads and uploads files with    *)
(* shell commands in a forked process.  The child runs its command and     *)
(* then returns from the handler: it goes on as a second agent with the    *)
(* queue and the records it had at the fork, and without the threads that  *)
(* bring messages or take them away.                                       *)
(***************************************************************************)
EXTENDS Naturals, Sequences, FiniteSets

CONSTANTS HaServers,  \* SERVER records in the order of the record database
          HaRequests, \* messages the agent may get
          HaMaxMsgs   \* bound: messages

ASSUME HaAssumption ==
    /\ HaMaxMsgs \in Nat /\ DOMAIN HaServers \subseteq Nat \ {0}
    /\ \A r \in HaRequests : r.kind = "server" => r.uuid \in DOMAIN HaServers

VARIABLES agents,  \* the agent and its children: queue and registered servers
          posted,  \* messages so far
          ran,     \* how often the command of each message was run
          sent     \* what the first agent sent: for each message, in order

havars == <<agents, posted, ran, sent>>

Commands == {"start", "download", "upload"}

(* memdb_find_byname, or memdb_find_first for a start with a uuid: the     *)
(* first record that fits                                                  *)
Found(db, m) ==
    {s \in db : /\ IF m.uuid # 0 THEN s = m.uuid ELSE HaServers[s].name = m.name
                /\ \A o \in db : o < s => IF m.uuid # 0 THEN o # m.uuid
                                          ELSE HaServers[o].name # m.name}

RanOnce(id) == [ran EXCEPT ![id] = @ + 1]

(* The messages of the child go nowhere.                                   *)
Send_Any(a, m, what) == sent' = Append(sent, [id |-> m.id, what |-> what])

Send(a, m, what) == sent' = IF a = 1 THEN Append(sent, [id |-> m.id, what |-> what]) ELSE sent

Rest(a) == [agents EXCEPT ![a].queue = Tail(@)]

-----------------------------------------------------------------------------
(* proc_http_server_register: the record, and a message with its type      *)
Register(a, m) ==
    /\ m.kind = "server"
    /\ agents' = [Rest(a) EXCEPT ![a].db = @ \cup {m.uuid}]
    /\ Send(a, m, "types")
    /\ UNCHANGED ran

(* A command for a server of the wrong local_type - 1 runs here, 2 is used *)
(* from here - is answered, one for an unknown server is not.              *)
Unknown(a, m) ==
    /\ Found(agents[a].db, m) = {}
    /\ agents' = Rest(a)
    /\ UNCHANGED <<ran, sent>>

WrongMode(a, m, type) ==
    /\ \E s \in Found(agents[a].db, m) : HaServers[s].mode # type
    /\ agents' = Rest(a)
    /\ Send(a, m, "refused")
    /\ UNCHANGED ran

Run_Unsent(a, m, type) ==
    /\ \E s \in Found(agents[a].db, m) : HaServers[s].mode = type
    /\ agents' = Append(Rest(a), Rest(a)[a])
    /\ ran' = RanOnce(m.id)
    /\ UNCHANGED sent

Run_Late(a, m, type) ==
    /\ \E s \in Found(agents[a].db, m) : HaServers[s].mode = type
    /\ agents' = Append(Rest(a), agents[a])
    /\ ran' = RanOnce(m.id)
    /\ Send(a, m, "forwarded")

(* fork: the child runs the command, the parent sends the message on.      *)
Run(a, m, type) ==
    /\ \E s \in Found(agents[a].db, m) : HaServers[s].mode = type
    /\ agents' = Append(Rest(a), Rest(a)[a])
    /\ ran' = RanOnce(m.id)
    /\ Send(a, m, "forwarded")

Command(a, m, type) == Unknown(a, m) \/ WrongMode(a, m, type) \/ Run(a, m, type)

Start(a, m) == m.kind = "start" /\ Command(a, m, 1)
Download(a, m) == m.kind = "download" /\ Command(a, m, 2)
Upload(a, m) == m.kind = "upload" /\ Command(a, m, 2)

(* proc_http_file_check: the file is there or not, in the directory of a   *)
(* server or, for a client, in the directory of the process                *)
Check(a, m) ==
    /\ m.kind = "check"
    /\ \/ Unknown(a, m)
       \/ /\ Found(agents[a].db, m) # {}
          /\ \E there \in BOOLEAN : Send(a, m, IF there THEN "exist" ELSE "notfound")
          /\ agents' = Rest(a)
          /\ UNCHANGED ran

(* proc_http_server_action                                                 *)
Act(a, m) == Start(a, m) \/ Download(a, m) \/ Upload(a, m) \/ Check(a, m)

(* Any other message goes on.                                              *)
Forward(a, m) ==
    /\ m.kind = "other"
    /\ agents' = Rest(a)
    /\ Send(a, m, "forwarded")
    /\ UNCHANGED ran

(* A round of http_fileserver_agent_start, in the agent or in a child      *)
Handle(a) ==
    /\ agents[a].queue # <<>>
    /\ \E m \in {Head(agents[a].queue)} :
          Register(a, m) \/ Act(a, m) \/ Forward(a, m)
    /\ UNCHANGED posted

(* The router brings a message to the first agent.                         *)
Post(r) ==
    /\ posted < HaMaxMsgs
    /\ posted' = posted + 1
    /\ agents' = [agents EXCEPT ![1].queue =
           Append(@, [kind |-> r.kind, name |-> r.name, uuid |-> r.uuid, id |-> posted + 1,
                      ahead |-> Cardinality({i \in DOMAIN @ : @[i].kind \in Commands})])]
    /\ UNCHANGED <<ran, sent>>

-----------------------------------------------------------------------------
HaInit ==
    /\ agents = <<[queue |-> <<>>, db |-> {}]>>
    /\ posted = 0
    /\ ran = [i \in 1..HaMaxMsgs |-> 0]
    /\ sent = <<>>

HaNext == (\E r \in HaRequests : Post(r)) \/ (\E a \in DOMAIN agents : Handle(a))

HaSpec == HaInit /\ [][HaNext]_havars

-----------------------------------------------------------------------------
(* Type invariant.                                                         *)
HaTypeOK ==
    /\ \A a \in DOMAIN agents : agents[a].db \subseteq DOMAIN HaServers
    /\ Len(agents[1].queue) + Len(sent) <= posted
    /\ Len(agents) <= 2^HaMaxMsgs

InQueue(a, id) == \E i \in DOMAIN agents[a].queue : agents[a].queue[i].id = id

(* What was posted with a command still pending in front of it is handled  *)
(* by the children as well: each command in front doubles it, and nothing  *)
(* else does.  A command posted to an idle agent runs once.                *)
HaRunsBounded ==
    \A a \in DOMAIN agents : \A i \in DOMAIN agents[a].queue :
        \E m \in {agents[a].queue[i]} :
            /\ ran[m.id] + Cardinality({b \in DOMAIN agents : InQueue(b, m.id)}) <= 2^m.ahead
            /\ (m.ahead = 0 => a = 1)

(* Children decide as the agent does, on the records of the fork: a        *)
(* command any of them ran is one the agent sends on, and sends on once.   *)
HaRanIsSent ==
    \A id \in 1..posted :
        /\ ran[id] > 0 /\ ~InQueue(1, id) =>
               \E i \in DOMAIN sent : sent[i] = [id |-> id, what |-> "forwarded"]
        /\ Cardinality({i \in DOMAIN sent : sent[i].id = id}) <= 1

(* What the children do of the agent's work: as many repetitions of a      *)
(* command as there are commands in front of it, and no decision of their  *)
(* own.                                                                    *)
HaChildrenBounded ==
    /\ HaTypeOK /\ HaRunsBounded /\ HaRanIsSent
=============================================================================
