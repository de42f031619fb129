------------------------------ MODULE RouteTree ------------------------------
(***************************************************************************)
(* The policy table and the route operations of                            *)
(* cubelib/dispatch/route_tree.c, as operators on values: what a call does *)
(* to the message, the policy table or the trace list it is given is its   *)
(* result here.                                                            *)
(*                                                                         *)
(* A policy file entry (raw policy) is a record                            *)
(*   [name, newname, sender, type, rjump, ljump, state, types,             *)
(*    main, response]                                                      *)
(* and the table read from a file is                                       *)
(*   [paths, forest, stopped]:                                             *)
(* every ROUTE_PATH built, the ones linked in route_forest (by their index *)
(* in paths), and whether reading stopped at an entry that has no base.    *)
(* "types" stands for the match rules: the message types they accept.      *)
(*                                                                         *)
(* A message is the part of struct message_box the router uses: the head   *)
(* fields, policy (an index in paths, 0 is NULL) and site (path_site): the *)
(* list it points into and the position there, 0 for the list head.        *)
(***************************************************************************)
EXTENDS Integers, Sequences, SequencesExt, FiniteSetsExt

Empty == ""                             \* EMPTY_UUID, an empty name
NoSite == [leg |-> "none", at |-> 0]    \* path_site == NULL

(* The least index of a set of indices, 0 for none: what a search that     *)
(* walks a list from its head and stops at the first hit returns.          *)
FirstOf(S) == IF S = {} THEN 0 ELSE Min(S)

(* The elements of a list at a set of indices, in list order: what a walk  *)
(* over the list that skips the others sees.                               *)
Picked(s, K) ==
    [n \in 1 .. Cardinality(K) |->
        s[CHOOSE k \in K : Cardinality({x \in K : x <= k}) = n]]

-----------------------------------------------------------------------------
(* Searching the table. *)

(* router_find_policy_byname: the first policy of that name whose jumps    *)
(* fit; a policy jump of 0 fits every jump, and so does an ljump of 0.     *)
FindPolicyByName(t, name, rjump, ljump) ==
    LET k == FirstOf({f \in DOMAIN t.forest :
                        LET p == t.paths[t.forest[f]]
                        IN  /\ p.name = name
                            /\ p.rjump = 0 \/ p.rjump = rjump \/ p.rjump = -rjump
                            /\ ljump = 0 \/ p.ljump = 0 \/ p.ljump = ljump})
    IN  IF k = 0 THEN 0 ELSE t.forest[k]

(* route_match_sender, route_match_message_jump and, for the rules,        *)
(* route_match_message.                                                    *)
MatchesPolicy(p, m) ==
    /\ p.sender = m.sender
    /\ p.rjump = 0 \/ p.rjump = m.rjump
    /\ p.ljump = 0 \/ p.ljump = m.ljump
    /\ m.route = Empty \/ m.route = p.name
    /\ m.type \in p.types

(* router_find_route_policy, for a message that has no path yet. *)
FindRoutePolicy(t, m) ==
    LET k == FirstOf({f \in DOMAIN t.forest : MatchesPolicy(t.paths[t.forest[f]], m)})
    IN  IF k = 0 THEN 0 ELSE t.forest[k]

-----------------------------------------------------------------------------
(* Reading the policy file. *)

(* route_policy_addrouterule and route_tree_addresponserule: one ROUTE_NODE *)
(* per rule, then the FINISH node.                                         *)
Nodes(rules) ==
    Append([k \in DOMAIN rules |->
                [kind |-> rules[k].kind, to |-> rules[k].to, branches |-> <<>>]],
           [kind |-> "FINISH", to |-> Empty, branches |-> <<>>])

IsBranch(raw) == raw.type \in {"DUP", "ASPECT"}

PathFlow(raw) == CASE raw.type = "DUP"    -> "DELIVER"
                   [] raw.type = "ASPECT" -> "QUERY"
                   [] OTHER               -> raw.type

(* The ROUTE_PATH that route_read_policy fills in. *)
NewPath(raw) ==
    [name   |-> IF IsBranch(raw) THEN raw.newname ELSE raw.name,
     sender |-> IF IsBranch(raw) THEN Empty ELSE raw.sender,
     flow   |-> PathFlow(raw),
     ljump  |-> raw.ljump,
     rjump  |-> IF raw.rjump >= 0 THEN raw.rjump ELSE -raw.rjump,
     state  |-> raw.state,
     types  |-> raw.types,
     main   |-> Nodes(raw.main),
     resp   |-> IF PathFlow(raw) = "QUERY" THEN Nodes(raw.response) ELSE <<>>]

(* The branch node is put at the ljump-th node of the base policy, on the  *)
(* response list when rjump is negative (route_get_node_byjump).           *)
WithBranch(paths, base, raw, branch) ==
    IF raw.rjump >= 0
    THEN [paths EXCEPT ![base].main[raw.ljump].branches = Append(@, branch)]
    ELSE [paths EXCEPT ![base].resp[raw.ljump].branches = Append(@, branch)]

(* One entry: route_read_policy, then read_dispatch_file, which keeps a    *)
(* closed or ignored policy out of the forest, and gives up on the file at *)
(* an entry whose base policy is missing.                                  *)
ReadPolicy(t, raw) ==
    LET base  == FindPolicyByName(t, raw.name, raw.rjump, raw.ljump)
        new   == Len(t.paths) + 1
        kept  == IF IsBranch(raw)
                 THEN WithBranch(t.paths, base, raw, [kind |-> raw.type, path |-> new])
                 ELSE t.paths
    IN  IF t.stopped \/ (IsBranch(raw) /\ base = 0)
        THEN [t EXCEPT !.stopped = TRUE]
        ELSE [t EXCEPT !.paths  = Append(kept, NewPath(raw)),
                       !.forest = IF raw.state = "open" THEN Append(@, new) ELSE @]

ReadDispatchFile(raws) ==
    LET after[k \in 0 .. Len(raws)] ==     \* the table after k entries
            IF k = 0 THEN [paths |-> <<>>, forest |-> <<>>, stopped |-> FALSE]
                     ELSE ReadPolicy(after[k - 1], raws[k])
    IN  after[Len(raws)]

-----------------------------------------------------------------------------
(* Trace nodes: [kind, nonce, source, target, policy, saved].  They are    *)
(* only ever added.                                                        *)

(* _create_trace_node *)
QueryTrace(m) ==
    [kind |-> "query", nonce |-> m.nonce, source |-> m.sender, target |-> Empty,
     policy |-> m.policy, saved |-> <<>>]

(* Mutant: the first trace of the hash list, whatever its nonce. *)
FindTrace_AnyNonce(traces, nonce, kind) ==
    FirstOf({k \in DOMAIN traces : traces[k].kind = kind})

(* message_route_findtrace, _find_flowtype_node *)
FindTrace(traces, nonce, kind) ==
    FirstOf({k \in DOMAIN traces : traces[k].nonce = nonce /\ traces[k].kind = kind})

(* Mutant: no trace where the query begins. *)
StartTraces_NotAtOrigin(m) ==
    IF m.flow = "QUERY" /\ m.state # "RESPONSE" /\ m.rjump > 1 THEN <<QueryTrace(m)>> ELSE <<>>

(* What message_route_setstart and message_route_setremotestart add. *)
StartTraces(m) ==
    IF m.flow = "QUERY" /\ m.state # "RESPONSE" THEN <<QueryTrace(m)>> ELSE <<>>

-----------------------------------------------------------------------------
(* Starting on a path. *)

(* message_route_setstart *)
SetStart(t, m, p) ==
    [m EXCEPT !.policy = p, !.flow = t.paths[p].flow, !.state = "MATCH",
              !.route = t.paths[p].name, !.site = [leg |-> "main", at |-> 0]]

(* message_route_setremotestart, for a message that is no response: the    *)
(* policy is found by the name and rjump the message carries; 0 if none.   *)
SetRemoteStart(t, m) ==
    LET p == FindPolicyByName(t, m.route, m.rjump, 0)
    IN  IF p = 0 THEN m
        ELSE [m EXCEPT !.policy = p, !.site = [leg |-> "main", at |-> 0]]

(* Mutant: path_site is not set. *)
SetTraceTarget_NoSite(m, trace) ==
    [m EXCEPT !.sender = trace.target, !.local = FALSE, !.policy = trace.policy]

(* message_route_settracetarget: a response resumes on the response path   *)
(* of the policy its query was on here.                                    *)
SetTraceTarget(m, trace) ==
    [m EXCEPT !.sender = trace.target, !.local = FALSE,
              !.policy = trace.policy, !.site = [leg |-> "resp", at |-> 0]]

-----------------------------------------------------------------------------
(* Moving along a path. *)

Leg(p, leg) == IF leg = "main" THEN p.main ELSE p.resp

(* rule_get_target *)
GetTarget(node, m) ==
    CASE node.kind \in {"LOCAL", "PORT"} -> [m EXCEPT !.receiver = node.to, !.local = TRUE]
      [] node.kind \in {"NAME", "CONN"}  -> [m EXCEPT !.receiver = node.to, !.local = FALSE]
      [] node.kind = "FINISH"            -> m

(* message_route_setnext and set_next_pathsite.  ret is the kind of the    *)
(* node reached, or "end" past the last node: the end of the main list is  *)
(* recognised and clears path_site, the end of the response list is not,   *)
(* and path_site comes to rest on its head.                                *)
SetNext(t, m) ==
    LET list == Leg(t.paths[m.policy], m.site.leg)
        at   == m.site.at + 1
        past == m.site.leg = "none" \/ at > Len(list)
    IN  IF past
        THEN [ret |-> "end",
              msg |-> [m EXCEPT !.receiver = Empty,
                                !.site = IF m.site.leg = "resp"
                                         THEN [leg |-> "resp", at |-> 0] ELSE NoSite]]
        ELSE [ret |-> list[at].kind,
              msg |-> GetTarget(list[at], [m EXCEPT !.site.at = at])]

(* Mutant: MSG_FLAG_LOCAL is left set. *)
SetTraceSrc_KeepsLocal(m, trace) ==
    [m EXCEPT !.receiver = trace.source, !.state = "RESPONSE"]

(* message_route_settracesrc: the answer goes to where the query came from. *)
SetTraceSrc(m, trace) ==
    [m EXCEPT !.receiver = trace.source, !.state = "RESPONSE", !.local = FALSE]

-----------------------------------------------------------------------------
(* Branches. *)

(* The branches of the node path_site points to. *)
Branches(t, m) ==
    IF m.site.leg = "none" \/ m.site.at = 0 THEN <<>>
    ELSE Leg(t.paths[m.policy], m.site.leg)[m.site.at].branches

(* _route_match_aspect_branch: the rjump of the branch, then its rules. *)
BranchMatches(t, m, b) ==
    LET p == t.paths[b.path]
    IN  (p.rjump = 0 \/ p.rjump = m.rjump) /\ m.type \in p.types

(* route_dup_message: a clone, started on the branch path. *)
DupMessage(t, m, b) ==
    SetStart(t, [m EXCEPT !.ljump = 1, !.rjump = 1], b.path)

(* _create_aspect_node: the trace keeps the message as it was, of which    *)
(* RecoverAspect reads back the fields the code saves.                     *)
AspectTrace(m, fresh) ==
    [kind |-> "aspect", nonce |-> fresh, source |-> m.sender, target |-> m.receiver,
     policy |-> m.policy, saved |-> <<m>>]

(* route_aspect_message: the message itself, diverted to the branch path. *)
AspectMessage(t, m, b, fresh) ==
    SetStart(t, [m EXCEPT !.nonce = fresh, !.ljump = 1, !.rjump = 1], b.path)

(* Mutant: the message keeps the nonce of its diversion. *)
RecoverAspect_KeepsNonce(m, trace) ==
    LET s == trace.saved[1]
    IN  [m EXCEPT !.sender = s.sender, !.receiver = s.receiver,
                  !.route = s.route, !.flow = s.flow, !.state = s.state,
                  !.local = s.local, !.ljump = s.ljump, !.rjump = s.rjump,
                  !.policy = s.policy, !.site = s.site]

(* _recover_aspect_message *)
RecoverAspect(m, trace) ==
    LET s == trace.saved[1]
    IN  [m EXCEPT !.nonce = s.nonce, !.sender = s.sender, !.receiver = s.receiver,
                  !.route = s.route, !.flow = s.flow, !.state = s.state,
                  !.local = s.local, !.ljump = s.ljump, !.rjump = s.rjump,
                  !.policy = s.policy, !.site = s.site]
=============================================================================
