----------------------------- MODULE RouteMatch -----------------------------
(***************************************************************************)
(* The match rules of a policy: route_match_message and _route_match_rules *)
(* of cubelib/dispatch/route_tree.c, two copies of one loop that differ in *)
(* the test before it.  One step of the model is one turn of the loop.     *)
(*                                                                         *)
(* A rule is [area, type, subtype, value, op]; value says how the fields   *)
(* it lists compare with the message's ("none": it lists no fields).  The  *)
(* message is [type, subtype, rec, expands]: rec tells whether             *)
(* message_get_record finds a record, none, or fails; expands holds the    *)
(* type pairs of its expansions.                                           *)
(***************************************************************************)
EXTENDS Integers, Sequences

CONSTANTS
    Rules,      \* the rules policies are made of
    Messages,   \* the messages
    MaxRules    \* bound: rules of a policy

Types    == Nat     \* record types; 0 in a rule stands for any
Areas    == {"head", "record", "expand", "null"}
Values   == {"none", "equal", "differs"}
Ops      == {"AND", "OR", "NOT", "ORNOT"}
RuleSet  == [area : Areas, type : Types, subtype : Types, value : Values, op : Ops]
MessageSet == [type : Types, subtype : Types, rec : {"present", "absent", "bad"},
               expands : SUBSET (Types \X Types)]

ASSUME RulesAssumption    == Rules \subseteq RuleSet
ASSUME MessagesAssumption == Messages \subseteq MessageSet
ASSUME MaxRulesAssumption == MaxRules \in Nat

VARIABLES
    rules,      \* the policy's match_list
    msg,        \* the message
    gate,       \* the test before the loop: passed, "no" (0) or "error" (< 0)
    k,          \* the rule the loop is at
    result,     \* the local of that name; kept from turn to turn
    prev,       \* prev_result
    ret,        \* what was returned: 1, 0 or -1; 2 while it runs
    stale       \* history: a rule was judged a match by the rule before it

rmvars == <<rules, msg, gate, k, result, prev, ret, stale>>

(* The test before the loop: route_match_message returns 0 for a message   *)
(* with another policy's name on it, _route_match_rules an error for one   *)
(* at another rjump.                                                       *)
RmInit ==
    /\ rules \in UNION {[1 .. n -> Rules] : n \in 0 .. MaxRules}
    /\ msg \in Messages
    /\ gate \in {"pass", "no", "error"}
    /\ k = 1 /\ result = 0 /\ prev = 0 /\ stale = FALSE
    /\ ret = CASE gate = "pass" -> 2 [] gate = "no" -> 0 [] OTHER -> -1

-----------------------------------------------------------------------------
(* A head rule whose type is the message's, and whose subtype is another:  *)
(* no branch of the code assigns result.                                   *)
Unassigned(r, m) ==
    r.area = "head" /\ r.type # 0 /\ r.type = m.type
        /\ r.subtype # 0 /\ r.subtype # m.subtype

Compares(r) == IF r.value = "differs" THEN 0 ELSE 1

(* Mutant: the subtype of a head rule is not looked at. *)
HeadResult_TypeOnly(r, m, old) ==
    IF r.type = 0 \/ r.type = m.type THEN 1 ELSE 0

(* The if-chain over the areas, one operator per area. *)
HeadResult(r, m, old) ==
    CASE Unassigned(r, m) -> old
      [] ~Unassigned(r, m) /\ (r.type = 0 \/ r.type = m.type) -> 1
      [] OTHER -> 0

RecordResult(r, m) ==
    CASE r.type = 0 -> 1
      [] r.type # 0 /\ (r.type # m.type \/ r.subtype # m.subtype) -> 0
      [] r.type # 0 /\ r.type = m.type /\ r.subtype = m.subtype ->
            CASE r.value = "none"  -> 1
              [] r.value # "none"  ->
                    CASE m.rec = "bad"     -> -1
                      [] m.rec = "absent"  -> 0
                      [] m.rec = "present" -> Compares(r)

ExpandResult(r, m) ==
    IF <<r.type, r.subtype>> \in m.expands THEN Compares(r) ELSE 0

Result(r, m, old) ==
    CASE r.area = "head"   -> HeadResult(r, m, old)
      [] r.area = "record" -> RecordResult(r, m)
      [] r.area = "expand" -> ExpandResult(r, m)
      [] r.area = "null"   -> 0

(* The switch on the operator: what a result makes the loop return, 2 to   *)
(* go on.                                                                  *)
Returns(op, res) ==
    CASE res < 0                   -> -1
      [] res = 0 /\ op = "AND"     -> 0
      [] res = 0 /\ op = "ORNOT"   -> 1
      [] res > 0 /\ op = "OR"      -> 1
      [] res > 0 /\ op = "NOT"     -> 0
      [] OTHER                     -> 2

Turn ==
    /\ ret = 2 /\ k <= Len(rules)
    /\ LET r   == rules[k]
           res == Result(r, msg, result)
           out == Returns(r.op, res)
       IN  /\ result' = res
           /\ stale' = (stale \/ (Unassigned(r, msg) /\ result = 1))
           /\ ret' = out
           /\ prev' = IF out = 2 /\ r.op \in {"AND", "NOT"} THEN 1 ELSE prev
    /\ k' = k + 1
    /\ UNCHANGED <<rules, msg, gate>>

(* The end of the list; match_rule_num is 0 only if it was empty. *)
End ==
    /\ ret = 2 /\ k > Len(rules)
    /\ ret' = IF rules = <<>> THEN 0 ELSE prev
    /\ UNCHANGED <<rules, msg, gate, k, result, prev, stale>>

RmNext == Turn \/ End

RmSpec == RmInit /\ [][RmNext]_rmvars

-----------------------------------------------------------------------------
(* What a rule list means, with every rule judged by itself: the verdict   *)
(* of the first rule that settles the matter, or else whether some rule    *)
(* that had to hold (AND, NOT) was there.                                  *)

SameKind(r, m) == r.type = m.type /\ r.subtype = m.subtype

(* The rule cannot be judged: the record does not load. *)
Fails(r, m) == r.area = "record" /\ r.type # 0 /\ SameKind(r, m)
                /\ r.value # "none" /\ m.rec = "bad"

Holds(r, m) ==
    \/ r.area \in {"head", "record"} /\ r.type = 0
    \/ r.area = "head" /\ r.type = m.type /\ r.subtype \in {0, m.subtype}
    \/ /\ r.area = "record" /\ SameKind(r, m)
       /\ r.value = "none" \/ (r.value = "equal" /\ m.rec = "present")
    \/ /\ r.area = "expand" /\ <<r.type, r.subtype>> \in m.expands
       /\ r.value # "differs"

(* The rule settles the matter, as v. *)
Settles(r, m, v) ==
    \/ v = -1 /\ Fails(r, m)
    \/ v = 0 /\ ~Fails(r, m) /\ r.op = "AND" /\ ~Holds(r, m)
    \/ v = 0 /\ ~Fails(r, m) /\ r.op = "NOT" /\ Holds(r, m)
    \/ v = 1 /\ ~Fails(r, m) /\ r.op = "OR" /\ Holds(r, m)
    \/ v = 1 /\ ~Fails(r, m) /\ r.op = "ORNOT" /\ ~Holds(r, m)

Open(r, m) == \A v \in {-1, 0, 1} : ~Settles(r, m, v)

Demands(r) == r.op \in {"AND", "NOT"}

Means(rs, m, v) ==
    \/ \E n \in DOMAIN rs : Settles(rs[n], m, v) /\ \A j \in 1 .. n - 1 : Open(rs[j], m)
    \/ /\ \A n \in DOMAIN rs : Open(rs[n], m)
       /\ v = IF \E n \in DOMAIN rs : Demands(rs[n]) THEN 1 ELSE 0

(* The values of the locals. *)
RmTypeOK ==
    /\ k \in 1 .. Len(rules) + 1
    /\ result \in {-1, 0, 1} /\ prev \in {0, 1} /\ ret \in {-1, 0, 1, 2}
    /\ stale \in BOOLEAN

(* The loop returns what the list means, for every list and message,       *)
(* unless a head rule met a message of its type and another subtype right  *)
(* after a rule that matched: that rule's result is used again then.       *)
MatchesMeaning == gate = "pass" /\ ret # 2 /\ ~stale => Means(rules, msg, ret)
=============================================================================
