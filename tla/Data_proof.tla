----------------------------- MODULE Data_proof -----------------------------
(***************************************************************************)
(* The theorems about two of the components whose state is data.           *)
(*                                                                         *)
(* RouteMatch: the matching loop returns what the rule list means, for     *)
(* lists of any length and every message.                                  *)
(*                                                                         *)
(* MemDB: every list of the record database holds a record once and under  *)
(* the digest of its data, for every set of descriptions and records, read *)
(* and stored in any order, and any number of threads that look templates  *)
(* up.  The invariant is about what name_no counts, what a type record     *)
(* keeps when it is stored again, and where the cursor of a walk stands.   *)
(***************************************************************************)
EXTENDS RouteMatch, MemDB, WellFoundedInduction, TLAPS

-----------------------------------------------------------------------------
(* The match rules *)

(* The inductive invariant: while the loop runs, the rules behind it have  *)
(* settled nothing, prev tells whether one of them demanded a match, and   *)
(* result is that of the last rule, never an error.                        *)
Behind == 1 .. k - 1

Running ==
    gate = "pass" /\ ret = 2 /\ ~stale =>
        /\ \A j \in Behind : Open(rules[j], msg)
        /\ prev = 1 <=> \E j \in Behind : Demands(rules[j])

Inputs ==
    /\ rules \in Seq(RuleSet) /\ msg \in MessageSet
    /\ ret = 2 => result # -1

RmInv == RmTypeOK /\ Inputs /\ Running /\ MatchesMeaning

-----------------------------------------------------------------------------
(* One turn agrees with the meaning of its rule: the if-chain and the      *)
(* switch of the code against Holds, Fails and Settles.                    *)
LEMMA ResultIsHolds ==
    ASSUME NEW r \in RuleSet, msg \in MessageSet, NEW old \in {0, 1},
           Unassigned(r, msg) => old = 0
    PROVE  /\ Result(r, msg, old) = -1 <=> Fails(r, msg)
           /\ Result(r, msg, old) = 1 <=> Holds(r, msg)
           /\ Result(r, msg, old) \in {-1, 0, 1}
           /\ ~(Fails(r, msg) /\ Holds(r, msg))
<1>a. /\ r.area \in Areas /\ r.value \in Values
      /\ r.type \in Nat /\ r.subtype \in Nat /\ msg.type \in Nat /\ msg.subtype \in Nat
      /\ msg.rec \in {"present", "absent", "bad"}
  BY DEF RuleSet, MessageSet, Types
<1>1. CASE r.area = "head"
  BY <1>a, <1>1 DEF Result, HeadResult, Unassigned, Holds, Fails, SameKind
<1>2. CASE r.area = "record"
  BY <1>a, <1>2 DEF Result, RecordResult, Compares, Holds, Fails, SameKind, Values
<1>3. CASE r.area = "expand"
  BY <1>a, <1>3 DEF Result, ExpandResult, Compares, Holds, Fails, SameKind, Values
<1>4. CASE r.area = "null"
  BY <1>a, <1>4 DEF Result, Holds, Fails, SameKind
<1> QED BY <1>a, <1>1, <1>2, <1>3, <1>4 DEF Areas

LEMMA TurnSettles ==
    ASSUME NEW r \in RuleSet, msg \in MessageSet, NEW old \in {0, 1},
           Unassigned(r, msg) => old = 0
    PROVE  LET out == Returns(r.op, Result(r, msg, old))
           IN  /\ out \in {-1, 0, 1, 2}
               /\ out # 2 => Settles(r, msg, out)
               /\ out = 2 => Open(r, msg)
<1> DEFINE res == Result(r, msg, old)
<1>1. /\ res = -1 <=> Fails(r, msg)
      /\ res = 1 <=> Holds(r, msg)
      /\ res \in {-1, 0, 1}
      /\ ~(Fails(r, msg) /\ Holds(r, msg))
  BY ResultIsHolds
<1>2. r.op \in {"AND", "OR", "NOT", "ORNOT"}
  BY DEF RuleSet, Ops
<1> SUFFICES LET out == Returns(r.op, res)
             IN  /\ out \in {-1, 0, 1, 2}
                 /\ out # 2 => Settles(r, msg, out)
                 /\ out = 2 => Open(r, msg)
  BY DEF res
<1> HIDE DEF res
<1>3. CASE res = -1
  BY <1>1, <1>3 DEF Returns, Settles, Open
<1>4. CASE res = 0
  BY <1>1, <1>2, <1>4 DEF Returns, Settles, Open
<1>5. CASE res = 1
  BY <1>1, <1>2, <1>5 DEF Returns, Settles, Open
<1> QED BY <1>1, <1>3, <1>4, <1>5

LEMMA RmInvInit == RmInit => RmInv
<1> SUFFICES ASSUME RmInit PROVE RmInv
  OBVIOUS
<1>1. PICK n \in 0 .. MaxRules : rules \in [1 .. n -> Rules]
  BY DEF RmInit
<1>2. n \in Nat /\ rules \in Seq(RuleSet) /\ Len(rules) = n
  BY <1>1, RulesAssumption, MaxRulesAssumption
<1>3. msg \in MessageSet
  BY MessagesAssumption DEF RmInit
<1>4. k = 1 /\ result = 0 /\ prev = 0 /\ stale = FALSE
      /\ (gate = "pass" => ret = 2) /\ ret \in {-1, 0, 1, 2}
  BY DEF RmInit
<1>5. Behind = {}
  BY <1>4 DEF Behind
<1>6. RmTypeOK
  <2>1. k \in 1 .. Len(rules) + 1
    BY <1>2, <1>4
  <2>2. stale \in BOOLEAN
    BY <1>4
  <2> QED BY <2>1, <2>2, <1>4 DEF RmTypeOK
<1>7. Running
  BY <1>4, <1>5 DEF Running
<1> QED BY <1>2, <1>3, <1>4, <1>6, <1>7 DEF RmInv, Inputs, MatchesMeaning

LEMMA TurnRmInv == RmInv /\ Turn => RmInv'
<1> SUFFICES ASSUME RmInv, Turn PROVE RmInv'
  OBVIOUS
<1> DEFINE r == rules[k]
<1> DEFINE res == Result(r, msg, result)
<1> DEFINE out == Returns(r.op, res)
<1>1. /\ ret = 2 /\ k <= Len(rules) /\ k' = k + 1
      /\ rules' = rules /\ msg' = msg /\ gate' = gate
      /\ result' = res /\ ret' = out
      /\ prev' = IF out = 2 /\ r.op \in {"AND", "NOT"} THEN 1 ELSE prev
  BY DEF Turn
<1>2. stale' = (stale \/ (Unassigned(r, msg) /\ result = 1))
  BY DEF Turn
<1>3. /\ k \in Nat /\ k >= 1 /\ rules \in Seq(RuleSet) /\ msg \in MessageSet
      /\ result \in {0, 1} /\ prev \in {0, 1} /\ stale \in BOOLEAN
  BY <1>1 DEF RmInv, RmTypeOK, Inputs
<1>4. k \in DOMAIN rules /\ r \in RuleSet
  BY <1>1, <1>3
<1>5. r.op \in Ops
  BY <1>4 DEF RuleSet
<1>t. res \in {-1, 0, 1} /\ out \in {-1, 0, 1, 2} /\ (out = 2 => res # -1)
  <2>1. res \in {-1, 0, 1}
    <3>1. CASE Unassigned(r, msg) /\ result = 1
      <4>1. r.area = "head"
        BY <3>1 DEF Unassigned
      <4> QED BY <3>1, <4>1 DEF Result, HeadResult
    <3>2. CASE ~(Unassigned(r, msg) /\ result = 1)
      <4>1. Unassigned(r, msg) => result = 0
        BY <3>2, <1>3
      <4> QED BY <4>1, <1>3, <1>4, ResultIsHolds
    <3> QED BY <3>1, <3>2
  <2> HIDE DEF res
  <2>2. out \in {-1, 0, 1, 2} /\ (out = 2 => res # -1)
    BY <2>1, <1>5 DEF Returns, Ops
  <2> QED BY <2>1, <2>2
<1> HIDE DEF out, res, r
<1>6. RmTypeOK'
  <2>1. k' \in 1 .. Len(rules') + 1
    BY <1>1, <1>3
  <2>2. stale' \in BOOLEAN
    BY <1>2, <1>3
  <2> QED BY <2>1, <2>2, <1>1, <1>3, <1>t DEF RmTypeOK
<1>7. Inputs'
  BY <1>1, <1>3, <1>t DEF Inputs
<1>8. ASSUME gate' = "pass", ~stale' PROVE
        /\ ~stale /\ gate = "pass"
        /\ \A j \in Behind : Open(rules[j], msg)
        /\ prev = 1 <=> \E j \in Behind : Demands(rules[j])
        /\ (out # 2 => Settles(r, msg, out)) /\ (out = 2 => Open(r, msg))
  <2>1. ~stale /\ gate = "pass" /\ (Unassigned(r, msg) => result = 0)
    BY <1>8, <1>1, <1>2, <1>3
  <2>2. /\ \A j \in Behind : Open(rules[j], msg)
        /\ prev = 1 <=> \E j \in Behind : Demands(rules[j])
    BY <2>1, <1>1 DEF RmInv, Running
  <2>3. (out # 2 => Settles(r, msg, out)) /\ (out = 2 => Open(r, msg))
    BY <2>1, <1>3, <1>4, TurnSettles DEF out, res
  <2> QED BY <2>1, <2>2, <2>3
<1>9. Running'
  <2> SUFFICES ASSUME gate' = "pass", ret' = 2, ~stale'
               PROVE  /\ \A j \in Behind' : Open(rules'[j], msg')
                      /\ prev' = 1 <=> \E j \in Behind' : Demands(rules'[j])
    BY DEF Running
  <2>1. Behind' = Behind \cup {k}
    BY <1>1, <1>3 DEF Behind
  <2>3. \A j \in Behind' : Open(rules[j], msg)
    BY <2>1, <1>8, <1>1 DEF r
  <2>4. prev' = 1 <=> \E j \in Behind' : Demands(rules[j])
    <3>1. Demands(r) <=> r.op \in {"AND", "NOT"}
      BY DEF Demands
    <3>2. prev' = 1 <=> (Demands(r) \/ prev = 1)
      BY <3>1, <1>1
    <3>3. prev = 1 <=> \E j \in Behind : Demands(rules[j])
      BY <1>8
    <3> QED BY <3>2, <3>3, <2>1 DEF r
  <2> QED BY <2>3, <2>4, <1>1
<1>10. MatchesMeaning'
  <2> SUFFICES ASSUME gate' = "pass", ret' # 2, ~stale' PROVE Means(rules', msg', ret')
    BY DEF MatchesMeaning
  <2>1. Settles(r, msg, out) /\ \A j \in 1 .. k - 1 : Open(rules[j], msg)
    BY <1>8, <1>1 DEF Behind
  <2>2. Means(rules, msg, out)
    BY <2>1, <1>4 DEF Means, r
  <2> QED BY <2>2, <1>1
<1> QED BY <1>6, <1>7, <1>9, <1>10 DEF RmInv

LEMMA EndRmInv == RmInv /\ End => RmInv'
<1> SUFFICES ASSUME RmInv, End PROVE RmInv'
  OBVIOUS
<1>1. /\ ret = 2 /\ k > Len(rules)
      /\ ret' = IF rules = <<>> THEN 0 ELSE prev
      /\ UNCHANGED <<rules, msg, gate, k, result, prev, stale>>
  BY DEF End
<1>2. /\ k \in 1 .. Len(rules) + 1 /\ rules \in Seq(RuleSet) /\ msg \in MessageSet
      /\ result \in {-1, 0, 1} /\ prev \in {0, 1} /\ stale \in BOOLEAN
      /\ result # -1
  BY <1>1 DEF RmInv, RmTypeOK, Inputs
<1>3. Behind = DOMAIN rules
  BY <1>1, <1>2 DEF Behind
<1>4. ret' \in {0, 1}
  BY <1>1, <1>2
<1>5. RmTypeOK' /\ Inputs'
  BY <1>1, <1>2, <1>4 DEF RmTypeOK, Inputs
<1>6. Running'
  BY <1>4 DEF Running
<1>7. MatchesMeaning'
  <2> SUFFICES ASSUME gate = "pass", ~stale PROVE Means(rules', msg', ret')
    BY <1>1 DEF MatchesMeaning
  <2>1. /\ \A j \in DOMAIN rules : Open(rules[j], msg)
        /\ prev = 1 <=> \E j \in DOMAIN rules : Demands(rules[j])
    BY <1>1, <1>3 DEF RmInv, Running
  <2>2. ret' = IF \E n \in DOMAIN rules : Demands(rules[n]) THEN 1 ELSE 0
    <3>1. CASE rules = <<>>
      BY <3>1, <1>1
    <3>2. CASE rules # <<>>
      BY <3>2, <1>1, <1>2, <2>1
    <3> QED BY <3>1, <3>2
  <2>3. Means(rules, msg, ret')
    BY <2>1, <2>2 DEF Means
  <2> QED BY <2>3, <1>1
<1> QED BY <1>5, <1>6, <1>7 DEF RmInv

LEMMA RmInvInvariant == RmSpec => []RmInv
<1>1. RmInv /\ UNCHANGED rmvars => RmInv'
  BY DEF rmvars, RmInv, RmTypeOK, Inputs, Running, Behind, MatchesMeaning
<1>2. RmInv /\ [RmNext]_rmvars => RmInv'
  BY <1>1, TurnRmInv, EndRmInv DEF RmNext
<1> QED BY RmInvInit, <1>2, PTL DEF RmSpec

(* Whatever rules a policy has, and whatever message it is tried on, the   *)
(* matching loop of route_match_message and _route_match_rules returns     *)
(* the meaning of the list, except for the re-used result.                 *)
THEOREM MatchCorrect == RmSpec => []MatchesMeaning
<1>1. RmInv => MatchesMeaning
  BY DEF RmInv
<1> QED BY RmInvInvariant, <1>1, PTL

(* The locals of the loop keep their ranges. *)
THEOREM MatchTypeCorrect == RmSpec => []RmTypeOK
<1>1. RmInv => RmTypeOK
  BY DEF RmInv
<1> QED BY RmInvInvariant, <1>1, PTL

-----------------------------------------------------------------------------
(* The record database *)

(* The inductive invariant.  A record has the fields memdb_read_desc gives *)
(* it, and name_no counts at least its further names.  It counts one name  *)
(* more than there were reads at most, or two on a record that bears the   *)
(* name "typeenumlist": one read can give a record an empty name and that  *)
(* one.                                                                    *)
Bears(r) == NameSite(r, "typeenumlist") > 0

RecOK(r, b) ==
    /\ DOMAIN r = {"uuid", "data", "head", "names", "nameNo", "tail"}
    /\ r.names \in Seq(ToSet(r.names)) /\ r.nameNo \in Nat /\ Len(r.names) <= r.nameNo
    /\ r.head = "typeenumlist" =>
          "typeenumlist" \notin ToSet(r.names) /\ (r.names = <<>> => r.nameNo = 1)
    /\ r.nameNo <= b + 1 \/ (Bears(r) /\ r.nameNo <= b + 2)

ListInv(list, b) ==
    /\ list \in Seq(ToSet(list)) /\ Keyed(list)
    /\ \A x \in DOMAIN list : RecOK(list[x], b)

(* A record type is filed under the digest of itself, so it never changes; *)
(* each type that has one has its dynamic list, and no other type.         *)
TypeRecords ==
    /\ \A x \in DOMAIN db["RECORDTYPE"] : db["RECORDTYPE"][x].data = db["RECORDTYPE"][x].uuid
    /\ DOMAIN dyn = {db["RECORDTYPE"][x].data.type : x \in DOMAIN db["RECORDTYPE"]}

(* A walk that no other one disturbs has the cursor on the last record it  *)
(* compared.                                                               *)
WalkInv(w) ==
    \/ w = [pc |-> "idle"]
    \/ /\ DOMAIN w = {"pc", "type", "alone"} /\ w.pc = "walk"
       /\ w.alone => cursor >= 1 /\ \A x \in 1 .. cursor : ~Hit(w.type, x)
    \/ /\ DOMAIN w = {"pc", "type", "got", "alone"} /\ w.pc = "done"
       /\ w.got \in Nat
       /\ w.got > 0 => Hit(w.type, w.got)
       /\ w.alone => /\ \A x \in 1 .. w.got - 1 : ~Hit(w.type, x)
                     /\ w.got = 0 => \A x \in DOMAIN db["RECORDTYPE"] : ~Hit(w.type, x)

Lists(b) ==
    /\ \A t \in StaticTypes : ListInv(db[t], b)
    /\ \A t \in DOMAIN dyn : ListInv(dyn[t], b)

DbInv ==
    /\ DOMAIN db = StaticTypes /\ DOMAIN dyn \subseteq TypesMeant
    /\ reads \in 0 .. DbMaxReads /\ cursor \in 0 .. Len(db["RECORDTYPE"])
    /\ Lists(reads) /\ TypeRecords /\ DbCounted /\ DbNoCrash /\ DbFiledUnderItsData
    /\ \E x \in DOMAIN db["NAMELIST"] : Bears(db["NAMELIST"][x])
    /\ DOMAIN walk = DbThreads /\ \A h \in DbThreads : WalkInv(walk[h])

-----------------------------------------------------------------------------
(* Positions and sequences *)

(* A non-empty set of positions has a first one.                           *)
LEMMA FirstOf ==
    ASSUME NEW n \in Nat, NEW S \in SUBSET (1 .. n), S # {}
    PROVE  /\ (CHOOSE x \in S : \A y \in S : x <= y) \in S
           /\ \A y \in S : (CHOOSE x \in S : \A z \in S : x <= z) <= y
<1> DEFINE R == OpToRel(<, Nat)
<1>1. IsWellFoundedOn(R, Nat)
  BY NatLessThanWellFounded
<1>2. \E x \in S : \A y \in S : ~ (<<y, x>> \in R)
  <2>1. S \subseteq Nat
    OBVIOUS
  <2> HIDE DEF R
  <2> QED BY <1>1, <2>1, WFMin
<1>3. \A x, y \in Nat : ~ (<<y, x>> \in R) => x <= y
  BY DEF OpToRel
<1>4. \E x \in S : \A y \in S : x <= y
  <2>1. S \subseteq Nat
    OBVIOUS
  <2> HIDE DEF R
  <2> QED BY <1>2, <1>3, <2>1
<1> QED BY <1>4

LEMMA OwnElements ==
    ASSUME NEW S, NEW s \in Seq(S)
    PROVE  s \in Seq(ToSet(s))
BY DEF ToSet

LEMMA Joins ==
    ASSUME NEW S, NEW a \in Seq(S), NEW c \in Seq(S)
    PROVE  /\ a \o c \in Seq(S) /\ Len(a \o c) = Len(a) + Len(c)
           /\ \A x \in 1 .. Len(a) : (a \o c)[x] = a[x]
OBVIOUS

LEMMA InsertedAt ==
    ASSUME NEW S, NEW s \in Seq(S), NEW p \in 1 .. Len(s) + 1, NEW e \in S
    PROVE  /\ InsertAt(s, p, e) \in Seq(S) /\ Len(InsertAt(s, p, e)) = Len(s) + 1
           /\ \A x \in 1 .. p - 1 : InsertAt(s, p, e)[x] = s[x]
           /\ InsertAt(s, p, e)[p] = e
           /\ \A x \in p .. Len(s) : InsertAt(s, p, e)[x + 1] = s[x]
<1> DEFINE a == SubSeq(s, 1, p - 1)
           c == SubSeq(s, p, Len(s))
           f == a \o <<e>>
<1>1. /\ a \in Seq(S) /\ Len(a) = p - 1 /\ \A x \in 1 .. p - 1 : a[x] = s[x]
  OBVIOUS
<1>2. /\ c \in Seq(S) /\ Len(c) = Len(s) + 1 - p
      /\ \A x \in 1 .. Len(s) + 1 - p : c[x] = s[x + p - 1]
  OBVIOUS
<1>3. InsertAt(s, p, e) = f \o c
  BY DEF InsertAt
<1> HIDE DEF a, c
<1>4. /\ f \in Seq(S) /\ Len(f) = p /\ f[p] = e /\ \A x \in 1 .. p - 1 : f[x] = s[x]
  BY <1>1
<1> HIDE DEF f
<1>5. f \o c \in Seq(S) /\ Len(f \o c) = Len(s) + 1
  <2>1. f \o c \in Seq(S) /\ Len(f \o c) = Len(f) + Len(c)
    BY <1>2, <1>4, Joins
  <2>2. p + (Len(s) + 1 - p) = Len(s) + 1
    OBVIOUS
  <2> QED BY <1>2, <1>4, <2>1, <2>2
<1>6. \A x \in 1 .. p : (f \o c)[x] = f[x]
  BY <1>2, <1>4, Joins
<1>7. ASSUME NEW x \in p .. Len(s) PROVE (f \o c)[x + 1] = s[x]
  <2>1. x + 1 - p \in 1 .. Len(s) + 1 - p /\ (x + 1 - p) + p - 1 = x /\ x + 1 \in 1 .. Len(s) + 1
        /\ ~(x + 1 <= p) /\ x + 1 \in Nat
    OBVIOUS
  <2>2. c[x + 1 - p] = s[x]
    BY <1>2, <2>1
  <2>3. (f \o c)[x + 1] = c[x + 1 - p]
    BY <1>2, <1>4, <2>1
  <2> QED BY <2>2, <2>3
<1>8. /\ \A x \in 1 .. p - 1 : (f \o c)[x] = s[x]
      /\ (f \o c)[p] = e
  BY <1>4, <1>6
<1> QED BY <1>3, <1>5, <1>7, <1>8

LEMMA RemovedAt ==
    ASSUME NEW S, NEW s \in Seq(S), NEW p \in 1 .. Len(s)
    PROVE  /\ RemoveAt(s, p) \in Seq(S) /\ Len(RemoveAt(s, p)) = Len(s) - 1
           /\ \A x \in 1 .. p - 1 : RemoveAt(s, p)[x] = s[x]
           /\ \A x \in p .. Len(s) - 1 : RemoveAt(s, p)[x] = s[x + 1]
<1> DEFINE a == SubSeq(s, 1, p - 1)
           c == SubSeq(s, p + 1, Len(s))
<1>1. /\ a \in Seq(S) /\ Len(a) = p - 1 /\ \A x \in 1 .. p - 1 : a[x] = s[x]
  OBVIOUS
<1>2. /\ c \in Seq(S) /\ Len(c) = Len(s) - p /\ \A x \in 1 .. Len(s) - p : c[x] = s[x + p]
  OBVIOUS
<1>3. RemoveAt(s, p) = a \o c
  BY DEF RemoveAt
<1> HIDE DEF a, c
<1>4. a \o c \in Seq(S) /\ Len(a \o c) = Len(s) - 1
  <2>1. a \o c \in Seq(S) /\ Len(a \o c) = Len(a) + Len(c)
    BY <1>1, <1>2, Joins
  <2>2. (p - 1) + (Len(s) - p) = Len(s) - 1
    OBVIOUS
  <2> QED BY <1>1, <1>2, <2>1, <2>2
<1>5. \A x \in 1 .. p - 1 : (a \o c)[x] = s[x]
  <2>1. \A x \in 1 .. Len(a) : (a \o c)[x] = a[x]
    BY <1>1, <1>2, Joins
  <2> QED BY <1>1, <2>1
<1>6. ASSUME NEW x \in p .. Len(s) - 1 PROVE (a \o c)[x] = s[x + 1]
  <2>1. x - (p - 1) \in 1 .. Len(s) - p /\ (x - (p - 1)) + p = x + 1 /\ x \in 1 .. Len(s) - 1
        /\ ~(x <= p - 1) /\ x \in Nat
    OBVIOUS
  <2>2. c[x - (p - 1)] = s[x + 1]
    BY <1>2, <2>1
  <2>3. (a \o c)[x] = c[x - (p - 1)]
    BY <1>1, <1>2, <2>1
  <2> QED BY <2>2, <2>3
<1> QED BY <1>3, <1>4, <1>5, <1>6

-----------------------------------------------------------------------------
(* The names of a record *)

RecFields == {"uuid", "data", "head", "names", "nameNo", "tail"}

LEMMA OneLonger ==
    ASSUME NEW s, s \in Seq(ToSet(s)), NEW e
    PROVE  /\ Append(s, e) \in Seq(ToSet(Append(s, e)))
           /\ ToSet(Append(s, e)) = ToSet(s) \cup {e}
           /\ Append(s, e) # <<>> /\ Len(Append(s, e)) = Len(s) + 1 /\ Len(s) \in Nat
<1> DEFINE S == ToSet(s) \cup {e}
           q == Append(s, e)
<1>1. s \in Seq(S)
  OBVIOUS
<1>2. q \in Seq(S) /\ Len(q) = Len(s) + 1 /\ Len(s) \in Nat /\ q[Len(s) + 1] = e
      /\ \A x \in 1 .. Len(s) : q[x] = s[x]
  <2> HIDE DEF S
  <2>1. e \in S
    BY DEF S
  <2> QED BY <1>1, <2>1
<1> HIDE DEF q
<1>3. ToSet(s) = {s[x] : x \in 1 .. Len(s)} /\ ToSet(q) = {q[x] : x \in 1 .. Len(s) + 1}
  BY <1>2 DEF ToSet
<1>4. ToSet(q) = S
  <2>1. ToSet(s) \subseteq ToSet(q)
    <3>1. \A x \in 1 .. Len(s) : x \in 1 .. Len(s) + 1 /\ q[x] = s[x]
      BY <1>2
    <3> QED BY <1>3, <3>1
  <2>2. e \in ToSet(q)
    <3>1. Len(s) + 1 \in 1 .. Len(s) + 1
      BY <1>2
    <3> QED BY <1>2, <1>3, <3>1
  <2>3. ToSet(q) \subseteq S
    <3>1. \A x \in 1 .. Len(s) + 1 : x \in 1 .. Len(s) \/ x = Len(s) + 1
      BY <1>2
    <3> QED BY <1>2, <1>3, <3>1
  <2> QED BY <2>1, <2>2, <2>3
<1>5. q # <<>>
  BY <1>2
<1> QED BY <1>2, <1>4, <1>5 DEF q

LEMMA SiteOfName ==
    ASSUME NEW r, NEW n, r.names \in Seq(ToSet(r.names))
    PROVE  /\ NameSite(r, n) \in Nat
           /\ NameSite(r, n) = 1 <=> r.head = n
           /\ NameSite(r, n) = 0 <=> r.head # n /\ \A x \in 1 .. Len(r.names) : r.names[x] # n
           /\ NameSite(r, n) > 1 => /\ NameSite(r, n) - 1 \in 1 .. Len(r.names)
                                    /\ r.names[NameSite(r, n) - 1] = n
<1> DEFINE at == {x \in DOMAIN r.names : r.names[x] = n}
<1>1. Len(r.names) \in Nat /\ at \subseteq 1 .. Len(r.names)
  OBVIOUS
<1>2. CASE r.head = n
  <2>1. NameSite(r, n) = 1
    BY <1>2 DEF NameSite
  <2> QED BY <1>2, <2>1
<1>3. CASE r.head # n /\ at = {}
  <2>1. NameSite(r, n) = 0
    BY <1>3 DEF NameSite
  <2>2. \A x \in 1 .. Len(r.names) : r.names[x] # n
    BY <1>3
  <2> QED BY <1>3, <2>1, <2>2
<1>4. CASE r.head # n /\ at # {}
  <2> DEFINE p == CHOOSE x \in at : \A y \in at : x <= y
  <2>1. p \in at
    <3> HIDE DEF at
    <3> QED BY <1>1, <1>4, FirstOf
  <2>2. NameSite(r, n) = p + 1
    BY <1>4 DEF NameSite
  <2>3. p \in 1 .. Len(r.names) /\ r.names[p] = n
    BY <2>1
  <2> HIDE DEF p, at
  <2>4. p \in Nat /\ p >= 1 /\ (p + 1) - 1 = p
    BY <2>3, <1>1
  <2>5. p + 1 \in Nat /\ p + 1 > 1 /\ p + 1 # 1 /\ p + 1 # 0
    BY <2>4
  <2> QED BY <1>4, <2>2, <2>3, <2>4, <2>5
<1> QED BY <1>2, <1>3, <1>4

LEMMA BearsOrNot ==
    ASSUME NEW r, r.names \in Seq(ToSet(r.names))
    PROVE  Bears(r) <=> r.head = "typeenumlist" \/ "typeenumlist" \in ToSet(r.names)
<1>1. \/ NameSite(r, "typeenumlist") = 0
      \/ NameSite(r, "typeenumlist") > 0
  BY SiteOfName
<1>2. "typeenumlist" \in ToSet(r.names)
        <=> \E x \in 1 .. Len(r.names) : r.names[x] = "typeenumlist"
  BY DEF ToSet
<1>3. Bears(r) <=> NameSite(r, "typeenumlist") # 0
  BY <1>1, SiteOfName DEF Bears
<1> QED BY <1>2, <1>3, SiteOfName

(* What a further name changes of a record. *)
LEMMA AddedName ==
    ASSUME NEW r, DOMAIN r = RecFields, NEW n, n # DbNil, NameSite(r, n) = 0
    PROVE  /\ DOMAIN AddName(r, n) = RecFields
           /\ AddName(r, n).uuid = r.uuid /\ AddName(r, n).data = r.data
           /\ AddName(r, n).tail = r.tail /\ AddName(r, n).head = r.head
           /\ AddName(r, n).names = Append(r.names, n)
           /\ r.names = <<>> => AddName(r, n).nameNo \in 1 .. 2
           /\ r.names # <<>> => AddName(r, n).nameNo = r.nameNo + 1
<1>1. AddName(r, n) = [r EXCEPT !.names = Append(@, n),
                   !.nameNo = (IF r.names = <<>> THEN (IF r.head = "" THEN 0 ELSE 1)
                               ELSE @) + 1]
  <2>1. ~(NameSite(r, n) > 0)
    OBVIOUS
  <2> QED BY <2>1 DEF AddName
<1> DEFINE m == IF r.names = <<>> THEN (IF r.head = "" THEN 0 ELSE 1) ELSE r.nameNo
<1>2. AddName(r, n).nameNo = m + 1
  BY <1>1 DEF RecFields
<1>3. /\ r.names = <<>> => m = 0 \/ m = 1
      /\ r.names # <<>> => m = r.nameNo
  OBVIOUS
<1>4. /\ DOMAIN AddName(r, n) = RecFields
      /\ AddName(r, n).uuid = r.uuid /\ AddName(r, n).data = r.data
      /\ AddName(r, n).tail = r.tail /\ AddName(r, n).head = r.head
      /\ AddName(r, n).names = Append(r.names, n)
  BY <1>1 DEF RecFields
<1> HIDE DEF m
<1> QED BY <1>2, <1>3, <1>4

LEMMA SameName ==
    ASSUME NEW r, NEW n, r.names \in Seq(ToSet(r.names)), n = DbNil \/ NameSite(r, n) # 0
    PROVE  AddName(r, n) = r
<1>1. NameSite(r, n) # 0 => NameSite(r, n) > 0
  BY SiteOfName
<1> QED BY <1>1 DEF AddName

LEMMA KeepsUuid ==
    ASSUME NEW r, DOMAIN r = RecFields, r.names \in Seq(ToSet(r.names)), NEW n
    PROVE  /\ AddName(r, n).uuid = r.uuid /\ AddName(r, n).data = r.data
           /\ AddName(r, n).tail = r.tail /\ DOMAIN AddName(r, n) = RecFields
BY AddedName, SameName

(* New data in a record. *)
LEMMA NewData ==
    ASSUME NEW r, NEW b, RecOK(r, b), NEW d
    PROVE  /\ RecOK([r EXCEPT !.data = d], b)
           /\ [r EXCEPT !.data = d].data = d /\ [r EXCEPT !.data = d].uuid = r.uuid
           /\ [r EXCEPT !.data = d].tail = r.tail
<1> DEFINE q == [r EXCEPT !.data = d]
<1>1. /\ DOMAIN q = DOMAIN r /\ q.names = r.names /\ q.nameNo = r.nameNo /\ q.head = r.head
      /\ q.data = d /\ q.uuid = r.uuid /\ q.tail = r.tail
  BY DEF RecOK
<1> HIDE DEF q
<1>2. Bears(q) <=> Bears(r)
  BY <1>1, BearsOrNot DEF RecOK
<1>3. RecOK(q, b)
  BY <1>1, <1>2 DEF RecOK
<1> QED BY <1>1, <1>3 DEF q

LEMMA LaterOK ==
    ASSUME NEW r, NEW b \in Nat, NEW c \in Nat, b <= c, RecOK(r, b)
    PROVE  RecOK(r, c)
BY DEF RecOK

(* An ordinary name costs a read. *)
LEMMA OtherNameOK ==
    ASSUME NEW r, NEW b \in Nat, RecOK(r, b), NEW n, n # "typeenumlist"
    PROVE  RecOK(AddName(r, n), b + 1)
<1>1. CASE n = DbNil \/ NameSite(r, n) # 0
  BY <1>1, SameName, LaterOK DEF RecOK
<1>2. CASE n # DbNil /\ NameSite(r, n) = 0
  <2> DEFINE q == AddName(r, n)
  <2>1. DOMAIN r = RecFields /\ r.names \in Seq(ToSet(r.names)) /\ r.nameNo \in Nat
    BY DEF RecOK, RecFields
  <2>2. /\ DOMAIN q = RecFields /\ q.head = r.head /\ q.names = Append(r.names, n)
        /\ r.names = <<>> => q.nameNo \in 1 .. 2
        /\ r.names # <<>> => q.nameNo = r.nameNo + 1
    BY <1>2, <2>1, AddedName
  <2> HIDE DEF q
  <2>3. /\ q.names \in Seq(ToSet(q.names)) /\ ToSet(q.names) = ToSet(r.names) \cup {n}
        /\ q.names # <<>> /\ Len(q.names) = Len(r.names) + 1 /\ Len(r.names) \in Nat
    BY <2>1, <2>2, OneLonger
  <2>4. q.nameNo \in Nat /\ Len(q.names) <= q.nameNo
    <3>1. CASE r.names = <<>>
      <4>1. Len(q.names) = 1 /\ q.nameNo \in 1 .. 2
        BY <2>2, <2>3, <3>1
      <4> QED BY <4>1
    <3>2. CASE r.names # <<>>
      <4>1. q.nameNo = r.nameNo + 1 /\ Len(r.names) <= r.nameNo
        BY <2>2, <3>2 DEF RecOK
      <4> QED BY <2>1, <2>3, <4>1
    <3> QED BY <3>1, <3>2
  <2>5. Bears(q) <=> Bears(r)
    BY <2>1, <2>2, <2>3, BearsOrNot
  <2>6. q.head = "typeenumlist" => "typeenumlist" \notin ToSet(q.names)
    BY <2>2, <2>3 DEF RecOK
  <2>7. q.nameNo <= (b + 1) + 1 \/ (Bears(q) /\ q.nameNo <= (b + 1) + 2)
    <3>1. CASE r.names = <<>>
      <4>1. q.nameNo \in 1 .. 2
        BY <2>2, <3>1
      <4> QED BY <4>1
    <3>2. CASE r.names # <<>>
      <4>1. q.nameNo = r.nameNo + 1
        BY <2>2, <3>2
      <4>2. r.nameNo <= b + 1 \/ (Bears(r) /\ r.nameNo <= b + 2)
        BY DEF RecOK
      <4> QED BY <2>1, <2>5, <4>1, <4>2
    <3> QED BY <3>1, <3>2
  <2> QED BY <2>2, <2>3, <2>4, <2>6, <2>7 DEF RecOK, RecFields, q
<1> QED BY <1>1, <1>2

(* The name "typeenumlist" costs none, but the record bears it then. *)
LEMMA TypeenumNameOK ==
    ASSUME NEW r, NEW b \in Nat, RecOK(r, b)
    PROVE  RecOK(AddName(r, "typeenumlist"), b) /\ Bears(AddName(r, "typeenumlist"))
<1> DEFINE n == "typeenumlist"
<1>1. CASE NameSite(r, n) # 0
  <2>1. AddName(r, n) = r
    BY <1>1, SameName DEF RecOK
  <2>2. Bears(r)
    BY <1>1, SiteOfName DEF Bears, RecOK
  <2> QED BY <2>1, <2>2
<1>2. CASE NameSite(r, n) = 0
  <2> DEFINE q == AddName(r, n)
  <2>1. DOMAIN r = RecFields /\ r.names \in Seq(ToSet(r.names)) /\ r.nameNo \in Nat
    BY DEF RecOK, RecFields
  <2>2. /\ DOMAIN q = RecFields /\ q.head = r.head /\ q.names = Append(r.names, n)
        /\ r.names = <<>> => q.nameNo \in 1 .. 2
        /\ r.names # <<>> => q.nameNo = r.nameNo + 1
    BY <1>2, <2>1, AddedName DEF DbNil
  <2> HIDE DEF q
  <2>3. /\ q.names \in Seq(ToSet(q.names)) /\ ToSet(q.names) = ToSet(r.names) \cup {n}
        /\ q.names # <<>> /\ Len(q.names) = Len(r.names) + 1 /\ Len(r.names) \in Nat
    BY <2>1, <2>2, OneLonger
  <2>4. q.nameNo \in Nat /\ Len(q.names) <= q.nameNo
    <3>1. CASE r.names = <<>>
      <4>1. Len(q.names) = 1 /\ q.nameNo \in 1 .. 2
        BY <2>2, <2>3, <3>1
      <4> QED BY <4>1
    <3>2. CASE r.names # <<>>
      <4>1. q.nameNo = r.nameNo + 1 /\ Len(r.names) <= r.nameNo
        BY <2>2, <3>2 DEF RecOK
      <4> QED BY <2>1, <2>3, <4>1
    <3> QED BY <3>1, <3>2
  <2>5. Bears(q) /\ ~Bears(r)
    <3>1. Bears(q)
      BY <2>3, BearsOrNot
    <3> QED BY <1>2, <3>1 DEF Bears
  <2>6. q.head # n
    BY <1>2, <2>1, <2>2, SiteOfName
  <2>7. q.nameNo <= b + 2
    <3>1. CASE r.names = <<>>
      <4>1. q.nameNo \in 1 .. 2
        BY <2>2, <3>1
      <4> QED BY <4>1
    <3>2. CASE r.names # <<>>
      <4>1. q.nameNo = r.nameNo + 1
        BY <2>2, <3>2
      <4>2. r.nameNo <= b + 1
        BY <2>5 DEF RecOK
      <4> QED BY <2>1, <4>1, <4>2
    <3> QED BY <3>1, <3>2
  <2>8. RecOK(q, b)
    BY <2>2, <2>3, <2>4, <2>5, <2>6, <2>7 DEF RecOK, RecFields
  <2> QED BY <2>5, <2>8 DEF q
<1> QED BY <1>1, <1>2

(* A new record. *)
LEMMA NewRecordOK ==
    ASSUME NEW b \in Nat, NEW u, NEW d, NEW n, NEW t, n # "typeenumlist"
    PROVE  /\ RecOK(NewRecord(u, d, n, t), b)
           /\ NewRecord(u, d, n, t).uuid = u /\ NewRecord(u, d, n, t).data = d
           /\ NewRecord(u, d, n, t).tail = t
BY DEF NewRecord, RecOK, ToSet

-----------------------------------------------------------------------------
(* Lists of records *)

LEMMA FoundUuid ==
    ASSUME NEW list, list \in Seq(ToSet(list)), NEW u
    PROVE  /\ FindUuid(list, u) = 0 => \A x \in 1 .. Len(list) : list[x].uuid # u
           /\ FindUuid(list, u) # 0 => /\ FindUuid(list, u) \in 1 .. Len(list)
                                       /\ list[FindUuid(list, u)].uuid = u
<1> DEFINE at == {x \in DOMAIN list : list[x].uuid = u}
<1>1. Len(list) \in Nat /\ at \subseteq 1 .. Len(list)
  OBVIOUS
<1>2. CASE at = {}
  <2>1. FindUuid(list, u) = 0
    BY <1>2 DEF FindUuid
  <2> QED BY <1>2, <2>1
<1>3. CASE at # {}
  <2> DEFINE p == CHOOSE x \in at : \A y \in at : x <= y
  <2>1. p \in at
    <3> HIDE DEF at
    <3> QED BY <1>1, <1>3, FirstOf
  <2>2. FindUuid(list, u) = p
    BY <1>3 DEF FindUuid
  <2>3. p \in 1 .. Len(list) /\ list[p].uuid = u
    BY <2>1
  <2> HIDE DEF p, at
  <2>4. p # 0
    BY <2>3
  <2> QED BY <2>2, <2>3, <2>4
<1> QED BY <1>2, <1>3

LEMMA FoundByname ==
    ASSUME NEW list, list \in Seq(ToSet(list)), NEW n
    PROVE  /\ FindByname(list, n) = 0 => \A x \in 1 .. Len(list) : ~(NameSite(list[x], n) > 0)
           /\ FindByname(list, n) # 0 => /\ FindByname(list, n) \in 1 .. Len(list)
                                         /\ NameSite(list[FindByname(list, n)], n) > 0
<1> DEFINE at == {x \in DOMAIN list : NameSite(list[x], n) > 0}
<1>1. Len(list) \in Nat /\ at \subseteq 1 .. Len(list)
  OBVIOUS
<1>2. CASE at = {}
  <2>1. FindByname(list, n) = 0
    BY <1>2 DEF FindByname
  <2> QED BY <1>2, <2>1
<1>3. CASE at # {}
  <2> DEFINE p == CHOOSE x \in at : \A y \in at : x <= y
  <2>1. p \in at
    <3> HIDE DEF at
    <3> QED BY <1>1, <1>3, FirstOf
  <2>2. FindByname(list, n) = p
    BY <1>3 DEF FindByname
  <2>3. p \in 1 .. Len(list) /\ NameSite(list[p], n) > 0
    BY <2>1
  <2> HIDE DEF p, at
  <2>4. p # 0
    BY <2>3
  <2> QED BY <2>2, <2>3, <2>4
<1> QED BY <1>2, <1>3

(* What storing a record does to a list: it is put in somewhere, when none *)
(* has its digest, or the one that has it gets its data and a name.        *)
Renewed(q, r, n) == AddName([q EXCEPT !.data = r.data], n)

LEMMA StoredCases ==
    ASSUME NEW list, list \in Seq(ToSet(list)), NEW r, NEW n, NEW new \in Stored(list, r, n)
    PROVE  \/ /\ \A x \in 1 .. Len(list) : list[x].uuid # r.uuid
              /\ \E p \in 1 .. Len(list) + 1 : new = InsertAt(list, p, r)
           \/ \E p \in 1 .. Len(list) : /\ list[p].uuid = r.uuid
                                        /\ new = ReplaceAt(list, p, Renewed(list[p], r, n))
<1> DEFINE p == FindUuid(list, r.uuid)
<1>1. CASE p = 0
  <2>1. new \in AddElem(list, r)
    BY <1>1 DEF Stored
  <2> QED BY <1>1, <2>1, FoundUuid DEF AddElem
<1>2. CASE p # 0
  <2>1. new = ReplaceAt(list, p, Renewed(list[p], r, n))
    BY <1>2 DEF Stored, Renewed, ReplaceAt
  <2>2. p \in 1 .. Len(list) /\ list[p].uuid = r.uuid
    BY <1>2, FoundUuid
  <2> QED BY <2>1, <2>2
<1> QED BY <1>1, <1>2

LEMMA InsertedList ==
    ASSUME NEW list, list \in Seq(ToSet(list)), NEW r, NEW p \in 1 .. Len(list) + 1,
           NEW new, new = InsertAt(list, p, r)
    PROVE  /\ new \in Seq(ToSet(new)) /\ Len(new) = Len(list) + 1
           /\ p \in 1 .. Len(new) /\ new[p] = r
           /\ \A x \in 1 .. Len(new) :
                \/ x = p
                \/ x < p /\ x \in 1 .. Len(list) /\ new[x] = list[x]
                \/ x > p /\ x - 1 \in 1 .. Len(list) /\ new[x] = list[x - 1]
           /\ \A y \in 1 .. Len(list) : \E x \in 1 .. Len(new) : x # p /\ new[x] = list[y]
<1> DEFINE S == ToSet(list) \cup {r}
<1>1. list \in Seq(S) /\ r \in S
  OBVIOUS
<1> HIDE DEF S
<1>2. /\ new \in Seq(S) /\ Len(new) = Len(list) + 1
      /\ \A x \in 1 .. p - 1 : new[x] = list[x]
      /\ new[p] = r
      /\ \A x \in p .. Len(list) : new[x + 1] = list[x]
  BY <1>1, InsertedAt
<1>3. new \in Seq(ToSet(new))
  BY <1>2, OwnElements
<1>4. Len(list) \in Nat /\ p \in Nat
  OBVIOUS
<1>5. ASSUME NEW x \in 1 .. Len(new)
      PROVE  \/ x = p
             \/ x < p /\ x \in 1 .. Len(list) /\ new[x] = list[x]
             \/ x > p /\ x - 1 \in 1 .. Len(list) /\ new[x] = list[x - 1]
  <2>1. CASE x < p
    <3>1. x \in 1 .. p - 1 /\ x \in 1 .. Len(list)
      BY <1>2, <1>4, <2>1
    <3> QED BY <1>2, <2>1, <3>1
  <2>2. CASE x > p
    <3>1. x - 1 \in p .. Len(list) /\ x - 1 \in 1 .. Len(list) /\ (x - 1) + 1 = x
      BY <1>2, <1>4, <2>2
    <3>2. new[(x - 1) + 1] = list[x - 1]
      BY <1>2, <3>1
    <3> QED BY <2>2, <3>1, <3>2
  <2>3. x < p \/ x > p \/ x = p
    BY <1>4
  <2> QED BY <2>1, <2>2, <2>3
<1>6. ASSUME NEW y \in 1 .. Len(list) PROVE \E x \in 1 .. Len(new) : x # p /\ new[x] = list[y]
  <2>1. CASE y < p
    <3>1. y \in 1 .. p - 1 /\ y \in 1 .. Len(new) /\ y # p
      BY <1>2, <1>4, <2>1
    <3> QED BY <1>2, <3>1
  <2>2. CASE y >= p
    <3>1. y \in p .. Len(list) /\ y + 1 \in 1 .. Len(new) /\ y + 1 # p
      BY <1>2, <1>4, <2>2
    <3> QED BY <1>2, <3>1
  <2>3. y < p \/ y >= p
    BY <1>4
  <2> QED BY <2>1, <2>2, <2>3
<1>7. p \in 1 .. Len(new)
  BY <1>2, <1>4
<1> QED BY <1>2, <1>3, <1>5, <1>6, <1>7

LEMMA ReplacedList ==
    ASSUME NEW list, list \in Seq(ToSet(list)), NEW q, NEW p \in 1 .. Len(list),
           NEW new, new = ReplaceAt(list, p, q)
    PROVE  /\ new \in Seq(ToSet(new)) /\ Len(new) = Len(list) /\ new[p] = q
           /\ \A x \in 1 .. Len(list) : x # p => new[x] = list[x]
<1> DEFINE S == ToSet(list) \cup {q}
<1>1. list \in Seq(S) /\ q \in S
  OBVIOUS
<1> HIDE DEF S
<1>2. /\ new \in Seq(S) /\ Len(new) = Len(list) /\ new[p] = q
      /\ \A x \in 1 .. Len(list) : x # p => new[x] = list[x]
  BY <1>1 DEF ReplaceAt
<1> QED BY <1>2, OwnElements

(* Storing keeps each record once.                                         *)
LEMMA InsertedInv ==
    ASSUME NEW list, NEW b, ListInv(list, b), NEW r, RecOK(r, b),
           \A x \in 1 .. Len(list) : list[x].uuid # r.uuid,
           NEW p \in 1 .. Len(list) + 1, NEW new, new = InsertAt(list, p, r)
    PROVE  ListInv(new, b)
<1>1. /\ new \in Seq(ToSet(new)) /\ Len(new) = Len(list) + 1 /\ new[p] = r
      /\ \A x \in 1 .. Len(new) :
           \/ x = p
           \/ x < p /\ x \in 1 .. Len(list) /\ new[x] = list[x]
           \/ x > p /\ x - 1 \in 1 .. Len(list) /\ new[x] = list[x - 1]
  BY InsertedList DEF ListInv
<1>2. /\ list \in Seq(ToSet(list)) /\ DOMAIN list = 1 .. Len(list) /\ DOMAIN new = 1 .. Len(new)
      /\ p \in Int
  BY <1>1 DEF ListInv
<1>3. \A x \in 1 .. Len(new) : RecOK(new[x], b)
  BY <1>1, <1>2 DEF ListInv
<1>4. ASSUME NEW x \in 1 .. Len(new), NEW y \in 1 .. Len(new), new[x].uuid = new[y].uuid
      PROVE  x = y
  <2> DEFINE back(z) == IF z < p THEN z ELSE z - 1
  <2>1. \A z \in 1 .. Len(new) : z # p =>
           /\ back(z) \in 1 .. Len(list) /\ new[z] = list[back(z)]
    <3> SUFFICES ASSUME NEW z \in 1 .. Len(new), z # p
                 PROVE  back(z) \in 1 .. Len(list) /\ new[z] = list[back(z)]
      OBVIOUS
    <3>1. CASE z < p
      BY <1>1, <1>2, <3>1
    <3>2. CASE z > p
      <4>1. back(z) = z - 1
        BY <1>2, <3>2
      <4> HIDE DEF back
      <4>2. z - 1 \in 1 .. Len(list) /\ new[z] = list[z - 1]
        BY <1>1, <1>2, <3>2
      <4> QED BY <4>1, <4>2
    <3>3. z < p \/ z > p
      BY <1>2
    <3> QED BY <3>1, <3>2, <3>3
  <2>2. \A z, w \in 1 .. Len(new) : z # p /\ w # p /\ back(z) = back(w) => z = w
    BY <1>2
  <2> HIDE DEF back
  <2>3. CASE x = p /\ y = p
    BY <2>3
  <2>4. CASE x = p /\ y # p
    BY <1>1, <1>4, <2>1, <2>4
  <2>5. CASE x # p /\ y = p
    BY <1>1, <1>4, <2>1, <2>5
  <2>6. CASE x # p /\ y # p
    <3>1. /\ back(x) \in DOMAIN list /\ back(y) \in DOMAIN list
          /\ list[back(x)].uuid = list[back(y)].uuid
      BY <1>2, <1>4, <2>1, <2>6
    <3>2. back(x) = back(y)
      BY <3>1 DEF ListInv, Keyed
    <3> QED BY <2>2, <2>6, <3>2
  <2> QED BY <2>3, <2>4, <2>5, <2>6
<1> QED BY <1>1, <1>2, <1>3, <1>4 DEF ListInv, Keyed

LEMMA OneChanged ==
    ASSUME NEW list, NEW b, ListInv(list, b), NEW p \in 1 .. Len(list),
           NEW q, RecOK(q, b), q.uuid = list[p].uuid,
           NEW new, new \in Seq(ToSet(new)), Len(new) = Len(list), new[p] = q,
           \A x \in 1 .. Len(list) : x # p => new[x] = list[x]
    PROVE  ListInv(new, b)
<1>2. DOMAIN list = 1 .. Len(list) /\ DOMAIN new = 1 .. Len(list)
  BY DEF ListInv
<1>3. ASSUME NEW x \in 1 .. Len(list)
      PROVE  RecOK(new[x], b) /\ new[x].uuid = list[x].uuid
  <2>1. CASE x = p
    BY <2>1
  <2>2. CASE x # p
    <3>1. new[x] = list[x]
      BY <2>2
    <3> QED BY <1>2, <3>1 DEF ListInv
  <2> QED BY <2>1, <2>2
<1> QED BY <1>2, <1>3 DEF ListInv, Keyed

LEMMA ReplacedInv ==
    ASSUME NEW list, NEW b, ListInv(list, b), NEW p \in 1 .. Len(list),
           NEW q, RecOK(q, b), q.uuid = list[p].uuid, NEW new, new = ReplaceAt(list, p, q)
    PROVE  ListInv(new, b)
<1>1. list \in Seq(ToSet(list))
  BY DEF ListInv
<1>2. /\ new \in Seq(ToSet(new)) /\ Len(new) = Len(list) /\ new[p] = q
      /\ \A x \in 1 .. Len(list) : x # p => new[x] = list[x]
  BY <1>1, ReplacedList
<1> QED BY <1>2, OneChanged

LEMMA LaterList ==
    ASSUME NEW list, NEW b \in Nat, NEW c \in Nat, b <= c, ListInv(list, b)
    PROVE  ListInv(list, c)
BY LaterOK DEF ListInv

LEMMA StoredOther ==
    ASSUME NEW list, NEW b \in Nat, ListInv(list, b), NEW r, RecOK(r, b + 1),
           NEW n, n # "typeenumlist", NEW new \in Stored(list, r, n)
    PROVE  ListInv(new, b + 1)
<1>1. list \in Seq(ToSet(list)) /\ DOMAIN list = 1 .. Len(list) /\ ListInv(list, b + 1)
  BY LaterList DEF ListInv
<1>2. ASSUME \A x \in 1 .. Len(list) : list[x].uuid # r.uuid,
             NEW p \in 1 .. Len(list) + 1, new = InsertAt(list, p, r)
      PROVE  ListInv(new, b + 1)
  BY <1>1, <1>2, InsertedInv
<1>3. ASSUME NEW p \in 1 .. Len(list), list[p].uuid = r.uuid,
             new = ReplaceAt(list, p, Renewed(list[p], r, n))
      PROVE  ListInv(new, b + 1)
  <2> DEFINE q == [list[p] EXCEPT !.data = r.data]
  <2>1. RecOK(list[p], b)
    BY <1>1 DEF ListInv
  <2>2. RecOK(q, b) /\ q.uuid = list[p].uuid
    BY <2>1, NewData
  <2> HIDE DEF q
  <2>3. RecOK(AddName(q, n), b + 1) /\ AddName(q, n).uuid = q.uuid
    <3>1. RecOK(AddName(q, n), b + 1)
      BY <2>2, OtherNameOK
    <3>2. DOMAIN q = RecFields /\ q.names \in Seq(ToSet(q.names))
      BY <2>2 DEF RecOK, RecFields
    <3> QED BY <3>1, <3>2, KeepsUuid
  <2>4. Renewed(list[p], r, n) = AddName(q, n)
    BY DEF Renewed, q
  <2> QED BY <1>1, <1>3, <2>2, <2>3, <2>4, ReplacedInv
<1> QED BY <1>1, <1>2, <1>3, StoredCases

-----------------------------------------------------------------------------
(* The name "typeenumlist" taken from a record and given to another *)

LEMMA RemovedName ==
    ASSUME NEW r, NEW b \in Nat, RecOK(r, b), Bears(r), ~RemoveFails(r, "typeenumlist")
    PROVE  \/ RemoveName(r, "typeenumlist") = <<>>
           \/ \E q : RemoveName(r, "typeenumlist") = <<q>> /\ RecOK(q, b) /\ q.uuid = r.uuid
<1> DEFINE T == "typeenumlist"
           s == NameSite(r, T)
<1>1. /\ DOMAIN r = RecFields /\ r.names \in Seq(ToSet(r.names)) /\ r.nameNo \in Nat
      /\ Len(r.names) <= r.nameNo /\ Len(r.names) \in Nat
      /\ r.nameNo <= b + 2
      /\ r.head = T => T \notin ToSet(r.names) /\ (r.names = <<>> => r.nameNo = 1)
  BY DEF RecOK, RecFields
<1>2. /\ s \in Nat /\ s > 0
      /\ s = 1 <=> r.head = T
      /\ s > 1 => s - 1 \in 1 .. Len(r.names) /\ r.names[s - 1] = T
  BY <1>1, SiteOfName DEF Bears
<1>3. CASE s = 1 /\ r.nameNo = 1
  BY <1>3 DEF RemoveName
<1>4. CASE s = 1 /\ r.nameNo # 1
  <2> DEFINE q == [r EXCEPT !.head = r.names[1], !.names = Tail(@), !.nameNo = @ - 1]
  <2>1. RemoveName(r, T) = <<q>>
    BY <1>4 DEF RemoveName
  <2>2. /\ DOMAIN q = RecFields /\ q.head = r.names[1] /\ q.names = Tail(r.names)
        /\ q.nameNo = r.nameNo - 1 /\ q.uuid = r.uuid
    BY <1>1 DEF RecFields
  <2> HIDE DEF q
  <2>3. r.names # <<>> /\ r.head = T /\ T \notin ToSet(r.names)
    BY <1>1, <1>2, <1>4
  <2>4. /\ q.names \in Seq(ToSet(r.names)) /\ Len(q.names) = Len(r.names) - 1
        /\ r.names[1] \in ToSet(r.names) /\ Len(r.names) >= 1
    BY <1>1, <2>2, <2>3 DEF ToSet
  <2>5. q.names \in Seq(ToSet(q.names))
    BY <2>4, OwnElements
  <2>6. q.nameNo \in Nat /\ Len(q.names) <= q.nameNo /\ q.nameNo <= b + 1
    BY <1>1, <2>2, <2>4
  <2>7. q.head # T
    BY <2>2, <2>3, <2>4
  <2>8. RecOK(q, b)
    BY <2>2, <2>5, <2>6, <2>7 DEF RecOK, RecFields
  <2> QED BY <2>1, <2>2, <2>8
<1>5. CASE s > 1
  <2>1. ~(Len(r.names) < s)
    BY <1>5 DEF RemoveFails
  <2> DEFINE q == [r EXCEPT !.names = RemoveAt(@, s), !.nameNo = @ - 1]
  <2>2. RemoveName(r, T) = <<q>>
    <3>1. s # 0 /\ s # 1
      BY <1>2, <1>5
    <3> QED BY <2>1, <3>1 DEF RemoveName
  <2>3. /\ DOMAIN q = RecFields /\ q.head = r.head /\ q.names = RemoveAt(r.names, s)
        /\ q.nameNo = r.nameNo - 1 /\ q.uuid = r.uuid
    BY <1>1 DEF RecFields
  <2> HIDE DEF q
  <2>4. s \in 1 .. Len(r.names)
    BY <1>1, <1>2, <2>1
  <2>5. /\ q.names \in Seq(ToSet(r.names)) /\ Len(q.names) = Len(r.names) - 1
        /\ \A x \in 1 .. s - 1 : q.names[x] = r.names[x]
    <3> DEFINE ns == r.names
    <3>1. ns \in Seq(ToSet(ns)) /\ s \in 1 .. Len(ns)
      BY <1>1, <2>4
    <3> HIDE DEF ns, s
    <3>2. /\ RemoveAt(ns, s) \in Seq(ToSet(ns)) /\ Len(RemoveAt(ns, s)) = Len(ns) - 1
          /\ \A x \in 1 .. s - 1 : RemoveAt(ns, s)[x] = ns[x]
      BY <3>1, RemovedAt
    <3> QED BY <2>3, <3>2 DEF ns
  <2>6. q.names \in Seq(ToSet(q.names))
    BY <2>5, OwnElements
  <2>7. s - 1 \in 1 .. s - 1 /\ s - 1 \in 1 .. Len(r.names) - 1 /\ Len(r.names) >= 1
    BY <1>1, <1>2, <1>5, <2>4
  <2>8. q.names[s - 1] = T
    BY <1>2, <1>5, <2>5, <2>7
  <2>9. T \in ToSet(q.names)
    BY <2>5, <2>7, <2>8 DEF ToSet
  <2>10. Bears(q)
    BY <2>6, <2>9, BearsOrNot
  <2>11. q.nameNo \in Nat /\ Len(q.names) <= q.nameNo /\ q.nameNo <= b + 2
    BY <1>1, <2>3, <2>5, <2>7
  <2>12. q.head # T
    <3>1. s # 1
      BY <1>2, <1>5
    <3> QED BY <1>2, <2>3, <3>1
  <2>13. RecOK(q, b)
    BY <2>3, <2>6, <2>10, <2>11, <2>12 DEF RecOK, RecFields
  <2> QED BY <2>2, <2>3, <2>13
<1> QED BY <1>2, <1>3, <1>4, <1>5

LEMMA SplicedOut ==
    ASSUME NEW list, NEW b, ListInv(list, b), NEW p \in 1 .. Len(list),
           NEW new, new = Spliced(list, p, <<>>)
    PROVE  ListInv(new, b)
<1> DEFINE S == ToSet(list)
           a == SubSeq(list, 1, p - 1)
           c == SubSeq(list, p + 1, Len(list))
<1>1. list \in Seq(S) /\ Len(list) \in Nat
  BY DEF ListInv
<1>2. new = RemoveAt(list, p)
  <2> HIDE DEF S
  <2>1. a \in Seq(S) /\ c \in Seq(S)
    BY <1>1
  <2>2. a \o <<>> = a
    BY <2>1
  <2> QED BY <2>2 DEF Spliced, RemoveAt
<1> HIDE DEF a, c, S
<1>3. /\ new \in Seq(S) /\ Len(new) = Len(list) - 1
      /\ \A x \in 1 .. p - 1 : new[x] = list[x]
      /\ \A x \in p .. Len(list) - 1 : new[x] = list[x + 1]
  BY <1>1, <1>2, RemovedAt
<1> DEFINE back(z) == IF z < p THEN z ELSE z + 1
<1>4. ASSUME NEW z \in 1 .. Len(new)
      PROVE  back(z) \in 1 .. Len(list) /\ new[z] = list[back(z)]
  <2>1. CASE z < p
    <3>1. z \in 1 .. p - 1 /\ back(z) = z /\ z \in 1 .. Len(list)
      BY <1>1, <2>1
    <3> QED BY <1>3, <3>1
  <2>2. CASE z >= p
    <3>1. z \in p .. Len(list) - 1 /\ back(z) = z + 1 /\ z + 1 \in 1 .. Len(list)
      BY <1>1, <1>3, <2>2
    <3> QED BY <1>3, <3>1
  <2> QED BY <1>1, <2>1, <2>2
<1>5. \A z, w \in 1 .. Len(new) : back(z) = back(w) => z = w
  BY <1>1
<1> HIDE DEF back
<1>6. DOMAIN list = 1 .. Len(list) /\ DOMAIN new = 1 .. Len(new) /\ new \in Seq(ToSet(new))
  BY <1>1, <1>3, OwnElements
<1>7. \A x \in 1 .. Len(new) : RecOK(new[x], b)
  BY <1>4, <1>6 DEF ListInv
<1>8. ASSUME NEW x \in 1 .. Len(new), NEW y \in 1 .. Len(new), new[x].uuid = new[y].uuid
      PROVE  x = y
  <2>1. /\ back(x) \in DOMAIN list /\ back(y) \in DOMAIN list
        /\ list[back(x)].uuid = list[back(y)].uuid
    BY <1>4, <1>6, <1>8
  <2>2. back(x) = back(y)
    BY <2>1 DEF ListInv, Keyed
  <2> QED BY <1>5, <2>2
<1> QED BY <1>6, <1>7, <1>8 DEF ListInv, Keyed

LEMMA SplicedIn ==
    ASSUME NEW list, NEW b, ListInv(list, b), NEW p \in 1 .. Len(list),
           NEW q, RecOK(q, b), q.uuid = list[p].uuid, NEW new, new = Spliced(list, p, <<q>>)
    PROVE  ListInv(new, b)
<1> DEFINE S == ToSet(list) \cup {q}
           a == SubSeq(list, 1, p - 1)
           c == SubSeq(list, p + 1, Len(list))
           f == a \o <<q>>
<1>1. list \in Seq(S) /\ Len(list) \in Nat /\ q \in S
  BY DEF ListInv
<1> HIDE DEF S
<1>2. /\ a \in Seq(S) /\ Len(a) = p - 1 /\ \A x \in 1 .. p - 1 : a[x] = list[x]
  BY <1>1
<1>3. /\ c \in Seq(S) /\ Len(c) = Len(list) - p
      /\ \A x \in 1 .. Len(list) - p : c[x] = list[x + p]
  BY <1>1
<1>4. new = f \o c
  BY DEF Spliced
<1> HIDE DEF a, c
<1>5. /\ f \in Seq(S) /\ Len(f) = p /\ f[p] = q /\ \A x \in 1 .. p - 1 : f[x] = list[x]
  BY <1>1, <1>2
<1> HIDE DEF f
<1>6. /\ new \in Seq(S) /\ Len(new) = Len(f) + Len(c)
      /\ \A x \in 1 .. Len(f) : new[x] = f[x]
  <2>1. f \in Seq(S) /\ c \in Seq(S)
    BY <1>3, <1>5
  <2>2. /\ f \o c \in Seq(S) /\ Len(f \o c) = Len(f) + Len(c)
        /\ \A x \in 1 .. Len(f) : (f \o c)[x] = f[x]
    BY <2>1, Joins
  <2> QED BY <1>4, <2>2
<1>7. Len(new) = Len(list) /\ p \in Nat
  BY <1>1, <1>3, <1>5, <1>6
<1>8. ASSUME NEW x \in 1 .. Len(list), x # p PROVE new[x] = list[x]
  <2>1. CASE x < p
    <3>1. x \in 1 .. p - 1 /\ x \in 1 .. p
      BY <1>7, <2>1
    <3> QED BY <1>5, <1>6, <3>1
  <2>2. CASE x > p
    <3>1. /\ x - p \in 1 .. Len(list) - p /\ (x - p) + p = x /\ x \in Nat
          /\ ~(x <= p) /\ x \in 1 .. p + (Len(list) - p)
      BY <1>1, <1>7, <2>2
    <3>2. c[x - p] = list[x]
      BY <1>3, <3>1
    <3>3. (f \o c)[x] = c[x - p]
      BY <1>3, <1>5, <3>1
    <3> QED BY <1>4, <3>2, <3>3
  <2> QED BY <1>7, <1>8, <2>1, <2>2
<1>9. new[p] = q
  <2>1. p \in 1 .. Len(f)
    BY <1>5, <1>7
  <2> QED BY <1>5, <1>6, <2>1
<1>10. new \in Seq(ToSet(new))
  BY <1>6, OwnElements
<1> QED BY <1>7, <1>8, <1>9, <1>10, OneChanged

LEMMA RestoredInv ==
    ASSUME NEW list, NEW b \in Nat, ListInv(list, b), NEW merged,
           NEW new \in Restored(list, merged)
    PROVE  ListInv(new, b) /\ \E x \in DOMAIN new : Bears(new[x])
<1> DEFINE T == "typeenumlist"
           r == [NewRecord(merged, merged, T, merged) EXCEPT !.nameNo = 1]
<1>1. /\ DOMAIN r = RecFields /\ r.uuid = merged /\ r.data = merged /\ r.head = T
      /\ r.names = <<>> /\ r.nameNo = 1
  BY DEF NewRecord, RecFields
<1>2. new \in Stored(list, r, T)
  BY DEF Restored
<1> HIDE DEF r
<1>3. RecOK(r, b) /\ Bears(r)
  <2>1. r.names \in Seq(ToSet(r.names)) /\ ToSet(r.names) = {} /\ Len(r.names) = 0
    BY <1>1 DEF ToSet
  <2>2. Bears(r)
    BY <1>1, <2>1, BearsOrNot
  <2> QED BY <1>1, <2>1, <2>2 DEF RecOK, RecFields
<1>4. list \in Seq(ToSet(list)) /\ DOMAIN list = 1 .. Len(list)
  BY DEF ListInv
<1>5. ASSUME \A x \in 1 .. Len(list) : list[x].uuid # r.uuid,
             NEW p \in 1 .. Len(list) + 1, new = InsertAt(list, p, r)
      PROVE  ListInv(new, b) /\ \E x \in DOMAIN new : Bears(new[x])
  <2>1. ListInv(new, b)
    BY <1>3, <1>5, InsertedInv
  <2>2. p \in 1 .. Len(new) /\ new[p] = r
    BY <1>4, <1>5, InsertedList
  <2>3. p \in DOMAIN new
    BY <2>1, <2>2 DEF ListInv
  <2> QED BY <1>3, <2>1, <2>2, <2>3
<1>6. ASSUME NEW p \in 1 .. Len(list), list[p].uuid = r.uuid,
             new = ReplaceAt(list, p, Renewed(list[p], r, T))
      PROVE  ListInv(new, b) /\ \E x \in DOMAIN new : Bears(new[x])
  <2> DEFINE q == [list[p] EXCEPT !.data = r.data]
             f == AddName(q, T)
  <2>1. RecOK(list[p], b)
    BY <1>4 DEF ListInv
  <2>2. RecOK(q, b) /\ q.uuid = list[p].uuid
    BY <2>1, NewData
  <2>3. Renewed(list[p], r, T) = f
    BY DEF Renewed
  <2> HIDE DEF q
  <2>4. RecOK(f, b) /\ Bears(f)
    BY <2>2, TypeenumNameOK
  <2>5. f.uuid = list[p].uuid
    <3>1. DOMAIN q = RecFields /\ q.names \in Seq(ToSet(q.names))
      BY <2>2 DEF RecOK, RecFields
    <3> QED BY <2>2, <3>1, KeepsUuid
  <2> HIDE DEF f
  <2>6. new = ReplaceAt(list, p, f)
    BY <1>6, <2>3
  <2>7. ListInv(new, b)
    BY <2>4, <2>5, <2>6, ReplacedInv
  <2>8. new[p] = f /\ Len(new) = Len(list)
    BY <1>4, <2>6, ReplacedList
  <2>9. p \in DOMAIN new
    BY <2>7, <2>8 DEF ListInv
  <2> QED BY <2>4, <2>7, <2>8, <2>9
<1> QED BY <1>2, <1>4, <1>5, <1>6, StoredCases

(* No other name takes that one from its record. *)
LEMMA NameKept ==
    ASSUME NEW q, NEW b, RecOK(q, b), Bears(q), NEW n
    PROVE  Bears(AddName(q, n))
<1>1. DOMAIN q = RecFields /\ q.names \in Seq(ToSet(q.names))
  BY DEF RecOK, RecFields
<1>2. CASE n = DbNil \/ NameSite(q, n) # 0
  BY <1>1, <1>2, SameName
<1>3. CASE n # DbNil /\ NameSite(q, n) = 0
  <2> DEFINE f == AddName(q, n)
  <2>1. f.head = q.head /\ f.names = Append(q.names, n)
    BY <1>1, <1>3, AddedName
  <2> HIDE DEF f
  <2>2. f.names \in Seq(ToSet(f.names)) /\ ToSet(f.names) = ToSet(q.names) \cup {n}
    BY <1>1, <2>1, OneLonger
  <2>3. Bears(f)
    BY <1>1, <2>1, <2>2, BearsOrNot
  <2> QED BY <2>3 DEF f
<1> QED BY <1>2, <1>3

LEMMA BearerKept ==
    ASSUME NEW list, NEW b, ListInv(list, b), NEW r, NEW n, NEW new \in Stored(list, r, n),
           \E x \in DOMAIN list : Bears(list[x])
    PROVE  \E x \in DOMAIN new : Bears(new[x])
<1>1. list \in Seq(ToSet(list)) /\ DOMAIN list = 1 .. Len(list)
  BY DEF ListInv
<1>2. PICK y \in 1 .. Len(list) : Bears(list[y])
  BY <1>1
<1>3. ASSUME NEW p \in 1 .. Len(list) + 1, new = InsertAt(list, p, r)
      PROVE  \E x \in DOMAIN new : Bears(new[x])
  <2>1. /\ new \in Seq(ToSet(new))
        /\ \A z \in 1 .. Len(list) : \E x \in 1 .. Len(new) : x # p /\ new[x] = list[z]
    <3>1. list \in Seq(ToSet(list)) /\ new = InsertAt(list, p, r) /\ p \in 1 .. Len(list) + 1
      BY <1>1, <1>3
    <3> HIDE <1>3
    <3> QED BY <3>1, InsertedList, SMTT(30)
  <2>2. DOMAIN new = 1 .. Len(new)
    BY <2>1
  <2> QED BY <1>2, <2>1, <2>2
<1>4. ASSUME NEW p \in 1 .. Len(list), new = ReplaceAt(list, p, Renewed(list[p], r, n))
      PROVE  \E x \in DOMAIN new : Bears(new[x])
  <2> DEFINE f == Renewed(list[p], r, n)
  <2>1. /\ new \in Seq(ToSet(new)) /\ Len(new) = Len(list) /\ new[p] = f
        /\ \A x \in 1 .. Len(list) : x # p => new[x] = list[x]
    BY <1>1, <1>4, ReplacedList
  <2>2. DOMAIN new = 1 .. Len(list)
    BY <2>1
  <2>3. CASE y # p
    BY <1>2, <2>1, <2>2, <2>3
  <2>4. CASE y = p
    <3> DEFINE q == [list[p] EXCEPT !.data = r.data]
    <3>1. RecOK(list[p], b) /\ Bears(list[p])
      BY <1>1, <1>2, <2>4 DEF ListInv
    <3>2. RecOK(q, b) /\ q.head = list[p].head /\ q.names = list[p].names
      BY <3>1, NewData DEF RecOK
    <3>3. f = AddName(q, n)
      BY DEF Renewed
    <3> HIDE DEF q, f
    <3>4. Bears(q)
      BY <3>1, <3>2, BearsOrNot DEF RecOK
    <3>5. Bears(f)
      BY <3>2, <3>3, <3>4, NameKept
    <3> QED BY <2>1, <2>2, <3>5
  <2> QED BY <2>3, <2>4
<1> QED BY <1>1, <1>3, <1>4, StoredCases

(* The two steps of reading a type list. *)
LEMMA TakenInv ==
    ASSUME NEW list, NEW b \in Nat, ListInv(list, b), NEW p \in 1 .. Len(list),
           Bears(list[p]), ~RemoveFails(list[p], "typeenumlist")
    PROVE  ListInv(Spliced(list, p, RemoveName(list[p], "typeenumlist")), b)
<1> DEFINE rs == RemoveName(list[p], "typeenumlist")
<1>1. RecOK(list[p], b)
  <2>1. DOMAIN list = 1 .. Len(list)
    BY DEF ListInv
  <2> QED BY <2>1 DEF ListInv
<1>2. rs = <<>> \/ \E q : rs = <<q>> /\ RecOK(q, b) /\ q.uuid = list[p].uuid
  BY <1>1, RemovedName
<1> HIDE DEF rs
<1>3. CASE rs = <<>>
  <2>1. ListInv(Spliced(list, p, <<>>), b)
    BY SplicedOut
  <2> QED BY <1>3, <2>1 DEF rs
<1>4. ASSUME NEW q, rs = <<q>>, RecOK(q, b), q.uuid = list[p].uuid
      PROVE  ListInv(Spliced(list, p, rs), b)
  <2>1. ListInv(Spliced(list, p, <<q>>), b)
    BY <1>4, SplicedIn
  <2> QED BY <1>4, <2>1
<1> QED BY <1>2, <1>3, <1>4 DEF rs

-----------------------------------------------------------------------------
(* The record types *)

FirstType(list, t) ==
    LET at == {x \in DOMAIN list : list[x].data.type = t}
    IN  IF at = {} THEN 0 ELSE CHOOSE x \in at : \A y \in at : x <= y

LEMMA GetRecordtypeIs ==
    /\ \A t : GetRecordtype(t) = FirstType(db["RECORDTYPE"], t)
    /\ \A t : GetRecordtype(t)' = FirstType(db'["RECORDTYPE"], t)
BY DEF GetRecordtype, FirstType

LEMMA FoundType ==
    ASSUME NEW list, list \in Seq(ToSet(list)), NEW t
    PROVE  /\ FirstType(list, t) \in 0 .. Len(list)
           /\ FirstType(list, t) = 0 => \A x \in 1 .. Len(list) : list[x].data.type # t
           /\ FirstType(list, t) # 0 =>
                 /\ FirstType(list, t) \in 1 .. Len(list)
                 /\ list[FirstType(list, t)].data.type = t
                 /\ \A x \in 1 .. Len(list) : list[x].data.type = t => FirstType(list, t) <= x
<1> DEFINE at == {x \in DOMAIN list : list[x].data.type = t}
<1>1. Len(list) \in Nat /\ at \subseteq 1 .. Len(list)
  OBVIOUS
<1>2. CASE at = {}
  <2>1. FirstType(list, t) = 0
    BY <1>2 DEF FirstType
  <2> QED BY <1>1, <1>2, <2>1
<1>3. CASE at # {}
  <2> DEFINE p == CHOOSE x \in at : \A y \in at : x <= y
  <2>1. p \in at /\ \A y \in at : p <= y
    <3> HIDE DEF at
    <3> QED BY <1>1, <1>3, FirstOf
  <2>2. FirstType(list, t) = p
    BY <1>3 DEF FirstType
  <2>3. p \in 1 .. Len(list) /\ list[p].data.type = t
    BY <2>1
  <2>4. \A x \in 1 .. Len(list) : list[x].data.type = t => p <= x
    <3>1. \A x \in 1 .. Len(list) : list[x].data.type = t => x \in at
      OBVIOUS
    <3> QED BY <2>1, <3>1
  <2> HIDE DEF p, at
  <2>5. p # 0 /\ p \in 0 .. Len(list)
    BY <2>3
  <2> QED BY <2>2, <2>3, <2>4, <2>5
<1> QED BY <1>2, <1>3

(* No two records of the type, and where the template is taken. *)
Only(list, t) ==
    \A x, y \in DOMAIN list : list[x].data.type = t /\ list[y].data.type = t => x = y

LEMMA OneRecordtypeIs ==
    /\ \A t : OneRecordtype(t) <=> Only(db["RECORDTYPE"], t)
    /\ \A t : OneRecordtype(t)' <=> Only(db'["RECORDTYPE"], t)
    /\ \A t : Template(t) = db["RECORDTYPE"][FirstType(db["RECORDTYPE"], t)].tail
    /\ \A t : Template(t)' = db'["RECORDTYPE"][FirstType(db'["RECORDTYPE"], t)].tail
    /\ \A t : Described(t) <=> FirstType(db["RECORDTYPE"], t) # 0
<1>1. \A t : OneRecordtype(t) <=> Only(db["RECORDTYPE"], t)
  BY DEF OneRecordtype, Only
<1>2. \A t : OneRecordtype(t)' <=> Only(db'["RECORDTYPE"], t)
  BY DEF OneRecordtype, Only
<1>3. /\ \A t : Template(t) = db["RECORDTYPE"][FirstType(db["RECORDTYPE"], t)].tail
      /\ \A t : Template(t)' = db'["RECORDTYPE"][FirstType(db'["RECORDTYPE"], t)].tail
  BY GetRecordtypeIs DEF Template
<1>4. \A t : Described(t) <=> FirstType(db["RECORDTYPE"], t) # 0
  BY GetRecordtypeIs DEF Described
<1> QED BY <1>1, <1>2, <1>3, <1>4

LEMMA DescribedListed ==
    ASSUME DbInv, NEW t, Described(t)
    PROVE  t \in DOMAIN dyn
<1> DEFINE list == db["RECORDTYPE"]
<1>1. list \in Seq(ToSet(list)) /\ DOMAIN dyn = {list[x].data.type : x \in DOMAIN list}
  BY DEF DbInv, Lists, ListInv, StaticTypes, TypeRecords
<1>2. FirstType(list, t) # 0
  BY OneRecordtypeIs
<1> HIDE DEF list
<1>3. FirstType(list, t) \in DOMAIN list /\ list[FirstType(list, t)].data.type = t
  BY <1>1, <1>2, FoundType
<1> QED BY <1>1, <1>3

TypesOf(list) == {list[x].data.type : x \in DOMAIN list}

(* Storing a record type into old gives new. *)
LEMMA RecordtypeStored ==
    ASSUME NEW old, NEW b, ListInv(old, b), \A x \in DOMAIN old : old[x].data = old[x].uuid,
           NEW t, NEW rt, rt.type = t, NEW n, NEW tail,
           NEW new \in Stored(old, NewRecord(rt, rt, n, tail), n), ListInv(new, b + 1)
    PROVE  /\ \A x \in DOMAIN new : new[x].data = new[x].uuid
           /\ TypesOf(new) = TypesOf(old) \cup {t}
           /\ Len(new) >= Len(old)
           /\ \A s : (\E x \in DOMAIN old : old[x].data.type = s) /\ Only(new, s) =>
                 /\ Only(old, s)
                 /\ new[FirstType(new, s)].tail = old[FirstType(old, s)].tail
<1> DEFINE r == NewRecord(rt, rt, n, tail)
<1>1. /\ old \in Seq(ToSet(old)) /\ DOMAIN old = 1 .. Len(old) /\ Len(old) \in Nat
      /\ new \in Seq(ToSet(new)) /\ DOMAIN new = 1 .. Len(new) /\ Len(new) \in Nat
  BY DEF ListInv
<1>2. r.uuid = rt /\ r.data = rt
  BY DEF NewRecord
<1> HIDE DEF r
<1>3. ASSUME NEW p \in 1 .. Len(old), old[p].uuid = r.uuid,
             new = ReplaceAt(old, p, Renewed(old[p], r, n))
      PROVE  /\ Len(new) = Len(old)
             /\ \A x \in 1 .. Len(old) : /\ new[x].data = old[x].data
                                         /\ new[x].uuid = old[x].uuid
                                         /\ new[x].tail = old[x].tail
             /\ old[p].data.type = t
  <2> DEFINE q == [old[p] EXCEPT !.data = r.data]
             f == AddName(q, n)
  <2>1. RecOK(old[p], b) /\ old[p].data = old[p].uuid
    BY <1>1 DEF ListInv
  <2>2. /\ RecOK(q, b) /\ q.uuid = old[p].uuid /\ q.data = r.data
        /\ q.tail = old[p].tail
    BY <2>1, NewData
  <2>3. Renewed(old[p], r, n) = f
    BY DEF Renewed
  <2> HIDE DEF q
  <2>4. f.uuid = q.uuid /\ f.data = q.data /\ f.tail = q.tail
    <3>1. DOMAIN q = RecFields /\ q.names \in Seq(ToSet(q.names))
      BY <2>2 DEF RecOK, RecFields
    <3> QED BY <3>1, KeepsUuid
  <2> HIDE DEF f
  <2>5. f.uuid = old[p].uuid /\ f.data = old[p].data /\ f.tail = old[p].tail
    BY <1>2, <1>3, <2>1, <2>2, <2>4
  <2>6. new = ReplaceAt(old, p, f)
    BY <1>3, <2>3
  <2>7. /\ Len(new) = Len(old) /\ new[p] = f
        /\ \A x \in 1 .. Len(old) : x # p => new[x] = old[x]
    <3>1. old \in Seq(ToSet(old))
      BY <1>1
    <3> QED BY <2>6, <3>1, ReplacedList, SMTT(30)
  <2>8. \A x \in 1 .. Len(old) : /\ new[x].data = old[x].data
                                 /\ new[x].uuid = old[x].uuid
                                 /\ new[x].tail = old[x].tail
    <3> TAKE x \in 1 .. Len(old)
    <3>1. CASE x = p
      BY <2>5, <2>7, <3>1
    <3>2. CASE x # p
      BY <2>7, <3>2
    <3> QED BY <3>1, <3>2
  <2>9. old[p].data.type = t
    BY <1>2, <1>3, <2>1
  <2> QED BY <2>7, <2>8, <2>9
<1>4. ASSUME NEW p \in 1 .. Len(old), Len(new) = Len(old),
             \A x \in 1 .. Len(old) : /\ new[x].data = old[x].data
                                      /\ new[x].uuid = old[x].uuid
                                      /\ new[x].tail = old[x].tail,
             old[p].data.type = t
      PROVE  /\ \A x \in DOMAIN new : new[x].data = new[x].uuid
             /\ TypesOf(new) = TypesOf(old) \cup {t}
             /\ Len(new) >= Len(old)
             /\ \A s : (\E x \in DOMAIN old : old[x].data.type = s) /\ Only(new, s) =>
                   /\ Only(old, s)
                   /\ new[FirstType(new, s)].tail = old[FirstType(old, s)].tail
  <2>1. DOMAIN new = DOMAIN old
    BY <1>1, <1>4
  <2>2. \A x \in DOMAIN new : new[x].data = new[x].uuid
    BY <1>1, <1>4
  <2>3. TypesOf(new) = TypesOf(old) \cup {t}
    BY <1>1, <1>4 DEF TypesOf
  <2>4. ASSUME NEW s, NEW z \in DOMAIN old, old[z].data.type = s, Only(new, s)
        PROVE  Only(old, s) /\ new[FirstType(new, s)].tail = old[FirstType(old, s)].tail
    <3>1. Only(old, s)
      BY <1>1, <1>4, <2>1, <2>4 DEF Only
    <3>2. FirstType(old, s) \in 1 .. Len(old) /\ old[FirstType(old, s)].data.type = s
      BY <1>1, <2>4, FoundType
    <3>3. new[z].data.type = s /\ z \in 1 .. Len(new)
      BY <1>1, <1>4, <2>4
    <3>4. FirstType(new, s) \in 1 .. Len(new) /\ new[FirstType(new, s)].data.type = s
      BY <1>1, <3>3, FoundType
    <3>5. FirstType(old, s) = FirstType(new, s)
      <4>1. FirstType(new, s) \in DOMAIN old /\ old[FirstType(new, s)].data.type = s
        BY <1>1, <1>4, <3>4
      <4> QED BY <1>1, <3>1, <3>2, <4>1 DEF Only
    <3> QED BY <1>4, <3>1, <3>2, <3>5
  <2> QED BY <1>1, <1>4, <2>2, <2>3, <2>4
<1>5. ASSUME \A x \in 1 .. Len(old) : old[x].uuid # r.uuid,
             NEW p \in 1 .. Len(old) + 1, new = InsertAt(old, p, r)
      PROVE  /\ \A x \in DOMAIN new : new[x].data = new[x].uuid
             /\ TypesOf(new) = TypesOf(old) \cup {t}
             /\ Len(new) >= Len(old)
             /\ \A s : (\E x \in DOMAIN old : old[x].data.type = s) /\ Only(new, s) =>
                   /\ Only(old, s)
                   /\ new[FirstType(new, s)].tail = old[FirstType(old, s)].tail
  <2>1. /\ Len(new) = Len(old) + 1 /\ p \in 1 .. Len(new) /\ new[p] = r
        /\ \A x \in 1 .. Len(new) :
             \/ x = p
             \/ x < p /\ x \in 1 .. Len(old) /\ new[x] = old[x]
             \/ x > p /\ x - 1 \in 1 .. Len(old) /\ new[x] = old[x - 1]
        /\ \A y \in 1 .. Len(old) : \E x \in 1 .. Len(new) : x # p /\ new[x] = old[y]
    <3>1. old \in Seq(ToSet(old)) /\ new = InsertAt(old, p, r) /\ p \in 1 .. Len(old) + 1
      BY <1>1, <1>5
    <3>2. /\ Len(new) = Len(old) + 1 /\ p \in 1 .. Len(new) /\ new[p] = r
          /\ \A x \in 1 .. Len(new) :
               \/ x = p
               \/ x < p /\ x \in 1 .. Len(old) /\ new[x] = old[x]
               \/ x > p /\ x - 1 \in 1 .. Len(old) /\ new[x] = old[x - 1]
      BY <3>1, InsertedList, SMTT(30)
    <3>3. \A y \in 1 .. Len(old) : \E x \in 1 .. Len(new) : x # p /\ new[x] = old[y]
      BY <3>1, InsertedList, SMTT(30)
    <3> QED BY <3>2, <3>3
  <2>2. \A x \in 1 .. Len(new) : x = p \/ \E y \in 1 .. Len(old) : new[x] = old[y]
    BY <2>1
  <2>3. \A x \in DOMAIN new : new[x].data = new[x].uuid
    <3> SUFFICES ASSUME NEW x \in 1 .. Len(new) PROVE new[x].data = new[x].uuid
      BY <1>1
    <3>1. CASE x = p
      BY <1>2, <2>1, <3>1
    <3>2. ASSUME NEW y \in 1 .. Len(old), new[x] = old[y] PROVE new[x].data = new[x].uuid
      BY <1>1, <3>2
    <3> QED BY <2>2, <3>1, <3>2
  <2>4. TypesOf(new) = TypesOf(old) \cup {t}
    <3>1. \A x \in 1 .. Len(new) : new[x].data.type = t \/ \E y \in 1 .. Len(old) : new[x] = old[y]
      BY <1>2, <2>1, <2>2
    <3>2. new[p].data.type = t /\ p \in 1 .. Len(new)
      BY <1>2, <2>1
    <3>3. \A y \in 1 .. Len(old) : \E x \in 1 .. Len(new) : new[x] = old[y]
      BY <2>1
    <3>4. ASSUME NEW x \in DOMAIN new
          PROVE  new[x].data.type \in {old[y].data.type : y \in DOMAIN old} \cup {t}
      BY <1>1, <3>1
    <3>5. ASSUME NEW y \in DOMAIN old
          PROVE  old[y].data.type \in {new[x].data.type : x \in DOMAIN new}
      BY <1>1, <3>3
    <3>6. t \in {new[x].data.type : x \in DOMAIN new}
      BY <1>1, <3>2
    <3> QED BY <3>4, <3>5, <3>6 DEF TypesOf
  <2>5. Len(new) >= Len(old)
    BY <1>1, <2>1
  <2>6. ASSUME NEW s, NEW z \in DOMAIN old, old[z].data.type = s, Only(new, s)
        PROVE  Only(old, s) /\ new[FirstType(new, s)].tail = old[FirstType(old, s)].tail
    <3>1. PICK zz \in 1 .. Len(new) : zz # p /\ new[zz] = old[z]
      BY <1>1, <2>1
    <3>2. s # t
      BY <1>1, <1>2, <2>1, <2>6, <3>1 DEF Only
    <3>3. ASSUME NEW x \in 1 .. Len(old), old[x].data.type = s PROVE x = z
      <4>1. PICK xx \in 1 .. Len(new) : xx # p /\ new[xx] = old[x]
        BY <2>1
      <4>2. xx = zz
        BY <1>1, <2>6, <3>1, <3>3, <4>1 DEF Only
      <4>3. old[x] = old[z]
        BY <3>1, <4>1, <4>2
      <4> QED BY <1>1, <4>3 DEF ListInv, Keyed
    <3>4. Only(old, s)
      BY <1>1, <3>3 DEF Only
    <3>5. FirstType(old, s) = z
      BY <1>1, <2>6, <3>3, FoundType
    <3>6. FirstType(new, s) \in 1 .. Len(new) /\ new[FirstType(new, s)].data.type = s
      BY <1>1, <2>6, <3>1, FoundType
    <3>7. FirstType(new, s) = zz
      BY <1>1, <2>6, <3>1, <3>6 DEF Only
    <3> QED BY <3>1, <3>4, <3>5, <3>7
  <2> QED BY <2>3, <2>4, <2>5, <2>6
<1>6. new \in Stored(old, r, n)
  BY DEF r
<1>7. \/ /\ \A x \in 1 .. Len(old) : old[x].uuid # r.uuid
         /\ \E p \in 1 .. Len(old) + 1 : new = InsertAt(old, p, r)
      \/ \E p \in 1 .. Len(old) : /\ old[p].uuid = r.uuid
                                  /\ new = ReplaceAt(old, p, Renewed(old[p], r, n))
  BY <1>1, <1>6, StoredCases
<1> QED BY <1>3, <1>4, <1>5, <1>7

-----------------------------------------------------------------------------
(* Steps *)

LEMMA Reading ==
    ASSUME DbInv, Read
    PROVE  /\ reads \in Nat /\ reads' = reads + 1 /\ reads' \in 0 .. DbMaxReads /\ ~dbcrash
           /\ \A t \in StaticTypes : ListInv(db[t], reads) /\ Len(db[t]) \in Nat
           /\ \A t \in DOMAIN dyn : ListInv(dyn[t], reads)
           /\ \A h \in DbThreads : walk[h] = [pc |-> "idle"]
<1>1. /\ reads \in 0 .. DbMaxReads /\ reads < DbMaxReads /\ reads' = reads + 1 /\ ~dbcrash
  BY DEF DbInv, Read
<1>2. reads \in Nat /\ reads' \in 0 .. DbMaxReads
  BY <1>1, DbMaxReadsAssumption
<1>3. /\ \A t \in StaticTypes : ListInv(db[t], reads) /\ Len(db[t]) \in Nat
      /\ \A t \in DOMAIN dyn : ListInv(dyn[t], reads)
  BY DEF DbInv, Lists, ListInv
<1>4. ASSUME NEW h \in DbThreads PROVE walk[h] = [pc |-> "idle"]
  <2>1. walk[h].pc = "idle" /\ WalkInv(walk[h])
    BY DEF DbInv, Read, Quiet
  <2> QED BY <2>1 DEF WalkInv
<1> QED BY <1>1, <1>2, <1>3, <1>4

(* Both kinds of lists are larger by the read, the threads are at rest.    *)
LEMMA CountedAfter ==
    ASSUME DbInv, DOMAIN db' = StaticTypes, NEW b, \A t \in StaticTypes : ListInv(db'[t], b),
           Counted(db')
    PROVE  DbCounted'
<1> SUFFICES ASSUME NEW t \in StaticTypes PROVE recno'[t] = Len(db'[t])
  BY DEF DbCounted
<1>1. recno'[t] = recno[t] + Len(db'[t]) - Len(db[t])
  BY DEF Counted
<1>2. recno[t] = Len(db[t]) /\ Len(db[t]) \in Nat /\ Len(db'[t]) \in Nat
  BY DEF DbInv, DbCounted, Lists, ListInv
<1> QED BY <1>1, <1>2

LEMMA StaticStep ==
    ASSUME DbInv, Read, DOMAIN db' = StaticTypes,
           \A t \in StaticTypes : ListInv(db'[t], reads + 1),
           db'["RECORDTYPE"] = db["RECORDTYPE"], Counted(db'),
           \E x \in DOMAIN db'["NAMELIST"] : Bears(db'["NAMELIST"][x]),
           dyn' = dyn, cursor' = cursor, walk' = walk, dbcrash' = dbcrash
    PROVE  DbInv'
<1>1. /\ reads \in Nat /\ reads' = reads + 1 /\ reads' \in 0 .. DbMaxReads /\ ~dbcrash
      /\ \A t \in DOMAIN dyn : ListInv(dyn[t], reads)
      /\ \A h \in DbThreads : walk[h] = [pc |-> "idle"]
  BY Reading
<1>2. Lists(reads)'
  <2>1. \A t \in DOMAIN dyn : ListInv(dyn[t], reads + 1)
    BY <1>1, LaterList
  <2> QED BY <1>1, <2>1 DEF Lists
<1>3. TypeRecords'
  BY DEF DbInv, TypeRecords
<1>4. DbCounted'
  BY CountedAfter
<1>5. DbFiledUnderItsData'
  <2>1. /\ \A t : OneRecordtype(t)' <=> OneRecordtype(t)
        /\ \A t : Template(t)' = Template(t)
    BY OneRecordtypeIs
  <2>2. ASSUME NEW t \in DOMAIN dyn', OneRecordtype(t)', NEW x \in DOMAIN dyn'[t]
        PROVE  dyn'[t][x].uuid = CompUuid(dyn'[t][x].data, Template(t)')
    <3>1. dyn[t][x].uuid = CompUuid(dyn[t][x].data, Template(t))
      BY <2>1, <2>2 DEF DbInv, DbFiledUnderItsData
    <3> QED BY <2>1, <3>1
  <2> QED BY <2>2 DEF DbFiledUnderItsData, CompUuid
<1>6. \A h \in DbThreads : WalkInv(walk[h])'
  BY <1>1 DEF WalkInv
<1> QED BY <1>1, <1>2, <1>3, <1>4, <1>5, <1>6 DEF DbInv, DbNoCrash

LEMMA TypeStep ==
    ASSUME DbInv, Read, NEW n, n # "typeenumlist", NEW t \in TypesMeant, NEW u, NEW idx,
           NEW sds, ListInv(sds, reads + 1), StoreRecordtype(n, t, sds, u, idx)
    PROVE  DbInv'
<1> DEFINE rt == [type |-> t, uuid |-> u, index |-> idx]
           tail == [desc |-> sds[FindUuid(sds, u)].tail, index |-> idx]
           old == db["RECORDTYPE"]
           r == NewRecord(rt, rt, n, tail)
<1>1. PICK list \in Stored(old, r, n) :
         db' = [db EXCEPT !["STRUCT_DESC"] = sds, !["RECORDTYPE"] = list]
  BY DEF StoreRecordtype
<1>2. /\ Counted(db') /\ dyn' = RegisterDynamic(t)
      /\ typeenum' = typeenum /\ cursor' = cursor /\ walk' = walk /\ dbcrash' = dbcrash
  BY DEF StoreRecordtype
<1>3. /\ reads \in Nat /\ reads' = reads + 1 /\ reads' \in 0 .. DbMaxReads /\ ~dbcrash
      /\ \A s \in StaticTypes : ListInv(db[s], reads)
      /\ \A s \in DOMAIN dyn : ListInv(dyn[s], reads)
      /\ \A h \in DbThreads : walk[h] = [pc |-> "idle"]
  BY Reading
<1>4. DOMAIN db = StaticTypes
  BY DEF DbInv
<1>5. /\ DOMAIN db' = StaticTypes /\ db'["STRUCT_DESC"] = sds /\ db'["RECORDTYPE"] = list
      /\ \A s \in StaticTypes \ {"STRUCT_DESC", "RECORDTYPE"} : db'[s] = db[s]
  BY <1>1, <1>4 DEF StaticTypes
<1>6. ListInv(old, reads)
  BY <1>3 DEF StaticTypes
<1>7. ListInv(list, reads + 1)
  <2>1. RecOK(r, reads + 1)
    BY <1>3, NewRecordOK
  <2> HIDE DEF r, old
  <2> QED BY <1>1, <1>3, <1>6, <2>1, StoredOther
<1>8. \A s \in StaticTypes : ListInv(db'[s], reads + 1)
  BY <1>3, <1>5, <1>7, LaterList
<1>9. /\ \A x \in DOMAIN old : old[x].data = old[x].uuid
      /\ DOMAIN dyn = TypesOf(old)
      /\ DOMAIN dyn \subseteq TypesMeant
  BY DEF DbInv, TypeRecords, TypesOf
<1>10. /\ \A x \in DOMAIN list : list[x].data = list[x].uuid
       /\ TypesOf(list) = TypesOf(old) \cup {t}
       /\ Len(list) >= Len(old)
       /\ \A s : (\E x \in DOMAIN old : old[x].data.type = s) /\ Only(list, s) =>
             /\ Only(old, s)
             /\ list[FirstType(list, s)].tail = old[FirstType(old, s)].tail
  <2>1. rt.type = t
    OBVIOUS
  <2>2. list \in Stored(old, NewRecord(rt, rt, n, tail), n)
    BY <1>1
  <2> HIDE DEF rt, tail, old
  <2> QED BY <1>6, <1>7, <1>9, <2>1, <2>2, RecordtypeStored, SMTT(30)
<1>11. /\ DOMAIN dyn' = DOMAIN dyn \cup {t}
       /\ \A s \in DOMAIN dyn : dyn'[s] = dyn[s]
       /\ t \notin DOMAIN dyn => dyn'[t] = <<>>
  BY <1>2 DEF RegisterDynamic
<1> HIDE DEF rt, tail, r
<1>12. Lists(reads)'
  <2>1. ASSUME NEW s \in DOMAIN dyn' PROVE ListInv(dyn'[s], reads + 1)
    <3>1. CASE s \in DOMAIN dyn
      BY <1>3, <1>11, <3>1, LaterList
    <3>2. CASE s \notin DOMAIN dyn
      <4>1. dyn'[s] = <<>>
        BY <1>11, <3>2
      <4>2. ListInv(<<>>, reads + 1)
        BY DEF ListInv, Keyed, ToSet
      <4> QED BY <4>1, <4>2
    <3> QED BY <3>1, <3>2
  <2> QED BY <1>3, <1>8, <2>1 DEF Lists
<1>13. TypeRecords' /\ DOMAIN dyn' \subseteq TypesMeant
  BY <1>5, <1>9, <1>10, <1>11 DEF TypeRecords, TypesOf
<1>14. DbCounted'
  BY <1>2, <1>5, <1>8, CountedAfter
<1>15. DbFiledUnderItsData'
  <2>1. ASSUME NEW s \in DOMAIN dyn', OneRecordtype(s)', NEW x \in DOMAIN dyn'[s]
        PROVE  dyn'[s][x].uuid = CompUuid(dyn'[s][x].data, Template(s)')
    <3>1. s \in DOMAIN dyn
      BY <1>11, <2>1
    <3>2. Only(list, s)
      BY <1>5, <2>1, OneRecordtypeIs
    <3>3. Only(old, s) /\ list[FirstType(list, s)].tail = old[FirstType(old, s)].tail
      <4>1. \E y \in DOMAIN old : old[y].data.type = s
        BY <1>9, <3>1 DEF TypesOf
      <4> QED BY <1>10, <3>2, <4>1
    <3>4. OneRecordtype(s) /\ Template(s)' = Template(s)
      BY <1>5, <3>3, OneRecordtypeIs
    <3>5. dyn'[s] = dyn[s]
      BY <1>11, <3>1
    <3>6. dyn[s][x].uuid = CompUuid(dyn[s][x].data, Template(s))
      BY <2>1, <3>1, <3>4, <3>5 DEF DbInv, DbFiledUnderItsData
    <3> QED BY <3>4, <3>5, <3>6
  <2> QED BY <2>1 DEF DbFiledUnderItsData, CompUuid
<1>16. \A h \in DbThreads : WalkInv(walk[h])'
  BY <1>2, <1>3 DEF WalkInv
<1>17. \E x \in DOMAIN db'["NAMELIST"] : Bears(db'["NAMELIST"][x])
  BY <1>5 DEF DbInv, StaticTypes
<1>18. cursor' \in 0 .. Len(db'["RECORDTYPE"])
  <2>1. cursor \in 0 .. Len(old) /\ Len(old) \in Nat /\ Len(list) \in Nat
    BY <1>6, <1>7 DEF DbInv, ListInv
  <2> QED BY <1>2, <1>5, <1>10, <2>1
<1> QED BY <1>2, <1>3, <1>5, <1>12, <1>13, <1>14, <1>15, <1>16, <1>17, <1>18 DEF DbInv, DbNoCrash

LEMMA DynStep ==
    ASSUME DbInv, Read, NEW t \in DOMAIN dyn, NEW d, NEW n, n # "typeenumlist",
           NEW m, m # "typeenumlist",
           NEW list \in Stored(dyn[t], NewRecord(CompUuid(d, Template(t)), d, n, DbNil), m),
           dyn' = [dyn EXCEPT ![t] = list],
           UNCHANGED <<db, recno, typeenum, cursor, walk, dbcrash>>
    PROVE  DbInv'
<1> DEFINE old == dyn[t]
           u == CompUuid(d, Template(t))
           r == NewRecord(u, d, n, DbNil)
<1>1. /\ reads \in Nat /\ reads' = reads + 1 /\ reads' \in 0 .. DbMaxReads /\ ~dbcrash
      /\ \A s \in StaticTypes : ListInv(db[s], reads)
      /\ \A s \in DOMAIN dyn : ListInv(dyn[s], reads)
      /\ \A h \in DbThreads : walk[h] = [pc |-> "idle"]
  BY Reading
<1>2. RecOK(r, reads + 1) /\ r.uuid = u /\ r.data = d
  BY <1>1, NewRecordOK
<1>3. ListInv(old, reads) /\ list \in Stored(old, r, m)
  BY <1>1
<1> HIDE DEF r, old
<1>4. ListInv(list, reads + 1)
  BY <1>1, <1>2, <1>3, StoredOther
<1>5. /\ DOMAIN dyn' = DOMAIN dyn /\ dyn'[t] = list
      /\ \A s \in DOMAIN dyn : s # t => dyn'[s] = dyn[s]
  OBVIOUS
<1>6. Lists(reads)'
  <2>1. \A s \in StaticTypes : ListInv(db'[s], reads + 1)
    BY <1>1, LaterList
  <2>2. ASSUME NEW s \in DOMAIN dyn PROVE ListInv(dyn'[s], reads + 1)
    <3>1. CASE s = t
      BY <1>4, <1>5, <3>1
    <3>2. CASE s # t
      BY <1>1, <1>5, <3>2, LaterList
    <3> QED BY <3>1, <3>2
  <2> QED BY <1>1, <1>5, <2>1, <2>2 DEF Lists
<1>7. TypeRecords' /\ DOMAIN dyn' \subseteq TypesMeant
  BY <1>5 DEF DbInv, TypeRecords
<1>8. DbFiledUnderItsData'
  <2>1. /\ \A s : OneRecordtype(s)' <=> OneRecordtype(s)
        /\ \A s : Template(s)' = Template(s)
    BY OneRecordtypeIs
  <2>2. ASSUME OneRecordtype(t), NEW x \in DOMAIN list
        PROVE  list[x].uuid = CompUuid(list[x].data, Template(t))
    <3>1. \A y \in DOMAIN old : old[y].uuid = CompUuid(old[y].data, Template(t))
      BY <2>2 DEF DbInv, DbFiledUnderItsData, old
    <3>2. /\ old \in Seq(ToSet(old)) /\ DOMAIN old = 1 .. Len(old)
          /\ DOMAIN list = 1 .. Len(list)
      BY <1>3, <1>4 DEF ListInv
    <3>3. ASSUME NEW p \in 1 .. Len(old) + 1, list = InsertAt(old, p, r)
          PROVE  list[x].uuid = CompUuid(list[x].data, Template(t))
      <4>1. /\ list[p] = r
            /\ \A z \in 1 .. Len(list) :
                 \/ z = p
                 \/ z < p /\ z \in 1 .. Len(old) /\ list[z] = old[z]
                 \/ z > p /\ z - 1 \in 1 .. Len(old) /\ list[z] = old[z - 1]
        BY <3>2, <3>3, InsertedList, SMTT(30)
      <4>2. x = p \/ \E y \in 1 .. Len(old) : list[x] = old[y]
        BY <3>2, <4>1
      <4>3. CASE x = p
        BY <1>2, <4>1, <4>3 DEF u
      <4>4. CASE \E y \in 1 .. Len(old) : list[x] = old[y]
        BY <3>1, <3>2, <4>4
      <4> QED BY <4>2, <4>3, <4>4
    <3>4. ASSUME NEW p \in 1 .. Len(old), old[p].uuid = r.uuid,
                 list = ReplaceAt(old, p, Renewed(old[p], r, m))
          PROVE  list[x].uuid = CompUuid(list[x].data, Template(t))
      <4> DEFINE q == [old[p] EXCEPT !.data = r.data]
                 f == AddName(q, m)
      <4>1. RecOK(old[p], reads)
        BY <1>3, <3>2 DEF ListInv
      <4>2. RecOK(q, reads) /\ q.uuid = old[p].uuid /\ q.data = r.data
        BY <4>1, NewData
      <4>3. Renewed(old[p], r, m) = f
        BY DEF Renewed
      <4> HIDE DEF q
      <4>4. f.uuid = q.uuid /\ f.data = q.data
        <5>1. DOMAIN q = RecFields /\ q.names \in Seq(ToSet(q.names))
          BY <4>2 DEF RecOK, RecFields
        <5> QED BY <5>1, KeepsUuid
      <4> HIDE DEF f
      <4>5. list = ReplaceAt(old, p, f)
        BY <3>4, <4>3
      <4>6. /\ Len(list) = Len(old) /\ list[p] = f
            /\ \A z \in 1 .. Len(old) : z # p => list[z] = old[z]
        <5>1. old \in Seq(ToSet(old))
          BY <3>2
        <5> QED BY <4>5, <5>1, ReplacedList, SMTT(30)
      <4>7. CASE x = p
        <5>1. f.uuid = u /\ f.data = d
          BY <1>2, <3>4, <4>2, <4>4
        <5> QED BY <4>6, <4>7, <5>1 DEF u
      <4>8. CASE x # p
        BY <3>1, <3>2, <4>6, <4>8
      <4> QED BY <4>7, <4>8
    <3> QED BY <1>3, <3>2, <3>3, <3>4, StoredCases
  <2>3. ASSUME NEW s \in DOMAIN dyn', OneRecordtype(s)', NEW x \in DOMAIN dyn'[s]
        PROVE  dyn'[s][x].uuid = CompUuid(dyn'[s][x].data, Template(s)')
    <3>1. CASE s = t
      BY <1>5, <2>1, <2>2, <2>3, <3>1
    <3>2. CASE s # t
      <4>1. dyn'[s] = dyn[s] /\ s \in DOMAIN dyn
        BY <1>5, <3>2
      <4>2. dyn[s][x].uuid = CompUuid(dyn[s][x].data, Template(s))
        BY <2>1, <2>3, <4>1 DEF DbInv, DbFiledUnderItsData
      <4> QED BY <2>1, <4>1, <4>2
    <3> QED BY <3>1, <3>2
  <2> QED BY <2>3 DEF DbFiledUnderItsData, CompUuid
<1>9. \A h \in DbThreads : WalkInv(walk[h])'
  BY <1>1 DEF WalkInv
<1>10. /\ DOMAIN db' = StaticTypes /\ cursor' \in 0 .. Len(db'["RECORDTYPE"])
       /\ DbCounted' /\ DbNoCrash'
       /\ \E x \in DOMAIN db'["NAMELIST"] : Bears(db'["NAMELIST"][x])
  BY DEF DbInv, DbCounted, DbNoCrash
<1> QED BY <1>1, <1>6, <1>7, <1>8, <1>9, <1>10 DEF DbInv

-----------------------------------------------------------------------------
(* The actions *)

LEMMA ReadNamelistInv ==
    ASSUME DbInv, NEW n, n # "typeenumlist", NEW l, ReadNamelist(n, l)
    PROVE  DbInv'
<1> DEFINE old == db["NAMELIST"]
           r == NewRecord(l, l, n, l)
<1>1. PICK list \in Stored(old, r, n) : db' = [db EXCEPT !["NAMELIST"] = list]
  BY DEF ReadNamelist
<1>2. Read /\ Counted(db') /\ dyn' = dyn /\ cursor' = cursor /\ walk' = walk /\ dbcrash' = dbcrash
  BY DEF ReadNamelist
<1>3. /\ reads \in Nat /\ \A t \in StaticTypes : ListInv(db[t], reads)
      /\ DOMAIN db = StaticTypes
      /\ \E x \in DOMAIN old : Bears(old[x])
  BY <1>2, Reading DEF DbInv
<1>4. /\ DOMAIN db' = StaticTypes /\ db'["NAMELIST"] = list
      /\ \A t \in StaticTypes \ {"NAMELIST"} : db'[t] = db[t]
  BY <1>1, <1>3 DEF StaticTypes
<1>5. ListInv(old, reads)
  BY <1>3 DEF StaticTypes
<1> HIDE DEF old
<1>6. ListInv(list, reads + 1)
  <2>1. RecOK(r, reads + 1)
    BY <1>3, NewRecordOK
  <2> HIDE DEF r
  <2> QED BY <1>1, <1>3, <1>5, <2>1, StoredOther
<1> HIDE DEF r
<1>7. \E x \in DOMAIN list : Bears(list[x])
  BY <1>1, <1>3, <1>5, BearerKept
<1>8. \A t \in StaticTypes : ListInv(db'[t], reads + 1)
  BY <1>3, <1>4, <1>6, LaterList
<1>9. db'["RECORDTYPE"] = db["RECORDTYPE"]
  BY <1>4 DEF StaticTypes
<1> QED BY <1>2, <1>4, <1>7, <1>8, <1>9, StaticStep

(* A name list in a description, or one that is there. *)
LEMMA InlineList ==
    ASSUME DbInv, Read, NEW l, NEW inline,
           NEW nl \in ItsNamelist(l, inline)
    PROVE  ListInv(nl, reads + 1) /\ \E x \in DOMAIN nl : Bears(nl[x])
<1> DEFINE old == db["NAMELIST"]
           r == NewRecord(l, l, "", l)
<1>1. reads \in Nat /\ ListInv(old, reads) /\ \E x \in DOMAIN old : Bears(old[x])
  BY Reading DEF DbInv, StaticTypes
<1>2. CASE nl \in Stored(old, r, "")
  <2>0. RecOK(r, reads + 1)
    <3>1. reads + 1 \in Nat /\ "" # "typeenumlist"
      BY <1>1
    <3> HIDE DEF old
    <3> QED BY <3>1, NewRecordOK
  <2>1. nl \in Stored(old, r, "") /\ RecOK(r, reads + 1)
    BY <1>2, <2>0
  <2> HIDE DEF old, r
  <2>2. ListInv(nl, reads + 1)
    BY <1>1, <2>1, StoredOther
  <2>3. \E x \in DOMAIN nl : Bears(nl[x])
    BY <1>1, <2>1, BearerKept
  <2> QED BY <2>2, <2>3
<1>3. CASE nl = old
  <2>1. nl = old
    BY <1>3
  <2> QED BY <1>1, <2>1, LaterList
<1>4. nl \in Stored(old, r, "") \/ nl = old
  BY DEF ItsNamelist
<1> QED BY <1>2, <1>3, <1>4

LEMMA ReadTypelistInv ==
    ASSUME DbInv, NEW n, n # "typeenumlist", NEW l, NEW inline, ReadTypelist(n, l, inline)
    PROVE  DbInv'
<1> DEFINE T == "typeenumlist"
           oldT == db["TYPELIST"]
           r == NewRecord(l, l, n, l)
<1>1. Read /\ Counted(db') /\ dyn' = dyn /\ cursor' = cursor /\ walk' = walk /\ dbcrash' = dbcrash
  BY DEF ReadTypelist
<1>2. PICK nl \in ItsNamelist(l, inline),
           tl \in Stored(oldT, r, n) :
         \E p \in {FindByname(nl, T)} :
           IF RemoveFails(nl[p], T)
           THEN db' = [db EXCEPT !["NAMELIST"] = nl, !["TYPELIST"] = tl]
           ELSE \E merged \in {MergeNamelist(nl[p].data, l)} :
                  \E fin \in Restored(Spliced(nl, p, RemoveName(nl[p], T)), merged) :
                     db' = [db EXCEPT !["NAMELIST"] = fin, !["TYPELIST"] = tl]
  BY DEF ReadTypelist
<1>3. /\ reads \in Nat /\ \A t \in StaticTypes : ListInv(db[t], reads)
      /\ DOMAIN db = StaticTypes
  BY <1>1, Reading DEF DbInv
<1>4. ListInv(nl, reads + 1) /\ \E x \in DOMAIN nl : Bears(nl[x])
  BY <1>1, InlineList
<1>5. ListInv(tl, reads + 1)
  <2>1. RecOK(r, reads + 1) /\ ListInv(oldT, reads)
    BY <1>3, NewRecordOK DEF StaticTypes
  <2> HIDE DEF r, oldT
  <2> QED BY <1>2, <1>3, <2>1, StoredOther
<1> DEFINE p == FindByname(nl, T)
<1>6. p \in 1 .. Len(nl) /\ Bears(nl[p])
  <2>1. nl \in Seq(ToSet(nl)) /\ DOMAIN nl = 1 .. Len(nl)
    BY <1>4 DEF ListInv
  <2> QED BY <1>4, <2>1, FoundByname DEF Bears
<1>7. \/ db' = [db EXCEPT !["NAMELIST"] = nl, !["TYPELIST"] = tl]
      \/ /\ ~RemoveFails(nl[p], T)
         /\ \E merged : \E fin \in Restored(Spliced(nl, p, RemoveName(nl[p], T)), merged) :
               db' = [db EXCEPT !["NAMELIST"] = fin, !["TYPELIST"] = tl]
  BY <1>2
<1> HIDE DEF p, r, oldT
<1>8. \E fin : /\ db' = [db EXCEPT !["NAMELIST"] = fin, !["TYPELIST"] = tl]
               /\ ListInv(fin, reads + 1) /\ \E x \in DOMAIN fin : Bears(fin[x])
  <2>1. CASE db' = [db EXCEPT !["NAMELIST"] = nl, !["TYPELIST"] = tl]
    BY <1>4, <2>1
  <2>2. ASSUME ~RemoveFails(nl[p], T), NEW merged,
               NEW fin \in Restored(Spliced(nl, p, RemoveName(nl[p], T)), merged),
               db' = [db EXCEPT !["NAMELIST"] = fin, !["TYPELIST"] = tl]
        PROVE  ListInv(fin, reads + 1) /\ \E x \in DOMAIN fin : Bears(fin[x])
    <3> DEFINE b == reads + 1
               sp == Spliced(nl, p, RemoveName(nl[p], T))
    <3>1. b \in Nat /\ ListInv(nl, b)
      BY <1>3, <1>4
    <3> HIDE DEF b
    <3>2. ListInv(sp, b)
      BY <1>6, <2>2, <3>1, TakenInv
    <3> HIDE DEF sp
    <3>3. fin \in Restored(sp, merged)
      BY <2>2 DEF sp
    <3>4. ListInv(fin, b) /\ \E x \in DOMAIN fin : Bears(fin[x])
      BY <3>1, <3>2, <3>3, RestoredInv
    <3> QED BY <3>4 DEF b
  <2> QED BY <1>7, <2>1, <2>2
<1>9. PICK fin : /\ db' = [db EXCEPT !["NAMELIST"] = fin, !["TYPELIST"] = tl]
                 /\ ListInv(fin, reads + 1) /\ \E x \in DOMAIN fin : Bears(fin[x])
  BY <1>8
<1>10. /\ DOMAIN db' = StaticTypes /\ db'["NAMELIST"] = fin /\ db'["TYPELIST"] = tl
       /\ \A t \in StaticTypes \ {"NAMELIST", "TYPELIST"} : db'[t] = db[t]
  BY <1>3, <1>9 DEF StaticTypes
<1>11. \A t \in StaticTypes : ListInv(db'[t], reads + 1)
  BY <1>3, <1>5, <1>9, <1>10, LaterList
<1>12. db'["RECORDTYPE"] = db["RECORDTYPE"]
  BY <1>10 DEF StaticTypes
<1> QED BY <1>1, <1>9, <1>10, <1>11, <1>12, StaticStep

LEMMA ReadSubtypelistInv ==
    ASSUME DbInv, NEW n, n # "typeenumlist", NEW l, NEW tn, NEW inline,
           ReadSubtypelist(n, l, tn, inline)
    PROVE  DbInv'
<1> DEFINE oldU == db["SUBTYPELIST"]
<1>1. Read /\ Counted(db') /\ dyn' = dyn /\ cursor' = cursor /\ walk' = walk /\ dbcrash' = dbcrash
  BY DEF ReadSubtypelist
<1>2. PICK nl \in ItsNamelist(l, inline) :
         \E sl : \E ul \in Stored(oldU, NewRecord(sl, sl, n, l), n) :
           db' = [db EXCEPT !["NAMELIST"] = nl, !["SUBTYPELIST"] = ul]
  BY DEF ReadSubtypelist
<1>3. PICK sl : \E ul \in Stored(oldU, NewRecord(sl, sl, n, l), n) :
           db' = [db EXCEPT !["NAMELIST"] = nl, !["SUBTYPELIST"] = ul]
  BY <1>2
<1> DEFINE r == NewRecord(sl, sl, n, l)
<1>4. PICK ul \in Stored(oldU, r, n) :
           db' = [db EXCEPT !["NAMELIST"] = nl, !["SUBTYPELIST"] = ul]
  BY <1>3
<1>5. /\ reads \in Nat /\ \A t \in StaticTypes : ListInv(db[t], reads)
      /\ DOMAIN db = StaticTypes
  BY <1>1, Reading DEF DbInv
<1>6. ListInv(nl, reads + 1) /\ \E x \in DOMAIN nl : Bears(nl[x])
  BY <1>1, InlineList
<1>7. ListInv(ul, reads + 1)
  <2>1. RecOK(r, reads + 1) /\ ListInv(oldU, reads)
    BY <1>5, NewRecordOK DEF StaticTypes
  <2> HIDE DEF r, oldU
  <2> QED BY <1>4, <1>5, <2>1, StoredOther
<1>8. /\ DOMAIN db' = StaticTypes /\ db'["NAMELIST"] = nl /\ db'["SUBTYPELIST"] = ul
      /\ \A t \in StaticTypes \ {"NAMELIST", "SUBTYPELIST"} : db'[t] = db[t]
  BY <1>4, <1>5 DEF StaticTypes
<1>9. \A t \in StaticTypes : ListInv(db'[t], reads + 1)
  BY <1>5, <1>6, <1>7, <1>8, LaterList
<1>10. db'["RECORDTYPE"] = db["RECORDTYPE"]
  BY <1>8 DEF StaticTypes
<1> QED BY <1>1, <1>6, <1>8, <1>9, <1>10, StaticStep

LEMMA StoreStructInv ==
    ASSUME DbInv, Read, NEW n, n # "typeenumlist", NEW d, NEW list \in StoreStruct(n, d)
    PROVE  ListInv(list, reads + 1)
<1> DEFINE old == db["STRUCT_DESC"]
           r == NewRecord(d.el, d, n, AttrOf(d))
<1>1. list \in Stored(old, r, n)
  BY DEF StoreStruct
<1>2. reads \in Nat /\ ListInv(old, reads)
  BY Reading DEF StaticTypes
<1>3. RecOK(r, reads + 1)
  BY <1>2, NewRecordOK
<1> HIDE DEF old, r
<1> QED BY <1>1, <1>2, <1>3, StoredOther

LEMMA ReadStructInv ==
    ASSUME DbInv, NEW n, n # "typeenumlist", NEW d, ReadStruct(n, d)
    PROVE  DbInv'
<1>1. Read /\ Counted(db') /\ dyn' = dyn /\ cursor' = cursor /\ walk' = walk /\ dbcrash' = dbcrash
  BY DEF ReadStruct
<1>2. PICK list \in StoreStruct(n, d) : db' = [db EXCEPT !["STRUCT_DESC"] = list]
  BY DEF ReadStruct
<1>3. /\ reads \in Nat /\ \A t \in StaticTypes : ListInv(db[t], reads)
      /\ DOMAIN db = StaticTypes
  BY <1>1, Reading DEF DbInv
<1>4. ListInv(list, reads + 1)
  BY <1>1, <1>2, StoreStructInv
<1>5. /\ DOMAIN db' = StaticTypes /\ db'["STRUCT_DESC"] = list
      /\ \A t \in StaticTypes \ {"STRUCT_DESC"} : db'[t] = db[t]
  BY <1>2, <1>3 DEF StaticTypes
<1>6. \A t \in StaticTypes : ListInv(db'[t], reads + 1)
  BY <1>3, <1>4, <1>5, LaterList
<1>7. /\ db'["RECORDTYPE"] = db["RECORDTYPE"] /\ db'["NAMELIST"] = db["NAMELIST"]
  BY <1>5 DEF StaticTypes
<1>8. \E x \in DOMAIN db'["NAMELIST"] : Bears(db'["NAMELIST"][x])
  BY <1>7 DEF DbInv
<1> QED BY <1>1, <1>5, <1>6, <1>7, <1>8, StaticStep

LEMMA ReadDescInv ==
    ASSUME DbInv, NEW d \in DbDescs, ReadDesc(d)
    PROVE  DbInv'
<1>1. d.name # "typeenumlist"
  BY DbNamesAssumption
<1>2. d.kind \in {"RECORDTYPE", "RECORDTYPE_OWN"} => d.type \in TypesMeant
  BY DEF TypesMeant
<1>3. CASE ReadNamelist(d.name, d.list)
  BY <1>1, <1>3, ReadNamelistInv
<1>4. CASE ReadTypelist(d.name, d.list, d.inline)
  BY <1>1, <1>4, ReadTypelistInv
<1>5. CASE ReadSubtypelist(d.name, d.list, d.of, d.inline)
  BY <1>1, <1>5, ReadSubtypelistInv
<1>6. CASE ReadStruct(d.name, d.struct)
  BY <1>1, <1>6, ReadStructInv
<1>7. CASE d.kind = "RECORDTYPE" /\ ReadRecordtypeNamed(d.name, d.type, d.struct, d.index)
  <2> DEFINE sds == db["STRUCT_DESC"]
             u == sds[FindByname(sds, d.struct)].uuid
  <2>1. Read /\ StoreRecordtype(d.name, d.type, sds, u, d.index)
    BY <1>7 DEF ReadRecordtypeNamed
  <2>2. ListInv(sds, reads + 1)
    BY <2>1, Reading, LaterList DEF StaticTypes
  <2> HIDE DEF sds, u
  <2> QED BY <1>1, <1>2, <1>7, <2>1, <2>2, TypeStep
<1>8. CASE d.kind = "RECORDTYPE_OWN" /\ ReadRecordtypeOwn(d.name, d.type, d.struct, d.index)
  <2>1. PICK sds \in StoreStruct(d.name, d.struct) :
           StoreRecordtype(d.name, d.type, sds, d.struct.el, d.index)
    BY <1>8 DEF ReadRecordtypeOwn
  <2>2. Read
    BY <1>8 DEF ReadRecordtypeOwn
  <2>3. ListInv(sds, reads + 1)
    BY <1>1, <2>2, StoreStructInv
  <2> QED BY <1>1, <1>2, <1>8, <2>1, <2>2, <2>3, TypeStep
<1>9. CASE ReadRecord(d.name, d.data.type, d.data)
  <2> DEFINE t == d.data.type
  <2>1. PICK list \in Stored(dyn[t],
                  NewRecord(CompUuid(d.data, Template(t)), d.data, d.name, DbNil), d.name) :
           dyn' = [dyn EXCEPT ![t] = list]
    BY <1>9 DEF ReadRecord
  <2>2. /\ Read /\ t \in DOMAIN dyn
        /\ UNCHANGED <<db, recno, typeenum, cursor, walk, dbcrash>>
    BY <1>9 DEF ReadRecord, HasDblist
  <2> HIDE DEF t
  <2> QED BY <1>1, <2>1, <2>2, DynStep
<1> QED BY <1>3, <1>4, <1>5, <1>6, <1>7, <1>8, <1>9 DEF ReadDesc

LEMMA StoreInv ==
    ASSUME DbInv, NEW t, NEW d, Store(t, d)
    PROVE  DbInv'
<1>1. Read /\ Described(t) /\ UNCHANGED <<db, recno, typeenum, cursor, walk>>
  BY DEF Store
<1>2. t \in DOMAIN dyn
  BY <1>1, DescribedListed
<1>3. /\ UNCHANGED dbcrash
      /\ \E list \in Stored(dyn[t], NewRecord(CompUuid(d, Template(t)), d, "", DbNil), DbNil) :
            dyn' = [dyn EXCEPT ![t] = list]
  BY <1>2 DEF Store, HasDblist
<1>4. PICK list \in Stored(dyn[t], NewRecord(CompUuid(d, Template(t)), d, "", DbNil), DbNil) :
            dyn' = [dyn EXCEPT ![t] = list]
  BY <1>3
<1>5. DbNil # "typeenumlist"
  BY DEF DbNil
<1> QED BY <1>1, <1>2, <1>3, <1>4, <1>5, DynStep

-----------------------------------------------------------------------------
(* Walks *)

LEMMA FiledStays ==
    ASSUME DbInv, db' = db, dyn' = dyn
    PROVE  DbFiledUnderItsData'
<1>1. /\ \A t : OneRecordtype(t)' <=> OneRecordtype(t)
      /\ \A t : Template(t)' = Template(t)
  BY OneRecordtypeIs
<1>2. ASSUME NEW t \in DOMAIN dyn', OneRecordtype(t)', NEW x \in DOMAIN dyn'[t]
      PROVE  dyn'[t][x].uuid = CompUuid(dyn'[t][x].data, Template(t)')
  <2>1. dyn[t][x].uuid = CompUuid(dyn[t][x].data, Template(t))
    BY <1>1, <1>2 DEF DbInv, DbFiledUnderItsData
  <2> QED BY <1>1, <2>1
<1> QED BY <1>2 DEF DbFiledUnderItsData, CompUuid

LEMMA LandedInv ==
    ASSUME DbInv, NEW h \in DbThreads, NEW t, NEW c \in Nat, NEW alone, Landed(h, t, c, alone),
           alone => c \in 1 .. Len(db["RECORDTYPE"]) + 1 /\ \A x \in 1 .. c - 1 : ~Hit(t, x)
    PROVE  DbInv'
<1> DEFINE list == db["RECORDTYPE"]
<1>1. /\ cursor' = IF c \in DOMAIN list THEN c ELSE 0
      /\ walk' = [g \in DbThreads |->
         CASE g = h /\ Hit(t, c) -> [pc |-> "done", type |-> t, got |-> c, alone |-> alone]
           [] g = h /\ c \notin DOMAIN db["RECORDTYPE"]
                -> [pc |-> "done", type |-> t, got |-> 0, alone |-> alone]
           [] g = h /\ c \in DOMAIN db["RECORDTYPE"] /\ ~Hit(t, c)
                -> [pc |-> "walk", type |-> t, alone |-> alone]
           [] g # h /\ walk[g].pc = "walk" -> [walk[g] EXCEPT !.alone = FALSE]
           [] OTHER -> walk[g]]
      /\ db' = db /\ dyn' = dyn /\ recno' = recno /\ typeenum' = typeenum
      /\ dbcrash' = dbcrash /\ reads' = reads
  BY DEF Landed, Walked
<1>2. DOMAIN list = 1 .. Len(list) /\ Len(list) \in Nat
  BY DEF DbInv, Lists, ListInv, StaticTypes
<1>3. \A s, x : Hit(s, x)' <=> Hit(s, x)
  BY <1>1 DEF Hit
<1>4. \A x : Hit(t, x) => x \in DOMAIN list
  BY DEF Hit
<1>5. WalkInv(walk[h])'
  <2>1. CASE Hit(t, c)
    <3>1. walk'[h] = [pc |-> "done", type |-> t, got |-> c, alone |-> alone]
      BY <1>1, <1>4, <2>1
    <3>2. c > 0
      BY <1>2, <1>4, <2>1, SMTT(30)
    <3> QED BY <1>1, <2>1, <3>1, <3>2 DEF WalkInv, Hit
  <2>2. CASE ~Hit(t, c) /\ c \notin DOMAIN list
    <3>1. walk'[h] = [pc |-> "done", type |-> t, got |-> 0, alone |-> alone]
      BY <1>1, <2>2
    <3>2. alone => \A x \in DOMAIN list : ~Hit(t, x)
      BY <1>2, <2>2
    <3>3. /\ DOMAIN walk'[h] = {"pc", "type", "got", "alone"} /\ walk'[h].pc = "done"
          /\ walk'[h].got = 0 /\ walk'[h].type = t
          /\ walk'[h].alone => \A x \in DOMAIN list : ~Hit(t, x)
      BY <3>1, <3>2
    <3>4. /\ \A x \in 1 .. walk'[h].got - 1 : ~Hit(t, x)
          /\ walk'[h].got \in Nat /\ ~(walk'[h].got > 0)
      BY <3>3, SMTT(30)
    <3> QED BY <1>1, <3>3, <3>4 DEF WalkInv, Hit
  <2>3. CASE ~Hit(t, c) /\ c \in DOMAIN list
    <3>1. walk'[h] = [pc |-> "walk", type |-> t, alone |-> alone] /\ cursor' = c
      BY <1>1, <2>3
    <3>2. c >= 1 /\ (alone => \A x \in 1 .. c : ~Hit(t, x))
      BY <1>2, <2>3
    <3> QED BY <1>1, <3>1, <3>2 DEF WalkInv, Hit
  <2> QED BY <2>1, <2>2, <2>3
<1>6. ASSUME NEW g \in DbThreads, g # h PROVE WalkInv(walk[g])'
  <2>1. WalkInv(walk[g])
    BY DEF DbInv
  <2>2. CASE walk[g].pc = "walk"
    <3>1. walk'[g] = [walk[g] EXCEPT !.alone = FALSE]
      BY <1>1, <1>6, <2>2
    <3>2. DOMAIN walk[g] = {"pc", "type", "alone"}
      BY <2>1, <2>2 DEF WalkInv
    <3>3. DOMAIN walk'[g] = {"pc", "type", "alone"} /\ walk'[g].pc = "walk" /\ walk'[g].alone = FALSE
      BY <2>2, <3>1, <3>2
    <3> QED BY <3>3 DEF WalkInv
  <2>3. CASE walk[g].pc # "walk"
    <3>1. walk'[g] = walk[g]
      BY <1>1, <1>6, <2>3
    <3>2. CASE walk[g] = [pc |-> "idle"]
      BY <3>1, <3>2 DEF WalkInv
    <3>3. CASE /\ DOMAIN walk[g] = {"pc", "type", "got", "alone"} /\ walk[g].pc = "done"
               /\ walk[g].got \in Nat
               /\ walk[g].got > 0 => Hit(walk[g].type, walk[g].got)
               /\ walk[g].alone => /\ \A x \in 1 .. walk[g].got - 1 : ~Hit(walk[g].type, x)
                                   /\ walk[g].got = 0 =>
                                        \A x \in DOMAIN db["RECORDTYPE"] : ~Hit(walk[g].type, x)
      <4> DEFINE w == walk[g]
      <4>1. /\ DOMAIN w = {"pc", "type", "got", "alone"} /\ w.pc = "done" /\ w.got \in Nat
            /\ w.got > 0 => Hit(w.type, w.got)'
            /\ w.alone => /\ \A x \in 1 .. w.got - 1 : ~(Hit(w.type, x)')
                          /\ w.got = 0 => \A x \in DOMAIN db'["RECORDTYPE"] : ~(Hit(w.type, x)')
        BY <1>1, <3>1, <3>3 DEF Hit
      <4> QED BY <3>1, <4>1, SMTT(30) DEF WalkInv, Hit
    <3> QED BY <2>1, <2>3, <3>2, <3>3 DEF WalkInv
  <2> QED BY <2>2, <2>3
<1>7. \A g \in DbThreads : WalkInv(walk[g])'
  BY <1>5, <1>6
<1>8. cursor' \in 0 .. Len(db'["RECORDTYPE"])
  BY <1>1, <1>2
<1>9. Lists(reads)' /\ TypeRecords' /\ DbCounted' /\ DbNoCrash' /\ DbFiledUnderItsData'
  <2>1. Lists(reads)' /\ TypeRecords' /\ DbCounted' /\ DbNoCrash'
    BY <1>1 DEF DbInv, Lists, TypeRecords, DbCounted, DbNoCrash
  <2>2. DbFiledUnderItsData'
    BY <1>1, FiledStays
  <2> QED BY <2>1, <2>2
<1> QED BY <1>1, <1>7, <1>8, <1>9 DEF DbInv

LEMMA GetFirstInv ==
    ASSUME DbInv, NEW h \in DbThreads, NEW t, GetFirst(h, t)
    PROVE  DbInv'
<1> DEFINE alone == \A g \in DbThreads \ {h} : walk[g].pc # "walk"
<1>1. Landed(h, t, 1, alone)
  BY DEF GetFirst
<1> HIDE DEF alone
<1>2. Len(db["RECORDTYPE"]) \in Nat
  BY DEF DbInv, Lists, ListInv, StaticTypes
<1>3. 1 \in 1 .. Len(db["RECORDTYPE"]) + 1 /\ \A x \in 1 .. 1 - 1 : ~Hit(t, x)
  BY <1>2
<1> QED BY <1>1, <1>3, LandedInv

LEMMA GetNextInv ==
    ASSUME DbInv, NEW h \in DbThreads, GetNext(h)
    PROVE  DbInv'
<1> DEFINE t == walk[h].type
           alone == walk[h].alone
           c == IF cursor = 0 THEN 0 ELSE cursor + 1
<1>1. walk[h].pc = "walk" /\ Landed(h, t, c, alone)
  BY DEF GetNext
<1>2. Len(db["RECORDTYPE"]) \in Nat /\ cursor \in 0 .. Len(db["RECORDTYPE"])
  BY DEF DbInv, Lists, ListInv, StaticTypes
<1>3. alone => cursor >= 1 /\ \A x \in 1 .. cursor : ~Hit(t, x)
  <2>1. WalkInv(walk[h])
    BY DEF DbInv
  <2> QED BY <1>1, <2>1 DEF WalkInv
<1>4. c \in Nat /\ (cursor >= 1 => c = cursor + 1)
  BY <1>2
<1> HIDE DEF alone, t, c
<1>5. alone => c \in 1 .. Len(db["RECORDTYPE"]) + 1 /\ \A x \in 1 .. c - 1 : ~Hit(t, x)
  BY <1>2, <1>3, <1>4
<1> QED BY <1>1, <1>4, <1>5, LandedInv

LEMMA ReturnInv ==
    ASSUME DbInv, NEW h \in DbThreads, Return(h)
    PROVE  DbInv'
<1>1. /\ walk' = [walk EXCEPT ![h] = [pc |-> "idle"]]
      /\ db' = db /\ dyn' = dyn /\ recno' = recno /\ typeenum' = typeenum
      /\ cursor' = cursor /\ dbcrash' = dbcrash /\ reads' = reads
  BY DEF Return
<1>0. DOMAIN walk = DbThreads
  BY DEF DbInv
<1>2. ASSUME NEW g \in DbThreads PROVE WalkInv(walk[g])'
  <2>1. walk'[g] = walk[g] \/ walk'[g] = [pc |-> "idle"]
    BY <1>0, <1>1
  <2>2. CASE walk'[g] = walk[g]
    BY <1>1, <2>2 DEF DbInv, WalkInv, Hit
  <2>3. CASE walk'[g] = [pc |-> "idle"]
    BY <2>3 DEF WalkInv
  <2> QED BY <2>1, <2>2, <2>3
<1>3. Lists(reads)' /\ TypeRecords' /\ DbCounted' /\ DbNoCrash'
  BY <1>1 DEF DbInv, Lists, TypeRecords, DbCounted, DbNoCrash
<1>4. DbFiledUnderItsData'
  BY <1>1, FiledStays
<1> QED BY <1>0, <1>1, <1>2, <1>3, <1>4 DEF DbInv

-----------------------------------------------------------------------------
(* The theorem *)

LEMMA DbInvInit == DbInit => DbInv
<1> SUFFICES ASSUME DbInit PROVE DbInv
  OBVIOUS
<1> DEFINE T == "typeenumlist"
           r == [NewRecord(BaseList, BaseList, T, BaseList)
                   EXCEPT !.names = <<"baseenumlist">>, !.nameNo = 2]
<1>1. /\ db = [t \in StaticTypes |-> IF t = "NAMELIST" THEN <<r>> ELSE <<>>]
      /\ recno = [t \in StaticTypes |-> IF t = "NAMELIST" THEN 1 ELSE 0]
      /\ dyn = <<>> /\ cursor = 0 /\ walk = [h \in DbThreads |-> [pc |-> "idle"]]
      /\ dbcrash = FALSE /\ reads = 0
  BY DEF DbInit
<1>2. /\ DOMAIN r = RecFields /\ r.head = T /\ r.names = <<"baseenumlist">> /\ r.nameNo = 2
  BY DEF NewRecord, RecFields
<1> HIDE DEF r
<1>3. RecOK(r, 0) /\ Bears(r)
  <2>1. r.names \in Seq({"baseenumlist"}) /\ Len(r.names) = 1 /\ r.names # <<>>
    BY <1>2
  <2>2. r.names \in Seq(ToSet(r.names))
    BY <2>1, OwnElements
  <2>3. T \notin ToSet(r.names)
    BY <1>2, <2>1 DEF ToSet
  <2>4. Bears(r)
    BY <1>2, <2>2, BearsOrNot
  <2> QED BY <1>2, <2>1, <2>2, <2>3, <2>4 DEF RecOK, RecFields
<1>4. ListInv(<<>>, 0) /\ Len(<<>>) = 0
  BY DEF ListInv, Keyed, ToSet
<1> DEFINE s == <<r>>
<1>5. s \in Seq({r}) /\ Len(s) = 1 /\ DOMAIN s = {1} /\ s[1] = r
  OBVIOUS
<1>6. ListInv(<<r>>, 0)
  <2>1. s \in Seq(ToSet(s))
    BY <1>5, OwnElements
  <2> HIDE DEF s
  <2>2. ListInv(s, 0)
    BY <1>3, <1>5, <2>1 DEF ListInv, Keyed
  <2> QED BY <2>2 DEF s
<1>7. /\ DOMAIN db = StaticTypes /\ db["NAMELIST"] = <<r>>
      /\ db["RECORDTYPE"] = <<>> /\ \A t \in StaticTypes : ListInv(db[t], 0) /\ recno[t] = Len(db[t])
  BY <1>1, <1>4, <1>5, <1>6 DEF StaticTypes
<1>8. DOMAIN dyn = {} /\ DOMAIN db["RECORDTYPE"] = {} /\ Len(db["RECORDTYPE"]) = 0
  BY <1>1, <1>7
<1>9. Lists(reads) /\ DbCounted /\ DbFiledUnderItsData /\ TypeRecords /\ DbNoCrash
  BY <1>1, <1>7, <1>8 DEF Lists, DbCounted, DbFiledUnderItsData, TypeRecords, DbNoCrash
<1>10. \E x \in DOMAIN db["NAMELIST"] : Bears(db["NAMELIST"][x])
  BY <1>3, <1>5, <1>7
<1>11. DOMAIN walk = DbThreads /\ \A h \in DbThreads : WalkInv(walk[h])
  BY <1>1 DEF WalkInv
<1>12. reads \in 0 .. DbMaxReads /\ cursor \in 0 .. Len(db["RECORDTYPE"])
  BY <1>1, <1>8, DbMaxReadsAssumption
<1> QED BY <1>7, <1>8, <1>9, <1>10, <1>11, <1>12 DEF DbInv

LEMMA DbInvNext == DbInv /\ [DbNext]_dbvars => DbInv'
<1> SUFFICES ASSUME DbInv, [DbNext]_dbvars PROVE DbInv'
  OBVIOUS
<1>1. ASSUME NEW d \in DbDescs, ReadDesc(d) PROVE DbInv'
  BY <1>1, ReadDescInv
<1>2. ASSUME NEW d \in DbData, Store(d.type, d) PROVE DbInv'
  BY <1>2, StoreInv
<1>3. ASSUME NEW h \in DbThreads, NEW t \in TypesMeant, GetFirst(h, t) PROVE DbInv'
  BY <1>3, GetFirstInv
<1>4. ASSUME NEW h \in DbThreads, GetNext(h) PROVE DbInv'
  BY <1>4, GetNextInv
<1>5. ASSUME NEW h \in DbThreads, Return(h) PROVE DbInv'
  BY <1>5, ReturnInv
<1>6. ASSUME UNCHANGED dbvars PROVE DbInv'
  <2>1. /\ db' = db /\ dyn' = dyn /\ recno' = recno /\ cursor' = cursor /\ walk' = walk
        /\ dbcrash' = dbcrash /\ reads' = reads
    BY <1>6 DEF dbvars
  <2>2. Lists(reads)' /\ TypeRecords' /\ DbCounted' /\ DbNoCrash'
    BY <2>1 DEF DbInv, Lists, TypeRecords, DbCounted, DbNoCrash
  <2>3. DbFiledUnderItsData'
    BY <2>1, FiledStays
  <2>4. \A h \in DbThreads : WalkInv(walk[h])'
    BY <2>1 DEF DbInv, WalkInv, Hit
  <2> QED BY <2>1, <2>2, <2>3, <2>4 DEF DbInv
<1> QED BY <1>1, <1>2, <1>3, <1>4, <1>5, <1>6 DEF DbNext

LEMMA DbInvSound == DbInv => DbSound
<1> SUFFICES ASSUME DbInv PROVE DbSound
  OBVIOUS
<1>1. /\ reads \in 0 .. DbMaxReads /\ Lists(reads) /\ DOMAIN dyn \subseteq TypesMeant
      /\ cursor \in 0 .. Len(db["RECORDTYPE"])
      /\ DOMAIN walk = DbThreads /\ \A h \in DbThreads : WalkInv(walk[h])
  BY DEF DbInv
<1>2. ASSUME NEW list, ListInv(list, reads) PROVE ListOK(list)
  <2> SUFFICES ASSUME NEW x \in DOMAIN list PROVE list[x].nameNo \in 0 .. DbMaxReads + 2
    BY DEF ListOK
  <2>1. list[x].nameNo \in Nat /\ list[x].nameNo <= reads + 2
    <3>1. RecOK(list[x], reads)
      BY <1>2 DEF ListInv
    <3>2. list[x].nameNo \in Nat /\ (list[x].nameNo <= reads + 1 \/ list[x].nameNo <= reads + 2)
      BY <3>1 DEF RecOK
    <3> QED BY <1>1, <3>2
  <2> QED BY <1>1, <2>1, DbMaxReadsAssumption
<1>3. DbTypeOK
  <2>1. \A h \in DbThreads : walk[h].pc \in {"idle", "walk", "done"}
    BY <1>1 DEF WalkInv
  <2> QED BY <1>1, <1>2, <2>1 DEF DbTypeOK, Lists
<1>4. DbKeyed
  BY <1>1 DEF DbKeyed, Lists, ListInv
<1>5. DbLookup
  <2> DEFINE list == db["RECORDTYPE"]
  <2>1. list \in Seq(ToSet(list)) /\ DOMAIN list = 1 .. Len(list) /\ Len(list) \in Nat
    BY <1>1 DEF Lists, ListInv, StaticTypes
  <2> SUFFICES ASSUME NEW h \in DbThreads, walk[h].pc = "done"
               PROVE  /\ walk[h].got > 0 => list[walk[h].got].data.type = walk[h].type
                      /\ walk[h].alone => walk[h].got = GetRecordtype(walk[h].type)
    BY DEF DbLookup
  <2> DEFINE t == walk[h].type
             got == walk[h].got
  <2>2. /\ got \in Nat /\ (got > 0 => Hit(t, got))
        /\ walk[h].alone => /\ \A x \in 1 .. got - 1 : ~Hit(t, x)
                            /\ got = 0 => \A x \in DOMAIN list : ~Hit(t, x)
    BY <1>1 DEF WalkInv
  <2>3. \A x : Hit(t, x) <=> x \in DOMAIN list /\ list[x].data.type = t
    BY DEF Hit
  <2>4. GetRecordtype(t) = FirstType(list, t)
    BY GetRecordtypeIs
  <2>5. /\ FirstType(list, t) \in 0 .. Len(list)
        /\ FirstType(list, t) = 0 => \A x \in 1 .. Len(list) : list[x].data.type # t
        /\ FirstType(list, t) # 0 =>
              /\ FirstType(list, t) \in 1 .. Len(list)
              /\ list[FirstType(list, t)].data.type = t
              /\ \A x \in 1 .. Len(list) : list[x].data.type = t => FirstType(list, t) <= x
    <3> HIDE DEF list
    <3> QED BY <2>1, FoundType
  <2> DEFINE f == FirstType(list, t)
  <2> HIDE DEF list, t, got, f
  <2>6. got > 0 => list[got].data.type = t
    BY <2>2, <2>3
  <2>7. ASSUME walk[h].alone PROVE got = f
    <3>1. CASE got = 0
      BY <2>1, <2>2, <2>3, <2>5, <2>7, <3>1 DEF f
    <3>2. CASE got > 0
      <4>1. got \in 1 .. Len(list) /\ list[got].data.type = t
        BY <2>1, <2>2, <2>3, <3>2
      <4>2. f \in 1 .. Len(list) /\ list[f].data.type = t /\ f <= got
        BY <2>5, <4>1 DEF f
      <4>3. ~(f \in 1 .. got - 1)
        BY <2>1, <2>2, <2>3, <2>7, <4>2
      <4> QED BY <4>1, <4>2, <4>3
    <3> QED BY <2>2, <3>1, <3>2
  <2> QED BY <2>4, <2>6, <2>7 DEF f, list, t, got
<1> QED BY <1>3, <1>4, <1>5 DEF DbSound, DbInv

(* Whatever descriptions are read and records stored, in whatever order    *)
(* and however often, and however the lookups of the threads interleave:   *)
(* each list holds a record once, under the digest of its data, record_no  *)
(* counts the list, memdb_store never uses a list it did not find, and a   *)
(* lookup that is not overlapped finds the first record of its type        *)
(* (memdb_init.c:539-1116).                                                *)
THEOREM DbSoundCorrect == DbSpec => []DbSound
<1>1. DbInv /\ [DbNext]_dbvars => DbInv'
  BY DbInvNext
<1> QED BY DbInvInit, DbInvSound, <1>1, PTL DEF DbSpec
=============================================================================
