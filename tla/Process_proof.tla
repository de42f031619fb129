---------------------------- MODULE Process_proof ----------------------------
(***************************************************************************)
(* Proofs about the start of a process (Startup), the connection of two of *)
(* them (TcpLink) and the file transfer plugin (FileDealer).               *)
(***************************************************************************)
EXTENDS Startup, TcpLink, FileDealer, TLAPS, FiniteSetTheorems, WellFoundedInduction

-----------------------------------------------------------------------------
(* Startup.  The inductive invariant: what the modules are, how many there *)
(* are at each place of main, and how far their threads are.               *)

ModTypes == {"CONN", "MONITOR"} \cup {p.type : p \in SuPlugins}
Mod == [name : Nat \cup {"connector_proc", "router_proc"}, type : ModTypes,
        init : {"ok", "failed"}, start : BOOLEAN, thread : {"none", "runs", "ended"},
        out : {"none", "queued", "routed"}]

SuTyped ==
    /\ pc \in {"base", "sys", "main", "uuid", "conn", "router", "plugins", "start", "join", "exit"}
    /\ base \in 0 .. SuBase /\ (pc = "base" => base < SuBase)
    /\ turn \in 0 .. Len(mods) /\ state \in {"init", "local"}
    /\ mods \in Seq(Mod)
    /\ \A k \in DOMAIN refused : /\ refused[k].plugin \in SuPlugins
                                 /\ refused[k].why = PluginFault(refused[k].plugin)

(* The modules that main has made when it is at p *)
SuMade ==
    /\ pc \in {"base", "sys", "main", "uuid", "conn"} => Len(mods) = 0
    /\ pc = "router" => Len(mods) = 1
    /\ pc \in {"plugins", "start", "join"} => Len(mods) >= 2
    /\ \A k \in DOMAIN mods : IF k = 1 THEN mods[k].type = "CONN" ELSE mods[k].init = "ok"

SuThreads ==
    /\ pc \notin {"start", "join", "exit"} => \A k \in DOMAIN mods : mods[k].thread = "none"
    /\ \A k \in DOMAIN mods :
          /\ k > 1 /\ ~Joined(mods[k]) => mods[k].thread = "none"
          /\ mods[k].out = "routed" => state = "local"
          /\ state = "local" /\ Joined(mods[k]) => mods[k].thread # "none"
    /\ pc \notin {"join", "exit"} => state = "init"
    /\ pc \in {"start", "join"} => turn \in 1 .. Len(mods)
    /\ pc = "start" => \A k \in 1 .. turn - 1 : Joined(mods[k]) => mods[k].thread # "none"
    /\ pc = "join" => /\ state = "local"
                      /\ \A k \in 2 .. turn - 1 : mods[k].thread # "runs"
    /\ pc # "exit" => why = "none"

SuIInv == SuTyped /\ SuMade /\ SuThreads /\ SuOnlyStartlessStops /\ SuNoneCutOff

-----------------------------------------------------------------------------
LEMMA LeastIn ==
    ASSUME NEW T, T \subseteq Nat, T # {}
    PROVE  (CHOOSE x \in T : \A y \in T : x <= y) \in T
<1> DEFINE R == OpToRel(<, Nat)
<1>1. IsWellFoundedOn(R, Nat)
  BY NatLessThanWellFounded
<1>2. \E x \in T : \A y \in T : ~(<<y, x>> \in R)
  <2> HIDE DEF R
  <2> QED BY <1>1, WFMin
<1>3. \A x, y \in Nat : ~(<<y, x>> \in R) => x <= y
  BY DEF OpToRel
<1>4. \E x \in T : \A y \in T : x <= y
  BY <1>2, <1>3
<1> QED BY <1>4

LEMMA MinExists ==
    ASSUME NEW T, T \subseteq Nat, T # {}
    PROVE  Min(T) \in T
BY LeastIn DEF Min

(* A define file that gives no number of records holds none anywhere.      *)
LEMMA DefineRetLess ==
    ASSUME NEW f, IsDefineFile(f), NEW least \in {0, 1}, DefineRet(f, least) < 0
    PROVE  \A w \in DOMAIN f : f[w] <= 0
<1> DEFINE last == Max(DOMAIN f)
           good == {k \in 1 .. last : f[k] >= least}
<1>1. last \in Nat /\ DOMAIN f = 0 .. last /\ \A w \in DOMAIN f : f[w] \in Int
  BY DEF IsDefineFile
<1>2. DefineRet(f, least) = IF f[0] >= 0 THEN f[0] ELSE IF good # {} THEN f[Min(good)] ELSE f[last]
  BY DEF DefineRet
<1> HIDE DEF last
<1>3. ~ (f[0] >= 0) /\ f[0] \in Int
  BY <1>1, <1>2
<1>4. good = {}
  <2> SUFFICES ASSUME good # {} PROVE FALSE
    OBVIOUS
  <2>1. Min(good) \in good
    <3>1. good \subseteq Nat /\ good # {}
      BY <1>1
    <3> HIDE DEF good
    <3> QED BY <3>1, MinExists
  <2>2. f[Min(good)] \in Int /\ f[Min(good)] >= least
    BY <1>1, <2>1
  <2>3. f[Min(good)] < 0
    BY <1>2, <1>3
  <2> QED BY <2>2, <2>3
<1>5. ASSUME NEW w \in DOMAIN f PROVE f[w] <= 0
  <2>1. CASE w = 0
    BY <1>3, <2>1
  <2>2. CASE w # 0
    <3>1. w \in 1 .. last /\ f[w] \in Int
      BY <1>1, <2>2
    <3>2. ~ (f[w] >= least)
      BY <1>4, <3>1
    <3> QED BY <3>1, <3>2
  <2> QED BY <2>1, <2>2
<1> QED BY <1>5

LEMMA DefineFault ==
    ASSUME NEW p \in SuPlugins, PluginFault(p) = "define"
    PROVE  \E f \in {Last(p.files)} : \A w \in DOMAIN f : f[w] <= 0
<1>1. ReadSysCfg([wellformed |-> p.fault # "format", template |-> p.fault # "template",
                  files |-> p.files]) = "define"
  BY DEF PluginFault, ReadSysCfg
<1>2. DefineFiles(p.files) < 0
  BY <1>1 DEF ReadSysCfg
<1>3. /\ p.files # <<>>
      /\ DefineRet(Last(p.files), IF Len(p.files) = 1 THEN 0 ELSE 1) < 0
  BY <1>2 DEF DefineFiles
<1>4. IsDefineFile(Last(p.files))
  BY <1>3, SuAssumption DEF Last
<1> QED BY <1>3, <1>4, DefineRetLess

-----------------------------------------------------------------------------
LEMMA SuInitHolds == SuInit => SuIInv
<1> SUFFICES ASSUME SuInit PROVE SuIInv
  OBVIOUS
<1>1. mods = <<>> /\ refused = <<>> /\ Len(mods) = 0 /\ DOMAIN mods = {} /\ DOMAIN refused = {}
  BY DEF SuInit
<1>2. SuTyped
  BY <1>1, SuAssumption DEF SuInit, SuTyped
<1>3. SuMade /\ SuThreads /\ SuOnlyStartlessStops /\ SuNoneCutOff
  BY <1>1 DEF SuInit, SuMade, SuThreads, SuOnlyStartlessStops, SuNoneCutOff
<1> QED BY <1>2, <1>3 DEF SuIInv

(* The steps of main before the modules are made                           *)
LEMMA ReadSteps ==
    ASSUME SuIInv, ReadBase \/ ReadSys \/ ReadMain \/ GetUuid
    PROVE  SuIInv'
<1>1. /\ UNCHANGED <<mods, turn, state, refused>>
      /\ pc \in {"base", "sys", "main", "uuid"}
      /\ \/ pc' \in {"base", "sys", "main", "uuid", "conn"} /\ why' = why
         \/ pc' = "exit" /\ why' \in {"base", "sys", "main", "uuid"}
  BY DEF ReadBase, ReadSys, ReadMain, GetUuid, Return
<1>2. base' \in 0 .. SuBase /\ (pc' = "base" => base' < SuBase)
  <2>1. base \in 0 .. SuBase /\ (pc = "base" => base < SuBase) /\ SuBase \in Nat
    BY SuAssumption DEF SuIInv, SuTyped
  <2>2. CASE ReadBase
    <3>1. \/ pc = "base" /\ base' = base + 1 /\ pc' = IF base' = SuBase THEN "sys" ELSE "base"
          \/ pc' = "exit" /\ base' = base
      BY <2>2 DEF ReadBase, Return
    <3> QED BY <2>1, <3>1
  <2>3. CASE ReadSys \/ ReadMain \/ GetUuid
    <3>1. base' = base /\ pc' # "base"
      BY <2>3 DEF ReadSys, ReadMain, GetUuid, Return
    <3> QED BY <2>1, <3>1
  <2> QED BY <2>2, <2>3
<1>3. SuTyped'
  BY <1>1, <1>2 DEF SuIInv, SuTyped
<1>4. SuMade' /\ SuOnlyStartlessStops'
  BY <1>1 DEF SuIInv, SuTyped, SuMade, SuOnlyStartlessStops
<1>5. SuThreads' /\ SuNoneCutOff'
  BY <1>1 DEF SuIInv, SuTyped, SuMade, SuThreads, SuNoneCutOff, Joined
<1> QED BY <1>3, <1>4, <1>5 DEF SuIInv

(* A module that is added has no thread                                    *)
LEMMA AddStep ==
    ASSUME SuIInv, NEW m \in Mod, mods' = Append(mods, m),
           m.thread = "none", m.out = "none",
           IF mods = <<>> THEN m.type = "CONN" ELSE m.init = "ok",
           \/ pc = "conn" /\ pc' = "router"
           \/ pc \in {"router", "plugins"} /\ pc' = "plugins",
           UNCHANGED <<base, lib, turn, state, why, refused>>
    PROVE  SuIInv'
<1> DEFINE n == Len(mods)
<1>1. /\ n \in Nat /\ mods \in Seq(Mod) /\ mods' \in Seq(Mod) /\ Len(mods') = n + 1
      /\ mods'[n + 1] = m /\ \A k \in 1 .. n : mods'[k] = mods[k]
      /\ DOMAIN mods = 1 .. n /\ DOMAIN mods' = 1 .. n + 1
      /\ turn \in 0 .. n
  BY DEF SuIInv, SuTyped
<1> HIDE DEF n
<1>2. SuTyped'
  <2>1. turn' \in 0 .. Len(mods')
    BY <1>1
  <2> QED BY <1>1, <2>1 DEF SuIInv, SuTyped
<1>3. SuMade'
  <2>1. mods = <<>> <=> n = 0
    BY DEF n, SuIInv, SuTyped
  <2>2. \A k \in DOMAIN mods' : IF k = 1 THEN mods'[k].type = "CONN" ELSE mods'[k].init = "ok"
    BY <1>1, <2>1 DEF SuIInv, SuMade
  <2>3. pc' = "router" => Len(mods') = 1
    BY <1>1 DEF n, SuIInv, SuMade
  <2>4. pc' = "plugins" => Len(mods') >= 2
    BY <1>1 DEF n, SuIInv, SuMade
  <2> QED BY <2>2, <2>3, <2>4 DEF SuMade
<1>4. SuThreads'
  <2>1. \A k \in DOMAIN mods' : mods'[k].thread = "none"
    BY <1>1 DEF SuIInv, SuThreads
  <2>2. state = "init" /\ why = "none"
    BY DEF SuIInv, SuThreads
  <2>3. \A k \in DOMAIN mods' : mods'[k].out # "routed"
    BY <1>1, <2>2 DEF SuIInv, SuThreads
  <2> QED BY <2>1, <2>2, <2>3 DEF SuThreads
<1>5. SuOnlyStartlessStops' /\ SuNoneCutOff'
  BY DEF SuIInv, SuThreads, SuOnlyStartlessStops, SuNoneCutOff
<1> QED BY <1>2, <1>3, <1>4, <1>5 DEF SuIInv

(* main returns before it is at the plugins                                *)
LEMMA ReturnEarly ==
    ASSUME SuIInv, pc \in {"conn", "router"}, pc' = "exit", why' = pc,
           UNCHANGED <<base, lib, mods, turn, state, refused>>
    PROVE  SuIInv'
<1>1. SuTyped'
  BY DEF SuIInv, SuTyped
<1>2. SuMade' /\ SuOnlyStartlessStops'
  BY DEF SuIInv, SuTyped, SuMade, SuOnlyStartlessStops
<1>3. SuThreads' /\ SuNoneCutOff'
  BY DEF SuIInv, SuTyped, SuThreads, SuNoneCutOff, Joined
<1> QED BY <1>1, <1>2, <1>3 DEF SuIInv
LEMMA ModuleIn ==
    ASSUME NEW name \in Nat \cup {"connector_proc", "router_proc"}, NEW type \in ModTypes,
           NEW init \in {"ok", "failed"}, NEW start \in BOOLEAN
    PROVE  Module(name, type, init, start) \in Mod
BY DEF Module, Mod

LEMMA MakeSteps ==
    ASSUME SuIInv, MakeConn \/ MakeRouter \/ LoadPlugin
    PROVE  SuIInv'
<1>1. CASE MakeConn
  <2>1. CASE pc' = "exit"
    BY <1>1, <2>1, ReturnEarly DEF MakeConn, Return
  <2>2. CASE pc' # "exit"
    <3>1. PICK init \in {"ok", "failed"} :
              /\ mods' = Append(mods, Module("connector_proc", "CONN", init, TRUE))
              /\ pc = "conn" /\ pc' = "router"
              /\ UNCHANGED <<base, lib, turn, state, why, refused>>
      BY <1>1, <2>2 DEF MakeConn, Added, Return
    <3>2. Module("connector_proc", "CONN", init, TRUE) \in Mod
      <4>1. "connector_proc" \in Nat \cup {"connector_proc", "router_proc"}
        OBVIOUS
      <4>2. "CONN" \in ModTypes /\ init \in {"ok", "failed"}
        BY DEF ModTypes
      <4>3. TRUE \in BOOLEAN
        OBVIOUS
      <4> QED BY <4>1, <4>2, <4>3, ModuleIn
    <3>3. mods = <<>>
      BY <3>1 DEF SuIInv, SuTyped, SuMade
    <3> QED BY <3>1, <3>2, <3>3, AddStep DEF Module
  <2> QED BY <2>1, <2>2
<1>2. CASE MakeRouter
  <2>1. CASE pc' = "exit"
    BY <1>2, <2>1, ReturnEarly DEF MakeRouter, Return
  <2>2. CASE pc' # "exit"
    <3>1. /\ mods' = Append(mods, Module("router_proc", "MONITOR", "ok", TRUE))
          /\ pc = "router" /\ pc' = "plugins"
          /\ UNCHANGED <<base, lib, turn, state, why, refused>>
      BY <1>2, <2>2 DEF MakeRouter, Added, Return
    <3>2. Module("router_proc", "MONITOR", "ok", TRUE) \in Mod
      <4>1. "router_proc" \in Nat \cup {"connector_proc", "router_proc"}
        OBVIOUS
      <4>2. "MONITOR" \in ModTypes /\ "ok" \in {"ok", "failed"}
        BY DEF ModTypes
      <4>3. TRUE \in BOOLEAN
        OBVIOUS
      <4> QED BY <4>1, <4>2, <4>3, ModuleIn
    <3>3. mods # <<>>
      BY <3>1 DEF SuIInv, SuTyped, SuMade
    <3> QED BY <3>1, <3>2, <3>3, AddStep DEF Module
  <2> QED BY <2>1, <2>2
<1>3. CASE LoadPlugin
  <2>1. PICK p \in SuPlugins :
            IF PluginFault(p) = "none"
            THEN mods' = Append(mods, PluginModule(p)) /\ UNCHANGED <<refused, pc, why>>
            ELSE /\ refused' = Append(refused, [plugin |-> p, why |-> PluginFault(p)])
                 /\ UNCHANGED <<mods, pc, why>>
    BY <1>3 DEF LoadPlugin, Added
  <2>2. pc = "plugins" /\ UNCHANGED <<base, lib, turn, state>>
    BY <1>3 DEF LoadPlugin
  <2>3. CASE PluginFault(p) = "none"
    <3>1. PluginModule(p) \in Mod /\ PluginModule(p).thread = "none"
          /\ PluginModule(p).out = "none" /\ PluginModule(p).init = "ok"
      <4>1. Len(mods) \in Nat /\ p.type \in ModTypes
        BY DEF SuIInv, SuTyped, ModTypes
      <4> QED BY <2>3, <4>1 DEF PluginModule, Module, Mod
    <3>2. mods # <<>>
      BY <2>2 DEF SuIInv, SuTyped, SuMade
    <3> QED BY <2>1, <2>2, <2>3, <3>1, <3>2, AddStep
  <2>4. CASE PluginFault(p) # "none"
    <3> DEFINE r == [plugin |-> p, why |-> PluginFault(p)]
    <3>1. /\ refused' = Append(refused, r) /\ r.plugin \in SuPlugins
          /\ r.why = PluginFault(r.plugin) /\ UNCHANGED <<mods, pc, why>>
      BY <2>1, <2>4
    <3> HIDE DEF r
    <3>2. \A k \in DOMAIN refused' : refused'[k].plugin \in SuPlugins
                                     /\ refused'[k].why = PluginFault(refused'[k].plugin)
      BY <3>1 DEF SuIInv, SuTyped
    <3>3. SuTyped'
      BY <2>2, <3>1, <3>2 DEF SuIInv, SuTyped
    <3>4. SuMade' /\ SuOnlyStartlessStops'
      BY <2>2, <3>1 DEF SuIInv, SuTyped, SuMade, SuOnlyStartlessStops
    <3>5. SuThreads' /\ SuNoneCutOff'
      BY <2>2, <3>1 DEF SuIInv, SuTyped, SuThreads, SuNoneCutOff, Joined
    <3> QED BY <3>3, <3>4, <3>5 DEF SuIInv
  <2> QED BY <2>3, <2>4
<1> QED BY <1>1, <1>2, <1>3

(* Of a step that changes threads or messages only, the modules stay what  *)
(* they are.                                                               *)
LEMMA SameModules ==
    ASSUME SuIInv, mods' \in Seq(Mod), Len(mods') = Len(mods),
           \A k \in DOMAIN mods : /\ mods'[k].type = mods[k].type
                                  /\ mods'[k].init = mods[k].init
                                  /\ mods'[k].start = mods[k].start,
           UNCHANGED <<base, lib, refused>>, turn' \in 0 .. Len(mods), state' \in {"init", "local"},
           \/ pc' = pc
           \/ pc \in {"plugins", "start", "join"} /\ pc' \in {"start", "join", "exit"}
    PROVE  SuTyped' /\ SuMade' /\ DOMAIN mods' = DOMAIN mods /\ DOMAIN mods = 1 .. Len(mods)
           /\ Len(mods) \in Nat
           /\ \A k \in DOMAIN mods : Joined(mods[k]) <=> Joined(mods'[k])
<1>1. DOMAIN mods' = DOMAIN mods /\ DOMAIN mods = 1 .. Len(mods) /\ Len(mods) \in Nat
  BY DEF SuIInv, SuTyped
<1>2. SuTyped'
  BY DEF SuIInv, SuTyped
<1>3. SuMade'
  BY <1>1 DEF SuIInv, SuMade, SuTyped
<1>4. \A k \in DOMAIN mods : Joined(mods[k]) <=> Joined(mods'[k])
  BY DEF Joined
<1> QED BY <1>1, <1>2, <1>3, <1>4
(* A thread of one module changes its state                                *)
LEMMA Changed ==
    ASSUME SuIInv, NEW j \in DOMAIN mods, NEW t \in {"runs", "ended"},
           mods' = [mods EXCEPT ![j].thread = t]
    PROVE  /\ mods' \in Seq(Mod) /\ Len(mods') = Len(mods)
           /\ \A k \in DOMAIN mods :
                 /\ mods'[k].type = mods[k].type /\ mods'[k].init = mods[k].init
                 /\ mods'[k].start = mods[k].start /\ mods'[k].out = mods[k].out
                 /\ mods'[k].thread = IF k = j THEN t ELSE mods[k].thread
<1>1. mods \in Seq(Mod) /\ mods[j] \in Mod
  BY DEF SuIInv, SuTyped
<1>2. /\ [mods[j] EXCEPT !.thread = t] \in Mod
      /\ [mods[j] EXCEPT !.thread = t].type = mods[j].type
      /\ [mods[j] EXCEPT !.thread = t].init = mods[j].init
      /\ [mods[j] EXCEPT !.thread = t].start = mods[j].start
      /\ [mods[j] EXCEPT !.thread = t].out = mods[j].out
      /\ [mods[j] EXCEPT !.thread = t].thread = t
  BY <1>1 DEF Mod
<1> DEFINE m == [mods[j] EXCEPT !.thread = t]
<1>3. mods' = [mods EXCEPT ![j] = m]
  OBVIOUS
<1> HIDE DEF m
<1>4. m \in Mod
  BY <1>2 DEF m
<1>5. /\ mods' \in Seq(Mod) /\ Len(mods') = Len(mods)
      /\ \A k \in DOMAIN mods : mods'[k] = IF k = j THEN m ELSE mods[k]
  BY <1>1, <1>3, <1>4
<1> QED BY <1>2, <1>5 DEF m

LEMMA PluginsReadStep ==
    ASSUME SuIInv, PluginsRead
    PROVE  SuIInv'
<1>1. /\ pc = "plugins" /\ pc' = "start" /\ turn' = 1
      /\ mods' = [mods EXCEPT ![1].thread = "runs"]
      /\ UNCHANGED <<base, lib, state, why, refused>>
  BY DEF PluginsRead
<1>2. Len(mods) >= 2 /\ Len(mods) \in Nat /\ 1 \in DOMAIN mods /\ state \in {"init", "local"}
  BY <1>1 DEF SuIInv, SuTyped, SuMade
<1>3. /\ mods' \in Seq(Mod) /\ Len(mods') = Len(mods)
      /\ \A k \in DOMAIN mods :
            /\ mods'[k].type = mods[k].type /\ mods'[k].init = mods[k].init
            /\ mods'[k].start = mods[k].start /\ mods'[k].out = mods[k].out
            /\ mods'[k].thread = IF k = 1 THEN "runs" ELSE mods[k].thread
  BY <1>1, <1>2, Changed
<1>4. /\ SuTyped' /\ SuMade' /\ DOMAIN mods' = DOMAIN mods /\ DOMAIN mods = 1 .. Len(mods)
      /\ \A k \in DOMAIN mods : Joined(mods[k]) <=> Joined(mods'[k])
  BY <1>1, <1>2, <1>3, SameModules
<1>5. state = "init" /\ why = "none"
  BY <1>1 DEF SuIInv, SuThreads
<1>6. SuThreads'
  <2>1. \A k \in DOMAIN mods' :
          /\ k > 1 /\ ~Joined(mods'[k]) => mods'[k].thread = "none"
          /\ mods'[k].out = "routed" => state' = "local"
    BY <1>1, <1>3, <1>4 DEF SuIInv, SuThreads
  <2>2. turn' \in 1 .. Len(mods') /\ \A k \in 1 .. turn' - 1 : FALSE
    BY <1>1, <1>2, <1>3
  <2> QED BY <1>1, <1>5, <2>1, <2>2 DEF SuThreads
<1>7. SuOnlyStartlessStops' /\ SuNoneCutOff'
  BY <1>1, <1>5 DEF SuOnlyStartlessStops, SuNoneCutOff
<1> QED BY <1>4, <1>6, <1>7 DEF SuIInv

(* The thread of the module at turn is made, or it has none; or main       *)
(* returns                                                                 *)
LEMMA StartNextStep ==
    ASSUME SuIInv, StartNext
    PROVE  SuIInv'
<1>1. /\ pc = "start" /\ UNCHANGED <<base, lib, refused>>
      /\ state = "init" /\ why = "none" /\ turn \in 1 .. Len(mods) /\ turn \in DOMAIN mods
      /\ Len(mods) >= 2 /\ Len(mods) \in Nat /\ mods \in Seq(Mod)
      /\ DOMAIN mods = 1 .. Len(mods)
      /\ \A k \in 1 .. turn - 1 : Joined(mods[k]) => mods[k].thread # "none"
      /\ \A k \in DOMAIN mods : k > 1 /\ ~Joined(mods[k]) => mods[k].thread = "none"
      /\ \A k \in DOMAIN mods : mods[k].out # "routed"
  BY DEF SuIInv, SuTyped, SuMade, SuThreads, StartNext
<1>2. CASE Joined(mods[turn]) /\ ~mods[turn].start
  <2>1. pc' = "exit" /\ why' = "start" /\ UNCHANGED <<mods, turn, state>>
    BY <1>1, <1>2 DEF StartNext, Return
  <2>2. SuTyped'
    BY <1>1, <2>1 DEF SuIInv, SuTyped
  <2>3. SuMade'
    BY <1>1, <2>1 DEF SuIInv, SuMade
  <2>4. SuThreads'
    BY <1>1, <2>1 DEF SuThreads, Joined
  <2>5. SuOnlyStartlessStops' /\ SuNoneCutOff'
    BY <1>1, <1>2, <2>1 DEF SuOnlyStartlessStops, SuNoneCutOff
  <2> QED BY <2>2, <2>3, <2>4, <2>5 DEF SuIInv
<1>3. CASE ~ (Joined(mods[turn]) /\ ~mods[turn].start)
  <2>1. /\ mods' = IF Joined(mods[turn]) THEN [mods EXCEPT ![turn].thread = "runs"] ELSE mods
        /\ turn' = IF turn = Len(mods) THEN 1 ELSE turn + 1
        /\ pc' = IF turn = Len(mods) THEN "join" ELSE "start"
        /\ state' = IF turn = Len(mods) THEN "local" ELSE state
        /\ why' = why
    BY <1>1, <1>3 DEF StartNext, Ready
  <2>2. /\ mods' \in Seq(Mod) /\ Len(mods') = Len(mods)
        /\ \A k \in DOMAIN mods :
              /\ mods'[k].type = mods[k].type /\ mods'[k].init = mods[k].init
              /\ mods'[k].start = mods[k].start /\ mods'[k].out = mods[k].out
              /\ mods'[k].thread = IF k = turn /\ Joined(mods[k]) THEN "runs" ELSE mods[k].thread
    <3>1. CASE Joined(mods[turn])
      <4>1. mods' = [mods EXCEPT ![turn].thread = "runs"]
        BY <2>1, <3>1
      <4>2. /\ mods' \in Seq(Mod) /\ Len(mods') = Len(mods)
            /\ \A k \in DOMAIN mods :
                 /\ mods'[k].type = mods[k].type /\ mods'[k].init = mods[k].init
                 /\ mods'[k].start = mods[k].start /\ mods'[k].out = mods[k].out
                 /\ mods'[k].thread = IF k = turn THEN "runs" ELSE mods[k].thread
        BY <1>1, <4>1, Changed
      <4>3. ASSUME NEW k \in DOMAIN mods PROVE k = turn => Joined(mods[k])
        BY <3>1
      <4> QED BY <4>2, <4>3, Zenon
    <3>2. CASE ~Joined(mods[turn])
      <4>1. mods' = mods
        BY <2>1, <3>2
      <4>2. ASSUME NEW k \in DOMAIN mods PROVE ~ (k = turn /\ Joined(mods[k]))
        BY <3>2
      <4>3. mods' \in Seq(Mod) /\ Len(mods') = Len(mods)
        BY <1>1, <4>1
      <4> QED BY <4>1, <4>2, <4>3, Zenon
    <3> QED BY <3>1, <3>2
  <2>3. turn' \in 1 .. Len(mods) /\ turn' \in 0 .. Len(mods)
    BY <1>1, <2>1
  <2>4. /\ SuTyped' /\ SuMade' /\ DOMAIN mods' = DOMAIN mods
        /\ \A k \in DOMAIN mods : Joined(mods[k]) <=> Joined(mods'[k])
    BY <1>1, <2>1, <2>2, <2>3, SameModules
  <2>5. \A k \in 1 .. turn : Joined(mods'[k]) => mods'[k].thread # "none"
    <3>1. \A k \in 1 .. turn : k \in DOMAIN mods /\ (k # turn => k \in 1 .. turn - 1)
      BY <1>1
    <3> QED BY <1>1, <2>2, <2>4, <3>1
  <2>6. \A k \in DOMAIN mods' :
          /\ k > 1 /\ ~Joined(mods'[k]) => mods'[k].thread = "none"
          /\ mods'[k].out = "routed" => state' = "local"
    BY <1>1, <2>2, <2>4
  <2>7. SuThreads'
    <3>1. CASE turn = Len(mods)
      <4>1. \A k \in 2 .. turn' - 1 : FALSE
        BY <2>1, <3>1
      <4>2. pc' = "join" /\ state' = "local" /\ why' = "none"
        BY <1>1, <2>1, <3>1
      <4>3. \A k \in DOMAIN mods' : Joined(mods'[k]) => mods'[k].thread # "none"
        BY <1>1, <2>4, <2>5, <3>1
      <4> QED BY <2>2, <2>3, <2>6, <4>1, <4>2, <4>3 DEF SuThreads
    <3>2. CASE turn # Len(mods)
      <4>1. turn' - 1 = turn /\ pc' = "start" /\ state' = "init" /\ why' = "none"
        BY <1>1, <2>1, <3>2
      <4> QED BY <2>2, <2>3, <2>5, <2>6, <4>1 DEF SuThreads
    <3> QED BY <3>1, <3>2
  <2>8. SuOnlyStartlessStops' /\ SuNoneCutOff'
    BY <1>1, <2>1 DEF SuOnlyStartlessStops, SuNoneCutOff
  <2> QED BY <2>4, <2>7, <2>8 DEF SuIInv
<1> QED BY <1>2, <1>3

LEMMA JoinNextStep ==
    ASSUME SuIInv, JoinNext
    PROVE  SuIInv'
<1>1. /\ pc = "join" /\ UNCHANGED <<base, lib, mods, state, refused>>
      /\ state = "local" /\ why = "none" /\ turn \in 1 .. Len(mods) /\ turn \in DOMAIN mods
      /\ Len(mods) >= 2 /\ Len(mods) \in Nat /\ DOMAIN mods = 1 .. Len(mods)
      /\ \A k \in 2 .. turn - 1 : mods[k].thread # "runs"
      /\ \A k \in DOMAIN mods : k > 1 /\ ~Joined(mods[k]) => mods[k].thread = "none"
      /\ Joined(mods[turn]) => mods[turn].thread = "ended"
  BY DEF SuIInv, SuTyped, SuMade, SuThreads, JoinNext
<1>2. \A k \in 2 .. turn : mods[k].thread # "runs"
  <2>1. \A k \in 2 .. turn : k \in DOMAIN mods /\ k > 1 /\ (k # turn => k \in 2 .. turn - 1)
    BY <1>1
  <2> QED BY <1>1, <2>1
<1>3. \/ turn = Len(mods) /\ pc' = "exit" /\ why' = "joined" /\ turn' = turn
      \/ turn # Len(mods) /\ turn' = turn + 1 /\ pc' = pc /\ why' = why
  BY DEF JoinNext, Return
<1>4. turn' \in 1 .. Len(mods)
  BY <1>1, <1>3
<1>5. SuTyped' /\ SuMade'
  <2>1. turn' \in 0 .. Len(mods)
    BY <1>4
  <2> QED BY <1>1, <1>3, <2>1 DEF SuIInv, SuTyped, SuMade
<1>6. SuThreads'
  <2>1. \A k \in DOMAIN mods' :
          /\ k > 1 /\ ~Joined(mods'[k]) => mods'[k].thread = "none"
          /\ mods'[k].out = "routed" => state' = "local"
          /\ state' = "local" /\ Joined(mods'[k]) => mods'[k].thread # "none"
    BY <1>1 DEF SuIInv, SuThreads, Joined
  <2>2. pc' = "join" => \A k \in 2 .. turn' - 1 : mods'[k].thread # "runs"
    BY <1>1, <1>2, <1>3
  <2> QED BY <1>1, <1>3, <1>4, <2>1, <2>2 DEF SuThreads
<1>7. SuOnlyStartlessStops' /\ SuNoneCutOff'
  <2>1. CASE pc' = "exit"
    <3>1. \A k \in DOMAIN mods' : k > 1 => mods'[k].thread # "runs"
      BY <1>1, <1>2, <1>3, <2>1
    <3> QED BY <1>1, <1>3, <2>1, <3>1 DEF SuOnlyStartlessStops, SuNoneCutOff
  <2>2. CASE pc' # "exit"
    BY <1>1, <1>3, <2>2 DEF SuOnlyStartlessStops, SuNoneCutOff
  <2> QED BY <2>1, <2>2
<1> QED BY <1>5, <1>6, <1>7 DEF SuIInv
(* What a step leaves as it is that makes no thread, ends at most running  *)
(* ones, and routes at most when PROC_LOCAL_START is set                   *)
LEMMA ThreadsKept ==
    ASSUME SuIInv, pc # "exit", UNCHANGED <<pc, turn, state, why>>,
           DOMAIN mods' = DOMAIN mods, DOMAIN mods = 1 .. Len(mods), Len(mods') = Len(mods),
           Len(mods) \in Nat,
           \A k \in DOMAIN mods :
              /\ Joined(mods[k]) <=> Joined(mods'[k])
              /\ mods'[k].out = "routed" => mods[k].out = "routed" \/ state = "local"
              /\ \/ mods'[k].thread = mods[k].thread
                 \/ mods[k].thread = "runs" /\ mods'[k].thread = "ended"
    PROVE  SuThreads'
<1>1. pc \notin {"start", "join"} => \A k \in DOMAIN mods' : mods'[k].thread = "none"
  BY DEF SuIInv, SuThreads
<1>2. \A k \in DOMAIN mods' :
        /\ k > 1 /\ ~Joined(mods'[k]) => mods'[k].thread = "none"
        /\ mods'[k].out = "routed" => state' = "local"
        /\ state' = "local" /\ Joined(mods'[k]) => mods'[k].thread # "none"
  BY DEF SuIInv, SuThreads
<1>3. ASSUME pc = "start"
      PROVE  \A k \in 1 .. turn - 1 : Joined(mods'[k]) => mods'[k].thread # "none"
  <2>1. turn \in 1 .. Len(mods) /\ \A k \in 1 .. turn - 1 : k \in DOMAIN mods
    BY <1>3 DEF SuIInv, SuThreads
  <2> QED BY <1>3, <2>1 DEF SuIInv, SuThreads
<1>4. ASSUME pc = "join"
      PROVE  \A k \in 2 .. turn - 1 : mods'[k].thread # "runs"
  <2>1. turn \in 1 .. Len(mods) /\ \A k \in 2 .. turn - 1 : k \in DOMAIN mods
    BY <1>4 DEF SuIInv, SuThreads
  <2> QED BY <1>4, <2>1 DEF SuIInv, SuThreads
<1> QED BY <1>1, <1>2, <1>3, <1>4 DEF SuIInv, SuThreads

LEMMA ThreadSteps ==
    ASSUME SuIInv, NEW j \in DOMAIN mods, ThreadSend(j) \/ ThreadEnd(j)
    PROVE  SuIInv'
<1>1. /\ pc # "exit" /\ UNCHANGED <<pc, base, lib, turn, state, why, refused>>
      /\ j > 1 /\ mods[j].thread = "runs"
      /\ \/ mods' = [mods EXCEPT ![j].out = "queued"]
         \/ mods' = [mods EXCEPT ![j].thread = "ended"]
  <2>1. j \in Nat
    BY DEF SuIInv, SuTyped
  <2>2. CASE ThreadSend(j)
    BY <2>1, <2>2 DEF ThreadSend, Running
  <2>3. CASE ThreadEnd(j)
    BY <2>1, <2>3 DEF ThreadEnd, Running
  <2> QED BY <2>2, <2>3
<1>2. /\ mods' \in Seq(Mod) /\ Len(mods') = Len(mods)
      /\ \A k \in DOMAIN mods :
            /\ mods'[k].type = mods[k].type /\ mods'[k].init = mods[k].init
            /\ mods'[k].start = mods[k].start
            /\ mods'[k].out = "routed" => mods[k].out = "routed"
            /\ \/ mods'[k].thread = mods[k].thread
               \/ mods[k].thread = "runs" /\ mods'[k].thread = "ended"
  <2>1. CASE mods' = [mods EXCEPT ![j].out = "queued"]
    <3>1. mods \in Seq(Mod) /\ mods[j] \in Mod
      BY DEF SuIInv, SuTyped
    <3> DEFINE m == [mods[j] EXCEPT !.out = "queued"]
    <3>2. /\ m \in Mod /\ m.type = mods[j].type /\ m.init = mods[j].init
          /\ m.start = mods[j].start /\ m.out = "queued" /\ m.thread = mods[j].thread
      BY <3>1 DEF Mod
    <3>3. mods' = [mods EXCEPT ![j] = m]
      BY <2>1
    <3> HIDE DEF m
    <3>4. /\ mods' \in Seq(Mod) /\ Len(mods') = Len(mods)
          /\ \A k \in DOMAIN mods : mods'[k] = IF k = j THEN m ELSE mods[k]
      BY <3>1, <3>2, <3>3
    <3>5. ASSUME NEW k \in DOMAIN mods
          PROVE  /\ mods'[k].type = mods[k].type /\ mods'[k].init = mods[k].init
                 /\ mods'[k].start = mods[k].start
                 /\ mods'[k].out = "routed" => mods[k].out = "routed"
                 /\ mods'[k].thread = mods[k].thread
      <4>1. CASE k = j
        BY <3>2, <3>4, <4>1
      <4>2. CASE k # j
        BY <3>4, <4>2
      <4> QED BY <4>1, <4>2
    <3> QED BY <3>4, <3>5
  <2>2. CASE mods' = [mods EXCEPT ![j].thread = "ended"]
    <3>1. /\ mods' \in Seq(Mod) /\ Len(mods') = Len(mods)
          /\ \A k \in DOMAIN mods :
               /\ mods'[k].type = mods[k].type /\ mods'[k].init = mods[k].init
               /\ mods'[k].start = mods[k].start /\ mods'[k].out = mods[k].out
               /\ mods'[k].thread = IF k = j THEN "ended" ELSE mods[k].thread
      BY <2>2, Changed
    <3> QED BY <1>1, <3>1, Zenon
  <2> QED BY <1>1, <2>1, <2>2
<1>3. turn' \in 0 .. Len(mods) /\ state' \in {"init", "local"}
  BY <1>1 DEF SuIInv, SuTyped
<1>4. /\ SuTyped' /\ SuMade' /\ DOMAIN mods' = DOMAIN mods /\ DOMAIN mods = 1 .. Len(mods)
      /\ Len(mods) \in Nat
      /\ \A k \in DOMAIN mods : Joined(mods[k]) <=> Joined(mods'[k])
  BY <1>1, <1>2, <1>3, SameModules
<1>5. SuThreads'
  BY <1>1, <1>2, <1>4, ThreadsKept
<1>6. SuOnlyStartlessStops' /\ SuNoneCutOff'
  BY <1>1 DEF SuIInv, SuThreads, SuOnlyStartlessStops, SuNoneCutOff
<1> QED BY <1>4, <1>5, <1>6 DEF SuIInv

LEMMA RouterStep ==
    ASSUME SuIInv, RouterTurn
    PROVE  SuIInv'
<1> DEFINE Next(m) == IF m.out = "queued" THEN [m EXCEPT !.out = "routed"] ELSE m
<1>1. /\ pc # "exit" /\ UNCHANGED <<pc, base, lib, turn, state, why, refused>>
      /\ state = "local"
      /\ mods' = [k \in DOMAIN mods |-> Next(mods[k])]
  BY DEF RouterTurn, Running
<1>2. mods \in Seq(Mod) /\ DOMAIN mods = 1 .. Len(mods) /\ Len(mods) \in Nat
  BY DEF SuIInv, SuTyped
<1>3. ASSUME NEW m \in Mod
      PROVE  /\ Next(m) \in Mod /\ Next(m).type = m.type /\ Next(m).init = m.init
             /\ Next(m).start = m.start /\ Next(m).thread = m.thread
  BY DEF Mod
<1> HIDE DEF Next
<1>4. /\ mods' \in Seq(Mod) /\ Len(mods') = Len(mods)
      /\ \A k \in DOMAIN mods : mods'[k] = Next(mods[k]) /\ mods[k] \in Mod
  BY <1>1, <1>2, <1>3
<1>5. \A k \in DOMAIN mods :
            /\ mods'[k].type = mods[k].type /\ mods'[k].init = mods[k].init
            /\ mods'[k].start = mods[k].start /\ mods'[k].thread = mods[k].thread
  BY <1>3, <1>4
<1>6. turn' \in 0 .. Len(mods) /\ state' \in {"init", "local"}
  BY <1>1 DEF SuIInv, SuTyped
<1>7. /\ SuTyped' /\ SuMade' /\ DOMAIN mods' = DOMAIN mods
      /\ \A k \in DOMAIN mods : Joined(mods[k]) <=> Joined(mods'[k])
  BY <1>1, <1>4, <1>5, <1>6, SameModules
<1>8. SuThreads'
  BY <1>1, <1>2, <1>4, <1>5, <1>7, ThreadsKept
<1>9. SuOnlyStartlessStops' /\ SuNoneCutOff'
  BY <1>1 DEF SuIInv, SuThreads, SuOnlyStartlessStops, SuNoneCutOff
<1> QED BY <1>7, <1>8, <1>9 DEF SuIInv

-----------------------------------------------------------------------------
LEMMA SuStepHolds == SuIInv /\ [SuNext]_suvars => SuIInv'
<1> SUFFICES ASSUME SuIInv, [SuNext]_suvars PROVE SuIInv'
  OBVIOUS
<1>1. CASE ReadBase \/ ReadSys \/ ReadMain \/ GetUuid
  BY <1>1, ReadSteps
<1>2. CASE MakeConn \/ MakeRouter \/ LoadPlugin
  BY <1>2, MakeSteps
<1>3. CASE PluginsRead
  BY <1>3, PluginsReadStep
<1>4. CASE StartNext
  BY <1>4, StartNextStep
<1>5. CASE JoinNext
  BY <1>5, JoinNextStep
<1>6. CASE \E k \in DOMAIN mods : ThreadSend(k) \/ ThreadEnd(k)
  BY <1>6, ThreadSteps
<1>7. CASE RouterTurn
  BY <1>7, RouterStep
<1>8. CASE UNCHANGED suvars
  BY <1>8 DEF suvars, SuIInv, SuTyped, SuMade, SuThreads, SuOnlyStartlessStops, SuNoneCutOff,
              Joined
<1> QED BY <1>1, <1>2, <1>3, <1>4, <1>5, <1>6, <1>7, <1>8 DEF SuNext, MainStep

LEMMA SuFollows == SuIInv => SuStartsWhole
<1> SUFFICES ASSUME SuIInv PROVE SuStartsWhole
  OBVIOUS
<1>1. SuTypeOK
  <2>1. \A k \in DOMAIN mods : mods[k] \in Mod
    BY DEF SuIInv, SuTyped
  <2>2. \A k \in DOMAIN mods : /\ mods[k].thread \in {"none", "runs", "ended"}
                               /\ mods[k].out \in {"none", "queued", "routed"}
    BY <2>1 DEF Mod
  <2> QED BY <2>2 DEF SuIInv, SuTyped, SuTypeOK
<1>2. SuRunsInitialised
  BY DEF SuIInv, SuMade, SuRunsInitialised
<1>3. SuRoutedAfterStart
  BY DEF SuIInv, SuThreads, SuRoutedAfterStart
<1>4. SuDefineFound
  BY DefineFault DEF SuIInv, SuTyped, SuDefineFound
<1> QED BY <1>1, <1>2, <1>3, <1>4 DEF SuIInv, SuStartsWhole

(* main_proc.c: in every process that is started, whatever its files hold  *)
(* and its plugins' functions return, no module but the connector runs     *)
(* uninitialised, nothing is routed before every thread is made, and main  *)
(* returns only when all joined threads have ended.                        *)
THEOREM StartsWholeCorrect == SuSpec => []SuStartsWhole
<1>1. SuInit => SuIInv
  BY SuInitHolds
<1>2. SuIInv /\ [SuNext]_suvars => SuIInv'
  BY SuStepHolds
<1>3. SuIInv => SuStartsWhole
  BY SuFollows
<1> QED BY <1>1, <1>2, <1>3, PTL DEF SuSpec

-----------------------------------------------------------------------------
(* TcpLink.  The inductive invariant: the channels a server holds and the  *)
(* connections that wait are those of its peer's processes, one after the  *)
(* other (TlOrder); what the state of a client says of its present         *)
(* connection (TlClient), and what was done about the answers of both      *)
(* (TlAcks).                                                               *)

Ids == TlNodes \X Nat
Chan == [id : Ids, end : {"open", "eof"}, acked : BOOLEAN]
HasId(s, id) == \E k \in DOMAIN s : s[k].id = id
HasAck(s, id) == \E k \in DOMAIN s : s[k].id = id /\ s[k].acked
Waits(q, id) == \E k \in DOMAIN q : q[k] = id

TlTyped ==
    /\ boots \in [TlNodes -> Nat] /\ up \in [TlNodes -> BOOLEAN]
    /\ cfd \in [TlNodes -> {"fresh", "open", "eof", "closed"}]
    /\ cst \in [TlNodes -> {"INIT", "CONNECT", "RESPONSE", "CUT"}]
    /\ known \in [TlNodes -> BOOLEAN]
    /\ pending \in [TlNodes -> Seq(Ids)] /\ chans \in [TlNodes -> Seq(Chan)]
    /\ syn \subseteq Ids /\ ack \subseteq Ids

(* Channels s and connections q to accept, all of processes of p, the      *)
(* later one behind the earlier, and none of a process later than the b-th *)
Ordered(s, q, p, b) ==
    /\ \A k \in DOMAIN s : Owner(s[k].id) = p /\ s[k].id[2] <= b
    /\ \A k \in DOMAIN q : Owner(q[k]) = p /\ q[k][2] <= b
    /\ \A m, n \in DOMAIN s : m < n => s[m].id[2] < s[n].id[2]
    /\ \A m, n \in DOMAIN q : m < n => q[m][2] < q[n][2]
    /\ \A m \in DOMAIN s, n \in DOMAIN q : s[m].id[2] < q[n][2]

TlOrder == \A i \in TlNodes : Ordered(chans[i], pending[i], Peer(i), boots[Peer(i)])

(* What the state of a client says of its present connection               *)
Linked(i) ==
    /\ cfd[i] = "open" => up[i] /\ (HasId(chans[Peer(i)], Id(i)) \/ Waits(pending[Peer(i)], Id(i)))
    /\ cfd[i] \in {"fresh", "eof"} =>
          ~HasId(chans[Peer(i)], Id(i)) /\ ~Waits(pending[Peer(i)], Id(i))
    /\ cfd[i] = "fresh" => ~known[i] /\ Id(i) \notin syn /\ Id(i) \notin ack
    /\ up[i] /\ cfd[i] = "closed" => cst[i] = "CUT"
    /\ cst[i] = "CUT" => known[i] /\ cfd[i] = "closed"

Told(i) ==
    /\ Id(i) \in syn => ~known[i]
    /\ Waits(pending[Peer(i)], Id(i)) => ~known[i] /\ Id(i) \notin syn /\ i \in TlClients
    /\ HasId(chans[Peer(i)], Id(i)) => i \in TlClients
    /\ HasAck(chans[Peer(i)], Id(i)) \/ Id(i) \in ack => known[i]

Past(i) == \A id \in syn \cup ack : Owner(id) = i => id[2] <= boots[i]

TlClient(i) == Linked(i) /\ Told(i) /\ Past(i)

(* An answer that is not under way was handled, and with it every earlier  *)
(* one; whoever handles the later of two answers cuts its own client, and  *)
(* crossed tells when the other one's was under way.                       *)
Handled(i) ==
    HasId(chans[Peer(i)], Id(i)) /\ known[i] /\ Id(i) \notin ack => HasAck(chans[Peer(i)], Id(i))

Drained(i) ==
    HasAck(chans[Peer(i)], Id(i)) =>
        \A n \in DOMAIN chans[Peer(i)] : chans[Peer(i)][n].id \notin ack

OneCut(i) ==
    HasAck(chans[Peer(i)], Id(i)) /\ HasAck(chans[i], Id(Peer(i)))
        => cst[i] = "CUT" \/ cst[Peer(i)] = "CUT"

CutEarly(i) ==
    up[i] /\ cst[i] = "CUT" /\ HasId(chans[Peer(i)], Id(i)) => crossed \/ Id(i) \notin ack

BothCut(i) ==
    /\ cst[i] = "CUT" /\ HasId(chans[Peer(i)], Id(i))
    /\ cst[Peer(i)] = "CUT" /\ HasId(chans[i], Id(Peer(i)))
    => crossed

TlAcks(i) == Handled(i) /\ Drained(i) /\ OneCut(i) /\ CutEarly(i) /\ BothCut(i)

TlOpenEnds ==
    \A i \in TlNodes : \A k \in DOMAIN chans[i] : chans[i][k].end = "open" => Mine(chans[i][k].id)

(* A process that does not run has no channels                             *)
TlDown == \A i \in TlNodes : ~up[i] => chans[i] = <<>>

TlIInv == TlTyped /\ TlOrder /\ TlDown /\ TlOpenEnds /\ \A i \in TlNodes : TlClient(i) /\ TlAcks(i)

-----------------------------------------------------------------------------
LEMMA Two ==
    /\ \A i \in TlNodes : Peer(i) \in TlNodes /\ Peer(i) # i /\ Peer(Peer(i)) = i
    /\ \A i, j \in TlNodes : i = j \/ i = Peer(j)
<1>1. PICK a, b : TlNodes = {a, b} /\ a # b
  <2>1. TlNodes # {} /\ IsFiniteSet(TlNodes) /\ Cardinality(TlNodes) = 2
    BY TlAssumption, FS_EmptySet
  <2>2. PICK a \in TlNodes : TRUE
    BY <2>1
  <2>3. IsFiniteSet(TlNodes \ {a}) /\ Cardinality(TlNodes \ {a}) = 1
    BY <2>1, <2>2, FS_RemoveElement
  <2>4. PICK b : TlNodes \ {a} = {b}
    BY <2>3, FS_Singleton
  <2> QED BY <2>2, <2>4
<1>2. Peer(a) = b /\ Peer(b) = a
  BY <1>1 DEF Peer
<1> QED BY <1>1, <1>2

-----------------------------------------------------------------------------
(* Sequences of channels                                                   *)
LEMMA ChanElems ==
    ASSUME NEW s \in Seq(Chan)
    PROVE  \A k \in DOMAIN s : s[k] \in Chan /\ s[k].id \in Ids /\ s[k].id[2] \in Nat
<1>1. \A k \in DOMAIN s : s[k] \in Chan
  OBVIOUS
<1>2. \A c \in Chan : c.id \in Ids
  BY DEF Chan
<1>3. \A id \in Ids : id[2] \in Nat
  BY DEF Ids
<1> QED BY <1>1, <1>2, <1>3

LEMMA TailElems ==
    ASSUME NEW q \in Seq(Ids), q # <<>>
    PROVE  /\ Tail(q) \in Seq(Ids) /\ Head(q) = q[1] /\ 1 \in DOMAIN q
           /\ \A k \in DOMAIN q : k \in Nat \ {0} /\ q[k] \in Ids /\ q[k][2] \in Nat
           /\ \A k \in DOMAIN Tail(q) : k \in Nat \ {0} /\ k + 1 \in DOMAIN q /\ Tail(q)[k] = q[k + 1]
           /\ \A k \in DOMAIN q : k # 1 => k - 1 \in DOMAIN Tail(q) /\ Tail(q)[k - 1] = q[k]
<1>1. \A id \in Ids : id[2] \in Nat
  BY DEF Ids
<1>2. /\ Tail(q) \in Seq(Ids) /\ Head(q) = q[1] /\ Len(q) \in Nat \ {0}
      /\ DOMAIN q = 1 .. Len(q) /\ DOMAIN Tail(q) = 1 .. Len(q) - 1
      /\ \A k \in 1 .. Len(q) : q[k] \in Ids
      /\ \A k \in 1 .. Len(q) - 1 : Tail(q)[k] = q[k + 1]
  OBVIOUS
<1>3. \A k \in DOMAIN Tail(q) : k \in Nat \ {0} /\ k + 1 \in DOMAIN q
  BY <1>2
<1>4. \A k \in DOMAIN q : k # 1 => k - 1 \in DOMAIN Tail(q) /\ (k - 1) + 1 = k
  BY <1>2
<1>5. 1 \in DOMAIN q
  BY <1>2
<1> QED BY <1>1, <1>2, <1>3, <1>4, <1>5

LEMMA AppendPending ==
    ASSUME NEW s \in Seq(Chan), NEW q \in Seq(Ids), NEW p \in TlNodes, NEW b \in Nat,
           Ordered(s, q, p, b), ~HasId(s, <<p, b>>), ~Waits(q, <<p, b>>)
    PROVE  /\ Ordered(s, Append(q, <<p, b>>), p, b) /\ Append(q, <<p, b>>) \in Seq(Ids)
           /\ \A id : Waits(Append(q, <<p, b>>), id) <=> Waits(q, id) \/ id = <<p, b>>
<1> DEFINE new == <<p, b>>
           t == Append(q, new)
<1>1. new \in Ids /\ new[1] = p /\ new[2] = b
  BY DEF Ids
<1>2. /\ \A k \in DOMAIN s : s[k] \in Chan /\ s[k].id \in Ids
      /\ \A k \in DOMAIN q : q[k] \in Ids
  BY ChanElems
<1>3. \A id \in Ids : id = <<id[1], id[2]>> /\ id[2] \in Nat
  BY DEF Ids
<1>4. \A k \in DOMAIN s : s[k].id[2] < b
  BY <1>2, <1>3 DEF Ordered, HasId, Owner
<1>5. \A k \in DOMAIN q : q[k][2] < b
  BY <1>2, <1>3 DEF Ordered, Waits, Owner
<1> HIDE DEF new
<1>6. /\ t \in Seq(Ids) /\ DOMAIN t = 1 .. Len(q) + 1 /\ DOMAIN q = 1 .. Len(q) /\ Len(q) \in Nat
      /\ t[Len(q) + 1] = new /\ \A k \in 1 .. Len(q) : t[k] = q[k]
  BY <1>1
<1> HIDE DEF t
<1>7. Ordered(s, t, p, b)
  <2>1. \A k \in DOMAIN t : Owner(t[k]) = p /\ t[k][2] <= b
    BY <1>1, <1>6 DEF Ordered, Owner
  <2>2. \A m, n \in DOMAIN t : m < n => t[m][2] < t[n][2]
    BY <1>1, <1>5, <1>6 DEF Ordered
  <2>3. \A m \in DOMAIN s, n \in DOMAIN t : s[m].id[2] < t[n][2]
    BY <1>1, <1>4, <1>6 DEF Ordered
  <2> QED BY <2>1, <2>2, <2>3 DEF Ordered
<1>8. ASSUME NEW id PROVE Waits(t, id) <=> Waits(q, id) \/ id = new
  <2>1. \A k \in DOMAIN t : k = Len(q) + 1 \/ k \in DOMAIN q
    BY <1>6
  <2>2. \A k \in DOMAIN q : k \in DOMAIN t
    BY <1>6
  <2>3. Len(q) + 1 \in DOMAIN t
    BY <1>6
  <2> QED BY <1>6, <2>1, <2>2, <2>3 DEF Waits
<1> QED BY <1>6, <1>7, <1>8 DEF t, new

LEMMA AcceptHead ==
    ASSUME NEW s \in Seq(Chan), NEW q \in Seq(Ids), NEW p \in TlNodes, NEW b \in Nat,
           Ordered(s, q, p, b), q # <<>>, NEW c \in Chan, c.id = Head(q), ~c.acked
    PROVE  /\ Ordered(Append(s, c), Tail(q), p, b) /\ Append(s, c) \in Seq(Chan)
           /\ \A id : HasId(Append(s, c), id) <=> HasId(s, id) \/ id = Head(q)
           /\ \A id : HasAck(Append(s, c), id) <=> HasAck(s, id)
           /\ \A k \in DOMAIN Append(s, c) :
                 Append(s, c)[k] = IF k = Len(s) + 1 THEN c ELSE s[k]
<1> DEFINE t == Append(s, c)
           r == Tail(q)
<1>1. /\ t \in Seq(Chan) /\ DOMAIN t = 1 .. Len(s) + 1 /\ DOMAIN s = 1 .. Len(s) /\ Len(s) \in Nat
      /\ t[Len(s) + 1] = c /\ \A k \in 1 .. Len(s) : t[k] = s[k]
  OBVIOUS
<1>2. /\ Head(q) = q[1] /\ 1 \in DOMAIN q
      /\ \A k \in DOMAIN q : k \in Nat \ {0} /\ q[k] \in Ids /\ q[k][2] \in Nat
      /\ \A k \in DOMAIN r : k \in Nat \ {0} /\ k + 1 \in DOMAIN q /\ r[k] = q[k + 1]
  BY TailElems
<1> HIDE DEF t, r
<1>0. c.id = q[1] /\ Owner(c.id) = p /\ c.id[2] <= b
  BY <1>2 DEF Ordered
<1>3. \A k \in DOMAIN t : Owner(t[k].id) = p /\ t[k].id[2] <= b
  <2>1. \A k \in DOMAIN s : Owner(s[k].id) = p /\ s[k].id[2] <= b
    BY DEF Ordered
  <2> QED BY <1>0, <1>1, <2>1
<1>4. ASSUME NEW k \in DOMAIN r
      PROVE  Owner(r[k]) = p /\ r[k][2] <= b /\ c.id[2] < r[k][2]
  <2>1. k + 1 \in DOMAIN q /\ 1 < k + 1 /\ r[k] = q[k + 1]
    BY <1>2
  <2>2. Owner(q[k + 1]) = p /\ q[k + 1][2] <= b /\ q[1][2] < q[k + 1][2]
    BY <1>2, <2>1 DEF Ordered
  <2> QED BY <1>0, <2>1, <2>2
<1>5. \A m, n \in DOMAIN t : m < n => t[m].id[2] < t[n].id[2]
  BY <1>1, <1>2 DEF Ordered
<1>6. ASSUME NEW m \in DOMAIN r, NEW n \in DOMAIN r, m < n PROVE r[m][2] < r[n][2]
  <2>1. m + 1 \in DOMAIN q /\ n + 1 \in DOMAIN q /\ m + 1 < n + 1
    BY <1>2, <1>6
  <2> QED BY <1>2, <2>1 DEF Ordered
<1>7. ASSUME NEW m \in DOMAIN t, NEW n \in DOMAIN r PROVE t[m].id[2] < r[n][2]
  <2>1. CASE m = Len(s) + 1
    BY <1>1, <1>4, <2>1
  <2>2. CASE m # Len(s) + 1
    <3>1. m \in DOMAIN s /\ t[m] = s[m] /\ n + 1 \in DOMAIN q /\ r[n] = q[n + 1]
      BY <1>1, <1>2, <2>2
    <3> QED BY <3>1 DEF Ordered
  <2> QED BY <2>1, <2>2
<1>8. Ordered(t, r, p, b)
  BY <1>3, <1>4, <1>5, <1>6, <1>7 DEF Ordered
<1>9. \A id : HasId(t, id) <=> HasId(s, id) \/ id = Head(q)
  BY <1>1 DEF HasId
<1>10. \A id : HasAck(t, id) <=> HasAck(s, id)
  BY <1>1 DEF HasAck
<1> QED BY <1>1, <1>8, <1>9, <1>10 DEF t, r

(* The connection that is accepted waits no longer, and was not accepted   *)
LEMMA DropHead ==
    ASSUME NEW s \in Seq(Chan), NEW q \in Seq(Ids), NEW p \in TlNodes, NEW b \in Nat,
           Ordered(s, q, p, b), q # <<>>
    PROVE  /\ Ordered(s, Tail(q), p, b) /\ Tail(q) \in Seq(Ids) /\ ~HasId(s, Head(q))
           /\ \A id : Waits(Tail(q), id) <=> Waits(q, id) /\ id # Head(q)
           /\ Waits(q, Head(q)) /\ Head(q) \in Ids /\ Owner(Head(q)) = p /\ Head(q)[2] <= b
           /\ Head(q) # <<p, b>> => ~HasId(s, <<p, b>>)
<1> DEFINE r == Tail(q)
<1>1. /\ r \in Seq(Ids) /\ Head(q) = q[1] /\ 1 \in DOMAIN q
      /\ \A k \in DOMAIN q : k \in Nat \ {0} /\ q[k] \in Ids /\ q[k][2] \in Nat
      /\ \A k \in DOMAIN r : k \in Nat \ {0} /\ k + 1 \in DOMAIN q /\ r[k] = q[k + 1]
      /\ \A k \in DOMAIN q : k # 1 => k - 1 \in DOMAIN r /\ r[k - 1] = q[k]
  BY TailElems
<1>2. \A k \in DOMAIN s : s[k] \in Chan /\ s[k].id \in Ids /\ s[k].id[2] \in Nat
  BY ChanElems
<1>3. \A k \in DOMAIN q : q[k][2] \in Nat
  BY <1>1
<1> HIDE DEF r
<1>4. \A k \in DOMAIN r : Owner(r[k]) = p /\ r[k][2] <= b
  BY <1>1 DEF Ordered
<1>5. ASSUME NEW m \in DOMAIN r, NEW n \in DOMAIN r, m < n PROVE r[m][2] < r[n][2]
  <2>1. m + 1 \in DOMAIN q /\ n + 1 \in DOMAIN q /\ m + 1 < n + 1
    BY <1>1, <1>5
  <2> QED BY <1>1, <2>1 DEF Ordered
<1>6. \A m \in DOMAIN s, n \in DOMAIN r : s[m].id[2] < r[n][2]
  BY <1>1 DEF Ordered
<1>7. Ordered(s, r, p, b)
  BY <1>4, <1>5, <1>6 DEF Ordered
<1>8. ~HasId(s, Head(q))
  BY <1>1, <1>2, <1>3 DEF Ordered, HasId
<1>9. ASSUME NEW id PROVE Waits(r, id) <=> Waits(q, id) /\ id # Head(q)
  <2>1. ASSUME NEW k \in DOMAIN r PROVE k + 1 \in DOMAIN q /\ r[k] = q[k + 1] /\ r[k] # Head(q)
    <3>1. k + 1 \in DOMAIN q /\ 1 \in DOMAIN q /\ 1 < k + 1
      <4>1. k \in Nat /\ k + 1 \in Nat \ {0}
        BY <1>1
      <4>2. k # 0
        BY <1>1
      <4> QED BY <1>1, <4>1, <4>2
    <3>2. q[1][2] < q[k + 1][2]
      BY <3>1 DEF Ordered
    <3>3. q[1] # q[k + 1]
      BY <1>1, <3>1, <3>2
    <3> QED BY <1>1, <3>3
  <2>2. Waits(r, id) => Waits(q, id) /\ id # Head(q)
    BY <2>1 DEF Waits
  <2>3. ASSUME NEW k \in DOMAIN q, q[k] = id, id # Head(q) PROVE Waits(r, id)
    <3>1. k - 1 \in DOMAIN r /\ r[k - 1] = id
      BY <1>1, <2>3
    <3> QED BY <3>1 DEF Waits
  <2> QED BY <2>2, <2>3 DEF Waits
<1>10. Waits(q, Head(q)) /\ Head(q) \in Ids /\ Owner(Head(q)) = p /\ Head(q)[2] <= b
  BY <1>1 DEF Waits, Ordered
<1>11. ASSUME HasId(s, <<p, b>>) PROVE FALSE
  <2>1. PICK k \in DOMAIN s : s[k].id = <<p, b>>
    BY <1>11 DEF HasId
  <2>2. b < q[1][2] /\ q[1][2] <= b
    BY <1>1, <2>1 DEF Ordered
  <2> QED BY <1>1, <1>3, <2>2
<1> QED BY <1>1, <1>7, <1>8, <1>9, <1>10, <1>11 DEF r

LEMMA EndedIs ==
    ASSUME NEW s \in Seq(Chan), NEW a
    PROVE  /\ Ended(s, a) \in Seq(Chan) /\ DOMAIN Ended(s, a) = DOMAIN s
           /\ \A k \in DOMAIN s : /\ Ended(s, a)[k].id = s[k].id
                                  /\ Ended(s, a)[k].acked = s[k].acked
                                  /\ Ended(s, a)[k].end = IF s[k].id = a THEN "eof" ELSE s[k].end
<1> DEFINE Of(c) == IF c.id = a THEN [c EXCEPT !.end = "eof"] ELSE c
<1>1. ASSUME NEW c \in Chan
      PROVE  /\ Of(c) \in Chan /\ Of(c).id = c.id /\ Of(c).acked = c.acked
             /\ Of(c).end = IF c.id = a THEN "eof" ELSE c.end
  <2>1. CASE c.id = a
    <3>1. [c EXCEPT !.end = "eof"] \in Chan
      BY DEF Chan
    <3>2. /\ [c EXCEPT !.end = "eof"].id = c.id /\ [c EXCEPT !.end = "eof"].acked = c.acked
          /\ [c EXCEPT !.end = "eof"].end = "eof"
      BY DEF Chan
    <3> QED BY <2>1, <3>1, <3>2
  <2>2. CASE c.id # a
    BY <2>2
  <2> QED BY <2>1, <2>2
<1>2. Ended(s, a) = [k \in DOMAIN s |-> Of(s[k])]
  BY DEF Ended
<1>3. \A k \in DOMAIN s : s[k] \in Chan
  OBVIOUS
<1> HIDE DEF Of
<1>4. Ended(s, a) \in Seq(Chan) /\ DOMAIN Ended(s, a) = DOMAIN s
  BY <1>1, <1>2, <1>3
<1> QED BY <1>1, <1>2, <1>3, <1>4

LEMMA AckedIs ==
    ASSUME NEW s \in Seq(Chan), NEW a
    PROVE  /\ Acked(s, a) \in Seq(Chan) /\ DOMAIN Acked(s, a) = DOMAIN s
           /\ \A k \in DOMAIN s : /\ Acked(s, a)[k].id = s[k].id
                                  /\ Acked(s, a)[k].acked <=> (s[k].acked \/ s[k].id = a)
                                  /\ Acked(s, a)[k].end = s[k].end
<1> DEFINE Of(c) == IF c.id = a THEN [c EXCEPT !.acked = TRUE] ELSE c
<1>1. ASSUME NEW c \in Chan
      PROVE  /\ Of(c) \in Chan /\ Of(c).id = c.id /\ (Of(c).acked <=> (c.acked \/ c.id = a))
             /\ Of(c).end = c.end
  <2>1. CASE c.id = a
    <3> DEFINE d == [c EXCEPT !.acked = TRUE]
    <3>1. d \in Chan
      BY DEF Chan
    <3>2. d.id = c.id
      BY DEF Chan
    <3>3. d.end = c.end
      BY DEF Chan
    <3>4. d.acked
      BY DEF Chan
    <3>5. Of(c) = d
      BY <2>1
    <3> HIDE DEF d, Of
    <3> QED BY <2>1, <3>1, <3>2, <3>3, <3>4, <3>5
  <2>2. CASE c.id # a
    BY <2>2
  <2> QED BY <2>1, <2>2
<1>2. Acked(s, a) = [k \in DOMAIN s |-> Of(s[k])]
  BY DEF Acked
<1>3. \A k \in DOMAIN s : s[k] \in Chan
  OBVIOUS
<1> HIDE DEF Of
<1>4. Acked(s, a) \in Seq(Chan) /\ DOMAIN Acked(s, a) = DOMAIN s
  BY <1>1, <1>2, <1>3
<1>5. \A k \in DOMAIN s : Acked(s, a)[k] = Of(s[k])
  BY <1>2
<1> QED BY <1>1, <1>3, <1>4, <1>5

(* Channels that keep their connections keep the order                     *)
LEMMA SameIds ==
    ASSUME NEW s, NEW t, NEW q, NEW p, NEW b, Ordered(s, q, p, b), DOMAIN t = DOMAIN s,
           \A k \in DOMAIN s : t[k].id = s[k].id
    PROVE  Ordered(t, q, p, b) /\ \A id : HasId(t, id) <=> HasId(s, id)
<1>1. Ordered(t, q, p, b)
  BY DEF Ordered
<1>2. \A id : HasId(t, id) <=> HasId(s, id)
  BY DEF HasId
<1> QED BY <1>1, <1>2

LEMMA WithoutIs ==
    ASSUME NEW s \in Seq(Chan), NEW q, NEW p, NEW b, Ordered(s, q, p, b), NEW n \in DOMAIN s
    PROVE  /\ Without(s, n) \in Seq(Chan) /\ Ordered(Without(s, n), q, p, b)
           /\ \A k \in DOMAIN Without(s, n) :
                 \E j \in DOMAIN s : j # n /\ s[j].id # s[n].id /\ Without(s, n)[k] = s[j]
           /\ \A id : HasId(Without(s, n), id) <=> HasId(s, id) /\ id # s[n].id
           /\ \A id : HasAck(Without(s, n), id) <=> HasAck(s, id) /\ id # s[n].id
<1> DEFINE t == Without(s, n)
           At(m) == IF m < n THEN m ELSE m + 1
           Back(m) == IF m < n THEN m ELSE m - 1
<1>1. /\ DOMAIN s = 1 .. Len(s) /\ Len(s) \in Nat \ {0} /\ n \in Nat \ {0} /\ n <= Len(s)
      /\ \A k \in DOMAIN s : s[k] \in Chan
  OBVIOUS
<1>2. t = [m \in 1 .. Len(s) - 1 |-> IF m < n THEN s[m] ELSE s[m + 1]]
  BY DEF Without
<1>3. \A m \in 1 .. Len(s) - 1 : At(m) \in DOMAIN s /\ At(m) # n /\ t[m] = s[At(m)]
  BY <1>1, <1>2
<1>4. \A k, m \in 1 .. Len(s) - 1 : k < m => At(k) < At(m)
  BY <1>1
<1>5. \A k \in DOMAIN s : k # n => Back(k) \in 1 .. Len(s) - 1 /\ At(Back(k)) = k
  BY <1>1
<1>6. DOMAIN t = 1 .. Len(s) - 1
  BY <1>2
<1> HIDE DEF t, At, Back
<1>7. t \in Seq(Chan)
  <2>1. t \in [1 .. Len(s) - 1 -> Chan]
    BY <1>1, <1>2, <1>3, <1>6
  <2> QED BY <1>1, <2>1
<1>8. \A j \in DOMAIN s : j # n => s[j].id # s[n].id
  <2>1. \A j \in DOMAIN s : s[j].id[2] \in Nat /\ j \in Nat
    BY ChanElems
  <2> QED BY <2>1 DEF Ordered
<1>9. Ordered(t, q, p, b)
  <2>1. \A k \in DOMAIN t : Owner(t[k].id) = p /\ t[k].id[2] <= b
    BY <1>3, <1>6 DEF Ordered
  <2>2. \A k, m \in DOMAIN t : k < m => t[k].id[2] < t[m].id[2]
    BY <1>3, <1>4, <1>6 DEF Ordered
  <2>3. \A m \in DOMAIN t, k \in DOMAIN q : t[m].id[2] < q[k][2]
    BY <1>3, <1>6 DEF Ordered
  <2> QED BY <2>1, <2>2, <2>3 DEF Ordered
<1>10. \A k \in DOMAIN t : \E j \in DOMAIN s : j # n /\ s[j].id # s[n].id /\ t[k] = s[j]
  BY <1>3, <1>6, <1>8
<1>11. \A j \in DOMAIN s : j # n => \E k \in DOMAIN t : t[k] = s[j]
  BY <1>3, <1>5, <1>6
<1>12. \A id : HasId(t, id) <=> HasId(s, id) /\ id # s[n].id
  BY <1>10, <1>11 DEF HasId
<1>13. \A id : HasAck(t, id) <=> HasAck(s, id) /\ id # s[n].id
  BY <1>10, <1>11 DEF HasAck
<1> QED BY <1>7, <1>9, <1>10, <1>12, <1>13 DEF t

LEMMA Emptied ==
    ASSUME NEW p, NEW b
    PROVE  /\ Ordered(<<>>, <<>>, p, b) /\ <<>> \in Seq(Chan) /\ <<>> \in Seq(Ids)
           /\ \A id : ~HasId(<<>>, id) /\ ~HasAck(<<>>, id) /\ ~Waits(<<>>, id)
BY DEF Ordered, HasId, HasAck, Waits

LEMMA AckedHasId == \A s, id : HasAck(s, id) => HasId(s, id)
BY DEF HasAck, HasId

(* A process that is started has no connection yet                         *)
LEMMA NotYet ==
    ASSUME NEW s \in Seq(Chan), NEW q \in Seq(Ids), NEW p \in TlNodes, NEW b \in Nat,
           Ordered(s, q, p, b)
    PROVE  /\ Ordered(s, q, p, b + 1) /\ ~HasId(s, <<p, b + 1>>) /\ ~Waits(q, <<p, b + 1>>)
           /\ ~HasAck(s, <<p, b + 1>>)
<1>1. /\ \A k \in DOMAIN s : s[k].id[2] \in Nat
      /\ \A k \in DOMAIN q : q[k] \in Ids
  BY ChanElems
<1>2. \A k \in DOMAIN q : q[k][2] \in Nat
  BY <1>1 DEF Ids
<1>3. Ordered(s, q, p, b + 1)
  <2>1. \A x \in Nat : x <= b => x <= b + 1
    OBVIOUS
  <2>2. \A k \in DOMAIN s : Owner(s[k].id) = p /\ s[k].id[2] <= b + 1
    BY <1>1, <2>1 DEF Ordered
  <2>3. \A k \in DOMAIN q : Owner(q[k]) = p /\ q[k][2] <= b + 1
    BY <1>2, <2>1 DEF Ordered
  <2> QED BY <2>2, <2>3 DEF Ordered
<1>4. ~HasId(s, <<p, b + 1>>)
  BY <1>1 DEF Ordered, HasId
<1>5. ~Waits(q, <<p, b + 1>>)
  BY <1>2 DEF Ordered, Waits
<1> QED BY <1>3, <1>4, <1>5, AckedHasId

-----------------------------------------------------------------------------
LEMMA TlInitHolds == TlInit => TlIInv
<1> SUFFICES ASSUME TlInit PROVE TlIInv
  OBVIOUS
<1>1. \A i \in TlNodes : Peer(i) \in TlNodes
  BY Two
<1>2. TlTyped
  BY Emptied DEF TlInit, TlTyped
<1>3. \A i \in TlNodes : chans[i] = <<>> /\ pending[i] = <<>>
  BY DEF TlInit
<1>4. TlOrder /\ TlDown /\ TlOpenEnds
  BY <1>3, Emptied DEF TlOrder, TlDown, TlOpenEnds
<1>5. ASSUME NEW i \in TlNodes PROVE TlClient(i) /\ TlAcks(i)
  <2>1. /\ chans[Peer(i)] = <<>> /\ pending[Peer(i)] = <<>> /\ chans[i] = <<>>
        /\ cfd[i] = "closed" /\ cst[i] = "INIT" /\ up[i] = FALSE /\ known[i] = FALSE
        /\ syn = {} /\ ack = {}
    BY <1>1, <1>3 DEF TlInit
  <2>2. \A id : ~HasId(<<>>, id) /\ ~HasAck(<<>>, id) /\ ~Waits(<<>>, id)
    BY Emptied
  <2>3. TlClient(i)
    BY <2>1, <2>2 DEF TlClient, Linked, Told, Past
  <2>4. TlAcks(i)
    BY <2>1, <2>2 DEF TlAcks, Handled, Drained, OneCut, CutEarly, BothCut
  <2> QED BY <2>3, <2>4
<1> QED BY <1>2, <1>4, <1>5 DEF TlIInv

(* What the invariant says of two nodes                                    *)
LEMMA Both ==
    ASSUME TlIInv, NEW j \in TlNodes, NEW p, p = Peer(j)
    PROVE  /\ TlTyped /\ p \in TlNodes /\ p # j /\ Peer(p) = j /\ \A i \in TlNodes : i = j \/ i = p
           /\ Ordered(chans[j], pending[j], p, boots[p]) /\ Ordered(chans[p], pending[p], j, boots[j])
           /\ TlClient(j) /\ TlClient(p) /\ TlAcks(j) /\ TlAcks(p)
           /\ chans[j] \in Seq(Chan) /\ chans[p] \in Seq(Chan)
           /\ pending[j] \in Seq(Ids) /\ pending[p] \in Seq(Ids)
           /\ boots[j] \in Nat /\ boots[p] \in Nat
           /\ ~up[j] => chans[j] = <<>>
           /\ ~up[p] => chans[p] = <<>>
<1>1. p \in TlNodes /\ p # j /\ Peer(p) = j /\ \A i \in TlNodes : i = j \/ i = p
  BY Two
<1>2. TlTyped /\ TlOrder /\ TlDown /\ TlClient(j) /\ TlClient(p) /\ TlAcks(j) /\ TlAcks(p)
  BY <1>1 DEF TlIInv
<1>3. Ordered(chans[j], pending[j], p, boots[p]) /\ Ordered(chans[p], pending[p], j, boots[j])
  BY <1>1, <1>2 DEF TlOrder
<1> QED BY <1>1, <1>2, <1>3 DEF TlTyped, TlDown

(* The connection of an id of p that p's present process made is Id(p)     *)
LEMMA MineIs ==
    ASSUME TlTyped, NEW id \in Ids, Mine(id)
    PROVE  id = Id(Owner(id)) /\ up[Owner(id)]
BY DEF Mine, Ids, Owner, Id

LEMMA BootStep ==
    ASSUME TlIInv, NEW j \in TlNodes, Boot(j)
    PROVE  TlIInv'
<1> DEFINE p == Peer(j)
<1>1. /\ TlTyped /\ p \in TlNodes /\ p # j /\ Peer(p) = j /\ \A i \in TlNodes : i = j \/ i = p
      /\ Ordered(chans[j], pending[j], p, boots[p]) /\ Ordered(chans[p], pending[p], j, boots[j])
      /\ TlClient(j) /\ TlClient(p) /\ TlAcks(j) /\ TlAcks(p)
      /\ chans[j] \in Seq(Chan) /\ chans[p] \in Seq(Chan)
      /\ pending[j] \in Seq(Ids) /\ pending[p] \in Seq(Ids)
      /\ boots[j] \in Nat /\ boots[p] \in Nat
      /\ ~up[j] => chans[j] = <<>>
      /\ ~up[p] => chans[p] = <<>>
  BY Both
<1> HIDE DEF p
<1>2. /\ ~up[j] /\ boots' = [boots EXCEPT ![j] = @ + 1] /\ up' = [up EXCEPT ![j] = TRUE]
      /\ cfd' = [cfd EXCEPT ![j] = "fresh"] /\ cst' = [cst EXCEPT ![j] = "INIT"]
      /\ known' = [known EXCEPT ![j] = FALSE]
      /\ UNCHANGED <<pending, chans, syn, ack, crossed>>
  BY DEF Boot, ClientInit
<1>3. /\ boots'[j] = boots[j] + 1 /\ boots'[p] = boots[p] /\ up'[j] /\ (up'[p] <=> up[p])
      /\ cfd'[j] = "fresh" /\ cfd'[p] = cfd[p] /\ cst'[j] = "INIT" /\ cst'[p] = cst[p]
      /\ ~known'[j] /\ (known'[p] <=> known[p])
  BY <1>1, <1>2 DEF TlTyped
<1>4. TlTyped'
  <2>1. boots' \in [TlNodes -> Nat]
    BY <1>1, <1>2 DEF TlTyped
  <2>2. up' \in [TlNodes -> BOOLEAN] /\ known' \in [TlNodes -> BOOLEAN]
    BY <1>1, <1>2 DEF TlTyped
  <2>3. cfd' \in [TlNodes -> {"fresh", "open", "eof", "closed"}]
    BY <1>1, <1>2 DEF TlTyped
  <2>4. cst' \in [TlNodes -> {"INIT", "CONNECT", "RESPONSE", "CUT"}]
    BY <1>1, <1>2 DEF TlTyped
  <2> QED BY <1>1, <1>2, <2>1, <2>2, <2>3, <2>4 DEF TlTyped
<1>5. /\ Ordered(chans[p], pending[p], j, boots[j] + 1)
      /\ ~HasId(chans[p], <<j, boots[j] + 1>>) /\ ~HasAck(chans[p], <<j, boots[j] + 1>>)
      /\ ~Waits(pending[p], <<j, boots[j] + 1>>)
  BY <1>1, NotYet
<1>6. TlOrder' /\ TlDown'
  <2>1. TlOrder'
    <3>1. Ordered(chans'[j], pending'[j], Peer(j), boots'[Peer(j)])
      BY <1>1, <1>2, <1>3 DEF p
    <3>2. Ordered(chans'[p], pending'[p], Peer(p), boots'[Peer(p)])
      BY <1>1, <1>2, <1>3, <1>5
    <3> QED BY <1>1, <3>1, <3>2 DEF TlOrder
  <2>2. TlDown'
    BY <1>1, <1>2, <1>3 DEF TlDown, TlIInv
  <2> QED BY <2>1, <2>2
<1>7. TlOpenEnds'
  <2> SUFFICES ASSUME NEW i \in TlNodes, NEW k \in DOMAIN chans[i], chans[i][k].end = "open"
               PROVE  Mine(chans[i][k].id)'
    BY <1>2 DEF TlOpenEnds
  <2>1. Mine(chans[i][k].id) /\ Owner(chans[i][k].id) \in {j, p}
    BY <1>1 DEF TlIInv, TlOpenEnds, Ordered
  <2>2. Owner(chans[i][k].id) = p
    BY <1>2, <2>1 DEF Mine
  <2> QED BY <1>2, <1>3, <2>1, <2>2 DEF Mine, Owner
<1>8. TlClient(j)'
  <2>1. ASSUME NEW id \in syn \cup ack, Owner(id) = j
        PROVE  id # <<j, boots[j] + 1>> /\ id[2] <= boots[j] + 1
    <3>1. id \in Ids /\ id[2] <= boots[j]
      BY <1>1, <2>1 DEF TlClient, Past, TlTyped
    <3> QED BY <1>1, <3>1 DEF Ids
  <2>2. <<j, boots[j] + 1>> \notin syn \cup ack
    BY <2>1 DEF Owner
  <2>3. Linked(j)'
    <3> DEFINE id == <<j, boots[j] + 1>>
    <3>1. id \notin syn' /\ id \notin ack' /\ ~HasId(chans'[Peer(j)], id)
          /\ ~Waits(pending'[Peer(j)], id)
      BY <1>2, <1>5, <2>2 DEF p
    <3>2. <<j, boots'[j]>> = id
      BY <1>3
    <3> HIDE DEF id
    <3> QED BY <1>3, <3>1, <3>2 DEF Linked, Id
  <2>4. Told(j)'
    <3> DEFINE id == <<j, boots[j] + 1>>
    <3>1. id \notin syn' /\ id \notin ack' /\ ~HasAck(chans'[Peer(j)], id)
          /\ ~HasId(chans'[Peer(j)], id) /\ ~Waits(pending'[Peer(j)], id)
      BY <1>2, <1>5, <2>2 DEF p
    <3>2. <<j, boots'[j]>> = id
      BY <1>3
    <3> HIDE DEF id
    <3> QED BY <3>1, <3>2 DEF Told, Id
  <2>5. Past(j)'
    BY <1>1, <1>2, <1>3, <2>1 DEF Past
  <2> QED BY <2>3, <2>4, <2>5 DEF TlClient
<1>9. TlClient(p)'
  BY <1>1, <1>2, <1>3 DEF TlClient, Linked, Told, Past, Id
<1>10. TlAcks(j)'
  BY <1>1, <1>2, <1>3, <1>5 DEF TlAcks, Handled, Drained, OneCut, CutEarly, BothCut, Id, p
<1>11. TlAcks(p)'
  <2>1. Handled(p)' /\ CutEarly(p)'
    BY <1>1, <1>2, <1>3 DEF TlAcks, Handled, CutEarly, Id
  <2>2. Drained(p)'
    BY <1>1, <1>2, <1>3 DEF TlAcks, Drained, Id
  <2>3. OneCut(p)' /\ BothCut(p)'
    BY <1>1, <1>2, <1>3, <1>5 DEF TlAcks, OneCut, BothCut, Id
  <2> QED BY <2>1, <2>2, <2>3 DEF TlAcks
<1> QED BY <1>1, <1>4, <1>6, <1>7, <1>8, <1>9, <1>10, <1>11 DEF TlIInv

LEMMA KillStep ==
    ASSUME TlIInv, NEW j \in TlNodes, Kill(j)
    PROVE  TlIInv'
<1> DEFINE p == Peer(j)
<1>1. /\ TlTyped /\ p \in TlNodes /\ p # j /\ Peer(p) = j /\ \A i \in TlNodes : i = j \/ i = p
      /\ Ordered(chans[j], pending[j], p, boots[p]) /\ Ordered(chans[p], pending[p], j, boots[j])
      /\ TlClient(j) /\ TlClient(p) /\ TlAcks(j) /\ TlAcks(p)
      /\ chans[j] \in Seq(Chan) /\ chans[p] \in Seq(Chan)
      /\ pending[j] \in Seq(Ids) /\ pending[p] \in Seq(Ids)
      /\ boots[j] \in Nat /\ boots[p] \in Nat
      /\ ~up[j] => chans[j] = <<>>
      /\ ~up[p] => chans[p] = <<>>
  BY Both
<1> HIDE DEF p
<1>2. /\ up[j] /\ up' = [up EXCEPT ![j] = FALSE]
      /\ cfd' = [cfd EXCEPT ![j] = "closed", ![p] = Eof(p)]
      /\ pending' = [pending EXCEPT ![j] = <<>>]
      /\ chans' = [chans EXCEPT ![j] = <<>>, ![p] = Ended(@, Id(j))]
      /\ syn' = syn \ {Id(j)} /\ ack' = {id \in ack : Owner(id) = j} /\ crossed' = FALSE
      /\ UNCHANGED <<boots, cst, known>>
  BY DEF Kill, p
<1>3. /\ ~up'[j] /\ (up'[p] <=> up[p]) /\ cfd'[j] = "closed" /\ cfd'[p] = Eof(p)
      /\ pending'[j] = <<>> /\ pending'[p] = pending[p]
      /\ chans'[j] = <<>> /\ chans'[p] = Ended(chans[p], Id(j))
  BY <1>1, <1>2 DEF TlTyped
<1>4. /\ chans'[p] \in Seq(Chan) /\ DOMAIN chans'[p] = DOMAIN chans[p]
      /\ \A k \in DOMAIN chans[p] :
            /\ chans'[p][k].id = chans[p][k].id
            /\ chans'[p][k].acked = chans[p][k].acked
            /\ chans'[p][k].end = IF chans[p][k].id = Id(j) THEN "eof" ELSE chans[p][k].end
  BY <1>1, <1>3, EndedIs
<1>5. /\ \A id : HasId(chans'[p], id) <=> HasId(chans[p], id)
      /\ \A id : HasAck(chans'[p], id) <=> HasAck(chans[p], id)
      /\ Ordered(chans'[p], pending[p], j, boots[j])
  <2>1. \A id : HasAck(chans'[p], id) <=> HasAck(chans[p], id)
    BY <1>4 DEF HasAck
  <2> QED BY <1>1, <1>4, <2>1, SameIds
<1>6. /\ \A id : ~HasId(chans'[j], id) /\ ~HasAck(chans'[j], id) /\ ~Waits(pending'[j], id)
      /\ Ordered(chans'[j], pending'[j], p, boots[p])
      /\ chans'[j] \in Seq(Chan) /\ pending'[j] \in Seq(Ids)
  BY <1>3, Emptied
<1>7. TlTyped'
  <2>1. chans' \in [TlNodes -> Seq(Chan)] /\ pending' \in [TlNodes -> Seq(Ids)]
    BY <1>1, <1>2, <1>3, <1>4, <1>6 DEF TlTyped
  <2>2. up' \in [TlNodes -> BOOLEAN]
    BY <1>1, <1>2 DEF TlTyped
  <2>3. cfd' \in [TlNodes -> {"fresh", "open", "eof", "closed"}]
    BY <1>1, <1>2 DEF TlTyped, Eof
  <2>4. syn' \subseteq Ids /\ ack' \subseteq Ids
    BY <1>1, <1>2 DEF TlTyped
  <2> QED BY <1>1, <1>2, <2>1, <2>2, <2>3, <2>4 DEF TlTyped
<1>8. TlOrder' /\ TlDown'
  <2>1. Ordered(chans'[j], pending'[j], Peer(j), boots'[Peer(j)])
    BY <1>2, <1>6 DEF p
  <2>2. Ordered(chans'[p], pending'[p], Peer(p), boots'[Peer(p)])
    BY <1>1, <1>2, <1>3, <1>5
  <2>3. TlOrder'
    BY <1>1, <2>1, <2>2 DEF TlOrder
  <2>4. ~up'[p] => chans'[p] = <<>>
    BY <1>1, <1>3, <1>4
  <2>5. TlDown'
    BY <1>1, <1>3, <2>4 DEF TlDown
  <2> QED BY <2>3, <2>5
<1>9. TlOpenEnds'
  <2>1. ASSUME NEW k \in DOMAIN chans'[p], chans'[p][k].end = "open" PROVE FALSE
    <3> DEFINE id == chans[p][k].id
    <3>1. k \in DOMAIN chans[p] /\ chans[p][k].end = "open" /\ id # Id(j)
      BY <1>4, <2>1
    <3>2. Mine(id) /\ Owner(id) = j /\ id \in Ids
      BY <1>1, <3>1, ChanElems DEF TlIInv, TlOpenEnds, Ordered
    <3> HIDE DEF id
    <3> QED BY <1>1, <3>1, <3>2, MineIs
  <2>2. DOMAIN chans'[j] = {}
    BY <1>3
  <2> QED BY <1>1, <2>1, <2>2 DEF TlOpenEnds
<1>10. TlClient(j)'
  <2>1. Linked(j)'
    BY <1>1, <1>2, <1>3 DEF TlClient, Linked
  <2>2. Told(j)'
    BY <1>2, <1>3, <1>5, <1>1 DEF TlClient, Told, Id, p
  <2>3. Past(j)'
    BY <1>1, <1>2 DEF TlClient, Past
  <2> QED BY <2>1, <2>2, <2>3 DEF TlClient
<1>11. TlClient(p)'
  <2>1. Linked(p)'
    <3>1. cfd'[p] = IF cfd[p] = "open" THEN "eof" ELSE cfd[p]
      BY <1>3 DEF Eof
    <3>2. Linked(p)
      BY <1>1 DEF TlClient
    <3>3. cfd'[p] # "open" /\ Peer(p) = j /\ Id(p)' = Id(p)
      BY <1>1, <1>2, <3>1 DEF Id
    <3>4. /\ cfd'[p] = "fresh" => ~known'[p] /\ Id(p) \notin syn' /\ Id(p) \notin ack'
          /\ up'[p] /\ cfd'[p] = "closed" => cst'[p] = "CUT"
      BY <1>1, <1>2, <1>3, <3>1, <3>2 DEF Linked
    <3>5. cst'[p] = "CUT" => known'[p] /\ cfd'[p] = "closed"
      BY <1>2, <3>1, <3>2 DEF Linked
    <3>6. ~HasId(chans'[Peer(p)], Id(p)') /\ ~Waits(pending'[Peer(p)], Id(p)')
      BY <1>6, <3>3
    <3> QED BY <3>3, <3>4, <3>5, <3>6, Zenon DEF Linked
  <2>2. Told(p)'
    <3>1. Id(p) \notin ack'
      BY <1>1, <1>2 DEF Id, Owner
    <3> QED BY <1>1, <1>2, <1>6, <3>1 DEF TlClient, Told, Id
  <2>3. Past(p)'
    BY <1>1, <1>2 DEF TlClient, Past
  <2> QED BY <2>1, <2>2, <2>3 DEF TlClient
<1>12. TlAcks(j)'
  <2>1. Id(j) \in ack' <=> Id(j) \in ack
    BY <1>2 DEF Id, Owner
  <2>2. Handled(j)'
    BY <1>1, <1>2, <1>5, <2>1 DEF TlAcks, Handled, Id, p
  <2>3. Drained(j)'
    <3>1. HasAck(chans'[p], Id(j)) => HasAck(chans[p], Id(j))
      BY <1>5
    <3>2. HasAck(chans[p], Id(j)) => \A n \in DOMAIN chans[p] : chans[p][n].id \notin ack
      BY <1>1 DEF TlAcks, Drained, p
    <3>3. HasAck(chans'[p], Id(j)) => \A n \in DOMAIN chans'[p] : chans'[p][n].id \notin ack'
      <4>1. \A id : id \in ack' => id \in ack
        BY <1>2
      <4>2. \A n \in DOMAIN chans'[p] : n \in DOMAIN chans[p] /\ chans'[p][n].id = chans[p][n].id
        BY <1>4
      <4> QED BY <3>1, <3>2, <4>1, <4>2
    <3>4. Id(j)' = Id(j)
      BY <1>2 DEF Id
    <3> QED BY <3>3, <3>4 DEF Drained, p
  <2>4. OneCut(j)' /\ CutEarly(j)' /\ BothCut(j)'
    BY <1>1, <1>3, <1>6 DEF OneCut, CutEarly, BothCut, Id
  <2> QED BY <2>2, <2>3, <2>4 DEF TlAcks
<1>13. TlAcks(p)'
  BY <1>1, <1>6 DEF TlAcks, Handled, Drained, OneCut, CutEarly, BothCut
<1> QED BY <1>1, <1>7, <1>8, <1>9, <1>10, <1>11, <1>12, <1>13 DEF TlIInv

LEMMA ConnectStep ==
    ASSUME TlIInv, NEW j \in TlNodes, LinkConnect(j)
    PROVE  TlIInv'
<1> DEFINE p == Peer(j)
<1>1. /\ TlTyped /\ p \in TlNodes /\ p # j /\ Peer(p) = j /\ \A i \in TlNodes : i = j \/ i = p
      /\ Ordered(chans[j], pending[j], p, boots[p]) /\ Ordered(chans[p], pending[p], j, boots[j])
      /\ TlClient(j) /\ TlClient(p) /\ TlAcks(j) /\ TlAcks(p)
      /\ chans[j] \in Seq(Chan) /\ chans[p] \in Seq(Chan)
      /\ pending[j] \in Seq(Ids) /\ pending[p] \in Seq(Ids)
      /\ boots[j] \in Nat /\ boots[p] \in Nat
      /\ ~up[j] => chans[j] = <<>>
      /\ ~up[p] => chans[p] = <<>>
  BY Both
<1> HIDE DEF p
<1>2. /\ up[j] /\ j \in TlClients /\ cst[j] # "CUT" /\ cfd[j] = "fresh" /\ up[p]
      /\ cfd' = [cfd EXCEPT ![j] = "open"] /\ cst' = [cst EXCEPT ![j] = "CONNECT"]
      /\ pending' = [pending EXCEPT ![p] = Append(@, Id(j))]
      /\ UNCHANGED <<boots, up, known, chans, syn, ack, crossed>>
  BY DEF LinkConnect, Connected, p
<1>3. /\ cfd'[j] = "open" /\ cfd'[p] = cfd[p] /\ cst'[j] = "CONNECT" /\ cst'[p] = cst[p]
      /\ pending'[j] = pending[j] /\ pending'[p] = Append(pending[p], Id(j))
  BY <1>1, <1>2 DEF TlTyped
<1>4. ~HasId(chans[p], Id(j)) /\ ~Waits(pending[p], Id(j)) /\ Id(j) = <<j, boots[j]>>
  BY <1>1, <1>2 DEF TlClient, Linked, Id, p
<1>5. /\ Ordered(chans[p], pending'[p], j, boots[j]) /\ pending'[p] \in Seq(Ids)
      /\ \A id : Waits(pending'[p], id) <=> Waits(pending[p], id) \/ id = Id(j)
  <2>1. ~HasId(chans[p], <<j, boots[j]>>) /\ ~Waits(pending[p], <<j, boots[j]>>)
    BY <1>4
  <2>2. pending'[p] = Append(pending[p], <<j, boots[j]>>)
    BY <1>3, <1>4
  <2>3. /\ Ordered(chans[p], Append(pending[p], <<j, boots[j]>>), j, boots[j])
        /\ Append(pending[p], <<j, boots[j]>>) \in Seq(Ids)
        /\ \A id : Waits(Append(pending[p], <<j, boots[j]>>), id) <=>
                     Waits(pending[p], id) \/ id = <<j, boots[j]>>
    <3>1. chans[p] \in Seq(Chan) /\ pending[p] \in Seq(Ids) /\ boots[j] \in Nat
          /\ Ordered(chans[p], pending[p], j, boots[j])
      BY <1>1
    <3> QED BY <2>1, <3>1, AppendPending, Zenon
  <2> QED BY <1>4, <2>2, <2>3
<1>6. ~HasAck(chans[p], Id(j))
  BY <1>4, AckedHasId
<1>7. TlTyped'
  <2>1. pending' \in [TlNodes -> Seq(Ids)]
    BY <1>1, <1>2, <1>3, <1>5 DEF TlTyped
  <2>2. cfd' \in [TlNodes -> {"fresh", "open", "eof", "closed"}]
    BY <1>1, <1>2 DEF TlTyped
  <2>3. cst' \in [TlNodes -> {"INIT", "CONNECT", "RESPONSE", "CUT"}]
    BY <1>1, <1>2 DEF TlTyped
  <2> QED BY <1>1, <1>2, <2>1, <2>2, <2>3 DEF TlTyped
<1>8. TlOrder' /\ TlDown'
  <2>1. Ordered(chans'[j], pending'[j], Peer(j), boots'[Peer(j)])
    BY <1>1, <1>2, <1>3 DEF p
  <2>2. Ordered(chans'[p], pending'[p], Peer(p), boots'[Peer(p)])
    BY <1>1, <1>2, <1>5
  <2>3. TlOrder'
    BY <1>1, <2>1, <2>2 DEF TlOrder
  <2> QED BY <1>2, <2>3 DEF TlIInv, TlDown
<1>9. TlOpenEnds'
  <2> SUFFICES ASSUME NEW i \in TlNodes, NEW k \in DOMAIN chans[i], chans[i][k].end = "open"
               PROVE  Mine(chans[i][k].id)'
    BY <1>2 DEF TlOpenEnds
  <2>1. Mine(chans[i][k].id) /\ Owner(chans[i][k].id) \in {j, p}
    BY <1>1 DEF TlIInv, TlOpenEnds, Ordered
  <2> QED BY <1>2, <1>3, <2>1 DEF Mine, Owner
<1>10. TlClient(j)'
  <2>1. Linked(j)'
    BY <1>1, <1>2, <1>3, <1>5 DEF TlClient, Linked, Id, p
  <2>2. ~known[j] /\ Id(j) \notin syn /\ Id(j) \notin ack
    BY <1>1, <1>2 DEF TlClient, Linked
  <2>3. Told(j)'
    BY <1>1, <1>2, <1>4, <1>6, <2>2 DEF Told, Id, p
  <2>4. Past(j)'
    BY <1>1, <1>2 DEF TlClient, Past
  <2> QED BY <2>1, <2>3, <2>4 DEF TlClient
<1>11. TlClient(p)'
  BY <1>1, <1>2, <1>3 DEF TlClient, Linked, Told, Past, Id
<1>12. TlAcks(j)'
  BY <1>1, <1>2, <1>3, <1>4, <1>6 DEF TlAcks, Handled, Drained, OneCut, CutEarly, BothCut, Id, p
<1>13. TlAcks(p)'
  BY <1>1, <1>2, <1>3, <1>4, <1>6 DEF TlAcks, Handled, Drained, OneCut, CutEarly, BothCut, Id
<1> QED BY <1>1, <1>7, <1>8, <1>9, <1>10, <1>11, <1>12, <1>13 DEF TlIInv

(* A connection is accepted after all those of earlier processes: the      *)
(* client of the channel was not told of it yet.                           *)
LEMMA AcceptStep ==
    ASSUME TlIInv, NEW j \in TlNodes, LinkAccept(j)
    PROVE  TlIInv'
<1> DEFINE p == Peer(j)
<1>1. /\ TlTyped /\ p \in TlNodes /\ p # j /\ Peer(p) = j /\ \A i \in TlNodes : i = j \/ i = p
      /\ Ordered(chans[j], pending[j], p, boots[p]) /\ Ordered(chans[p], pending[p], j, boots[j])
      /\ TlClient(j) /\ TlClient(p) /\ TlAcks(j) /\ TlAcks(p)
      /\ chans[j] \in Seq(Chan) /\ chans[p] \in Seq(Chan)
      /\ pending[j] \in Seq(Ids) /\ pending[p] \in Seq(Ids)
      /\ boots[j] \in Nat /\ boots[p] \in Nat
      /\ ~up[j] => chans[j] = <<>>
      /\ ~up[p] => chans[p] = <<>>
  BY Both
<1> HIDE DEF p
<1> DEFINE id == Head(pending[j])
           me == Id(p)
<1>2. /\ up[j] /\ pending[j] # <<>> /\ pending' = [pending EXCEPT ![j] = Tail(@)]
      /\ \/ /\ Mine(id) /\ chans' = [chans EXCEPT ![j] = Append(@, Channel(id))]
            /\ syn' = syn \cup {id}
         \/ /\ ~Mine(id) /\ chans' = [chans EXCEPT ![j] = Append(@, Channel(id))] /\ syn' = syn
         \/ /\ ~Mine(id) /\ chans' = chans /\ syn' = syn
      /\ UNCHANGED <<boots, up, cfd, cst, known, ack, crossed>>
  BY DEF LinkAccept
<1>3. /\ Ordered(chans[j], Tail(pending[j]), p, boots[p]) /\ Tail(pending[j]) \in Seq(Ids)
      /\ ~HasId(chans[j], id) /\ \A x : Waits(Tail(pending[j]), x) <=> Waits(pending[j], x) /\ x # id
      /\ Waits(pending[j], id) /\ id \in Ids /\ Owner(id) = p /\ id[2] <= boots[p]
      /\ ~HasId(chans[j], me)
  <2>1. me = <<p, boots[p]>>
    BY DEF Id
  <2>2. id # <<p, boots[p]>> => ~HasId(chans[j], <<p, boots[p]>>)
    BY <1>1, <1>2, DropHead
  <2>3. /\ Ordered(chans[j], Tail(pending[j]), p, boots[p]) /\ Tail(pending[j]) \in Seq(Ids)
        /\ ~HasId(chans[j], id)
        /\ \A x : Waits(Tail(pending[j]), x) <=> Waits(pending[j], x) /\ x # id
        /\ Waits(pending[j], id) /\ id \in Ids /\ Owner(id) = p /\ id[2] <= boots[p]
    BY <1>1, <1>2, DropHead
  <2> HIDE DEF me, id
  <2>4. ~HasId(chans[j], me)
    BY <2>1, <2>2, <2>3
  <2> QED BY <2>3, <2>4
<1>4. Channel(id) \in Chan /\ Channel(id).id = id /\ ~Channel(id).acked
      /\ (Channel(id).end = "open" => Mine(id))
  BY <1>3 DEF Channel, Chan
<1> HIDE DEF id
<1>5. /\ Ordered(Append(chans[j], Channel(id)), Tail(pending[j]), p, boots[p])
      /\ Append(chans[j], Channel(id)) \in Seq(Chan)
      /\ \A x : HasId(Append(chans[j], Channel(id)), x) <=> HasId(chans[j], x) \/ x = id
      /\ \A x : HasAck(Append(chans[j], Channel(id)), x) <=> HasAck(chans[j], x)
      /\ \A k \in DOMAIN Append(chans[j], Channel(id)) :
            Append(chans[j], Channel(id))[k] = IF k = Len(chans[j]) + 1 THEN Channel(id) ELSE chans[j][k]
      /\ \A k \in DOMAIN Append(chans[j], Channel(id)) : k = Len(chans[j]) + 1 \/ k \in DOMAIN chans[j]
  <2>1. \A k \in DOMAIN Append(chans[j], Channel(id)) : k = Len(chans[j]) + 1 \/ k \in DOMAIN chans[j]
    BY <1>1, <1>4
  <2>2. Channel(id).id = Head(pending[j])
    BY <1>4 DEF id
  <2> QED BY <1>1, <1>2, <1>4, <2>1, <2>2, AcceptHead DEF id
<1>6. /\ pending'[j] = Tail(pending[j]) /\ pending'[p] = pending[p] /\ chans'[p] = chans[p]
      /\ (chans'[j] = chans[j] /\ ~Mine(id)) \/ chans'[j] = Append(chans[j], Channel(id))
      /\ Mine(id) => chans'[j] = Append(chans[j], Channel(id))
      /\ \A x : x \in syn' <=> x \in syn \/ (x = id /\ Mine(id))
  BY <1>1, <1>2 DEF TlTyped, id
<1>7. me = id => Waits(pending[j], me) /\ ~known[p] /\ cst[p] # "CUT" /\ me \notin syn /\ p \in TlClients
  BY <1>1, <1>3 DEF TlClient, Linked, Told
<1>8. /\ HasId(chans'[j], me) => me = id
      /\ ~HasAck(chans'[j], me)
      /\ Mine(id) /\ me = id => HasId(chans'[j], me)
      /\ chans'[j] \in Seq(Chan) /\ Ordered(chans'[j], pending'[j], p, boots[p])
  BY <1>3, <1>5, <1>6, AckedHasId, <1>1
<1>9. TlTyped'
  <2>1. chans' \in [TlNodes -> Seq(Chan)]
    <3>1. chans' = [chans EXCEPT ![j] = chans'[j]]
      BY <1>1, <1>2 DEF TlTyped
    <3> QED BY <1>1, <1>8, <3>1 DEF TlTyped
  <2>2. pending' \in [TlNodes -> Seq(Ids)]
    BY <1>1, <1>2, <1>3 DEF TlTyped
  <2>3. syn' \subseteq Ids
    BY <1>1, <1>3, <1>6 DEF TlTyped
  <2> QED BY <1>1, <1>2, <2>1, <2>2, <2>3 DEF TlTyped
<1>10. TlOrder' /\ TlDown'
  <2>1. Ordered(chans'[j], pending'[j], Peer(j), boots'[Peer(j)])
    BY <1>2, <1>8 DEF p
  <2>2. Ordered(chans'[p], pending'[p], Peer(p), boots'[Peer(p)])
    BY <1>1, <1>2, <1>6
  <2>3. TlOrder'
    BY <1>1, <2>1, <2>2 DEF TlOrder
  <2> QED BY <1>1, <1>2, <1>6, <2>3 DEF TlDown
<1>11. TlOpenEnds'
  <2>1. \A x : Mine(x)' <=> Mine(x)
    BY <1>2 DEF Mine
  <2>2. ASSUME NEW k \in DOMAIN chans'[j], chans'[j][k].end = "open" PROVE Mine(chans'[j][k].id)
    <3>1. CASE chans'[j] = chans[j]
      BY <1>1, <2>2, <3>1 DEF TlIInv, TlOpenEnds
    <3>2. CASE chans'[j] = Append(chans[j], Channel(id)) /\ k = Len(chans[j]) + 1
      BY <1>4, <1>5, <2>2, <3>2
    <3>3. CASE chans'[j] = Append(chans[j], Channel(id)) /\ k # Len(chans[j]) + 1
      <4>1. k \in DOMAIN chans[j] /\ chans'[j][k] = chans[j][k]
        BY <1>5, <2>2, <3>3
      <4> QED BY <2>2, <4>1 DEF TlIInv, TlOpenEnds
    <3> QED BY <1>6, <3>1, <3>2, <3>3
  <2>3. \A k \in DOMAIN chans'[p] : chans'[p][k].end = "open" => Mine(chans'[p][k].id)
    BY <1>1, <1>6 DEF TlIInv, TlOpenEnds
  <2> QED BY <1>1, <2>1, <2>2, <2>3 DEF TlOpenEnds
<1>12. TlClient(j)'
  <2>1. Id(j) # id
    BY <1>1, <1>3 DEF Id, Owner
  <2>2. Linked(j)' /\ Told(j)'
    BY <1>1, <1>2, <1>6, <2>1 DEF TlClient, Linked, Told, Id, p
  <2>3. Past(j)'
    BY <1>1, <1>2, <1>3, <1>6 DEF TlClient, Past
  <2> QED BY <2>2, <2>3 DEF TlClient
<1>13. TlClient(p)'
  <2> HIDE DEF me
  <2>0. Id(p) = me /\ Id(p)' = me
    BY <1>2 DEF Id, me
  <2>1. /\ cfd[p] = "open" => up[p] /\ (HasId(chans[j], me) \/ Waits(pending[j], me))
        /\ cfd[p] \in {"fresh", "eof"} => ~HasId(chans[j], me) /\ ~Waits(pending[j], me)
        /\ cfd[p] = "fresh" => ~known[p] /\ me \notin syn /\ me \notin ack
        /\ up[p] /\ cfd[p] = "closed" => cst[p] = "CUT"
        /\ cst[p] = "CUT" => known[p] /\ cfd[p] = "closed"
    BY <1>1, <2>0 DEF TlClient, Linked
  <2>2. me = id /\ cfd[p] = "open" => Mine(id)
    BY <1>3, <2>1, <2>0 DEF Mine, Id
  <2>3. Linked(p)'
    <3>1. cfd[p] = "open" => up[p] /\ (HasId(chans'[j], me) \/ Waits(pending'[j], me))
      BY <1>3, <1>6, <1>8, <2>1, <2>2
    <3>2. cfd[p] \in {"fresh", "eof"} => ~HasId(chans'[j], me) /\ ~Waits(pending'[j], me)
      BY <1>3, <1>6, <1>8, <2>1
    <3>3. cfd[p] = "fresh" => ~known[p] /\ me \notin syn' /\ me \notin ack
      BY <1>3, <1>6, <2>1
    <3> QED BY <1>1, <1>2, <2>0, <2>1, <3>1, <3>2, <3>3, Zenon DEF Linked
  <2>4. Told(p)'
    <3>1. me \in syn' => ~known[p]
      BY <1>1, <1>6, <1>7, <2>0 DEF TlClient, Told
    <3>2. Waits(pending'[j], me) => ~known[p] /\ me \notin syn' /\ p \in TlClients
      BY <1>1, <1>3, <1>6, <2>0 DEF TlClient, Told
    <3>3. HasId(chans'[j], me) => p \in TlClients
      BY <1>7, <1>8
    <3>4. HasAck(chans'[j], me) \/ me \in ack => known[p]
      BY <1>1, <1>8, <2>0 DEF TlClient, Told
    <3> QED BY <1>1, <1>2, <2>0, <3>1, <3>2, <3>3, <3>4, Zenon DEF Told
  <2>5. Past(p)'
    BY <1>1, <1>2, <1>3, <1>6 DEF TlClient, Past
  <2> QED BY <2>3, <2>4, <2>5 DEF TlClient
<1>14. /\ Id(p)' = me /\ Id(j)' = Id(j)
       /\ HasId(chans'[j], me) => ~known[p] /\ cst[p] # "CUT"
  BY <1>2, <1>7, <1>8 DEF Id
<1>15. TlAcks(j)'
  <2> HIDE DEF me
  <2>1. Handled(j)' /\ Drained(j)' /\ CutEarly(j)'
    BY <1>1, <1>2, <1>6, <1>14 DEF TlAcks, Handled, Drained, CutEarly, p
  <2>2. OneCut(j)' /\ BothCut(j)'
    BY <1>1, <1>2, <1>8, <1>14 DEF OneCut, BothCut, p
  <2> QED BY <2>1, <2>2 DEF TlAcks
<1>16. TlAcks(p)'
  <2> HIDE DEF me
  <2> QED BY <1>1, <1>2, <1>8, <1>14 DEF TlAcks, Handled, Drained, OneCut, CutEarly, BothCut
<1> QED BY <1>1, <1>9, <1>10, <1>11, <1>12, <1>13, <1>15, <1>16 DEF TlIInv

LEMMA ReadSynStep ==
    ASSUME TlIInv, NEW j \in TlNodes, ReadSyn(j)
    PROVE  TlIInv'
<1> DEFINE p == Peer(j)
<1>1. /\ TlTyped /\ p \in TlNodes /\ p # j /\ Peer(p) = j /\ \A i \in TlNodes : i = j \/ i = p
      /\ Ordered(chans[j], pending[j], p, boots[p]) /\ Ordered(chans[p], pending[p], j, boots[j])
      /\ TlClient(j) /\ TlClient(p) /\ TlAcks(j) /\ TlAcks(p)
      /\ chans[j] \in Seq(Chan) /\ chans[p] \in Seq(Chan)
      /\ pending[j] \in Seq(Ids) /\ pending[p] \in Seq(Ids)
      /\ boots[j] \in Nat /\ boots[p] \in Nat
      /\ ~up[j] => chans[j] = <<>>
      /\ ~up[p] => chans[p] = <<>>
  BY Both
<1> HIDE DEF p
<1>2. /\ up[j] /\ cfd[j] \in {"open", "eof"} /\ Id(j) \in syn
      /\ syn' = syn \ {Id(j)} /\ known' = [known EXCEPT ![j] = TRUE]
      /\ cst' = [cst EXCEPT ![j] = "RESPONSE"]
      /\ ack' = IF cfd[j] = "open" THEN ack \cup {Id(j)} ELSE ack
      /\ UNCHANGED <<boots, up, cfd, pending, chans, crossed>>
  BY DEF ReadSyn
<1>3. /\ known'[j] /\ (known'[p] <=> known[p]) /\ cst'[j] = "RESPONSE" /\ cst'[p] = cst[p]
      /\ Id(j)' = Id(j) /\ Id(p)' = Id(p) /\ Id(j) \notin syn'
      /\ \A x : Owner(x) = p => (x \in syn' <=> x \in syn) /\ (x \in ack' <=> x \in ack)
      /\ Owner(Id(p)) = p /\ Owner(Id(j)) = j /\ Id(j)[2] = boots[j]
  BY <1>1, <1>2 DEF TlTyped, Id, Owner
<1>4. /\ ~known[j] /\ ~Waits(pending[p], Id(j)) /\ ~HasAck(chans[p], Id(j)) /\ Id(j) \notin ack
      /\ cfd[j] = "eof" => ~HasId(chans[p], Id(j))
  BY <1>1, <1>2 DEF TlClient, Linked, Told, p
<1>5. TlTyped'
  <2>1. Id(j) \in Ids
    BY <1>1 DEF Id, Ids
  <2>2. known' \in [TlNodes -> BOOLEAN]
    BY <1>1, <1>2 DEF TlTyped
  <2>3. cst' \in [TlNodes -> {"INIT", "CONNECT", "RESPONSE", "CUT"}]
    BY <1>1, <1>2 DEF TlTyped
  <2>4. syn' \subseteq Ids /\ ack' \subseteq Ids
    BY <1>1, <1>2, <2>1 DEF TlTyped
  <2> QED BY <1>1, <1>2, <2>2, <2>3, <2>4 DEF TlTyped
<1>6. TlOrder' /\ TlDown' /\ TlOpenEnds'
  BY <1>2 DEF TlIInv, TlOrder, TlDown, TlOpenEnds, Mine
<1>7. TlClient(j)'
  <2>1. Linked(j)'
    BY <1>1, <1>2, <1>3 DEF TlClient, Linked, p
  <2>2. Told(j)'
    BY <1>1, <1>2, <1>3, <1>4 DEF TlClient, Told, p
  <2>3. Past(j)'
    BY <1>1, <1>2, <1>3 DEF TlClient, Past
  <2> QED BY <2>1, <2>2, <2>3 DEF TlClient
<1>8. TlClient(p)'
  <2>1. Linked(p)' /\ Told(p)'
    BY <1>1, <1>2, <1>3 DEF TlClient, Linked, Told
  <2>2. Past(p)'
    BY <1>1, <1>2, <1>3 DEF TlClient, Past
  <2> QED BY <2>1, <2>2 DEF TlClient
<1>9. TlAcks(j)'
  BY <1>1, <1>2, <1>3, <1>4 DEF TlAcks, Handled, Drained, OneCut, CutEarly, BothCut, p
<1>10. TlAcks(p)'
  <2>1. Handled(p)' /\ CutEarly(p)' /\ OneCut(p)' /\ BothCut(p)'
    BY <1>1, <1>2, <1>3, <1>4 DEF TlAcks, Handled, OneCut, CutEarly, BothCut
  <2>2. Drained(p)'
    <3>1. \A n \in DOMAIN chans[j] : Owner(chans[j][n].id) = p
      BY <1>1 DEF Ordered
    <3> QED BY <1>1, <1>2, <1>3, <3>1 DEF TlAcks, Drained
  <2> QED BY <2>1, <2>2 DEF TlAcks
<1> QED BY <1>1, <1>5, <1>6, <1>7, <1>8, <1>9, <1>10 DEF TlIInv

(* What an answer handled at the k-th of the channels s leaves: of their   *)
(* connections only an older, answered one may be gone.                    *)
AckLeaves(s, k, u) ==
    \/ u = Acked(s, s[k].id)
    \/ \E n \in DOMAIN s : n # k /\ s[n].acked /\ u = Without(Acked(s, s[k].id), n)

(* Every channel of u is one of s, with its end                            *)
From(u, s) == \A m \in DOMAIN u : \E n \in DOMAIN s : u[m].id = s[n].id /\ u[m].end = s[n].end

LEMMA AckedChannels ==
    ASSUME NEW s \in Seq(Chan), NEW q, NEW p, NEW b, Ordered(s, q, p, b),
           NEW me, ~HasAck(s, me), NEW k \in DOMAIN s, NEW id, id = s[k].id,
           NEW u, AckLeaves(s, k, u)
    PROVE  /\ u \in Seq(Chan) /\ Ordered(u, q, p, b)
           /\ HasId(u, me) <=> HasId(s, me)
           /\ HasAck(u, me) <=> id = me
           /\ From(u, s)
<1> DEFINE t == Acked(s, id)
<1>1. /\ t \in Seq(Chan) /\ DOMAIN t = DOMAIN s
      /\ \A m \in DOMAIN s : /\ t[m].id = s[m].id
                             /\ t[m].acked <=> (s[m].acked \/ s[m].id = id)
                             /\ t[m].end = s[m].end
  BY AckedIs
<1> HIDE DEF t
<1>2. Ordered(t, q, p, b) /\ \A x : HasId(t, x) <=> HasId(s, x)
  BY <1>1, SameIds
<1>3. HasAck(t, me) <=> id = me
  <2>1. HasAck(t, me) => id = me
    BY <1>1 DEF HasAck
  <2>2. id = me => t[k].id = me /\ t[k].acked /\ k \in DOMAIN t
    BY <1>1
  <2> QED BY <2>1, <2>2 DEF HasAck
<1>4. CASE u = t
  <2>1. \A m \in DOMAIN u : m \in DOMAIN s /\ u[m].id = s[m].id /\ u[m].end = s[m].end
    BY <1>1, <1>4
  <2> QED BY <1>1, <1>2, <1>3, <1>4, <2>1 DEF From
<1>5. CASE \E n \in DOMAIN s : n # k /\ s[n].acked /\ u = Without(t, n)
  <2>1. PICK n \in DOMAIN s : n # k /\ s[n].acked /\ u = Without(t, n)
    BY <1>5
  <2>2. n \in DOMAIN t /\ t[n].id = s[n].id /\ s[n].id # me
    BY <1>1, <2>1 DEF HasAck
  <2>3. /\ u \in Seq(Chan) /\ Ordered(u, q, p, b)
        /\ \A m \in DOMAIN u : \E j \in DOMAIN t : j # n /\ t[j].id # t[n].id /\ u[m] = t[j]
        /\ \A x : HasId(u, x) <=> HasId(t, x) /\ x # t[n].id
        /\ \A x : HasAck(u, x) <=> HasAck(t, x) /\ x # t[n].id
    <3>1. /\ Without(t, n) \in Seq(Chan) /\ Ordered(Without(t, n), q, p, b)
          /\ \A m \in DOMAIN Without(t, n) :
                \E j \in DOMAIN t : j # n /\ t[j].id # t[n].id /\ Without(t, n)[m] = t[j]
          /\ \A x : HasId(Without(t, n), x) <=> HasId(t, x) /\ x # t[n].id
          /\ \A x : HasAck(Without(t, n), x) <=> HasAck(t, x) /\ x # t[n].id
      BY <1>1, <1>2, <2>2, WithoutIs, Zenon
    <3> QED BY <2>1, <3>1
  <2>4. From(u, s)
    <3>1. ASSUME NEW m \in DOMAIN u
          PROVE  \E j \in DOMAIN s : u[m].id = s[j].id /\ u[m].end = s[j].end
      <4>1. PICK j \in DOMAIN t : u[m] = t[j]
        BY <2>3
      <4> QED BY <1>1, <4>1
    <3> QED BY <3>1 DEF From
  <2> QED BY <1>2, <1>3, <2>2, <2>3, <2>4
<1>6. u = t \/ \E n \in DOMAIN s : n # k /\ s[n].acked /\ u = Without(t, n)
  BY DEF AckLeaves, t
<1> QED BY <1>4, <1>5, <1>6

(* The step of LinkReadAck, whichever channel it takes away                *)
LEMMA AckEffect ==
    ASSUME TlIInv, NEW j \in TlNodes, NEW k \in DOMAIN chans[j], LinkReadAck(j, k), NEW p, p = Peer(j)
    PROVE  /\ up[j] /\ chans[j][k].id \in ack /\ ack' = ack \ {chans[j][k].id}
           /\ \A n \in 1 .. k - 1 : chans[j][n].id \notin ack
           /\ UNCHANGED <<boots, up, known, pending, syn>>
           /\ AckLeaves(chans[j], k, chans'[j])
           /\ chans' = [i \in TlNodes |-> chans'[i]]
           /\ \/ /\ OwnClient(j) /\ chans'[p] = Ended(chans[p], Id(j))
                 /\ cfd' = [cfd EXCEPT ![j] = "closed"] /\ cst' = [cst EXCEPT ![j] = "CUT"]
                 /\ crossed' = (crossed \/ Id(j) \in ack)
              \/ /\ ~OwnClient(j) /\ chans'[p] = chans[p] /\ cst' = cst /\ cfd' = cfd
                 /\ crossed' = crossed
<1>1. /\ TlTyped /\ p \in TlNodes /\ p # j /\ Peer(p) = j /\ \A i \in TlNodes : i = j \/ i = p
      /\ Ordered(chans[j], pending[j], p, boots[p])
      /\ TlAcks(p) /\ chans[j] \in Seq(Chan) /\ DOMAIN chans = TlNodes
  BY Both DEF TlTyped
<1> DEFINE id == chans[j][k].id
           old == OlderChannels(j, k)
           mine == [chans EXCEPT ![j] = Acked(@, id)]
           n == CHOOSE x \in old : \A y \in old : x <= y
<1>2. /\ up[j] /\ id \in ack /\ ack' = ack \ {id}
      /\ \A m \in 1 .. k - 1 : chans[j][m].id \notin ack
      /\ UNCHANGED <<boots, up, known, pending, syn>>
      /\ IF OwnClient(j)
         THEN /\ cfd' = [cfd EXCEPT ![j] = "closed"] /\ cst' = [cst EXCEPT ![j] = "CUT"]
              /\ chans' = [mine EXCEPT ![p] = Ended(@, Id(j))]
              /\ crossed' = (crossed \/ Id(j) \in ack)
         ELSE /\ UNCHANGED <<cst, crossed>>
              /\ IF old = {} THEN chans' = mine /\ UNCHANGED cfd
                 ELSE /\ chans' = [chans EXCEPT ![j] = Without(Acked(@, id), n)]
                      /\ cfd' = IF Mine(chans[j][n].id)
                                THEN [cfd EXCEPT ![p] = Eof(p)] ELSE cfd
  BY DEF LinkReadAck, Disconnected
<1>3. ~HasAck(chans[j], Id(p))
  BY <1>1, <1>2 DEF TlAcks, Drained
<1> HIDE DEF id, old, n
<1>4. CASE OwnClient(j)
  <2>1. chans' = [mine EXCEPT ![p] = Ended(@, Id(j))]
    BY <1>2, <1>4
  <2>2. chans'[j] = Acked(chans[j], id) /\ chans'[p] = Ended(chans[p], Id(j))
        /\ chans' = [i \in TlNodes |-> chans'[i]]
    BY <1>1, <2>1
  <2> QED BY <1>2, <1>4, <2>2 DEF id, AckLeaves
<1>5. CASE ~OwnClient(j) /\ old = {}
  <2>1. chans'[j] = Acked(chans[j], id) /\ chans'[p] = chans[p]
        /\ chans' = [i \in TlNodes |-> chans'[i]]
    BY <1>1, <1>2, <1>5
  <2> QED BY <1>2, <1>5, <2>1 DEF id, AckLeaves
<1>6. CASE ~OwnClient(j) /\ old # {}
  <2>1. old \subseteq Nat /\ old \subseteq DOMAIN chans[j]
    BY <1>1 DEF old, OlderChannels
  <2>2. n \in old
    BY <1>6, <2>1, LeastIn DEF n
  <2>3. n \in DOMAIN chans[j] /\ n # k /\ chans[j][n].acked
    BY <2>2 DEF old, OlderChannels
  <2>4. ~Mine(chans[j][n].id)
    <3>1. chans[j][n].id \in Ids /\ Owner(chans[j][n].id) = p
      BY <1>1, <2>3, ChanElems DEF Ordered
    <3>2. chans[j][n].id # Id(p)
      BY <1>3, <2>3 DEF HasAck
    <3> QED BY <1>1, <3>1, <3>2, MineIs
  <2>5. /\ chans'[j] = Without(Acked(chans[j], id), n) /\ chans'[p] = chans[p]
        /\ chans' = [i \in TlNodes |-> chans'[i]] /\ cfd' = cfd
    BY <1>1, <1>2, <1>6, <2>4
  <2> QED BY <1>2, <1>6, <2>3, <2>5 DEF id, AckLeaves
<1> QED BY <1>4, <1>5, <1>6

(* An answer is handled: whoever handles the later of two cuts its client. *)
LEMMA ReadAckStep ==
    ASSUME TlIInv, NEW j \in TlNodes, NEW k \in DOMAIN chans[j], LinkReadAck(j, k)
    PROVE  TlIInv'
<1> DEFINE p == Peer(j)
<1>1. /\ TlTyped /\ p \in TlNodes /\ p # j /\ Peer(p) = j /\ \A i \in TlNodes : i = j \/ i = p
      /\ Ordered(chans[j], pending[j], p, boots[p]) /\ Ordered(chans[p], pending[p], j, boots[j])
      /\ TlClient(j) /\ TlClient(p) /\ TlAcks(j) /\ TlAcks(p)
      /\ chans[j] \in Seq(Chan) /\ chans[p] \in Seq(Chan)
      /\ pending[j] \in Seq(Ids) /\ pending[p] \in Seq(Ids)
      /\ boots[j] \in Nat /\ boots[p] \in Nat
      /\ ~up[j] => chans[j] = <<>>
      /\ ~up[p] => chans[p] = <<>>
  BY Both
<1> HIDE DEF p
<1> DEFINE s == chans[j]
           u == chans'[j]
           w == chans'[p]
           id == chans[j][k].id
           me == Id(p)
<1>2. /\ up[j] /\ id \in ack /\ ack' = ack \ {id} /\ \A n \in 1 .. k - 1 : s[n].id \notin ack
      /\ UNCHANGED <<boots, up, known, pending, syn>>
      /\ AckLeaves(s, k, u)
      /\ chans' = [i \in TlNodes |-> chans'[i]]
      /\ \/ /\ OwnClient(j) /\ w = Ended(chans[p], Id(j))
            /\ cfd' = [cfd EXCEPT ![j] = "closed"] /\ cst' = [cst EXCEPT ![j] = "CUT"]
            /\ crossed' = (crossed \/ Id(j) \in ack)
         \/ /\ ~OwnClient(j) /\ w = chans[p] /\ cst' = cst /\ cfd' = cfd
            /\ crossed' = crossed
  BY AckEffect DEF p
<1>3. /\ ~HasAck(s, me) /\ me = <<p, boots[p]>> /\ Id(p)' = me /\ Id(j)' = Id(j)
      /\ id # Id(j) /\ Owner(id) = p
      /\ HasAck(s, me) => \A n \in DOMAIN s : s[n].id \notin ack
  <2>1. ~HasAck(s, me) /\ Owner(id) = p
    BY <1>1, <1>2 DEF TlAcks, Drained, Ordered
  <2>2. me = <<p, boots[p]>> /\ Id(p)' = me /\ Id(j)' = Id(j) /\ Owner(Id(j)) = j
    BY <1>2 DEF Id, Owner
  <2> QED BY <1>1, <2>1, <2>2
<1>4. /\ u \in Seq(Chan) /\ Ordered(u, pending[j], p, boots[p])
      /\ HasId(u, me) <=> HasId(s, me)
      /\ HasAck(u, me) <=> id = me
      /\ \A m \in DOMAIN u : \E n \in DOMAIN s : u[m].id = s[n].id /\ u[m].end = s[n].end
  <2> HIDE DEF u, me, s
  <2>1. /\ s \in Seq(Chan) /\ Ordered(s, pending[j], p, boots[p]) /\ k \in DOMAIN s /\ id = s[k].id
        /\ p \in TlNodes /\ boots[p] \in Nat
    BY <1>1 DEF s
  <2> HIDE DEF id
  <2>2. AckLeaves(s, k, u)
    BY <1>2
  <2>3. /\ u \in Seq(Chan) /\ Ordered(u, pending[j], p, boots[p])
        /\ HasId(u, me) <=> HasId(s, me)
        /\ HasAck(u, me) <=> id = me
        /\ From(u, s)
    <3>1. ~HasAck(s, me)
      BY <1>3
    <3>2. u \in Seq(Chan) /\ Ordered(u, pending[j], p, boots[p])
      BY <3>1, <2>1, <2>2, AckedChannels
    <3>3. HasId(u, me) <=> HasId(s, me)
      BY <3>1, <2>1, <2>2, AckedChannels
    <3>4. HasAck(u, me) <=> id = me
      BY <3>1, <2>1, <2>2, AckedChannels
    <3>5. From(u, s)
      BY <3>1, <2>1, <2>2, AckedChannels
    <3> QED BY <3>2, <3>3, <3>4, <3>5
  <2> QED BY <2>3 DEF From
<1>5. /\ w \in Seq(Chan) /\ Ordered(w, pending[p], j, boots[j])
      /\ \A x : HasId(w, x) <=> HasId(chans[p], x)
      /\ \A x : HasAck(w, x) <=> HasAck(chans[p], x)
      /\ DOMAIN w = DOMAIN chans[p]
      /\ \A n \in DOMAIN chans[p] : w[n].id = chans[p][n].id
  <2> HIDE DEF w
  <2>1. CASE w = chans[p]
    BY <1>1, <2>1
  <2>2. CASE w = Ended(chans[p], Id(j))
    <3>1. /\ w \in Seq(Chan) /\ DOMAIN w = DOMAIN chans[p]
          /\ \A n \in DOMAIN chans[p] : w[n].id = chans[p][n].id /\ w[n].acked = chans[p][n].acked
      BY <1>1, <2>2, EndedIs
    <3>2. \A x : HasAck(w, x) <=> HasAck(chans[p], x)
      BY <3>1 DEF HasAck
    <3>3. Ordered(w, pending[p], j, boots[j]) /\ \A x : HasId(w, x) <=> HasId(chans[p], x)
      BY <1>1, <3>1, SameIds
    <3> QED BY <3>1, <3>2, <3>3
  <2> QED BY <1>2, <2>1, <2>2
<1>6. /\ \/ OwnClient(j) /\ cfd'[j] = "closed" /\ cst'[j] = "CUT"
            /\ (crossed' <=> crossed \/ Id(j) \in ack)
         \/ ~OwnClient(j) /\ cfd'[j] = cfd[j] /\ cst'[j] = cst[j] /\ (crossed' <=> crossed)
      /\ cfd'[p] = cfd[p] /\ cst'[p] = cst[p]
      /\ \A x \in ack' : x \in ack
      /\ \A x \in ack : x = id \/ x \in ack'
      /\ crossed => crossed'
  <2> HIDE DEF u, w, id, s, me
  <2>1. (\A x \in ack' : x \in ack) /\ (\A x \in ack : x = id \/ x \in ack')
    BY <1>2
  <2>2. CASE OwnClient(j) /\ cfd' = [cfd EXCEPT ![j] = "closed"] /\ cst' = [cst EXCEPT ![j] = "CUT"]
             /\ crossed' = (crossed \/ Id(j) \in ack)
    <3>1. cfd'[j] = "closed" /\ cst'[j] = "CUT" /\ cfd'[p] = cfd[p] /\ cst'[p] = cst[p]
      BY <1>1, <2>2 DEF TlTyped
    <3>2. crossed' <=> crossed \/ Id(j) \in ack
      BY <2>2, Zenon
    <3> QED BY <2>1, <2>2, <3>1, <3>2
  <2>3. CASE ~OwnClient(j) /\ cfd' = cfd /\ cst' = cst /\ crossed' = crossed
    BY <2>1, <2>3, Zenon
  <2> QED BY <1>2, <2>2, <2>3
<1>7. TlTyped'
  <2>1. chans' \in [TlNodes -> Seq(Chan)]
    BY <1>1, <1>2, <1>4, <1>5
  <2>2. cfd' \in [TlNodes -> {"fresh", "open", "eof", "closed"}]
    BY <1>1, <1>2 DEF TlTyped
  <2>3. cst' \in [TlNodes -> {"INIT", "CONNECT", "RESPONSE", "CUT"}]
    BY <1>1, <1>2 DEF TlTyped
  <2> QED BY <1>1, <1>2, <2>1, <2>2, <2>3 DEF TlTyped
<1>8. TlOrder' /\ TlDown'
  <2>1. Ordered(chans'[j], pending'[j], Peer(j), boots'[Peer(j)])
    BY <1>2, <1>4 DEF p
  <2>2. Ordered(chans'[p], pending'[p], Peer(p), boots'[Peer(p)])
    BY <1>1, <1>2, <1>5
  <2>3. TlOrder'
    BY <1>1, <2>1, <2>2 DEF TlOrder
  <2>4. ~up'[p] => chans'[p] = <<>>
    <3> HIDE DEF w
    <3>1. chans[p] = <<>> => w = <<>>
      BY <1>5
    <3> QED BY <1>1, <1>2, <3>1 DEF w
  <2> QED BY <1>1, <1>2, <2>3, <2>4 DEF TlDown
<1>9. TlOpenEnds'
  <2> HIDE DEF u, w, s
  <2>1. \A x : Owner(x) = p => (Mine(x)' <=> Mine(x))
    BY <1>1, <1>2, <1>6 DEF Mine
  <2>2. ASSUME NEW m \in DOMAIN u, u[m].end = "open"
        PROVE  Owner(u[m].id) = p /\ Mine(u[m].id)
    <3>1. PICK n \in DOMAIN s : u[m].id = s[n].id /\ u[m].end = s[n].end
      BY <1>4, <2>2
    <3>2. Mine(s[n].id) /\ Owner(s[n].id) = p
      BY <1>1, <2>2, <3>1 DEF TlIInv, TlOpenEnds, Ordered, s
    <3> QED BY <3>1, <3>2
  <2>3. ASSUME NEW m \in DOMAIN w, w[m].end = "open"
        PROVE  cfd' = cfd /\ Mine(w[m].id)
    <3>1. CASE OwnClient(j) /\ w = Ended(chans[p], Id(j))
      <4>1. m \in DOMAIN chans[p] /\ chans[p][m].end = "open" /\ chans[p][m].id # Id(j)
        BY <1>1, <2>3, <3>1, EndedIs
      <4>2. Mine(chans[p][m].id) /\ Owner(chans[p][m].id) = j /\ chans[p][m].id \in Ids
        BY <1>1, <4>1, ChanElems DEF TlIInv, TlOpenEnds, Ordered
      <4> QED BY <1>1, <4>1, <4>2, MineIs
    <3>2. CASE w = chans[p] /\ cfd' = cfd
      BY <1>1, <2>3, <3>2 DEF TlIInv, TlOpenEnds
    <3> QED BY <1>2, <3>1, <3>2
  <2>4. cfd' = cfd => \A x : Mine(x)' <=> Mine(x)
    BY <1>2 DEF Mine
  <2> QED BY <1>1, <2>1, <2>2, <2>3, <2>4 DEF TlOpenEnds, u, w
<1>10. Id(j) \in ack' <=> Id(j) \in ack
  BY <1>3, <1>6
<1>11. TlClient(j)'
  <2> HIDE DEF u, w, me, id
  <2>1. Linked(j)'
    <3>1. Linked(j) /\ (OwnClient(j) => known[j])
      BY <1>1 DEF TlClient, OwnClient
    <3>2. chans'[p] = w
      BY DEF w
    <3>3. CASE OwnClient(j) /\ cfd'[j] = "closed" /\ cst'[j] = "CUT"
      BY <1>2, <3>1, <3>3 DEF Linked
    <3>4. CASE cfd'[j] = cfd[j] /\ cst'[j] = cst[j]
      BY <1>2, <1>3, <1>5, <1>10, <3>1, <3>2, <3>4 DEF Linked, p
    <3> QED BY <1>6, <3>3, <3>4
  <2>2. Told(j)'
    BY <1>1, <1>2, <1>3, <1>5, <1>10 DEF TlClient, Told, p, w
  <2>3. Past(j)'
    BY <1>1, <1>2, <1>6 DEF TlClient, Past
  <2> QED BY <2>1, <2>2, <2>3 DEF TlClient
<1>12. TlClient(p)'
  <2>0. Linked(p) /\ Told(p) /\ Past(p)
    BY <1>1 DEF TlClient
  <2> HIDE DEF id
  <2>1. Linked(p)'
    BY <1>1, <1>2, <1>3, <1>4, <1>6, <2>0 DEF Linked
  <2>2. Told(p)'
    BY <1>1, <1>2, <1>3, <1>4, <1>6, <2>0 DEF Told
  <2>3. Past(p)'
    BY <1>1, <1>2, <1>6, <2>0 DEF Past
  <2> QED BY <2>1, <2>2, <2>3 DEF TlClient
(* The answer of p's client is under way until it is handled here.         *)
<1>13. HasId(s, me) /\ cst[p] = "CUT" => me \in ack
  BY <1>1, <1>3 DEF TlClient, Linked, TlAcks, Handled
<1>14. HasId(u, me) /\ cst[p] = "CUT" /\ HasId(chans[p], Id(j)) => crossed
  <2>1. ~up[p] => ~HasId(chans[p], Id(j))
    BY <1>1, Emptied
  <2>2. up[p] /\ HasId(s, me) /\ cst[p] = "CUT" => crossed
    BY <1>1, <1>13 DEF TlAcks, CutEarly
  <2> QED BY <1>4, <2>1, <2>2
<1>15. HasAck(u, me) /\ HasAck(chans[p], Id(j)) => cst'[j] = "CUT"
  <2>1. HasAck(chans[p], Id(j)) => known[j] /\ j \in TlClients
    BY <1>1, AckedHasId DEF TlClient, Told, p
  <2> QED BY <1>6, <2>1 DEF OwnClient
<1>16. TlAcks(j)'
  <2> HIDE DEF u, w, me, id, s
  <2>1. Handled(j)'
    BY <1>1, <1>2, <1>3, <1>5, <1>10 DEF TlAcks, Handled, p, w
  <2>2. Drained(j)'
    BY <1>1, <1>3, <1>5, <1>6 DEF TlAcks, Drained, p, w
  <2>3. OneCut(j)'
    BY <1>1, <1>3, <1>5, <1>15 DEF OneCut, p, u, w
  <2>4. CutEarly(j)'
    BY <1>1, <1>2, <1>3, <1>5, <1>6, <1>10 DEF TlAcks, CutEarly, p, w
  <2>5. BothCut(j)'
    BY <1>1, <1>3, <1>5, <1>6, <1>14 DEF BothCut, p, u, w
  <2> QED BY <2>1, <2>2, <2>3, <2>4, <2>5 DEF TlAcks
<1>17. TlAcks(p)'
  <2>1. Handled(p)'
    <3> HIDE DEF id, me, u
    <3>1. HasId(u, me) /\ known[p] /\ me \notin ack' => HasAck(u, me)
      BY <1>1, <1>3, <1>4, <1>6 DEF TlAcks, Handled, me
    <3> QED BY <1>1, <1>2, <1>3, <3>1 DEF Handled, u
  <2>2. Drained(p)'
    <3>1. ASSUME id = me, NEW n \in DOMAIN s PROVE s[n].id \notin ack'
      <4>1. k \in 1 .. Len(s) /\ n \in 1 .. Len(s)
        BY <1>1
      <4>2. CASE n < k
        BY <1>2, <1>6, <4>1, <4>2
      <4>3. CASE n = k
        BY <1>2, <4>3
      <4>4. CASE k < n
        <5>1. s[k].id[2] < s[n].id[2] /\ s[n].id[2] <= boots[p] /\ s[k].id[2] = boots[p]
          BY <1>1, <1>3, <3>1, <4>4 DEF Ordered
        <5>2. s[n].id[2] \in Nat
          BY <1>1, ChanElems
        <5> QED BY <1>1, <5>1, <5>2
      <4> QED BY <4>1, <4>2, <4>3, <4>4
    <3>2. HasAck(u, me) => \A m \in DOMAIN u : u[m].id \notin ack'
      BY <1>4, <3>1
    <3> HIDE DEF me, u
    <3> QED BY <1>1, <1>3, <3>2 DEF Drained, u
  <2>3. OneCut(p)' /\ BothCut(p)'
    BY <1>1, <1>16 DEF TlAcks, OneCut, BothCut, p
  <2>4. CutEarly(p)'
    <3> HIDE DEF id, me, u
    <3> QED BY <1>1, <1>2, <1>3, <1>4, <1>6 DEF TlAcks, CutEarly, me, u
  <2> QED BY <2>1, <2>2, <2>3, <2>4 DEF TlAcks
<1> QED BY <1>1, <1>7, <1>8, <1>9, <1>11, <1>12, <1>16, <1>17 DEF TlIInv

LEMMA TlStepHolds == TlIInv /\ [TlNext]_tlvars => TlIInv'
<1> SUFFICES ASSUME TlIInv, [TlNext]_tlvars PROVE TlIInv'
  OBVIOUS
<1>1. CASE UNCHANGED tlvars
  <2> USE <1>1 DEF tlvars
  <2>1. TlTyped' /\ TlOpenEnds'
    BY DEF TlIInv, TlTyped, TlOpenEnds, Mine, Id
  <2>2. TlOrder' /\ TlDown'
    BY DEF TlIInv, TlOrder, TlDown, Mine, Linked, Told, Past, Id
  <2>3. ASSUME NEW i \in TlNodes PROVE TlClient(i)' /\ TlAcks(i)'
    <3>1. TlClient(i) /\ TlAcks(i)
      BY <2>3 DEF TlIInv
    <3> QED BY <3>1 DEF TlClient, Mine, Linked, Told, Past, TlAcks, Handled, Drained, OneCut, CutEarly,
                        BothCut, Id
  <2> QED BY <2>1, <2>2, <2>3 DEF TlIInv
<1>2. CASE TlNext
  <2>1. PICK j \in TlNodes : Boot(j) \/ Kill(j) \/ Threads(j)
    BY <1>2 DEF TlNext
  <2>2. CASE Boot(j)
    BY <2>2, BootStep
  <2>3. CASE Kill(j)
    BY <2>3, KillStep
  <2>4. CASE Threads(j)
    <3>1. CASE LinkConnect(j)
      BY <3>1, ConnectStep
    <3>2. CASE LinkAccept(j)
      BY <3>2, AcceptStep
    <3>3. CASE ReadSyn(j)
      BY <3>3, ReadSynStep
    <3>4. CASE \E k \in DOMAIN chans[j] : LinkReadAck(j, k)
      BY <3>4, ReadAckStep
    <3> QED BY <2>4, <3>1, <3>2, <3>3, <3>4 DEF Threads
  <2> QED BY <2>1, <2>2, <2>3, <2>4
<1> QED BY <1>1, <1>2

(* When both handshakes are over, each answer was handled: one of the two  *)
(* clients was cut, and both only if crossed tells so.                     *)
LEMMA OneLink == TlIInv => TlOneLinkLeft
<1> SUFFICES ASSUME TlIInv, HandshakesOver
             PROVE  LET n == Cardinality({i \in TlNodes : Live(i)}) IN n = 1 \/ (n = 0 /\ crossed)
  BY DEF TlOneLinkLeft
<1> DEFINE links == {i \in TlNodes : Live(i)}
<1>1. PICK j \in TlNodes : TRUE
  <2>1. TlNodes # {}
    BY TlAssumption, FS_EmptySet
  <2> QED BY <2>1
<1> DEFINE p == Peer(j)
<1>2. /\ p \in TlNodes /\ p # j /\ Peer(p) = j /\ \A i \in TlNodes : i = j \/ i = p
      /\ TlTyped /\ TlClient(j) /\ TlClient(p) /\ TlAcks(j) /\ TlAcks(p)
  BY Both
<1> HIDE DEF p
<1>3. ASSUME NEW i \in TlNodes
      PROVE  /\ up[i] /\ known[i] /\ Id(i) \notin ack /\ HasId(chans[Peer(i)], Id(i))
             /\ HasAck(chans[Peer(i)], Id(i))
             /\ cfd[i] = "open" <=> cst[i] # "CUT"
             /\ Live(i) <=> cst[i] # "CUT"
  <2>1. up[i] /\ known[i] /\ Id(i) \notin ack /\ HasId(chans[Peer(i)], Id(i))
    BY DEF HandshakesOver, HasId
  <2>2. TlClient(i) /\ TlAcks(i)
    BY DEF TlIInv
  <2>3. HasAck(chans[Peer(i)], Id(i))
    BY <2>1, <2>2 DEF TlAcks, Handled
  <2>4. cfd[i] = "open" <=> cst[i] # "CUT"
    <3>1. cfd[i] \in {"fresh", "open", "eof", "closed"}
      BY <1>2 DEF TlTyped
    <3> QED BY <2>1, <2>2, <3>1 DEF TlClient, Linked
  <2>5. Live(i) <=> cfd[i] = "open" /\ HasAck(chans[Peer(i)], Id(i))
    BY DEF Live, HasAck
  <2> QED BY <2>1, <2>3, <2>4, <2>5
<1>4. CASE cst[j] = "CUT" /\ cst[p] = "CUT"
  <2>1. links = {}
    BY <1>2, <1>3, <1>4
  <2>2. crossed
    BY <1>2, <1>3, <1>4 DEF TlAcks, BothCut, p
  <2> QED BY <2>1, <2>2, FS_EmptySet
<1>5. CASE cst[j] # "CUT"
  <2>1. cst[p] = "CUT"
    BY <1>2, <1>3, <1>5 DEF TlAcks, OneCut, p
  <2>2. links = {j}
    BY <1>2, <1>3, <1>5, <2>1
  <2> QED BY <2>2, FS_Singleton
<1>6. CASE cst[p] # "CUT"
  <2>1. cst[j] = "CUT"
    BY <1>2, <1>3, <1>6 DEF TlAcks, OneCut, p
  <2>2. links = {p}
    BY <1>2, <1>3, <1>6, <2>1
  <2> QED BY <2>2, FS_Singleton
<1> QED BY <1>4, <1>5, <1>6

LEMMA TlFollows == TlIInv => TlLinksSettle
<1> SUFFICES ASSUME TlIInv PROVE TlLinksSettle
  OBVIOUS
<1>1. TlTypeOK
  <2> SUFFICES ASSUME NEW i \in TlNodes
               PROVE  /\ cfd[i] \in {"fresh", "open", "eof", "closed"}
                      /\ cst[i] \in {"INIT", "CONNECT", "RESPONSE", "CUT"}
                      /\ \A k \in DOMAIN chans[i] : Owner(chans[i][k].id) # i
                      /\ \A m, n \in DOMAIN chans[i] : chans[i][m].id = chans[i][n].id => m = n
    BY DEF TlTypeOK
  <2>1. Ordered(chans[i], pending[i], Peer(i), boots[Peer(i)]) /\ Peer(i) # i
    BY Both
  <2>2. \A k \in DOMAIN chans[i] : k \in Nat /\ chans[i][k].id[2] \in Nat
    <3>1. chans[i] \in Seq(Chan)
      BY DEF TlIInv, TlTyped
    <3> QED BY <3>1, ChanElems
  <2>3. \A k \in DOMAIN chans[i] : Owner(chans[i][k].id) # i
    BY <2>1 DEF Ordered
  <2>4. \A m, n \in DOMAIN chans[i] : chans[i][m].id = chans[i][n].id => m = n
    <3>1. \A m, n \in DOMAIN chans[i] : m < n => chans[i][m].id[2] < chans[i][n].id[2]
      BY <2>1 DEF Ordered
    <3> QED BY <2>2, <3>1
  <2> QED BY <2>3, <2>4 DEF TlIInv, TlTyped
<1>2. TlBothEnds
  BY DEF TlBothEnds, TlIInv, TlOpenEnds, TlClient, Linked, HasId, Waits
<1> QED BY <1>1, <1>2, OneLink DEF TlLinksSettle

(* Two instances connected by TCP, however often their processes are       *)
(* killed and started: no end of a connection outlives the other, and of   *)
(* two connections whose handshakes are over one is left, none only if     *)
(* the two answers crossed (receive_local_client_ack).                     *)
THEOREM LinksSettleCorrect == TlSpec => []TlLinksSettle
BY TlInitHolds, TlStepHolds, TlFollows, PTL DEF TlSpec

(* A client whose connection ended is not connected again while its        *)
(* process lives (conn_client_connect).                                    *)
LEMMA NeverBack ==
    TlIInv /\ [TlNext]_tlvars =>
        [\A i \in TlNodes : (cfd[i] \in {"eof", "closed"} /\ boots'[i] = boots[i]) => cfd'[i] # "open"]_tlvars
<1> SUFFICES ASSUME TlIInv, TlNext, NEW i \in TlNodes, cfd[i] \in {"eof", "closed"}, boots'[i] = boots[i]
             PROVE  cfd'[i] # "open"
  OBVIOUS
<1>1. TlTyped
  BY DEF TlIInv
<1>2. PICK j \in TlNodes : Boot(j) \/ Kill(j) \/ Threads(j)
  BY DEF TlNext
<1>3. CASE Boot(j)
  BY <1>1, <1>3 DEF Boot, ClientInit, TlTyped
<1>4. CASE Kill(j)
  BY <1>1, <1>4, Two DEF Kill, Eof, TlTyped
<1>5. CASE LinkConnect(j)
  BY <1>1, <1>5 DEF LinkConnect, Connected, TlTyped
<1>6. CASE LinkAccept(j) \/ ReadSyn(j)
  BY <1>6 DEF LinkAccept, ReadSyn
<1>7. CASE \E k \in DOMAIN chans[j] : LinkReadAck(j, k)
  <2>1. cfd' = cfd \/ cfd' = [cfd EXCEPT ![j] = "closed"]
    BY <1>7, AckEffect
  <2> QED BY <1>1, <2>1 DEF TlTyped
<1> QED BY <1>2, <1>3, <1>4, <1>5, <1>6, <1>7 DEF Threads

THEOREM NeverReconnectsCorrect == TlSpec => TlNeverReconnects
BY TlInitHolds, TlStepHolds, NeverBack, PTL DEF TlSpec, TlNeverReconnects


-----------------------------------------------------------------------------
(* FileDealer.  A notice is made from the disk that the same step leaves.  *)

LEMMA MarkedTells ==
    ASSUME NEW d, NEW r, NEW m, Marked(d, r, m)
    PROVE  \A x \in notices' \ notices : x.result = 1 => disk'[x.name] = x.digest
BY DEF Marked, Notice, Samefile

LEMMA SingleTells ==
    ASSUME NEW m, ReceiveSingle(m)
    PROVE  \A x \in notices' \ notices : x.result = 1 => disk'[x.name] = x.digest
BY DEF ReceiveSingle, Notice, Samefile

LEMMA NoticeStep ==
    FdNext => \A x \in notices' \ notices : x.result = 1 => disk'[x.name] = x.digest
<1> SUFFICES ASSUME FdNext
             PROVE  \A x \in notices' \ notices : x.result = 1 => disk'[x.name] = x.digest
  OBVIOUS
<1>1. ASSUME NEW m \in air, Receive(m)
      PROVE  \A x \in notices' \ notices : x.result = 1 => disk'[x.name] = x.digest
  <2>1. CASE ReceiveSingle(m)
    BY <2>1, SingleTells
  <2>2. CASE ReceiveBlock(m)
    <3>1. CASE Marked(disk, store[m.digest], m) \/ Marked(Removed(disk, m.name), NewStore(m), m)
      BY <3>1, MarkedTells
    <3>2. CASE UNCHANGED <<disk, store, notices>>
      BY <3>2
    <3> QED BY <2>2, <3>1, <3>2 DEF ReceiveBlock
  <2> QED BY <1>1, <2>1, <2>2 DEF Receive
<1>2. notices' = notices \/ \E m \in air : Receive(m)
  BY DEF FdNext, Request, SendStat, SendDigest, SendBlock, Lose, EditSource, RestartReceiver
<1> QED BY <1>1, <1>2

(* A notice of success leaves the receiver only in the step after which    *)
(* the file on its disk is the file the digest belongs to, whatever was    *)
(* lost, repeated or changed before (proc_file_receive).                   *)
THEOREM NoticeTrueCorrect == FdSpec => FdNoticeTrue
BY NoticeStep, PTL DEF FdSpec, FdNoticeTrue, fdvars

-----------------------------------------------------------------------------
(* FileDealer.  The inductive invariant: the messages carry blocks of the  *)
(* size that was announced; the marks of a record are the places of the    *)
(* blocks it has; and as long as no other version is written under its     *)
(* name, the file on the disk is made of these blocks and ends with the    *)
(* last of them.                                                           *)

FdUnits == Nat \ {0}

FdPiece ==
    {m \in [name : FdNames, digest : FdContents, total : Nat, offset : Nat, data : Seq(FdUnits)] :
        /\ \E b \in Nat : m.offset = b * FdBlock
        /\ Len(m.data) \in 1 .. FdBlock /\ m.offset + Len(m.data) <= m.total
        /\ Len(m.data) < FdBlock => m.offset + Len(m.data) = m.total}

FdSnd == [at : {"idle", "stat", "digest", "block"}, todo : Seq(FdNames), size : Nat,
          digest : FdContents \cup {<<>>}, i : Nat]

FdTyped ==
    /\ src \in [FdNames -> FdContents \cup {NoFile}]
    /\ disk \in [FdNames -> Seq(Nat)]
    /\ snd \in FdSnd
    /\ snd.at \in {"digest", "block"} => snd.todo # <<>>
    /\ snd.at = "block" => /\ snd.digest \in FdContents /\ src[Head(snd.todo)] # NoFile
                           /\ snd.i <= snd.size \div FdBlock
    /\ \A m \in air : m \in FdPiece
    /\ \A x \in notices : x.name \in FdNames /\ x.digest \in FdContents /\ x.result \in {0, 1}
    /\ DOMAIN store = FdContents

(* What a record says of itself                                            *)
FdRecord(r) ==
    /\ r = [num |-> r.num, size |-> r.size, marks |-> r.marks, name |-> r.name,
            clean |-> r.clean, got |-> r.got]
    /\ r.num \in Nat /\ r.size \in Nat /\ r.clean \in BOOLEAN
    /\ \A b \in r.marks : b \in Nat /\ b * FdBlock \in DOMAIN r.got
    /\ \A o \in DOMAIN r.got : /\ \E b \in r.marks : o = b * FdBlock
                               /\ r.got[o] \in Seq(FdUnits) /\ Len(r.got[o]) \in 1 .. FdBlock
    /\ r.num = 0 => ~r.clean
    /\ r.num # 0 => /\ r.name \in FdNames /\ r.size > FdBlock
                    /\ r.num = (r.size + FdBlock - 1) \div FdBlock

(* What it says of file f, the disk's under its name                       *)
FdOnDisk(r, f) ==
    /\ f # NoFile /\ Len(f) <= r.size
    /\ \A b \in r.marks :
        /\ b * FdBlock + Len(r.got[b * FdBlock]) <= r.size
        /\ b * FdBlock + Len(r.got[b * FdBlock]) <= Len(f)
        /\ \A p \in 1 .. Len(r.got[b * FdBlock]) : f[b * FdBlock + p] = r.got[b * FdBlock][p]

(* The file of digest d arrived                                            *)
FdWhole(r, d) ==
    /\ r.clean
    /\ {b * FdBlock : b \in 0..(r.num - 1)} \subseteq DOMAIN r.got
    /\ \A o \in DOMAIN r.got : r.got[o] = ReadAt(d, o, FdBlock)
    /\ r.size = Len(d)

FdStored(d) ==
    /\ FdRecord(store[d])
    /\ store[d].clean => FdOnDisk(store[d], disk[store[d].name])
    /\ FdWhole(store[d], d) => [name |-> store[d].name, digest |-> d, result |-> 1] \in notices

FdIInv == FdTyped /\ \A d \in FdContents : FdStored(d)

(* Blocks do not overlap, and every unit is in one                         *)
LEMMA FdBlocks ==
    /\ FdBlock \in Nat /\ FdBlock > 0
    /\ \A b \in Nat : b * FdBlock \in Nat
    /\ \A b, c \in Nat : b < c => b * FdBlock + FdBlock <= c * FdBlock
    /\ \A b, c \in Nat : b * FdBlock < c * FdBlock => b < c
    /\ \A b, c \in Nat : b * FdBlock = c * FdBlock => b = c
<1>1. FdBlock \in Nat /\ FdBlock > 0
  BY FdAssumption
<1>2. \A b \in Nat : b * FdBlock \in Nat
  BY <1>1
<1>3. ASSUME NEW b \in Nat, NEW c \in Nat, b < c
      PROVE  b * FdBlock + FdBlock <= c * FdBlock
  <2>1. c * FdBlock = (b + 1) * FdBlock + (c - b - 1) * FdBlock
    BY <1>1
  <2>2. (b + 1) * FdBlock = b * FdBlock + FdBlock
    BY <1>1
  <2>3. (c - b - 1) * FdBlock \in Nat
    BY <1>1, <1>2, <1>3
  <2> QED BY <1>1, <1>2, <2>1, <2>2, <2>3
<1>4. \A b, c \in Nat : b < c => b * FdBlock < c * FdBlock
  BY <1>1, <1>2, <1>3
<1> QED BY <1>1, <1>2, <1>3, <1>4

LEMMA FdDivides ==
    ASSUME NEW n \in Nat
    PROVE  /\ n \div FdBlock \in Nat /\ n % FdBlock \in 0 .. FdBlock - 1
           /\ n = (n \div FdBlock) * FdBlock + (n % FdBlock)
BY FdBlocks

LEMMA FdSite ==
    ASSUME NEW b \in Nat
    PROVE  (b * FdBlock) \div FdBlock = b
<1>1. b * FdBlock \in Nat
  BY FdBlocks
<1> DEFINE q == (b * FdBlock) \div FdBlock
           r == (b * FdBlock) % FdBlock
<1>2. q \in Nat /\ r \in 0 .. FdBlock - 1 /\ b * FdBlock = q * FdBlock + r
  BY <1>1, FdDivides
<1>3. ~(q < b)
  BY <1>1, <1>2, FdBlocks
<1>4. ~(b < q)
  BY <1>1, <1>2, FdBlocks
<1> QED BY <1>2, <1>3, <1>4

(* block_num: the blocks that begin before the end                         *)
LEMMA FdNumber ==
    ASSUME NEW size \in Nat, NEW num, num = (size + FdBlock - 1) \div FdBlock
    PROVE  /\ num \in Nat
           /\ \A b \in Nat : b * FdBlock < size <=> b < num
<1>1. size + FdBlock - 1 \in Nat
  BY FdBlocks
<1> DEFINE r == (size + FdBlock - 1) % FdBlock
<1>2. num \in Nat /\ r \in 0 .. FdBlock - 1 /\ size + FdBlock - 1 = num * FdBlock + r
  BY <1>1, FdDivides
<1>3. ASSUME NEW b \in Nat, b < num PROVE b * FdBlock < size
  <2>1. b * FdBlock + FdBlock <= num * FdBlock /\ b * FdBlock \in Nat /\ num * FdBlock \in Nat
    BY <1>2, <1>3, FdBlocks
  <2> QED BY <1>2, <2>1, FdBlocks
<1>4. ASSUME NEW b \in Nat, b * FdBlock < size PROVE b < num
  <2>1. SUFFICES ASSUME b >= num PROVE FALSE
    BY <1>2
  <2>2. b * FdBlock >= num * FdBlock /\ b * FdBlock \in Nat /\ num * FdBlock \in Nat
    BY <1>2, <2>1, FdBlocks
  <2> QED BY <1>2, <1>4, <2>2, FdBlocks
<1> QED BY <1>2, <1>3, <1>4

(* The units that ReadAt gives                                             *)
LEMMA FdReadIs ==
    ASSUME NEW S, NEW s \in Seq(S), NEW offset \in Nat, NEW n \in Nat
    PROVE  /\ ReadAt(s, offset, n) \in Seq(S)
           /\ Len(ReadAt(s, offset, n)) =
                  IF offset + n <= Len(s) THEN n ELSE IF offset <= Len(s) THEN Len(s) - offset ELSE 0
           /\ \A p \in 1 .. Len(ReadAt(s, offset, n)) :
                  ReadAt(s, offset, n)[p] = s[offset + p] /\ offset + p <= Len(s)
<1>1. Len(s) \in Nat /\ \A i \in 1 .. Len(s) : s[i] \in S
  OBVIOUS
<1> DEFINE e == IF offset + n < Len(s) THEN offset + n ELSE Len(s)
<1>2. e \in Nat /\ e <= Len(s)
  BY <1>1
<1>3. ReadAt(s, offset, n) = SubSeq(s, offset + 1, e)
  BY DEF ReadAt
<1>4. /\ offset + n <= Len(s) => e = offset + n
      /\ ~(offset + n <= Len(s)) => e = Len(s)
  BY <1>1
<1> HIDE DEF e
<1>5. \A p \in (offset + 1) .. e : s[p] \in S
  BY <1>1, <1>2
<1>6. /\ SubSeq(s, offset + 1, e) \in Seq(S)
      /\ Len(SubSeq(s, offset + 1, e)) = IF offset + 1 <= e THEN e - offset ELSE 0
  BY <1>2, <1>5
<1>7. \A p \in 1 .. Len(SubSeq(s, offset + 1, e)) : SubSeq(s, offset + 1, e)[p] = s[offset + p]
                                                    /\ offset + p <= Len(s)
  BY <1>1, <1>2, <1>6
<1>8. Len(SubSeq(s, offset + 1, e)) = IF offset + n <= Len(s) THEN n
                                      ELSE IF offset <= Len(s) THEN Len(s) - offset ELSE 0
  BY <1>1, <1>2, <1>4, <1>6
<1> QED BY <1>3, <1>6, <1>7, <1>8

LEMMA FdASeq ==
    ASSUME NEW S, NEW n \in Nat, NEW u \in [1 .. n -> S]
    PROVE  u \in Seq(S) /\ Len(u) = n
OBVIOUS

(* What WriteAt leaves                                                     *)
LEMMA FdWriteIs ==
    ASSUME NEW s \in Seq(Nat), NEW offset \in Nat, NEW data \in Seq(Nat)
    PROVE  /\ WriteAt(s, offset, data) \in Seq(Nat)
           /\ Len(WriteAt(s, offset, data)) =
                  IF offset + Len(data) > Len(s) THEN offset + Len(data) ELSE Len(s)
           /\ \A p \in 1 .. Len(data) : WriteAt(s, offset, data)[offset + p] = data[p]
           /\ \A p \in 1 .. Len(s) : p <= offset \/ p > offset + Len(data) =>
                  WriteAt(s, offset, data)[p] = s[p]
<1> DEFINE len == IF offset + Len(data) > Len(s) THEN offset + Len(data) ELSE Len(s)
           u == [p \in 1 .. len |-> IF p \in (offset + 1)..(offset + Len(data)) THEN data[p - offset]
                                    ELSE IF p <= Len(s) THEN s[p] ELSE Hole]
<1>1. WriteAt(s, offset, data) = u
  BY DEF WriteAt
<1>2. /\ Len(s) \in Nat /\ \A p \in 1 .. Len(s) : s[p] \in Nat
      /\ Len(data) \in Nat /\ \A p \in 1 .. Len(data) : data[p] \in Nat
  OBVIOUS
<1>3. /\ len \in Nat /\ len >= offset + Len(data) /\ len >= Len(s)
      /\ len = IF offset + Len(data) > Len(s) THEN offset + Len(data) ELSE Len(s)
  BY <1>2
<1>4. DOMAIN u = 1 .. len /\ u = [p \in 1 .. len |-> u[p]]
  OBVIOUS
<1>5. \A p \in 1 .. len : u[p] = IF p \in (offset + 1)..(offset + Len(data)) THEN data[p - offset]
                                 ELSE IF p <= Len(s) THEN s[p] ELSE 0
  BY DEF Hole
<1> HIDE DEF u, len
<1>6. \A p \in 1 .. len : u[p] \in Nat
  <2> TAKE p \in 1 .. len
  <2>1. CASE p \in (offset + 1)..(offset + Len(data))
    <3>1. p - offset \in 1 .. Len(data)
      BY <1>2, <2>1
    <3> QED BY <1>2, <1>5, <2>1, <3>1
  <2>2. CASE p \notin (offset + 1)..(offset + Len(data))
    BY <1>2, <1>3, <1>5, <2>2
  <2> QED BY <2>1, <2>2
<1>7. u \in Seq(Nat) /\ Len(u) = len
  <2>1. u \in [1 .. len -> Nat]
    BY <1>4, <1>6
  <2> QED BY <1>3, <2>1, FdASeq
<1>8. ASSUME NEW p \in 1 .. Len(data) PROVE u[offset + p] = data[p]
  <2>1. offset + p \in 1 .. len /\ offset + p \in (offset + 1)..(offset + Len(data))
        /\ (offset + p) - offset = p
    BY <1>2, <1>3
  <2> QED BY <1>5, <2>1
<1>9. ASSUME NEW p \in 1 .. Len(s), p <= offset \/ p > offset + Len(data) PROVE u[p] = s[p]
  <2>1. p \in 1 .. len /\ p \notin (offset + 1)..(offset + Len(data))
    BY <1>2, <1>3, <1>9
  <2> QED BY <1>5, <2>1
<1> QED BY <1>1, <1>3, <1>7, <1>8, <1>9

(* A message                                                               *)
LEMMA FdPieceIs ==
    ASSUME NEW m \in FdPiece
    PROVE  /\ m.name \in FdNames /\ m.digest \in FdContents /\ m.total \in Nat /\ m.offset \in Nat
           /\ m.data \in Seq(FdUnits) /\ m.data \in Seq(Nat) /\ Len(m.data) \in 1 .. FdBlock
           /\ Len(m.data) \in Nat \ {0}
           /\ \A p \in 1 .. Len(m.data) : m.data[p] \in FdUnits
           /\ m.offset + Len(m.data) <= m.total
           /\ \E b \in Nat : m.offset = b * FdBlock
           /\ Len(m.data) < FdBlock => m.offset + Len(m.data) = m.total
<1>1. /\ m.name \in FdNames /\ m.digest \in FdContents /\ m.total \in Nat /\ m.offset \in Nat
      /\ m.data \in Seq(FdUnits) /\ Len(m.data) \in 1 .. FdBlock
      /\ m.offset + Len(m.data) <= m.total /\ \E b \in Nat : m.offset = b * FdBlock
      /\ Len(m.data) < FdBlock => m.offset + Len(m.data) = m.total
  BY DEF FdPiece
<1>2. Len(m.data) \in Nat \ {0} /\ \A p \in 1 .. Len(m.data) : m.data[p] \in FdUnits
  BY <1>1, FdBlocks
<1>3. m.data \in Seq(Nat)
  BY <1>1 DEF FdUnits
<1> QED BY <1>1, <1>2, <1>3

(* The file after get_filedata_from_message                                *)
LEMMA FdWritten ==
    ASSUME NEW d \in [FdNames -> Seq(Nat)], NEW m \in FdPiece,
           NEW s, s = IF d[m.name] = NoFile THEN <<>> ELSE d[m.name],
           NEW w, w = GetFiledata(d, m)[m.name]
    PROVE  /\ GetFiledata(d, m) \in [FdNames -> Seq(Nat)]
           /\ \A n \in FdNames \ {m.name} : GetFiledata(d, m)[n] = d[n]
           /\ Len(s) \in Nat /\ w \in Seq(Nat)
           /\ Len(w) = IF m.offset + Len(m.data) > Len(s) THEN m.offset + Len(m.data) ELSE Len(s)
           /\ \A p \in 1 .. Len(m.data) : w[m.offset + p] = m.data[p]
           /\ \A p \in 1 .. Len(s) : p <= m.offset \/ p > m.offset + Len(m.data) => w[p] = s[p]
           /\ w # NoFile
<1>1. /\ m.name \in FdNames /\ m.offset \in Nat /\ m.data \in Seq(Nat) /\ Len(m.data) \in Nat \ {0}
      /\ \A p \in 1 .. Len(m.data) : m.data[p] \in FdUnits
  BY FdPieceIs
<1>2. s \in Seq(Nat)
  <2>1. <<>> \in Seq(Nat)
    OBVIOUS
  <2>2. d[m.name] \in Seq(Nat)
    BY <1>1
  <2> QED BY <2>1, <2>2
<1> DEFINE u == WriteAt(s, m.offset, m.data)
           o == m.offset
           a == m.data
<1>3. GetFiledata(d, m) = [d EXCEPT ![m.name] = u]
  BY DEF GetFiledata
<1>4. /\ u \in Seq(Nat)
      /\ Len(u) = IF m.offset + Len(m.data) > Len(s) THEN m.offset + Len(m.data) ELSE Len(s)
      /\ \A p \in 1 .. Len(m.data) : u[m.offset + p] = m.data[p]
      /\ \A p \in 1 .. Len(s) : p <= m.offset \/ p > m.offset + Len(m.data) => u[p] = s[p]
  <2> HIDE DEF o, a
  <2>1. o \in Nat /\ a \in Seq(Nat)
    BY <1>1 DEF o, a
  <2>2. /\ WriteAt(s, o, a) \in Seq(Nat)
        /\ Len(WriteAt(s, o, a)) = IF o + Len(a) > Len(s) THEN o + Len(a) ELSE Len(s)
        /\ \A p \in 1 .. Len(a) : WriteAt(s, o, a)[o + p] = a[p]
        /\ \A p \in 1 .. Len(s) : p <= o \/ p > o + Len(a) => WriteAt(s, o, a)[p] = s[p]
    BY <1>2, <2>1, FdWriteIs
  <2> QED BY <2>2 DEF o, a
<1> HIDE DEF u, o, a
<1>5. w = u
  BY <1>1, <1>3
<1>6. u # NoFile
  <2>1. u[m.offset + 1] # 0 /\ m.offset + 1 \in 1 .. Len(u) /\ Len(s) \in Nat
    <3>1. 1 \in 1 .. Len(m.data) /\ m.data[1] # 0
      BY <1>1 DEF FdUnits
    <3>2. u[m.offset + 1] = m.data[1]
      BY <1>4, <3>1
    <3>3. Len(s) \in Nat /\ Len(u) \in Nat
      BY <1>2, <1>4
    <3>4. Len(u) >= m.offset + Len(m.data)
      BY <1>1, <1>4, <3>3
    <3> QED BY <1>1, <3>1, <3>2, <3>3, <3>4
  <2>2. NoFile = <<0>>
    BY DEF NoFile, Hole
  <2>3. ASSUME u = NoFile PROVE FALSE
    <3>1. Len(u) = 1 /\ u[1] = 0
      BY <2>2, <2>3
    <3>2. m.offset + 1 = 1
      BY <1>1, <2>1, <3>1
    <3> QED BY <2>1, <3>1, <3>2
  <2> QED BY <2>3
<1> QED BY <1>1, <1>2, <1>3, <1>4, <1>5, <1>6

(* A file all of whose blocks are on the disk is the file                  *)
LEMMA FdWholeIs ==
    ASSUME NEW r, FdRecord(r), NEW f \in Seq(Nat), FdOnDisk(r, f),
           NEW d \in FdContents, FdWhole(r, d)
    PROVE  f = d
<1>1. /\ d \in Seq(Nat) /\ Len(d) \in Nat /\ Len(f) \in Nat
      /\ r.size = Len(d) /\ r.num # 0 /\ r.clean
      /\ r.num = (r.size + FdBlock - 1) \div FdBlock
      /\ Len(f) <= Len(d)
  <2>1. d \in Seq(FdUnits)
    BY FdAssumption DEF FdUnits
  <2> QED BY <2>1 DEF FdRecord, FdWhole, FdOnDisk, FdUnits
<1>2. ASSUME NEW p \in 1 .. Len(d) PROVE p <= Len(f) /\ f[p] = d[p]
  <2> DEFINE b == (p - 1) \div FdBlock
             q == (p - 1) % FdBlock
             o == b * FdBlock
  <2>1. /\ p - 1 \in Nat /\ b \in Nat /\ q \in 0 .. FdBlock - 1 /\ p - 1 = o + q /\ o \in Nat
        /\ FdBlock \in Nat /\ FdBlock > 0
    <3>1. p - 1 \in Nat
      BY <1>1
    <3> QED BY <3>1, FdDivides, FdBlocks
  <2> HIDE DEF b, q
  <2>2. o < r.size
    BY <1>1, <2>1
  <2>3. b < r.num /\ r.num \in Nat
    BY <1>1, <2>1, <2>2, FdNumber
  <2>4. o \in DOMAIN r.got
    BY <2>1, <2>3 DEF FdWhole
  <2>5. b \in r.marks
    <3>1. PICK c \in r.marks : o = c * FdBlock
      BY <2>4 DEF FdRecord
    <3>2. c \in Nat
      BY <3>1 DEF FdRecord
    <3> QED BY <2>1, <3>1, <3>2, FdBlocks
  <2>6. r.got[o] = ReadAt(d, o, FdBlock)
    BY <2>4 DEF FdWhole
  <2> HIDE DEF o
  <2>7. /\ Len(r.got[o]) = IF o + FdBlock <= Len(d) THEN FdBlock
                           ELSE IF o <= Len(d) THEN Len(d) - o ELSE 0
        /\ \A i \in 1 .. Len(r.got[o]) : r.got[o][i] = d[o + i]
    <3>1. /\ Len(ReadAt(d, o, FdBlock)) = IF o + FdBlock <= Len(d) THEN FdBlock
                                          ELSE IF o <= Len(d) THEN Len(d) - o ELSE 0
          /\ \A i \in 1 .. Len(ReadAt(d, o, FdBlock)) :
                 ReadAt(d, o, FdBlock)[i] = d[o + i] /\ o + i <= Len(d)
      BY <1>1, <2>1, FdReadIs
    <3> QED BY <2>6, <3>1
  <2>8. q + 1 \in 1 .. Len(r.got[o]) /\ o + (q + 1) = p
    <3>1. Len(r.got[o]) = FdBlock \/ Len(r.got[o]) = Len(d) - o
      BY <1>1, <2>1, <2>7
    <3>2. o + (q + 1) = p
      BY <1>1, <2>1
    <3> QED BY <1>1, <2>1, <3>1, <3>2
  <2>9. /\ o + Len(r.got[o]) <= Len(f)
        /\ \A i \in 1 .. Len(r.got[o]) : f[o + i] = r.got[o][i]
    BY <2>5 DEF FdOnDisk, o
  <2>10. r.got[o][q + 1] = d[p] /\ f[p] = r.got[o][q + 1]
    BY <2>7, <2>8, <2>9
  <2>11. o + (q + 1) <= Len(f)
    <3>1. Len(r.got[o]) \in Nat
      BY <1>1, <2>1, <2>7
    <3>2. q + 1 <= Len(r.got[o]) /\ q \in Nat
      BY <2>1, <2>8, <3>1
    <3> QED BY <1>1, <2>1, <2>9, <3>1, <3>2
  <2> QED BY <2>8, <2>10, <2>11
<1>3. Len(f) = Len(d)
  <2>1. CASE Len(d) = 0
    BY <1>1, <2>1
  <2>2. CASE Len(d) # 0
    <3>1. Len(d) \in 1 .. Len(d)
      BY <1>1, <2>2
    <3> QED BY <1>1, <1>2, <3>1
  <2> QED BY <2>1, <2>2
<1> QED BY <1>1, <1>2, <1>3

(* All marks are set exactly when the bitmap says so                       *)
LEMMA FdAllset ==
    ASSUME NEW n \in Nat, NEW marks, \A b \in marks : b \in 0 .. n - 1,
           \A b \in 0 .. n - 1 : b \in marks
    PROVE  BitmapIsAllset(marks, n)
<1> DEFINE full == (n \div 8) * 8
<1>1. full \in Nat /\ full <= n /\ n < full + 8
  OBVIOUS
<1>2. 0..(full - 1) \subseteq marks
  BY <1>1
<1>3. \A b \in 0 .. n - 1 : b \div 8 = n \div 8 <=> b >= full
  OBVIOUS
<1>4. {b \in marks : b \div 8 = n \div 8} = full..(n - 1)
  BY <1>1, <1>3
<1> QED BY <1>2, <1>4 DEF BitmapIsAllset

(* The record of a block that arrived                                      *)
FdMarked(r, m) ==
    [r EXCEPT !.marks = r.marks \cup {m.offset \div FdBlock},
              !.clean = @ /\ r.name = m.name /\ r.size = m.total,
              !.got = [o \in DOMAIN @ \cup {m.offset} |-> IF o = m.offset THEN m.data ELSE r.got[o]]]

LEMMA FdMarkedIs ==
    ASSUME NEW r, FdRecord(r), r.num # 0, NEW m \in FdPiece
    PROVE  LET s == FdMarked(r, m)
           IN /\ FdRecord(s) /\ s.num = r.num /\ s.size = r.size /\ s.name = r.name
              /\ s.clean = (r.clean /\ r.name = m.name /\ r.size = m.total)
              /\ s.marks = r.marks \cup {m.offset \div FdBlock}
              /\ s.got = [o \in DOMAIN r.got \cup {m.offset} |->
                              IF o = m.offset THEN m.data ELSE r.got[o]]
<1> DEFINE s == FdMarked(r, m)
<1>1. r = [num |-> r.num, size |-> r.size, marks |-> r.marks, name |-> r.name,
           clean |-> r.clean, got |-> r.got]
  BY DEF FdRecord
<1>2. s = [num |-> r.num, size |-> r.size, marks |-> r.marks \cup {m.offset \div FdBlock},
           name |-> r.name, clean |-> r.clean /\ r.name = m.name /\ r.size = m.total,
           got |-> [o \in DOMAIN r.got \cup {m.offset} |-> IF o = m.offset THEN m.data ELSE r.got[o]]]
  <2> DEFINE k == r.marks \cup {m.offset \div FdBlock}
             c == r.clean /\ r.name = m.name /\ r.size = m.total
             g == [o \in DOMAIN r.got \cup {m.offset} |-> IF o = m.offset THEN m.data ELSE r.got[o]]
  <2>1. s = [r EXCEPT !.marks = k, !.clean = c, !.got = g]
    BY DEF FdMarked
  <2> HIDE DEF s, k, c, g
  <2>2. s = [num |-> r.num, size |-> r.size, marks |-> k, name |-> r.name, clean |-> c, got |-> g]
    BY <1>1, <2>1
  <2> QED BY <2>2 DEF k, c, g
<1> HIDE DEF s
<1>3. /\ s.num = r.num /\ s.size = r.size /\ s.name = r.name
      /\ s.clean = (r.clean /\ r.name = m.name /\ r.size = m.total)
      /\ s.marks = r.marks \cup {m.offset \div FdBlock}
      /\ s.got = [o \in DOMAIN r.got \cup {m.offset} |-> IF o = m.offset THEN m.data ELSE r.got[o]]
  BY <1>2
<1>4. s = [num |-> s.num, size |-> s.size, marks |-> s.marks, name |-> s.name,
           clean |-> s.clean, got |-> s.got]
  BY <1>2, <1>3
<1>5. PICK b \in Nat : m.offset = b * FdBlock
  BY FdPieceIs
<1>6. m.offset \div FdBlock = b
  BY <1>5, FdSite
<1>7. /\ DOMAIN s.got = DOMAIN r.got \cup {m.offset} /\ s.got[m.offset] = m.data
      /\ \A o \in DOMAIN r.got : s.got[o] = IF o = m.offset THEN m.data ELSE r.got[o]
  BY <1>3
<1>8. \A c \in s.marks : c \in Nat /\ c * FdBlock \in DOMAIN s.got
  BY <1>3, <1>5, <1>6, <1>7 DEF FdRecord
<1>9. \A o \in DOMAIN s.got : /\ \E c \in s.marks : o = c * FdBlock
                              /\ s.got[o] \in Seq(FdUnits) /\ Len(s.got[o]) \in 1 .. FdBlock
  <2> TAKE o \in DOMAIN s.got
  <2>1. CASE o = m.offset
    BY <1>3, <1>5, <1>6, <1>7, <2>1, FdPieceIs
  <2>2. CASE o # m.offset
    BY <1>3, <1>7, <2>2 DEF FdRecord
  <2> QED BY <2>1, <2>2
<1>10. s.clean \in BOOLEAN
  BY <1>3
<1> QED BY <1>3, <1>4, <1>8, <1>9, <1>10 DEF FdRecord, s

(* A record that is spoilt or not                                          *)
LEMMA FdSpoiltIs ==
    ASSUME FdIInv, NEW m, NEW e \in FdContents
    PROVE  LET s == Spoilt(store, m)[e]
           IN /\ DOMAIN Spoilt(store, m) = FdContents
              /\ FdRecord(s) /\ s.name = store[e].name
              /\ s = store[e] \/ ~s.clean
              /\ store[e].name = m.name /\ ~(e = m.digest /\ store[e].size = m.total) => ~s.clean
<1> DEFINE s == Spoilt(store, m)[e]
           r == store[e]
<1>1. DOMAIN store = FdContents /\ FdRecord(r)
  BY DEF FdIInv, FdTyped, FdStored
<1>2. DOMAIN Spoilt(store, m) = FdContents
  BY <1>1 DEF Spoilt
<1>3. s = IF r.name = m.name /\ ~(e = m.digest /\ r.size = m.total) THEN [r EXCEPT !.clean = FALSE]
          ELSE r
  BY <1>1 DEF Spoilt
<1> HIDE DEF s, r
<1>4. r = [num |-> r.num, size |-> r.size, marks |-> r.marks, name |-> r.name,
           clean |-> r.clean, got |-> r.got]
  BY <1>1 DEF FdRecord
<1> DEFINE t == [r EXCEPT !.clean = FALSE]
<1>5. t = [num |-> r.num, size |-> r.size, marks |-> r.marks, name |-> r.name,
           clean |-> FALSE, got |-> r.got]
  <2> DEFINE c == FALSE
  <2>1. t = [r EXCEPT !.clean = c]
    OBVIOUS
  <2> HIDE DEF c, t
  <2>2. t = [num |-> r.num, size |-> r.size, marks |-> r.marks, name |-> r.name,
             clean |-> c, got |-> r.got]
    BY <1>4, <2>1
  <2> QED BY <2>2 DEF c
<1>6. FdRecord(t) /\ t.name = r.name /\ ~t.clean
  <2> HIDE DEF t
  <2>1. /\ t.num = r.num /\ t.size = r.size /\ t.marks = r.marks /\ t.name = r.name
        /\ t.clean = FALSE /\ t.got = r.got
    BY <1>5
  <2>2. t = [num |-> t.num, size |-> t.size, marks |-> t.marks, name |-> t.name,
             clean |-> t.clean, got |-> t.got]
    BY <1>5, <2>1
  <2> QED BY <1>1, <2>1, <2>2 DEF FdRecord
<1> HIDE DEF t
<1>7. s = t \/ (s = r /\ ~(r.name = m.name /\ ~(e = m.digest /\ r.size = m.total)))
  BY <1>3 DEF t
<1> QED BY <1>1, <1>2, <1>6, <1>7 DEF s, r

(* A block that is written leaves what the other records say true          *)
LEMMA FdOther ==
    ASSUME FdIInv, NEW m \in FdPiece, NEW d \in {disk, Removed(disk, m.name)},
           disk' = GetFiledata(d, m), notices \subseteq notices',
           NEW e \in FdContents, store'[e] = Spoilt(store, m)[e],
           e # m.digest \/ m.total <= FdBlock
    PROVE  FdStored(e)'
<1> DEFINE r == store[e]
           s == store'[e]
<1>1. /\ FdRecord(s) /\ s.name = r.name /\ (s = r \/ ~s.clean)
      /\ r.name = m.name /\ ~(e = m.digest /\ r.size = m.total) => ~s.clean
  BY FdSpoiltIs
<1>2. FdRecord(r) /\ (r.clean => FdOnDisk(r, disk[r.name]))
      /\ (FdWhole(r, e) => [name |-> r.name, digest |-> e, result |-> 1] \in notices)
  BY DEF FdIInv, FdStored
<1> HIDE DEF r, s
<1>3. CASE ~s.clean
  BY <1>1, <1>3 DEF FdStored, FdWhole, s
<1>4. CASE s.clean
  <2>1. s = r /\ r.clean /\ r.num # 0 /\ r.name \in FdNames /\ r.size > FdBlock /\ r.size \in Nat
    BY <1>1, <1>2, <1>4 DEF FdRecord
  <2>2. r.name # m.name
    <3>1. SUFFICES ASSUME r.name = m.name PROVE FALSE
      OBVIOUS
    <3>2. e = m.digest /\ r.size = m.total
      BY <1>1, <1>4, <3>1
    <3> QED BY <2>1, <3>2, FdBlocks
  <2>3. disk'[r.name] = disk[r.name]
    <3>1. disk \in [FdNames -> Seq(Nat)] /\ m.name \in FdNames
      BY FdPieceIs DEF FdIInv, FdTyped
    <3>2. d[r.name] = disk[r.name]
      BY <2>1, <2>2, <3>1 DEF Removed
    <3>3. GetFiledata(d, m)[r.name] = d[r.name]
      BY <2>1, <2>2, <3>1 DEF GetFiledata, Removed
    <3> QED BY <3>2, <3>3
  <2>4. FdOnDisk(s, disk'[s.name]) /\ FdRecord(s)
    BY <1>1, <1>2, <2>1, <2>3
  <2>5. FdWhole(s, e) => [name |-> s.name, digest |-> e, result |-> 1] \in notices'
    BY <1>2, <2>1
  <2> QED BY <2>4, <2>5 DEF FdStored, s
<1> QED BY <1>3, <1>4

(* A block that is written: what the record of its file says then          *)
LEMMA FdThis ==
    ASSUME NEW m \in FdPiece, NEW d \in [FdNames -> Seq(Nat)],
           NEW r, FdRecord(r), r.num # 0, FdMarked(r, m).clean,
           NEW old, old = IF d[m.name] = NoFile THEN <<>> ELSE d[m.name],
           NEW f, f = GetFiledata(d, m)[m.name],
           \/ FdOnDisk(r, d[m.name])
           \/ r.marks = {} /\ d[m.name] = NoFile
    PROVE  FdOnDisk(FdMarked(r, m), f)
<1> DEFINE s == FdMarked(r, m)
<1>1. /\ FdRecord(s) /\ s.size = r.size
      /\ r.name = m.name /\ r.size = m.total
      /\ s.marks = r.marks \cup {m.offset \div FdBlock}
      /\ s.got = [o \in DOMAIN r.got \cup {m.offset} |-> IF o = m.offset THEN m.data ELSE r.got[o]]
  BY FdMarkedIs
<1>2. PICK b \in Nat : m.offset = b * FdBlock
  BY FdPieceIs
<1>3. m.offset \div FdBlock = b
  BY <1>2, FdSite
<1>4. /\ m.total \in Nat /\ m.offset \in Nat /\ Len(m.data) \in 1 .. FdBlock
      /\ Len(m.data) \in Nat /\ m.offset + Len(m.data) <= m.total
      /\ FdBlock \in Nat
  BY FdPieceIs, FdBlocks
<1>5. /\ Len(old) \in Nat /\ Len(f) \in Nat /\ f # NoFile
      /\ Len(f) = IF m.offset + Len(m.data) > Len(old) THEN m.offset + Len(m.data) ELSE Len(old)
      /\ \A p \in 1 .. Len(m.data) : f[m.offset + p] = m.data[p]
      /\ \A p \in 1 .. Len(old) : p <= m.offset \/ p > m.offset + Len(m.data) => f[p] = old[p]
  <2> HIDE DEF s
  <2>1. /\ Len(old) \in Nat /\ f \in Seq(Nat) /\ f # NoFile
        /\ Len(f) = IF m.offset + Len(m.data) > Len(old) THEN m.offset + Len(m.data) ELSE Len(old)
        /\ \A p \in 1 .. Len(m.data) : f[m.offset + p] = m.data[p]
        /\ \A p \in 1 .. Len(old) : p <= m.offset \/ p > m.offset + Len(m.data) => f[p] = old[p]
    BY FdWritten, SMTT(30)
  <2> QED BY <2>1
<1> HIDE DEF s
<1>6. m.offset + Len(m.data) <= s.size /\ m.offset + Len(m.data) <= Len(f) /\ Len(old) <= Len(f)
  <2>1. m.offset + Len(m.data) \in Nat /\ Len(m.data) \in Nat
    BY <1>4
  <2> QED BY <1>1, <1>4, <1>5, <2>1
<1>7. FdOnDisk(r, d[m.name]) \/ (r.marks = {} /\ old = <<>>)
  OBVIOUS
<1>8. CASE FdOnDisk(r, d[m.name])
  <2>1. old = d[m.name]
    BY <1>8 DEF FdOnDisk
  <2>2. Len(old) <= r.size
    BY <1>8, <2>1 DEF FdOnDisk
  <2>3. Len(f) <= s.size
    BY <1>1, <1>4, <1>5, <2>2
  <2>4. ASSUME NEW c \in s.marks
        PROVE  /\ c * FdBlock + Len(s.got[c * FdBlock]) <= s.size
               /\ c * FdBlock + Len(s.got[c * FdBlock]) <= Len(f)
               /\ \A p \in 1 .. Len(s.got[c * FdBlock]) : f[c * FdBlock + p] = s.got[c * FdBlock][p]
    <3>1. CASE c = b
      <4>1. c * FdBlock = m.offset /\ s.got[c * FdBlock] = m.data
        BY <1>1, <1>2, <3>1
      <4> QED BY <1>5, <1>6, <4>1
    <3>2. CASE c # b
      <4>1. c \in r.marks /\ c \in Nat
        BY <1>1, <1>3, <3>2 DEF FdRecord
      <4> DEFINE o == c * FdBlock
                 g == r.got[o]
      <4>2. o \in Nat /\ o # m.offset /\ (o + FdBlock <= m.offset \/ m.offset + FdBlock <= o)
        <5>1. c < b \/ b < c
          BY <3>2, <4>1
        <5>2. b * FdBlock \in Nat /\ o \in Nat /\ FdBlock \in Nat /\ FdBlock > 0
          BY <4>1, FdBlocks
        <5>3. o + FdBlock <= b * FdBlock \/ b * FdBlock + FdBlock <= o
          BY <4>1, <5>1, FdBlocks
        <5> HIDE DEF o, g
        <5> QED BY <1>2, <5>2, <5>3
      <4>3. o \in DOMAIN r.got /\ Len(g) \in 1 .. FdBlock
        BY <4>1 DEF FdRecord
      <4>4. s.got[o] = g
        BY <1>1, <4>2, <4>3
      <4>5. /\ o + Len(g) <= r.size /\ o + Len(g) <= Len(old)
            /\ \A p \in 1 .. Len(g) : old[o + p] = g[p]
        BY <1>8, <2>1, <4>1 DEF FdOnDisk
      <4> HIDE DEF o, g
      <4>6. Len(g) \in Nat
        BY <1>4, <4>3
      <4>7. \A p \in 1 .. Len(g) : f[o + p] = g[p]
        <5> TAKE p \in 1 .. Len(g)
        <5>1. o + p \in 1 .. Len(old) /\ (o + p <= m.offset \/ o + p > m.offset + Len(m.data))
          <6>1. p \in Nat /\ p >= 1 /\ p <= Len(g) /\ Len(g) <= FdBlock /\ o + p <= Len(old)
            BY <1>4, <1>5, <4>2, <4>3, <4>5, <4>6
          <6>2. o + p <= m.offset \/ o + p > m.offset + Len(m.data)
            BY <1>4, <4>2, <6>1
          <6> QED BY <1>5, <4>2, <6>1, <6>2
        <5>2. f[o + p] = old[o + p]
          BY <1>5, <5>1
        <5> QED BY <4>5, <5>2
      <4>9. o + Len(g) <= Len(f)
        BY <1>5, <4>2, <4>5, <4>6, <1>6
      <4> QED BY <1>1, <4>4, <4>5, <4>7, <4>9 DEF o
    <3> QED BY <3>1, <3>2
  <2> QED BY <1>5, <2>3, <2>4 DEF FdOnDisk, s
<1>9. CASE r.marks = {} /\ old = <<>>
  <2>1. Len(old) = 0
    BY <1>9
  <2>2. Len(f) = m.offset + Len(m.data)
    BY <1>4, <1>5, <2>1
  <2>3. s.marks = {b}
    BY <1>1, <1>3, <1>9
  <2>4. b * FdBlock = m.offset /\ s.got[b * FdBlock] = m.data
    BY <1>1, <1>2
  <2>5. Len(f) <= s.size
    BY <1>6, <2>2
  <2>6. \A c \in s.marks :
           /\ c * FdBlock + Len(s.got[c * FdBlock]) <= s.size
           /\ c * FdBlock + Len(s.got[c * FdBlock]) <= Len(f)
           /\ \A p \in 1 .. Len(s.got[c * FdBlock]) : f[c * FdBlock + p] = s.got[c * FdBlock][p]
    BY <1>5, <1>6, <2>3, <2>4
  <2> QED BY <1>5, <2>5, <2>6 DEF FdOnDisk, s
<1> QED BY <1>7, <1>8, <1>9

LEMMA FdMarkedDoes ==
    ASSUME NEW m, NEW d, NEW r, Marked(d, r, m)
    PROVE  LET marks == r.marks \cup {m.offset \div FdBlock}
           IN /\ disk' = GetFiledata(d, m)
              /\ store' = [Spoilt(store, m) EXCEPT ![m.digest] = FdMarked(r, m)]
              /\ notices' = IF BitmapIsAllset(marks, r.num)
                            THEN notices \cup {Notice(GetFiledata(d, m), m)} ELSE notices
BY DEF Marked, FdMarked, BitmapSet

(* The record that is new is one                                           *)
LEMMA FdNewIs ==
    ASSUME NEW m \in FdPiece, m.total # Len(m.data)
    PROVE  /\ FdRecord(NewStore(m)) /\ NewStore(m).num # 0
           /\ NewStore(m).marks = {} /\ NewStore(m).got = <<>>
           /\ NewStore(m).name = m.name /\ NewStore(m).size = m.total /\ NewStore(m).clean
<1>1. m.total \in Nat /\ m.name \in FdNames /\ FdBlock \in Nat /\ FdBlock > 0
  BY FdPieceIs, FdBlocks
<1>2. m.total > FdBlock
  <2>1. /\ m.offset \in Nat /\ Len(m.data) \in Nat /\ Len(m.data) >= 1 /\ Len(m.data) <= FdBlock
        /\ m.offset + Len(m.data) <= m.total
        /\ Len(m.data) < FdBlock => m.offset + Len(m.data) = m.total
    BY <1>1, FdPieceIs
  <2>2. PICK b \in Nat : m.offset = b * FdBlock
    BY FdPieceIs
  <2>3. CASE b = 0
    <3>1. m.offset = 0
      BY <1>1, <2>2, <2>3
    <3> QED BY <1>1, <2>1, <3>1
  <2>4. CASE b # 0
    <3>1. 0 * FdBlock + FdBlock <= b * FdBlock
      BY <2>2, <2>4, FdBlocks
    <3>2. 0 * FdBlock = 0
      BY <1>1
    <3>3. m.offset >= FdBlock
      BY <1>1, <2>1, <2>2, <3>1, <3>2
    <3> QED BY <1>1, <2>1, <3>3
  <2> QED BY <2>3, <2>4
<1> DEFINE n == (m.total + FdBlock - 1) \div FdBlock
<1>3. n \in Nat /\ n # 0
  <2>1. n \in Nat /\ \A b \in Nat : b * FdBlock < m.total <=> b < n
    BY <1>1, FdNumber
  <2>2. 0 * FdBlock < m.total
    BY <1>1, <1>2
  <2> HIDE DEF n
  <2> QED BY <2>1, <2>2
<1> DEFINE g == <<>>
           k == {}
<1>4. NewStore(m) = [num |-> n, size |-> m.total, marks |-> k, name |-> m.name, clean |-> TRUE, got |-> g]
  BY DEF NewStore
<1>5. DOMAIN g = {} /\ \A b \in k : FALSE
  OBVIOUS
<1> DEFINE s == NewStore(m)
<1> HIDE DEF n, g, k, s
<1>6. /\ s.num = n /\ s.size = m.total /\ s.marks = k /\ s.name = m.name /\ s.clean = TRUE /\ s.got = g
      /\ s = [num |-> s.num, size |-> s.size, marks |-> s.marks, name |-> s.name,
              clean |-> s.clean, got |-> s.got]
  BY <1>4 DEF s
<1>7. FdRecord(s)
  BY <1>1, <1>2, <1>3, <1>5, <1>6 DEF FdRecord, n
<1> QED BY <1>3, <1>6, <1>7 DEF s, g, k

LEMMA FdMarkedStep ==
    ASSUME FdIInv, NEW m \in FdPiece, m.total # Len(m.data), NEW d, NEW r, Marked(d, r, m),
           \/ r = store[m.digest] /\ d = disk /\ r.num # 0
           \/ r = NewStore(m) /\ d = Removed(disk, m.name)
    PROVE  /\ \A e \in FdContents : FdStored(e)'
           /\ disk' \in [FdNames -> Seq(Nat)] /\ DOMAIN store' = FdContents
           /\ \A x \in notices' : x.name \in FdNames /\ x.digest \in FdContents /\ x.result \in {0, 1}
<1> DEFINE s == FdMarked(r, m)
           w == GetFiledata(d, m)
           old == IF d[m.name] = NoFile THEN <<>> ELSE d[m.name]
           f == w[m.name]
<1>1. /\ disk' = w
      /\ store' = [Spoilt(store, m) EXCEPT ![m.digest] = s]
      /\ notices' = IF BitmapIsAllset(s.marks, r.num) THEN notices \cup {Notice(w, m)} ELSE notices
      /\ FdRecord(r) /\ r.num # 0 /\ s.marks = r.marks \cup {m.offset \div FdBlock}
  <2>1. FdRecord(r) /\ r.num # 0
    <3>1. CASE r = store[m.digest] /\ r.num # 0
      BY <3>1, FdPieceIs DEF FdIInv, FdStored
    <3>2. CASE r = NewStore(m)
      BY <3>2, FdNewIs
    <3> QED BY <3>1, <3>2
  <2>2. s.marks = r.marks \cup {m.offset \div FdBlock}
    BY <2>1, FdMarkedIs
  <2>3. /\ disk' = w
        /\ store' = [Spoilt(store, m) EXCEPT ![m.digest] = s]
        /\ notices' = IF BitmapIsAllset(r.marks \cup {m.offset \div FdBlock}, r.num)
                      THEN notices \cup {Notice(w, m)} ELSE notices
    BY FdMarkedDoes
  <2> HIDE DEF s, w, old, f
  <2> QED BY <2>1, <2>2, <2>3
<1>2. disk \in [FdNames -> Seq(Nat)] /\ m.name \in FdNames /\ m.digest \in FdContents
      /\ DOMAIN Spoilt(store, m) = FdContents
  BY FdPieceIs, FdSpoiltIs DEF FdIInv, FdTyped
<1>3. d \in [FdNames -> Seq(Nat)] /\ d \in {disk, Removed(disk, m.name)}
  <2>1. NoFile \in Seq(Nat)
    BY DEF NoFile, Hole
  <2> QED BY <1>2, <2>1 DEF Removed
<1>4. /\ w \in [FdNames -> Seq(Nat)] /\ f \in Seq(Nat) /\ f # NoFile
  <2> HIDE DEF old
  <2>1. old = IF d[m.name] = NoFile THEN <<>> ELSE d[m.name]
    BY DEF old
  <2> QED BY <1>3, <2>1, FdWritten
<1>5. notices \subseteq notices'
  BY <1>1
<1>6. /\ DOMAIN store' = FdContents /\ store'[m.digest] = s
      /\ \A e \in FdContents \ {m.digest} : store'[e] = Spoilt(store, m)[e]
  BY <1>1, <1>2
<1>7. \A x \in notices' : x.name \in FdNames /\ x.digest \in FdContents /\ x.result \in {0, 1}
  <2>1. \A x \in notices : x.name \in FdNames /\ x.digest \in FdContents /\ x.result \in {0, 1}
    BY DEF FdIInv, FdTyped
  <2>2. Notice(w, m).name = m.name /\ Notice(w, m).digest = m.digest /\ Notice(w, m).result \in {0, 1}
    BY DEF Notice
  <2> QED BY <1>1, <1>2, <2>1, <2>2
<1> HIDE DEF s, w, f
<1>8. ASSUME NEW e \in FdContents \ {m.digest} PROVE FdStored(e)'
  BY <1>1, <1>3, <1>5, <1>6, FdOther DEF w
<1>9. /\ FdRecord(s) /\ s.num = r.num /\ s.size = r.size /\ s.name = r.name
      /\ s.clean = (r.clean /\ r.name = m.name /\ r.size = m.total)
  BY <1>1, FdMarkedIs DEF s
<1>10. ASSUME s.clean PROVE FdOnDisk(s, f) /\ s.name = m.name
  <2>1. \/ FdOnDisk(r, d[m.name])
        \/ r.marks = {} /\ d[m.name] = NoFile
    <3>1. CASE r = store[m.digest] /\ d = disk
      BY <1>2, <1>9, <1>10, <3>1 DEF FdIInv, FdStored
    <3>2. CASE r = NewStore(m) /\ d = Removed(disk, m.name)
      BY <1>2, <3>2, FdNewIs DEF Removed
    <3> QED BY <3>1, <3>2
  <2>2. old = IF d[m.name] = NoFile THEN <<>> ELSE d[m.name]
    OBVIOUS
  <2> HIDE DEF old
  <2>3. FdOnDisk(FdMarked(r, m), f)
    BY <1>1, <1>3, <1>10, <2>1, <2>2, FdThis DEF s, w, f
  <2> QED BY <1>9, <1>10, <2>3 DEF s
<1>11. ASSUME FdWhole(s, m.digest)
       PROVE  [name |-> s.name, digest |-> m.digest, result |-> 1] \in notices'
  <2>1. s.clean /\ FdOnDisk(s, f) /\ s.name = m.name
    BY <1>10, <1>11 DEF FdWhole
  <2>2. f = m.digest
    BY <1>2, <1>4, <1>9, <1>11, <2>1, FdWholeIs
  <2>3. BitmapIsAllset(s.marks, r.num)
    <3>1. /\ r.num \in Nat /\ r.num = (r.size + FdBlock - 1) \div FdBlock /\ r.size \in Nat
          /\ s.num = r.num /\ s.size = r.size
      BY <1>1, <1>9 DEF FdRecord
    <3>2. ASSUME NEW b \in s.marks PROVE b \in 0 .. r.num - 1
      <4>1. b \in Nat /\ b * FdBlock \in Nat /\ b * FdBlock \in DOMAIN s.got
        BY <1>9, <3>2, FdBlocks DEF FdRecord
      <4>2. Len(s.got[b * FdBlock]) \in Nat /\ Len(s.got[b * FdBlock]) >= 1
        BY <1>9, <4>1, FdBlocks DEF FdRecord
      <4>3. b * FdBlock + Len(s.got[b * FdBlock]) <= s.size
        BY <2>1, <3>2 DEF FdOnDisk
      <4>4. b * FdBlock < r.size
        BY <3>1, <4>1, <4>2, <4>3
      <4>5. b < r.num
        BY <3>1, <4>1, <4>4, FdNumber
      <4> QED BY <3>1, <4>1, <4>5
    <3>3. ASSUME NEW b \in 0 .. r.num - 1 PROVE b \in s.marks
      <4>1. b * FdBlock \in DOMAIN s.got
        BY <1>11, <3>1 DEF FdWhole
      <4>2. PICK c \in s.marks : b * FdBlock = c * FdBlock
        BY <1>9, <4>1 DEF FdRecord
      <4>3. c \in Nat /\ b \in Nat
        BY <1>9, <4>2 DEF FdRecord
      <4> QED BY <4>2, <4>3, FdBlocks
    <3> QED BY <3>1, <3>2, <3>3, FdAllset
  <2>4. Notice(w, m) = [name |-> m.name, digest |-> m.digest, result |-> 1]
    <3>1. Samefile(w, m.name, m.digest) = "same"
      BY <1>4, <2>2 DEF Samefile, f
    <3> QED BY <3>1 DEF Notice
  <2> QED BY <1>1, <2>1, <2>3, <2>4
<1>12. FdStored(m.digest)'
  <2>1. disk'[s.name] = w[s.name]
    BY <1>1
  <2>2. s.clean => FdOnDisk(s, disk'[s.name])
    BY <1>10, <2>1 DEF f
  <2> QED BY <1>6, <1>9, <1>11, <2>2 DEF FdStored
<1> QED BY <1>1, <1>2, <1>4, <1>6, <1>7, <1>8, <1>12

(* A file in one block                                                     *)
LEMMA FdSingleStep ==
    ASSUME FdIInv, NEW m \in FdPiece, m.total = Len(m.data), ReceiveSingle(m)
    PROVE  /\ \A e \in FdContents : FdStored(e)'
           /\ disk' \in [FdNames -> Seq(Nat)] /\ DOMAIN store' = FdContents
           /\ \A x \in notices' : x.name \in FdNames /\ x.digest \in FdContents /\ x.result \in {0, 1}
<1>1. /\ disk \in [FdNames -> Seq(Nat)] /\ m.name \in FdNames /\ m.digest \in FdContents
      /\ DOMAIN store = FdContents /\ m.total <= FdBlock
      /\ \A x \in notices : x.name \in FdNames /\ x.digest \in FdContents /\ x.result \in {0, 1}
  BY FdPieceIs, FdBlocks DEF FdIInv, FdTyped
<1>2. CASE Samefile(disk, m.name, m.digest) = "same"
  <2>1. /\ notices' = notices \cup {[name |-> m.name, digest |-> m.digest, result |-> 0]}
        /\ disk' = disk /\ store' = store
    BY <1>2 DEF ReceiveSingle
  <2>2. ASSUME NEW e \in FdContents PROVE FdStored(e)'
    <3>1. FdStored(e)
      BY DEF FdIInv
    <3> QED BY <2>1, <3>1 DEF FdStored
  <2> QED BY <1>1, <2>1, <2>2
<1>3. CASE Samefile(disk, m.name, m.digest) # "same"
  <2>1. PICK d \in {disk, Removed(disk, m.name)} :
            /\ disk' = GetFiledata(d, m)
            /\ notices' = notices \cup {Notice(disk', m)}
            /\ store' = Spoilt(store, m)
    BY <1>3 DEF ReceiveSingle
  <2>2. d \in [FdNames -> Seq(Nat)]
    <3>1. NoFile \in Seq(Nat)
      BY DEF NoFile, Hole
    <3> QED BY <1>1, <2>1, <3>1 DEF Removed
  <2>3. GetFiledata(d, m) \in [FdNames -> Seq(Nat)]
    BY <2>2, FdWritten
  <2>4. DOMAIN store' = FdContents
    BY <1>1, <2>1 DEF Spoilt
  <2>5. \A e \in FdContents : FdStored(e)'
    BY <1>1, <2>1, FdOther
  <2>6. /\ Notice(disk', m).name = m.name /\ Notice(disk', m).digest = m.digest
        /\ Notice(disk', m).result \in {0, 1}
    BY DEF Notice
  <2> QED BY <1>1, <2>1, <2>3, <2>4, <2>5, <2>6
<1> QED BY <1>2, <1>3

LEMMA FdReceiveStep ==
    ASSUME FdIInv, NEW m \in air, Receive(m)
    PROVE  FdIInv'
<1>1. m \in FdPiece
  BY DEF FdIInv, FdTyped
<1>2. /\ \A e \in FdContents : FdStored(e)'
      /\ disk' \in [FdNames -> Seq(Nat)] /\ DOMAIN store' = FdContents
      /\ \A x \in notices' : x.name \in FdNames /\ x.digest \in FdContents /\ x.result \in {0, 1}
  <2>1. CASE m.total = Len(m.data)
    BY <1>1, <2>1, FdSingleStep DEF Receive
  <2>2. CASE m.total # Len(m.data)
    <3>1. CASE store[m.digest].num # 0 /\ Marked(disk, store[m.digest], m)
      BY <1>1, <2>2, <3>1, FdMarkedStep
    <3>2. CASE Marked(Removed(disk, m.name), NewStore(m), m)
      BY <1>1, <2>2, <3>2, FdMarkedStep
    <3>3. CASE UNCHANGED <<disk, store, notices>>
      <4>1. ASSUME NEW e \in FdContents PROVE FdStored(e)'
        <5>1. FdStored(e)
          BY DEF FdIInv
        <5> QED BY <3>3, <5>1 DEF FdStored
      <4> QED BY <3>3, <4>1 DEF FdIInv, FdTyped
    <3> QED BY <2>2, <3>1, <3>2, <3>3 DEF Receive, ReceiveBlock
  <2> QED BY <2>1, <2>2
<1>3. air' \subseteq air /\ src' = src /\ snd' = snd
  BY DEF Receive
<1> QED BY <1>2, <1>3 DEF FdIInv, FdTyped

(* What the sender does leaves disk, records and notices                   *)
LEMMA FdSame ==
    ASSUME FdIInv, UNCHANGED <<disk, store, notices>>
    PROVE  \A e \in FdContents : FdStored(e)'
<1> TAKE e \in FdContents
<1>1. FdStored(e)
  BY DEF FdIInv
<1> QED BY <1>1 DEF FdStored

LEMMA FdRequestStep ==
    ASSUME FdIInv, NEW r \in FdRequests, Request(r)
    PROVE  FdIInv'
<1>1. r \in Seq(FdNames)
  <2>1. CASE r \in {<<n>> : n \in FdNames}
    BY <2>1
  <2>2. CASE r \in FdNames \X FdNames
    <3>1. PICK a \in FdNames, b \in FdNames : r = <<a, b>>
      BY <2>2
    <3> QED BY <3>1
  <2> QED BY <2>1, <2>2 DEF FdRequests
<1>2. snd' = [at |-> "stat", todo |-> r, size |-> 0, digest |-> <<>>, i |-> 0]
  BY DEF Request, SndIdle
<1>3. snd' \in FdSnd /\ snd'.at = "stat"
  BY <1>1, <1>2 DEF FdSnd
<1> QED BY <1>3, FdSame DEF FdIInv, FdTyped, Request

LEMMA FdSendStatStep ==
    ASSUME FdIInv, SendStat
    PROVE  FdIInv'
<1>1. snd \in FdSnd /\ src \in [FdNames -> FdContents \cup {NoFile}]
  BY DEF FdIInv, FdTyped
<1>2. CASE snd' = SndIdle
  <2>1. snd' \in FdSnd /\ snd'.at = "idle"
    BY <1>2 DEF SndIdle, FdSnd
  <2> QED BY <2>1, FdSame DEF FdIInv, FdTyped, SendStat
<1>3. CASE snd' # SndIdle
  <2>1. /\ snd.todo # <<>>
        /\ snd' = [snd EXCEPT !.at = "digest", !.size = Len(src[Head(snd.todo)])]
    BY <1>3 DEF SendStat
  <2>2. Len(src[Head(snd.todo)]) \in Nat
    <3>1. Head(snd.todo) \in FdNames
      BY <1>1, <2>1 DEF FdSnd
    <3>2. NoFile \in Seq(Nat) /\ \A c \in FdContents : c \in Seq(FdUnits)
      BY FdAssumption DEF NoFile, Hole, FdUnits
    <3>3. src[Head(snd.todo)] \in FdContents \/ src[Head(snd.todo)] = NoFile
      BY <1>1, <3>1
    <3> QED BY <3>2, <3>3
  <2>3. snd' \in FdSnd /\ snd'.at = "digest" /\ snd'.todo # <<>>
    BY <1>1, <2>1, <2>2 DEF FdSnd
  <2> QED BY <2>3, FdSame DEF FdIInv, FdTyped, SendStat
<1> QED BY <1>2, <1>3

LEMMA FdSendDigestStep ==
    ASSUME FdIInv, SendDigest
    PROVE  FdIInv'
<1>1. snd \in FdSnd /\ src \in [FdNames -> FdContents \cup {NoFile}] /\ snd.todo # <<>>
  BY DEF FdIInv, FdTyped, SendDigest
<1>2. CASE snd' = SndIdle
  <2>1. snd' \in FdSnd /\ snd'.at = "idle"
    BY <1>2 DEF SndIdle, FdSnd
  <2> QED BY <2>1, FdSame DEF FdIInv, FdTyped, SendDigest
<1>3. CASE snd' # SndIdle
  <2>1. /\ src[Head(snd.todo)] # NoFile
        /\ snd' = [snd EXCEPT !.at = "block", !.digest = src[Head(snd.todo)], !.i = 0]
    BY <1>3 DEF SendDigest
  <2>2. src[Head(snd.todo)] \in FdContents
    <3>1. Head(snd.todo) \in FdNames
      BY <1>1 DEF FdSnd
    <3> QED BY <1>1, <2>1, <3>1
  <2>3. /\ snd' \in FdSnd /\ snd'.at = "block" /\ snd'.todo = snd.todo /\ snd'.size = snd.size
        /\ snd'.digest \in FdContents /\ snd'.i = 0
    BY <1>1, <2>1, <2>2 DEF FdSnd
  <2>4. snd.size \div FdBlock \in Nat
    BY <1>1, FdDivides DEF FdSnd
  <2>5. src' = src
    BY DEF SendDigest
  <2> QED BY <1>1, <2>1, <2>3, <2>4, <2>5, FdSame DEF FdIInv, FdTyped, SendDigest
<1> QED BY <1>2, <1>3

LEMMA FdSendBlockStep ==
    ASSUME FdIInv, SendBlock
    PROVE  FdIInv'
<1> DEFINE name == Head(snd.todo)
           offset == snd.i * FdBlock
           size == IF snd.i < snd.size \div FdBlock THEN FdBlock ELSE snd.size % FdBlock
           data == ReadAt(src[name], offset, size)
           piece == [name |-> name, digest |-> snd.digest, total |-> snd.size,
                     offset |-> offset, data |-> data]
           q == snd.size \div FdBlock
<1>1. /\ snd \in FdSnd /\ src \in [FdNames -> FdContents \cup {NoFile}] /\ snd.todo # <<>>
      /\ snd.digest \in FdContents /\ src[name] # NoFile /\ snd.i <= q
      /\ snd.size \in Nat /\ snd.i \in Nat /\ snd.todo \in Seq(FdNames)
  BY DEF FdIInv, FdTyped, SendBlock, FdSnd
<1>2. name \in FdNames /\ Tail(snd.todo) \in Seq(FdNames)
  BY <1>1
<1>3. src[name] \in Seq(FdUnits)
  BY <1>1, <1>2, FdAssumption DEF FdUnits
<1>4. /\ q \in Nat /\ snd.size % FdBlock \in 0 .. FdBlock - 1
      /\ snd.size = q * FdBlock + (snd.size % FdBlock)
      /\ FdBlock \in Nat /\ FdBlock > 0 /\ offset \in Nat
  BY <1>1, FdDivides, FdBlocks
<1>5. /\ size \in 0 .. FdBlock /\ offset + size <= snd.size
      /\ size < FdBlock => offset + size = snd.size
      /\ size = FdBlock => snd.i < q
  <2>1. CASE snd.i < q
    <3>1. size = FdBlock
      BY <2>1
    <3>2. offset + FdBlock <= q * FdBlock /\ q * FdBlock \in Nat
      BY <1>1, <1>4, <2>1, FdBlocks
    <3> HIDE DEF size, offset, q
    <3>3. offset + FdBlock <= snd.size
      BY <1>4, <3>2
    <3> QED BY <1>4, <2>1, <3>1, <3>3
  <2>2. CASE ~(snd.i < q)
    <3>1. size = snd.size % FdBlock /\ snd.i = q
      <4>1. size = snd.size % FdBlock
        BY <2>2
      <4> HIDE DEF size, offset, q
      <4>2. snd.i \in Nat /\ snd.i <= q
        BY <1>1
      <4>3. q \in Nat
        BY <1>4
      <4>4. snd.i = q
        BY <2>2, <4>2, <4>3
      <4> QED BY <4>1, <4>4
    <3>2. offset = q * FdBlock
      BY <3>1
    <3> HIDE DEF size, offset, q
    <3> QED BY <1>4, <3>1, <3>2
  <2> QED BY <2>1, <2>2
<1> HIDE DEF size, offset, q, data, piece
<1>6. CASE snd' = [SndIdle EXCEPT !.at = "stat", !.todo = Tail(snd.todo)] /\ air' = air
  <2>1. snd' \in FdSnd /\ snd'.at = "stat"
    BY <1>2, <1>6 DEF SndIdle, FdSnd
  <2> QED BY <1>6, <2>1, FdSame DEF FdIInv, FdTyped, SendBlock
<1>7. CASE snd' = SndIdle /\ air' = air
  <2>1. snd' \in FdSnd /\ snd'.at = "idle"
    BY <1>7 DEF SndIdle, FdSnd
  <2> QED BY <1>7, <2>1, FdSame DEF FdIInv, FdTyped, SendBlock
<1>8. CASE /\ size > 0 /\ Len(data) = size
           /\ air' = air \cup {piece}
           /\ snd' = IF size < FdBlock THEN [SndIdle EXCEPT !.at = "stat", !.todo = Tail(snd.todo)]
                     ELSE [snd EXCEPT !.i = @ + 1]
  <2>1. piece \in FdPiece
    <3>1. data \in Seq(FdUnits)
      <4>1. size \in Nat
        BY <1>4, <1>5
      <4>2. ReadAt(src[name], offset, size) \in Seq(FdUnits)
        BY <1>3, <1>4, <4>1, FdReadIs
      <4> QED BY <4>2 DEF data
    <3>2. /\ piece.name = name /\ piece.digest = snd.digest /\ piece.total = snd.size
          /\ piece.offset = offset /\ piece.data = data
          /\ piece \in [name : FdNames, digest : FdContents, total : Nat, offset : Nat, data : Seq(FdUnits)]
      BY <1>1, <1>2, <1>4, <3>1 DEF piece
    <3>3. \E b \in Nat : piece.offset = b * FdBlock
      BY <1>1, <3>2 DEF offset
    <3>4. /\ Len(piece.data) \in 1 .. FdBlock /\ piece.offset + Len(piece.data) <= piece.total
          /\ Len(piece.data) < FdBlock => piece.offset + Len(piece.data) = piece.total
      <4>1. Len(piece.data) = size /\ size \in 1 .. FdBlock
        BY <1>4, <1>5, <1>8, <3>2
      <4> QED BY <1>5, <3>2, <4>1
    <3> QED BY <3>2, <3>3, <3>4 DEF FdPiece
  <2>2. \A m \in air' : m \in FdPiece
    BY <1>8, <2>1 DEF FdIInv, FdTyped
  <2>3. CASE size < FdBlock
    <3>1. snd' \in FdSnd /\ snd'.at = "stat"
      BY <1>2, <1>8, <2>3 DEF SndIdle, FdSnd
    <3> QED BY <2>2, <3>1, FdSame DEF FdIInv, FdTyped, SendBlock
  <2>4. CASE ~(size < FdBlock)
    <3>1. /\ snd' \in FdSnd /\ snd'.at = snd.at /\ snd'.todo = snd.todo /\ snd'.size = snd.size
          /\ snd'.digest = snd.digest /\ snd'.i = snd.i + 1
      BY <1>1, <1>8, <2>4 DEF FdSnd
    <3>2. snd.i + 1 <= q
      BY <1>1, <1>4, <1>5, <2>4
    <3>3. src' = src
      BY DEF SendBlock
    <3> QED BY <1>1, <2>2, <3>1, <3>2, <3>3, FdSame DEF FdIInv, FdTyped, SendBlock, q
  <2> QED BY <2>3, <2>4
<1>9. \/ snd' = [SndIdle EXCEPT !.at = "stat", !.todo = Tail(snd.todo)] /\ air' = air
      \/ snd' = SndIdle /\ air' = air
      \/ /\ size > 0 /\ Len(data) = size
         /\ air' = air \cup {piece}
         /\ snd' = IF size < FdBlock THEN [SndIdle EXCEPT !.at = "stat", !.todo = Tail(snd.todo)]
                   ELSE [snd EXCEPT !.i = @ + 1]
  BY DEF SendBlock, size, offset, data, piece
<1> QED BY <1>6, <1>7, <1>8, <1>9

LEMMA FdFaultSteps ==
    ASSUME FdIInv,
           \/ \E m \in air : Lose(m)
           \/ \E n \in FdNames, c \in FdContents \cup {NoFile} : EditSource(n, c)
           \/ RestartReceiver
    PROVE  FdIInv'
<1>1. CASE \E m \in air : Lose(m)
  BY <1>1, FdSame DEF FdIInv, FdTyped, Lose
<1>2. CASE \E n \in FdNames, c \in FdContents \cup {NoFile} : EditSource(n, c)
  <2>1. PICK n \in FdNames, c \in FdContents \cup {NoFile} : EditSource(n, c)
    BY <1>2
  <2>2. /\ src \in [FdNames -> FdContents \cup {NoFile}]
        /\ src' = [src EXCEPT ![n] = c]
        /\ c = NoFile => ~(snd.at = "block" /\ Head(snd.todo) = n)
    BY <2>1 DEF EditSource, FdIInv, FdTyped
  <2>3. src' \in [FdNames -> FdContents \cup {NoFile}]
    BY <2>2
  <2>4. ASSUME snd.at = "block" PROVE src'[Head(snd.todo)] # NoFile
    <3>1. Head(snd.todo) \in FdNames /\ src[Head(snd.todo)] # NoFile
      BY <2>4 DEF FdIInv, FdTyped, FdSnd
    <3> QED BY <2>2, <2>4, <3>1
  <2>5. UNCHANGED <<snd, air, disk, store, notices>>
    BY <2>1 DEF EditSource
  <2> QED BY <2>3, <2>4, <2>5, FdSame DEF FdIInv, FdTyped
<1>3. CASE RestartReceiver
  <2>1. DOMAIN store' = FdContents /\ \A e \in FdContents : store'[e] = NoStore
    BY <1>3 DEF RestartReceiver, FdIInv, FdTyped
  <2>2. FdRecord(NoStore) /\ NoStore.clean = FALSE
    BY DEF FdRecord, NoStore
  <2>3. \A e \in FdContents : FdStored(e)'
    BY <2>1, <2>2 DEF FdStored, FdWhole
  <2> QED BY <1>3, <2>1, <2>3 DEF FdIInv, FdTyped, RestartReceiver
<1> QED BY <1>1, <1>2, <1>3

LEMMA FdInitHolds == FdInit => FdIInv
<1> SUFFICES ASSUME FdInit PROVE FdIInv
  OBVIOUS
<1>1. NoFile \in Seq(Nat) /\ \A c \in FdContents : c \in Seq(Nat)
  <2>1. \A c \in FdContents : c \in Seq(Nat \ {0})
    BY FdAssumption
  <2> QED BY <2>1 DEF NoFile, Hole
<1>2. disk \in [FdNames -> Seq(Nat)]
  BY <1>1 DEF FdInit
<1>3. snd \in FdSnd /\ snd.at = "idle"
  BY DEF FdInit, SndIdle, FdSnd
<1>4. FdRecord(NoStore) /\ NoStore.clean = FALSE
  BY DEF FdRecord, NoStore
<1>5. DOMAIN store = FdContents /\ \A d \in FdContents : store[d] = NoStore
  BY DEF FdInit
<1>6. \A d \in FdContents : FdStored(d)
  BY <1>4, <1>5 DEF FdStored, FdWhole
<1> QED BY <1>2, <1>3, <1>5, <1>6 DEF FdInit, FdIInv, FdTyped

LEMMA FdStepHolds == FdIInv /\ [FdNext]_fdvars => FdIInv'
<1> SUFFICES ASSUME FdIInv, [FdNext]_fdvars PROVE FdIInv'
  OBVIOUS
<1>1. CASE UNCHANGED fdvars
  BY <1>1, FdSame DEF fdvars, FdIInv, FdTyped
<1>2. CASE FdNext
  BY <1>2, FdRequestStep, FdSendStatStep, FdSendDigestStep, FdSendBlockStep, FdReceiveStep,
     FdFaultSteps DEF FdNext
<1> QED BY <1>1, <1>2

LEMMA FdFollows == FdIInv => FdRecordsTrue
<1> SUFFICES ASSUME FdIInv PROVE FdRecordsTrue
  OBVIOUS
<1>1. ASSUME NEW d \in FdContents
      PROVE  /\ FdRecord(store[d])
             /\ store[d].clean => FdOnDisk(store[d], disk[store[d].name])
             /\ FdWhole(store[d], d) =>
                    [name |-> store[d].name, digest |-> d, result |-> 1] \in notices
             /\ store[d].clean => store[d].name \in FdNames /\ disk[store[d].name] \in Seq(Nat)
  BY DEF FdIInv, FdTyped, FdStored, FdRecord
<1>2. FdTypeOK
  <2>1. snd.at \in {"idle", "stat", "digest", "block"}
    BY DEF FdIInv, FdTyped, FdSnd
  <2>2. \A m \in air : m.offset + Len(m.data) <= m.total /\ Len(m.data) > 0
    <3> TAKE m \in air
    <3>1. m \in FdPiece
      BY DEF FdIInv, FdTyped
    <3> QED BY <3>1, FdPieceIs
  <2>3. ASSUME NEW d \in FdContents, NEW o \in DOMAIN store[d].got
        PROVE  o \div FdBlock \in store[d].marks
    <3>1. PICK b \in store[d].marks : o = b * FdBlock
      BY <1>1, <2>3 DEF FdRecord
    <3>2. b \in Nat
      BY <1>1, <2>3, <3>1 DEF FdRecord
    <3> QED BY <3>1, <3>2, FdSite
  <2> QED BY <2>1, <2>2, <2>3 DEF FdTypeOK, FdIInv, FdTyped
<1>3. FdMarksTrue
  <2>1. SUFFICES ASSUME NEW d \in FdContents, store[d].clean, NEW b \in store[d].marks
                 PROVE  /\ disk[store[d].name] # NoFile
                        /\ ReadAt(disk[store[d].name], b * FdBlock, Len(store[d].got[b * FdBlock]))
                               = store[d].got[b * FdBlock]
    BY DEF FdMarksTrue
  <2> DEFINE f == disk[store[d].name]
             o == b * FdBlock
             g == store[d].got[o]
  <2>2. f \in Seq(Nat) /\ f # NoFile /\ o + Len(g) <= Len(f)
        /\ \A p \in 1 .. Len(g) : f[o + p] = g[p]
    BY <1>1, <2>1 DEF FdOnDisk
  <2>3. o \in Nat /\ o \in DOMAIN store[d].got
    BY <1>1, FdBlocks DEF FdRecord
  <2>4. g \in Seq(Nat) /\ Len(g) \in Nat
    <3>1. g \in Seq(FdUnits)
      BY <1>1, <2>3 DEF FdRecord
    <3> QED BY <3>1 DEF FdUnits
  <2> HIDE DEF f, o, g
  <2>5. /\ ReadAt(f, o, Len(g)) \in Seq(Nat) /\ Len(ReadAt(f, o, Len(g))) = Len(g)
        /\ \A p \in 1 .. Len(ReadAt(f, o, Len(g))) : ReadAt(f, o, Len(g))[p] = f[o + p]
    <3>1. /\ ReadAt(f, o, Len(g)) \in Seq(Nat)
          /\ Len(ReadAt(f, o, Len(g))) = IF o + Len(g) <= Len(f) THEN Len(g)
                                         ELSE IF o <= Len(f) THEN Len(f) - o ELSE 0
          /\ \A p \in 1 .. Len(ReadAt(f, o, Len(g))) :
                 ReadAt(f, o, Len(g))[p] = f[o + p] /\ o + p <= Len(f)
      BY <2>2, <2>3, <2>4, FdReadIs
    <3> QED BY <2>2, <3>1
  <2> DEFINE h == ReadAt(f, o, Len(g))
  <2> HIDE DEF h
  <2>6. h = g
    <3>1. h \in Seq(Nat) /\ Len(h) = Len(g) /\ \A p \in 1 .. Len(g) : h[p] = g[p]
      BY <2>2, <2>5 DEF h
    <3> QED BY <2>4, <3>1
  <2> QED BY <2>2, <2>6 DEF f, o, g, h
<1>4. FdCompleteNoticed
  <2>1. ASSUME NEW d \in FdContents, FdWhole(store[d], d)
        PROVE  /\ disk[store[d].name] = d
               /\ [name |-> store[d].name, digest |-> d, result |-> 1] \in notices
    <3>1. store[d].clean
      BY <2>1 DEF FdWhole
    <3> QED BY <1>1, <2>1, <3>1, FdWholeIs
  <2> QED BY <2>1 DEF FdCompleteNoticed, FdWhole
<1> QED BY <1>2, <1>3, <1>4 DEF FdRecordsTrue

(* As long as no other version is written under its name, the record of a  *)
(* file tells which blocks are on the disk; and once all of them arrived,  *)
(* in any order and over any number of requests, losses and restarts, the  *)
(* file is complete and has its notice (proc_file_receive).                *)
THEOREM RecordsTrueCorrect == FdSpec => []FdRecordsTrue
BY FdInitHolds, FdStepHolds, FdFollows, PTL DEF FdSpec
=============================================================================
