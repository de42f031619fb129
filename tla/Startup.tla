------------------------------- MODULE Startup -------------------------------
(***************************************************************************)
(* The life of an instance: main reads the base definitions and the        *)
(* configuration, makes the connector and the router module, loads the     *)
(* plugins, starts a thread for each module and joins the threads.  The    *)
(* threads run beside it: a plugin sends a message as soon as it runs and  *)
(* may end, the router hands messages on, and all end with the process     *)
(* when main returns.                                                      *)
(*                                                                         *)
(* What the files hold and what the functions of a plugin return is chosen *)
(* when it is read.                                                        *)
(***************************************************************************)
EXTENDS Integers, Sequences, SequencesExt, FiniteSetsExt

CONSTANTS SuBase,        \* number of base definition files
          SuFiles,       \* lists of define files that a library may have
          SuPlugins,     \* descriptions of plugins
          SuMaxPlugins   \* bound: plugins of an instance

(* A define file is a function from where it is looked for (0 is the       *)
(* working directory, then the parts of CUBE_DEFINE_PATH) to what          *)
(* read_json_file returns there: -1, or the number of its records.         *)
IsDefineFile(f) ==
    /\ Max(DOMAIN f) \in Nat /\ DOMAIN f = 0 .. Max(DOMAIN f)
    /\ \A w \in DOMAIN f : f[w] \in Int

ASSUME SuAssumption ==
    /\ SuBase \in Nat \ {0}
    /\ \A p \in SuPlugins : \A k \in 1 .. Len(p.files) : IsDefineFile(p.files[k])
    /\ \A p \in SuPlugins : Len(p.files) \in Nat

VARIABLES
    pc,       \* where main is
    base,     \* base definition files read
    lib,      \* lib_para of the instance: "none" without sys_config
    mods,     \* ex_module_list: [name, type, init, start, thread, out]
    turn,     \* the module that a loop of main is at
    state,    \* "init" or "local" (PROC_LOCAL_START)
    why,      \* why main returned
    refused   \* plugins that were not added: [plugin, why]

suvars == <<pc, base, lib, mods, turn, state, why, refused>>

Running == pc # "exit"
Module(name, type, init, start) ==
    [name |-> name, type |-> type, init |-> init, start |-> start, thread |-> "none", out |-> "none"]

Return(reason) == pc' = "exit" /\ why' = reason

-----------------------------------------------------------------------------
(* read_sys_cfg.  A single define file is taken where it is there, one of  *)
(* an array where it has records; otherwise the last place decides.        *)
DefineRet_Here(file, least) == file[0]

DefineRet(file, least) ==
    LET last == Max(DOMAIN file)
        good == {k \in 1 .. last : file[k] >= least}
    IN IF file[0] >= 0 THEN file[0]
       ELSE IF good # {} THEN file[Min(good)] ELSE file[last]

(* The result for the last file is the result of all. *)
DefineFiles(files) ==
    IF files = <<>> THEN 0
    ELSE DefineRet(Last(files), IF Len(files) = 1 THEN 0 ELSE 1)

ReadSysCfg(desc) ==
    CASE ~desc.wellformed -> "format"
      [] ~desc.template -> "template"
      [] DefineFiles(desc.files) < 0 -> "define"
      [] OTHER -> "ok"

-----------------------------------------------------------------------------
(* main: the base definitions *)
ReadBase ==
    /\ pc = "base"
    /\ \E there \in BOOLEAN :
         IF there THEN /\ base' = base + 1
                       /\ pc' = IF base' = SuBase THEN "sys" ELSE "base"
                       /\ UNCHANGED why
         ELSE Return("base") /\ UNCHANGED base
    /\ UNCHANGED <<lib, mods, turn, state, refused>>

(* main: sys_config.cfg may be missing; its library may have an init       *)
(* function of the instance.                                               *)
ReadSys ==
    /\ pc = "sys"
    /\ \/ pc' = "main" /\ lib' = "none" /\ UNCHANGED why
       \/ \E files \in SuFiles, good, dynamic \in BOOLEAN :
            IF ReadSysCfg([wellformed |-> good, template |-> good, files |-> files]) = "ok"
            THEN /\ lib' = IF dynamic THEN "dynamic" ELSE "static"
                 /\ pc' = "main" /\ UNCHANGED why
            ELSE Return("sys") /\ UNCHANGED lib
    /\ UNCHANGED <<base, mods, turn, state, refused>>

(* read_main_cfg: the record files, and the init function of the instance, *)
(* are looked at only with a sys_config; without a library the result of   *)
(* the last record file is the result of all.                              *)
MainCfg(named, records, init) ==
    CASE ~named -> -1
      [] lib = "none" -> 0
      [] lib = "static" -> records
      [] OTHER -> init

ReadMain ==
    /\ pc = "main"
    /\ \E there, named \in BOOLEAN, records, init \in {-1, 0, 1} :
         IF there /\ MainCfg(named, records, init) >= 0 THEN pc' = "uuid" /\ UNCHANGED why
         ELSE Return("main")
    /\ UNCHANGED <<base, lib, mods, turn, state, refused>>

(* get_local_uuid: from dmidecode for root, else, and when that fails,     *)
(* from the file in CUBE_SYS_PLUGIN.                                       *)
LocalUuid(root, dmi, file) == (root /\ dmi) \/ file

GetUuid ==
    /\ pc = "uuid"
    /\ \E root, dmi, file \in BOOLEAN :
         IF LocalUuid(root, dmi, file) THEN pc' = "conn" /\ UNCHANGED why ELSE Return("uuid")
    /\ UNCHANGED <<base, lib, mods, turn, state, refused>>

(* main: the connector and the router module.  Both functions must be in   *)
(* the library; what init returns is not looked at.                        *)
Added(m) == Append(mods, m)

MakeConn ==
    /\ pc = "conn"
    /\ \E found \in BOOLEAN, init \in {"ok", "failed"} :
         IF found THEN /\ mods' = Added(Module("connector_proc", "CONN", init, TRUE))
                       /\ pc' = "router" /\ UNCHANGED why
         ELSE Return("conn") /\ UNCHANGED mods
    /\ UNCHANGED <<base, lib, turn, state, refused>>

MakeRouter ==
    /\ pc = "router"
    /\ \E found \in BOOLEAN :
         IF found THEN /\ mods' = Added(Module("router_proc", "MONITOR", "ok", TRUE))
                       /\ pc' = "plugins" /\ UNCHANGED why
         ELSE Return("router") /\ UNCHANGED mods
    /\ UNCHANGED <<base, lib, turn, state, refused>>

-----------------------------------------------------------------------------
(* read_plugin_cfg: where the configuration of the library is found, the   *)
(* library itself is taken from.                                           *)
Place(p) == IF p.cfgAt = {} THEN 0 ELSE Min(p.cfgAt)

PluginFault(p) ==
    LET sys == ReadSysCfg([wellformed |-> p.fault # "format", template |-> p.fault # "template",
                           files |-> p.files])
    IN CASE p.fault = "libname" -> "libname"
         [] Place(p) = 0 -> "cfg"
         [] sys # "ok" -> sys
         [] p.fault = "name" -> "name"
         [] Place(p) \notin p.libAt -> "lib"
         [] p.fault \in {"initfunc", "para", "init"} -> p.fault
         [] OTHER -> "none"

(* The function start is not tested: without it the module is added. *)
PluginModule(p) ==
    Module(Len(mods), p.type, IF PluginFault(p) = "init" THEN "failed" ELSE "ok", p.fault # "start")

LoadPlugin_Any ==
    /\ pc = "plugins" /\ Len(mods) + Len(refused) < 2 + SuMaxPlugins
    /\ \E p \in SuPlugins :
         IF PluginFault(p) \in {"none", "init"}
         THEN mods' = Added(PluginModule(p)) /\ UNCHANGED <<refused, pc, why>>
         ELSE /\ refused' = Append(refused, [plugin |-> p, why |-> PluginFault(p)])
              /\ UNCHANGED <<mods, pc, why>>
    /\ UNCHANGED <<base, lib, turn, state>>

LoadPlugin_Fatal ==
    /\ pc = "plugins" /\ Len(mods) + Len(refused) < 2 + SuMaxPlugins
    /\ \E p \in SuPlugins :
         IF PluginFault(p) = "none"
         THEN mods' = Added(PluginModule(p)) /\ UNCHANGED <<refused, pc, why>>
         ELSE /\ refused' = Append(refused, [plugin |-> p, why |-> PluginFault(p)])
              /\ Return("plugin") /\ UNCHANGED mods
    /\ UNCHANGED <<base, lib, turn, state>>

(* main: a plugin that cannot be loaded or initialised is left out. *)
LoadPlugin ==
    /\ pc = "plugins" /\ Len(mods) + Len(refused) < 2 + SuMaxPlugins
    /\ \E p \in SuPlugins :
         IF PluginFault(p) = "none"
         THEN mods' = Added(PluginModule(p)) /\ UNCHANGED <<refused, pc, why>>
         ELSE /\ refused' = Append(refused, [plugin |-> p, why |-> PluginFault(p)])
              /\ UNCHANGED <<mods, pc, why>>
    /\ UNCHANGED <<base, lib, turn, state>>

PluginsRead ==
    /\ pc = "plugins"
    /\ pc' = "start" /\ turn' = 1
    /\ mods' = [mods EXCEPT ![1].thread = "runs"]
    /\ UNCHANGED <<base, lib, state, why, refused>>

-----------------------------------------------------------------------------
(* main, second loop: a thread for every module of a known type; the end   *)
(* of the mods sets PROC_LOCAL_START.                                      *)
Joined(m) == m.type \in {"MONITOR", "PORT", "START"}

Ready_Early == state' = "local"

Ready == state' = IF turn = Len(mods) THEN "local" ELSE state

StartNext ==
    /\ pc = "start"
    /\ IF Joined(mods[turn]) /\ ~mods[turn].start
       THEN Return("start") /\ UNCHANGED <<mods, turn, state>>
       ELSE /\ mods' = IF Joined(mods[turn]) THEN [mods EXCEPT ![turn].thread = "runs"] ELSE mods
            /\ turn' = IF turn = Len(mods) THEN 1 ELSE turn + 1
            /\ pc' = IF turn = Len(mods) THEN "join" ELSE "start"
            /\ Ready /\ UNCHANGED why
    /\ UNCHANGED <<base, lib, refused>>

(* main, third loop: wait for one module after the other. *)
JoinNext_Type ==
    /\ pc = "join"
    /\ mods[turn].type = "MONITOR" => mods[turn].thread = "ended"
    /\ IF turn = Len(mods) THEN Return("joined") /\ UNCHANGED turn
       ELSE turn' = turn + 1 /\ UNCHANGED <<pc, why>>
    /\ UNCHANGED <<base, lib, mods, state, refused>>

JoinNext_Past ==
    /\ pc = "join"
    /\ Joined(mods[turn]) => mods[turn].thread = "ended"
    /\ IF turn > Len(mods) THEN Return("joined") /\ UNCHANGED turn
       ELSE turn' = turn + 1 /\ UNCHANGED <<pc, why>>
    /\ UNCHANGED <<base, lib, mods, state, refused>>

JoinNext ==
    /\ pc = "join"
    /\ Joined(mods[turn]) => mods[turn].thread = "ended"
    /\ IF turn = Len(mods) THEN Return("joined") /\ UNCHANGED turn
       ELSE turn' = turn + 1 /\ UNCHANGED <<pc, why>>
    /\ UNCHANGED <<base, lib, mods, state, refused>>

-----------------------------------------------------------------------------
(* The threads.  A plugin sends one message when it runs ... *)
ThreadSend(k) ==
    /\ Running /\ k > 2 /\ mods[k].thread = "runs" /\ mods[k].out = "none"
    /\ mods' = [mods EXCEPT ![k].out = "queued"]
    /\ UNCHANGED <<pc, base, lib, turn, state, why, refused>>

(* ... and its start function may return; so does that of the router when  *)
(* a message has no way on (_ex_module_passpara).                          *)
ThreadEnd(k) ==
    /\ Running /\ k > 1 /\ mods[k].thread = "runs"
    /\ mods' = [mods EXCEPT ![k].thread = "ended"]
    /\ UNCHANGED <<pc, base, lib, turn, state, why, refused>>

(* proc_router_start: nothing is looked at before PROC_LOCAL_START; then   *)
(* the queue of each module is emptied, whether its thread runs or not.    *)
RouterTurn_Running ==
    /\ Running /\ Len(mods) > 1 /\ mods[2].thread = "runs"
    /\ state = "local"
    /\ \E k \in DOMAIN mods : mods[k].out = "queued"
    /\ mods' = [k \in DOMAIN mods |->
                  IF mods[k].out = "queued" /\ mods[k].thread = "runs"
                  THEN [mods[k] EXCEPT !.out = "routed"] ELSE mods[k]]
    /\ UNCHANGED <<pc, base, lib, turn, state, why, refused>>

RouterTurn ==
    /\ Running /\ Len(mods) > 1 /\ mods[2].thread = "runs"
    /\ state = "local"
    /\ \E k \in DOMAIN mods : mods[k].out = "queued"
    /\ mods' = [k \in DOMAIN mods |->
                  IF mods[k].out = "queued" THEN [mods[k] EXCEPT !.out = "routed"] ELSE mods[k]]
    /\ UNCHANGED <<pc, base, lib, turn, state, why, refused>>

SuInit ==
    /\ pc = "base" /\ base = 0 /\ lib = "none" /\ mods = <<>> /\ turn = 0
    /\ state = "init" /\ why = "none" /\ refused = <<>>

MainStep ==
    \/ ReadBase \/ ReadSys \/ ReadMain \/ GetUuid \/ MakeConn \/ MakeRouter
    \/ LoadPlugin \/ PluginsRead \/ StartNext \/ JoinNext

SuNext == MainStep \/ RouterTurn \/ \E k \in DOMAIN mods : ThreadSend(k) \/ ThreadEnd(k)

SuFair == WF_suvars(MainStep) /\ WF_suvars(RouterTurn)

SuSpec == SuInit /\ [][SuNext]_suvars /\ SuFair

-----------------------------------------------------------------------------
SuTypeOK ==
    /\ pc \in {"base", "sys", "main", "uuid", "conn", "router", "plugins", "start", "join", "exit"}
    /\ base \in 0 .. SuBase /\ turn \in 0 .. Len(mods) /\ state \in {"init", "local"}
    /\ \A k \in DOMAIN mods : /\ mods[k].thread \in {"none", "runs", "ended"}
                              /\ mods[k].out \in {"none", "queued", "routed"}

(* A thread runs a module only after its init function succeeded.  The     *)
(* connector is the exception: main does not look at what proc_conn_init   *)
(* returned (ex_module_init, read_plugin_cfg).                             *)
SuRunsInitialised ==
    \A k \in DOMAIN mods : (mods[k].thread # "none" /\ k # 1) => mods[k].init = "ok"

(* The router takes no message before the threads of all modules of main's *)
(* mods were made, so that no module misses what another sent at once.     *)
SuRoutedAfterStart ==
    (\E k \in DOMAIN mods : mods[k].out = "routed") =>
        \A k \in DOMAIN mods : Joined(mods[k]) => mods[k].thread # "none"

(* Once main has come to the plugins, it returns before its threads only   *)
(* for a module whose start function is missing; plugins that cannot be    *)
(* loaded do not stop the others.                                          *)
SuOnlyStartlessStops ==
    (pc = "exit" /\ Len(mods) >= 2) =>
        \/ why = "joined"
        \/ why = "start" /\ \E k \in DOMAIN mods : ~mods[k].start

(* main returns from its last loop only when no thread but the connector's *)
(* runs any more, the router's included.                                   *)
SuNoneCutOff == why = "joined" => \A k \in DOMAIN mods : k > 1 => mods[k].thread # "runs"

(* A plugin is refused for its define files only when the last of them     *)
(* holds no record wherever it is looked for.                              *)
SuDefineFound ==
    \A k \in DOMAIN refused : refused[k].why = "define" =>
        \E f \in {Last(refused[k].plugin.files)} : \A w \in DOMAIN f : f[w] <= 0

(* A message that a plugin sent while others were still started is routed, *)
(* unless the process or the router ends first.                            *)
SuEarlyRouted ==
    \A k \in 3 .. 2 + SuMaxPlugins :
        (k \in DOMAIN mods /\ mods[k].out = "queued") ~>
            (pc = "exit" \/ (k \in DOMAIN mods /\ (mods[2].thread = "ended" \/ mods[k].out = "routed")))

(* A process that starts: no module runs uninitialised or is routed to     *)
(* before its thread runs, main ends when it should, and definitions are   *)
(* read where they are.                                                    *)
SuStartsWhole ==
    /\ SuTypeOK /\ SuRunsInitialised /\ SuRoutedAfterStart
    /\ SuOnlyStartlessStops /\ SuNoneCutOff /\ SuDefineFound
=============================================================================
