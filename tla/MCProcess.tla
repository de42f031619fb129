----------------------------- MODULE MCProcess -----------------------------
(***************************************************************************)
(* The components of a process, most of them with properties that need     *)
(* fairness: its start, the reading of its configuration files, the queues *)
(* of its modules, the connections it makes and takes, and its plugins for *)
(* files.  They share no state; the first state chooses the one that       *)
(* moves, and the others stay as they begin.                               *)
(***************************************************************************)
EXTENDS Startup, ConfigRead, MsgQueue, FileChannel, HttpAgent, TcpLink, FileDealer

VARIABLE part  \* the component that moves

-----------------------------------------------------------------------------
(* Startup: define files found in none, one or several of the directories, *)
(* and plugins with every fault                                            *)
Dirs(a, b, c) == (0 :> a) @@ (1 :> b) @@ (2 :> c)
MCSuFiles ==
    {<<>>, <<Dirs(-1, -1, 1)>>, <<Dirs(-1, 0, -1)>>, <<Dirs(2, -1, -1)>>, <<Dirs(-1, -1, -1)>>,
     <<Dirs(1, 1, 1), Dirs(-1, 0, -1)>>, <<Dirs(-1, -1, -1), Dirs(-1, 1, -1)>>}

Plugin(f, fl, c, l, t) == [fault |-> f, files |-> fl, cfgAt |-> c, libAt |-> l, type |-> t]
MCSuPlugins ==
    {Plugin(f, <<>>, {2}, {2}, "MONITOR") :
        f \in {"none", "libname", "format", "template", "name", "initfunc", "para", "init", "start"}}
    \cup {Plugin(f, <<>>, {2}, {2}, "START") : f \in {"none", "start"}}
    \cup {Plugin("none", fl, {1}, {1}, "PORT") : fl \in MCSuFiles}
    \cup {Plugin("none", <<>>, c, l, "PORT") : c, l \in {{}, {1}, {1, 3}}}
    \cup {Plugin("none", <<>>, {3}, {3}, "OTHER")}

-----------------------------------------------------------------------------
(* ConfigRead: documents shorter than the least size, as long as the       *)
(* buffer and longer, one that the reader rejects, each in several layouts *)
E0 == <<"{", "}">>
E1 == <<"{", "q", "r", "}">>
EN == <<"{", "q", "r", "{", "q", "r", "}", "}">>
EB == <<"{", "q", "r", "{", "q", "r", "}", "{", "}", "}">>
EX == <<"{", "{", "}", "}">>
Halves(d) == <<SubSeq(d, 1, Len(d) \div 2), SubSeq(d, Len(d) \div 2 + 1, Len(d))>>
Laid(ds, how) ==
    CASE how = "line" -> ds
      [] how = "split" -> FlattenSeq([k \in DOMAIN ds |-> Halves(ds[k])])
      [] how = "remark" -> <<<<"#", "q">>>> \o ds
      [] how = "tail" -> ds \o <<<<" ">>, <<" ">>>>
      [] how = "one" -> <<FlattenSeq(ds)>>
MCCfFiles ==
    {[docs |-> ds, lines |-> Laid(ds, h)] :
        ds \in UNION {[1..n -> {E0, E1, EN, EB, EX}] : n \in 1..2} \cup [1..3 -> {E0, E1, EX}],
        h \in {"line", "split", "remark", "tail", "one"}}
MCCfBad == {EX}

-----------------------------------------------------------------------------
(* FileChannel: a short last package, a file of one package, a full one    *)
MCFcFiles ==
    <<[packs |-> 4, short |-> FALSE], [packs |-> 1, short |-> FALSE], [packs |-> 3, short |-> TRUE]>>

(* HttpAgent: a name that two records have, and requests for each          *)
MCHaServers ==
    <<[name |-> "s", mode |-> 2], [name |-> "s", mode |-> 1], [name |-> "t", mode |-> 1]>>
Asked(kind, name, uuid) == [kind |-> kind, name |-> name, uuid |-> uuid]
MCHaRequests ==
    {Asked("server", "", s) : s \in 1..3}
    \cup {Asked("start", "s", 0), Asked("start", "", 2), Asked("download", "s", 0),
          Asked("upload", "s", 0), Asked("check", "t", 0), Asked("other", "", 0)}

(* FileDealer: a file in one block and in two, the last block full or not  *)
MCFdContents == {<<1>>, <<1, 2, 1>>, <<2, 2, 2, 2>>}

-----------------------------------------------------------------------------
CfParked == CfStart([docs |-> <<E1>>, lines |-> <<E1>>], "define", "0", FALSE)

MCInit ==
    /\ part \in {"Startup", "ConfigRead", "MsgQueue", "FileChannel", "HttpAgent", "TcpLink",
                 "FileDealer"}
    /\ SuInit /\ MqInit /\ FcInit /\ HaInit /\ TlInit /\ FdInit
    /\ part # "FileDealer" => \A n \in FdNames : src[n] = NoFile /\ disk[n] = NoFile
    /\ IF part = "ConfigRead" THEN CfInit ELSE cf = CfParked

MCNext ==
    \/ part = "Startup" /\ SuNext /\ UNCHANGED <<part, cf, mqvars, fcvars, havars, tlvars, fdvars>>
    \/ part = "ConfigRead" /\ CfNext /\ UNCHANGED <<part, suvars, mqvars, fcvars, havars, tlvars, fdvars>>
    \/ part = "MsgQueue" /\ MqNext /\ UNCHANGED <<part, suvars, cf, fcvars, havars, tlvars, fdvars>>
    \/ part = "FileChannel" /\ FcNext /\ UNCHANGED <<part, suvars, cf, mqvars, havars, tlvars, fdvars>>
    \/ part = "HttpAgent" /\ HaNext /\ UNCHANGED <<part, suvars, cf, mqvars, fcvars, tlvars, fdvars>>
    \/ part = "TcpLink" /\ TlNext /\ UNCHANGED <<part, suvars, cf, mqvars, fcvars, havars, fdvars>>
    \/ part = "FileDealer" /\ FdNext /\ UNCHANGED <<part, suvars, cf, mqvars, fcvars, havars, tlvars>>

MCSpec ==
    /\ MCInit /\ [][MCNext]_<<part, suvars, cf, mqvars, fcvars, havars, tlvars, fdvars>>
    \* the fairness of each component, while it is the one that moves
    /\ WF_suvars(part = "Startup" /\ MainStep)
    /\ WF_suvars(part = "Startup" /\ RouterTurn)
    /\ WF_cf(part = "ConfigRead" /\ CfNext)
    /\ \A p \in Putters : /\ SF_mqvars(part = "MsgQueue" /\ PutLock(p))
                          /\ WF_mqvars(part = "MsgQueue" /\ Put(p))
    /\ \A g \in Getters : WF_mqvars(part = "MsgQueue" /\ Get(g))
    /\ WF_fcvars(part = "FileChannel" /\ ClientConnect)
    /\ WF_fcvars(part = "FileChannel" /\ ClientSend)
    /\ WF_fcvars(part = "FileChannel" /\ ServerAccept)
    /\ WF_fcvars(part = "FileChannel" /\ ServerRead)
    /\ \A i \in TlNodes : WF_tlvars(part = "TcpLink" /\ Threads(i))
    /\ WF_fdvars(part = "FileDealer" /\ SendStat)
    /\ WF_fdvars(part = "FileDealer" /\ SendDigest)
    /\ WF_fdvars(part = "FileDealer" /\ SendBlock)
    /\ \A n \in FdNames : SF_fdvars(part = "FileDealer" /\ Request(<<n>>))
    /\ \A n \in FdNames, b \in 0..2 :
           WF_fdvars(part = "FileDealer" /\ ReceiveAt(n, b * FdBlock))
=============================================================================
