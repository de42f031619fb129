SPECIFICATION MCSpec
CONSTANTS
    SuBase = 2
    SuMaxPlugins = 2
    SuFiles <- MCSuFiles
    SuPlugins <- MCSuPlugins
    CfBuf = 8
    CfShort = 3
    CfFiles <- MCCfFiles
    CfBad <- MCCfBad
    Putters = {p1, p2}
    Getters = {g1}
    Msgs = {m1, m2, m3}
    FcFiles <- MCFcFiles
    FcPack = 2
    FcFirst = 3
    FcBlob = 7
    FcMaxCuts = 1
    HaServers <- MCHaServers
    HaRequests <- MCHaRequests
    HaMaxMsgs = 4
    TlNodes = {"m", "n"}
    TlClients = {"m", "n"}
    TlMaxBoots = 3
    FdNames = {"f"}
    FdContents <- MCFdContents
    FdBlock = 2
    FdMaxAir = 2
    FdMaxEdits = 1
    FdMaxLost = 1
INVARIANTS
    SuStartsWhole  MqAccounted FcFileIntact HaChildrenBounded
    TlLinksSettle FdRecordsTrue
PROPERTIES
    SuEarlyRouted  EveryMessageHandedOut FcArrives
    TlConnects FdNoticeTrue FdArrives
CHECK_DEADLOCK FALSE
