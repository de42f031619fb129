SPECIFICATION MCSpec
CONSTANTS
    Rules <- SmallRules
    Messages <- SmallMessages
    MaxRules = 3
    DbDescs <- MCDbDescs
    DbData <- MCDbData
    DbThreads = {h1, h2}
    DbMaxReads = 4
    CvInt = 5
    CvByte = 4
    CvDigest = 4
    CvFlags <- MCCvFlags
    CvTexts <- MCCvTexts
    JsTexts <- MCJsTexts
    JmMsgs <- MCJmMsgs
    JmReaders <- MCJmReaders
    UdClients = {"a", "b"}
    UdCount = 7
    UdMaxSent = 4
    UdMaxBoots = 2
INVARIANTS
    MatchesMeaning DbSound DbNamesAgree CvReadsBack 
    JsTreeIsText  UdPeersKept UdBytesKept
PROPERTIES DbTypesKept
CHECK_DEADLOCK FALSE
