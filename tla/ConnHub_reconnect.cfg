SPECIFICATION FairSpec
CONSTANTS
    Peers = {p1, p2}
    MaxConns = 3
    MaxMsgs = 1
INVARIANT HubSound
PROPERTIES LookupMovesForward HandshakeCompletes
