SPECIFICATION Spec
CONSTANTS
    Final = 2
    HeadLen = 2
    BufLen = 6
    MaxMsgs = 1
    RecCounts = {0, 2}
    MaxOps = 1
    MaxCuts = 0
INVARIANT AllDataRead
CHECK_DEADLOCK FALSE
