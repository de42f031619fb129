SPECIFICATION Spec
CONSTANTS
    Final = 3
    HeadLen = 2
    BufLen = 6
    MaxMsgs = 2
    RecCounts = {0, 2}
    MaxOps = 3
    MaxCuts = 1
INVARIANTS MessagesIntact HandedInOrder CrashOnlyWhenTorn
CHECK_DEADLOCK FALSE
