CONSTANTS
    BufSize = 4
    Sizes = {1, 2}
    MaxBytes = 7
SPECIFICATION Spec
INVARIANT FullTestStopsWrite
CHECK_DEADLOCK FALSE
