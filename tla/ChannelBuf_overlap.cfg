CONSTANTS
    BufSize = 4
    Sizes = {1, 2, 5}
    MaxBytes = 7
SPECIFICATION Spec
INVARIANTS InBounds FifoUntilLappedOrRaced
CHECK_DEADLOCK FALSE
