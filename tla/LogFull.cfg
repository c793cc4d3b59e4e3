CONSTANTS
    Ops = {p1, p2}
    Blocks = {b1, b2, b3, b4}
    Vals = {0, 1}
    MAXOPBLOCKS = 2
    LOGSIZE = 4
    OpWrites = 2
    MaxOps = 2
    MaxCrashes = 0
    None = None
SPECIFICATION Spec
INVARIANTS NoTooBig
CHECK_DEADLOCK FALSE
