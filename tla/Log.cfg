CONSTANTS
    Ops = {p1, p2, p3}
    Blocks = {b1, b2}
    Vals = {0, 1}
    MAXOPBLOCKS = 2
    LOGSIZE = 4
    OpWrites = 2
    MaxOps = 4
    MaxCrashes = 2
    None = None
SPECIFICATION FairSpec
PROPERTIES ImplementsLog BeginReturns
CHECK_DEADLOCK FALSE
