CONSTANTS
    Threads = {t1, t2, t3}
    InitCounts = {0, 1, 2}
    bsem1 = 0
    bsem2 = 1
    MAX_BSEM = 2
    MaxCalls = 2
SPECIFICATION FairSpec
INVARIANTS NeverOverdrawn
PROPERTIES ImplementsCsem Drains
CHECK_DEADLOCK FALSE
