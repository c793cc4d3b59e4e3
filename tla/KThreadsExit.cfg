CONSTANTS
    NTHREAD = 2
    NPAGES = 1
    MaxLives = 1
    MaxCreates = 1
    Calls = {"create", "exit"}
    None = None
SPECIFICATION Spec
INVARIANTS ExitStopsThreads
CHECK_DEADLOCK FALSE
