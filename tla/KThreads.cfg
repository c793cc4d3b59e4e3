CONSTANTS
    NTHREAD = 3
    NPAGES = 2
    MaxLives = 2
    MaxCreates = 2
    Calls = {"create", "kexit", "exit", "join"}
    None = None
SPECIFICATION FairSpec
INVARIANTS FreedProcessIsIdle StacksOwned
PROPERTIES ProcessEnds
CHECK_DEADLOCK FALSE
