CONSTANTS
    NPROC = 4
    Threads <- MCThreads
    ProcOf <- MCProcOf
    Chans <- MCChans
    None = None
    MaxForks = 3
    MaxKills = 1
SPECIFICATION FairSpec
INVARIANTS ParentAlive FreedOnlyWhenGone
PROPERTIES WaitReturns
CHECK_DEADLOCK FALSE
