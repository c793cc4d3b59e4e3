CONSTANTS
    NPROC = 4
    Threads <- MCThreads
    ProcOf <- MCProcOf
    Chans <- MCChans
    None = None
    MaxForks = 3
    MaxKills = 0
SPECIFICATION FairSpec
PROPERTIES OrphansReaped
CHECK_DEADLOCK FALSE
