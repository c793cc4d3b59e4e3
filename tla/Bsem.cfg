CONSTANTS
    t1 = t1
    t2 = t2
    t3 = t3
    Threads <- MCThreads
    ProcOf <- MCProcOf
    NPROC = 3
    chanel = chanel
    Chans = {chanel}
    None = None
    MAX_BSEM = 2
    MaxCalls = 4
SPECIFICATION FairSpec
PROPERTIES ImplementsBsem Drains
CHECK_DEADLOCK FALSE
