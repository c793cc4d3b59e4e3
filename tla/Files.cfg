CONSTANTS
    Procs = {p1, p2}
    Inodes = {i1}
    Pages = {g1}
    NFILE = 3
    NOFILE = 2
    PIPESIZE = 2
    UINT = 4
    MaxN = 3
    MaxBytes = 4
    MaxOpens = 3
    None = None
SYMMETRY Symmetric
SPECIFICATION Spec
INVARIANTS RefsExact Fifo SleepersJustified
CHECK_DEADLOCK FALSE
