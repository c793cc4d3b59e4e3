SPECIFICATION Spec
CONSTANTS
    NPROC = 2
    NPAGES = 38
    PGSIZE = 2
    FAN = 4
    LEVELS = 3
    KERNBASE = 16
    NDEV = 2
    UINT = 100
    Programs <- MCPrograms
    Increments <- MCIncrements
    MaxArgs = 1
VIEW Shape
INVARIANTS
    PagesOwned
    MappedMatchesSize
    CopyMatches
