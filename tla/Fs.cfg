CONSTANTS
    a = a
    b = b
    Names = {a, b}
    Procs = {p1, p2}
    NINODES = 4
    Calls <- MCCalls
    Trees <- MCTrees
    MaxCalls = 4
    None = None
SYMMETRY Symmetric
SPECIFICATION Spec
INVARIANTS NoDangling CacheCurrent IputNeverBlocks
