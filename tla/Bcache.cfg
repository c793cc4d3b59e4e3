CONSTANTS
    t1 = t1
    t2 = t2
    t3 = t3
    Threads = {t1, t2, t3}
    ProcOf <- MCProcOf
    Bufs = {b1, b2, b3}
    Blocks = {k1, k2, k3, k4}
    Vals = {1}
    NUM = 7
    IDX = 7
    None = None
    MaxOps = 3
    MaxPins = 1
SYMMETRY Symmetric
SPECIFICATION Spec
INVARIANTS Coherent NothingLost DescriptorsOwned SleepersJustified
