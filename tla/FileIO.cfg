CONSTANTS
    Procs = {p1, p2}
    Files = {x, y}
    Inodes = {i, j}
    BSIZE = 2
    NDIRECT = 1
    NINDIRECT = 2
    NBLOCKS = 6
    MAXOPBLOCKS = 8
    UINT = 8
    Lengths = {1, 5}
    MaxCalls = 4
    None = None
    Readers = {r1, r2}
    Writers = {w1, w2}
    INPUT_BUF = 3
    UART_TX_BUF_SIZE = 2
    UINTS = 6
    N = 2
    RXFIFO = 1
    Keys = {"a", "cr", "D", "U", "H"}
    MaxTyped = 2
SYMMETRY Symmetric
SPECIFICATION IoSpec
INVARIANTS ReadsWhatWasWritten BlocksOwned FitsLog ConsoleSleepers
PROPERTIES ImplementsConsole
