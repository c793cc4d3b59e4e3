CONSTANTS
    Threads = {t1}
    Killers = {k1}
    UserSigs = {2}
    Masks <- NoMask
    HandlerMasks <- NoMask
    Handlers = {"SIG_DFL", "SIG_IGN", "user"}
    MaxKills = 2
    MaxActions = 2
    Catchable = {2, 19}
    Execs = {}
    BadPointers = FALSE
    None = None
SPECIFICATION Spec
INVARIANTS OneHandlerPerPass
CHECK_DEADLOCK FALSE
