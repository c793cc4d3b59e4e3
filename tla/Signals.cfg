CONSTANTS
    Threads = {t1}
    Killers = {k1}
    UserSigs = {2}
    Masks <- SomeMasks
    HandlerMasks <- NoneOrAll
    Handlers = {"SIG_DFL", "SIG_IGN", "user"}
    MaxKills = 2
    MaxActions = 3
    Catchable = {2, 19}
    Execs = {"program"}
    BadPointers = TRUE
    None = None
SPECIFICATION FairSpec
INVARIANTS BackupIsProgram MaskRestored
PROPERTIES KilledExitsUnlessStopped ContResumes
CHECK_DEADLOCK FALSE
