CONSTANTS
    CPUs = {c0, c1}
    cpu0 = c0
    NPROC = 1
    NTHREAD = 2
    Threads <- TwoThreads
    MaxSleep = 1
    None = None
SPECIFICATION FairSpec
INVARIANTS OneCpuPerThread NoPanic InterruptStateKept
PROPERTIES RunnableRuns SleepReturns
