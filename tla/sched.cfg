SPECIFICATION FairSpec
CONSTANTS
    MaxPid = 6
    NKThreads = 2
    TIME_SLICE = 2
INVARIANTS
    OnePlace
    CpuKeepsRunning
    NoSleepOverZombie
    WokenFindsZombie
    FreedIsNotScheduled
PROPERTIES
    ExitIsFinal
    ImplementsProc
    ReadyRuns
    WaiterReturns
