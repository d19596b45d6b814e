SPECIFICATION RaceSpec
CONSTANTS
    MaxPid = 3
    NKThreads = 0
    TIME_SLICE = 2
INVARIANTS
    PreemptionIsSafe
CHECK_DEADLOCK FALSE
