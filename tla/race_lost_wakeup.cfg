SPECIFICATION RaceSpec
CONSTANTS
    MaxPid = 4
    NKThreads = 0
    TIME_SLICE = 2
INVARIANTS
    NoSleepOverWanted
CHECK_DEADLOCK FALSE
