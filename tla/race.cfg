SPECIFICATION RaceSpec
CONSTANTS
    MaxPid = 4
    NKThreads = 0
    TIME_SLICE = 2
INVARIANTS
    ListsAreSound
\* the model stops where an interrupted schedule() has damaged a list or a stack
CHECK_DEADLOCK FALSE
