SPECIFICATION FairSpec
CONSTANTS
    MaxPid = 3
    NKThreads = 0
    TIME_SLICE = 2
PROPERTIES
    ReapedIsFreed
