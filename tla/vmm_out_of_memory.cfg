SPECIFICATION VmmSpec
CONSTANTS
    TotalPages = 12
    Usable <- AllUsable
    RefPages = 1
    RefMax = 65535
    Process = {1}
    Images = {"flat"}
    MaxExecs = 8
    Stack <- TwoStackPages
    Tracked = {}
INVARIANTS
    FailureIsNotMapped
\* a panic, or the exit of the last process, stops the machine
CHECK_DEADLOCK FALSE
