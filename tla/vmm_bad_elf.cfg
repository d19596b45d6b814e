SPECIFICATION VmmSpec
CONSTANTS
    TotalPages = 16
    Usable <- AllUsable
    RefPages = 1
    RefMax = 65535
    Process = {1, 2}
    Images = {"bad"}
    MaxExecs = 1
    Stack <- OneStackPage
    Tracked = {}
INVARIANTS
    RunningHasImage
\* a panic, or the exit of the last process, stops the machine
CHECK_DEADLOCK FALSE
