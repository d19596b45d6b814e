SPECIFICATION VmmSpec
CONSTANTS
    TotalPages = 16
    Usable <- AllUsable
    RefPages = 1
    RefMax = 65535
    Process = {1, 2}
    Images = {}
    MaxExecs = 0
    Stack <- OneStackPage
    Tracked = {"stk1"}
INVARIANTS
    Isolation
\* a panic, or the exit of the last process, stops the machine
CHECK_DEADLOCK FALSE
