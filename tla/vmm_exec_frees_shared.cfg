SPECIFICATION VmmSpec
CONSTANTS
    TotalPages = 20
    Usable <- AllUsable
    RefPages = 1
    RefMax = 65535
    Process = {1, 2}
    Images = {"flat"}
    MaxExecs = 1
    Stack <- OneStackPage
    Tracked = {}
INVARIANTS
    MappedIsNotFree
\* a panic, or the exit of the last process, stops the machine
CHECK_DEADLOCK FALSE
