SPECIFICATION VmmSpec
CONSTANTS
    TotalPages = 16
    Usable <- AllUsable
    RefPages = 1
    RefMax = 2
    Process = {1, 2, 3}
    Images = {}
    MaxExecs = 0
    Stack <- OneStackPage
    Tracked = {}
INVARIANTS
    MappedIsNotFree
    RefsCountSharers
\* a panic, or the exit of the last process, stops the machine
CHECK_DEADLOCK FALSE
