SPECIFICATION VmmSpec
CONSTANTS
    TotalPages = 24
    Usable <- AllUsable
    RefPages = 1
    RefMax = 65535
    Process = {1}
    Images = {"elf"}
    MaxExecs = 3
    Stack <- TwoStackPages
    Tracked = {}
INVARIANTS
    KernelHalfShared
\* a panic, or the exit of the last process, stops the machine
CHECK_DEADLOCK FALSE
