SPECIFICATION VmmSpec
CONSTANTS
    TotalPages = 14
    Usable <- AllUsable
    RefPages = 1
    RefMax = 65535
    Process = {1}
    Images = {"flat", "elf", "raw", "bad", "unread", "none"}
    MaxExecs = 4
    Stack <- TwoStackPages
    Tracked = {"stk1", "stk2"}
INVARIANTS
    OneUse
    ImageIsPrivate
    TlbAgrees
    NoDoubleFree
\* a panic, or the exit of the last process, stops the machine
CHECK_DEADLOCK FALSE
