SPECIFICATION PmmSpec
CONSTANTS
    TotalPages = 6
    Usable <- MCUsable
    RefPages = 1
    RefMax = 2
INVARIANTS
    CountIsExact
    AllocFindsFree
    AllocPagesFirstFit
PROPERTIES
    ImplementsPageAlloc
\* a panic stops the machine
CHECK_DEADLOCK FALSE
