SPECIFICATION HeapSpec
CONSTANTS
    HDR_SIZE = 1
    MIN_REST = 1
    SUPER = 8
    HEAP_MAX = 5
    ARR_MAX = 8
    Sizes = {0, 1, 2, 4, 5}
    MaxChunks = 2
INVARIANTS BlocksTileArena BlocksAreSized
PROPERTIES KfreeCoalesces
CHECK_DEADLOCK FALSE
