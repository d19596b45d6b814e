SPECIFICATION StorageSpec
CONSTANTS
    Sector <- MCSector
    Data <- MCData
    Zero <- MCZero
    IdxMod = 4
    Slow = TRUE
    NFILES_MAX = 4
    PerSector = 2
    SECT = 2
    Archives <- MCArchives
    Names = {"a", "b", "c"}
    Scratch = {6}
    RawData <- MCRawData
    PAGE = 2
    Vaddrs = {0, 2, 3, 4}
    FileOffsets = {0, 1, 2}
    MemSizes = {0, 1, 3, 4}
    ImageLen = 4
    MaxPages = 4
    STACK_TOP = 4096
    STACK_SIZE = 1024
    MaxPath = 64
    BITS = 8
INVARIANTS ReadIsFile
