SPECIFICATION LimineSpec
CONSTANTS
    UNINSTALL_DATA_MAX = 256
    Cells = 84
    W = 7
    MAX_PARTS = 2
    GAP = 4
    PRIMARY = 3
    SECONDARY = 2
    MIN_PART = 14
    STAGE2 = 12
    ISO = 57
    UINT32_MAX = 20000000
    MaxIo = 48
    Burst = 3
    Byte = {"+", "C"}
    SumLen = 2
    MaxBin = 9
CONSTANTS
    BlockGuesses <- MCBlockGuesses
    LbGuesses <- MCLbGuesses
    Sign <- MCSign
    Setups <- MCSetups
INVARIANTS FailureIsUndone UninstallRestores JunkIsReported SuccessIsComplete ConversionKeepsPartitions EnrollFindsFirst
CHECK_DEADLOCK FALSE
