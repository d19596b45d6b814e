SPECIFICATION TerminalSpec
CONSTANTS
    Letter = {"a", "e"}
    Glyphs = {"a", "p", "0", "1", "2"}
    COLS = 3
    ROWS = 2
    KBUF_SIZE = 4
    LINE_MAX = 4
    RAW_MAX = 2
    Lens = {4}
    MaxKeys = 4
    Proc = {1, 2}
    FirstProc = 1
    PROC_MAX_FDS = 3
    Path = {"console", "other"}
    BITS = 8
    Texts <- MCTexts
    MaxCalls = 2
INVARIANTS LineIsTerminated
