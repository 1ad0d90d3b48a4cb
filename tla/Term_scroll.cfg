SPECIFICATION ConsoleSpec
CONSTANTS
    COLS = 4
    ROWS = 3
    W = 8
    FIFO = 1
    KEYS = 3
    Words = {"EXEC"}
INVARIANTS EveryLineShown
CHECK_DEADLOCK FALSE
