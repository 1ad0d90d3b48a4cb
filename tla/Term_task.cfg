SPECIFICATION ConsoleSpec
CONSTANTS
    COLS = 4
    ROWS = 3
    W = 8
    FIFO = 1
    KEYS = 4
    Words = {"TASK", "f"}
INVARIANTS TaskOpensItsFile
CHECK_DEADLOCK FALSE
