SPECIFICATION ConsoleSpec
CONSTANTS
    COLS = 4
    ROWS = 3
    FIFO = 2
    KEYS = 5
    W = 8
    Words = {"CLEAR", "EXEC", "TASK", "SETTEXTCOLOR"}
INVARIANTS TypeOK ScreenShowsLine ArgsAreTheLine
INVARIANTS LibraryRight
PROPERTIES ImplementsEditor KeyServed
CHECK_DEADLOCK FALSE
