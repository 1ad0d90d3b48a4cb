SPECIFICATION FilesSpec
CONSTANTS
    main = main
    text = text
    sub = sub
    lib = lib
    gone = gone
    Dotted = {main, text, lib, gone}
    HEADER = 1
    ENTRY = 1
    Programs <- MCPrograms
    Addresses <- MCAddresses
    SIZE = 3
    SECTOR = 4
    LOW = 2
    Readers = {"task", "call"}
    Masked = {"call"}
    Requests <- MCRequests
    NOBODY = "nobody"
    WORD = 9
    BAD = 8
    NOT_FOUND = 10
    Root <- MCRoot
    Paths <- MCPaths
    Seeks = {1, 3, 7, 13}
    Sizes = {0, 1, 2, 6, 7}
    BUFFERS = 3
    LIMIT = 12
INVARIANTS TypeOK ReadRight GivesBack SegmentsLoaded TransferRight
PROPERTIES OnlyOverrunsKeep
CHECK_DEADLOCK FALSE
