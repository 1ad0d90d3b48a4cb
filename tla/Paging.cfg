SPECIFICATION ClientsSpec
CONSTANTS
    LAST = 20
    TOP = 15
    Segments <- MCSegments
    Screen <- MCScreen
    SHARE = 2
    NONE = NONE
    BAD = BAD
    IMAGE = 11
    FILEPAGES = 1
    KERNELPAGES = 2
    GKRNL = 10
    FONTPAGES = 1
    AnyPages <- MCAnyPages
INVARIANTS TypeOK BitmapExact NoSharedFrame KernelIntact SharedApart
PROPERTIES HeldKeepMemory ImplementsAddressSpace
CHECK_DEADLOCK FALSE
