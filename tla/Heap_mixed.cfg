SPECIFICATION FairSpec
CONSTANTS
    HEADER = 2
    PAGE = 12
    Sizes = {3, 14}
    MAX_PAGES = 8
    MAX_LIVE = 3
INVARIANTS Tiling LiveIsInUse
PROPERTIES ImplementsAllocator RequestServed
CHECK_DEADLOCK FALSE
