SPECIFICATION Spec
CONSTANTS
    HEADER = 2
    PAGE = 18
    Sizes = {1, 8}
    MAX_PAGES = 3
    MAX_LIVE = 5
INVARIANT NoSharedBytes
CHECK_DEADLOCK FALSE
