SPECIFICATION TlbSpec
CONSTANTS
    LAST = 14
    TOP = 7
    Segments <- MCSegments
    Screen <- NoPages
    SHARE = 1
    NONE = NONE
    BAD = BAD
INVARIANT TranslationsCurrent
CHECK_DEADLOCK FALSE
