SPECIFICATION Spec
CONSTANTS
    Kernel = kernel_task
    Nodes = {n1, n2}
    NULL = NULL
    Low = {NULL, low1}
    WILD = WILD
    PERIOD = 3
    TIME_WRAP = 4
    ID_BOUND = 4
    ExitPaths = {"call"}
INVARIANT CreatedIsListed
CHECK_DEADLOCK FALSE
