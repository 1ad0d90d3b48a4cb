SPECIFICATION FairSpec
CONSTANTS
    Kernel = kernel_task
    Nodes = {n1, n2}
    NULL = NULL
    Low = {NULL, low1}
    WILD = WILD
    PERIOD = 3
    TIME_WRAP = 4
    ID_BOUND = 5
    ExitPaths = {"call"}
PROPERTIES ExitedIsRemoved QueuedRuns
CHECK_DEADLOCK FALSE
