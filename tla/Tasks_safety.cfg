SPECIFICATION Spec
CONSTANTS
    Kernel = kernel_task
    Nodes = {n1, n2, n3}
    NULL = NULL
    Low = {NULL}
    WILD = WILD
    PERIOD = 3
    TIME_WRAP = 4
    ID_BOUND = 5
    ExitPaths = {"call", "syscall"}
INVARIANTS RunQueueAlive RunQueueByAge RemoveFindsTarget RightContext
PROPERTIES OnlyExitedLeave OnlyExitedFreed ImplementsRoundRobin
SYMMETRY SlotSymmetry
CHECK_DEADLOCK FALSE
