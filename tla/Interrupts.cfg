SPECIFICATION Spec
CONSTANTS
    Lines <- McLines
    Faults <- McFaults
    RAISES = 3
    DEPTH = 54
INVARIANTS Acknowledged NeverLost FrameAsDeclared Resumes DriverCalled
PROPERTIES LineServed
CHECK_DEADLOCK FALSE
