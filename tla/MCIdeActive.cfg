CONSTANTS
    p1 = p1
    p2 = p2
    Idle = Idle
    Procs <- TwoProcs
    Blocks = {1, 2}
    FAULTS = {TRUE}
    MAXDOZEN = 1
    MAXCALLS = 2
SPECIFICATION Spec
INVARIANT FirstIsActive
CHECK_DEADLOCK FALSE
