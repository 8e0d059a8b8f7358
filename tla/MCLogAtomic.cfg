CONSTANTS
    p1 = p1
    k1 = k1
    k2 = k2
    Procs <- OneProc
    Blocks <- TwoBlocks
    MAXOPBLOCKS = 2
    LOGSIZE = 6
    size = 6
    MAXTX = 1
    MAXCRASH = 1
SPECIFICATION Spec
INVARIANT AllOrNothing
CHECK_DEADLOCK FALSE
