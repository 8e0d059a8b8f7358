CONSTANTS
    p1 = p1
    p2 = p2
    p3 = p3
    k1 = k1
    k2 = k2
    n1 = n1
    n2 = n2
    Dot = Dot
    DotDot = DotDot
    NoProc = NoProc
    quiet = quiet
    Procs <- TwoProcs
    Creator <- p1
    PIPESIZE = 1
    WORD = 2
    Bytes = {0}
    MAXREQ = 1
SPECIFICATION MCSpec
PROPERTIES
    KilledSleeperQuits
    ClosedIsFreed
    EveryCallReturns
    EveryoneGetsIn
    EveryCallEnds
CHECK_DEADLOCK FALSE
