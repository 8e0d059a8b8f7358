CONSTANTS
    p1 = p1
    p2 = p2
    Procs <- TwoProcs
    Creator <- p1
    PIPESIZE = 2
    WORD = 4
    Bytes = {0, 1}
    MAXREQ = 2
SPECIFICATION Spec
PROPERTY IsFifo
CHECK_DEADLOCK FALSE
