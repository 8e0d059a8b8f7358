CONSTANTS
    root = root
    p1 = p1
    p2 = p2
    i0 = i0
    i1 = i1
    i2 = i2
    None = None
    Peers = {i0, i1, i2}
    Values = {value}
    Readers = {p1, p2}
    TTY_BUF = 2
    WRAP = 4
    MaxBytes = 3
    Procs <- ThreeProcs
    Creator <- root
    PIPESIZE = 1
    WORD = 2
    Bytes = {0}
    MAXREQ = 2
SYMMETRY Twins
SPECIFICATION MCSpec
INVARIANTS
    TypesOK
    EndsMatchDescriptors
    DeliveredIsKept
    RingIsQueue
    WaitersAreWoken
CHECK_DEADLOCK FALSE
