CONSTANTS
    p1 = p1
    p2 = p2
    Procs <- TwoProcs
    KERNEL = 5
    RESERVED = 1
    NPAGES = 12
    MEMLEVEL = 3
    HIGH = 2
    WORD = 32
SPECIFICATION FreeSpec
INVARIANT PagesetIsList
CHECK_DEADLOCK FALSE
