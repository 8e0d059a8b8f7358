CONSTANTS
    p1 = p1
    p2 = p2
    p3 = p3
    p4 = p4
    k1 = k1
    k2 = k2
    k3 = k3
    NoBlock = NoBlock
    Idle = Idle
    Procs <- ThreeProcs
    Blocks <- ThreeBlocks
    Bufs = {1, 2}
    Values = {0, 1}
    MAXHELD = 2
SYMMETRY Twins
SPECIFICATION MCSpec
INVARIANTS
    TypesOK
    FreeMeansFree
    SleepersAreServed
    Durable
    CommitsFit
PROPERTY IsBlockStore
CHECK_DEADLOCK FALSE
