CONSTANTS
    d1 = d1
    d2 = d2
    d3 = d3
    d4 = d4
    root = root
    p1 = p1
    p2 = p2
    child = child
    c1 = c1
    c2 = c2
    meta = meta
    None = None
    New = New
    zero = zero
    one = one
    Desc <- FourDesc
    WORDS = 4
    WORDBITS = 4
    WORDBYTES = 2
    NPROC = 16
    FAILURES = {"vm", "stack"}
CONSTRAINT Bound
SYMMETRY Twins
SPECIFICATION MCSpec
INVARIANTS
    TypesOK
    TableExact
    EachPageOnce
    EachObjectOnce
    RefsExact
PROPERTY PrivateMemory
CHECK_DEADLOCK FALSE
