CONSTANTS
    p1 = p1
    p2 = p2
    n1 = n1
    n2 = n2
    root_proc = root_proc
    child = child
    file1 = file1
    file2 = file2
    file3 = file3
    NoFile = NoFile
    x = x
    y = y
    Dot = Dot
    DotDot = DotDot
    NoProc = NoProc
    NoIno = NoIno
    Procs <- TwoProcs
    Inos <- TwoInos
    Slots = {1, 2}
    MAXREF = 2
    OpenProcs <- TwoOpen
    OpenFiles <- ThreeFiles
    NOFILE = 4
    MaxRef = 2
SYMMETRY Twins
SPECIFICATION MCSpec
INVARIANTS
    TypesOK
    InodesHeld
    UsedIsOwned
    ReadsBack
    LinksCounted
    FilesCounted
CHECK_DEADLOCK FALSE
