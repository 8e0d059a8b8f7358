CONSTANTS
    r = r
    a = a
    b = b
    NoProc = NoProc
    Procs <- ThreeProcs
    Root <- r
    N_PRIORITY = 2
    DEFAULT_USER_PRIO = 1
    MAX_BONUS = 2
    MAX_SLEEP_AVG = 1
    DEFAULT_TIMESLICE = 1
    MIN_TIMESLICE = 2
    HIGH_SCALE = 1
    WORD = 3
    SleepTimes = {1}
    Syscalls <- FamilyCalls
    Builds = {"one store"}
SYMMETRY Twins
SPECIFICATION MCSpec
INVARIANTS
    KindsListMatchesStatus
    SleepLockExclusive
    NoLostWakeup
    FamilyTree
    RunnableIsQueued
PROPERTY DeadStayDead
