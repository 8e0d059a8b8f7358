CONSTANTS
    r = r
    p1 = p1
    NoProc = NoProc
    Procs <- TwoProcs
    Root <- r
    N_PRIORITY = 2
    DEFAULT_USER_PRIO = 1
    MAX_BONUS = 2
    MAX_SLEEP_AVG = 1
    DEFAULT_TIMESLICE = 1
    MIN_TIMESLICE = 2
    HIGH_SCALE = 1
    WORD = 3
    SleepTimes = {1}
    Syscalls <- AllCalls
    Builds = {"one store", "line by line"}
SPECIFICATION FairSpec
PROPERTY NoStarvation
