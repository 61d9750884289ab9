SPECIFICATION Spec
CONSTANTS
    t1 = t1
    t2 = t2
    Threads = {t1}
    SplitTickets = 1
    SplitThreshold = 2
    TopThreshold = 1
    Base = 2
    PrefixDigits = 4
    WordModulus = 64
    IndexModulus = 8
    PointBound = 3
    WriteBound = 1
CHECK_DEADLOCK FALSE
INVARIANT
    SplitKeysAscending
