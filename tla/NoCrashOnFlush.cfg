SPECIFICATION FlushSpec
CONSTANTS
    t1 = t1
    t2 = t2
    d1 = d1
    d2 = d2
    k1 = k1
    k2 = k2
    Threads = {t1, t2}
    DbIds = {d1, d2}
    TaskIds = {k1, k2}
    MaxRefreshAttempts = 2
    VersionBound = 2
    DropBound = 0
    FaultBound = 2
SYMMETRY Symmetry
INVARIANT
    NoCrash
