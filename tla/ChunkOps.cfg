SPECIFICATION Spec
CONSTANTS
    Names = {coll}
    Clients = {s1, s2}
    AttemptBound = 2
    CrashBound = 1
    FaultBound = 2
    ElapseBound = 1
    kMaxNumLockAcquireRetries = 1
    kOnErrorNumRetries = 2
    MaxKey = 3
CHECK_DEADLOCK FALSE
SYMMETRY Symmetry
INVARIANTS
    MutualExclusion
    
    ReportedAsItWas
