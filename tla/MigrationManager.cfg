SPECIFICATION Spec
CONSTANTS
    coll = coll
    k1 = k1
    k2 = k2
    autoReq = autoReq
    manualReq = manualReq
    Names = {coll}
    Nodes = {n1, n2}
    Clients = {s1}
    Auto = {autoReq}
    Manual = {manualReq}
    Chunks = {k1, k2}
    CollectionOf <- MCCollectionOf
    Wants <- MCWants
    kMaxNumLockAcquireRetries = 0
    AttemptBound = 1
    CrashBound = 0
    FaultBound = 1
    ElapseBound = 0
    TermBound = 2
    StaleUnlocks = FALSE
    EarlyAnswers = FALSE
    RefreshFails = TRUE
INVARIANTS
    ManagerTypeOK
    LockHeldWhileMigrating
    ActiveMigrationsAreRecorded
    
    NoInvariantFails
SYMMETRY Symmetry
CHECK_DEADLOCK FALSE
