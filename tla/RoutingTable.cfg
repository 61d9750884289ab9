\* Two shards, keys 0..3, versions up to (3, 3), one incarnation of the collection.
CONSTANTS
    sA = sA
    sB = sB
    Shards = {sA, sB}
    MaxKey = 3
    UInt32Max = 3
    MajorBound = 3
    EpochBound = 1
    SplitPointBound = 1
    MaxRefreshAttempts = 2
SPECIFICATION RouterSpec
SYMMETRY Symmetry
INVARIANTS
    RouterTypeOK
    StaleRoutersAreRefused
PROPERTIES
    RefreshIsExact
CHECK_DEADLOCK FALSE
