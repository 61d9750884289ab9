\* Two shards, keys 0..2, versions up to (3, 3): the collection is dropped and sharded again.
CONSTANTS
    sA = sA
    sB = sB
    Shards = {sA, sB}
    MaxKey = 2
    UInt32Max = 3
    MajorBound = 3
    EpochBound = 2
    SplitPointBound = 1
    MaxRefreshAttempts = 2
SPECIFICATION RouterSpec
SYMMETRY Symmetry
INVARIANTS
    StaleRoutersAreRefused
PROPERTIES
    RefreshIsExact
CHECK_DEADLOCK FALSE
