\* Two shards, keys 0..4, versions up to (3, 3), two incarnations of the collection.
CONSTANTS
    Shards = {sA, sB}
    MaxKey = 4
    UInt32Max = 3
    MajorBound = 3
    EpochBound = 2
    SplitPointBound = 2
SPECIFICATION Spec
SYMMETRY Symmetry
INVARIANTS
    TypeOK
    NoOverlap
    NoGaps
    VersionsUnique
PROPERTIES
    CommitsAlwaysNewer
    OwnershipChangeAlwaysBumpsMajor
CHECK_DEADLOCK FALSE
