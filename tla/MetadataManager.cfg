SPECIFICATION Spec
CONSTANTS
    Queries = {q1, q2}
    MaxKey = 3
    Ranges <- TwoRanges
    Shares <- FirstKey
    VersionBound = 3
    EpochBound = 2
    DeletionBound = 3
    CallBound = 2
    FaultBound = 1
CHECK_DEADLOCK FALSE
INVARIANTS
    SnapshotsKeepDocuments
    
    
    
    QueuedDeletionsHaveTask
SYMMETRY Symmetry
