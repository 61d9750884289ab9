\* One donor and one recipient, two attempts, two writes, two crashes.
SPECIFICATION FairSpec
CONSTANTS
    Donors = {A}
    AttemptBound = 2
    WriteBound = 2
    CrashBound = 2
    LateBound = 0
    Overtaking = FALSE
CHECK_DEADLOCK FALSE

    
    
    
PROPERTIES
    ImplementsChunkStore
    CriticalSectionEnds
    SessionEnds
