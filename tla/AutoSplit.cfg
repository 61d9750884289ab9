SPECIFICATION FmSpec
CONSTANTS
    t1 = t1
    t2 = t2
    Threads = {t1, t2}
    SplitTickets = 1
    SplitThreshold = 2
    TopThreshold = 1
    Base = 2
    PrefixDigits = 2
    WordModulus = 16
    IndexModulus = 2
    PointBound = 2
    WriteBound = 3
CHECK_DEADLOCK FALSE
SYMMETRY Symmetry
INVARIANTS
    
    TicketsConserved
