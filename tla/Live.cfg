CONSTANTS
    c1 = c1
    p1 = p1
    p2 = p2
    w1 = w1
    n1 = n1
    n2 = n2
SPECIFICATION FairSpec
CHECK_DEADLOCK FALSE
INVARIANTS
    ReaderSound
    GapsExact
    MetricsSound
PROPERTIES
    OnlyForward
    CatchesUp
    EverySecondPublished
