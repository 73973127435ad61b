CONSTANTS
    r1 = r1
    w1 = w1
    w2 = w2
    i1 = i1
    i2 = i2
    n1 = n1
    d1 = d1
    d2 = d2
    c1 = c1
    c2 = c2
    None = None
SPECIFICATION Spec
INVARIANTS
    Counted
    DrainedIsQuiet
    RightContract
    
PROPERTIES
    AssignedReady
