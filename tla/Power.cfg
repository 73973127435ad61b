CONSTANTS
    a = a
    b = b
    c = c
    NoMode = NoMode
SPECIFICATION FairSpec
CHECK_DEADLOCK FALSE
INVARIANTS
    SettledSound
PROPERTIES
    
    RequestsSettle
