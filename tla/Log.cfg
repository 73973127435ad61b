CONSTANTS
    r1 = r1
    r2 = r2
SPECIFICATION FairSpec
CHECK_DEADLOCK FALSE
INVARIANTS
    LogSound
    
    
PROPERTIES
    ImplementsLedger
    CallersAnswered
