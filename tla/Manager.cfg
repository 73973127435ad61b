CONSTANTS
    w1 = w1
    w2 = w2
    a = a
    b = b
SPECIFICATION FairSpec
CHECK_DEADLOCK FALSE
INVARIANTS
    UpdateSound
    DeletionSound
PROPERTIES
    OperationsEnd
    DeletionsConfirmed
