CONSTANTS
    r1 = r1
    r2 = r2
    w1 = w1
    w2 = w2
    i1 = i1
    i2 = i2
    n1 = n1
    d1 = d1
    d2 = d2
    c1 = c1
    c2 = c2
    None = None
    Requests = {r1, r2}
    Workloads = {w1}
    Instances = {i1}
    Nodes = {n1}
    Definitions = {d1}
    QueueLimit = 1
    Capacity <- OneSlot
    NodeOf <- OneNode
    Routing <- OneRouted
    Owner <- OneShared
    Contract <- OneContract
    ProfileOf <- OneProfile
    Env = {"expire", "crash", "write"}
    MaxBoots = 2
SPECIFICATION SceneSpec
SYMMETRY SymmetryRequests
INVARIANTS
    TypeOK
    ReplyOnce
    WaitingServed
    NoFinalWhileHeld
    PhysicalCapacity
    HeldAccounted
    FinalOnce
