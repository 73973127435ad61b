CONSTANTS
    o1 = o1
    o2 = o2
    a1 = a1
    a2 = a2
    m1 = m1
    r1 = r1
    s1 = s1
    u1 = u1
    i1 = i1
    i2 = i2
    i3 = i3
    n1 = n1
    n2 = n2
    Scenes = {"pair"}
    Owners <- TwoOwners
    Actions <- TwoActions
    Instances <- TwoInstances
    OwnerOf <- TwoOwnerOf
    KindOf <- TwoKindOf
    Touches <- TwoTouches
    DependsOn <- TwoDependsOn
    NodeOf <- TwoNodeOf
    Initial <- TwoInitial
    Env = {"fail", "lost", "delete"}
SPECIFICATION SceneSpec
CHECK_DEADLOCK FALSE
PROPERTIES
    EverythingReturns
