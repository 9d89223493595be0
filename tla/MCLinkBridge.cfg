SPECIFICATION Spec
CONSTANTS
    a = a
    b = b
    c = c
    m = m
    n = n
    Null = Null
    Primaries <- MCPrimaries
    Owned <- RefsOwned
    OwnedBy <- RefsOwnedBy
    ObjectsIn <- RefsObjectsIn
    Storing <- RefsStoring
    MaxGrowth = 0
SYMMETRY Alike
INVARIANT
    LifetimesTied
CHECK_DEADLOCK FALSE
