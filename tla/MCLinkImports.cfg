SPECIFICATION Spec
CONSTANTS
    a = a
    b = b
    c = c
    m = m
    n = n
    Null = Null
    Primaries <- MCPrimaries
    Owned <- TwoOwned
    OwnedBy <- SiblingOwnedBy
    ObjectsIn = {}
    Storing = {}
    MaxGrowth = 1
SYMMETRY Alike
INVARIANTS
    AliasesCurrent
    FreedOnce
    OneDomain
CHECK_DEADLOCK FALSE
