SPECIFICATION Spec
CONSTANTS
    m = m
    t = t
    a = a
    d = d
    e = e
    zero = zero
    host = host
    fill = fill
    Filler <- fill
    None = none
    Host <- host
    Areas <- InitAreas
    Class <- InitClass
    Values <- InitValues
    Initial <- InitStart
    InitLen <- InitSizes
    Capacity = 2
    ElemSize = 2
    Interval = 2
    Items = 2
    MaxFuel = 1
    MaxDebt = 1
    MaxOps = 2
INVARIANT
    BoundedDelay
PROPERTIES
    ImplementsAtomic
    FuelExact
