SPECIFICATION Spec
CONSTANTS
    m = m
    t = t
    a = a
    d = d
    e = e
    zero = zero
    host = host
    fill = fill
    Filler <- fill
    None = none
    Host <- host
    Areas <- CopyAreas
    Class <- CopyClass
    Values <- CopyValues
    Initial <- CopyStart
    InitLen <- CopyLen
    Capacity = 4
    ElemSize = 1
    Interval = 2
    Items = 1
    MaxFuel = 1
    MaxDebt = 1
    MaxOps = 1
PROPERTY
    ImplementsAtomic
    Completes
