SPECIFICATION RefsSpec
CONSTANTS
    o1 = o1
    o2 = o2
    o3 = o3
    Objects <- MCObjects
    Own <- MCOwn
    Exns <- MCExns
    SlotCap = 3
    GenMod = 2
    Values <- MCOwn
    Null = null
    MaxReuse = 3
    MaxBatch = 3
INVARIANTS
    NoReachableFreed
    SweepExact
    FreeListExact
    OnlyCurrentResolves
    PinsBalanced
PROPERTIES
    Terminates
