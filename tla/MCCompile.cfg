SPECIFICATION Spec
CONSTANTS
    HashMod = 5
    MaxSubtypeDepth = 3
    MaxTypeStack = 12
    MaxControlDepth = 3
    MaxChunkCost = 3
    ChunkLimit = 5
    Profiles <- MCProfiles
    Config <- MCConfig
    MaxLen <- MCMaxLen
    Menu <- MCMenu
INVARIANTS
    LoweredAccepted
    FollowsSource
    FuelPaid
    InitBeforeUse
CHECK_DEADLOCK FALSE
