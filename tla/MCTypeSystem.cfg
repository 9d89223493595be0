SPECIFICATION Spec
CONSTANTS
    HashMod = 4
    MaxSubtypeDepth = 2
    MaxRecursion = 1
    Order <- MCOrder
    Menu <- MCMenu
    Specs <- MCSpecs
    Queries <- MCQueries
    MaxTypes <- MCMaxTypes
    MaxAsked = 2
    CacheSize = 2
INVARIANTS
    CanonExact
    SubtypeCoherent
    CrossExact
    CacheTrue
    LayoutSound
    DefineFaithful
CHECK_DEADLOCK FALSE
