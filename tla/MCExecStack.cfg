SPECIFICATION Spec
CONSTANTS
    StackSize = 6
    MaxHandlers = 3
    MaxTries = 2
    Tags = {t}
    None = none
    Funcs <- MCFuncs
INVARIANTS
    HandlersMatch
    FrameBounds
    ReadyIsClean
PROPERTIES
    ImplementsUnwinding
