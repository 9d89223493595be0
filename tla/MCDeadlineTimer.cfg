SPECIFICATION Spec
CONSTANTS
    MaxDeadline = 2
    MaxGen = 3
INVARIANTS
    DeadlineBudget
    TimerContained
PROPERTIES
    DeadlineEnforced
    FreeReturns
