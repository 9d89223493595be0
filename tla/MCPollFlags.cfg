SPECIFICATION PollSpec
CONSTANTS
    r1 = r1
    r2 = r2
    interp = interp
    Requesters <- MCRequesters
    Interp <- interp
    BufCap = 2
INVARIANTS
    NoLostRequest
PROPERTIES
    InterruptConsumed
    CollectionRuns
