SPECIFICATION Spec
CONSTANTS
  MaxEntries = 4
  MaxCalls = 3
  MaxIndex = 1
  MayBeEmpty = {"export"}
  Names = {1, 2, 3}
  GrowFrom = 1
  NewCap = 1
INVARIANTS
  Released
  IndicesClosed
  LookupExact
CHECK_DEADLOCK FALSE
