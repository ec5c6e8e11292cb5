SPECIFICATION Spec
CONSTANTS
  Items <- MCItems
  MaxItems = 1
  MaxSteps = 2
  MaxRetries = 1
  Contracts = {"edit"}
  MaxRounds = 2
CHECK_DEADLOCK FALSE
INVARIANT ChangesKept
PROPERTY TurnsEnd
