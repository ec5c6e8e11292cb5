SPECIFICATION Spec
CONSTANTS
  MaxSteps = 2
  Tasks = {t1, t2, t3}
  Settings <- MCSettings
CHECK_DEADLOCK FALSE
INVARIANTS
  SucceededIffAllDid
