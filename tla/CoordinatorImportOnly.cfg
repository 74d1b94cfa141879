SPECIFICATION Spec
CONSTANTS
  NumUnits = 2
  Sessions <- MCSessions
  MaxFaults = 1
INVARIANT ImportOnlyBeforeDone
CHECK_DEADLOCK FALSE
