SPECIFICATION Spec
CONSTANTS
  Proc = {p, q}
  None = None
  Published = 1
  MaxDir = 3
  MaxFaults = 0
  MaxDeaths = 1
SYMMETRY Symmetry
INVARIANT LeftoversDeleted
CHECK_DEADLOCK FALSE
