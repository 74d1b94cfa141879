SPECIFICATION Spec
CONSTANTS
  Proc = {p, q}
  None = None
  Published = 2
  MaxDir = 5
  MaxFaults = 1
  MaxDeaths = 0
SYMMETRY Symmetry
INVARIANT CopyIsComplete
CHECK_DEADLOCK FALSE
