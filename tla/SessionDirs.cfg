SPECIFICATION Spec
CONSTANTS
  Proc = {p, q}
  None = None
  Published = 1
  MaxDir = 3
  MaxFaults = 2
  MaxDeaths = 1
SYMMETRY Symmetry
INVARIANTS
  PrivateDirKept
  InvalidNeverReused
  CollectsGarbage
PROPERTY ReadersProtected
CHECK_DEADLOCK FALSE
