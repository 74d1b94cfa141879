SPECIFICATION FairSpec
CONSTANTS
  Thread = {t1, t2, t3}
  Mask = 3
INVARIANTS Exclusion DataVisible ReadersWaitOnlyForWriters
PROPERTIES SomebodyEnters
