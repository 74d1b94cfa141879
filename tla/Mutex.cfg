SPECIFICATION FairSpec
CONSTANTS
  Thread = {t1, t2, t3}
INVARIANTS DataVisible NoLostWakeup PoisonReported
PROPERTIES SomebodyGetsIn ImplementsLock
