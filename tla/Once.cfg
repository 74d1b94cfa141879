SPECIFICATION FairSpec
CONSTANTS
  Thread = {t1, t2, t3}
  MaxFailures = 2
INVARIANTS OneInitializer InitVisible PoisonPropagates NoLostWakeup
PROPERTIES EveryCallReturns
