SPECIFICATION FairSpec
CONSTANTS
  Thread = {t1, t2, t3, t4, t5}
  NoThread = NoThread
  num_threads = 3
INVARIANTS NoLostRelease
PROPERTIES ImplementsBarrier ReleasedLeave
