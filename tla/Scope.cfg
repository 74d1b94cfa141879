SPECIFICATION FairScopeSpec
CONSTANTS
  Unparker = {main, t1, t2}
  Main = main
  Max = 7
  MaxUnparks = 3
INVARIANTS NoLostToken NoLostWakeup BorrowsEnd WorkVisible PanicsReported JoinUnwraps
PROPERTIES ScopeReturns
CHECK_DEADLOCK FALSE
