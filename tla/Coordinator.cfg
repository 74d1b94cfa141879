SPECIFICATION FairSpec
CONSTANTS
  NumUnits = 2
  Sessions <- MCSessions
  MaxFaults = 1
INVARIANTS
  TokensSuffice
  RequestPending
  AssertionsHold
  OkMeansComplete
  JoinedMeansQuiet
PROPERTY CodegenEnds
CHECK_DEADLOCK FALSE
