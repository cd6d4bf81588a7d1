SPECIFICATION FairSpec
CONSTANTS
  MaxPasses = 4
  FifoDepth = 2
  LateWrites = {TRUE, FALSE}
INVARIANTS
  TypeOK
  WaitMeansStored
PROPERTIES
  WaitsEnd
CHECK_DEADLOCK FALSE
