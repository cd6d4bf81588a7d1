SPECIFICATION FairSpec
CONSTANTS
  BMax = 2
  OpTries = 1
  ScrTries = 1
  SwitchTries = 1
  StatusRetries = 1
  InitTries = 2
  BlockBytes = 2
  CardBlocks = 7
  SizeBlocks = 4
  SmallCapacity = 2
  Requests <- SomeRequests
  MaxCalls = 2
  MaxPolls = 2
  MaxFaults = 3
INVARIANTS
  AnswerIsOwn
  DataIsOwn
  WritesInside
  InitMeansUsable
  ReadIsExact
PROPERTIES
  CallReturns
CHECK_DEADLOCK FALSE
