SPECIFICATION FairSpec
CONSTANTS
  NumBuffers = 3
  NumFrames = 5
  MaxVideos = 1
  IFrames = {0, 3}
  FwLook = 2
  FwStep = 1
  RvStep = 2
  Buttons = {"fw", "rv"}
  MaxSkips = 2
  FirstSkip = 2
  SlowWorkers = {FALSE, TRUE}
INVARIANTS
  TypeOK
  AcksMatch
  InputsStable
  RegisterNeverOverflows
  OnlyNewestUnfinished
  NoMessageRefused
PROPERTIES
  DecodeFinishes
CHECK_DEADLOCK FALSE
