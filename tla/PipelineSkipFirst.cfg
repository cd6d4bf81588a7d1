SPECIFICATION FairSpec
CONSTANTS
  NumBuffers = 3
  NumFrames = 8
  MaxVideos = 1
  IFrames = {0, 3, 6}
  FwLook = 3
  FwStep = 2
  RvStep = 3
  Buttons = {"fw"}
  MaxSkips = 1
  FirstSkip = 0
  SlowWorkers = {FALSE}
PROPERTIES
  SkipIsServed
CHECK_DEADLOCK FALSE
