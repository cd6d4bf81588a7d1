SPECIFICATION Spec
CONSTANTS
  NumBuffers = 3
  NumFrames = 3
  MaxVideos = 2
  IFrames = {0}
  FwLook = 3
  FwStep = 2
  RvStep = 3
  Buttons = {}
  MaxSkips = 0
  FirstSkip = 0
  SlowWorkers = {FALSE}
INVARIANTS
  CoefficientsReady
