SPECIFICATION Spec
CONSTANTS
  NumBuffers = 3
  MaxFrames = 4
  MaxPresses = 1
INVARIANTS
  HeldNotScanned
