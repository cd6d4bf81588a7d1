SPECIFICATION FairSpec
CONSTANTS
  NumBuffers = 3
  MaxFrames = 21
  MaxPresses = 2
  Lengths = {4}
  KeyDistance = 2
  Reach = 3
  Step = 2
  MaxKeys = 2
INVARIANTS
  HeldNotDisplayed
  ScanAtMostOneBehind
  PlaybackTypeOK
  PlayedOut
  AwaitedComes
PROPERTIES
  ShownInOrder
  RegisteredIsShown
  QueueImplemented
  VideoEnds
  NextServed
