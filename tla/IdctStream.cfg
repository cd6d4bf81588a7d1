SPECIFICATION FairSpec
CONSTANTS
  Blocks = 3
INVARIANTS
  ReadyMeansAccepted
PROPERTIES
  WordsInOrder
  AllLeave
CHECK_DEADLOCK FALSE
