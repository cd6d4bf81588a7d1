SPECIFICATION JobSpec
CONSTANTS
  MaxBits = 72
  Sizes = {1, 7, 15}
  Runs = {0, 13, 14}
  Heights = {9, 13}
INVARIANTS
  BufferIsWindow
  EachRowOnce
CHECK_DEADLOCK FALSE
