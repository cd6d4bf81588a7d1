SPECIFICATION FairSpec
CONSTANTS
  SectorBytes = 2
  ClusterSectors = 2
  Chains <- VideoChains
  FatEntries = 4
  Word = 32
  Sizes = {1, 3, 4, 9}
  Offsets = {0, 5, 7}
  MaxCalls = 2
  MaxFaults = 2
  Directories <- Roots
  FirstVideo = "V1"
  RootEntries = 3
  MaxBrowses = 2
INVARIANTS
  TypeOK
  ReadIsExact
  SelectedIsNext
  PlaysSelected
PROPERTIES
  CallReturns
  SelectionEnds
CHECK_DEADLOCK FALSE
