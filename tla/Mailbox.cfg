SPECIFICATION FairSpec
CONSTANTS
  MaxMessages = 4
  Callbacks = {TRUE, FALSE}
INVARIANTS
  WordsMatch
  AccountedFor
PROPERTIES
  ChannelImplemented
CHECK_DEADLOCK FALSE
