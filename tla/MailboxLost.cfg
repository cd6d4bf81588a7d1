SPECIFICATION FairSpec
CONSTANTS
  MaxMessages = 2
  Callbacks = {TRUE}
PROPERTIES
  EveryPostedIsReturned
CHECK_DEADLOCK FALSE
