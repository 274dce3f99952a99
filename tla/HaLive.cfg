SPECIFICATION FairSpec
CHECK_DEADLOCK FALSE
CONSTANTS
  c1 = c1
  c2 = c2
  Caller = {c1}
  Socket = Socket
  None = None
  MaxId = 3
  MaxQueue = 1
  MaxDrop = 2
PROPERTIES CallsReturn Reconnects DeferredRestartTaken
