SPECIFICATION FairSpec
CHECK_DEADLOCK FALSE
CONSTANTS
  s1 = s1
  s2 = s2
  Sender = {s1}
  MaxQueue = 0
  MaxMsg = 3
INVARIANTS SizeCounts LeakBounded
PROPERTIES KeepsPromise SendReturns CloseEndsDrain CloseTold
