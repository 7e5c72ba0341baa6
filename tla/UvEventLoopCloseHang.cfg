CONSTANTS
  Loop = Loop
  p1 = p1
  p2 = p2
  w1 = w1
  w2 = w2
  NoWork = NoWork
  Producers <- Nobody
  WorkPosters <- Nobody
  Works <- Nobody
  MaxOps = 2
  MaxHandles = 1
SPECIFICATION FairSpec
PROPERTY CloseReturns
CHECK_DEADLOCK FALSE
