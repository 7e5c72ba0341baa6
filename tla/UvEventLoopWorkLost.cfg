CONSTANTS
  Loop = Loop
  p1 = p1
  p2 = p2
  w1 = w1
  w2 = w2
  NoWork = NoWork
  Producers <- OneProducer
  WorkPosters <- OneProducer
  Works <- TwoWorks
  MaxOps = 2
  MaxHandles = 0
SPECIFICATION Spec
PROPERTY WorkKeepsLoopAlive
CHECK_DEADLOCK FALSE
