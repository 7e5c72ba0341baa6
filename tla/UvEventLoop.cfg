CONSTANTS
  Loop = Loop
  p1 = p1
  p2 = p2
  w1 = w1
  w2 = w2
  NoWork = NoWork
  Producers <- TwoProducers
  WorkPosters <- OneProducer
  Works <- TwoWorks
  MaxOps = 4
  MaxHandles = 1
SPECIFICATION Spec
SYMMETRY WorkSymmetry
INVARIANTS
  TypeOK
  TasksInOrder
  DrainedBeforeClosed
  NoLostWakeup
  AsyncRefAccurate
  CompletedOnce
PROPERTIES
  ClosedHandleUntouched
  RunReturnsWhenIdle
  FirstInFirstOut
CHECK_DEADLOCK FALSE
