CONSTANTS
  MaxDepth = 2
  MaxSignals = 3
SPECIFICATION Spec
INVARIANTS
  TypeOK
  BreakContained
  DeliveredOnce
  InterruptArmed
