CONSTANTS
  MaxDepth = 1
  MaxSignals = 2
SPECIFICATION Spec
INVARIANT TimeoutConverted
