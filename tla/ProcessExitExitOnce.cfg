CONSTANTS
  Codes = {0, 1, 2}
  Undefined = Undefined
  MaxCallbacks = 2
  MaxDepth = 4
SPECIFICATION Spec
INVARIANT ExitOnce
CHECK_DEADLOCK FALSE
