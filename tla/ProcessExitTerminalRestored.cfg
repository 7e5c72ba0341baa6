CONSTANTS
  Codes = {0, 1, 2}
  Undefined = Undefined
  MaxCallbacks = 2
  MaxDepth = 4
SPECIFICATION Spec
INVARIANT TerminalRestored
CHECK_DEADLOCK FALSE
