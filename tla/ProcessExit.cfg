CONSTANTS
  Codes = {0, 1, 2}
  Undefined = Undefined
  MaxCallbacks = 2
  MaxDepth = 4
SPECIFICATION Spec
INVARIANTS
  TypeOK
  ExitStatus
  ExitOnceUnlessFatal
  ExitHandlersRun
CHECK_DEADLOCK FALSE
