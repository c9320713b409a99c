CONSTANTS
  Budget = 2
  Headroom = 2
  MaxNest = 1
  Weights = {1}
  Frameless = {1}
  Handlers = {h}
  NoHandler = NoHandler
  Errors = {e1}
  MaxVars = 2
  MaxStack = 4
SPECIFICATION Spec
INVARIANTS ClosesRight
PROPERTIES LeftClosed
CHECK_DEADLOCK FALSE
