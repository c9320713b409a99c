CONSTANTS
  Budget = 3
  Headroom = 4
  MaxNest = 2
  Weights = {1, 2}
  Frameless = {}
  Handlers = {h}
  NoHandler = NoHandler
  Errors = {e1}
  MaxVars = 1
  MaxStack = 6
SPECIFICATION Spec
INVARIANTS HandlersRight  ExtraRoomSuffices
CHECK_DEADLOCK FALSE
