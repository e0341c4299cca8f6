SPECIFICATION Spec
CONSTANTS
  Callbacks = {p, q}
  MaxDepth = 1
  MaxListeners = 2
  NONE = NONE
INVARIANTS
  CallsAll
CHECK_DEADLOCK FALSE
