SPECIFICATION Spec
CONSTANTS
  Callbacks = {p, q}
  MaxDepth = 2
  MaxListeners = 2
  NONE = NONE
INVARIANTS
  IndInv
  HoldsTogether
  SeesArguments
  ReturnsDecided
SYMMETRY Plugins
CHECK_DEADLOCK FALSE
