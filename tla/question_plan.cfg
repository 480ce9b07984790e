\* Two generations beside two requests, two transactions open at once.
CONSTANTS
  Requests = {r1, r2}
  Tasks = {k1, k2}
  MaxOpen = 2
  MaxRetries = 1
SPECIFICATION Spec
SYMMETRY Symmetry
INVARIANT
  GeneratingHasAWorker
PROPERTIES
  NoSilentOverwrite
  FrozenIsPermanent
CHECK_DEADLOCK FALSE
