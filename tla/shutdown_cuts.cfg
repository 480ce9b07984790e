\* A deploy while a call is live.
CONSTANTS
  Sessions = {s1, s2}
  MaxNudges = 0
  MaxRestarts = 1
SPECIFICATION Spec
SYMMETRY Symmetry
PROPERTIES
  RunningLeftAlone
CHECK_DEADLOCK FALSE
