\* A call, its rejoin, two mishaps and two deliveries of the correction.
CONSTANTS
  Calls = {c1, c2}
  Passes = {p1, p2}
  MaxTurns = 2
  MaxClock = 1
  MaxMishaps = 2
SPECIFICATION Spec
SYMMETRY Symmetry
INVARIANTS
  UncontestedTurnsRecorded
PROPERTIES
  CheckpointedNumbersStand
  FinalTurnsStand
CHECK_DEADLOCK FALSE
