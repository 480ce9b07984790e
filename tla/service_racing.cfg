\* Any two handlers may overlap, and events are handled in any order.
CONSTANTS
  Sessions = {s1, s2}
  Txns = {t1, t2}
  Reasons = {"completed", "abandoned"}
  MaxRetries = 0
  MaxCrashes = 1
SPECIFICATION Spec
SYMMETRY Symmetry
INVARIANTS
  NoShowNeverJoined
  ChainOnlyAfterEnd
  ChainOnce
  EndMomentIsTheEnd
PROPERTIES
  NeverUnjoined
  ImplementsLifecycle
CHECK_DEADLOCK FALSE
