\* Two sockets at once, three policies of which one edit changes, four events.
CONSTANTS
  Sockets = {s1, s2}
  Types = {"TAB_BLUR", "FULLSCREEN_EXIT", "DEVTOOLS_OPEN", "SECOND_SPEAKER", "ANOMALOUS_SILENCE"}
  Policies <- MCPolicies
  MaxEvents = 4
SPECIFICATION Spec
SYMMETRY Symmetry
INVARIANTS
  EscalationIsExact
  TerminationHasEvidence
  CriticalEndsIt
PROPERTIES
  VerdictOnlyWorsens
CHECK_DEADLOCK FALSE
