\* The bounds of candidacy with one request and one delivery, a retry of each
\* task, and no mishap.
CONSTANTS
  Interviews = {i1}
  Resumes = {r1}
  Calls = {c1}
  Tasks = {t1}
  MaxRedemptions = 1
  MaxRetries = 1
  PlanRetries = 1
  MaxMishaps = 0
SPECIFICATION Spec
SYMMETRY Symmetry
CONSTRAINT LinkStays
INVARIANTS
  ReplanIsNotDropped
CHECK_DEADLOCK FALSE
