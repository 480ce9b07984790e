\* One link of one redemption, one CV that two requests complete at once, two
\* deliveries, a retry of each task, a mishap; the link is neither revoked nor out
\* of date, and no plan's message is gone for more than a step.
CONSTANTS
  Interviews = {i1}
  Resumes = {r1}
  Calls = {c1, c2}
  Tasks = {t1, t2}
  MaxRedemptions = 1
  MaxRetries = 1
  PlanRetries = 1
  MaxMishaps = 1
SPECIFICATION Spec
SYMMETRY Symmetry
CONSTRAINTS
  LinkStays
  PlansInHand
INVARIANTS
  EveryTokenIsCharged
  IncomingHasATask
  ErasureHolds
  ReadyCVReachesPlans
CHECK_DEADLOCK FALSE
