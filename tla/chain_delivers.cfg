\* One chain, two workers, faults that exhaust the retries, one worker killed.
CONSTANTS
  Workers = {1, 2}
  Frames = {f1}
  MaxRetries = 1
  MaxChains = 1
  MaxMishaps = 2
SPECIFICATION FairSpec
INVARIANTS
  SignalsComplete
  GradedTextStands
  FindingsOnce
  TransitHasWorker
PROPERTIES
  ChainDelivers
CHECK_DEADLOCK FALSE
