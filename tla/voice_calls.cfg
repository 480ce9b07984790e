\* Everything may go wrong at once, the loop fair.
CONSTANTS
  Sessions = {s1, s2}
  MaxNudges = 0
  MaxRestarts = 1
SPECIFICATION FairSpec
INVARIANTS
  LiveIsRegistered
PROPERTIES
  ImplementsContract
  CleanExit
  EveryCallEnds
  EndAnnounced
CHECK_DEADLOCK FALSE
