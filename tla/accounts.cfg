\* Two users, two requests at once, three tokens in two sessions, five requests.
CONSTANTS
  Users = {u1, u2}
  Calls = {c1, c2}
  MaxTokens = 3
  MaxFamilies = 2
  MaxRequests = 5
SPECIFICATION Spec
SYMMETRY Symmetry
INVARIANTS
  OneUsableToken
  IndexCoversUsable
  AdminRemains
CHECK_DEADLOCK FALSE
