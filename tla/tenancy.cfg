\* Two organisations, one with two candidates; two requests at once on two
\* connections; three rows.
CONSTANTS
  o1 = o1
  o2 = o2
  k1 = k1
  k2 = k2
  r1 = r1
  r2 = r2
  c1 = c1
  c2 = c2
  Orgs = {o1, o2}
  Candidates = {k1, k2}
  Home <- MCHome
  Requests = {r1, r2}
  Connections = {c1, c2}
  MaxRows = 3
  Nobody = Nobody
SPECIFICATION TenancySpec
SYMMETRY Symmetry
INVARIANTS
  OnlyOwnRows
  OwnRowsFound
  AnnouncedIsCommitted
