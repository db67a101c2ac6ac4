SPECIFICATION LimiterSpec
CONSTANTS
  Requests = {r1, r2}
  Buckets = {b1, b2}
  limit = 2
  window = 4
  Second = 2
  maxEntries = 2
  MaxTime = 6
  MaxRequests = 6
SYMMETRY Symmetry
INVARIANTS
  PassesBounded
PROPERTIES
  RefusalsJustified
CHECK_DEADLOCK FALSE
