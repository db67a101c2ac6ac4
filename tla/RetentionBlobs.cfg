SPECIFICATION FairSpec
CONSTANTS
  j1 = j1  j2 = j2
  Jobs = {j1, j2}
  Items <- MCItems
  MaxAttempts = 2
  BatchSize = 1
  Servers = {s1, s2}
  MaxFaults = 1
INVARIANTS
  RowsHaveContent
  OrphansBounded
  EmptyOnlyWhenGone
PROPERTIES
  ExpiredReclaimed
CHECK_DEADLOCK FALSE
