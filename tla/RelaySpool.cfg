SPECIFICATION FairSpec
CONSTANTS
  r1 = r1  r2 = r2  r3 = r3  same = same  other = other
  Requests = {r1, r2, r3}
  Digests = {same, other}
  Digest <- MCDigest
  HeaderAuth = {other}
  MirrorSlots = 2
  MaxFaults = 1
INVARIANTS
  CopyAccounted
  IncompleteIsTransient
PROPERTIES
  RemovedIsMirrored
  SpoolDrains
CHECK_DEADLOCK FALSE
