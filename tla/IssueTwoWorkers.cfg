SPECIFICATION Spec
CONSTANTS
  e1 = e1  e2 = e2  y = y  x = x  a = a  f = f  u1 = u1  u2 = u2  w1 = w1  w2 = w2
  Workers = {w1, w2}
  Events = {e1, e2}
  Hashes = {x, y, a, f}
  Users = {u1, u2}
  Contents <- MCContents
  MaxExpired = 1
  MaxFaults = 1
  MaxTriages = 1
SYMMETRY Symmetry
INVARIANTS
  CountAccounted
  ResolvedIsQuiet
  MembersCoverEvents
  UsersAgree
PROPERTIES
  ImplementsLedger
CHECK_DEADLOCK FALSE
