SPECIFICATION Spec
CONSTANTS
  e1 = e1  e2 = e2  e3 = e3  a = a  b = b  r = r  x = x  i1 = i1  i2 = i2
  w1 = w1  w2 = w2
  Workers = {w1, w2}
  Embedded = {}
  Envelopes = {e1, e2}
  Keys = {a, b, r, x}
  Issues = {i1, i2}
  Content <- MCContent
  MaxJobs = 2
  MaxFaults = 0
  BatchLimit = 2
  MaxAttempts = 2
SYMMETRY Symmetry
INVARIANTS
  CountsExact
  AttemptsIdentifyLease
CHECK_DEADLOCK FALSE
