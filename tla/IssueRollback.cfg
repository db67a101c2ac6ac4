SPECIFICATION FairSpec
CONSTANTS
  e1 = e1  e2 = e2  y = y  x = x  a = a  f = f  u1 = u1  u2 = u2  w1 = w1  w2 = w2
  Workers = {w1}
  Events = {e1, e2}
  Hashes = {f}
  Users = {u1, u2}
  Contents <- MCFingerprint
  MaxExpired = 0
  MaxFaults = 1
  MaxTriages = 0
PROPERTIES
  EveryEventStored
CHECK_DEADLOCK FALSE
