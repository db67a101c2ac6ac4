SPECIFICATION Spec
CONSTANTS
  s1 = s1  s2 = s2  i1 = i1
  Servers = {s1, s2}
  Issues = {i1}
  RuleTables <- MCEach
  Hour = 4
  MaxTime = 3
  MaxFaults = 1
SYMMETRY Symmetry
INVARIANTS
  FiresOncePerFault SpacedWithoutFault CooldownPerFault RecordsAreTrue
CHECK_DEADLOCK FALSE
