SPECIFICATION Spec
CONSTANTS
  Handlers = {h1, h2}
  Admins = {a1, a2}
  DsnProjects = {p}
  ApiProjects = {r}
  DsnKeys = {k}
  ApiKeys = {g1, g2}
  Backends = {"postgres", "memory"}
  Numbers = {p, r}
  MaxFaults = 1
SYMMETRY Symmetry
INVARIANTS
  VerdictsHold
  SlugsLead
PROPERTIES
  KeysKept
  ProvisionedUnlessTaken
CHECK_DEADLOCK FALSE
