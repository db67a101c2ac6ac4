SPECIFICATION Spec
CONSTANTS
  p1 = p1
  p2 = p2
  a1 = a1
  w1 = w1
  w2 = w2
  d = d
  noDist = noDist
  path = path
  base = base
  g = g
  noId = noId
  Processes = {p1, p2}
  Handlers = {a1}
  Workers = {w1, w2}
  Home <- MCHome
  Dists = {d, noDist}
  NoDist = noDist
  Names = {path, base}
  Base <- MCBase
  DebugIds = {g}
  NoDebugId = noId
  DebugIdOf <- MCDebugIdOf
  Covers <- MCCovers
  HasBlob = TRUE
  Places <- MCPlaces
  Wanted <- MCWanted
  OldRows <- AtBase
  OldBlobs <- WithoutDist
  MaxUploads = 2
  MaxDeletes = 1
  MaxLookups = 2
  MaxFaults = 1
INVARIANTS
  ServedBelongs
  AcknowledgedIsFound
  ColdLookupKeepsOrder
  OwnUploadIsUsed
CHECK_DEADLOCK FALSE
