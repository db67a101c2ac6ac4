SPECIFICATION Spec
CONSTANTS
  Rows = {1, 2, 3}
  Limit = 1
  MaxKey = 1
  MaxChanges = 2
INVARIANTS
  OnceUnlessMoved
  CompleteUnlessMoved
PROPERTIES
  ListingEnds
CHECK_DEADLOCK FALSE
