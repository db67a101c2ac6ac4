SPECIFICATION PathSpec
CONSTANTS
  Nothing = Nothing
  Types <- MCTypes
  Errors <- MCErrors
  Known <- MCKnown
  Vendored <- MCVendored
  Sent <- MCSent
  RawEvents <- MCRawEvents
  Tables <- MCTables
  Sources <- MCSources
  Names <- MCNames
INVARIANTS
  ItemsArrive
  RefusedOnlyPacked
  MapsDecoded
  BuildsGroupTogether
CHECK_DEADLOCK FALSE
