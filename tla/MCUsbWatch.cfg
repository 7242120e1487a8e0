SPECIFICATION Spec
CONSTANTS
  Devices = {d1, other}
  Matching = {d1}
  Capacity = 1
  MaxEvents = 5
  ListMayFail = TRUE
INVARIANTS
  MapCatchesUp
PROPERTIES
  KeepsContract
  PictureConverges
  CancelEndsBothThreads
  NeitherThreadIsOrphaned
CHECK_DEADLOCK FALSE
