SPECIFICATION Spec
CONSTANTS
  Devices = {d1, d2, d3}
  Overlookable = {d1}
  Duplicates = FALSE
  Resettable = TRUE
INVARIANTS
  KnownIsCurrent
  RemovedOnlyIfGoneUndisturbed
PROPERTIES
  EventuallyKnown
  KeepsContract
  CancelEndsWatch
CHECK_DEADLOCK FALSE
