SPECIFICATION Spec
CONSTANTS
  Devices = {d1, d2}
  Overlookable = {}
  Duplicates = FALSE
  Resettable = FALSE
INVARIANTS
  RemovedOnlyIfGone
CHECK_DEADLOCK FALSE
