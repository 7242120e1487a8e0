SPECIFICATION Spec
CONSTANTS
  Devices = {d1}
  Matching = {d1}
  Capacity = 1
  MaxEvents = 2
  ListMayFail = FALSE
PROPERTIES
  CancelFromAnyThread
CHECK_DEADLOCK FALSE
