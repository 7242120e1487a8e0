SPECIFICATION Spec
CONSTANTS
  x = x
  y = y
  Resolutions = {{}, {x}, {x, y}}
  Ports = {80}
  Commands = {TRUE, FALSE}
  Filters = {"none", "bytes", "empty"}
  MaxChunks = 2
INVARIANTS
  AnswerIsMatched
  HostCollects
PROPERTIES
  HostReturns
CHECK_DEADLOCK FALSE
