SPECIFICATION StreamSpec
CONSTANTS
  Ports = {a, b}
  NoPort = NoPort
  Preferred = a
  Retries = 1
  Modes = {"list", "probe"}
  Behaviours = {"answers", "slow", "silent", "stuck", "stalled"}
  MaxPasses = 2
  Resettable = TRUE
  ChannelCapacity = 1
  MayRaise = TRUE
INVARIANTS
  AnsweringIsFound
  PreferredFirst
  ProbedCalledBack
PROPERTIES
  CallAndPassEnd
CHECK_DEADLOCK FALSE
