SPECIFICATION StreamSpec
CONSTANTS
  a = a
  b = b
  p = p
  q = q
  Reachable <- MCReachable
  Hosts = {a, b}
  Ports = {p, q}
  NoHost = NoHost
  Preferences = {b, NoHost}
  Retries = 1
  MdnsHosts = {a}
  SsdpHosts = {b}
  Swept = {a}
  TwiceSwept = {a}
  ChannelCapacity = 1
  MayRaise = TRUE
INVARIANTS
  SweepIsMerged
  PreferredAlone
  StreamedOnce
  MatchesCalledBack
PROPERTIES
  CallAndSweepEnd
CHECK_DEADLOCK FALSE
