SPECIFICATION Spec
CONSTANTS
  h1 = h1
  h2 = h2
  h3 = h3
  v6 = v6
  outside = outside
  n1 = n1
  n2 = n2
  p1 = p1
  NoNet = NoNet
  Hosts <- MixedHosts
  V4 <- MixedV4
  Ports <- OnePort
  Nets <- TwoNets
  HostsOf <- MixedHostsOf
  Covers <- MixedHostsOf
  Common <- MixedCommon
  ArpHosts = {h1, h2, h3, outside}
  UseArp = TRUE
  Strays = {}
  MaxConcurrent = 2
  BatchSize = 2
  Resettable = TRUE
INVARIANTS
  TypeOK
  ConnectionCap
  ProbedOnce
  QuietWhenDone
  Complete
  WithinSubnets
PROPERTIES
  Terminates
CHECK_DEADLOCK FALSE
