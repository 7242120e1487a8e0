SPECIFICATION Spec
CONSTANTS
  Hosts <- ThreeHosts
  Ports <- TwoPorts
  Loopback = {"lo"}
  OtherPings <- SomePings
  OtherSyns <- SomeSyns
  BasePort = 1
  PortSpace = 3
INVARIANTS
  OnlyAnswersCount
  MissedOnlyIfWrapped
PROPERTIES
  RouteReturns
CHECK_DEADLOCK FALSE
