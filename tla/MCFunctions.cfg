SPECIFICATION MCSpec
CONSTANTS
  Bits = 6
  OctetBits = 3
  Loopback <- MCLoopback
  Multicast <- MCMulticast
  LinkLocal <- MCLinkLocal
  Macs = {"m1", "m2", "zero", "group", "other"}
  ZeroMac = "zero"
  GroupMac = "group"
  OtherLink = "other"
  PriorityLastOctets <- MCPriority
  PortList <- MCPorts
  MinPrefix = 2
  MaxPrefixes = {1, 2, 3, 5, 7}
  InterfaceLists <- MCInterfaceLists
  NoPrefix = NoPrefix
  SubnetLists <- MCSubnetLists
  Tables <- MCTables
  Platforms = {"linux", "macos", "windows"}
  Discoveries <- MCDiscoveries
  Wanted = 4
  None = None
  CallbackMayRaise = TRUE
INVARIANTS
  SubnetsRight
  ArpTargets
  PlanIsComplete
  ParamsReopen
CHECK_DEADLOCK FALSE
