----------------------------- MODULE MCFunctions -----------------------------
(***************************************************************************)
(* The plan of a sweep and the matches of a discovery, side by side: each  *)
(* behaviour is of one of the two.  Addresses have six bits, the last      *)
(* "octet" three: 0..7, 8..15, 16..23 and 24..31 are the ordinary blocks,  *)
(* 40..47 is link-local, 48..55 multicast, 56..63 loopback.                *)
(***************************************************************************)
EXTENDS SweepPlan, DeviceMatch

Net4(address, prefix) == [family |-> "v4", address |-> address, prefix |-> prefix]
MCLinkLocal == Net4(40, 3)
MCMulticast == Net4(48, 3)
MCLoopback == Net4(56, 3)
MCPriority == <<1, 2, 4, 6>>
MCPorts == <<"p", "q">>

Iface(address, prefix) == [loopback |-> FALSE, ip |-> <<"v4", address>>, prefix |-> prefix]
MCInterfaces ==
  {Iface(9, 3), Iface(13, 4), Iface(10, 3), Iface(17, 1), Iface(20, 6),
   Iface(27, 5), Iface(41, 3), Iface(9, NoPrefix),
   [loopback |-> TRUE, ip |-> <<"v4", 57>>, prefix |-> 3],
   [loopback |-> FALSE, ip |-> <<"v6", 1>>, prefix |-> 3]}
MCInterfaceLists == {<<i, j>> : i, j \in MCInterfaces} \union {<<i>> : i \in MCInterfaces} \union {<<>>}

MCSubnetLists ==
  {<<>>, <<Net4(11, 3), [family |-> "v6", address |-> 8, prefix |-> 4]>>,
   <<Net4(8, 2), Net4(12, 4), Net4(9, 6)>>}

Row(address, mac, state) == [ip |-> <<"v4", address>>, mac |-> mac, state |-> state]
MCEntries ==
  {Row(9, "m1", "reachable"), Row(13, "m2", "permanent"), Row(12, "m1", "unreachable"),
   Row(12, ZeroMac, "incomplete"), Row(15, "m2", "stale"), Row(15, GroupMac, "permanent"),
   Row(18, GroupMac, "permanent"), Row(18, OtherLink, "stale"), Row(26, "m2", "stale"),
   Row(50, "m1", "permanent"), Row(57, "m1", "stale"), Row(27, ZeroMac, "permanent")}
MCTables == {<<>>} \union {<<e>> : e \in MCEntries} \union {<<e, f>> : e, f \in MCEntries}

Tcp(host, v6, hostname) ==
  [transport |-> "tcp", host |-> host, v6 |-> v6, port |-> 80, hostname |-> hostname]
Serial(port, baud, data_bits, parity, stop_bits, flow) ==
  [transport |-> "serial", port |-> port, baud |-> baud, data_bits |-> data_bits,
   parity |-> parity, stop_bits |-> stop_bits, flow |-> flow]
Usb(vid, serial, class) ==
  [transport |-> "usb", vid |-> vid, pid |-> 5, serial |-> serial, class |-> class]

MCDevices ==
  [tcp |-> {Tcp(<<Word("10.0.0.1")>>, FALSE, None), Tcp(<<Word("10.0.0.1")>>, FALSE, "plc"),
            Tcp(<<Word("fe80"), Colon, Colon, Decimal(1)>>, TRUE, None)},
   serial |-> {Serial(<<Word("usb-0"), Colon, Decimal(1)>>, None, None, None, None, None)}
     \union {Serial(<<Word("ttyS0")>>, 9600, b, p, s, f) :
               b \in {None, 7, 8}, p \in {None, "none", "even", "odd"}, s \in {None, 1, 2},
               f \in {None, "hardware"}},
   usb |-> {Usb(v, s, c) : v \in {3, 4}, c \in {0, 3},
            s \in {<<>>, <<Word("A1")>>, <<Hex(7), Colon, Hex(8)>>}}]
MCDiscoveries ==
  UNION {{<<d>> : d \in MCDevices[t]} : t \in DOMAIN MCDevices}
    \union {<<d, e, f>> : d, e, f \in MCDevices.usb} \union {<<>>}

MCInit ==
  \/ /\ PlanInit
     /\ stage = "none" /\ devices = <<>> /\ looked_at = 0 /\ found_matches = <<>>
     /\ streamed = <<>>
  \/ /\ MatchInit
     /\ pc = "none" /\ unseen = {} /\ interfaces = <<>> /\ max_prefix = 0 /\ nets = <<>>
     /\ platform = "none" /\ table = <<>> /\ needed = 0 /\ buffer = <<>> /\ cache = <<>>
     /\ arp_addrs = <<>> /\ heuristic_addrs = <<>> /\ remaining_ips = {} /\ full = {}
MCNext == (PlanNext /\ UNCHANGED matchVars) \/ (MatchNext /\ UNCHANGED planVars)
MCSpec == MCInit /\ [][MCNext]_<<planVars, matchVars>>
=============================================================================
