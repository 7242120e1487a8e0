------------------------------ MODULE ArpCache ------------------------------
(***************************************************************************)
(* Addresses, subnets, and the ARP cache readers of src/net/arp.rs.        *)
(*                                                                         *)
(* An address is <<family, number>>; a subnet [family, address, prefix].   *)
(* An entry of the kernel's neighbour table is [ip, mac, state].  What the *)
(* platforms show of an entry is modelled from how the readers use it.     *)
(***************************************************************************)
EXTENDS Naturals

CONSTANTS
  Bits,        \* width of an IPv4 address (32)
  OctetBits,   \* width of its last octet (8)
  Loopback, Multicast, LinkLocal,   \* subnets: 127/8, 224/4, 169.254/16
  Macs,                \* link addresses
  ZeroMac, GroupMac,   \* 00:..:00; a MAC with the group bit, ff:..:ff included
  OtherLink            \* a link address that is not a 6-byte MAC

Families == {"v4", "v6"}
Subnet == [family : Families, address : Nat, prefix : 0..Bits]

\* The last conjunct is arithmetic, not a restriction: the provers take a power
\* for some integer.
ASSUME AddressAssumption ==
  /\ Bits \in Nat /\ OctetBits \in 0..Bits
  /\ {Loopback, Multicast, LinkLocal} \subseteq Subnet
  /\ \A n \in 0..Bits : 2^n \in Nat \ {0}

----------------------------------------------------------------------------
(* Addresses and subnets, as ipnet has them.                               *)

Block(net) == 2^(Bits - net.prefix)
Network(net) == (net.address \div Block(net)) * Block(net)

InNet(ip, net) ==
  /\ ip[1] = net.family
  /\ ip[2] \in Network(net)..(Network(net) + Block(net) - 1)

\* Every address of an IPv6 subnet or of a small IPv4 one; otherwise without
\* the network's own address and the broadcast address.
HostsIn(net) ==
  LET edge == IF net.family = "v4" /\ Block(net) > 2 THEN 1 ELSE 0
  IN  {net.family} \X ((Network(net) + edge)..(Network(net) + Block(net) - 1 - edge))

LastOctet(ip) == ip[2] % 2^OctetBits

----------------------------------------------------------------------------
(* What the platforms show of the neighbour table.                         *)

States == {"incomplete", "unreachable", "stale", "reachable", "permanent"}
Entry == [ip : {"v4"} \X Nat, mac : Macs, state : States]

\* The third column of /proc/net/arp: 0x0 without a valid link address.
ProcFlags(e) == IF e.state \in {"incomplete", "unreachable"} THEN 0 ELSE 2

\* sdl_alen of a routing message.
SdlLength(e) ==
  IF e.mac = OtherLink THEN 20 ELSE IF e.state = "incomplete" THEN 0 ELSE 6

\* NL_NEIGHBOR_STATE of netioapi.h.
NlState(e) ==
  CASE e.state = "unreachable" -> 0 [] e.state = "incomplete" -> 1
    [] e.state = "stale" -> 4 [] e.state = "reachable" -> 5
    [] e.state = "permanent" -> 6

----------------------------------------------------------------------------
(* The readers.                                                            *)

NL_NS_INCOMPLETE == 1
NL_NS_UNREACHABLE == 6

\* Linux: a line of parse_proc_arp; columns that do not parse drop the line.
ProcLineKept(e) ==
  /\ ~InNet(e.ip, Loopback)
  /\ ProcFlags(e) # 0
  /\ e.mac \notin {OtherLink, ZeroMac}

\* macOS: a message of parse_one_msg, with an IPv4 destination and a link
\* address for a gateway, then parse_rt_buffer.
RtMessageKept(e) ==
  /\ SdlLength(e) = 6
  /\ ~InNet(e.ip, Loopback) /\ e.mac # ZeroMac

\* Windows: a row of parse_table.
TableRowKept(e) ==
  /\ NlState(e) \notin {NL_NS_INCOMPLETE, NL_NS_UNREACHABLE}
  /\ e.mac # OtherLink
  /\ ~InNet(e.ip, Loopback) /\ e.mac # ZeroMac

IsUnicastTarget(ip, mac) ==
  /\ ~InNet(ip, Loopback) /\ ~InNet(ip, Multicast)
  /\ LastOctet(ip) # 2^OctetBits - 1
  /\ mac # GroupMac

\* arp_cache_hosts: what the platform's reader keeps, filtered.
ArpCacheHost(platform, e) ==
  /\ CASE platform = "linux" -> ProcLineKept(e)
       [] platform = "macos" -> RtMessageKept(e)
       [] platform = "windows" -> TableRowKept(e)
  /\ IsUnicastTarget(e.ip, e.mac)

----------------------------------------------------------------------------
(* What the readers are for.                                               *)

\* A device worth a probe, as the documentation of arp_cache_hosts has it:
\* "anything other than Unreachable / Incomplete is usable for priority
\* probing" (arp.rs:325), where the platform shows the state; macOS does not.
UsableEntry(platform, e) ==
  /\ e.state # "incomplete"
  /\ e.state = "unreachable" => platform = "macos"
  /\ e.mac \notin {OtherLink, ZeroMac, GroupMac}
  /\ \A net \in {Loopback, Multicast} : ~InNet(e.ip, net)
  /\ LastOctet(e.ip) # 2^OctetBits - 1

\* The states that the reader of Windows mixes up: it takes the number of the
\* permanent entries for that of the unreachable ones.
MixedUp(platform, e) == platform = "windows" /\ e.state \in {"unreachable", "permanent"}
=============================================================================
