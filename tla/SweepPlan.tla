----------------------------- MODULE SweepPlan ------------------------------
(***************************************************************************)
(* What a sweep is going to probe, of src/tcp/scan.rs and src/net/arp.rs:  *)
(* the subnets (given, or those of the local interfaces), the ARP cache as *)
(* the platform's reader sees it, the two priority lists, and what is left *)
(* for the raw route and for the full sweep.                               *)
(*                                                                         *)
(* Every loop of the code is an action per round.  A round has a position, *)
(* the tuple of the indices of the (nested) loops; unseen holds those of   *)
(* the rounds to come, and the least of them is next.  What a function     *)
(* worked on is forgotten when it returns.                                 *)
(***************************************************************************)
EXTENDS ArpCache, FiniteSets, Sequences, SequencesExt, Functions

CONSTANTS
  PriorityLastOctets,  \* a sequence: <<1, 2, 10, ...>>
  PortList,            \* a sequence
  MinPrefix,           \* the widest subnet_prefix allowed (16)
  MaxPrefixes,         \* values of subnet_prefix
  InterfaceLists,      \* sequences of [loopback, ip, prefix]; NoPrefix: not a netmask
  NoPrefix,
  SubnetLists,         \* values of subnets; <<>>: not given
  Tables,              \* neighbour tables, sequences of entries
  Platforms

Interface ==
  [loopback : BOOLEAN, ip : Families \X Nat, prefix : (0..Bits) \union {NoPrefix}]

\* Ports are deduplicated by the constructor (tcp/mod.rs:179).
ASSUME PlanAssumption ==
  /\ PriorityLastOctets \in Seq(Nat)
  /\ PortList \in Seq(ToSet(PortList)) /\ IsInjective(PortList)
  /\ MinPrefix \in Nat /\ MaxPrefixes \subseteq Nat
  /\ \A list \in InterfaceLists : list \in Seq(Interface)
  /\ \A list \in SubnetLists : list \in Seq(Subnet)
  /\ \A rows \in Tables : rows \in Seq(Entry)
  /\ Platforms \subseteq {"linux", "macos", "windows"}

VARIABLES
  pc,
  unseen,      \* the rounds to come of the loop pc is in
  interfaces, max_prefix,   \* of local_subnets
  nets,        \* the subnets of the sweep
  platform,
  table,       \* the neighbour table when it was last read
  needed,      \* macOS: its size when the first sysctl asked for it
  buffer,      \* what the reader got of it
  cache,       \* arp_cache_hosts
  arp_addrs, heuristic_addrs,
  remaining_ips,   \* what the ping sweep starts from, by the subnet it came from
  full             \* what a full sweep probes, by the subnet it came from

local == <<interfaces, max_prefix>>
reader == <<table, needed, buffer>>
lists == <<arp_addrs, heuristic_addrs>>
plan == <<remaining_ips, full>>
planVars == <<pc, unseen, local, nets, platform, reader, cache, lists, plan>>

----------------------------------------------------------------------------
(* What the loops look at.                                                 *)

Rounds(list) == {<<k>> : k \in DOMAIN list}

ArpRounds == {<<k, j>> : k \in DOMAIN cache, j \in DOMAIN PortList}
HeuristicRounds ==
  {<<k, o, j>> : k \in DOMAIN nets, o \in DOMAIN PriorityLastOctets, j \in DOMAIN PortList}

Before(c, d) ==
  \E i \in DOMAIN c : c[i] < d[i] /\ \A j \in 1..(i - 1) : c[j] = d[j]

IsNext(c) == \A d \in unseen \ {c} : Before(c, d)

\* Mutation: the subnet keeps the address of its interface.
Cidr_HostBits(i) == [family |-> "v4", address |-> i.ip[2],
                     prefix |-> IF i.prefix < max_prefix THEN max_prefix ELSE i.prefix]

\* The network of an interface, no wider than max_prefix.
Cidr(i) ==
  LET net == [family |-> "v4", address |-> i.ip[2],
              prefix |-> IF i.prefix < max_prefix THEN max_prefix ELSE i.prefix]
  IN  [net EXCEPT !.address = Network(net)]

Eligible(i) ==
  /\ ~i.loopback
  /\ i.ip[1] = "v4"
  /\ i.prefix # NoPrefix
  /\ ~InNet(i.ip, LinkLocal)

ArpAddr(c) == <<cache[c[1]].ip, PortList[c[2]]>>
IsArp(c) == \E k \in DOMAIN nets : InNet(cache[c[1]].ip, nets[k])

\* A common last octet after the first octets of the network's address.
HeuristicAddr(c) ==
  LET base == (Network(nets[c[1]]) \div 2^OctetBits) * 2^OctetBits
  IN  <<<<"v4", base + PriorityLastOctets[c[2]]>>, PortList[c[3]]>>

\* Mutation: a common address is tried at its first port only.
IsHeuristic_FirstPort(c) ==
  LET host == HeuristicAddr(c)[1]
  IN  InNet(host, nets[c[1]]) /\ host[2] # 2^Bits - 1 /\ c[3] = 1

\* InNet looks at the family: an IPv6 subnet has no common addresses.
IsHeuristic(c) ==
  LET host == HeuristicAddr(c)[1]
  IN  InNet(host, nets[c[1]]) /\ host[2] # 2^Bits - 1

Priority == ToSet(arp_addrs) \union ToSet(heuristic_addrs)

\* The hosts of every subnet; one of two subnets comes twice.
HostDraws == UNION {{k} \X HostsIn(nets[k]) : k \in DOMAIN nets}

RemainingIps ==
  {d \in HostDraws : d[2][1] = "v4" /\ \A p \in ToSet(PortList) : <<d[2], p>> \notin Priority}

AddrOf(d) == <<d[1][2], d[2]>>
FullSweep == {d \in HostDraws \X ToSet(PortList) : AddrOf(d) \notin Priority}

----------------------------------------------------------------------------
(* The subnets.                                                            *)

PlanInit ==
  /\ pc = "subnets" /\ unseen = {}
  /\ interfaces \in InterfaceLists
  /\ max_prefix \in MaxPrefixes
  /\ nets \in SubnetLists
  /\ nets # <<>> => interfaces = <<>>   \* given subnets: nobody asks
  /\ platform \in Platforms
  /\ table = <<>> /\ needed = 0 /\ buffer = <<>> /\ cache = <<>>
  /\ arp_addrs = <<>> /\ heuristic_addrs = <<>>
  /\ remaining_ips = {} /\ full = {}

TakeSubnets ==
  /\ pc = "subnets"
  /\ pc' = IF nets # <<>> THEN "arp"
           ELSE IF max_prefix \in MinPrefix..Bits THEN "interfaces" ELSE "failed"
  /\ unseen' = Rounds(interfaces)
  /\ UNCHANGED <<local, nets, platform, reader, cache, lists, plan>>

NextInterface ==
  /\ pc = "interfaces"
  /\ \E c \in unseen :
       LET i == interfaces[c[1]]
       IN  /\ IsNext(c)
           /\ unseen' = unseen \ {c}
           /\ nets' = IF Eligible(i) /\ ~Contains(nets, Cidr(i)) THEN Append(nets, Cidr(i))
                      ELSE nets
  /\ UNCHANGED <<pc, local, platform, reader, cache, lists, plan>>

LocalSubnetsReturns ==
  /\ pc = "interfaces" /\ unseen = {}
  /\ pc' = "arp"
  /\ interfaces' = <<>> /\ max_prefix' = 0
  /\ UNCHANGED <<unseen, nets, platform, reader, cache, lists, plan>>

----------------------------------------------------------------------------
(* The ARP cache.                                                          *)

\* use_arp is off.
SkipArp ==
  /\ pc = "arp"
  /\ pc' = "heuristic"
  /\ unseen' = HeuristicRounds
  /\ UNCHANGED <<local, nets, platform, reader, cache, lists, plan>>

ReadTable ==
  /\ pc = "arp" /\ platform # "macos"
  /\ table' \in Tables
  /\ buffer' = table'
  /\ pc' = "rows"
  /\ unseen' = Rounds(buffer')
  /\ UNCHANGED <<local, nets, platform, needed, cache, lists, plan>>

\* The first sysctl; an empty table ends it.
SizeTable ==
  /\ pc = "arp" /\ platform = "macos"
  /\ \E rows \in Tables : needed' = Len(rows)
  /\ pc' = IF needed' = 0 THEN "rows" ELSE "fetch"
  /\ UNCHANGED <<unseen, local, nets, platform, table, buffer, cache, lists, plan>>

\* Mutation: a table that has grown is cut to the size of the buffer.
Fetched_Cut(rows) == IF Len(rows) <= needed THEN rows ELSE SubSeq(rows, 1, needed)

\* The second sysctl fails when the table has outgrown the buffer.
Fetched(rows) == IF Len(rows) <= needed THEN rows ELSE <<>>

FetchTable ==
  /\ pc = "fetch"
  /\ table' \in Tables
  /\ buffer' = Fetched(table')
  /\ pc' = "rows"
  /\ unseen' = Rounds(buffer')
  /\ UNCHANGED <<local, nets, platform, needed, cache, lists, plan>>

NextRow ==
  /\ pc = "rows"
  /\ \E c \in unseen :
       LET e == buffer[c[1]]
       IN  /\ IsNext(c)
           /\ unseen' = unseen \ {c}
           /\ cache' = IF ArpCacheHost(platform, e) THEN Append(cache, e) ELSE cache
  /\ UNCHANGED <<pc, local, nets, platform, reader, lists, plan>>

ArpCacheReturns ==
  /\ pc = "rows" /\ unseen = {}
  /\ pc' = "arp_addrs"
  /\ unseen' = ArpRounds
  /\ table' = <<>> /\ needed' = 0 /\ buffer' = <<>>
  /\ UNCHANGED <<local, nets, platform, cache, lists, plan>>

----------------------------------------------------------------------------
(* The priority lists, and the rest.                                       *)

NextArpAddr ==
  /\ pc = "arp_addrs"
  /\ \E c \in unseen :
       /\ IsNext(c)
       /\ unseen' = unseen \ {c}
       /\ arp_addrs' = IF IsArp(c) /\ ~Contains(arp_addrs, ArpAddr(c))
                         THEN Append(arp_addrs, ArpAddr(c)) ELSE arp_addrs
  /\ UNCHANGED <<pc, local, nets, platform, reader, cache, heuristic_addrs, plan>>

ArpAddrsDone ==
  /\ pc = "arp_addrs" /\ unseen = {}
  /\ pc' = "heuristic"
  /\ unseen' = HeuristicRounds
  /\ UNCHANGED <<local, nets, platform, reader, cache, lists, plan>>

NextHeuristicAddr ==
  /\ pc = "heuristic"
  /\ \E c \in unseen :
       /\ IsNext(c)
       /\ unseen' = unseen \ {c}
       /\ heuristic_addrs' =
            IF /\ IsHeuristic(c)
               /\ ~Contains(arp_addrs, HeuristicAddr(c))
               /\ ~Contains(heuristic_addrs, HeuristicAddr(c))
              THEN Append(heuristic_addrs, HeuristicAddr(c)) ELSE heuristic_addrs
  /\ UNCHANGED <<pc, local, nets, platform, reader, cache, arp_addrs, plan>>

PlanSweep ==
  /\ pc = "heuristic" /\ unseen = {}
  /\ remaining_ips' = RemainingIps
  /\ full' = FullSweep
  /\ pc' = "planned"
  /\ UNCHANGED <<unseen, local, nets, platform, reader, cache, lists>>

PlanNext ==
  \/ TakeSubnets \/ NextInterface \/ LocalSubnetsReturns
  \/ SkipArp \/ ReadTable \/ SizeTable \/ FetchTable \/ NextRow \/ ArpCacheReturns
  \/ NextArpAddr \/ ArpAddrsDone \/ NextHeuristicAddr \/ PlanSweep

PlanSpec == PlanInit /\ [][PlanNext]_planVars

----------------------------------------------------------------------------
(* Properties.                                                             *)

\* "Return a deduplicated list of CIDR subnets for all active non-loopback IPv4
\* network interfaces" (scan.rs:32): no two are the same or overlap in part,
\* none is wider than max_prefix, each has its network's address and lies in
\* the network of an interface, and every interface's address is in one.
SubnetsRight ==
  pc = "interfaces" /\ unseen = {} =>
    /\ \A j, k \in DOMAIN nets : j # k =>
         \/ ~InNet(<<"v4", nets[j].address>>, nets[k]) /\ ~InNet(<<"v4", nets[k].address>>, nets[j])
         \/ nets[j].prefix # nets[k].prefix
    /\ \A k \in DOMAIN nets :
         /\ nets[k].prefix \in max_prefix..Bits
         /\ nets[k].address = Network(nets[k])
         /\ \E i \in DOMAIN interfaces :
              Eligible(interfaces[i]) /\ InNet(interfaces[i].ip, nets[k])
                /\ interfaces[i].prefix <= nets[k].prefix
    /\ \A i \in DOMAIN interfaces :
         Eligible(interfaces[i]) => \E k \in DOMAIN nets : InNet(interfaces[i].ip, nets[k])

\* "Return all (IPv4, MAC) pairs currently in the kernel ARP cache that are
\* usable as unicast scan targets" (arp.rs:12): when the reader returns, its
\* list holds the usable entries of the table as it was last read, one for one,
\* and nothing else; or, on macOS, none at all when the table grew between the
\* two calls.  This does not hold of a Windows table with a permanent entry, which
\* the reader leaves out, or an unreachable one, which it keeps, against the
\* comment at arp.rs:325-326: such tables are excepted.
ArpTargets ==
  LET usable == {k \in DOMAIN table : UsableEntry(platform, table[k])}
      offered == IF platform = "macos" /\ needed < Len(table) THEN {} ELSE usable
  IN  pc = "rows" /\ unseen = {} /\ (\A k \in DOMAIN table : ~MixedUp(platform, table[k])) =>
        /\ ToSet(cache) = {table[k] : k \in offered}
        /\ Len(cache) = Cardinality(offered)

\* Whatever the subnets (nested, unaligned, IPv6) and the cache: no address is
\* in the priority lists twice, or outside the subnets, or again in the sweep;
\* the full sweep misses no host of a subnet, and repeats one only where
\* subnets overlap; and the raw route, which looks at hosts, starts from those
\* the full sweep, which looks at addresses, would probe at IPv4.
PlanIsComplete ==
  pc = "planned" =>
    /\ IsInjective(arp_addrs \o heuristic_addrs)
    /\ \A addr \in Priority : \E k \in DOMAIN nets : InNet(addr[1], nets[k])
    /\ \A k \in DOMAIN nets : \A addr \in HostsIn(nets[k]) \X ToSet(PortList) :
         addr \in Priority <=> ~\E d \in full : d[1][1] = k /\ AddrOf(d) = addr
    /\ \A c, d \in full : c # d /\ AddrOf(c) = AddrOf(d) =>
         c[1][1] # d[1][1] /\ \A e \in {c, d} : InNet(e[1][2], nets[e[1][1]])
    /\ {d \in full : d[1][2][1] = "v4"} = remaining_ips \X ToSet(PortList)
=============================================================================
