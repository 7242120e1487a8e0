------------------------------ MODULE RawRoute ------------------------------
(***************************************************************************)
(* The raw-socket route of a sweep: ping_sweep of src/net/icmp.rs,         *)
(* build_raw_probe_targets of src/tcp/scan.rs and syn_scan of              *)
(* src/net/syn_scan.rs.  TcpScan has the outcome as a choice.              *)
(*                                                                         *)
(* A raw socket receives what anybody sends to this machine: answers to    *)
(* this sweep, in any order, several times or never, before the deadline   *)
(* or after it; and the answers to everybody else on the machine.  Others  *)
(* may ping with the identifier of this process: another sweep of it does, *)
(* and so may a process with the same low 16 bits of its number.  Others   *)
(* may use the source ports of a scan: another scan of the process does,   *)
(* and no port is reserved for a raw SYN.  A packet that was not sent is   *)
(* one whose answer never comes.                                           *)
(***************************************************************************)
EXTENDS Naturals, Sequences, FiniteSets, SequencesExt, Functions

CONSTANTS
  Hosts,         \* the hosts to ping: remaining_ips
  Ports,         \* the configured ports, in order
  Loopback,      \* hosts with a loopback address
  OtherPings,    \* pings by others: whom, and with what identifier
  OtherSyns,     \* SYNs by others: to which port of a host, and from which port
  BasePort,      \* first source port
  PortSpace      \* number of source ports (2^16 in the code)

\* Hosts that others ping with the identifier of this process.
Strays == {e.host : e \in {p \in OtherPings : p.id = "ours"}}
AllHosts == Hosts \union {e.host : e \in OtherPings}

\* The ports whose state matters: those to scan, and those others connect to.
Service == ((AllHosts \ Loopback) \X ToSet(Ports)) \union {o.dst : o \in OtherSyns}

ASSUME RawRouteAssumption ==
  /\ Loopback \subseteq Hosts
  /\ IsFiniteSet(AllHosts)
  /\ Ports \in Seq(ToSet(Ports)) /\ Ports # <<>> /\ IsInjective(Ports)
  /\ PortSpace \in Nat \ {0} /\ Len(Ports) <= PortSpace
  /\ \A e \in OtherPings : e.id \in {"ours", "foreign"}
  /\ BasePort \in 0..PortSpace - 1

VARIABLES
  up,       \* environment: hosts that answer a ping
  open,     \* environment: services that answer a SYN with a SYN-ACK
  pc,       \* "ping", "pinging", "build", "syn" or "done"
  alive,    \* hosts the ping sweep has found
  targets,  \* of the SYN scan, in order
  found,    \* the addresses to probe
  outcome,  \* how the route ended: "pending", "unavailable", "nobody",
            \* "unfiltered" (without a SYN scan), "filtered"
  heard     \* history: packets the current socket has received

vars == <<up, open, pc, alive, targets, found, outcome, heard>>

Init ==
  /\ up \in SUBSET AllHosts
  /\ open \in SUBSET Service
  /\ pc = "ping"
  /\ alive = {} /\ targets = <<>> /\ found = {}
  /\ outcome = "pending"
  /\ heard = {}

\* Mutation: the deadline is only looked at when a receive times out.
TimeIsUp_OnlyWhenQuiet(arrivals) == arrivals = {}

\* The deadline is looked at before every receive, whatever is received.
TimeIsUp(arrivals) == TRUE

----------------------------------------------------------------------------
(* ping_sweep                                                              *)

\* Echo replies this socket may receive.
Echoes ==
  [host : Hosts \intersect up, id : {"ours"}] \union {e \in OtherPings : e.host \in up}

\* An echo reply with the identifier of this process, not from loopback.
IsOurs(e) == e.id = "ours" /\ e.host \notin Loopback

\* No privilege to open a raw socket: the caller sweeps all addresses.
PingUnavailable ==
  /\ pc = "ping"
  /\ pc' = "done" /\ outcome' = "unavailable"
  /\ UNCHANGED <<up, open, alive, targets, found, heard>>

SendEchoes ==
  /\ pc = "ping"
  /\ pc' = "pinging"
  /\ UNCHANGED <<up, open, alive, targets, found, outcome, heard>>

RecvEcho(e) ==
  /\ pc = "pinging"
  /\ alive' = IF IsOurs(e) THEN alive \union {e.host} ELSE alive
  /\ heard' = heard \union {e}
  /\ UNCHANGED <<up, open, pc, targets, found, outcome>>

\* With nobody alive the sweep is over, without a probe.
PingDeadline ==
  /\ pc = "pinging" /\ TimeIsUp(Echoes)
  /\ IF alive = {} THEN pc' = "done" /\ outcome' = "nobody"
                   ELSE pc' = "build" /\ UNCHANGED outcome
  /\ heard' = {}
  /\ UNCHANGED <<up, open, alive, targets, found>>

----------------------------------------------------------------------------
(* build_raw_probe_targets                                                 *)

\* The alive hosts in the order of a HashSet, each with all ports.
TargetLists ==
  {[k \in 1..Len(hosts) * Len(Ports) |->
      <<hosts[((k - 1) \div Len(Ports)) + 1], Ports[((k - 1) % Len(Ports)) + 1]>>] :
     hosts \in SetToSeqs(alive)}

\* No local address, no raw TCP socket, or not Linux: all targets.
SynUnavailable ==
  /\ pc = "build"
  /\ targets' \in TargetLists
  /\ found' = ToSet(targets')
  /\ pc' = "done" /\ outcome' = "unfiltered"
  /\ UNCHANGED <<up, open, alive, heard>>

SendSyns ==
  /\ pc = "build"
  /\ targets' \in TargetLists
  /\ pc' = "syn" /\ outcome' = "filtered"
  /\ UNCHANGED <<up, open, alive, found, heard>>

----------------------------------------------------------------------------
(* syn_scan                                                                *)

\* base_port.wrapping_add(i), for the i-th target from 1.
SrcPort(i) == (BasePort + i - 1) % PortSpace

\* The targets with one source port.
SameSrc(q) == {i \in DOMAIN targets : SrcPort(i) = q}

\* Mutation: the map is one ahead of the packets.
PortMap_OffByOne ==
  [q \in {SrcPort(i + 1) : i \in DOMAIN targets} |->
     targets[CHOOSE i \in DOMAIN targets : SrcPort(i + 1) = q]]

\* port_map: of the targets with one source port, the last is kept.
PortMap ==
  [q \in {SrcPort(i) : i \in DOMAIN targets} |->
     targets[CHOOSE i \in SameSrc(q) : \A j \in SameSrc(q) : j <= i]]

\* What a port of a host answers to a SYN from a source port.
Answer(dst, src) == [syn_ack |-> dst \in open, from |-> dst, to |-> src]

\* Answers to this scan.
OwnSegments == {Answer(targets[i], SrcPort(i)) : i \in DOMAIN targets}

\* Answers to others: to another scan, or to a connection of any program.
OtherSegments == {Answer(o.dst, o.src) : o \in OtherSyns}

\* Segments this socket may receive.
Segments == OwnSegments \union OtherSegments

\* Mutation: the sender of a segment is not compared.
Credits_AnyHost(s) == s.syn_ack /\ s.to \in DOMAIN PortMap

\* A SYN-ACK to a source port of this scan, from the host the map has for it;
\* the port it comes from is not compared.
Credits(s) == s.syn_ack /\ s.to \in DOMAIN PortMap /\ PortMap[s.to][1] = s.from[1]

RecvSegment(s) ==
  /\ pc = "syn"
  /\ found' = IF Credits(s) THEN found \union {PortMap[s.to]} ELSE found
  /\ heard' = heard \union {s}
  /\ UNCHANGED <<up, open, pc, alive, targets, outcome>>

SynDeadline ==
  /\ pc = "syn" /\ TimeIsUp(Segments)
  /\ pc' = "done"
  /\ UNCHANGED <<up, open, alive, targets, found, outcome, heard>>

----------------------------------------------------------------------------
Next ==
  \/ PingUnavailable \/ SendEchoes \/ PingDeadline
  \/ SynUnavailable \/ SendSyns \/ SynDeadline
  \/ pc = "pinging" /\ \E e \in Echoes : RecvEcho(e)
  \/ pc = "syn" /\ \E s \in Segments : RecvSegment(s)

\* The blocking threads of both scans run, and time passes.
Spec == Init /\ [][Next]_vars /\ WF_vars(Next)

----------------------------------------------------------------------------
(* Properties.                                                             *)

\* Types; the addresses of a SYN scan are targets of alive hosts.
TypeOK ==
  /\ up \subseteq AllHosts
  /\ open \subseteq Service
  /\ pc \in {"ping", "pinging", "build", "syn", "done"}
  /\ alive \subseteq AllHosts
  /\ targets \in Seq(alive \X ToSet(Ports))
  /\ found \subseteq ToSet(targets)
  /\ outcome \in {"pending", "unavailable", "nobody", "unfiltered", "filtered"}

\* Whose replies make a host alive and a target found, whether the source ports
\* wrap or not, and whoever else scans.  "Send ICMP echo requests to all hosts and
\* return those that reply" (icmp.rs:42) holds but for a host that somebody else
\* pings with the identifier of this process (icmp.rs:94).  "Return those that
\* replied with SYN-ACK" (syn_scan.rs:8-9) holds but for a target to whose source
\* port its host has sent a SYN-ACK that answers somebody else
\* (syn_scan.rs:176-183).  No other packet is taken for an answer.
OnlyAnswersCount ==
  /\ alive \subseteq ((Hosts \union Strays) \intersect up) \ Loopback
  /\ outcome = "filtered" =>
       \A t \in found \ open :
         \E s \in OtherSegments \intersect heard, i \in DOMAIN targets :
           s.syn_ack /\ s.from[1] = t[1] /\ targets[i] = t /\ s.to = SrcPort(i)

\* A target whose reply came in time is missed only if the source ports
\* wrapped and a later target took its one.
MissedOnlyIfWrapped ==
  outcome = "filtered" /\ OwnSegments \subseteq heard =>
    \A i \in DOMAIN targets :
      targets[i] \in open => targets[i] \in found \/ i + PortSpace <= Len(targets)

\* The route ends, however many packets come in.
RouteReturns == <>(pc = "done")
=============================================================================
