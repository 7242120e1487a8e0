------------------------------ MODULE TcpScan ------------------------------
(***************************************************************************)
(* The TCP subnet sweep: scan_subnets, run_priority_batch and run_batch of *)
(* src/tcp/scan.rs.                                                        *)
(*                                                                         *)
(* One future (the scan) walks through the phases of scan_subnets.  Every  *)
(* phase hands run_batch a set of addresses; run_batch spawns a tokio task *)
(* per address, the tasks share one semaphore, and the scan joins all of   *)
(* them before it looks at a match.  Another thread may cancel, or reset,  *)
(* the CancellationToken at any moment.                                    *)
(*                                                                         *)
(* Abstractions: the order in which an iterator or a JoinSet yields its    *)
(* elements is any order; an address answers (is in open) or it does not,  *)
(* for the whole scan, where answering covers the connection, the probe    *)
(* and the response filter within their timeouts; response bytes are left  *)
(* out.                                                                    *)
(***************************************************************************)
EXTENDS Naturals, FiniteSets

CONSTANTS
  Hosts,          \* IP addresses
  V4,             \* those of them that are IPv4
  Ports,          \* the configured TCP ports, never empty (tcp/mod.rs:215)
  Nets,           \* the parsed subnets
  HostsOf,        \* IpNet::hosts of a subnet
  Covers,         \* the addresses IpNet::contains accepts, for a subnet
  Common,         \* the addresses with a PRIORITY_LAST_OCTETS octet, per subnet
  ArpHosts,       \* hosts the kernel's ARP cache may hold
  UseArp,         \* use_arp_cache
  Strays,         \* hosts that somebody else pings with this process's identifier
  MaxConcurrent,  \* permits of the semaphore
  BatchSize,      \* batch_size of the full sweep
  Resettable,     \* whether somebody may reset the token during the scan
  NoNet           \* net of a task that was not drawn from a subnet's iterator

ASSUME HostsAssumption ==
  /\ V4 \subseteq Hosts
  /\ ArpHosts \subseteq V4
  /\ Strays \subseteq V4
  /\ HostsOf \in [Nets -> SUBSET Hosts]
  /\ Covers \in [Nets -> SUBSET Hosts]
  /\ Common \in [Nets -> SUBSET V4]
  /\ \A n \in Nets : HostsOf[n] \subseteq Covers[n]

ASSUME ParameterAssumption ==
  /\ UseArp \in BOOLEAN
  /\ Resettable \in BOOLEAN
  /\ MaxConcurrent \in Nat
  /\ BatchSize \in Nat \ {0}
  /\ NoNet \notin Nets

VARIABLES
  open,       \* environment: the socket addresses that answer the probe
  arp,        \* environment: the kernel's ARP cache
  cancelled,  \* the AtomicBool of the CancellationToken
  everCancelled, \* history: the token was set at some point of this scan
  phase,      \* where scan_subnets is
  step,       \* where run_batch is within the phase
  unswept,    \* tasks the current route has still to hand to run_batch
  todo,       \* run_batch: addresses the spawn loop has not reached
  waiting,    \* spawned tasks without a permit
  probing,    \* tasks that hold a permit: live connections
  got,        \* run_batch: matches joined, not yet passed on
  permits,    \* free permits of the semaphore
  planned,    \* history: every task of a list this scan made
  spawned,    \* history: every task spawned by this scan
  matches     \* scan_subnets: matches collected

environment == <<open, arp>>
token == <<cancelled, everCancelled>>
tasks == <<waiting, probing, got, permits>>
vars == <<open, arp, cancelled, everCancelled, phase, step, unswept, todo,
          waiting, probing, got, permits, planned, spawned, matches>>

----------------------------------------------------------------------------
(* Addresses and the priority lists of build_priority_addrs.               *)

Addr == Hosts \X Ports
Sources == {"arp_cache", "heuristic", "raw", "full"}
Task == [src : Sources, net : Nets \union {NoNet}, addr : Addr]

\* Mutation: ARP-cached hosts are not checked against the subnets.
ArpAddrs_AnyHost == IF UseArp THEN arp \X Ports ELSE {}

\* The ports of every ARP-cached host that one of the subnets contains.
ArpAddrs ==
  IF UseArp THEN {h \in arp : \E n \in Nets : h \in Covers[n]} \X Ports ELSE {}

\* The common addresses each subnet contains, unless already in the ARP list.
HeuristicAddrs ==
  ({h \in V4 : \E n \in Nets : h \in Common[n] \intersect Covers[n]} \X Ports)
    \ ArpAddrs

PriorityAddrs == ArpAddrs \union HeuristicAddrs

\* remaining_ips: IPv4 hosts of the subnets that no priority list covers.
RemainingHosts ==
  {h \in V4 : /\ \E n \in Nets : h \in HostsOf[n]
              /\ \A p \in Ports : <<h, p>> \notin PriorityAddrs}

TasksFor(src, addrs) == {[src |-> src, net |-> NoNet, addr |-> a] : a \in addrs}

\* host_iter without its filter: one address per subnet, host and port; an
\* address of two subnets comes twice.
HostIter ==
  {t \in [src : {"full"}, net : Nets, addr : Addr] : t.addr[1] \in HostsOf[t.net]}

\* Mutation: the sweep only skips the ARP list.
SweepTasks_ArpFilterOnly == {t \in HostIter : t.addr \notin ArpAddrs}

\* The addresses of the full sweep: priority addresses are filtered out.
SweepTasks == {t \in HostIter : t.addr \notin PriorityAddrs}

\* build_raw_probe_targets: what a SYN scan of the alive hosts finds open;
\* every address when the SYN scan is unavailable, fewer when replies are lost.
RawProbeTargets(alive) == SUBSET (alive \X Ports)

----------------------------------------------------------------------------
Init ==
  /\ open \in SUBSET Addr
  /\ arp \in SUBSET ArpHosts
  /\ cancelled \in BOOLEAN
  /\ everCancelled = cancelled
  /\ phase = "arp_cache"
  /\ step = "between"
  /\ unswept = {}
  /\ todo = {}
  /\ waiting = {}
  /\ probing = {}
  /\ got = {}
  /\ permits = MaxConcurrent
  /\ planned = {}
  /\ spawned = {}
  /\ matches = {}

----------------------------------------------------------------------------
(* The user's thread.                                                      *)

Cancel ==
  /\ ~cancelled
  /\ cancelled' = TRUE
  /\ everCancelled' = TRUE
  /\ UNCHANGED <<environment, phase, step, unswept, todo, tasks,
                 planned, spawned, matches>>

Reset ==
  /\ Resettable
  /\ cancelled
  /\ cancelled' = FALSE
  /\ UNCHANGED <<environment, everCancelled, phase, step, unswept, todo, tasks,
                 planned, spawned, matches>>

----------------------------------------------------------------------------
(* scan_subnets, between two batches.                                      *)

\* Enter run_batch with the addresses of batch.
RunBatch(batch) ==
  /\ step' = "spawn"
  /\ todo' = batch
  /\ planned' = planned \union batch
  /\ UNCHANGED <<environment, token, phase, tasks, spawned, matches>>

\* Go on to the next phase without a batch.
Proceed(next) ==
  /\ phase' = next
  /\ UNCHANGED <<environment, token, step, todo, tasks, spawned, matches>>

\* The list a route works through.
Plan(list) == unswept' = list /\ planned' = planned \union list

ArpBatch ==
  /\ phase = "arp_cache" /\ step = "between"
  /\ ArpAddrs # {}
  /\ RunBatch(TasksFor("arp_cache", ArpAddrs))
  /\ UNCHANGED unswept

NoArpBatch ==
  /\ phase = "arp_cache" /\ step = "between"
  /\ ArpAddrs = {}
  /\ Proceed("heuristic")
  /\ UNCHANGED <<unswept, planned>>

HeuristicBatch ==
  /\ phase = "heuristic" /\ step = "between"
  /\ ~cancelled
  /\ HeuristicAddrs # {}
  /\ RunBatch(TasksFor("heuristic", HeuristicAddrs))
  /\ UNCHANGED unswept

NoHeuristicBatch ==
  /\ phase = "heuristic" /\ step = "between"
  /\ ~cancelled
  /\ HeuristicAddrs = {}
  /\ Proceed("ping")
  /\ UNCHANGED <<unswept, planned>>

StartPing ==
  /\ phase = "ping"
  /\ ~cancelled
  /\ Proceed("pinging")
  /\ UNCHANGED <<unswept, planned>>

\* ping_sweep returned Some(alive).  It takes any echo reply with the
\* identifier of this process for one of its own, those to another sweep
\* of the process included.
PingReplies ==
  /\ phase = "pinging"
  /\ \E alive \in (SUBSET (RemainingHosts \union Strays)) \ {{}} :
       \E targets \in RawProbeTargets(alive) :
         Plan(TasksFor("raw", targets))
  /\ Proceed("raw")

\* ping_sweep returned Some([]): the sweep is skipped.
PingNobody ==
  /\ phase = "pinging"
  /\ Proceed("done")
  /\ UNCHANGED <<unswept, planned>>

\* ping_sweep returned None: no privilege to open a raw socket.
PingUnavailable ==
  /\ phase = "pinging"
  /\ Plan(SweepTasks)
  /\ Proceed("full")

RawBatch ==
  /\ phase = "raw" /\ step = "between"
  /\ ~cancelled
  /\ unswept # {}
  /\ RunBatch(unswept)
  /\ unswept' = {}

\* by_ref().take(batch_size): the iterator keeps what the batch did not take.
LeftAfter(batch) == unswept \ batch

\* take(batch_size) of the addresses left.
FullBatch ==
  /\ phase = "full" /\ step = "between"
  /\ ~cancelled
  /\ \E batch \in (SUBSET unswept) \ {{}} :
       /\ \/ Cardinality(batch) = BatchSize
          \/ batch = unswept /\ Cardinality(batch) < BatchSize
       /\ RunBatch(batch)
       /\ unswept' = LeftAfter(batch)

Exhausted ==
  /\ phase \in {"raw", "full"} /\ step = "between"
  /\ unswept = {}
  /\ Proceed("done")
  /\ UNCHANGED <<unswept, planned>>

\* A cancellation check between two batches ends the scan with what it has.
StopCancelled ==
  /\ phase \in {"heuristic", "ping", "raw", "full"} /\ step = "between"
  /\ cancelled
  /\ Proceed("done")
  /\ UNCHANGED <<unswept, planned>>

----------------------------------------------------------------------------
(* run_batch: the spawn loop, the join loop, and the loop of the caller    *)
(* that passes the matches on.                                             *)

\* The spawn loop checks the token before every task.
SpawnLoopRuns == todo # {} /\ ~cancelled

SpawnTask ==
  /\ step = "spawn"
  /\ SpawnLoopRuns
  /\ \E t \in todo :
       /\ todo' = todo \ {t}
       /\ waiting' = waiting \union {t}
       /\ spawned' = spawned \union {t}
  /\ UNCHANGED <<environment, token, phase, step, unswept, probing, got,
                 permits, planned, matches>>

SpawnLoopEnds ==
  /\ step = "spawn"
  /\ ~SpawnLoopRuns
  /\ step' = "join"
  /\ todo' = {}
  /\ UNCHANGED <<environment, token, phase, unswept, tasks, planned, spawned, matches>>

\* Mutation: the join loop ends with the last task that has a permit.
NothingToJoin_Early == waiting = {}

\* join_next() returns None once every spawned task ended.
NothingToJoin == waiting = {} /\ probing = {}

AllJoined ==
  /\ step = "join"
  /\ NothingToJoin
  /\ step' = "emit"
  /\ UNCHANGED <<environment, token, phase, unswept, todo, tasks,
                 planned, spawned, matches>>

\* Mutation: the raw route does not pass its matches on.
Push_NotRaw(t) == IF t.src = "raw" THEN matches ELSE matches \union {t}

\* matches.push(m)
Push(t) == matches \union {t}

EmitMatch(t) ==
  /\ step = "emit"
  /\ t \in got
  /\ got' = got \ {t}
  /\ matches' = Push(t)
  /\ UNCHANGED <<environment, token, phase, step, unswept, todo, waiting,
                 probing, permits, planned, spawned>>

\* What follows a batch: the priority phases run one batch, the raw route
\* returns, and the full sweep asks its iterator for more.
NextPhase(p) ==
  CASE p = "arp_cache" -> "heuristic"
    [] p = "heuristic" -> "ping"
    [] p = "raw"       -> "done"
    [] OTHER           -> "full"

BatchDone ==
  /\ step = "emit"
  /\ got = {}
  /\ step' = "between"
  /\ phase' = NextPhase(phase)
  /\ UNCHANGED <<environment, token, unswept, todo, tasks, planned, spawned, matches>>

----------------------------------------------------------------------------
(* A spawned task: acquire a permit, probe, drop the permit.  It never     *)
(* looks at the token.                                                     *)

\* Mutation: a task probes whether or not it gets a permit.
HasPermit_Always == TRUE

HasPermit == permits > 0

Acquire(t) ==
  /\ t \in waiting
  /\ HasPermit
  /\ permits' = permits - 1
  /\ waiting' = waiting \ {t}
  /\ probing' = probing \union {t}
  /\ UNCHANGED <<environment, token, phase, step, unswept, todo, got,
                 planned, spawned, matches>>

\* Mutation: the permit of a task that matched is never dropped.
PermitsAfter_LeakOnMatch(t) == IF t.addr \in open THEN permits ELSE permits + 1

\* The permit is dropped when the task ends, whatever the probe returned.
PermitsAfter(t) == permits + 1

FinishProbe(t) ==
  /\ t \in probing
  /\ permits' = PermitsAfter(t)
  /\ probing' = probing \ {t}
  /\ got' = IF t.addr \in open THEN got \union {t} ELSE got
  /\ UNCHANGED <<environment, token, phase, step, unswept, todo, waiting,
                 planned, spawned, matches>>

----------------------------------------------------------------------------
\* The steps of the scan that no channel sees.
ScanControl ==
  \/ ArpBatch \/ NoArpBatch \/ HeuristicBatch \/ NoHeuristicBatch
  \/ StartPing \/ PingReplies \/ PingNobody \/ PingUnavailable
  \/ RawBatch \/ FullBatch \/ Exhausted \/ StopCancelled
  \/ SpawnTask \/ SpawnLoopEnds \/ AllJoined \/ BatchDone

ScanStep == ScanControl \/ \E t \in got : EmitMatch(t)

TaskStep == \/ \E t \in waiting : Acquire(t)
            \/ \E t \in probing : FinishProbe(t)

\* The scan returned; the token may still be set or reset.
Next == ScanStep \/ TaskStep \/ Cancel \/ Reset

\* The scan is polled by block_on and the tasks by the tokio workers; connect
\* and I/O timeouts end every probe.  Nothing makes anybody cancel.
Fairness == WF_vars(ScanStep) /\ WF_vars(TaskStep)

Spec == Init /\ [][Next]_vars /\ Fairness

----------------------------------------------------------------------------
(* Properties.                                                             *)

Phases == {"arp_cache", "heuristic", "ping", "pinging", "raw", "full", "done"}

\* Every variable has its type.
TypeOK ==
  /\ open \in SUBSET Addr
  /\ arp \in SUBSET ArpHosts
  /\ cancelled \in BOOLEAN
  /\ everCancelled \in BOOLEAN
  /\ phase \in Phases
  /\ step \in {"between", "spawn", "join", "emit"}
  /\ unswept \in SUBSET Task
  /\ todo \in SUBSET Task
  /\ waiting \in SUBSET Task
  /\ probing \in SUBSET Task
  /\ got \in SUBSET Task
  /\ permits \in Nat
  /\ planned \in SUBSET Task
  /\ spawned \in SUBSET Task
  /\ matches \in SUBSET Task

\* "max_concurrent caps live connections across the entire scan"
\* (scan.rs:460): the permits are conserved over every phase and every batch,
\* so no batch leaks one and no two batches together exceed the cap.
ConnectionCap == permits + Cardinality(probing) = MaxConcurrent

\* Two subnets that share no host.
DisjointNets ==
  \A m, n \in Nets : m # n => HostsOf[m] \intersect HostsOf[n] = {}

\* With disjoint subnets no address is probed twice in a scan: the ARP list,
\* the heuristic list and the sweep that follows never overlap, whichever
\* route the sweep takes, and no batch repeats a task of an earlier one.
ProbedOnce ==
  DisjointNets /\ Strays = {} =>
    /\ \A s, t \in spawned \union todo \union unswept : s.addr = t.addr => s = t
    /\ spawned \intersect (todo \union unswept) = {}
    /\ todo \intersect unswept = {}

\* A scan that returned left nothing behind: no task waits or holds a
\* connection, and every permit is back.
QuietWhenDone ==
  phase = "done" => /\ waiting = {} /\ probing = {} /\ got = {}
                    /\ permits = MaxConcurrent

\* Nobody is missed.  Between two batches, and when the scan has returned, a
\* scan whose token was never set has probed every task of every list it made
\* that is not still to be swept, and has a match of each that answers: of the
\* priority lists, of the raw route and of every batch of the full sweep.  So
\* after the priority phases no priority address is missing, and with the full
\* sweep exhausted no address of any subnet.
Complete ==
  ~everCancelled /\ step = "between" =>
    /\ \A t \in planned \ unswept : t.addr \in open => t \in matches
    /\ phase \in {"ping", "pinging", "raw", "full", "done"} =>
         \A a \in PriorityAddrs \intersect open : \E t \in matches : t.addr = a
    /\ phase = "full" /\ unswept = {} =>
         \A n \in Nets : \A a \in (HostsOf[n] \X Ports) \intersect open :
           \E t \in matches : t.addr = a

\* A ping sweep returns "those that reply" of the hosts it was given
\* (net/icmp.rs:42), and priority addresses are "within the validated
\* subnets" (scan.rs:346): so no address outside the subnets is contacted.
WithinSubnets ==
  \A t \in spawned : \E n \in Nets : t.addr[1] \in Covers[n]

\* With at least one permit every scan returns, cancelled or not.
Terminates == <>(phase = "done")
=============================================================================
