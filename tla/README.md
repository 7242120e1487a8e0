# A specification of dafydd

dafydd finds devices on a network, on serial ports and on the USB bus. The core
is Rust, driven from Python; it is concurrent almost everywhere: tokio tasks
behind a semaphore, blocking threads that nobody can abort, channels between a
discovery thread and a Python thread that holds the GIL, and one cancellation
token that everything polls at some points and not at others. These modules
describe that core: the control of every discovery and watch, TLC runs on small
instances, and TLAPS proofs about the sweep, the probes, the raw route and both
watches for every instance.

Paths below are relative to the repository root (`src/` holds the Rust code).

## 1. The system

### Components

| component | code | state it keeps | operations |
|---|---|---|---|
| TCP subnet sweep | `src/tcp/scan.rs` `scan_subnets`, `run_priority_batch`, `run_batch` | semaphore, JoinSet of the batch, matches, the host iterator | ARP batch, heuristic batch, ping and raw route, full sweep in batches |
| TCP local subnets, sweep plan | `src/tcp/scan.rs` `local_subnets`, `build_priority_addrs` | lists of subnets and addresses | interfaces to subnets, ARP and heuristic lists, what is left to sweep |
| TCP address probe | `src/tcp/scan.rs` `probe_host`, `probe_addr`, `probe_stream` | tasks, connections, response buffers | resolve, connect, write, read until close, filter, join |
| TCP discovery | `src/tcp/mod.rs` `run_discovery`, `try_preferred`, `probe_named_hosts` | all matches so far, retry counter | preferred host, mDNS hosts, SSDP hosts, sweep, deduplication |
| TCP streaming, serial streaming | `src/tcp/mod.rs`, `src/serial/mod.rs` `discover_streaming` | bounded channel, discovery thread, returned list | send, receive, callback, join |
| Polling watch | `src/watch.rs` | previous result | pass, diff, callbacks, sliced sleep |
| Serial port probe | `src/serial/probe.rs` | port settings (rate, timeout), response buffer, baud index | set rate, write, read, judge |
| Serial discovery | `src/serial/mod.rs`, `src/serial/probe.rs` | JoinSet, blocking threads, open ports | list-only, preferred port with retries, sweep with budget and abort |
| USB watch | `src/usb/mod.rs` `watch` | event channel, feeder thread, map of reported devices | start watcher, initial list, event loop |
| Cancellation token | `src/types.rs` | an atomic flag | cancel, reset, is_cancelled |
| ICMP ping sweep, SYN scan | `src/net/icmp.rs`, `src/net/syn_scan.rs` | raw socket, target map | send, receive until deadline |
| ARP cache readers | `src/net/arp.rs` | a buffer (macOS) | read the neighbour table, filter |
| mDNS, SSDP | `src/net/mdns.rs`, `src/net/ssdp.rs` | none | produce candidate hosts |
| USB discovery | `src/usb/mod.rs`, `src/streaming.rs` | none | enumerate, filter, call back |
| DeviceMatch | `src/types.rs`, built by every transport | address, info | format, take apart again, `bus_params` |
| Runtime, bindings | `src/runtime.rs`, `src/lib.rs`, `src/error.rs` | none of interest | - |

### How they interact

* `discover` of TCP runs `run_discovery` on the tokio runtime with the GIL
  released. `run_discovery` tries the preferred host, then mDNS, SSDP and the
  sweep, each only when the ones before left something to do.
* `discover_streaming` puts the same `run_discovery` on a thread, with the
  sending end of a bounded channel; the caller drains the channel while it
  holds the GIL.
* `watch` of TCP and serial call `discover` again and again through
  `poll_watch` and compare consecutive results. `watch` of USB has no passes:
  a feeder thread moves OS events into a channel.
* A serial sweep gives every port a task that waits, for a budget, for a
  blocking thread. The budget ends the task, never the thread.
* The token is shared by everything a user hands it to; another Python thread
  may set or reset it at any moment that thread can hold the GIL.

### What is hard here

* *Interleaving*: a cancel falls between any two spawns, joins, phases; USB
  devices come and go between starting the watcher and listing the devices.
* *Resources*: one semaphore over all phases; channels of 256 and 64 that drop
  or block when full; ports that outlive the pass that opened them.
* *Ordering*: four routes hand addresses to the sweep, three sources hand
  matches to the result, and only some of them are deduplicated.
* *Staleness*: a partial result of a cancelled pass is diffed as a complete one;
  a port keeps the short timeout, the rate and late bytes of an earlier attempt.
* *Liveness*: joins that wait for every task, a receiver that waits for the
  sender to be dropped, a GIL held while waiting, timeouts per read.

The `hazards` of `PROJECT.json` list them one by one, at the line where each
bites, with the properties that would notice it go wrong.

### What correctness means, component by component

* *Sweep*: the cap on connections holds over the whole scan; nobody is probed
  twice or outside the subnets; undisturbed, nobody is missed;
  the scan returns with nothing left running.
* *Address probe*: a match carries the whole answer; an acceptable answer of a
  peer that closes in time is a match; every match of a host is returned once
  and no task outlives the probe, which ends whatever the peers do.
* *Subnets and plan*: no subnet twice or wider than allowed, every interface
  covered; the ARP list holds usable entries only; priority lists and sweep do
  not overlap and together miss nobody.
* *DeviceMatch*: what `bus_params` reads back opens the device that was found, as
  it was found.
* *Raw route*: what makes a host alive or a port open is a packet that answers
  every question the code asks of it; a reply in time is not missed unless the
  source ports wrapped; foreign traffic does not keep the sweep from ending.
* *TCP discovery*: nothing but the preferred host is contacted before its
  attempts failed; an address of the sweep is added once and never lost.
* *Streaming*, TCP and serial: a match is delivered at most once, all that were
  not dropped at a full channel are delivered, and both call and sweep end.
* *Watches*: seen through the callbacks, every device alternates between
  appearing and vanishing; the picture converges to the truth; a set token ends
  the watch and every thread of it, and no thread is left behind without the
  other.
* *Serial probe*: the reported rate is the rate of the line; a device that
  answers in time is found; cancelling costs one more probe at most.
* *Serial discovery*: answering ports are found unless an older thread holds
  them; preferred first; every pass returns.

## 2. The modules

```
PassContract <- PollWatch <- PollWatchProofs
WatchContract <- implemented by - PollWatch, UsbWatch <- UsbWatchProofs
TcpScan <- MCTcpScan
        <- TcpScanProofs
SweepContract <- TcpDiscovery <- TcpStreaming <- MCTcpStreaming
                                              <- TcpStreamingProofs
ProbeStream <- MCProbeStream        RawRoute <- MCRawRoute
            <- ProbeStreamProofs             <- RawRouteProofs
SerialProbe <- MCSerialProbe        SerialDiscovery <- SerialStreaming
            <- SerialProbeProofs    SerialStreaming <- SerialDiscoveryProofs
ArpCache <- SweepPlan <- MCFunctions -> DeviceMatch
                      <- TcpScanProofs  DeviceMatch <- UsbWatchProofs
```

An arrow without a word is EXTENDS. `TcpDiscovery` takes what `ProbeStream` and
`TcpScan` do as one step each, `TcpScan` takes the outcome of `RawRoute` and the
lists of `SweepPlan` as given, `SerialDiscovery` the outcome of `SerialProbe`,
and `PollWatch` a whole discovery. All but the one between the serial modules
are closed by theorems (section 5): `PlanFitsScan`, `RouteFitsScan`,
`SweepFitsDiscovery`, `ProbeFitsDiscovery`, and a `PassFitsWatch` for each of the
two transports. The modules of these theorems extend the contract of the seam
(`SweepContract`, `PassContract`) besides their own.

Each module names in its header what it abstracts. `PROJECT.json` maps every
definition that translates code to the lines it translates. Definitions named
`Operator_Something` (each under a comment that begins with "Mutation") are the
bugs the properties are tested against: each replaces `Operator` in one trial
run, in which the property must fail.

**TcpScan** models `scan_subnets`. `phase` is the position in that function
(`arp_cache`, `heuristic`, `ping`, `pinging`, `raw`, `full`, `done`), `step` the
position in `run_batch` (`between` two batches, `spawn`, `join`, `emit`).
`todo` is what the spawn loop has not reached, `waiting` the spawned tasks
without a permit, `probing` those with one, `got` the matches joined and not
yet passed on, `unswept` the rest of the iterator. The token is looked at
exactly where the code looks: between phases, between batches, before every
spawn, and not while pinging, waiting for a permit, or joining. The ping sweep
may return `None` (no privilege: full sweep), nobody (the scan ends) or any
set of hosts, of which a SYN scan leaves any set of addresses. An address
answers, or not, for the duration of a scan.

**RawRoute** models the inside of those two: `ping_sweep`,
`build_raw_probe_targets` and `syn_scan`. A raw socket receives what anybody
sends to the machine (`Echoes`, `Segments`), each packet in any order, any
number of times or never. Others ping (`OtherPings`), with another identifier or
with the one of this process, which is the low 16 bits of its number and the same
for all its sweeps. Others send SYNs (`OtherSyns`), from any source port to any
port of any host: another scan of the process, which uses the same source ports,
or a connection of any program, since nothing reserves the source port of a raw
SYN. What a port answers depends on its state alone (`Answer`). `PortMap` is the
map from source port to target, in which later targets overwrite earlier ones
once the ports wrap.

**SweepPlan** models what happens before the first packet, with lists as the
code has them: the subnets of the interfaces, the two priority lists, the hosts
the ping sweep starts from and the addresses of a full sweep. Every loop
(`NextInterface`, `NextRow`, `NextArpAddr`, `NextHeuristicAddr`) takes a step per
round: `unseen` holds the positions, tuples of the indices of the nested loops,
still to come, and the least is next. A function's working state is set back
when it returns, which only keeps the state space small. Addresses are
`<<family, number>>` of a configurable width, subnets carry their prefix, so that
network addresses, widths and last octets are computed and not assumed.
**ArpCache**, which it extends, has the neighbour table as the three platforms
show it and the readers of `src/net/arp.rs` as filters; on macOS the table is
read in two calls (`SizeTable`, `FetchTable`) between which it may grow.

**DeviceMatch** models what each transport writes into a match and what the
accessors and `bus_params` read back. Text is a sequence of tokens (words,
colons, brackets, decimal and hexadecimal numbers), so that splitting at the
first or the last colon can go wrong where the code could. A discovery goes
through its devices one by one (`DiscoverNext`); `CallNext` and `ReturnStreamed`
are `run_streaming`. `Passing(k)` counts the devices that pass the filters, and
with it `ParamsReopen` says which match belongs to which device.

**ProbeStream** models `probe_host`: the name resolves to any set of addresses,
each gets a task at each port, and the tasks run `probe_addr` and
`probe_stream` against peers that greet early, answer in chunks, close, reset,
or do not read. `needs` is the chunk that completes what the filter looks for;
an empty filter panics inside its task. `connect_timeout` and `io_timeout` may
fire at any moment of the wait they bound.

**TcpDiscovery** models `run_discovery`: the preferred host with its retries,
the mDNS and SSDP hosts one after the other, the sweep, and the loop that merges
its matches into the result one by one. The sweep is one step, to any result
**SweepContract** allows: answering addresses of its subnets in any order, one of
two subnets perhaps twice (not when a priority list had it first). So is the
probe of a host (`HostResults`): its answering addresses in any order. A sweep may
fail (`SweepFails`) with everything the fast paths had found.

**TcpStreaming** adds who calls it. `discover` waits (`consumer = "waiting"`) and
ends "discovered"; `discover_streaming` puts the discovery on a thread whose
every match is also a `try_send` into `channel`; the consumer receives, calls
back, and joins the thread when the channel is empty and its sender gone. Another
Python thread can cancel or reset only while the GIL is free, which it is during
`discover`, in a callback, or after the call; a callback may itself do so, or
raise. `dropped` records the positions of the matches a full channel refused.

**PollWatch** models `poll_watch` and `compute_diff`. A pass is one step with a
beginning and an end in the environment: `stable` devices answered throughout,
`glimpsed` ones at some point. An undisturbed pass lists glimpsed devices only,
and all the stable ones but those it `overlooked`: when the preferred host or
port answers, the pass ends there; a port may be held by a thread of an earlier
pass; a raw scan may lose a reply. A disturbed pass (the token was set while it
ran) may return early, with fewer, and successfully. The lists a pass may return
are those of **PassContract**. `calls` are the positions, in the new or
in the old list, of the devices whose callback is still due.

**UsbWatch** models `UsbDiscovery::watch` with its two threads, the OS stream
between bus and feeder, and the bounded channel between feeder and watcher.
`tracked` is the map of reported devices, `announced` the same seen through the
callbacks, `unlisted` what `list_devices` has not looked at. A thread that wants
to call `cancel()` is `wanted` and needs the GIL, which the watcher gives up
while it lists and in callbacks.

**WatchContract** is the abstract watch: `Added(d)` only for an unknown device,
`Removed(d)` only for a known one, nothing after `Return`. PollWatch and
UsbWatch implement it under `KeepsContract`; the refinement maps `known` to
`known` (PollWatch) or `announced` (UsbWatch) and `over` to
`pc = "returned"`. The bit `beat` flips with every callback, so that a
callback which leaves `known` alone is still a step of the contract and must
be one it allows.

**SerialProbe** models the loop over baud rates, as a future and as the blocking
twin, with and without a response terminator. Time passes in units of the
shortest gap a device leaves between chunks; a reply is the list of times at
which its chunks arrive (`at`), and a read waits `left` units at most. `line` is
the rate the port is at, `late` and `dirty` follow bytes of an earlier answer
that arrive after the buffer was cleared.

**SerialDiscovery** models passes of `run_discovery` in one process: `task` is
the tokio task of a port, `thread` its blocking thread, `leftover` the ports
that threads of earlier passes hold open. A `stalled` port takes no bytes: the
sweep's budget ends its task, while the probe of a preferred port waits for
ever. `Abandon` is asyncio dropping the future of `discover_async`.

**SerialStreaming** adds who calls it, to SerialDiscovery what TcpStreaming is to
TcpDiscovery. There are two places that send: `PreferredSends` before the fast
path returns its match, `JoinSends` where the sweep collects one; a list-only pass
has none. Both are a `try_send`, which fails without a trace when the channel is
full (`dropped`) or the receiver gone. `caller` is the calling Python thread. One
simplification: the next call waits for the discovery thread that a callback
which raised left behind; two passes at one time are in SerialDiscovery only as
far as the threads of the earlier hold ports.

### The token

`cancel` and `reset` are actions of every module that reads the token, at every
moment at which the code lets another thread run.

## 3. The runs

Deadlock checking is off everywhere: every one of these behaviours ends (a scan
that returned, a probe that is done), and those that do not end are covered by
liveness properties. All runs together take about five minutes.

| run | instance | what it asks |
|---|---|---|
| `MCTcpScan` (452k states) | IPv4 subnet of 3 hosts, IPv6 subnet of 1; the ARP cache may hold any of the IPv4 hosts, the one of the heuristics included, and one outside; a heuristic address outside; 2 permits; batches of 2; cancel and reset | `TypeOK`, `ConnectionCap`, `ProbedOnce`, `QuietWhenDone`, `Complete`, `WithinSubnets`, `Terminates` |
| `MCRawRoute` (1.10M) | 2 hosts and a loopback one, 2 ports, 3 source ports; others ping with their identifier and with ours, connect, and scan | `OnlyAnswersCount`, `MissedOnlyIfWrapped`, `RouteReturns` |
| `MCFunctions` (222k) | up to 2 interfaces of 10 kinds at 5 values of `max_prefix`; aligned, nested and IPv6 subnets; neighbour tables of any 2 entries of 12 kinds on 3 platforms; matches of 3 transports | `SubnetsRight`, `ArpTargets`, `PlanIsComplete`, `ParamsReopen` |
| `MCProbeStream` (302k) | a name with 0, 1 or 2 addresses, up to 2 chunks from each peer, every filter, with and without a command | `AnswerIsMatched`, `HostCollects`, `HostReturns` |
| `MCTcpStreaming` (794k) | 2 hosts, 2 ports, one host swept twice, one named only by SSDP, a preferred host or none, 1 retry; channel of 1; callbacks that raise; cancel and reset | `SweepIsMerged`, `PreferredAlone`, `StreamedOnce`, `MatchesCalledBack`, `CallAndSweepEnd` |
| `MCPollWatch` (1.08M) | 3 devices, one of which passes may overlook, cancel and reset | `KnownIsCurrent`, `RemovedOnlyIfGoneUndisturbed`, `EventuallyKnown`, `KeepsContract`, `CancelEndsWatch` |
| `MCUsbWatch` (226k) | a matching and a filtered device, 5 bus events, channel of 1, list may fail, cancel and reset | `MapCatchesUp`, `KeepsContract`, `PictureConverges`, `CancelEndsBothThreads`, `NeitherThreadIsOrphaned` |
| `MCSerialProbe` (753k) | 3 rates, 8 kinds of answer per rate, both variants, with and without a terminator, I/O may fail | `ReportedBaud`, `AsyncFindsResponsive`, `OneProbeAfterCancel`, `Returns` |
| `MCSerialStreaming` (81k) | 2 ports of 5 kinds, 2 passes, list and probe mode, 1 retry; channel of 1; callbacks that raise; cancel, reset, an abandoned coroutine | `AnsweringIsFound`, `PreferredFirst`, `ProbedCalledBack`, `CallAndPassEnd` |

What each shows:

* `MCTcpScan`: over all routes, and with the token flickering between any two
  of its checks, permits are conserved, nobody is probed twice or missed, and
  the scan returns with nothing running.
* `MCRawRoute`: a host is alive only for an echo with our identifier, and a
  target found that is closed only for a SYN-ACK to somebody else that came from
  its host to its source port; neither a wrap of the source ports nor anything
  else that others send adds to that. A wrap is the only way to miss a reply in
  time.
* `MCFunctions`: subnets, plan and, but for the exceptions of section 4, ARP
  targets and `bus_params` agree with their documentation, and the raw route
  starts from the hosts whose addresses the full sweep would probe, although the
  two filter in different ways.
* `MCProbeStream`: a close, a reset, a timeout and an early greeting, in any
  order and at two addresses at once, neither mix answers up nor lose a match,
  and a peer that never reads does not hold the probe.
* `MCTcpStreaming`: what the phases find is merged without loss and delivered
  in order; only a full channel drops a match; a callback that raises leaves a
  discovery that ends by itself.
* `MCPollWatch`, `MCUsbWatch`: the callbacks keep WatchContract, the picture
  converges, and a set token ends every thread. A reset between the looks of
  the two USB threads, or a callback that raises, ends one of them first: the
  other follows, the feeder with the next event of the bus at the latest.
* `MCSerialProbe`: reported rates are right, and a cancel costs one more probe.
* `MCSerialStreaming` (which runs SerialDiscovery with its callers): of the ports
  that answer within the budget an undisturbed sweep misses those only that
  earlier passes hold; both places that send feed the callback, and only a full
  channel drops a match; a preferred port that takes no bytes is the only one that
  holds a pass, or the call.

`TypeOK` is checked by `MCTcpScan`; of the modules with proofs it is proved (part
of each inductive invariant).

### Bounds, and why they are enough

* *Sweep*: 3 hosts in a subnet with batches of 2 give a full batch, a short one
  and an exhausted iterator; an ARP batch of 3 with 2 permits leaves a task
  waiting while others probe.
  The address outside the subnet is what the last-octet arithmetic
  yields for subnets narrower than a /24. Reset makes the token flicker between
  any two of its checks.
* *Raw route*: with 3 source ports the 2 targets of one host fit and the 4 of two
  wrap by one; with 2 ports per host two targets of the same source port belong to
  different hosts, as with 65,536 source ports they do for any list of distinct
  ports. `BasePort` is such that the ports also run through zero. Of what others
  send there is one packet of each kind: an echo with a foreign identifier and one
  with ours of a host that is not swept, an answer of a port that is not scanned
  and of one that is.
* *Functions*: addresses of 6 bits with a last "octet" of 3 have room for
  ordinary, link-local, multicast and loopback blocks, for subnets wider and
  narrower than a block, and for two interfaces of one network with different
  widths; two table entries are what a table needs to grow between two calls.
* *Address probe*: two tasks are enough for one to end before, with and after
  the other; two chunks for an answer that is complete, cut or late; `MaxChunks`
  is the bound on what a peer sends.
* *Discovery and streaming*: with a capacity of 1 three matches overrun the
  channel, and it is empty and full in turn; 256 differs only in when.
* *Watch*: 3 devices allow one to appear, one to stay and one to vanish in the
  same pass, or one to be overlooked; passes are unbounded.
* *USB*: a channel of 1 blocks the feeder with the second event; 5 events allow
  unplug, plug, unplug of one device around the initial list and two more of
  the filtered device. `MaxEvents` is the only bound on time.
* *Serial probe*: 3 rates distinguish first, second and later; a gap of 2 is
  more than the short timeout (1) and less than the read timeout (3); a
  chunked answer of 2 + 2 exceeds the read timeout of the async probe and no
  single read of the blocking one. `MaxChunks` makes an endless answer finite
  by counting it modulo the bound.
* *Serial streaming*: with a capacity of 1 the two ports overrun the channel when
  the sweep finds both (a preferred port may answer in the sweep only); 64 differs
  only in when.
* *Serial passes*: 2 passes are what one leftover thread needs to meet the next
  pass; `MaxPasses` is the bound.

### Fairness, and why the code justifies it

Weak fairness, per thread, of the steps of the program: the scan future is
polled by `block_on`, tasks by tokio's workers, threads by the OS, and every
probe is bounded by its timeouts. RawRoute's deadlines come because time passes,
not because the network falls silent. In ProbeStream only `probe_host`, the
verdict and the timeouts are fair: a connection need not be made, a peer need
not read, send or close. In SerialDiscovery what a task waits for is bounded by
its budget, not by the port; the preferred port has no budget, and a stalled one
is excepted from `CallAndPassEnd`. In UsbWatch a thread that waits for the GIL
gets it if the GIL is released again and again (strong fairness of `Cancel`,
CPython's lock hand-over). In SerialProbe writes are assumed to return (true of
devices without flow control; SerialDiscovery has the stalled port). Nothing
forces a user to cancel, a device to answer or the bus to move. `MCFunctions` is
checked for safety only and assumes no fairness.

## 4. What the code does differently from what it says

Three runs end in a counterexample, each for one sentence of the documentation.

| run | sentence | what happens |
|---|---|---|
| `MCPollWatchCancel` | "vanished devices trigger `on_removed`" (`src/tcp/mod.rs:307`) | a cancel cuts a pass short, the partial list is diffed, and devices that never went away are reported as removed |
| `MCUsbWatchGil` | "Stop from any thread" (`README.md:153`) | the USB event loop waits in `recv_timeout` with the GIL held, so another Python thread cannot call `cancel()` while no callback runs |
| `MCSerialProbeShort` | "Synchronous equivalent" (`src/serial/probe.rs:350`) | the 50 ms timeout set after the first bytes is kept for the following rates, and a device that answers later than that is missed |

Modelling met more of these. They are not runs of their own; the constant that
reproduces each, where there is one, is named, and otherwise the passing
properties state what is left of the promise.

* A list-only pass is given no channel, and `discover_streaming` calls nothing back
  and returns an empty list (`src/serial/mod.rs:317`, against lines 172 and 156):
  `ProbedCalledBack` is about the probing passes, and fails without `mode = "probe"`.
* A ping sweep takes every reply with the low 16 bits of the process id for its own
  (`src/net/icmp.rs:94`, against line 42), and the sweep probes the hosts it
  returns. The first part of `OnlyAnswersCount` says which hosts these are
  (`Strays`); `alive \subseteq Hosts` fails in `MCRawRoute`, and a nonempty `Strays`
  in `MCTcpScan` breaks `WithinSubnets`.
* A SYN-ACK is credited by its destination port and its sender's address alone, on
  source ports that nothing reserves and all scans of a process share
  (`src/net/syn_scan.rs:176-183`, against lines 8-9): a closed port is found for an
  answer to somebody else. The second part of `OnlyAnswersCount` leaves exactly
  these out; `found \subseteq open` after a SYN scan fails in `MCRawRoute`.
* The number the Windows reader takes for unreachable neighbours is that of the
  permanent ones (`src/net/arp.rs:328`, against lines 325-326): static entries are
  left out, unreachable ones are probed first. `ArpTargets` excepts tables with
  such entries (`MixedUp`), and fails in `MCFunctions` without that.
* An IPv6 host keeps its brackets in `host` (`src/types.rs:173`, against line 169),
  and `bus_params` does not pass flow control on (`src/types.rs:236`, against
  `README.md:117`). `ParamsReopen` promises everything but these two parameters
  (`LeadsBack`), and fails in `MCFunctions` with either of them.
* `max_concurrent = 0` is accepted, and the scan hangs, cancelled or not
  (`src/tcp/scan.rs:722`, against `src/tcp/mod.rs:116`): `MaxConcurrent = 0`
  breaks `Terminates`.
* A match that meets a full channel is lost to callback and result
  (`src/tcp/scan.rs:642`, against `src/tcp/mod.rs:230`, and
  `src/serial/probe.rs:590`, against `src/serial/mod.rs:172`): `MatchesCalledBack`
  and `ProbedCalledBack` leave out exactly `dropped`.
* A host named by both mDNS and SSDP is listed twice and added twice
  (`src/watch.rs:18`, against `src/tcp/mod.rs:306`): `Duplicates = TRUE` breaks
  `KeepsContract` in PollWatch.
* A pass in which the preferred host or port answers lists nothing else, and the
  watch reports every other device as removed, although it still answers
  (`src/watch.rs:71` with `src/tcp/mod.rs:474` or `src/serial/mod.rs:349`, against
  `src/tcp/mod.rs:307`): a nonempty `Overlookable` breaks `RemovedOnlyIfGone`
  without any cancel. `RemovedOnlyIfGoneUndisturbed` and `EventuallyKnown` are
  about the devices the pass looked at.
* A failed device list counts as an empty one (`src/usb/mod.rs:308`, against
  line 238): `MapCatchesUp` leaves out the watches that are `blind`.
* With baud rates [A, B, A] the third attempt runs at B and reports A
  (`src/serial/probe.rs:295`, against `src/types.rs:163`): such a list for
  `Bauds` breaks `ReportedBaud`, which the run checks with distinct rates.
* A port that answers within `read_timeout` at a late rate may still miss the
  budget of all rates together (`src/serial/probe.rs:542`): such ports are `slow`,
  found or not, and `AnsweringIsFound` is not about them.
* A device that sends without end keeps the blocking probe for ever
  (`src/serial/probe.rs:410`, against `src/serial/mod.rs:70`): `Returns` leaves
  it out.
* Threads of a cancelled pass keep their ports, and the next pass misses the
  devices there (`src/serial/probe.rs:585`, against `src/types.rs:65` and
  `src/serial/probe.rs:472`): `AnsweringIsFound` leaves out `blocked` ports.
* A host found by a fast path and by the sweep is streamed twice and returned
  once by `discover` (`src/tcp/mod.rs:511-518`, against lines 232-233).
* The token is not looked at between the hosts of the fast paths
  (`src/tcp/mod.rs:441`, against line 116).
* A peer that answers and keeps the connection open is no match: `io_timeout`
  discards the answer (`src/tcp/scan.rs:235`, against lines 207-209).
  `AnswerIsMatched` states what holds for a peer that closes.
* An empty `response_filter` panics in every task that reads an answer, and the
  host disappears without an error (`src/tcp/scan.rs:244`): `AnswerIsMatched`
  excepts it.
* A neighbour table that grows between the two calls on macOS reads as empty
  (`src/net/arp.rs:172`, against line 12). The sweep covers the hosts all the
  same.
* A preferred port that takes no bytes hangs the discovery, cancelled or not
  (`src/serial/probe.rs:301`, against `src/serial/mod.rs:70`): `CallAndPassEnd`
  excepts it.
* An invalid subnet is noticed after the fast paths, whose matches are lost to
  `discover` and already called back when streaming (`src/tcp/scan.rs:493`).

## 5. The proofs

Eight modules of theorems, each for every value of the constants its module's
named assumptions allow (TLC evaluates the assumptions in the runs). Together
they state every safety property the passing runs check. In all of them none of
the safety properties is inductive as it stands; the inductive invariant `IInv`
is a conjunction of named parts, shown to hold initially and to be kept by every
action, with one lemma or case per action.

### TcpScanProofs

For every network, any number of ports, permits and any batch size, with cancel
and reset at any moment:

| theorem | states |
|---|---|
| `TypeCorrect` | `[]TypeOK`: in particular permits never go below zero |
| `Inductive` | the inductive invariant holds always |
| `ConnectionCapHolds`, `AtMostMaxConcurrent` | permits and connections add up to `MaxConcurrent`; never more connections than that |
| `QuietWhenDoneHolds` | a scan that returned left nothing running |
| `ProbedOnceHolds` | with disjoint subnets nobody is probed twice |
| `WithinSubnetsHolds` | without a stray ping sweep nobody outside is probed |
| `CompleteHolds` | undisturbed, nobody on a list is missed, whatever the route |

`CompleteHolds` is about every list a scan makes: when a batch is over, every
answering task of the priority lists, of the raw route and of the batches so far
is among the matches, and of a full sweep nothing but what is still unswept is
missing.

They rest on `HostsAssumption` (IPv4 hosts, the ARP cache and the heuristics are
hosts; a subnet's iterator yields addresses it contains) and
`ParameterAssumption` (a batch size of at least 1, any number of permits, zero
included). `WithinSubnetsHolds` assumes `Strays = {}` in addition, and says so.

*The argument.* `QuietWhenDone` needs to know that a phase change finds no task,
`ProbedOnce` that what is still to be swept is disjoint from what was
probed, and `Complete` where every answer has got to. The invariant is

    IInv == TypeOK /\ RouteInv /\ TaskInv /\ CoverInv

* `RouteInv` follows the addresses: which source feeds which phase
  (`DrawnInPhase`), that `todo` is used only while spawning and `unswept` only
  on the two sweeping routes (`BatchShape`), and that spawned, to be spawned
  and unswept tasks never meet (`DrawnApart`). `SourcesApart` then turns
  different tasks into different addresses.
* `TaskInv` follows the tasks: none outside a batch (`TasksPlaced`), and permits
  plus live connections are constant (`PermitsConserved`, with the finiteness
  that the cardinalities need).
* `CoverInv` follows the answers: an undisturbed task that answers is waiting,
  probing, joined or among the matches (`AnswersKept`), and every list is
  drawn in full by the time its phase is over (`ListsDrawn`).

Each later part uses only the earlier ones.

*The plan* (SweepPlan), for any interfaces, `max_prefix`, subnets, ports, last
octets and neighbour tables, and any width of an address: `SubnetsRightHolds`,
`ArpTargetsHolds` (on Windows for tables without unreachable and permanent entries),
`PlanIsCompleteHolds`, from `PlanInductive`:

    PlanInv == PlanTypeOK /\ SubnetsSoFar /\ CacheSoFar /\ ArpListSoFar
                 /\ HeuristicListSoFar /\ SweepPlanned

Each part says of one loop what it has made of the rounds that are no longer in
`unseen`; because the loops are modelled round by round, no induction over lists
is needed. The rest is arithmetic: a network is a whole multiple of its block, so
that two networks of one width are equal or apart (`SameWidth`), and the narrowed
network of an interface holds its address (`CidrRight`). `AddressAssumption`
states, besides the types, that powers of two up to the width are positive
integers, a fact of arithmetic the provers do not have. `PlanAssumption` has the
ports distinct, as the constructor makes them.

*The seams.* `PlanFitsScan`: if TcpScan's constants are read off the plan
(`ScanOfPlan`: its hosts are those `HostsIn` gives, its `Covers` what `InNet` says,
its `Common` the last octets in the network), then its `ArpAddrs`,
`HeuristicAddrs`, `RemainingHosts` and `SweepTasks` are the lists and sets the plan
computes. `SweepFitsDiscovery`: in whatever order the matches of a scan were
pushed, the list is one of `SweepContract`'s, provided that no three subnets
share a host and no other ping sweep interferes (`ScanOfDiscovery`). Of the tasks
with one address one is marked first and the others again; at most two are left,
both of the full sweep (`SameAddress`). It is why the contract
allows a shared host that comes only once (a priority list had it, or a cancel
came between) and the repeated ones in any place.

### UsbWatchProofs

For any devices, filters, channel capacity and number of events:
`TypeCorrect`, `MapCatchesUpHolds` and `ImplementsContract` (every step is a step
or a stutter of WatchContract).

    IInv == TypeOK /\ Shape /\ Bridged

`Shape` says what the two threads hold at every point (in particular that
`announced` is `tracked` without the initial callbacks still due, which is what
the refinement needs). `Bridged` is `MapCatchesUp` extended backwards into the
listing: a device that `list_devices` has not looked at yet is as good as the
bus shows it. Three lemmas about queues of events carry it: an event appended
by the bus, the first event taken off and applied, and a device looked at while
events about it are under way.

The module also has the theorem about DeviceMatch, `ParamsReopenHolds`, for any
list of devices whose hosts, port names and serial numbers are any text; all but
the host of an IPv6 address and flow control is promised. Three
lemmas take the address of a match apart again, one per transport
(`TcpReopens`, `SerialReopens`, `UsbReopens`); they rest on where the last and the
first colon of a text are (`LastColonAt`, `FirstColonAt`). `MatchInv` is the loop
over the devices: `PassingNext` and `PassingPlace` count those that pass, and a
match once appended stays where it is.

### PollWatchProofs

For any finite set of devices: `TypeCorrect`, `KnownIsCurrentHolds` and
`RemovedOnlyIfGoneHolds`, with duplicates in a pass or without and whatever the
passes overlook;
`ImplementsContract` under `~Duplicates`, which the code does not guarantee (see
section 4).

    IInv == TypeOK /\ Picture /\ Thorough /\ NoneTwice

`Picture` is the caller's knowledge in the middle of a round: the old list plus
the additions already reported, then both lists minus the removals already
reported. `Thorough` carries from the pass to the callbacks that an undisturbed
pass listed everyone who stayed and whom it did not overlook.
`ListingsNameTheSet` says of the lists of PassContract that they name nothing but
what was found. `NoneTwice` keeps a device from being reported twice in a round.

### SerialDiscoveryProofs

For any finite set of ports, any number of passes and retries, every kind of
port and any channel capacity: `TypeCorrect`, `AnsweringIsFoundHolds`,
`PreferredFirstHolds`, `ProbedCalledBackHolds`.

    IInv == TypeOK /\ Progress /\ Covered /\ PreferredFirst

`Progress` ties the attempts, the tasks and the results to the point the pass
is at; `Covered` says where each answering port of an undisturbed sweep is: not
spawned, in its task, in the result, or held by an older thread.

*Streaming.* Every step of SerialStreaming is a step or a stutter of
SerialDiscovery, whose theorems therefore hold of it. `StreamInv` has, at every
point of a probing pass, what the callback has seen followed by what the channel
holds (`Delivered`) against the result (`Accounted`): the same matches in the same
order, without the dropped ones, of which there are some only when the result is
longer than the channel. It rests on `Gathered`, below, by which a result has no
port twice.

*The seam.* `PassFitsWatch`: with `~Duplicates`, the result of every pass is one of
`PassResults`. What it may list (`Seen`) are ports of the list, or the ports that
answer; what it has to list, undisturbed, are those that are `There`, except the
`Overlooked`: the blocked ones and those that were not listed, which are all when
the pass ended with the preferred port. It needs `Gathered`: a result names no port
twice, because a port has one task that is joined once, and only ports of the
right kind.

### SerialProbeProofs

For any list of rates, any replies and any timeouts: `TypeCorrect`,
`OneProbeAfterCancelHolds`, `AsyncFindsResponsiveHolds`, and `ReportedBaudHolds`
under `FirstRateOnce` (the rate of `open()` does not come up again, see section
4). `Loop` keeps the index in the list and says that a probe written after a
cancel is the last; `AtRate` says that the line is at the rate being tried, which
is what `FirstRateOnce` is needed for. `Prompt` carries `AsyncFindsResponsive`:
while everything is in time and nothing fails (`InTime`), the time left to a read
is the read timeout less the arrival of the last chunk, no chunk is left over for
the next rate to trip over, and no valid reply is behind the index.

`SteadyIsFoundHolds` says when the blocking twin, which `MCSerialProbeShort` shows
to miss devices, is right all the same: no reply pauses for longer than the short
timeout, and either every reply starts within it or the device is silent at the
rates at which it has no valid reply (`Steady`). `Pacing` carries it: the short
timeout is in force at a new rate only for a device whose replies start within
it (`Patient`).

### ProbeStreamProofs

For any names, ports, commands, filters and number of chunks: `TypeCorrect`,
`AnswerIsMatchedHolds`, `HostCollectsHolds`.

    IInv == TypeOK /\ Tasks /\ Collected /\ AnswerIsMatched

`Tasks` says what has been read, and of what kind of peer, at each point of a
task; `Collected` says what the join loop has made of the finished ones.

*The seam.* `ProbeFitsDiscovery`: for a host that is an IP address (`Resolutions` has
no more than it and the failed lookup, which is the case for all that mDNS and
SSDP name), what the probe returns is one of `HostResults`. A preferred host whose
name has several addresses is, for TcpDiscovery, a host with more ports.

### RawRouteProofs

For any hosts, ports and number of source ports, and whatever others ping, connect
to and scan: `TypeCorrect`, `OnlyAnswersCountHolds`, `MissedOnlyIfWrappedHolds`.

    IInv == TypeOK /\ Route /\ Judged /\ OnlyAnswersCount

`Route` orders the route and says that the targets of a host stand together in
the list (`Blocks`); with it, two targets of one source port are a whole wrap
apart and hence of different hosts (arithmetic of remainders and quotients).
`Judged` says that every segment that was received has been credited to the
target its port is mapped to. The hosts have to be finitely many.

`RouteFitsScan` is the refinement of TcpScan's choice: for any scan that waits in
phase `pinging` and whose remaining hosts are those of the route (`ScanOfRoute`),
each step of the route is a stutter of the scan, or the one that ends the route
is `PingReplies`, `PingNobody` or `PingUnavailable`. It needs `Replied`: only
hosts that somebody pings with the identifier of this process are ever alive, and
some are when targets are built.

### TcpStreamingProofs

For any hosts, ports, subnets and fast paths, any number of retries and any
channel capacity of at least 1: `TypeCorrect`, `SweepIsMergedHolds`,
`PreferredAloneHolds`, `StreamedOnceHolds`, `MatchesCalledBackHolds`. The addresses
that may answer have to be finitely many (`TcpDiscoveryAssumption`).

    IInv == TypeOK /\ Course /\ Reached /\ Merging /\ Streaming

`Course` orders the phases and says what each finds untouched. `Reached` says
that what the probed hosts or a complete sweep have to offer is passed on or
about to be. `Merging` is `SweepIsMerged` in the middle of the final loop, about
the `merged` first matches of the sweep; because the loop is modelled match by
match, no induction over sequences is needed. `Streaming` compares what was sent
with what the callback and the channel hold, position by position (`IsWithout`);
two lemmas carry it over a send: the match is kept, and stands last, or its
position joins the dropped ones.

*The seam.* `PassFitsWatch`: with `Duplicates`, the result of `discover` is one of
`PassResults`: addresses that answer, and all of them that the probed hosts and a
complete sweep can reach. That it is made of two lists without repetition is
`TwoLists`: there is a cut in `fast` (`Apart`), behind all that mDNS contributed, such
that nothing is twice on one side; within a phase a host is probed once and
leaves `named`, and what the merge adds is new. The cut is a witness of the proof,
not state of the model.

### Only model-checked

* Liveness (`Terminates`, `CallAndSweepEnd`, `RouteReturns`, `HostReturns`,
  `EventuallyKnown`, `CancelEndsWatch`, `PictureConverges`,
  `CancelEndsBothThreads`, `NeitherThreadIsOrphaned`, `Returns`, `CallAndPassEnd`):
  reasoning about fairness and ENABLED is not done by the prover.

## 6. Not modelled

* mDNS and SSDP listeners: any set of hosts. The layout of raw packets, routing
  messages and table rows, and checksums.
* Socket options; line settings other than the baud rate while probing (what a
  match says of them is in DeviceMatch); `probe_port`, which probes one rate and
  which discovery does not use; the pairing of `cu` and `tty` names on macOS,
  part of which ports are `listed`.
* Response bytes, errors' texts, logging; `repr`, equality, hash and ordering of
  `DeviceMatch`, which compare its fields.
* Module registration, the lazily built runtime, stubs and examples: no state or
  concurrency of their own.
* The order in which `list_all_ports` and the sweep take ports, other than the
  preferred one: any order.

## 7. What is left

All modules above are checked, every safety property the passing runs check is
proved, and so are the seams between the modules, with one exception and two
limits worth knowing:

* SerialProbe behind SerialDiscovery's threads. SerialDiscovery sorts ports by
  how a probe of them ends (`behaviour`); `AsyncFindsResponsiveHolds`,
  `SteadyIsFoundHolds` and `Returns` say which devices are of which kind, but no
  theorem ties the two together, because how long an answer takes against
  `open_budget` is time that SerialDiscovery does not have.
* Several watches on one token with reset are not composed; each is checked
  against a token that anybody sets and resets at any moment.
* Two discoveries of one process whose raw scans hear each other are in RawRoute
  as packets of others (`OtherPings`, `OtherSyns`), not as two copies of the module.
* A serial discovery that a raising callback left behind and the next call are not
  composed; SerialDiscovery has only the ports that leftover threads hold.
