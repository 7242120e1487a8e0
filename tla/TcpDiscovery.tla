---------------------------- MODULE TcpDiscovery ----------------------------
(***************************************************************************)
(* run_discovery of src/tcp/mod.rs: the preferred host and its retries,    *)
(* the mDNS and SSDP fast paths, the subnet sweep and the deduplication of *)
(* its matches.  TcpStreaming adds who calls it.                           *)
(*                                                                         *)
(* The sweep, and a probe of a host, decide in one step what they find,    *)
(* which is what SweepContract allows; TcpScan and ProbeStream have their  *)
(* details.  Matches are passed on one by one.                             *)
(***************************************************************************)
EXTENDS Naturals, Sequences, FiniteSets, SequencesExt, SweepContract

CONSTANTS
  Hosts,       \* hosts that may be probed
  Ports,       \* the configured ports
  Reachable,   \* addresses, <<host, port>>, that may answer
  Preferences, \* what preferred_host may be; NoHost: not set
  NoHost,
  Retries,     \* preferred_retry
  MdnsHosts,   \* hosts that may answer an mDNS query
  SsdpHosts    \* hosts that may answer an SSDP search

ASSUME TcpDiscoveryAssumption ==
  /\ IsFiniteSet(Reachable) /\ Reachable \subseteq Hosts \X Ports
  /\ Preferences \subseteq Hosts \union {NoHost}
  /\ NoHost \notin Hosts
  /\ Retries \in Nat
  /\ MdnsHosts \union SsdpHosts \subseteq Hosts
  /\ TwiceSwept \subseteq Swept /\ Swept \subseteq Hosts

VARIABLES
  preferred,     \* preferred_host
  open,          \* environment: the addresses that answer a probe
  cancelled,     \* the token
  pc,            \* where run_discovery is
  attempt,       \* attempts on the preferred host
  named,         \* hosts of the fast path that are still to be probed
  contacted,     \* history: hosts the fast paths have probed
  found,         \* matches of a probe_host or of the sweep, not yet passed on
  fast,          \* matches of the preferred host and the fast paths
  sweepMatches,  \* matches of the sweep, passed on
  merged,        \* of those, how many the final loop has looked at
  complete,      \* history: the sweep found all there is
  all            \* the result

setup == <<preferred, open>>
matches == <<found, fast, sweepMatches, merged, complete, all>>
vars == <<setup, cancelled, pc, attempt, named, contacted, matches>>

Init ==
  /\ preferred \in Preferences
  /\ open \in SUBSET Reachable
  /\ cancelled = FALSE
  /\ pc = "preferred"
  /\ attempt = 0
  /\ named = {} /\ contacted = {}
  /\ found = <<>> /\ fast = <<>> /\ sweepMatches = <<>>
  /\ merged = 0 /\ complete = FALSE
  /\ all = <<>>

----------------------------------------------------------------------------
(* The token.                                                              *)

SetToken(value) ==
  /\ cancelled # value
  /\ cancelled' = value
  /\ UNCHANGED <<setup, pc, attempt, named, contacted, matches>>

Cancel == SetToken(TRUE)
Reset == SetToken(FALSE)

----------------------------------------------------------------------------
(* try_preferred                                                           *)

NoPreferred ==
  /\ pc = "preferred"
  /\ preferred = NoHost
  /\ pc' = "mdns"
  /\ UNCHANGED <<setup, cancelled, attempt, named, contacted, matches>>

\* Returns an empty list.
PreferredCancelled ==
  /\ pc = "preferred" /\ preferred # NoHost
  /\ cancelled
  /\ pc' = "returned"
  /\ UNCHANGED <<setup, cancelled, attempt, named, contacted, matches>>

PreferredAnswers ==
  /\ pc = "preferred" /\ preferred # NoHost
  /\ ~cancelled
  /\ found' \in HostResults(preferred, open) \ {<<>>}
  /\ attempt' = attempt + 1
  /\ pc' = "answering"
  /\ UNCHANGED <<setup, cancelled, named, contacted, fast, sweepMatches,
                 merged, complete, all>>

\* Mutation: one retry less.
RetryLeft_OffByOne == attempt + 1 < Retries

RetryLeft == attempt < Retries

\* The host does not answer, or its name does not resolve.
PreferredSilent ==
  /\ pc = "preferred" /\ preferred # NoHost
  /\ ~cancelled
  /\ attempt' = attempt + 1
  /\ pc' = IF RetryLeft THEN "retry" ELSE "mdns"
  /\ UNCHANGED <<setup, cancelled, named, contacted, matches>>

RetryDelay ==
  /\ pc = "retry"
  /\ pc' = "preferred"
  /\ UNCHANGED <<setup, cancelled, attempt, named, contacted, matches>>

----------------------------------------------------------------------------
(* The fast paths.  Neither looks at the token.                            *)

\* With use_mdns or use_ssdp, active_mdns_hosts or active_ssdp_hosts listens
\* for its timeout; the hosts it names are distinct, inside the subnets or not.
Listen ==
  /\ \/ pc = "mdns" /\ pc' = "probe_mdns" /\ named' \in SUBSET MdnsHosts
     \/ pc = "ssdp" /\ pc' = "probe_ssdp" /\ named' \in SUBSET SsdpHosts
  /\ UNCHANGED <<setup, cancelled, attempt, contacted, matches>>

\* Without use_mdns or use_ssdp.
SkipFastPath ==
  /\ \/ pc = "mdns" /\ pc' = "ssdp"
     \/ pc = "ssdp" /\ pc' = "sweep"
  /\ UNCHANGED <<setup, cancelled, attempt, named, contacted, matches>>

\* probe_named_hosts probes one host after the other.
ProbeNamedHost(h) ==
  /\ pc \in {"probe_mdns", "probe_ssdp"}
  /\ found = <<>>
  /\ h \in named
  /\ named' = named \ {h}
  /\ contacted' = contacted \union {h}
  /\ found' \in HostResults(h, open)
  /\ UNCHANGED <<setup, cancelled, pc, attempt, fast, sweepMatches, merged,
                 complete, all>>

NamedProbed ==
  /\ pc \in {"probe_mdns", "probe_ssdp"}
  /\ found = <<>> /\ named = {}
  /\ pc' = IF pc = "probe_mdns" THEN "ssdp" ELSE "sweep"
  /\ UNCHANGED <<setup, cancelled, attempt, named, contacted, matches>>

----------------------------------------------------------------------------
(* Passing matches on, the sweep, the result.                              *)

\* The matches sent so far, in order, if somebody listens.
Sent == fast \o sweepMatches

\* A match is sent (TcpStreaming) and collected.
PassOn ==
  /\ found # <<>>
  /\ found' = Tail(found)
  /\ IF pc = "sweeping"
       THEN sweepMatches' = Append(sweepMatches, Head(found)) /\ UNCHANGED fast
       ELSE fast' = Append(fast, Head(found)) /\ UNCHANGED sweepMatches
  /\ UNCHANGED <<setup, cancelled, pc, attempt, named, contacted, merged, complete, all>>

PreferredReturns ==
  /\ pc = "answering"
  /\ found = <<>>
  /\ all' = fast
  /\ pc' = "answered"
  /\ UNCHANGED <<setup, cancelled, attempt, named, contacted, found, fast,
                 sweepMatches, merged, complete>>

\* A cancelled sweep finds some of what it would have found, and a raw one
\* may lose replies.
Sweep ==
  /\ pc = "sweep"
  /\ found' \in SweepResults(open)
  /\ complete' = (~cancelled /\ ToSet(found') = Answering(open))
  /\ pc' = "sweeping"
  /\ UNCHANGED <<setup, cancelled, attempt, named, contacted, fast, sweepMatches,
                 merged, all>>

\* Mutation: the sweep's matches are compared by host.
IsNew_ByHost(a, seen) == \A b \in ToSet(seen) : a[1] # b[1]

\* seen_addrs.insert: the whole address is compared.
IsNew(a, seen) == a \notin ToSet(seen)

\* Behind the matches of the fast paths come the sweep's new ones.
SweepReturns ==
  /\ pc = "sweeping"
  /\ found = <<>>
  /\ all' = fast
  /\ pc' = "merging"
  /\ UNCHANGED <<setup, cancelled, attempt, named, contacted, found, fast,
                 sweepMatches, merged, complete>>

MergeNext ==
  /\ pc = "merging"
  /\ merged < Len(sweepMatches)
  /\ merged' = merged + 1
  /\ LET m == sweepMatches[merged']
     IN  all' = IF IsNew(m, all) THEN Append(all, m) ELSE all
  /\ UNCHANGED <<setup, cancelled, pc, attempt, named, contacted, found, fast,
                 sweepMatches, complete>>

MergeEnds ==
  /\ pc = "merging"
  /\ merged = Len(sweepMatches)
  /\ pc' = "returned"
  /\ UNCHANGED <<setup, cancelled, attempt, named, contacted, matches>>

\* An invalid subnet, or a prefix out of range: the matches are lost.
SweepFails ==
  /\ pc = "sweep"
  /\ pc' = "failed"
  /\ UNCHANGED <<setup, cancelled, attempt, named, contacted, matches>>

----------------------------------------------------------------------------
Discovery ==
  \/ NoPreferred \/ PreferredCancelled \/ PreferredAnswers \/ PreferredSilent
  \/ RetryDelay \/ Listen \/ SkipFastPath
  \/ (\E h \in Hosts : ProbeNamedHost(h)) \/ NamedProbed
  \/ PreferredReturns \/ Sweep \/ SweepFails
  \/ SweepReturns \/ MergeNext \/ MergeEnds

----------------------------------------------------------------------------
(* Properties.                                                             *)

DiscoveryTypes ==
  /\ preferred \in Preferences
  /\ open \subseteq Reachable
  /\ cancelled \in BOOLEAN
  /\ pc \in {"preferred", "retry", "answering", "answered", "mdns", "probe_mdns", "ssdp",
             "probe_ssdp", "sweep", "sweeping", "merging", "returned", "failed"}
  /\ attempt \in 0..Retries + 1
  /\ named \subseteq Hosts /\ contacted \subseteq Hosts
  /\ {found, fast, sweepMatches, all} \subseteq Seq(open)
  /\ merged \in 0..Len(sweepMatches)
  /\ complete \in BOOLEAN

Ended == {"answered", "returned", "failed"}

\* "mDNS/SSDP fast-paths may have already found some hosts that the subnet
\* sweep also probed" (tcp/mod.rs:511): the sweep adds no address that is in
\* the result already, and none twice; yet what any phase found, or a complete
\* sweep could reach, is in the result.
SweepIsMerged ==
  pc \in {"answered", "returned"} =>
    /\ \A i \in DOMAIN all, j \in Len(fast) + 1 .. Len(all) : all[i] = all[j] => i = j
    /\ ToSet(all) = ToSet(Sent)
    /\ complete => ToSet(all) = {a \in open : a[1] \in Swept \union contacted}

\* "Returns Some(matches) when the preferred host responds (caller should
\* return early)" (tcp/mod.rs:391): a preferred host that answers is the whole
\* result, and nobody else is contacted before all its attempts failed.
PreferredAlone ==
  preferred # NoHost =>
    /\ pc \in {"mdns", "probe_mdns", "ssdp", "probe_ssdp", "sweep", "sweeping", "merging"}
         => attempt = Retries + 1
    /\ attempt <= Retries => contacted = {}
    /\ pc = "answered" =>
         all # <<>> /\ contacted = {} /\ \A a \in ToSet(all) : a[1] = preferred
=============================================================================
