---------------------------- MODULE ProbeStream ----------------------------
(***************************************************************************)
(* The probe of one host: probe_host of src/tcp/scan.rs, which resolves a  *)
(* name and probes every address at every port at once; probe_addr,        *)
(* connect_with_opts and probe_stream, the task for one of them; and the   *)
(* peers.                                                                  *)
(*                                                                         *)
(* A response is a number of chunks; a filter accepts it from the chunk on *)
(* that completes the bytes it looks for.  Both timeouts may run out at    *)
(* any moment of the wait they bound.                                      *)
(***************************************************************************)
EXTENDS Naturals, Sequences, SequencesExt, Functions

CONSTANTS
  Resolutions,  \* what the name may resolve to: sets of IPs, {} for a failure
  Ports,        \* not empty: without ports there is nothing to probe
  Commands,     \* whether probe_command is set
  Filters,      \* response_filter: "none", "bytes" or "empty"
  MaxChunks     \* bound on the chunks a peer sends

ASSUME ProbeStreamAssumption ==
  /\ Ports # {}
  /\ Commands \subseteq BOOLEAN
  /\ Filters \subseteq {"none", "bytes", "empty"}
  /\ MaxChunks \in Nat \ {0}

Addresses == (UNION Resolutions) \X Ports

VARIABLES
  command, filter,  \* parameters
  needs,      \* environment: chunks the bytes of the filter need
  peer,       \* of an address: "listening", "open", "closed" or "reset"
  sent,       \* of an address: chunks the peer has sent
  host,       \* probe_host: "resolving", "joining" or "returned"
  pc,         \* of a task: "none", "connecting", "writing", "reading", "judge",
              \* "match", "no_match", "panicked"
  read,       \* of a task: chunks in the response buffer
  expired,    \* history: tasks that io_timeout ended
  joined,     \* tasks that join_next has returned
  matches     \* addresses, as they are joined

params == <<command, filter, needs>>
peers == <<peer, sent>>
tasks == <<pc, read, expired>>
vars == <<params, peers, host, tasks, joined, matches>>

Init ==
  /\ command \in Commands
  /\ filter \in Filters
  /\ needs \in [Addresses -> 1..MaxChunks + 1]
  /\ peer = [a \in Addresses |-> "listening"]
  /\ sent = [a \in Addresses |-> 0]
  /\ host = "resolving"
  /\ pc = [a \in Addresses |-> "none"]
  /\ read = [a \in Addresses |-> 0]
  /\ expired = {} /\ joined = {}
  /\ matches = <<>>

Goto(a, label) == pc' = [pc EXCEPT ![a] = label]

----------------------------------------------------------------------------
(* A peer: it may send a greeting before the probe arrives.                *)

PeerSends(a) ==
  /\ peer[a] = "open" /\ sent[a] < MaxChunks
  /\ sent' = [sent EXCEPT ![a] = @ + 1]
  /\ UNCHANGED <<params, peer, host, tasks, joined, matches>>

PeerCloses(a) ==
  /\ peer[a] = "open"
  /\ \E how \in {"closed", "reset"} : peer' = [peer EXCEPT ![a] = how]
  /\ UNCHANGED <<params, sent, host, tasks, joined, matches>>

----------------------------------------------------------------------------
(* The task for an address.                                                *)

\* Without probe bytes a connection alone is a match.
Connected(a) ==
  /\ pc[a] = "connecting"
  /\ peer' = [peer EXCEPT ![a] = "open"]
  /\ Goto(a, IF command THEN "writing" ELSE "match")
  /\ UNCHANGED <<params, sent, host, read, expired, joined, matches>>

\* No socket, refused, unreachable, or connect_timeout.
ConnectFails(a) ==
  /\ pc[a] = "connecting"
  /\ Goto(a, "no_match")
  /\ UNCHANGED <<params, peers, host, read, expired, joined, matches>>

Written(a) ==
  /\ pc[a] = "writing"
  /\ Goto(a, "reading")
  /\ UNCHANGED <<params, peers, host, read, expired, joined, matches>>

\* write_all fails: no match, whatever the peer sent before.
WriteFails(a) ==
  /\ pc[a] = "writing" /\ peer[a] # "open"
  /\ Goto(a, "no_match")
  /\ UNCHANGED <<params, peers, host, read, expired, joined, matches>>

\* Mutation: the first bytes end the reading.
AfterRead_First == "judge"

\* The loop goes on reading until the connection ends.
AfterRead == "reading"

ReadBytes(a) ==
  /\ pc[a] = "reading"
  /\ \E n \in read[a] + 1 .. sent[a] : read' = [read EXCEPT ![a] = n]
  /\ Goto(a, AfterRead)
  /\ UNCHANGED <<params, peers, host, expired, joined, matches>>

\* A close is read after all bytes; a reset may overtake them.
ConnectionEnds(a) ==
  /\ pc[a] = "reading"
  /\ peer[a] = "reset" \/ (peer[a] = "closed" /\ read[a] = sent[a])
  /\ Goto(a, "judge")
  /\ UNCHANGED <<params, peers, host, read, expired, joined, matches>>

\* Mutation: the timeout is around the reads.
InIoTimeout_ReadsOnly(a) == pc[a] = "reading"

InIoTimeout(a) == pc[a] \in {"writing", "reading"}

\* io_timeout covers the write and all the reads, and drops what was read.
IoTimeout(a) ==
  /\ InIoTimeout(a)
  /\ Goto(a, "no_match")
  /\ expired' = expired \union {a}
  /\ UNCHANGED <<params, peers, host, read, joined, matches>>

\* An empty response, or one the filter rejects, is no match; windows(0), of an
\* empty filter, panics.
Verdict(a) ==
  CASE read[a] = 0 -> "no_match"
    [] read[a] > 0 /\ filter = "none" -> "match"
    [] read[a] > 0 /\ filter = "empty" -> "panicked"
    [] read[a] > 0 /\ filter = "bytes" -> IF read[a] >= needs[a] THEN "match" ELSE "no_match"

Judge(a) ==
  /\ pc[a] = "judge"
  /\ Goto(a, Verdict(a))
  /\ UNCHANGED <<params, peers, host, read, expired, joined, matches>>

----------------------------------------------------------------------------
(* probe_host                                                              *)

\* The first port is looked up, for the addresses of them all; a failed lookup
\* is an empty result.
ResolveAndSpawn(ips) ==
  /\ host = "resolving"
  /\ pc' = [a \in Addresses |-> IF a[1] \in ips THEN "connecting" ELSE "none"]
  /\ host' = IF ips = {} THEN "returned" ELSE "joining"
  /\ UNCHANGED <<params, peers, read, expired, joined, matches>>

Running == {a \in Addresses : pc[a] # "none"} \ joined

\* An error or a panic of a task is ignored.
JoinNext(a) ==
  /\ host = "joining"
  /\ a \in Running /\ pc[a] \in {"match", "no_match", "panicked"}
  /\ joined' = joined \union {a}
  /\ matches' = IF pc[a] = "match" THEN Append(matches, a) ELSE matches
  /\ UNCHANGED <<params, peers, host, tasks>>

\* Mutation: a task that did not find anything ends the loop.
AllJoined_AtFirstMiss == Running = {} \/ \E a \in joined : pc[a] # "match"

AllJoined == Running = {}

Return ==
  /\ host = "joining"
  /\ AllJoined
  /\ host' = "returned"
  /\ UNCHANGED <<params, peers, tasks, joined, matches>>

----------------------------------------------------------------------------
ProbeHost == (\E ips \in Resolutions : ResolveAndSpawn(ips)) \/ (\E a \in Addresses : JoinNext(a)) \/ Return

Next ==
  \/ ProbeHost
  \/ \E a \in Addresses :
       \/ PeerSends(a) \/ PeerCloses(a)
       \/ Connected(a) \/ ConnectFails(a) \/ Written(a) \/ WriteFails(a)
       \/ ReadBytes(a) \/ ConnectionEnds(a) \/ IoTimeout(a) \/ Judge(a)

\* The timeouts run out; a peer owes nothing, not even to read what is written.
Spec ==
  /\ Init /\ [][Next]_vars
  /\ WF_vars(ProbeHost)
  /\ \A a \in Addresses :
       WF_vars(ConnectFails(a)) /\ WF_vars(IoTimeout(a)) /\ WF_vars(Judge(a))

----------------------------------------------------------------------------
(* Properties.                                                             *)

TypeOK ==
  /\ command \in BOOLEAN
  /\ filter \in {"none", "bytes", "empty"}
  /\ needs \in [Addresses -> 1..MaxChunks + 1]
  /\ peer \in [Addresses -> {"listening", "open", "closed", "reset"}]
  /\ sent \in [Addresses -> 0..MaxChunks]
  /\ host \in {"resolving", "joining", "returned"}
  /\ pc \in [Addresses -> {"none", "connecting", "writing", "reading", "judge",
                            "match", "no_match", "panicked"}]
  /\ read \in [Addresses -> 0..MaxChunks]
  /\ expired \subseteq Addresses /\ joined \subseteq Addresses
  /\ matches \in Seq(Addresses)

\* An answer the documentation of the probe promises to accept.
Acceptable(a) == read[a] > 0 /\ (filter = "bytes" => read[a] >= needs[a])

\* "read until the connection closes or io_timeout elapses. Returns the
\* accumulated response if it is non-empty and satisfies response_filter"
\* (scan.rs:207-209): a peer that was asked and gave an acceptable answer is a
\* match, unless the timeout came first, which drops what was accumulated, or
\* the filter is empty, which panics; and a match is the peer's whole answer,
\* unless a reset cut it short.
AnswerIsMatched ==
  command =>
    \A a \in Addresses :
      /\ (pc[a] \in {"no_match", "panicked"} /\ Acceptable(a) =>
            a \in expired \/ filter = "empty")
      /\ (pc[a] = "match" =>
            /\ Acceptable(a)
            /\ peer[a] \in {"closed", "reset"}
            /\ (peer[a] = "closed" => read[a] = sent[a]))

\* "Returns all matches found" (scan.rs:273): whatever the other addresses of
\* the host do, each task's match is returned, once; and no task outlives the
\* probe of its host.
HostCollects ==
  host = "returned" =>
    /\ IsInjective(matches)
    /\ ToSet(matches) = {a \in Addresses : pc[a] = "match"}
    /\ \A a \in Addresses : pc[a] \in {"none", "match", "no_match", "panicked"}

\* The probe of a host ends, also when a peer neither reads nor sends.
HostReturns == <>(host = "returned")
=============================================================================
