---------------------------- MODULE SerialProbe ----------------------------
(***************************************************************************)
(* The probe of one serial port at every baud rate: probe_port_all_bauds   *)
(* and its blocking twin probe_port_all_bauds_sync, with read_response, of *)
(* src/serial/probe.rs.                                                    *)
(*                                                                         *)
(* The device answers a probe in chunks, each at a time after the probe,   *)
(* differently at every line rate.  Bytes that nobody read may reach the next attempt,    *)
(* garbled by the change of rate: no terminator, nothing a filter accepts. *)
(* Of a response only three things count: whether it is empty, whether it  *)
(* ends with the terminator, and whether the filter accepts it, which it   *)
(* does for a whole reply marked valid and nothing less.                   *)
(***************************************************************************)
EXTENDS Naturals, Sequences, SequencesExt

CONSTANTS
  Bauds,         \* baud_rates
  Variants,      \* how a port is probed: [blocking, terminated] records
  Replies,       \* what a device may answer at one line rate
  ReadTimeout,   \* read_timeout, in units of the shortest gap
  ShortTimeout,  \* the 50 ms the blocking twin goes on with
  Filtered,      \* response_filter is set
  MayFail,       \* whether serial I/O may fail
  MaxChunks      \* chunks of an endless reply are counted modulo this

ASSUME SerialProbeAssumption ==
  /\ Bauds \in Seq(Nat \ {0}) /\ Bauds # <<>>
  /\ Variants \subseteq [blocking : BOOLEAN, terminated : BOOLEAN]
  /\ {Filtered, MayFail} \subseteq BOOLEAN
  /\ ReadTimeout \in Nat \ {0} /\ ShortTimeout \in 1..ReadTimeout
  /\ \A r \in Replies :
       /\ r.at \in Seq(Nat) /\ Len(r.at) <= MaxChunks
       /\ \A k \in 2..Len(r.at) : r.at[k - 1] <= r.at[k]
       /\ {r.valid, r.endless} \subseteq BOOLEAN
       /\ r.valid => r.at # <<>>
  /\ MaxChunks \in Nat \ {0}

VARIABLES
  how,        \* blocking: the blocking twin, used in sweeps; terminated: there is
              \* a response_terminator, and every valid reply ends with it
  device,     \* environment: the reply at each line rate
  cancelled,  \* the token
  pc,         \* where the loop is
  i,          \* index of the baud rate being tried
  line,       \* the rate the port is set to
  chunks,     \* chunks of the reply to this attempt that were read
  dirty,      \* bytes of an earlier reply are part of the response
  late,       \* bytes of an earlier reply are still to come
  left,       \* time the current read may still take
  found,      \* the match: its baud_rate and the line rate it was made at
  writes,     \* history: probes written since the token was set
  failed      \* history: some I/O failed

setup == <<how, device>>
vars == <<how, device, cancelled, pc, i, line, chunks, dirty, late, left, found,
          writes, failed>>

Rates == ToSet(Bauds)
NoMatch == [baud |-> 0, line |-> 0]

\* When k chunks of a reply have arrived.
Arrival(r, k) == IF k = 0 THEN 0 ELSE r.at[k]

\* A reply's k-th chunk, if there is one; an endless reply goes on in bursts.
HasChunk(r, k) == k <= Len(r.at) \/ r.endless
Gap(r, k) == IF k <= Len(r.at) THEN Arrival(r, k) - Arrival(r, k - 1) ELSE 1

Init ==
  /\ how \in Variants
  /\ device \in [Rates -> Replies]
  /\ cancelled = FALSE
  /\ pc = "open"
  /\ i = 1
  /\ line = Bauds[1]
  /\ chunks = 0 /\ dirty = FALSE /\ late = FALSE /\ left = 0
  /\ found = NoMatch
  /\ writes = 0
  /\ failed = FALSE

Cancel ==
  /\ ~cancelled
  /\ cancelled' = TRUE
  /\ UNCHANGED <<setup, pc, i, line, chunks, dirty, late, left, found, writes, failed>>

----------------------------------------------------------------------------
\* open at the first baud rate; a failure ends the probe with an error.
Open ==
  /\ pc = "open"
  /\ \/ pc' = "check"
     \/ MayFail /\ pc' = "error"
  /\ UNCHANGED <<setup, cancelled, i, line, chunks, dirty, late, left, found,
                 writes, failed>>

\* Mutation: the token is only checked before the first baud rate.
Stops_FirstOnly == cancelled /\ i = 1

\* The loop stops on the token, before every baud rate.
Stops == cancelled

CheckToken ==
  /\ pc = "check"
  /\ pc' = IF i > Len(Bauds) \/ Stops THEN "done" ELSE "set"
  /\ UNCHANGED <<setup, cancelled, i, line, chunks, dirty, late, left, found,
                 writes, failed>>

\* Mutation: a continue that forgets the iterator.
NextBaud_Stuck == i

NextBaud == i + 1

\* continue
Continue == pc' = "check" /\ i' = NextBaud

\* An I/O error on the open port counts as no response at this rate.
IoFails ==
  /\ MayFail
  /\ pc \in {"set", "write"}
  /\ failed' = TRUE
  /\ pc = "set" => Bauds[i] # Bauds[1]
  /\ Continue
  /\ UNCHANGED <<setup, cancelled, line, chunks, dirty, late, left, found, writes>>

\* Mutation: the rate is set for the second baud rate only.
LineAfterSet_SecondOnly == IF i = 2 THEN Bauds[i] ELSE line

\* set_baud_rate, skipped for the rate the port was opened at.
LineAfterSet == IF Bauds[i] = Bauds[1] THEN line ELSE Bauds[i]

SetBaudRate ==
  /\ pc = "set"
  /\ line' = LineAfterSet
  /\ pc' = "write"
  /\ UNCHANGED <<setup, cancelled, i, chunks, dirty, late, left, found, writes, failed>>

\* Mutation: the timeout set while draining an answer stays in force.
InitialTimeout_Kept == IF left = 0 THEN ReadTimeout ELSE left

\* The time the first read has: all of read_timeout, but the blocking twin
\* keeps the short timeout it switched to at an earlier baud rate.
InitialTimeout == IF how.blocking /\ left # 0 THEN left ELSE ReadTimeout

\* Clear the input buffer and write the probe.  Late bytes that are not in
\* the buffer yet survive.
WriteProbe ==
  /\ pc = "write"
  /\ late' \in {FALSE, late}
  /\ pc' = "read"
  /\ chunks' = 0
  /\ dirty' = FALSE
  /\ left' = InitialTimeout
  /\ writes' = IF cancelled THEN writes + 1 ELSE writes
  /\ UNCHANGED <<setup, cancelled, i, line, found, failed>>

----------------------------------------------------------------------------
(* read_response: one timeout over all reads.  The blocking twin: a        *)
(* timeout per read, ShortTimeout after the first bytes.                   *)

LeftAfter(gap) == IF how.blocking THEN ShortTimeout ELSE left - gap

\* The response that ends with the terminator ends the reading, before the
\* blocking twin changes its timeout.
ReadChunk ==
  /\ pc = "read"
  /\ HasChunk(device[line], chunks + 1)
  /\ Gap(device[line], chunks + 1) <= left
  /\ chunks' = (chunks % MaxChunks) + 1
  /\ IF how.terminated /\ device[line].valid /\ chunks + 1 = Len(device[line].at)
       THEN pc' = "judge" /\ UNCHANGED left
       ELSE left' = LeftAfter(Gap(device[line], chunks + 1)) /\ UNCHANGED pc
  /\ UNCHANGED <<setup, cancelled, i, line, dirty, late, found, writes, failed>>

ReadLateBytes ==
  /\ pc = "read"
  /\ late
  /\ \E gap \in 0..left : left' = LeftAfter(gap)
  /\ dirty' = TRUE
  /\ late' = FALSE
  /\ UNCHANGED <<setup, cancelled, pc, i, line, chunks, found, writes, failed>>

\* The time is up, or the read fails: the response is what there is.
ReadEnds ==
  /\ pc = "read"
  /\ \/ /\ HasChunk(device[line], chunks + 1) => Gap(device[line], chunks + 1) > left
        /\ UNCHANGED failed
     \/ MayFail /\ failed' = TRUE
  /\ late' = (late \/ HasChunk(device[line], chunks + 1))
  /\ pc' = "judge"
  /\ UNCHANGED <<setup, cancelled, i, line, chunks, dirty, left, found, writes>>

\* An empty response, or one the filter rejects, is no match at this rate.
Accepted ==
  /\ chunks > 0 \/ dirty
  /\ Filtered => /\ device[line].valid
                 /\ chunks > 0 /\ chunks >= Len(device[line].at)

Judge ==
  /\ pc = "judge"
  /\ IF Accepted
       THEN /\ found' = [baud |-> Bauds[i], line |-> line]
            /\ pc' = "done"
            /\ UNCHANGED i
       ELSE Continue /\ UNCHANGED found
  /\ UNCHANGED <<setup, cancelled, line, chunks, dirty, late, left, writes, failed>>

----------------------------------------------------------------------------
ProbeStep ==
  \/ Open \/ CheckToken \/ IoFails \/ SetBaudRate \/ WriteProbe
  \/ ReadChunk \/ ReadLateBytes \/ ReadEnds \/ Judge

Next == ProbeStep \/ Cancel

\* The probe's thread runs, or its future is polled, and writes return.
Spec == Init /\ [][Next]_vars /\ WF_vars(ProbeStep)

----------------------------------------------------------------------------
(* Properties.                                                             *)

TypeOK ==
  /\ how \in Variants
  /\ device \in [Rates -> Replies]
  /\ cancelled \in BOOLEAN
  /\ pc \in {"open", "check", "set", "write", "read", "judge", "done", "error"}
  /\ i \in 1..Len(Bauds) + 1
  /\ line \in Rates
  /\ chunks \in 0..MaxChunks
  /\ {dirty, late, failed} \subseteq BOOLEAN
  /\ left \in 0..ReadTimeout
  /\ found \in [baud : Rates, line : Rates] \union {NoMatch}
  /\ writes \in Nat

\* "baud rate confirmed during discovery" (types.rs:163): the reported rate
\* is the one the port was set to when the device answered, and with a filter
\* the device's reply at that rate is the one asked for.
ReportedBaud ==
  found # NoMatch => /\ found.baud = found.line
                     /\ Filtered => device[found.baud].valid

\* The device's replies all fit into read_timeout.
Punctual ==
  \A b \in Rates :
    ~device[b].endless /\ \A k \in DOMAIN device[b].at : device[b].at[k] <= ReadTimeout

\* A device that answers one of the rates in time, however it answers the
\* others, is found: "simple I/O errors are treated as no-response so every
\* baud rate still gets a chance" (probe.rs:173), and so do wrong replies.
\* The blocking twin is the "synchronous equivalent" (probe.rs:350).
ResponsiveIsFound ==
  pc = "done" /\ Punctual /\ ~cancelled /\ ~failed =>
    \A b \in Rates : device[b].valid => found # NoMatch

\* The async probe, which the preferred port gets, keeps that promise.
AsyncFindsResponsive == ~how.blocking => ResponsiveIsFound

\* "Cancellation is checked between baud rates" (probe.rs:249): once the
\* token is set at most one more probe is written.
OneProbeAfterCancel == writes <= 1

\* The probe of a port ends, cancelled or not, whatever the device sends; for
\* the blocking twin, whose timeout starts anew with every read, unless the
\* device sends without end.
Returns ==
  (how.blocking => \A b \in Rates : ~device[b].endless) => <>(pc \in {"done", "error"})
=============================================================================
