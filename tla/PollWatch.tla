----------------------------- MODULE PollWatch -----------------------------
(***************************************************************************)
(* The polling watch of the serial and TCP transports: poll_watch and      *)
(* compute_diff of src/watch.rs, with discover() as its tick.              *)
(*                                                                         *)
(* Devices come and go while a discovery pass runs.  A pass that ends      *)
(* undisturbed lists every device that was there throughout, but for those *)
(* it did not look at, and none that was never there (PassContract); one   *)
(* that finds the token set returns early, and successfully, with some of  *)
(* them (tcp/scan.rs:525, tcp/mod.rs:404, serial/mod.rs:328,               *)
(* serial/probe.rs:586).  Devices stand for addresses; the watch compares  *)
(* nothing else.                                                           *)
(***************************************************************************)
EXTENDS Naturals, Sequences, FiniteSets, SequencesExt, PassContract

CONSTANTS
  Devices,       \* the addresses discovery may report
  Overlookable,  \* of those, the ones an undisturbed pass may not look at: the
                 \* preferred host or port answered, which ends the pass
                 \* (tcp/mod.rs:474, serial/mod.rs:349), a thread of an earlier
                 \* pass holds the port, or a raw scan lost the reply
  Resettable     \* whether somebody may reset the token

ASSUME PollWatchAssumption ==
  /\ IsFiniteSet(Devices) /\ Overlookable \subseteq Devices
  /\ Duplicates \in BOOLEAN /\ Resettable \in BOOLEAN

VARIABLES
  present,    \* environment: devices that answer now
  stable,     \* devices that answered throughout the last pass
  glimpsed,   \* devices that answered at some point of the last pass
  cancelled,  \* the token
  overlooked, \* devices the last pass did not look at
  disturbed,  \* the token was set while the last pass was running
  pc,         \* where poll_watch is
  prev,       \* result of the pass before
  current,    \* result of the last pass
  calls,      \* positions in current, while adding, or prev, while removing,
              \* of the devices the loop has still to report
  known,      \* history: devices added and not removed, seen by the caller
  beat        \* history: flips with every callback

environment == <<present, stable, glimpsed, overlooked>>
vars == <<present, stable, glimpsed, overlooked, cancelled, disturbed, pc, prev,
          current, calls, known, beat>>

----------------------------------------------------------------------------
(* compute_diff                                                            *)

\* The positions in from of the devices that other lacks.
Missing(from, other) == {k \in DOMAIN from : from[k] \notin ToSet(other)}

\* Mutation: the filter for the removed devices lacks its negation.
RemovedBy_Kept(p, c) == DOMAIN p \ Missing(p, c)

AddedBy(p, c) == Missing(c, p)
RemovedBy(p, c) == Missing(p, c)

----------------------------------------------------------------------------
Init ==
  /\ present \in SUBSET Devices
  /\ stable = {} /\ glimpsed = {} /\ overlooked = {}
  /\ cancelled = FALSE /\ disturbed = FALSE
  /\ pc = "check"
  /\ prev = <<>> /\ current = <<>> /\ calls = {}
  /\ known = {}
  /\ beat = FALSE

----------------------------------------------------------------------------
(* The environment.                                                        *)

Appear(d) ==
  /\ d \notin present
  /\ present' = present \union {d}
  /\ glimpsed' = IF pc = "tick" THEN glimpsed \union {d} ELSE glimpsed
  /\ UNCHANGED <<stable, overlooked, cancelled, disturbed, pc, prev, current, calls, known, beat>>

Vanish(d) ==
  /\ d \in present
  /\ present' = present \ {d}
  /\ stable' = IF pc = "tick" THEN stable \ {d} ELSE stable
  /\ UNCHANGED <<glimpsed, overlooked, cancelled, disturbed, pc, prev, current, calls, known, beat>>

\* Other Python threads run while the watch has released the GIL, in a pass
\* and in the sleep, or while it is in a Python callback.
OthersRun == pc \in {"tick", "sleep"} \/ calls # {}

Cancel ==
  /\ OthersRun
  /\ ~cancelled
  /\ cancelled' = TRUE
  /\ disturbed' = (disturbed \/ pc = "tick")
  /\ UNCHANGED <<environment, pc, prev, current, calls, known, beat>>

Reset ==
  /\ OthersRun
  /\ Resettable
  /\ cancelled
  /\ cancelled' = FALSE
  /\ UNCHANGED <<environment, disturbed, pc, prev, current, calls, known, beat>>

----------------------------------------------------------------------------
(* poll_watch                                                              *)

CheckToken ==
  /\ pc = "check"
  /\ IF cancelled
       THEN /\ pc' = "returned"
            /\ UNCHANGED <<stable, glimpsed, disturbed>>
       ELSE /\ pc' = "tick"
            /\ stable' = present
            /\ glimpsed' = present
            /\ disturbed' = FALSE
  /\ overlooked' = {}
  /\ UNCHANGED <<present, cancelled, prev, current, calls, known, beat>>

\* The pass returns.  A pass disturbed by the token may have stopped early.
Tick ==
  /\ pc = "tick"
  /\ overlooked' \in SUBSET Overlookable
  /\ current' \in PassResults(glimpsed, IF disturbed THEN {} ELSE stable \ overlooked')
  /\ pc' = "added"
  /\ calls' = AddedBy(prev, current')
  /\ UNCHANGED <<present, stable, glimpsed, cancelled, disturbed, prev, known, beat>>

\* The pass fails (no port list, an invalid subnet): so does the watch.
TickFails ==
  /\ pc = "tick"
  /\ pc' = "returned"
  /\ UNCHANGED <<environment, cancelled, disturbed, prev, current, calls, known, beat>>

\* The next device to report: the loop goes through the list in order.
NextCall(k) == k \in calls /\ \A j \in calls : k <= j

CallAdded(k) ==
  /\ pc = "added"
  /\ NextCall(k)
  /\ known' = known \union {current[k]}
  /\ calls' = calls \ {k}
  /\ beat' = ~beat
  /\ UNCHANGED <<environment, cancelled, disturbed, pc, prev, current>>

CallRemoved(k) ==
  /\ pc = "removed"
  /\ NextCall(k)
  /\ known' = known \ {prev[k]}
  /\ calls' = calls \ {k}
  /\ beat' = ~beat
  /\ UNCHANGED <<environment, cancelled, disturbed, pc, prev, current>>

\* A callback raises: no further one is made, prev is not updated.
CallbackRaises(k) ==
  /\ pc \in {"added", "removed"}
  /\ NextCall(k)
  /\ known' = IF pc = "added" THEN known \union {current[k]} ELSE known \ {prev[k]}
  /\ calls' = {}
  /\ pc' = "raised"
  /\ beat' = ~beat
  /\ UNCHANGED <<environment, cancelled, disturbed, prev, current>>

\* watch returns the exception.
ReturnException ==
  /\ pc = "raised"
  /\ pc' = "returned"
  /\ UNCHANGED <<environment, cancelled, disturbed, prev, current, calls, known, beat>>

AllAdded ==
  /\ pc = "added"
  /\ calls = {}
  /\ pc' = "removed"
  /\ calls' = RemovedBy(prev, current)
  /\ UNCHANGED <<environment, cancelled, disturbed, prev, current, known, beat>>

\* Mutation: prev keeps the result of the first pass.
NextPrev_KeepsFirst == IF prev = <<>> THEN current ELSE prev

NextPrev == current

AllRemoved ==
  /\ pc = "removed"
  /\ calls = {}
  /\ pc' = "sleep"
  /\ prev' = NextPrev
  /\ UNCHANGED <<environment, cancelled, disturbed, current, calls, known, beat>>

\* Mutation: the sleep is not interrupted by the token, and nothing checks
\* it before the next pass.
AfterSleep_NoCheck == "tick"

\* Mutation: the deadline is computed anew for every slice.
AfterSleep_SleepsOn == "sleep"

\* The interval elapsed: back to the head of the loop.
AfterSleep == "check"

\* A slice of the sleep finds the token set.
WakeCancelled ==
  /\ pc = "sleep"
  /\ cancelled
  /\ pc' = "returned"
  /\ UNCHANGED <<environment, cancelled, disturbed, prev, current, calls, known, beat>>

\* The deadline passed; the token is not looked at after the last slice.
SleepElapsed ==
  /\ pc = "sleep"
  /\ pc' = AfterSleep
  /\ UNCHANGED <<environment, cancelled, disturbed, prev, current, calls, known, beat>>

----------------------------------------------------------------------------
WatchStep ==
  \/ CheckToken \/ Tick \/ TickFails
  \/ (\E k \in calls : CallAdded(k) \/ CallRemoved(k) \/ CallbackRaises(k))
  \/ ReturnException
  \/ AllAdded \/ AllRemoved
  \/ WakeCancelled \/ SleepElapsed

Next ==
  \/ WatchStep
  \/ Cancel \/ Reset
  \/ \E d \in Devices : Appear(d) \/ Vanish(d)

\* The watching thread keeps running: every pass ends within its timeouts,
\* every callback returns and the interval elapses.
Spec == Init /\ [][Next]_vars /\ WF_vars(WatchStep)

----------------------------------------------------------------------------
(* Properties.                                                             *)

\* Types; a callback that is due has a device to report.
TypeOK ==
  /\ present \subseteq Devices
  /\ stable \subseteq Devices
  /\ glimpsed \subseteq Devices
  /\ overlooked \subseteq Devices
  /\ cancelled \in BOOLEAN
  /\ disturbed \in BOOLEAN
  /\ pc \in {"check", "tick", "added", "removed", "sleep", "raised", "returned"}
  /\ prev \in Seq(Devices)
  /\ current \in Seq(Devices)
  /\ calls \subseteq DOMAIN (IF pc = "added" THEN current ELSE prev)
  /\ known \subseteq Devices
  /\ beat \in BOOLEAN

\* After every round of callbacks the caller's picture is the result of the
\* pass: added and removed calls neither overlap nor leave a device out.
KnownIsCurrent == pc \in {"sleep", "check"} => known = ToSet(current)

\* "vanished devices trigger on_removed" (tcp/mod.rs:307): a device that
\* answered throughout the pass is never reported as removed.
RemovedOnlyIfGone ==
  pc = "removed" => \A k \in calls : prev[k] \notin stable

\* The same, for the passes during which the token was not set and the devices
\* they looked at.
RemovedOnlyIfGoneUndisturbed ==
  pc = "removed" /\ ~disturbed => \A k \in calls : prev[k] \notin stable \ overlooked

\* A device that nobody unplugs is eventually known, and stays so, unless the
\* watch ends, the token keeps disturbing its passes or they keep overlooking it.
EventuallyKnown ==
  \A d \in Devices :
    <>[](d \in present \ overlooked /\ ~disturbed) => <>[](d \in known \/ pc = "returned")

\* "Runs until the cancellation_token is cancelled" (tcp/mod.rs:307): once
\* the token is set, and left so, the watch returns.
CancelEndsWatch == <>[]cancelled => <>(pc = "returned")

\* "new devices trigger on_added and vanished devices trigger on_removed"
\* (tcp/mod.rs:306): as long as no pass lists a device twice, the watch keeps
\* WatchContract through its callbacks.
Contract == INSTANCE WatchContract WITH over <- pc = "returned"
KeepsContract == Contract!Spec
=============================================================================
