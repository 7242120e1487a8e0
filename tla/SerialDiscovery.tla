--------------------------- MODULE SerialDiscovery ---------------------------
(***************************************************************************)
(* SerialDiscovery of src/serial: run_discovery (preferred port with       *)
(* retries, list-only mode) of mod.rs and sweep_all_ports of probe.rs, for *)
(* several discovery passes in one process.                                *)
(*                                                                         *)
(* A sweep spawns, per port, a task that waits at most open_budget for a   *)
(* probe on a blocking thread.  Neither the budget nor abort_all() stops   *)
(* that thread: it keeps the port open until its own loop ends, and a port *)
(* is exclusive, so a later pass cannot open it meanwhile.                 *)
(*                                                                         *)
(* Abstraction: what a probe of a port returns is decided by the behaviour *)
(* of the port (SerialProbe has the details).  SerialStreaming adds who    *)
(* calls run_discovery, and the channel the matches are sent to.           *)
(***************************************************************************)
EXTENDS Naturals, Sequences, FiniteSets, SequencesExt

CONSTANTS
  Ports,       \* names of serial ports
  Preferred,   \* preferred_port, or NoPort
  NoPort,
  Retries,     \* preferred_retry
  Modes,       \* "list" without a probe_command, "probe" with one
  Behaviours,  \* subset of {"answers", "slow", "silent", "stuck", "stalled"}
  MaxPasses,   \* bound on the discovery passes of the process
  Resettable   \* whether the token is reset between or within passes

ASSUME SerialDiscoveryAssumption ==
  /\ IsFiniteSet(Ports)
  /\ Preferred \in Ports \union {NoPort}
  /\ NoPort \notin Ports
  /\ {Retries, MaxPasses} \subseteq Nat
  /\ Modes \subseteq {"list", "probe"}
  /\ Resettable \in BOOLEAN
  /\ Behaviours \subseteq {"answers", "slow", "silent", "stuck", "stalled"}

VARIABLES
  behaviour,  \* environment: "answers" within the budget, "slow": answers later,
              \* "silent": does not answer, "stuck": sends without end, "stalled":
              \* takes no bytes
  mode,       \* of this pass
  cancelled,  \* the token
  pass,       \* discovery passes begun
  pc,         \* where run_discovery is
  attempt,    \* attempts on the preferred port
  listed,     \* ports of available_ports that the filters keep
  unspawned,  \* of those, the ones without a task yet
  task,       \* the task of each port in this pass
  thread,     \* the blocking thread of each port in this pass
  leftover,   \* ports that threads of earlier passes hold open
  blocked,    \* history: ports this pass could not open
  disturbed,  \* history: the token was set during this pass, or it was abandoned
  result      \* the matches collected, in order

sweep == <<unspawned, task, thread, leftover, blocked>>
setup == <<behaviour, mode>>
vars == <<behaviour, mode, cancelled, pass, pc, attempt, listed, sweep, disturbed,
          result>>

Init ==
  /\ behaviour \in [Ports -> Behaviours]
  /\ mode \in Modes
  /\ cancelled = FALSE
  /\ pass = 0
  /\ pc = "returned"
  /\ attempt = 0
  /\ listed = {} /\ unspawned = {}
  /\ task = [p \in Ports |-> "none"]
  /\ thread = [p \in Ports |-> "none"]
  /\ leftover = {} /\ blocked = {}
  /\ disturbed = FALSE
  /\ result = <<>>

----------------------------------------------------------------------------
(* The user's threads.                                                     *)

Cancel ==
  /\ ~cancelled
  /\ cancelled' = TRUE
  /\ disturbed' = TRUE
  /\ UNCHANGED <<setup, pass, pc, attempt, listed, sweep, result>>

Reset ==
  /\ Resettable
  /\ cancelled
  /\ cancelled' = FALSE
  /\ UNCHANGED <<setup, pass, pc, attempt, listed, sweep, disturbed, result>>

\* The pass is over, with its result or with an error.
Ended == {"returned", "failed"}

\* A call of discover, of discover_streaming or of discover_async, after the pass
\* before it ended.
StartPass ==
  /\ pc \in Ended /\ pass < MaxPasses
  /\ pass' = pass + 1
  /\ mode' \in Modes
  /\ pc' = IF mode' = "list" THEN "list"
           ELSE IF Preferred # NoPort THEN "preferred" ELSE "ports"
  /\ attempt' = 0
  /\ listed' = {} /\ unspawned' = {}
  /\ task' = [p \in Ports |-> "none"]
  /\ leftover' = leftover \union {p \in Ports : thread[p] \in {"queued", "running"}}
  /\ thread' = [p \in Ports |-> "none"]
  /\ blocked' = {}
  /\ disturbed' = cancelled
  /\ result' = <<>>
  /\ UNCHANGED <<behaviour, cancelled>>

----------------------------------------------------------------------------
(* run_discovery                                                           *)

\* list_all_ports: nothing is opened and nothing is sent.
ListAllPorts ==
  /\ pc = "list"
  /\ \E ports \in SUBSET Ports :
       /\ listed' = ports
       /\ result' \in SetToSeqs(ports)
  /\ pc' = "returned"
  /\ UNCHANGED <<setup, cancelled, pass, attempt, sweep, disturbed>>

PreferredCancelled ==
  /\ pc = "preferred"
  /\ cancelled
  /\ pc' = "returned"
  /\ UNCHANGED <<setup, cancelled, pass, attempt, listed, sweep, disturbed, result>>

\* The reads of this probe share one timeout, so it ends whatever is sent.
PreferredAnswers ==
  /\ pc = "preferred"
  /\ ~cancelled
  /\ behaviour[Preferred] \notin {"silent", "stalled"}
  /\ Preferred \notin leftover
  /\ result' = <<Preferred>>
  /\ attempt' = attempt + 1
  /\ pc' = "returned"
  /\ UNCHANGED <<setup, cancelled, pass, listed, sweep, disturbed>>

\* Mutation: one retry less.
RetryLeft_OffByOne == attempt + 1 < Retries

RetryLeft == attempt < Retries

\* write_all has no timeout here: unless the open fails, or the token stops the
\* probe before, it waits for a port that takes no bytes.
Writable == behaviour[Preferred] # "stalled" \/ Preferred \in leftover \/ disturbed

\* No response this time, no free port, or the token was set between two
\* baud rates.
PreferredSilent ==
  /\ pc = "preferred"
  /\ ~cancelled
  /\ Writable
  /\ attempt' = attempt + 1
  /\ pc' = IF RetryLeft THEN "retry" ELSE "ports"
  /\ UNCHANGED <<setup, cancelled, pass, listed, sweep, disturbed, result>>

\* The retry delay; the token is looked at after it.
RetryDelay ==
  /\ pc = "retry"
  /\ pc' = "preferred"
  /\ UNCHANGED <<setup, cancelled, pass, attempt, listed, sweep, disturbed, result>>

----------------------------------------------------------------------------
(* sweep_all_ports                                                         *)

ListPorts ==
  /\ pc = "ports"
  /\ listed' \in SUBSET Ports
  /\ unspawned' = listed'
  /\ pc' = "spawn"
  /\ UNCHANGED <<setup, cancelled, pass, attempt, task, thread, leftover,
                 blocked, disturbed, result>>

\* The port list cannot be read, for a list or for a sweep.
ListPortsFails ==
  /\ pc \in {"list", "ports"}
  /\ pc' = "failed"
  /\ UNCHANGED <<setup, cancelled, pass, attempt, listed, sweep, disturbed, result>>

SpawnTask(p) ==
  /\ pc = "spawn"
  /\ ~cancelled
  /\ p \in unspawned
  /\ unspawned' = unspawned \ {p}
  /\ task' = [task EXCEPT ![p] = "spawned"]
  /\ thread' = [thread EXCEPT ![p] = "queued"]
  /\ UNCHANGED <<setup, cancelled, pass, pc, attempt, listed, leftover,
                 blocked, disturbed, result>>

SpawnLoopEnds ==
  /\ pc = "spawn"
  /\ cancelled \/ unspawned = {}
  /\ pc' = "join"
  /\ UNCHANGED <<setup, cancelled, pass, attempt, listed, sweep, disturbed, result>>

\* The blocking thread opens the port, unless another thread holds it.
OpenPort(p) ==
  /\ thread[p] = "queued"
  /\ IF p \in leftover
       THEN /\ thread' = [thread EXCEPT ![p] = "ended"]
            /\ task' = [task EXCEPT ![p] = IF @ = "spawned" THEN "nothing" ELSE @]
            /\ blocked' = blocked \union {p}
       ELSE /\ thread' = [thread EXCEPT ![p] = "running"]
            /\ UNCHANGED <<task, blocked>>
  /\ UNCHANGED <<setup, cancelled, pass, pc, attempt, listed, unspawned,
                 leftover, disturbed, result>>

\* The probe ends: with a match, or with nothing, as when the token stopped
\* it.  The blocking write has a timeout; a read loop that is never without
\* bytes never ends.
ThreadEnds(p) ==
  /\ thread[p] = "running"
  /\ behaviour[p] # "stuck"
  /\ thread' = [thread EXCEPT ![p] = "ended"]
  /\ \E outcome \in {"match", "nothing"} :
       /\ outcome = "match" => behaviour[p] \in {"answers", "slow"}
       /\ outcome = "nothing" => behaviour[p] \in {"silent", "stalled"} \/ disturbed
       /\ task' = [task EXCEPT ![p] = IF @ = "spawned" THEN outcome ELSE @]
  /\ UNCHANGED <<setup, cancelled, pass, pc, attempt, listed, unspawned,
                 leftover, blocked, disturbed, result>>

\* Mutation: the task waits for its thread without a budget.
OutOfBudget_Never(p) == FALSE

\* open_budget may run out for every port that does not answer within it.
OutOfBudget(p) == behaviour[p] # "answers"

BudgetExpires(p) ==
  /\ task[p] = "spawned"
  /\ thread[p] = "running"
  /\ OutOfBudget(p)
  /\ task' = [task EXCEPT ![p] = "nothing"]
  /\ UNCHANGED <<setup, cancelled, pass, pc, attempt, listed, unspawned,
                 thread, leftover, blocked, disturbed, result>>

\* abort_all(), or dropping the set: a thread whose task had not run yet never
\* starts; the others go on.
AbortTasks ==
  /\ task' = [q \in Ports |-> IF task[q] = "none" THEN "none" ELSE "joined"]
  /\ \E unstarted \in SUBSET {q \in Ports : thread[q] = "queued"} :
       thread' = [q \in Ports |-> IF q \in unstarted THEN "ended" ELSE thread[q]]

\* A task was joined and the token is set: abort every other, drop the match.
JoinCancelled(p) ==
  /\ pc = "join"
  /\ cancelled
  /\ task[p] \in {"match", "nothing"}
  /\ AbortTasks
  /\ pc' = "returned"
  /\ UNCHANGED <<setup, cancelled, pass, attempt, listed, unspawned,
                 leftover, blocked, disturbed, result>>

JoinTask(p) ==
  /\ pc = "join"
  /\ ~cancelled
  /\ task[p] \in {"match", "nothing"}
  /\ task' = [task EXCEPT ![p] = "joined"]
  /\ IF task[p] = "match" THEN result' = Append(result, p) ELSE UNCHANGED result
  /\ UNCHANGED <<setup, cancelled, pass, pc, attempt, listed, unspawned,
                 thread, leftover, blocked, disturbed>>

\* Mutation: the sweep returns once one task was joined.
AllJoined_One ==
  \E p \in Ports : task[p] = "joined"

AllJoined == \A p \in Ports : task[p] \in {"none", "joined"}

SweepReturns ==
  /\ pc = "join"
  /\ AllJoined
  /\ pc' = "returned"
  /\ UNCHANGED <<setup, cancelled, pass, attempt, listed, sweep, disturbed, result>>

\* asyncio cancels the coroutine of discover_async, which has no channel: the
\* future is dropped where it waits, with the matches it has.
Abandon ==
  /\ pc \in {"preferred", "retry", "join"}
  /\ AbortTasks
  /\ pc' = "returned"
  /\ disturbed' = TRUE
  /\ result' = <<>>
  /\ UNCHANGED <<setup, cancelled, pass, attempt, listed, unspawned, leftover, blocked>>

\* A thread of an earlier pass ends, and with it the hold on the port.
LeftoverEnds(p) ==
  /\ p \in leftover
  /\ behaviour[p] # "stuck"
  /\ leftover' = leftover \ {p}
  /\ UNCHANGED <<setup, cancelled, pass, pc, attempt, listed, unspawned,
                 task, thread, blocked, disturbed, result>>

----------------------------------------------------------------------------
\* The steps of a pass that send no match to a channel.
DiscoveryControl ==
  \/ ListAllPorts \/ PreferredCancelled \/ PreferredSilent
  \/ RetryDelay \/ ListPorts \/ ListPortsFails \/ SpawnLoopEnds \/ SweepReturns
  \/ \E p \in Ports : \/ SpawnTask(p) \/ JoinCancelled(p)
                      \/ OpenPort(p) \/ ThreadEnds(p) \/ BudgetExpires(p)

Discovery == DiscoveryControl \/ PreferredAnswers \/ \E p \in Ports : JoinTask(p)

Next ==
  \/ Discovery \/ (\E p \in Ports : LeftoverEnds(p))
  \/ StartPass \/ Cancel \/ Reset \/ Abandon

\* The runtime runs the tasks, and a budget that can run out does.
Spec == Init /\ [][Next]_vars /\ WF_vars(Discovery)

----------------------------------------------------------------------------
(* Properties.                                                             *)

TypeOK ==
  /\ mode \in Modes
  /\ behaviour \in [Ports -> Behaviours]
  /\ {cancelled, disturbed} \subseteq BOOLEAN
  /\ pass \in 0..MaxPasses
  /\ pc \in {"list", "preferred", "retry", "ports", "spawn", "join",
             "returned", "failed"}
  /\ attempt \in 0..Retries + 1
  /\ unspawned \subseteq listed /\ listed \subseteq Ports
  /\ task \in [Ports -> {"none", "spawned", "match", "nothing", "joined"}]
  /\ thread \in [Ports -> {"none", "queued", "running", "ended"}]
  /\ leftover \subseteq Ports /\ blocked \subseteq Ports
  /\ result \in Seq(Ports)

Swept == pc = "returned" /\ \E p \in Ports : task[p] = "joined"

\* "Probe every available serial port" (probe.rs:472): a sweep that nobody
\* disturbed returns every listed port that answers, whatever happened to the
\* passes before it, unless a thread of an earlier pass still held the port.
AnsweringIsFound ==
  Swept /\ ~disturbed =>
    \A p \in listed : behaviour[p] = "answers" => p \in ToSet(result) \union blocked

\* "Only if it produces no response does the library sweep every available
\* port" (serial/mod.rs:20): no port is opened in a sweep before the
\* preferred port was tried preferred_retry + 1 times in vain, and one that
\* answered is the whole result.
PreferredFirst ==
  Preferred # NoPort =>
    /\ pc \in {"spawn", "join"} => attempt = Retries + 1
    /\ attempt > 0 /\ result # <<>> /\ (\A p \in Ports : task[p] = "none") =>
         result = <<Preferred>>
=============================================================================
