--------------------------- MODULE TcpScanProofs ---------------------------
(***************************************************************************)
(* Theorems about TcpScan and about SweepPlan, which computes what a scan  *)
(* starts from: for every network and every choice of the parameters.      *)
(***************************************************************************)
EXTENDS TcpScan, SweepPlan, SweepContract, FiniteSetTheorems, FunctionTheorems, TLAPS

----------------------------------------------------------------------------
(* The lists handed to run_batch are lists of tasks.                       *)

\* The address lists of build_priority_addrs hold socket addresses.
LEMMA PriorityListsType ==
  ASSUME arp \in SUBSET ArpHosts
  PROVE  ArpAddrs \subseteq Addr /\ HeuristicAddrs \subseteq Addr
BY HostsAssumption DEF ArpAddrs, HeuristicAddrs, Addr

\* Tagging a list of addresses gives tasks.
LEMMA TasksForType ==
  ASSUME NEW src \in Sources, NEW addrs \in SUBSET Addr
  PROVE  TasksFor(src, addrs) \subseteq Task
BY DEF TasksFor, Task

\* The full sweep's iterator yields tasks.
LEMMA SweepTasksType == SweepTasks \subseteq Task
BY DEF SweepTasks, HostIter, Task, Sources

\* The targets of the raw route are addresses of IPv4 hosts.
LEMMA RawTargetsType ==
  ASSUME NEW alive \in SUBSET (RemainingHosts \union Strays),
         NEW targets \in RawProbeTargets(alive)
  PROVE  targets \in SUBSET Addr
BY HostsAssumption DEF RemainingHosts, RawProbeTargets, Addr

----------------------------------------------------------------------------
(* Type correctness.                                                       *)

\* A scan starts with every variable in its type.
LEMMA TypeInit == Init => TypeOK
BY ParameterAssumption DEF Init, TypeOK, Phases

\* Every step of the scan, of its tasks and of the user keeps the types.
LEMMA TypeStep == TypeOK /\ [Next]_vars => TypeOK'
<1> SUFFICES ASSUME TypeOK, [Next]_vars PROVE TypeOK'
  OBVIOUS
<1> USE DEF TypeOK, environment, token, tasks, Plan
<1>1. CASE UNCHANGED vars
  BY <1>1 DEF vars
<1>2. CASE Cancel
  BY <1>2 DEF Cancel
<1>3. CASE Reset
  BY <1>3 DEF Reset
<1>4. CASE ArpBatch
  <2>1. TasksFor("arp_cache", ArpAddrs) \in SUBSET Task
    BY PriorityListsType, TasksForType DEF Sources
  <2> QED BY <1>4, <2>1 DEF ArpBatch, RunBatch
<1>5. CASE HeuristicBatch
  <2>1. TasksFor("heuristic", HeuristicAddrs) \in SUBSET Task
    BY PriorityListsType, TasksForType DEF Sources
  <2> QED BY <1>5, <2>1 DEF HeuristicBatch, RunBatch
<1>6. CASE NoArpBatch
  BY <1>6 DEF NoArpBatch, Proceed, Phases
<1>7. CASE NoHeuristicBatch
  BY <1>7 DEF NoHeuristicBatch, Proceed, Phases
<1>8. CASE StartPing \/ PingNobody
  BY <1>8 DEF StartPing, PingNobody, Proceed, Phases
<1>9. CASE PingReplies
  <2>1. PICK alive \in (SUBSET (RemainingHosts \union Strays)) \ {{}} :
          \E targets \in RawProbeTargets(alive) : Plan(TasksFor("raw", targets))
    BY <1>9 DEF PingReplies
  <2>2. unswept' \in SUBSET Task
    BY <2>1, RawTargetsType, TasksForType DEF Sources
  <2> QED BY <1>9, <2>2 DEF PingReplies, Proceed, Phases
<1>10. CASE PingUnavailable
  BY <1>10, SweepTasksType DEF PingUnavailable, Proceed, Phases
<1>11. CASE RawBatch
  BY <1>11 DEF RawBatch, RunBatch
<1>12. CASE FullBatch
  BY <1>12 DEF FullBatch, RunBatch, LeftAfter
<1>13. CASE Exhausted \/ StopCancelled
  BY <1>13 DEF Exhausted, StopCancelled, Proceed, Phases
<1>14. CASE SpawnTask
  BY <1>14 DEF SpawnTask
<1>15. CASE SpawnLoopEnds
  BY <1>15 DEF SpawnLoopEnds
<1>16. CASE AllJoined
  BY <1>16 DEF AllJoined
<1>17. CASE BatchDone
  BY <1>17 DEF BatchDone, NextPhase, Phases
<1>18. ASSUME NEW t \in got, EmitMatch(t) PROVE TypeOK'
  BY <1>18 DEF EmitMatch, Push
<1>19. ASSUME NEW t \in waiting, Acquire(t) PROVE TypeOK'
  BY <1>19 DEF Acquire, HasPermit
<1>20. ASSUME NEW t \in probing, FinishProbe(t) PROVE TypeOK'
  BY <1>20 DEF FinishProbe, PermitsAfter
<1> QED
  BY <1>1, <1>2, <1>3, <1>4, <1>5, <1>6, <1>7, <1>8, <1>9, <1>10, <1>11, <1>12,
     <1>13, <1>14, <1>15, <1>16, <1>17, <1>18, <1>19, <1>20
     DEF Next, ScanStep, ScanControl, TaskStep

\* In every reachable state the lists, queues and flags of a scan have their
\* types; in particular the semaphore never goes below zero.
THEOREM TypeCorrect == Spec => []TypeOK
BY TypeInit, TypeStep, PTL DEF Spec

----------------------------------------------------------------------------
(* Which tasks a scan draws, phase by phase.                               *)

ArpTasks == TasksFor("arp_cache", ArpAddrs)
HeuristicTasks == TasksFor("heuristic", HeuristicAddrs)
RawTasks == TasksFor("raw", (RemainingHosts \union Strays) \X Ports)
PriorityTasks == ArpTasks \union HeuristicTasks

\* Every task spawned so far or still to be spawned.
Drawn == spawned \union todo \union unswept

\* The spawn loop is the only place that holds addresses back, and the scan
\* is between two batches wherever it runs none.
BatchShape ==
  /\ step # "spawn" => todo = {}
  /\ phase \in {"ping", "pinging", "done"} => step = "between"

\* What has been drawn when the scan is in a phase.
DrawnInPhase ==
  /\ phase \in {"arp_cache", "heuristic", "ping", "pinging"} =>
       unswept = {} /\ Drawn \subseteq PriorityTasks
  /\ phase = "arp_cache" => Drawn \subseteq ArpTasks
  /\ phase = "arp_cache" /\ step = "between" => spawned = {}
  /\ phase = "heuristic" /\ step = "between" => spawned \subseteq ArpTasks
  /\ phase = "raw" => Drawn \subseteq PriorityTasks \union RawTasks
  /\ phase = "full" => Drawn \subseteq PriorityTasks \union SweepTasks
  /\ phase = "done" => \/ Drawn \subseteq PriorityTasks \union RawTasks
                      \/ Drawn \subseteq PriorityTasks \union SweepTasks

\* No task is drawn twice.
DrawnApart ==
  /\ spawned \intersect todo = {}
  /\ spawned \intersect unswept = {}
  /\ todo \intersect unswept = {}

RouteInv == BatchShape /\ DrawnInPhase /\ DrawnApart

\* Tasks of different sources differ.
LEMMA SourcesApart ==
  /\ ArpTasks \intersect HeuristicTasks = {}
  /\ PriorityTasks \intersect RawTasks = {}
  /\ PriorityTasks \intersect SweepTasks = {}
BY DEF ArpTasks, HeuristicTasks, RawTasks, PriorityTasks, SweepTasks, HostIter, TasksFor

\* The lists depend on the ARP cache alone, which the scan reads once.
LEMMA ListsFixed ==
  ASSUME UNCHANGED arp
  PROVE  UNCHANGED <<ArpAddrs, HeuristicAddrs, RemainingHosts,
                     ArpTasks, HeuristicTasks, RawTasks, PriorityTasks, SweepTasks>>
BY DEF ArpAddrs, HeuristicAddrs, PriorityAddrs, RemainingHosts, HostIter,
       ArpTasks, HeuristicTasks, RawTasks, PriorityTasks, SweepTasks, TasksFor

\* No step changes the environment.
LEMMA EnvironmentFixed == [Next]_vars => UNCHANGED <<open, arp>>
BY DEF Next, ScanStep, ScanControl, TaskStep, vars, environment, Cancel, Reset,
       ArpBatch, NoArpBatch, HeuristicBatch, NoHeuristicBatch, StartPing,
       PingReplies, PingNobody, PingUnavailable, RawBatch, FullBatch, Exhausted,
       StopCancelled, SpawnTask, SpawnLoopEnds, AllJoined, BatchDone, EmitMatch,
       Acquire, FinishProbe, RunBatch, Proceed

\* A scan starts with nothing drawn from its lists.
LEMMA RouteInit == Init => RouteInv
BY DEF Init, RouteInv, BatchShape, DrawnInPhase, DrawnApart, Drawn

\* Each phase draws from its own list only, and no task a second time.
LEMMA RouteStep == TypeOK /\ RouteInv /\ [Next]_vars => RouteInv'
<1> SUFFICES ASSUME TypeOK, RouteInv, [Next]_vars PROVE RouteInv'
  OBVIOUS
<1>0. UNCHANGED <<ArpTasks, HeuristicTasks, RawTasks, PriorityTasks, SweepTasks>>
  BY EnvironmentFixed, ListsFixed
<1>a. /\ phase \in Phases
      /\ ArpTasks \subseteq PriorityTasks
      /\ HeuristicTasks \subseteq PriorityTasks
  BY DEF TypeOK, PriorityTasks
<1> USE <1>0, <1>a, SourcesApart
    DEF RouteInv, BatchShape, DrawnInPhase, DrawnApart, Drawn, Phases,
        environment, token, tasks
<1>1. CASE \/ UNCHANGED vars
           \/ Cancel \/ Reset
           \/ \E t \in got : EmitMatch(t)
           \/ \E t \in waiting : Acquire(t)
           \/ \E t \in probing : FinishProbe(t)
  <2>1. UNCHANGED <<phase, step, unswept, todo, spawned>>
    BY <1>1 DEF vars, Cancel, Reset, EmitMatch, Acquire, FinishProbe
  <2> QED BY <2>1
<1>2. CASE ArpBatch
  BY <1>2 DEF ArpBatch, RunBatch, ArpTasks
<1>3. CASE HeuristicBatch
  BY <1>3 DEF HeuristicBatch, RunBatch, HeuristicTasks
<1>4. CASE NoArpBatch \/ NoHeuristicBatch
  BY <1>4 DEF NoArpBatch, NoHeuristicBatch, Proceed
<1>5. CASE StartPing \/ PingNobody
  BY <1>5 DEF StartPing, PingNobody, Proceed
<1>6. CASE PingReplies
  <2>1. unswept' \subseteq RawTasks
    BY <1>6 DEF PingReplies, RawProbeTargets, RawTasks, TasksFor, Plan
  <2> QED BY <1>6, <2>1 DEF PingReplies, Proceed
<1>7. CASE PingUnavailable
  BY <1>7 DEF PingUnavailable, Proceed, Plan
<1>8. CASE RawBatch
  BY <1>8 DEF RawBatch, RunBatch
<1>9. CASE FullBatch
  BY <1>9 DEF FullBatch, RunBatch, LeftAfter
<1>10. CASE Exhausted \/ StopCancelled
  BY <1>10 DEF Exhausted, StopCancelled, Proceed
<1>11. CASE SpawnTask
  BY <1>11 DEF SpawnTask, SpawnLoopRuns
<1>12. CASE SpawnLoopEnds \/ AllJoined
  BY <1>12 DEF SpawnLoopEnds, AllJoined
<1>13. CASE BatchDone
  BY <1>13 DEF BatchDone, NextPhase
<1> QED
  BY <1>1, <1>2, <1>3, <1>4, <1>5, <1>6, <1>7, <1>8, <1>9, <1>10, <1>11, <1>12, <1>13
     DEF Next, ScanStep, ScanControl, TaskStep

----------------------------------------------------------------------------
(* Where the spawned tasks are, and the permits.                           *)

\* A spawned task waits, probes, or ended; the batch is empty when it is over.
TasksPlaced ==
  /\ waiting \union probing \union got \union matches \subseteq spawned
  /\ waiting \intersect probing = {}
  /\ step \in {"between", "emit"} => waiting = {} /\ probing = {}
  /\ step = "between" => got = {}

\* ConnectionCap in inductive form: Cardinality means nothing of an infinite set.
PermitsConserved == IsFiniteSet(probing) /\ ConnectionCap

TaskInv == TasksPlaced /\ PermitsConserved

\* A scan starts without tasks and with every permit.
LEMMA TaskInit == Init => TaskInv
<1> SUFFICES ASSUME Init PROVE TaskInv
  OBVIOUS
<1>1. TasksPlaced
  BY DEF Init, TasksPlaced
<1>2. PermitsConserved
  BY FS_EmptySet, ParameterAssumption DEF Init, PermitsConserved, ConnectionCap
<1> QED BY <1>1, <1>2 DEF TaskInv

\* A spawned task is waiting, connected, joined or done: the join loop of
\* run_batch leaves none behind.
LEMMA TaskStepPlaced ==
  TypeOK /\ RouteInv /\ TaskInv /\ [Next]_vars => TasksPlaced'
<1> SUFFICES ASSUME TypeOK, RouteInv, TaskInv, [Next]_vars PROVE TasksPlaced'
  OBVIOUS
<1> USE DEF TaskInv, TasksPlaced, environment, token, tasks
<1>1. CASE UNCHANGED vars \/ Cancel \/ Reset
  BY <1>1 DEF vars, Cancel, Reset
<1>2. CASE ArpBatch \/ HeuristicBatch \/ RawBatch \/ FullBatch
  BY <1>2 DEF ArpBatch, HeuristicBatch, RawBatch, FullBatch, RunBatch
<1>3. CASE \/ NoArpBatch \/ NoHeuristicBatch \/ StartPing \/ PingReplies
           \/ PingNobody \/ PingUnavailable \/ Exhausted \/ StopCancelled
  BY <1>3 DEF NoArpBatch, NoHeuristicBatch, StartPing, PingReplies, PingNobody,
              PingUnavailable, Exhausted, StopCancelled, Proceed
<1>4. CASE SpawnTask
  BY <1>4 DEF SpawnTask, RouteInv, DrawnApart
<1>5. CASE SpawnLoopEnds
  BY <1>5 DEF SpawnLoopEnds
<1>6. CASE AllJoined
  BY <1>6 DEF AllJoined, NothingToJoin
<1>7. CASE BatchDone
  BY <1>7 DEF BatchDone
<1>8. ASSUME NEW t \in got, EmitMatch(t) PROVE TasksPlaced'
  BY <1>8 DEF EmitMatch, Push
<1>9. ASSUME NEW t \in waiting, Acquire(t) PROVE TasksPlaced'
  BY <1>9 DEF Acquire
<1>10. ASSUME NEW t \in probing, FinishProbe(t) PROVE TasksPlaced'
  BY <1>10 DEF FinishProbe
<1> QED
  BY <1>1, <1>2, <1>3, <1>4, <1>5, <1>6, <1>7, <1>8, <1>9, <1>10
     DEF Next, ScanStep, ScanControl, TaskStep

\* Acquiring and dropping permits conserves them.
LEMMA TaskStepPermits ==
  TypeOK /\ TaskInv /\ [Next]_vars => PermitsConserved'
<1> SUFFICES ASSUME TypeOK, TaskInv, [Next]_vars PROVE PermitsConserved'
  OBVIOUS
<1> USE DEF TaskInv, PermitsConserved, ConnectionCap
<1>1. ASSUME NEW t \in waiting, Acquire(t) PROVE PermitsConserved'
  <2>1. t \notin probing
    BY DEF TasksPlaced
  <2>2. IsFiniteSet(probing') /\ Cardinality(probing') = Cardinality(probing) + 1
    BY <1>1, <2>1, FS_AddElement DEF Acquire
  <2>3. Cardinality(probing) \in Nat
    BY FS_CardinalityType
  <2> QED BY <1>1, <2>2, <2>3 DEF Acquire, HasPermit, TypeOK
<1>2. ASSUME NEW t \in probing, FinishProbe(t) PROVE PermitsConserved'
  <2>1. IsFiniteSet(probing') /\ Cardinality(probing') = Cardinality(probing) - 1
    BY <1>2, FS_RemoveElement DEF FinishProbe
  <2>2. Cardinality(probing) \in Nat
    BY FS_CardinalityType
  <2> QED BY <1>2, <2>1, <2>2 DEF FinishProbe, PermitsAfter, TypeOK
<1>3. CASE UNCHANGED <<probing, permits>>
  BY <1>3
<1>4. \/ UNCHANGED <<probing, permits>>
      \/ \E t \in waiting : Acquire(t)
      \/ \E t \in probing : FinishProbe(t)
  BY DEF Next, ScanStep, ScanControl, TaskStep, vars, tasks, Cancel, Reset,
         ArpBatch, NoArpBatch, HeuristicBatch, NoHeuristicBatch, StartPing,
         PingReplies, PingNobody, PingUnavailable, RawBatch, FullBatch, Exhausted,
         StopCancelled, SpawnTask, SpawnLoopEnds, AllJoined, BatchDone, EmitMatch,
         RunBatch, Proceed
<1> QED BY <1>1, <1>2, <1>3, <1>4

----------------------------------------------------------------------------
(* Nobody is missed.                                                       *)

\* A spawned task whose address answers is on its way to the matches.
AnswersKept ==
  \A t \in spawned :
    t.addr \in open => t \in waiting \union probing \union got \union matches

\* What a scan whose token was never set has drawn, phase by phase.
ListsDrawn ==
  ~everCancelled =>
    /\ phase = "arp_cache" /\ step # "between" => ArpTasks \subseteq spawned \union todo
    /\ phase # "arp_cache" => ArpTasks \subseteq spawned
    /\ phase = "heuristic" /\ step # "between" => HeuristicTasks \subseteq spawned \union todo
    /\ phase \notin {"arp_cache", "heuristic"} => HeuristicTasks \subseteq spawned
    /\ phase = "full" => SweepTasks \subseteq Drawn
    /\ planned \subseteq Drawn

CoverInv == (cancelled => everCancelled) /\ AnswersKept /\ ListsDrawn

\* Nothing is owed to a scan that has not started.
LEMMA CoverInit == Init => CoverInv
BY DEF Init, CoverInv, AnswersKept, ListsDrawn, Drawn

\* A spawned task whose address answers is on its way to the matches.
LEMMA CoverStepAnswers ==
  CoverInv /\ [Next]_vars => AnswersKept'
<1> SUFFICES ASSUME CoverInv, [Next]_vars PROVE AnswersKept'
  OBVIOUS
<1> USE EnvironmentFixed DEF CoverInv, AnswersKept
<1>1. CASE SpawnTask
  BY <1>1 DEF SpawnTask
<1>2. ASSUME NEW t \in got, EmitMatch(t) PROVE AnswersKept'
  BY <1>2 DEF EmitMatch, Push
<1>3. ASSUME NEW t \in waiting, Acquire(t) PROVE AnswersKept'
  BY <1>3 DEF Acquire
<1>4. ASSUME NEW t \in probing, FinishProbe(t) PROVE AnswersKept'
  BY <1>4 DEF FinishProbe
<1>5. CASE UNCHANGED <<spawned, waiting, probing, got, matches>>
  BY <1>5
<1>6. \/ UNCHANGED <<spawned, waiting, probing, got, matches>>
      \/ SpawnTask
      \/ \E t \in got : EmitMatch(t)
      \/ \E t \in waiting : Acquire(t)
      \/ \E t \in probing : FinishProbe(t)
  BY DEF Next, ScanStep, ScanControl, TaskStep, vars, tasks, Cancel, Reset,
         ArpBatch, NoArpBatch, HeuristicBatch, NoHeuristicBatch, StartPing,
         PingReplies, PingNobody, PingUnavailable, RawBatch, FullBatch, Exhausted,
         StopCancelled, SpawnLoopEnds, AllJoined, BatchDone, RunBatch, Proceed
<1> QED BY <1>1, <1>2, <1>3, <1>4, <1>5, <1>6

\* An undisturbed scan has drawn the whole list of every phase it passed.
LEMMA CoverStepLists ==
  TypeOK /\ RouteInv /\ CoverInv /\ [Next]_vars =>
    (cancelled' => everCancelled') /\ ListsDrawn'
<1> SUFFICES ASSUME TypeOK, RouteInv, CoverInv, [Next]_vars
             PROVE  (cancelled' => everCancelled') /\ ListsDrawn'
  OBVIOUS
<1>0. UNCHANGED <<ArpTasks, HeuristicTasks, SweepTasks>>
  BY EnvironmentFixed, ListsFixed
<1>a. phase \in Phases
  BY DEF TypeOK
<1> USE <1>0, <1>a
    DEF CoverInv, ListsDrawn, RouteInv, BatchShape, Drawn, Phases,
        environment, token, tasks
<1>1. CASE \/ UNCHANGED vars
           \/ Cancel \/ Reset
           \/ \E t \in got : EmitMatch(t)
           \/ \E t \in waiting : Acquire(t)
           \/ \E t \in probing : FinishProbe(t)
  <2>1. /\ UNCHANGED <<phase, step, unswept, todo, planned, spawned>>
        /\ everCancelled => everCancelled'
        /\ cancelled' => everCancelled'
    BY <1>1 DEF vars, Cancel, Reset, EmitMatch, Acquire, FinishProbe
  <2> QED BY <2>1
<1>2. CASE ArpBatch
  BY <1>2 DEF ArpBatch, RunBatch, ArpTasks
<1>3. CASE HeuristicBatch
  BY <1>3 DEF HeuristicBatch, RunBatch, HeuristicTasks
<1>4. CASE NoArpBatch
  <2>1. ArpTasks = {}
    BY <1>4 DEF NoArpBatch, ArpTasks, TasksFor
  <2> QED BY <1>4, <2>1 DEF NoArpBatch, Proceed
<1>5. CASE NoHeuristicBatch
  <2>1. HeuristicTasks = {}
    BY <1>5 DEF NoHeuristicBatch, HeuristicTasks, TasksFor
  <2> QED BY <1>5, <2>1 DEF NoHeuristicBatch, Proceed
<1>6. CASE StartPing \/ PingNobody \/ Exhausted
  BY <1>6 DEF StartPing, PingNobody, Exhausted, Proceed
<1>7. CASE PingReplies \/ PingUnavailable
  <2>1. unswept = {}
    BY <1>7 DEF PingReplies, PingUnavailable, DrawnInPhase
  <2>2. /\ planned' = planned \union unswept'
        /\ UNCHANGED <<step, todo, spawned, cancelled, everCancelled>>
        /\ phase = "pinging" /\ phase' \in {"raw", "full"}
        /\ phase' = "full" => unswept' = SweepTasks
    BY <1>7 DEF PingReplies, PingUnavailable, Proceed, Plan
  <2>3. ~everCancelled => planned \subseteq spawned \union todo
    BY <2>1
  <2>4. ~everCancelled' => planned' \subseteq Drawn'
    BY ONLY <2>2, <2>3 DEF Drawn
  <2>5. ~everCancelled' => ArpTasks' \subseteq spawned' /\ HeuristicTasks' \subseteq spawned'
    BY <2>2
  <2>6. (cancelled' => everCancelled') /\ (phase' = "full" => SweepTasks' \subseteq Drawn')
    BY <2>2
  <2> QED BY ONLY <2>2, <2>4, <2>5, <2>6 DEF ListsDrawn
<1>8. CASE StopCancelled
  BY <1>8 DEF StopCancelled, Proceed
<1>9. CASE RawBatch
  BY <1>9 DEF RawBatch, RunBatch
<1>10. CASE FullBatch
  BY <1>10 DEF FullBatch, RunBatch, LeftAfter
<1>11. CASE SpawnTask
  BY <1>11 DEF SpawnTask
<1>12. CASE SpawnLoopEnds
  BY <1>12 DEF SpawnLoopEnds, SpawnLoopRuns
<1>13. CASE AllJoined
  BY <1>13 DEF AllJoined
<1>14. CASE BatchDone
  BY <1>14 DEF BatchDone, NextPhase
<1> QED
  BY <1>1, <1>2, <1>3, <1>4, <1>5, <1>6, <1>7, <1>8, <1>9, <1>10, <1>11, <1>12,
     <1>13, <1>14
     DEF Next, ScanStep, ScanControl, TaskStep

----------------------------------------------------------------------------
(* The inductive invariant, and what follows from it.                      *)

IInv == TypeOK /\ RouteInv /\ TaskInv /\ CoverInv

\* The four layers together hold in every reachable state.
THEOREM Inductive == Spec => []IInv
<1>1. Init => IInv
  BY TypeInit, RouteInit, TaskInit, CoverInit DEF IInv
<1>2. IInv /\ [Next]_vars => IInv'
  BY TypeStep, RouteStep, TaskStepPlaced, TaskStepPermits, CoverStepAnswers,
     CoverStepLists
     DEF IInv, TaskInv, CoverInv
<1> QED BY <1>1, <1>2, PTL DEF Spec

\* max_concurrent caps the live connections of the whole scan: the permits are
\* conserved across every phase and batch.
THEOREM ConnectionCapHolds == Spec => []ConnectionCap
<1>1. IInv => ConnectionCap
  BY DEF IInv, TaskInv, PermitsConserved
<1> QED BY <1>1, Inductive, PTL

\* The permit bound in the words of scan.rs:460: never more than
\* max_concurrent connections are alive.
THEOREM AtMostMaxConcurrent == Spec => [](Cardinality(probing) <= MaxConcurrent)
<1>1. IInv => Cardinality(probing) <= MaxConcurrent
  <2> SUFFICES ASSUME IInv PROVE Cardinality(probing) <= MaxConcurrent
    OBVIOUS
  <2>1. Cardinality(probing) \in Nat
    BY FS_CardinalityType DEF IInv, TaskInv, PermitsConserved
  <2> QED BY <2>1, ParameterAssumption
          DEF IInv, TypeOK, TaskInv, PermitsConserved, ConnectionCap
<1> QED BY <1>1, Inductive, PTL

\* A scan that returned left no task, no connection and no missing permit.
THEOREM QuietWhenDoneHolds == Spec => []QuietWhenDone
<1>1. IInv => QuietWhenDone
  <2> SUFFICES ASSUME IInv, phase = "done" PROVE QuietWhenDone
    BY DEF QuietWhenDone
  <2>1. waiting = {} /\ probing = {} /\ got = {}
    BY DEF IInv, RouteInv, BatchShape, TaskInv, TasksPlaced
  <2>2. permits = MaxConcurrent
    BY <2>1, FS_EmptySet, ParameterAssumption
       DEF IInv, TypeOK, TaskInv, PermitsConserved, ConnectionCap
  <2> QED BY <2>1, <2>2 DEF QuietWhenDone
<1> QED BY <1>1, Inductive, PTL

\* Of two tasks with one address both are of the full sweep, of two subnets.
LEMMA SameAddress ==
  ASSUME Strays = {}, NEW D,
         \/ D \subseteq PriorityTasks \union RawTasks
         \/ D \subseteq PriorityTasks \union SweepTasks,
         NEW s \in D, NEW t \in D, s.addr = t.addr, s # t
  PROVE  /\ s \in SweepTasks /\ t \in SweepTasks /\ s.net # t.net
<1>1. \A u, v \in PriorityTasks \union RawTasks : u.addr = v.addr => u = v
  BY DEF PriorityTasks, ArpTasks, HeuristicTasks, RawTasks, TasksFor,
         HeuristicAddrs, PriorityAddrs, RemainingHosts
<1>2. \A u \in PriorityTasks, v \in SweepTasks : u.addr # v.addr
  BY DEF PriorityTasks, ArpTasks, HeuristicTasks, TasksFor, SweepTasks, PriorityAddrs
<1>3. s \in SweepTasks /\ t \in SweepTasks
  BY <1>1, <1>2
<1>4. s.net # t.net
  BY <1>3 DEF SweepTasks, HostIter
<1> QED BY <1>3, <1>4

\* The priority lists and the sweep that follows share no address, and the
\* sweep of disjoint subnets repeats none.
LEMMA DrawnAddressesDistinct ==
  ASSUME DisjointNets, Strays = {}, RouteInv, phase \in Phases
  PROVE  \A s, t \in Drawn : s.addr = t.addr => s = t
<1> SUFFICES ASSUME NEW s \in Drawn, NEW t \in Drawn, s.addr = t.addr, s # t PROVE FALSE
  OBVIOUS
<1>1. \/ Drawn \subseteq PriorityTasks \union RawTasks
      \/ Drawn \subseteq PriorityTasks \union SweepTasks
  BY DEF RouteInv, DrawnInPhase, Phases
<1>2. s \in SweepTasks /\ t \in SweepTasks /\ s.net # t.net
  BY <1>1, SameAddress
<1> QED BY <1>2 DEF SweepTasks, HostIter, DisjointNets

\* No address is probed twice in a scan, whatever the subnets, ports, ARP
\* cache and route, as long as the subnets are disjoint and no other ping
\* sweep of the process interferes.
THEOREM ProbedOnceHolds == Spec => []ProbedOnce
<1>1. IInv => ProbedOnce
  BY DrawnAddressesDistinct
     DEF IInv, TypeOK, ProbedOnce, RouteInv, DrawnApart, Drawn
<1> QED BY <1>1, Inductive, PTL

\* Without interference no address outside the subnets is contacted.
THEOREM WithinSubnetsHolds ==
  ASSUME Strays = {}
  PROVE  Spec => []WithinSubnets
<1>1. IInv => WithinSubnets
  <2>1. \A t \in PriorityTasks \union RawTasks \union SweepTasks :
          \E n \in Nets : t.addr[1] \in Covers[n]
    BY HostsAssumption
       DEF PriorityTasks, ArpTasks, HeuristicTasks, RawTasks, SweepTasks, HostIter,
           TasksFor, ArpAddrs, HeuristicAddrs, RemainingHosts
  <2> QED BY <2>1 DEF IInv, TypeOK, Phases, WithinSubnets, RouteInv, DrawnInPhase, Drawn
<1> QED BY <1>1, Inductive, PTL

\* An undisturbed scan has a match of every task of its lists that it is done
\* with and that answers, whatever the route; it misses no priority address, and
\* an undisturbed full sweep no address at all.
THEOREM CompleteHolds == Spec => []Complete
<1>1. IInv => Complete
  <2> SUFFICES ASSUME IInv, ~everCancelled, step = "between" PROVE Complete
    BY DEF Complete
  <2>1. \A t \in spawned : t.addr \in open => t \in matches
    BY DEF IInv, CoverInv, AnswersKept, TaskInv, TasksPlaced
  <2>2. ASSUME phase \in {"ping", "pinging", "raw", "full", "done"},
               NEW a \in PriorityAddrs \intersect open
        PROVE  \E t \in matches : t.addr = a
    <3>1. PriorityTasks \subseteq spawned
      BY <2>2 DEF IInv, CoverInv, ListsDrawn, PriorityTasks
    <3>2. \E t \in PriorityTasks : t.addr = a
      <4>1. CASE a \in ArpAddrs
        <5>1. [src |-> "arp_cache", net |-> NoNet, addr |-> a] \in PriorityTasks
          BY <4>1 DEF PriorityTasks, ArpTasks, TasksFor
        <5> QED BY <5>1
      <4>2. CASE a \in HeuristicAddrs
        <5>1. [src |-> "heuristic", net |-> NoNet, addr |-> a] \in PriorityTasks
          BY <4>2 DEF PriorityTasks, HeuristicTasks, TasksFor
        <5> QED BY <5>1
      <4> QED BY <2>2, <4>1, <4>2 DEF PriorityAddrs
    <3> QED BY <2>1, <2>2, <3>1, <3>2
  <2>3. ASSUME phase = "full", unswept = {}, NEW n \in Nets,
               NEW a \in (HostsOf[n] \X Ports) \intersect open
        PROVE  \E t \in matches : t.addr = a
    <3>1. CASE a \in PriorityAddrs
      BY <2>2, <2>3, <3>1
    <3>2. CASE a \notin PriorityAddrs
      <4>1. [src |-> "full", net |-> n, addr |-> a] \in SweepTasks
        BY <2>3, <3>2, HostsAssumption DEF SweepTasks, HostIter, Addr
      <4>2. SweepTasks \subseteq spawned
        BY <2>3 DEF IInv, CoverInv, ListsDrawn, RouteInv, BatchShape, Drawn
      <4> QED BY <2>1, <2>3, <4>1, <4>2
    <3> QED BY <3>1, <3>2
  <2>4. \A t \in planned \ unswept : t.addr \in open => t \in matches
    <3>1. todo = {} /\ planned \subseteq Drawn
      BY DEF IInv, CoverInv, ListsDrawn, RouteInv, BatchShape
    <3> QED BY <2>1, <3>1 DEF Drawn
  <2> QED BY <2>2, <2>3, <2>4 DEF Complete
<1> QED BY <1>1, Inductive, PTL

----------------------------------------------------------------------------
(* Addresses and subnets.                                                  *)

\* Rounding down to a multiple.
LEMMA RoundDown ==
  ASSUME NEW a \in Nat, NEW b \in Nat \ {0}
  PROVE  /\ (a \div b) \in Nat
         /\ (a \div b) * b \in Nat
         /\ (a \div b) * b <= a
         /\ a <= (a \div b) * b + b - 1
OBVIOUS

\* A multiple is rounded to itself.
LEMMA RoundMultiple ==
  ASSUME NEW q \in Nat, NEW b \in Nat \ {0}
  PROVE  (q * b) \div b = q
OBVIOUS

\* Two multiples less than b apart are the same.
LEMMA MultiplesApart ==
  ASSUME NEW q \in Nat, NEW r \in Nat, NEW b \in Nat \ {0},
         r * b <= q * b, q * b <= r * b + b - 1
  PROVE  q = r
OBVIOUS

\* A block is not empty.
LEMMA BlockType ==
  ASSUME NEW net, net.prefix \in 0..Bits
  PROVE  Block(net) \in Nat \ {0}
<1>1. Bits - net.prefix \in 0..Bits
  BY AddressAssumption
<1> QED
  BY <1>1, AddressAssumption DEF Block

\* The network of an address contains it, and is its own network.
LEMMA NetworkHolds ==
  ASSUME NEW net, net.address \in Nat, net.prefix \in 0..Bits
  PROVE  /\ Network(net) \in Nat
         /\ net.address \in Network(net)..(Network(net) + Block(net) - 1)
<1> DEFINE size == Block(net)
<1>1. size \in Nat \ {0}
  BY BlockType
<1>2. Network(net) = (net.address \div size) * size
  BY DEF Network
<1> HIDE DEF size
<1>3. /\ (net.address \div size) * size \in Nat
      /\ (net.address \div size) * size <= net.address
      /\ net.address <= (net.address \div size) * size + size - 1
  BY <1>1, RoundDown
<1>4. net.address \in Network(net)..(Network(net) + size - 1) /\ Network(net) \in Nat
  BY <1>1, <1>2, <1>3
<1> QED
  BY <1>4 DEF size

\* What local_subnets makes of an interface: a subnet of the interface's
\* network, no wider than asked for, at its network's address.
LEMMA CidrRight ==
  ASSUME NEW i \in Interface, Eligible(i), max_prefix \in 0..Bits
  PROVE  /\ Cidr(i) \in Subnet
         /\ Cidr(i).family = "v4"
         /\ Cidr(i).prefix \in max_prefix..Bits
         /\ i.prefix <= Cidr(i).prefix
         /\ Cidr(i).address = Network(Cidr(i))
         /\ InNet(i.ip, Cidr(i))
<1> DEFINE width == IF i.prefix < max_prefix THEN max_prefix ELSE i.prefix
           net == [family |-> "v4", address |-> i.ip[2], prefix |-> width]
           base == i.ip[2] \div Block(net)
<1>1. i.prefix \in 0..Bits /\ i.ip[2] \in Nat /\ i.ip[1] = "v4"
  BY DEF Eligible, Interface, Families
<1>2. width \in max_prefix..Bits /\ i.prefix <= width /\ width \in 0..Bits
  BY <1>1, AddressAssumption
<1>3. net.address \in Nat /\ net.prefix \in 0..Bits
  BY <1>1, <1>2
<1>4. Network(net) \in Nat /\ i.ip[2] \in Network(net)..(Network(net) + Block(net) - 1)
  BY <1>3, NetworkHolds
<1>5. Cidr(i) = [family |-> "v4", address |-> Network(net), prefix |-> width]
  BY DEF Cidr
<1>6. Block(Cidr(i)) = Block(net) /\ Block(net) \in Nat \ {0}
  BY <1>3, <1>5, BlockType DEF Block
<1>7. Network(Cidr(i)) = Network(net)
  <2>1. base \in Nat /\ Network(net) = base * Block(net)
    BY <1>1, <1>6, RoundDown DEF Network
  <2>2. Network(net) \div Block(net) = base
    BY <2>1, <1>6, RoundMultiple
  <2> QED
    BY <2>1, <2>2, <1>5, <1>6 DEF Network
<1>8. InNet(i.ip, Cidr(i))
  BY <1>1, <1>4, <1>5, <1>6, <1>7 DEF InNet
<1> QED
  BY <1>2, <1>4, <1>5, <1>7, <1>8 DEF Subnet, Families

\* Two subnets of one width at their networks' addresses are the same or
\* do not meet.
LEMMA SameWidth ==
  ASSUME NEW a \in Subnet, NEW b \in Subnet, a.family = "v4", b.family = "v4",
         a.prefix = b.prefix, a.address = Network(a), b.address = Network(b),
         InNet(<<"v4", a.address>>, b)
  PROVE  a = b
<1> DEFINE q == a.address \div Block(a)
           r == b.address \div Block(b)
<1>1. a.prefix \in 0..Bits /\ b.prefix \in 0..Bits /\ a.address \in Nat /\ b.address \in Nat
  BY DEF Subnet
<1>2. Block(a) = Block(b) /\ Block(b) \in Nat \ {0}
  BY <1>1, BlockType DEF Block
<1>3. q \in Nat /\ r \in Nat
  BY <1>1, <1>2, RoundDown
<1>4. a.address = q * Block(b) /\ b.address = r * Block(b)
  BY <1>2 DEF Network
<1>5. r * Block(b) <= q * Block(b) /\ q * Block(b) <= r * Block(b) + Block(b) - 1
  BY <1>1, <1>2, <1>4 DEF InNet
<1>6. q = r
  BY <1>2, <1>3, <1>5, MultiplesApart
<1> QED
  BY <1>4, <1>6 DEF Subnet

\* The hosts of a subnet are addresses in it.
LEMMA HostsInNet ==
  ASSUME NEW net \in Subnet, NEW host \in HostsIn(net)
  PROVE  InNet(host, net)
<1>1. net.prefix \in 0..Bits /\ net.address \in Nat
  BY DEF Subnet
<1>2. Block(net) \in Nat \ {0} /\ Network(net) \in Nat
  BY <1>1, BlockType, NetworkHolds
<1> QED
  BY <1>2 DEF HostsIn, InNet

\* Appending what is not there yet.
LEMMA AppendNew ==
  ASSUME NEW S, NEW s \in Seq(S), NEW x \in S
  PROVE  /\ Append(s, x) \in Seq(S)
         /\ ToSet(Append(s, x)) = ToSet(s) \union {x}
         /\ IsInjective(s) /\ ~Contains(s, x) => IsInjective(Append(s, x))
<1>1. DOMAIN Append(s, x) = 1..(Len(s) + 1) /\ DOMAIN s = 1..Len(s) /\ Len(s) \in Nat
  OBVIOUS
<1>2. Append(s, x)[Len(s) + 1] = x /\ \A k \in 1..Len(s) : Append(s, x)[k] = s[k]
  OBVIOUS
<1>3. ToSet(Append(s, x)) = ToSet(s) \union {x}
  BY <1>1, <1>2 DEF ToSet
<1>4. IsInjective(s) /\ ~Contains(s, x) => IsInjective(Append(s, x))
  BY <1>1, <1>2 DEF IsInjective, Contains
<1> QED
  BY <1>3, <1>4

\* A sequence contains the elements of its set.
LEMMA ContainsIsIn ==
  ASSUME NEW S, NEW s \in Seq(S), NEW x
  PROVE  Contains(s, x) <=> x \in ToSet(s)
BY DEF Contains, ToSet

----------------------------------------------------------------------------
(* The plan: the inductive invariant.                                      *)

SocketAddr == (Families \X Nat) \X ToSet(PortList)

\* Where the plan still works on its subnets and the ARP cache.
Early == {"subnets", "interfaces", "failed", "arp", "fetch", "rows"}

\* Types, and which rounds may be to come in which loop.
PlanTypeOK ==
  /\ pc \in Early \union {"arp_addrs", "heuristic", "planned"}
  /\ interfaces \in Seq(Interface) /\ max_prefix \in Nat
  /\ nets \in Seq(Subnet)
  /\ platform \in {"linux", "macos", "windows"}
  /\ table \in Seq(Entry) /\ buffer \in Seq(Entry) /\ cache \in Seq(Entry)
  /\ needed \in Nat
  /\ arp_addrs \in Seq(SocketAddr) /\ heuristic_addrs \in Seq(SocketAddr)
  /\ pc \in {"subnets", "arp", "fetch"} => unseen = {}
  /\ pc = "interfaces" => unseen \subseteq Rounds(interfaces)
  /\ pc = "rows" => unseen \subseteq Rounds(buffer)
  /\ pc = "arp_addrs" => unseen \subseteq ArpRounds
  /\ pc = "heuristic" => unseen \subseteq HeuristicRounds

\* local_subnets: a subnet for every interface looked at, once, and no other.
SubnetsSoFar ==
  /\ pc = "subnets" /\ nets # <<>> => interfaces = <<>>
  /\ pc = "interfaces" =>
       /\ max_prefix \in 0..Bits
       /\ IsInjective(nets)
       /\ \A net \in ToSet(nets) : \E i \in DOMAIN interfaces :
            Eligible(interfaces[i]) /\ net = Cidr(interfaces[i])
       /\ \A i \in DOMAIN interfaces :
            <<i>> \notin unseen /\ Eligible(interfaces[i]) => Cidr(interfaces[i]) \in ToSet(nets)

\* The rows of the buffer that were looked at and kept.
KeptRows == {k \in DOMAIN buffer : <<k>> \notin unseen /\ ArpCacheHost(platform, buffer[k])}

\* arp_cache_hosts: the rows kept so far, one for one.
CacheSoFar ==
  /\ pc = "fetch" => platform = "macos"
  /\ pc \in Early \ {"rows"} => table = <<>> /\ buffer = <<>> /\ cache = <<>>
  /\ pc = "rows" =>
       /\ buffer = IF platform = "macos" THEN Fetched(table) ELSE table
       /\ ToSet(cache) = {buffer[k] : k \in KeptRows}
       /\ Len(cache) = Cardinality(KeptRows)

\* The ARP list: every cached host of a subnet that was looked at, once.
ArpListSoFar ==
  /\ pc \in Early => arp_addrs = <<>>
  /\ IsInjective(arp_addrs)
  /\ \A addr \in ToSet(arp_addrs) : \E c \in ArpRounds : IsArp(c) /\ addr = ArpAddr(c)
  /\ pc \notin Early =>
       \A c \in ArpRounds : IsArp(c) =>
         ArpAddr(c) \in ToSet(arp_addrs) \/ (pc = "arp_addrs" /\ c \in unseen)

\* The heuristic list: every common address looked at, in one of the lists, once.
HeuristicListSoFar ==
  /\ pc \in Early \union {"arp_addrs"} => heuristic_addrs = <<>>
  /\ IsInjective(heuristic_addrs)
  /\ ToSet(arp_addrs) \intersect ToSet(heuristic_addrs) = {}
  /\ \A addr \in ToSet(heuristic_addrs) :
       \E c \in HeuristicRounds : IsHeuristic(c) /\ addr = HeuristicAddr(c)
  /\ pc \in {"heuristic", "planned"} =>
       \A c \in HeuristicRounds : IsHeuristic(c) =>
         HeuristicAddr(c) \in Priority \/ (pc = "heuristic" /\ c \in unseen)

\* The sweep filters with the finished lists.
SweepPlanned == pc = "planned" => remaining_ips = RemainingIps /\ full = FullSweep

PlanInv ==
  /\ PlanTypeOK /\ SubnetsSoFar /\ CacheSoFar /\ ArpListSoFar /\ HeuristicListSoFar
  /\ SweepPlanned

\* The plan starts within the invariant.
LEMMA PlanInvInit == PlanInit => PlanInv
<1> SUFFICES ASSUME PlanInit PROVE PlanInv
  OBVIOUS
<1> USE DEF PlanInit
<1>1. PlanTypeOK
  BY PlanAssumption DEF PlanTypeOK, Early
<1>2. SubnetsSoFar /\ SweepPlanned
  BY DEF SubnetsSoFar, SweepPlanned
<1>3. CacheSoFar
  BY DEF CacheSoFar
<1>4. ToSet(<<>>) = {} /\ IsInjective(<<>>)
  BY DEF ToSet, IsInjective
<1>5. ArpListSoFar /\ HeuristicListSoFar
  BY <1>4 DEF ArpListSoFar, HeuristicListSoFar, Early
<1> QED
  BY <1>1, <1>2, <1>3, <1>5 DEF PlanInv

\* The addresses of both lists are socket addresses.
LEMMA AddrTypes ==
  ASSUME PlanTypeOK
  PROVE  /\ \A c \in ArpRounds : ArpAddr(c) \in SocketAddr
         /\ \A c \in HeuristicRounds : HeuristicAddr(c) \in SocketAddr
<1>1. ASSUME NEW c \in ArpRounds PROVE ArpAddr(c) \in SocketAddr
  <2>1. PICK k \in DOMAIN cache, j \in DOMAIN PortList : c = <<k, j>>
    BY <1>1 DEF ArpRounds
  <2>2. cache[k] \in Entry /\ PortList[j] \in ToSet(PortList)
    BY DEF PlanTypeOK, ToSet
  <2> QED
    BY <2>1, <2>2 DEF ArpAddr, SocketAddr, Entry, Families
<1>2. ASSUME NEW c \in HeuristicRounds PROVE HeuristicAddr(c) \in SocketAddr
  <2> DEFINE net == nets[c[1]]
             octet == PriorityLastOctets[c[2]]
             size == 2^OctetBits
             base == (Network(net) \div size) * size
  <2>1. net \in Subnet /\ octet \in Nat /\ PortList[c[3]] \in ToSet(PortList)
    <3>1. /\ c[1] \in DOMAIN nets /\ c[2] \in DOMAIN PriorityLastOctets
          /\ c[3] \in DOMAIN PortList
      BY <1>2 DEF HeuristicRounds
    <3>2. nets \in Seq(Subnet) /\ PriorityLastOctets \in Seq(Nat)
      BY PlanAssumption DEF PlanTypeOK
    <3>3. net \in Subnet
      BY ONLY <3>1, <3>2
    <3>4. octet \in Nat
      BY ONLY <3>1, <3>2
    <3> QED BY <3>1, <3>3, <3>4 DEF ToSet
  <2>2. Network(net) \in Nat
    BY <2>1, NetworkHolds DEF Subnet
  <2>3. size \in Nat \ {0}
    BY AddressAssumption
  <2>4. base \in Nat
    <3> HIDE DEF net, size
    <3> QED BY <2>2, <2>3, RoundDown
  <2>5. base + octet \in Nat
    BY <2>1, <2>4
  <2>6. HeuristicAddr(c) = <<<<"v4", base + octet>>, PortList[c[3]]>>
    BY DEF HeuristicAddr
  <2> QED
    BY <2>1, <2>5, <2>6 DEF SocketAddr, Families
<1> QED
  BY <1>1, <1>2

\* Every step keeps the types.
LEMMA PlanTypeStep ==
  ASSUME PlanInv, [PlanNext]_planVars
  PROVE  PlanTypeOK'
<1> USE DEF PlanInv, PlanTypeOK, local, reader, lists, plan
<1>1. CASE TakeSubnets
  BY <1>1 DEF TakeSubnets, SubnetsSoFar, Early, Rounds
<1>2. CASE NextInterface
  <2>1. PICK c \in unseen :
          /\ unseen' = unseen \ {c}
          /\ nets' = IF Eligible(interfaces[c[1]]) /\ ~Contains(nets, Cidr(interfaces[c[1]]))
                       THEN Append(nets, Cidr(interfaces[c[1]])) ELSE nets
    BY <1>2 DEF NextInterface
  <2>2. interfaces[c[1]] \in Interface /\ max_prefix \in 0..Bits
    BY <1>2 DEF NextInterface, Rounds, SubnetsSoFar
  <2>3. nets' \in Seq(Subnet)
    BY <2>1, <2>2, CidrRight
  <2>4. UNCHANGED <<pc, local, platform, reader, cache, lists, plan>> /\ pc = "interfaces"
    BY <1>2 DEF NextInterface
  <2> QED
    BY <2>1, <2>3, <2>4 DEF Rounds, Early
<1>3. CASE LocalSubnetsReturns
  BY <1>3 DEF LocalSubnetsReturns, Early
<1>4. CASE SkipArp
  BY <1>4 DEF SkipArp, Early, HeuristicRounds
<1>5. CASE ReadTable
  BY <1>5, PlanAssumption DEF ReadTable, Early, Rounds
<1>6. CASE SizeTable
  BY <1>6, PlanAssumption DEF SizeTable, Early
<1>7. CASE FetchTable
  BY <1>7, PlanAssumption DEF FetchTable, Fetched, Early, Rounds
<1>8. CASE NextRow
  <2>1. PICK c \in unseen :
          /\ unseen' = unseen \ {c}
          /\ cache' = IF ArpCacheHost(platform, buffer[c[1]])
                        THEN Append(cache, buffer[c[1]]) ELSE cache
    BY <1>8 DEF NextRow
  <2>2. buffer[c[1]] \in Entry
    BY <1>8 DEF NextRow, Rounds
  <2>3. cache' \in Seq(Entry)
    BY <2>1, <2>2
  <2> QED
    BY <1>8, <2>1, <2>3 DEF NextRow, Rounds, Early
<1>9. CASE ArpCacheReturns
  BY <1>9 DEF ArpCacheReturns, Early, ArpRounds
<1>10. CASE NextArpAddr
  <2>1. PICK c \in unseen :
          /\ unseen' = unseen \ {c}
          /\ arp_addrs' = IF IsArp(c) /\ ~Contains(arp_addrs, ArpAddr(c))
                            THEN Append(arp_addrs, ArpAddr(c)) ELSE arp_addrs
    BY <1>10 DEF NextArpAddr
  <2>2. arp_addrs' \in Seq(SocketAddr)
    BY <1>10, <2>1, AddrTypes DEF NextArpAddr
  <2> QED
    BY <1>10, <2>1, <2>2 DEF NextArpAddr, ArpRounds, Early
<1>11. CASE ArpAddrsDone
  BY <1>11 DEF ArpAddrsDone, Early, HeuristicRounds
<1>12. CASE NextHeuristicAddr
  <2>1. PICK c \in unseen :
          /\ unseen' = unseen \ {c}
          /\ heuristic_addrs' \in {heuristic_addrs, Append(heuristic_addrs, HeuristicAddr(c))}
    BY <1>12 DEF NextHeuristicAddr
  <2>2. heuristic_addrs' \in Seq(SocketAddr)
    BY <1>12, <2>1, AddrTypes DEF NextHeuristicAddr
  <2> QED
    BY <1>12, <2>1, <2>2 DEF NextHeuristicAddr, HeuristicRounds, Early
<1>13. CASE PlanSweep
  BY <1>13 DEF PlanSweep, Early
<1>14. CASE UNCHANGED planVars
  BY <1>14 DEF planVars, Rounds, ArpRounds, HeuristicRounds
<1> QED
  BY <1>1, <1>2, <1>3, <1>4, <1>5, <1>6, <1>7, <1>8, <1>9, <1>10, <1>11, <1>12, <1>13,
     <1>14 DEF PlanNext

\* local_subnets: a round adds the subnet of its interface unless it is there.
LEMMA SubnetsStep ==
  ASSUME PlanInv, [PlanNext]_planVars
  PROVE  SubnetsSoFar'
<1>1. CASE TakeSubnets
  <2>1. pc' # "subnets"
    BY <1>1 DEF TakeSubnets
  <2>2. CASE pc' = "interfaces"
    <3>1. nets = <<>> /\ max_prefix \in MinPrefix..Bits /\ UNCHANGED <<local, nets>>
      BY <1>1, <2>2 DEF TakeSubnets
    <3>2. max_prefix' \in 0..Bits
      BY <3>1, PlanAssumption DEF local
    <3>3. \A i \in DOMAIN interfaces' : <<i>> \in unseen'
      BY <1>1, <3>1 DEF TakeSubnets, Rounds, local
    <3> QED
      BY <2>2, <3>1, <3>2, <3>3 DEF SubnetsSoFar, IsInjective, ToSet
  <2> QED
    BY <2>1, <2>2 DEF SubnetsSoFar
<1>2. CASE NextInterface
  <2> USE DEF NextInterface, PlanInv, PlanTypeOK, local
  <2>1. PICK c \in unseen :
          /\ unseen' = unseen \ {c}
          /\ nets' = IF Eligible(interfaces[c[1]]) /\ ~Contains(nets, Cidr(interfaces[c[1]]))
                       THEN Append(nets, Cidr(interfaces[c[1]])) ELSE nets
    BY <1>2
  <2>2. PICK n \in DOMAIN interfaces : c = <<n>>
    BY <1>2, <2>1 DEF Rounds
  <2> DEFINE net == Cidr(interfaces[n])
  <2>3. interfaces' = interfaces /\ max_prefix' = max_prefix /\ pc = "interfaces" /\ pc' = pc
    BY <1>2
  <2>4. \A i \in DOMAIN interfaces :
          /\ Cidr(interfaces[i])' = Cidr(interfaces[i])
          /\ Eligible(interfaces[i])' = Eligible(interfaces[i])
    BY <2>3 DEF Cidr, Eligible
  <2>5. /\ max_prefix \in 0..Bits
        /\ IsInjective(nets)
        /\ \A m \in ToSet(nets) : \E i \in DOMAIN interfaces :
             Eligible(interfaces[i]) /\ m = Cidr(interfaces[i])
        /\ \A i \in DOMAIN interfaces :
             <<i>> \notin unseen /\ Eligible(interfaces[i]) => Cidr(interfaces[i]) \in ToSet(nets)
    BY <2>3 DEF SubnetsSoFar
  <2>6. CASE Eligible(interfaces[n]) /\ ~Contains(nets, net)
    <3>1. nets' = Append(nets, net) /\ net \in Subnet
      BY <2>1, <2>2, <2>5, <2>6, CidrRight
    <3>2. IsInjective(nets') /\ ToSet(nets') = ToSet(nets) \union {net}
      BY <3>1, <2>5, <2>6, AppendNew
    <3>4. \A m \in ToSet(nets') : \E i \in DOMAIN interfaces :
            Eligible(interfaces[i]) /\ m = Cidr(interfaces[i])
      BY <3>2, <2>5, <2>6
    <3>5. \A i \in DOMAIN interfaces :
            <<i>> \notin unseen' /\ Eligible(interfaces[i]) => Cidr(interfaces[i]) \in ToSet(nets')
      BY <3>2, <2>1, <2>2, <2>5
    <3> QED
      BY <3>2, <3>4, <3>5, <2>3, <2>4, <2>5 DEF SubnetsSoFar
  <2>7. CASE ~(Eligible(interfaces[n]) /\ ~Contains(nets, net))
    <3>1. nets' = nets
      BY <2>1, <2>2, <2>7
    <3>2. Eligible(interfaces[n]) => net \in ToSet(nets)
      BY <2>7, ContainsIsIn
    <3>3. \A i \in DOMAIN interfaces :
            <<i>> \notin unseen' /\ Eligible(interfaces[i]) => Cidr(interfaces[i]) \in ToSet(nets)
      BY <3>2, <2>1, <2>2, <2>5
    <3> QED
      BY <3>1, <3>3, <2>3, <2>4, <2>5 DEF SubnetsSoFar
  <2> QED
    BY <2>6, <2>7
<1>3. CASE UNCHANGED <<pc, unseen, local, nets>>
  BY <1>3 DEF PlanInv, SubnetsSoFar, local, Eligible, Cidr
<1>4. CASE pc' \notin {"subnets", "interfaces"}
  BY <1>4 DEF SubnetsSoFar
<1>5. TakeSubnets \/ NextInterface \/ UNCHANGED <<pc, unseen, local, nets>>
        \/ pc' \notin {"subnets", "interfaces"}
  BY DEF PlanNext, planVars, LocalSubnetsReturns, SkipArp, ReadTable, SizeTable, FetchTable,
     NextRow, ArpCacheReturns, NextArpAddr, ArpAddrsDone, NextHeuristicAddr, PlanSweep
<1> QED
  BY <1>1, <1>2, <1>3, <1>4, <1>5

\* arp_cache_hosts: a round adds its row if it is kept.
LEMMA CacheStep ==
  ASSUME PlanInv, [PlanNext]_planVars
  PROVE  CacheSoFar'
<1> USE DEF PlanInv, PlanTypeOK
<1>1. ASSUME pc = "arp" \/ pc = "fetch", pc' = "rows", cache' = cache, platform' = platform,
             buffer' \in Seq(Entry), unseen' = Rounds(buffer')
      PROVE  ToSet(cache') = {buffer'[k] : k \in KeptRows'} /\ Len(cache') = Cardinality(KeptRows')
  <2>1. cache' = <<>>
    BY <1>1 DEF CacheSoFar, Early
  <2>2. KeptRows' = {}
    BY <1>1 DEF KeptRows, Rounds
  <2> QED
    BY <2>1, <2>2, FS_EmptySet DEF ToSet
<1>2. CASE ReadTable
  <2>1. buffer' \in Seq(Entry) /\ buffer' = table'
    BY <1>2, PlanAssumption DEF ReadTable
  <2> QED
    BY <1>1, <1>2, <2>1 DEF ReadTable, CacheSoFar, Early
<1>3. CASE SizeTable
  <2>1. pc' \in {"rows", "fetch"} /\ needed' \in Nat /\ platform' = platform /\ platform = "macos"
        /\ unseen' = {}
    BY <1>3, PlanAssumption DEF SizeTable
  <2>2. table' = <<>> /\ buffer' = <<>> /\ cache' = <<>>
    BY <1>3 DEF SizeTable, CacheSoFar, Early
  <2>3. KeptRows' = {} /\ ToSet(<<>>) = {} /\ Rounds(<<>>) = {}
    BY <2>2 DEF KeptRows, Rounds, ToSet
  <2>4. Fetched(table)' = <<>>
    BY <2>1, <2>2 DEF Fetched
  <2> QED
    BY <2>1, <2>2, <2>3, <2>4, FS_EmptySet DEF CacheSoFar, Early
<1>4. CASE FetchTable
  <2>1. buffer' \in Seq(Entry) /\ buffer' = Fetched(table') /\ pc = "fetch"
    BY <1>4, PlanAssumption DEF FetchTable, Fetched
  <2>2. Fetched(table)' = Fetched(table')
    BY <1>4 DEF FetchTable, Fetched
  <2> QED
    BY <1>1, <1>4, <2>1, <2>2 DEF FetchTable, CacheSoFar, Early
<1>5. CASE NextRow
  <2>1. PICK c \in unseen :
          /\ unseen' = unseen \ {c}
          /\ cache' = IF ArpCacheHost(platform, buffer[c[1]])
                        THEN Append(cache, buffer[c[1]]) ELSE cache
    BY <1>5 DEF NextRow
  <2>2. /\ pc = "rows" /\ pc' = pc /\ platform' = platform
        /\ table' = table /\ buffer' = buffer /\ needed' = needed
    BY <1>5 DEF NextRow, reader
  <2>3. PICK n \in DOMAIN buffer : c = <<n>>
    BY <2>1, <2>2 DEF Rounds
  <2>4. /\ buffer = IF platform = "macos" THEN Fetched(table) ELSE table
        /\ ToSet(cache) = {buffer[k] : k \in KeptRows}
        /\ Len(cache) = Cardinality(KeptRows)
    BY <2>2 DEF CacheSoFar
  <2>5. Fetched(table)' = Fetched(table)
    BY <2>2 DEF Fetched
  <2>6. n \notin KeptRows /\ IsFiniteSet(KeptRows)
    <3>1. KeptRows \subseteq 1..Len(buffer) /\ Len(buffer) \in Nat
      BY DEF KeptRows
    <3>2. IsFiniteSet(1..Len(buffer))
      BY <3>1, FS_Interval
    <3>3. IsFiniteSet(KeptRows)
      BY <3>1, <3>2, FS_Subset
    <3> QED
      BY <3>3, <2>1, <2>3 DEF KeptRows
  <2>7. CASE ArpCacheHost(platform, buffer[n])
    <3>1. KeptRows' = KeptRows \union {n}
      BY <2>1, <2>2, <2>3, <2>7 DEF KeptRows
    <3>2. buffer[n] \in Entry /\ cache' = Append(cache, buffer[n])
      BY <2>1, <2>3, <2>7
    <3>3. ToSet(cache') = ToSet(cache) \union {buffer[n]}
      BY <3>2, AppendNew
    <3>4. Len(cache') = Cardinality(KeptRows')
      <4>1. Cardinality(KeptRows') = Cardinality(KeptRows) + 1
        BY <3>1, <2>6, FS_AddElement
      <4>2. Len(cache') = Len(cache) + 1
        BY <3>2
      <4> QED
        BY <4>1, <4>2, <2>4
    <3>5. ToSet(cache') = {buffer[k] : k \in KeptRows'}
      BY <3>1, <3>3, <2>4
    <3> QED
      BY <3>4, <3>5, <2>2, <2>4, <2>5 DEF CacheSoFar, Early
  <2>8. CASE ~ArpCacheHost(platform, buffer[n])
    <3>1. KeptRows' = KeptRows /\ cache' = cache
      BY <2>1, <2>2, <2>3, <2>8 DEF KeptRows
    <3> QED
      BY <3>1, <2>2, <2>4, <2>5 DEF CacheSoFar, Early
  <2> QED
    BY <2>7, <2>8
<1>6. CASE TakeSubnets \/ LocalSubnetsReturns \/ NextInterface
  BY <1>6 DEF TakeSubnets, LocalSubnetsReturns, NextInterface, CacheSoFar, Early, reader
<1>7. CASE UNCHANGED planVars
  <2>1. KeptRows' = KeptRows /\ Fetched(table)' = Fetched(table)
    BY <1>7 DEF planVars, KeptRows, Fetched, reader
  <2> QED
    BY <1>7, <2>1 DEF planVars, reader, CacheSoFar
<1>8. CASE pc' \notin Early
  BY <1>8 DEF CacheSoFar, Early
<1>9. SkipArp \/ ArpCacheReturns \/ NextArpAddr \/ ArpAddrsDone \/ NextHeuristicAddr \/ PlanSweep
        => pc' \notin Early
  BY DEF SkipArp, ArpCacheReturns, NextArpAddr, ArpAddrsDone, NextHeuristicAddr, PlanSweep, Early
<1> QED
  BY <1>2, <1>3, <1>4, <1>5, <1>6, <1>7, <1>8, <1>9 DEF PlanNext

\* The ARP list: a round adds its address unless it is there.
LEMMA ArpListStep ==
  ASSUME PlanInv, [PlanNext]_planVars
  PROVE  ArpListSoFar'
<1> USE DEF PlanInv, PlanTypeOK
<1>1. ToSet(<<>>) = {} /\ IsInjective(<<>>)
  BY DEF ToSet, IsInjective
<1>2. CASE pc \in Early /\ pc' \in Early
  <2>1. arp_addrs' = <<>>
    BY <1>2 DEF ArpListSoFar, PlanNext, planVars, lists, Early, TakeSubnets, NextInterface,
       LocalSubnetsReturns, SkipArp, ReadTable, SizeTable, FetchTable, NextRow, ArpCacheReturns,
       NextArpAddr, ArpAddrsDone, NextHeuristicAddr, PlanSweep
  <2> QED
    BY <1>1, <1>2, <2>1 DEF ArpListSoFar
<1>3. CASE SkipArp
  <2>1. arp_addrs' = <<>> /\ cache' = <<>> /\ pc' = "heuristic"
    BY <1>3 DEF SkipArp, lists, ArpListSoFar, CacheSoFar, Early
  <2>2. ArpRounds' = {}
    BY <2>1 DEF ArpRounds
  <2> QED
    BY <1>1, <2>1, <2>2 DEF ArpListSoFar, Early
<1>4. CASE ArpCacheReturns
  <2>1. arp_addrs' = <<>> /\ pc' = "arp_addrs" /\ unseen' = ArpRounds'
    BY <1>4 DEF ArpCacheReturns, lists, ArpListSoFar, Early, ArpRounds
  <2> QED
    BY <1>1, <2>1 DEF ArpListSoFar, Early
<1>5. ASSUME UNCHANGED <<cache, nets>>
      PROVE  ArpRounds' = ArpRounds /\ \A c : IsArp(c)' = IsArp(c) /\ ArpAddr(c)' = ArpAddr(c)
  BY <1>5 DEF ArpRounds, IsArp, ArpAddr
<1>6. CASE NextArpAddr
  <2>1. PICK c \in unseen :
          /\ unseen' = unseen \ {c}
          /\ arp_addrs' = IF IsArp(c) /\ ~Contains(arp_addrs, ArpAddr(c))
                            THEN Append(arp_addrs, ArpAddr(c)) ELSE arp_addrs
    BY <1>6 DEF NextArpAddr
  <2>2. pc = "arp_addrs" /\ pc' = pc /\ UNCHANGED <<cache, nets>>
    BY <1>6 DEF NextArpAddr
  <2>3. c \in ArpRounds /\ ArpAddr(c) \in SocketAddr
    BY <2>1, <2>2, AddrTypes
  <2>4. /\ IsInjective(arp_addrs)
        /\ \A addr \in ToSet(arp_addrs) : \E d \in ArpRounds : IsArp(d) /\ addr = ArpAddr(d)
        /\ \A d \in ArpRounds : IsArp(d) => ArpAddr(d) \in ToSet(arp_addrs) \/ d \in unseen
    BY <2>2 DEF ArpListSoFar, Early
  <2>5. /\ IsInjective(arp_addrs')
        /\ ToSet(arp_addrs) \subseteq ToSet(arp_addrs')
        /\ \A addr \in ToSet(arp_addrs') :
             addr \in ToSet(arp_addrs) \/ (IsArp(c) /\ addr = ArpAddr(c))
        /\ IsArp(c) => ArpAddr(c) \in ToSet(arp_addrs')
    BY <2>1, <2>3, <2>4, AppendNew, ContainsIsIn
  <2>6. \A addr \in ToSet(arp_addrs') : \E d \in ArpRounds : IsArp(d) /\ addr = ArpAddr(d)
    BY <2>3, <2>4, <2>5
  <2>7. \A d \in ArpRounds : IsArp(d) => ArpAddr(d) \in ToSet(arp_addrs') \/ d \in unseen'
    BY <2>1, <2>4, <2>5
  <2> QED
    BY <1>5, <2>2, <2>5, <2>6, <2>7 DEF ArpListSoFar, Early
<1>7. CASE ArpAddrsDone \/ NextHeuristicAddr \/ PlanSweep \/ UNCHANGED planVars
  <2>1. UNCHANGED <<cache, nets, arp_addrs>>
    BY <1>7 DEF ArpAddrsDone, NextHeuristicAddr, PlanSweep, planVars, lists
  <2>2. \/ UNCHANGED <<pc, unseen>>
        \/ pc' \in {"heuristic", "planned"} /\ (pc = "arp_addrs" => unseen = {}) /\ pc \notin Early
    BY <1>7 DEF ArpAddrsDone, NextHeuristicAddr, PlanSweep, planVars, Early
  <2> QED
    BY <1>5, <2>1, <2>2 DEF ArpListSoFar, Early
<1>8. (pc \in Early /\ pc' \in Early) \/ SkipArp \/ ArpCacheReturns \/ NextArpAddr
        \/ ArpAddrsDone \/ NextHeuristicAddr \/ PlanSweep \/ UNCHANGED planVars
  BY DEF PlanNext, Early, TakeSubnets, NextInterface, LocalSubnetsReturns, ReadTable, SizeTable,
     FetchTable, NextRow
<1> QED
  BY <1>2, <1>3, <1>4, <1>6, <1>7, <1>8

\* The heuristic list: a round adds its address unless a list has it.
LEMMA HeuristicListStep ==
  ASSUME PlanInv, [PlanNext]_planVars
  PROVE  HeuristicListSoFar'
<1> USE DEF PlanInv, PlanTypeOK
<1>1. ToSet(<<>>) = {} /\ IsInjective(<<>>)
  BY DEF ToSet, IsInjective
<1>2. CASE pc \in Early \union {"arp_addrs"}
  <2>1. heuristic_addrs' = <<>>
    BY <1>2 DEF HeuristicListSoFar, PlanNext, planVars, lists, Early, TakeSubnets, NextInterface,
       LocalSubnetsReturns, SkipArp, ReadTable, SizeTable, FetchTable, NextRow, ArpCacheReturns,
       NextArpAddr, ArpAddrsDone, NextHeuristicAddr, PlanSweep
  <2>2. pc' = "heuristic" => unseen' = HeuristicRounds' /\ UNCHANGED nets
    <3>1. pc # "heuristic"
      BY ONLY <1>2 DEF Early
    <3>2. TakeSubnets \/ NextInterface \/ LocalSubnetsReturns => pc' # "heuristic"
      BY ONLY <3>1 DEF TakeSubnets, NextInterface, LocalSubnetsReturns
    <3>3. ReadTable \/ SizeTable \/ FetchTable \/ NextRow \/ ArpCacheReturns => pc' # "heuristic"
      BY ONLY <3>1 DEF ReadTable, SizeTable, FetchTable, NextRow, ArpCacheReturns
    <3>4. NextArpAddr \/ NextHeuristicAddr \/ PlanSweep \/ UNCHANGED planVars => pc' # "heuristic"
      BY ONLY <3>1 DEF NextArpAddr, NextHeuristicAddr, PlanSweep, planVars
    <3>5. pc' = "heuristic" => SkipArp \/ ArpAddrsDone
      BY <3>2, <3>3, <3>4 DEF PlanNext
    <3> QED
      BY <3>5 DEF SkipArp, ArpAddrsDone, HeuristicRounds
  <2>3. pc' # "planned"
    BY <1>2 DEF PlanNext, planVars, Early, TakeSubnets, NextInterface,
       LocalSubnetsReturns, SkipArp, ReadTable, SizeTable, FetchTable, NextRow, ArpCacheReturns,
       NextArpAddr, ArpAddrsDone, NextHeuristicAddr, PlanSweep
  <2> QED
    BY <1>1, <2>1, <2>2, <2>3 DEF HeuristicListSoFar
<1>3. ASSUME UNCHANGED nets
      PROVE  /\ HeuristicRounds' = HeuristicRounds
             /\ \A c : IsHeuristic(c)' = IsHeuristic(c) /\ HeuristicAddr(c)' = HeuristicAddr(c)
  BY <1>3 DEF HeuristicRounds, IsHeuristic, HeuristicAddr
<1>4. CASE NextHeuristicAddr
  <2>1. PICK c \in unseen :
          /\ unseen' = unseen \ {c}
          /\ heuristic_addrs' =
               IF /\ IsHeuristic(c)
                  /\ ~Contains(arp_addrs, HeuristicAddr(c))
                  /\ ~Contains(heuristic_addrs, HeuristicAddr(c))
                 THEN Append(heuristic_addrs, HeuristicAddr(c)) ELSE heuristic_addrs
    BY <1>4 DEF NextHeuristicAddr
  <2>2. pc = "heuristic" /\ pc' = pc /\ UNCHANGED <<arp_addrs, nets>>
    BY <1>4 DEF NextHeuristicAddr
  <2>3. c \in HeuristicRounds /\ HeuristicAddr(c) \in SocketAddr
    BY <2>1, <2>2, AddrTypes
  <2>4. /\ IsInjective(heuristic_addrs)
        /\ ToSet(arp_addrs) \intersect ToSet(heuristic_addrs) = {}
        /\ \A addr \in ToSet(heuristic_addrs) :
             \E d \in HeuristicRounds : IsHeuristic(d) /\ addr = HeuristicAddr(d)
        /\ \A d \in HeuristicRounds : IsHeuristic(d) => HeuristicAddr(d) \in Priority \/ d \in unseen
    BY <2>2 DEF HeuristicListSoFar
  <2>5. /\ IsInjective(heuristic_addrs')
        /\ ToSet(heuristic_addrs) \subseteq ToSet(heuristic_addrs')
        /\ \A addr \in ToSet(heuristic_addrs') :
             \/ addr \in ToSet(heuristic_addrs)
             \/ IsHeuristic(c) /\ addr = HeuristicAddr(c) /\ addr \notin ToSet(arp_addrs)
        /\ IsHeuristic(c) =>
             HeuristicAddr(c) \in ToSet(arp_addrs) \union ToSet(heuristic_addrs')
    <3>1. /\ Contains(arp_addrs, HeuristicAddr(c)) <=> HeuristicAddr(c) \in ToSet(arp_addrs)
          /\ Contains(heuristic_addrs, HeuristicAddr(c))
               <=> HeuristicAddr(c) \in ToSet(heuristic_addrs)
      BY ContainsIsIn
    <3>2. /\ ToSet(Append(heuristic_addrs, HeuristicAddr(c)))
               = ToSet(heuristic_addrs) \union {HeuristicAddr(c)}
          /\ ~Contains(heuristic_addrs, HeuristicAddr(c)) =>
               IsInjective(Append(heuristic_addrs, HeuristicAddr(c)))
      BY <2>3, <2>4, AppendNew
    <3> QED
      BY <3>1, <3>2, <2>1, <2>4
  <2>6. /\ ToSet(arp_addrs) \intersect ToSet(heuristic_addrs') = {}
        /\ \A addr \in ToSet(heuristic_addrs') :
             \E d \in HeuristicRounds : IsHeuristic(d) /\ addr = HeuristicAddr(d)
    BY <2>3, <2>4, <2>5
  <2>7. Priority' = ToSet(arp_addrs) \union ToSet(heuristic_addrs')
    BY <2>2 DEF Priority
  <2>8. \A d \in HeuristicRounds : IsHeuristic(d) => HeuristicAddr(d) \in Priority' \/ d \in unseen'
    BY <2>1, <2>4, <2>5, <2>7 DEF Priority
  <2> QED
    BY <1>3, <2>2, <2>5, <2>6, <2>8 DEF HeuristicListSoFar, Early
<1>5. CASE PlanSweep \/ UNCHANGED planVars
  <2>1. UNCHANGED <<nets, arp_addrs, heuristic_addrs>> /\ Priority' = Priority
    BY <1>5 DEF PlanSweep, planVars, lists, Priority
  <2>2. \/ UNCHANGED <<pc, unseen>>
        \/ pc' = "planned" /\ pc = "heuristic" /\ unseen = {}
    BY <1>5 DEF PlanSweep, planVars
  <2> QED
    BY <1>3, <2>1, <2>2 DEF HeuristicListSoFar, Early
<1>6. pc \in Early \union {"arp_addrs"} \/ NextHeuristicAddr \/ PlanSweep \/ UNCHANGED planVars
  BY DEF PlanNext, Early, TakeSubnets, NextInterface, LocalSubnetsReturns, SkipArp, ReadTable,
     SizeTable, FetchTable, NextRow, ArpCacheReturns, NextArpAddr, ArpAddrsDone
<1> QED
  BY <1>2, <1>4, <1>5, <1>6

\* The plan of the sweep is made once, of lists that no longer change.
LEMMA SweepStep ==
  ASSUME PlanInv, [PlanNext]_planVars
  PROVE  SweepPlanned'
<1>1. CASE PlanSweep
  <2>1. UNCHANGED <<nets, arp_addrs, heuristic_addrs>>
        /\ remaining_ips' = RemainingIps /\ full' = FullSweep
    BY <1>1 DEF PlanSweep, lists
  <2> QED
    BY <2>1 DEF SweepPlanned, RemainingIps, FullSweep, HostDraws, Priority
<1>2. CASE UNCHANGED planVars
  BY <1>2 DEF PlanInv, SweepPlanned, planVars, lists, plan, RemainingIps, FullSweep, HostDraws,
     Priority
<1>3. PlanSweep \/ UNCHANGED planVars \/ pc' # "planned"
  BY DEF PlanNext, TakeSubnets, NextInterface, LocalSubnetsReturns, SkipArp, ReadTable,
     SizeTable, FetchTable, NextRow, ArpCacheReturns, NextArpAddr, ArpAddrsDone, NextHeuristicAddr
<1> QED
  BY <1>1, <1>2, <1>3 DEF SweepPlanned

\* Whatever the interfaces, the neighbour tables and the subnets, each loop has
\* at every round done what it should with the rounds behind it.
THEOREM PlanInductive == PlanSpec => []PlanInv
<1>1. PlanInv /\ [PlanNext]_planVars => PlanInv'
  BY PlanTypeStep, SubnetsStep, CacheStep, ArpListStep, HeuristicListStep, SweepStep DEF PlanInv
<1> QED
  BY <1>1, PlanInvInit, PTL DEF PlanSpec

----------------------------------------------------------------------------
(* What the plan is good for.                                              *)

\* local_subnets returns each interface's network once, and nothing else.
THEOREM SubnetsRightHolds == PlanSpec => []SubnetsRight
<1>1. PlanInv => SubnetsRight
  <2> SUFFICES ASSUME PlanInv, pc = "interfaces", unseen = {}
               PROVE  SubnetsRight
    BY DEF SubnetsRight
  <2> USE DEF PlanInv, PlanTypeOK
  <2>1. /\ max_prefix \in 0..Bits
        /\ IsInjective(nets)
        /\ \A m \in ToSet(nets) : \E i \in DOMAIN interfaces :
             Eligible(interfaces[i]) /\ m = Cidr(interfaces[i])
        /\ \A i \in DOMAIN interfaces :
             Eligible(interfaces[i]) => Cidr(interfaces[i]) \in ToSet(nets)
    BY DEF SubnetsSoFar
  <2>2. \A i \in DOMAIN interfaces : interfaces[i] \in Interface
    OBVIOUS
  <2>3. ASSUME NEW k \in DOMAIN nets
        PROVE  /\ nets[k] \in Subnet /\ nets[k].family = "v4"
               /\ nets[k].prefix \in max_prefix..Bits
               /\ nets[k].address = Network(nets[k])
               /\ \E i \in DOMAIN interfaces :
                    Eligible(interfaces[i]) /\ InNet(interfaces[i].ip, nets[k])
                      /\ interfaces[i].prefix <= nets[k].prefix
    <3>1. PICK i \in DOMAIN interfaces :
            Eligible(interfaces[i]) /\ nets[k] = Cidr(interfaces[i])
      BY <2>1, <2>3 DEF ToSet
    <3> QED
      BY <3>1, <2>1, <2>2, CidrRight
  <2>4. ASSUME NEW j \in DOMAIN nets, NEW k \in DOMAIN nets, j # k,
               nets[j].prefix = nets[k].prefix
        PROVE  ~InNet(<<"v4", nets[j].address>>, nets[k])
    BY <2>1, <2>3, <2>4, SameWidth DEF IsInjective
  <2>5. ASSUME NEW i \in DOMAIN interfaces, Eligible(interfaces[i])
        PROVE  \E k \in DOMAIN nets : InNet(interfaces[i].ip, nets[k])
    <3>1. InNet(interfaces[i].ip, Cidr(interfaces[i]))
      BY <2>1, <2>2, <2>5, CidrRight
    <3> QED
      BY <3>1, <2>1, <2>5 DEF ToSet
  <2> QED
    BY <2>3, <2>4, <2>5 DEF SubnetsRight
<1> QED
  BY <1>1, PlanInductive, PTL

\* The reader of each platform keeps exactly the entries that are usable there,
\* the states that the one of Windows mixes up apart.
LEMMA ReaderKeepsUsable ==
  ASSUME NEW e \in Entry, platform \in {"linux", "macos", "windows"}, ~MixedUp(platform, e)
  PROVE  ArpCacheHost(platform, e) <=> UsableEntry(platform, e)
<1>1. e.state \in States
  BY DEF Entry
<1>2. CASE platform = "linux"
  BY <1>2, <1>1 DEF ArpCacheHost, UsableEntry, ProcLineKept, ProcFlags, IsUnicastTarget
<1>3. CASE platform = "macos"
  BY <1>3, <1>1 DEF ArpCacheHost, UsableEntry, RtMessageKept, SdlLength, IsUnicastTarget
<1>4. CASE platform = "windows"
  <2>1. NlState(e) \notin {NL_NS_INCOMPLETE, NL_NS_UNREACHABLE}
          <=> e.state \notin {"incomplete", "permanent"}
    BY <1>1 DEF NlState, NL_NS_INCOMPLETE, NL_NS_UNREACHABLE, States
  <2> QED
    BY <1>4, <2>1 DEF ArpCacheHost, UsableEntry, MixedUp, TableRowKept, IsUnicastTarget
<1> QED
  BY <1>2, <1>3, <1>4

\* arp_cache_hosts returns the usable entries of any table, one for one; none
\* of them when a macOS table outgrew its buffer.  On Windows that is so of the
\* tables without permanent and without unreachable entries.
THEOREM ArpTargetsHolds == PlanSpec => []ArpTargets
<1>1. PlanInv => ArpTargets
  <2> DEFINE usable == {k \in DOMAIN table : UsableEntry(platform, table[k])}
             offered == IF platform = "macos" /\ needed < Len(table) THEN {} ELSE usable
  <2> SUFFICES ASSUME PlanInv, pc = "rows", unseen = {},
                      \A k \in DOMAIN table : ~MixedUp(platform, table[k])
               PROVE  /\ ToSet(cache) = {table[k] : k \in offered}
                      /\ Len(cache) = Cardinality(offered)
    BY DEF ArpTargets
  <2> USE DEF PlanInv, PlanTypeOK
  <2>1. /\ buffer = IF platform = "macos" THEN Fetched(table) ELSE table
        /\ ToSet(cache) = {buffer[k] : k \in KeptRows}
        /\ Len(cache) = Cardinality(KeptRows)
    BY DEF CacheSoFar
  <2>0. buffer \in Seq(Entry) /\ unseen = {}
    OBVIOUS
  <2>2. KeptRows = {k \in DOMAIN buffer : UsableEntry(platform, buffer[k])}
    <3>1. buffer = table \/ DOMAIN buffer = {}
      BY <2>1 DEF Fetched
    <3>2. \A k \in DOMAIN buffer : ~MixedUp(platform, buffer[k])
      BY <3>1
    <3>3. \A k \in DOMAIN buffer :
            ArpCacheHost(platform, buffer[k]) <=> UsableEntry(platform, buffer[k])
      BY <2>0, <3>2, ReaderKeepsUsable
    <3> QED
      BY <2>0, <3>3 DEF KeptRows
  <2>3. CASE platform = "macos" /\ needed < Len(table)
    <3>1. buffer = <<>>
      BY <2>1, <2>3 DEF Fetched
    <3>2. KeptRows = {}
      BY <3>1 DEF KeptRows
    <3>3. KeptRows = offered /\ ToSet(cache) = {table[k] : k \in offered}
      BY <2>1, <2>3, <3>2
    <3> QED
      BY <2>1, <3>3
  <2>4. CASE ~(platform = "macos" /\ needed < Len(table))
    <3>1. buffer = table
      BY <2>1, <2>4 DEF Fetched
    <3>2. KeptRows = offered
      BY <2>2, <2>4, <3>1
    <3> QED
      BY <2>1, <3>1, <3>2
  <2> QED
    BY <2>3, <2>4
<1> QED
  BY <1>1, PlanInductive, PTL

\* A host of the priority lists is there at every port: an address is in the
\* lists if a round of one of the loops was about its host.
LEMMA HostsAreWhole ==
  ASSUME PlanInv, pc = "planned", NEW host, NEW p \in ToSet(PortList)
  PROVE  /\ <<host, p>> \in ToSet(arp_addrs) <=>
              \E k \in DOMAIN cache : cache[k].ip = host /\ \E n \in DOMAIN nets : InNet(host, nets[n])
         /\ <<host, p>> \in Priority <=>
              \/ <<host, p>> \in ToSet(arp_addrs)
              \/ \E c \in HeuristicRounds : IsHeuristic(c) /\ HeuristicAddr(c)[1] = host
<1>1. PICK j \in DOMAIN PortList : p = PortList[j]
  BY DEF ToSet
<1>2. ASSUME <<host, p>> \in ToSet(arp_addrs)
      PROVE  \E k \in DOMAIN cache : cache[k].ip = host /\ \E n \in DOMAIN nets : InNet(host, nets[n])
  <2>1. PICK c \in ArpRounds : IsArp(c) /\ <<host, p>> = ArpAddr(c)
    BY <1>2 DEF PlanInv, ArpListSoFar
  <2> QED
    BY <2>1 DEF ArpRounds, IsArp, ArpAddr
<1>3. ASSUME NEW k \in DOMAIN cache, cache[k].ip = host, NEW n \in DOMAIN nets, InNet(host, nets[n])
      PROVE  <<host, p>> \in ToSet(arp_addrs)
  <2>1. <<k, j>> \in ArpRounds /\ IsArp(<<k, j>>) /\ ArpAddr(<<k, j>>) = <<host, p>>
    BY <1>1, <1>3 DEF ArpRounds, IsArp, ArpAddr
  <2> QED
    BY <2>1 DEF PlanInv, ArpListSoFar, Early
<1>4. ASSUME <<host, p>> \in ToSet(heuristic_addrs)
      PROVE  \E c \in HeuristicRounds : IsHeuristic(c) /\ HeuristicAddr(c)[1] = host
  <2>1. PICK c \in HeuristicRounds : IsHeuristic(c) /\ <<host, p>> = HeuristicAddr(c)
    BY <1>4 DEF PlanInv, HeuristicListSoFar
  <2> QED
    BY <2>1
<1>5. ASSUME NEW c \in HeuristicRounds, IsHeuristic(c), HeuristicAddr(c)[1] = host
      PROVE  <<host, p>> \in Priority
  <2>1. PICK k \in DOMAIN nets, o \in DOMAIN PriorityLastOctets, i \in DOMAIN PortList :
          c = <<k, o, i>>
    BY <1>5 DEF HeuristicRounds
  <2> DEFINE d == <<k, o, j>>
  <2>2. d \in HeuristicRounds /\ d[1] = c[1] /\ d[2] = c[2] /\ d[3] = j
    BY <2>1 DEF HeuristicRounds
  <2>3. HeuristicAddr(d) = <<host, p>>
    BY <1>1, <1>5, <2>2 DEF HeuristicAddr
  <2>4. IsHeuristic(d)
    BY <1>5, <2>2, <2>3 DEF IsHeuristic
  <2> QED
    BY <2>2, <2>3, <2>4 DEF PlanInv, HeuristicListSoFar
<1> QED
  BY <1>2, <1>3, <1>4, <1>5 DEF Priority

\* Nothing is in the priority lists twice, and nothing outside the subnets.
LEMMA PriorityRight ==
  ASSUME PlanInv, pc = "planned"
  PROVE  /\ IsInjective(arp_addrs \o heuristic_addrs)
         /\ \A addr \in Priority : \E k \in DOMAIN nets : InNet(addr[1], nets[k])
<1> USE DEF PlanInv, PlanTypeOK
<1> DEFINE both == arp_addrs \o heuristic_addrs
<1>1. /\ DOMAIN both = 1..(Len(arp_addrs) + Len(heuristic_addrs))
      /\ DOMAIN arp_addrs = 1..Len(arp_addrs) /\ DOMAIN heuristic_addrs = 1..Len(heuristic_addrs)
      /\ \A i \in 1..Len(arp_addrs) : both[i] = arp_addrs[i]
      /\ \A i \in (Len(arp_addrs) + 1)..(Len(arp_addrs) + Len(heuristic_addrs)) :
           both[i] = heuristic_addrs[i - Len(arp_addrs)]
      /\ Len(arp_addrs) \in Nat /\ Len(heuristic_addrs) \in Nat
  OBVIOUS
<1>2. /\ IsInjective(arp_addrs) /\ IsInjective(heuristic_addrs)
      /\ ToSet(arp_addrs) \intersect ToSet(heuristic_addrs) = {}
  BY DEF ArpListSoFar, HeuristicListSoFar
<1>3. ASSUME NEW i \in DOMAIN both, NEW j \in DOMAIN both, both[i] = both[j]
      PROVE  i = j
  <2> HIDE DEF both
  <2>0. i \in Nat /\ j \in Nat /\ Len(arp_addrs) \in Nat
    BY ONLY <1>1, <1>3
  <2>1. CASE i <= Len(arp_addrs) /\ j <= Len(arp_addrs)
    <3>1. /\ i \in DOMAIN arp_addrs /\ j \in DOMAIN arp_addrs
          /\ both[i] = arp_addrs[i] /\ both[j] = arp_addrs[j]
      BY ONLY <1>1, <1>3, <2>1
    <3> QED
      BY ONLY <1>2, <1>3, <3>1 DEF IsInjective
  <2>2. CASE i > Len(arp_addrs) /\ j > Len(arp_addrs)
    <3> DEFINE a == i - Len(arp_addrs)
               b == j - Len(arp_addrs)
    <3>1. /\ a \in DOMAIN heuristic_addrs /\ b \in DOMAIN heuristic_addrs
          /\ both[i] = heuristic_addrs[a] /\ both[j] = heuristic_addrs[b]
      <4>1. \A k \in DOMAIN both : k > Len(arp_addrs) =>
              /\ k - Len(arp_addrs) \in DOMAIN heuristic_addrs
              /\ both[k] = heuristic_addrs[k - Len(arp_addrs)]
        BY ONLY <1>1
      <4> QED
        BY ONLY <1>3, <2>2, <4>1
    <3>2. a = b => i = j
      BY ONLY <2>0
    <3> HIDE DEF a, b
    <3>3. a = b
      BY ONLY <1>2, <1>3, <3>1 DEF IsInjective
    <3> QED
      BY ONLY <3>2, <3>3
  <2>3. ASSUME NEW k \in DOMAIN both, NEW l \in DOMAIN both,
               k <= Len(arp_addrs), l > Len(arp_addrs)
        PROVE  both[k] # both[l]
    <3>1. k \in DOMAIN arp_addrs /\ both[k] = arp_addrs[k]
      BY ONLY <1>1, <2>3
    <3>2. l - Len(arp_addrs) \in DOMAIN heuristic_addrs
            /\ both[l] = heuristic_addrs[l - Len(arp_addrs)]
      BY ONLY <1>1, <2>3
    <3>3. both[k] \in ToSet(arp_addrs) /\ both[l] \in ToSet(heuristic_addrs)
      BY ONLY <3>1, <3>2 DEF ToSet
    <3> QED
      BY ONLY <3>3, <1>2
  <2>4. ~(i <= Len(arp_addrs) /\ j > Len(arp_addrs))
    BY ONLY <1>3, <2>3
  <2>5. ~(j <= Len(arp_addrs) /\ i > Len(arp_addrs))
    BY ONLY <1>3, <2>3
  <2>6. \/ i <= Len(arp_addrs) /\ j <= Len(arp_addrs)
        \/ i > Len(arp_addrs) /\ j > Len(arp_addrs)
    BY ONLY <2>0, <2>4, <2>5
  <2> QED
    BY ONLY <2>1, <2>2, <2>6
<1>4. IsInjective(both)
  BY <1>3 DEF IsInjective
<1>5. ASSUME NEW addr \in Priority
      PROVE  \E k \in DOMAIN nets : InNet(addr[1], nets[k])
  <2>1. CASE addr \in ToSet(arp_addrs)
    <3>1. PICK c \in ArpRounds : IsArp(c) /\ addr = ArpAddr(c)
      BY <2>1 DEF ArpListSoFar
    <3> QED
      BY <3>1 DEF IsArp, ArpAddr
  <2>2. CASE addr \in ToSet(heuristic_addrs)
    <3>1. PICK c \in HeuristicRounds : IsHeuristic(c) /\ addr = HeuristicAddr(c)
      BY <2>2 DEF HeuristicListSoFar
    <3>2. InNet(addr[1], nets[c[1]]) /\ c[1] \in DOMAIN nets
      BY <3>1 DEF IsHeuristic, HeuristicRounds
    <3> QED
      BY <3>2
  <2> QED
    BY <1>5, <2>1, <2>2 DEF Priority
<1> QED
  BY <1>4, <1>5

\* For any subnets, ARP cache and ports the lists and the sweep share out the
\* addresses of the subnets, and both routes start from the same hosts.
THEOREM PlanIsCompleteHolds == PlanSpec => []PlanIsComplete
<1>1. PlanInv => PlanIsComplete
  <2> SUFFICES ASSUME PlanInv, pc = "planned"
               PROVE  PlanIsComplete
    BY DEF PlanIsComplete
  <2>1. remaining_ips = RemainingIps /\ full = FullSweep
    BY DEF PlanInv, SweepPlanned
  <2>2. ASSUME NEW d \in HostDraws
        PROVE  /\ d = <<d[1], d[2]>> /\ d[1] \in DOMAIN nets /\ d[2] \in HostsIn(nets[d[1]])
               /\ InNet(d[2], nets[d[1]])
    <3>1. PICK k \in DOMAIN nets : d \in {k} \X HostsIn(nets[k])
      BY <2>2 DEF HostDraws
    <3>2. nets[k] \in Subnet
      BY DEF PlanInv, PlanTypeOK
    <3> QED
      BY <3>1, <3>2, HostsInNet
  <2>3. ASSUME NEW d \in full
        PROVE  /\ d = <<d[1], d[2]>> /\ d[1] \in HostDraws /\ d[2] \in ToSet(PortList)
               /\ AddrOf(d) \notin Priority
    BY <2>1, <2>3 DEF FullSweep
  <2>4. ASSUME NEW k \in DOMAIN nets, NEW host \in HostsIn(nets[k]), NEW p \in ToSet(PortList)
        PROVE  <<host, p>> \in Priority
                 <=> ~\E d \in full : d[1][1] = k /\ AddrOf(d) = <<host, p>>
    <3> DEFINE d == <<<<k, host>>, p>>
    <3>1. <<k, host>> \in HostDraws
      BY <2>4 DEF HostDraws
    <3>2. d \in HostDraws \X ToSet(PortList) /\ AddrOf(d) = <<host, p>> /\ d[1][1] = k
      BY <3>1, <2>4 DEF AddrOf
    <3>3. <<host, p>> \notin Priority => d \in full
      BY <3>2, <2>1 DEF FullSweep
    <3> QED
      BY <3>2, <3>3, <2>3
  <2>5. ASSUME NEW c \in full, NEW d \in full, c # d, AddrOf(c) = AddrOf(d)
        PROVE  c[1][1] # d[1][1] /\ \A e \in {c, d} : InNet(e[1][2], nets[e[1][1]])
    <3>1. c[1][2] = d[1][2] /\ c[2] = d[2]
      BY <2>5 DEF AddrOf
    <3>2. c = <<<<c[1][1], c[1][2]>>, c[2]>> /\ d = <<<<d[1][1], d[1][2]>>, d[2]>>
      BY <2>2, <2>3
    <3>3. \A e \in {c, d} : InNet(e[1][2], nets[e[1][1]])
      BY <2>2, <2>3
    <3> QED
      BY <2>5, <3>1, <3>2, <3>3
  <2>6. ASSUME NEW d \in full, d[1][2][1] = "v4"
        PROVE  d \in remaining_ips \X ToSet(PortList)
    <3>1. d[1] \in HostDraws /\ d[2] \in ToSet(PortList) /\ <<d[1][2], d[2]>> \notin Priority
      BY <2>3 DEF AddrOf
    <3>2. \A p \in ToSet(PortList) : <<d[1][2], p>> \notin Priority
      BY <3>1, HostsAreWhole
    <3>3. d[1] \in remaining_ips
      BY <2>1, <2>6, <3>1, <3>2 DEF RemainingIps
    <3> QED
      BY <2>3, <3>1, <3>3
  <2>7. ASSUME NEW d \in remaining_ips \X ToSet(PortList)
        PROVE  d \in full /\ d[1][2][1] = "v4"
    <3>1. d = <<d[1], d[2]>> /\ d[1] \in RemainingIps /\ d[2] \in ToSet(PortList)
      BY <2>1, <2>7
    <3>2. d[1] \in HostDraws /\ d[1][2][1] = "v4" /\ AddrOf(d) \notin Priority
      BY <3>1 DEF RemainingIps, AddrOf
    <3> QED
      BY <2>1, <3>1, <3>2 DEF FullSweep
  <2>8. {d \in full : d[1][2][1] = "v4"} = remaining_ips \X ToSet(PortList)
    BY <2>6, <2>7
  <2>9. \A k \in DOMAIN nets : \A addr \in HostsIn(nets[k]) \X ToSet(PortList) :
          addr \in Priority <=> ~\E d \in full : d[1][1] = k /\ AddrOf(d) = addr
    BY <2>4
  <2> QED
    BY <2>5, <2>8, <2>9, PriorityRight DEF PlanIsComplete
<1> QED
  BY <1>1, PlanInductive, PTL

----------------------------------------------------------------------------
(* The plan and the scan.  TcpScan starts from sets that its constants      *)
(* describe; SweepPlan builds lists of one machine's interfaces and tables. *)

\* The constants and the ARP cache of the scan are those of the plan.
ScanOfPlan ==
  /\ Ports = ToSet(PortList)
  /\ Nets = DOMAIN nets
  /\ V4 = {h \in Hosts : h[1] = "v4"}
  /\ \A k \in Nets :
       /\ HostsOf[k] = HostsIn(nets[k])
       /\ Covers[k] = {h \in Hosts : InNet(h, nets[k])}
       /\ Common[k] =
            {HeuristicAddr(c)[1] : c \in {d \in HeuristicRounds : d[1] = k}} \ {<<"v4", 2^Bits - 1>>}
  /\ arp = {cache[k].ip : k \in DOMAIN cache} /\ arp \subseteq Hosts
  /\ UseArp \/ cache = <<>>

\* What the scan takes for its lists, its remaining hosts and its sweep is what
\* build_priority_addrs and scan_subnets compute.
THEOREM PlanFitsScan ==
  ASSUME PlanInv, pc = "planned", ScanOfPlan
  PROVE  /\ ToSet(arp_addrs) = ArpAddrs
         /\ ToSet(heuristic_addrs) = HeuristicAddrs
         /\ {d[2] : d \in remaining_ips} = RemainingHosts
         /\ {[src |-> "full", net |-> d[1][1], addr |-> AddrOf(d)] : d \in full} = SweepTasks
<1>1. ToSet(arp_addrs) \subseteq SocketAddr /\ ToSet(heuristic_addrs) \subseteq SocketAddr
  BY DEF PlanInv, PlanTypeOK, ToSet
<1>2. ToSet(arp_addrs) = ArpAddrs
  <2>1. ASSUME NEW h, NEW p \in Ports
        PROVE  <<h, p>> \in ToSet(arp_addrs) <=> <<h, p>> \in ArpAddrs
    <3>1. <<h, p>> \in ToSet(arp_addrs) <=>
            \E k \in DOMAIN cache : cache[k].ip = h /\ \E n \in DOMAIN nets : InNet(h, nets[n])
      BY <2>1, HostsAreWhole DEF ScanOfPlan
    <3>2. (\E k \in DOMAIN cache : cache[k].ip = h) <=> h \in arp
      BY DEF ScanOfPlan
    <3>3. h \in arp => \A n \in Nets : InNet(h, nets[n]) <=> h \in Covers[n]
      BY DEF ScanOfPlan
    <3>4. <<h, p>> \in ArpAddrs <=> UseArp /\ h \in arp /\ \E n \in Nets : h \in Covers[n]
      BY <2>1 DEF ArpAddrs
    <3>5. h \in arp => UseArp
      BY DEF ScanOfPlan
    <3> QED
      BY <3>1, <3>2, <3>3, <3>4, <3>5 DEF ScanOfPlan
  <2>2. \A addr \in ToSet(arp_addrs) \union ArpAddrs :
          addr = <<addr[1], addr[2]>> /\ addr[2] \in Ports
    BY <1>1 DEF SocketAddr, ArpAddrs, ScanOfPlan
  <2> QED
    BY <2>1, <2>2
<1>3. ASSUME NEW h, NEW p \in Ports
      PROVE  (\E c \in HeuristicRounds : IsHeuristic(c) /\ HeuristicAddr(c)[1] = h)
               <=> h \in V4 /\ \E n \in Nets : h \in Common[n] \intersect Covers[n]
  <2>1. ASSUME NEW c \in HeuristicRounds, IsHeuristic(c), HeuristicAddr(c)[1] = h
        PROVE  h \in V4 /\ \E n \in Nets : h \in Common[n] \intersect Covers[n]
    <3>1. c[1] \in Nets
      BY <2>1 DEF HeuristicRounds, ScanOfPlan
    <3>2. InNet(h, nets[c[1]]) /\ h # <<"v4", 2^Bits - 1>>
      BY <2>1 DEF IsHeuristic
    <3>3. h \in Common[c[1]]
      BY <2>1, <3>1, <3>2 DEF ScanOfPlan
    <3>4. h \in V4 /\ h \in Hosts
      BY <3>1, <3>3, HostsAssumption
    <3>5. h \in Covers[c[1]]
      BY <3>1, <3>2, <3>4 DEF ScanOfPlan
    <3> QED
      BY <3>1, <3>3, <3>4, <3>5
  <2>2. ASSUME NEW n \in Nets, h \in Common[n] \intersect Covers[n]
        PROVE  \E c \in HeuristicRounds : IsHeuristic(c) /\ HeuristicAddr(c)[1] = h
    <3>1. PICK c \in HeuristicRounds : c[1] = n /\ HeuristicAddr(c)[1] = h
      BY <2>2 DEF ScanOfPlan
    <3>2. h # <<"v4", 2^Bits - 1>> /\ InNet(h, nets[n])
      BY <2>2 DEF ScanOfPlan
    <3>3. h = <<"v4", h[2]>>
      BY <3>1 DEF HeuristicAddr
    <3>4. IsHeuristic(c)
      BY <3>1, <3>2, <3>3 DEF IsHeuristic
    <3> QED
      BY <3>1, <3>4
  <2> QED
    BY <2>1, <2>2
<1>4. ToSet(heuristic_addrs) = HeuristicAddrs
  <2>1. ASSUME NEW h, NEW p \in Ports
        PROVE  <<h, p>> \in ToSet(heuristic_addrs) <=> <<h, p>> \in HeuristicAddrs
    <3>1. <<h, p>> \in Priority <=>
            \/ <<h, p>> \in ToSet(arp_addrs)
            \/ \E c \in HeuristicRounds : IsHeuristic(c) /\ HeuristicAddr(c)[1] = h
      BY <2>1, HostsAreWhole DEF ScanOfPlan
    <3>2. <<h, p>> \in ToSet(heuristic_addrs) <=>
            <<h, p>> \in Priority /\ <<h, p>> \notin ToSet(arp_addrs)
      BY DEF PlanInv, HeuristicListSoFar, Priority
    <3>3. <<h, p>> \in HeuristicAddrs <=>
            /\ h \in V4 /\ \E n \in Nets : h \in Common[n] \intersect Covers[n]
            /\ <<h, p>> \notin ArpAddrs
      BY <2>1 DEF HeuristicAddrs
    <3> QED
      BY <3>1, <3>2, <3>3, <1>2, <1>3, <2>1
  <2>2. \A addr \in ToSet(heuristic_addrs) \union HeuristicAddrs :
          addr = <<addr[1], addr[2]>> /\ addr[2] \in Ports
    BY <1>1 DEF SocketAddr, HeuristicAddrs, ScanOfPlan
  <2> QED
    BY <2>1, <2>2
<1>5. Priority = PriorityAddrs
  BY <1>2, <1>4 DEF Priority, PriorityAddrs
<1>6. \A d \in HostDraws : d = <<d[1], d[2]>> /\ d[1] \in Nets /\ d[2] \in HostsOf[d[1]]
  BY DEF HostDraws, ScanOfPlan
<1>7. \A n \in Nets : \A h \in HostsOf[n] : <<n, h>> \in HostDraws
  BY DEF HostDraws, ScanOfPlan
<1>8. {d[2] : d \in remaining_ips} = RemainingHosts
  <2>1. remaining_ips = {d \in HostDraws : d[2][1] = "v4"
                           /\ \A p \in Ports : <<d[2], p>> \notin PriorityAddrs}
    BY <1>5 DEF PlanInv, SweepPlanned, RemainingIps, ScanOfPlan
  <2>2. \A d \in remaining_ips : d[2] \in RemainingHosts
    BY <2>1, <1>6, HostsAssumption DEF RemainingHosts, ScanOfPlan
  <2>3. ASSUME NEW h \in RemainingHosts
        PROVE  \E d \in remaining_ips : h = d[2]
    <3>1. PICK n \in Nets : h \in HostsOf[n]
      BY <2>3 DEF RemainingHosts
    <3>2. <<n, h>> \in remaining_ips
      BY <3>1, <1>7, <2>1, <2>3 DEF RemainingHosts, ScanOfPlan
    <3> QED
      BY <3>2
  <2> QED
    BY <2>2, <2>3
<1>9. {[src |-> "full", net |-> d[1][1], addr |-> AddrOf(d)] : d \in full} = SweepTasks
  <2> DEFINE TaskOf(d) == [src |-> "full", net |-> d[1][1], addr |-> AddrOf(d)]
  <2>1. full = {d \in HostDraws \X Ports : AddrOf(d) \notin PriorityAddrs}
    BY <1>5 DEF PlanInv, SweepPlanned, FullSweep, ScanOfPlan
  <2>2. ASSUME NEW d \in full PROVE TaskOf(d) \in SweepTasks
    <3>1. /\ d[1][1] \in Nets /\ d[1][2] \in HostsOf[d[1][1]] /\ d[2] \in Ports
          /\ AddrOf(d) \notin PriorityAddrs
      BY <2>1, <2>2, <1>6
    <3>2. AddrOf(d) \in Addr /\ AddrOf(d)[1] = d[1][2]
      BY <3>1, HostsAssumption DEF AddrOf, Addr
    <3> QED
      BY <3>1, <3>2 DEF SweepTasks, HostIter
  <2>3. ASSUME NEW t \in SweepTasks PROVE \E d \in full : t = TaskOf(d)
    <3>1. /\ t \in [src : {"full"}, net : Nets, addr : Addr]
          /\ t.addr[1] \in HostsOf[t.net] /\ t.addr \notin PriorityAddrs
      BY <2>3 DEF SweepTasks, HostIter
    <3> DEFINE d == <<<<t.net, t.addr[1]>>, t.addr[2]>>
    <3>2. t.addr = <<t.addr[1], t.addr[2]>> /\ t.addr[2] \in Ports
      BY <3>1 DEF Addr
    <3>3. AddrOf(d) = t.addr /\ d[1][1] = t.net
      BY <3>2 DEF AddrOf
    <3>4. d \in full
      BY <3>1, <3>2, <3>3, <1>7, <2>1
    <3>5. t = TaskOf(d)
      BY <3>1, <3>3
    <3> QED
      BY <3>4, <3>5
  <2> QED
    BY <2>2, <2>3
<1> QED
  BY <1>2, <1>4, <1>8, <1>9

----------------------------------------------------------------------------
(* The scan within a discovery.  In TcpDiscovery a sweep is one step, to   *)
(* any result SweepContract allows.                                        *)

\* The hosts of the discovery are those of the scan: no three subnets share one,
\* and no other ping sweep of the process interferes.
ScanOfDiscovery ==
  /\ Swept = UNION {Covers[n] : n \in Nets}
  /\ TwiceSwept =
       {h \in Hosts : \E m, n \in Nets : m # n /\ h \in HostsOf[m] \intersect HostsOf[n]}
  /\ \A l, m, n \in Nets :
       HostsOf[l] \intersect HostsOf[m] \intersect HostsOf[n] # {} => l = m \/ m = n \/ l = n
  /\ Strays = {}

\* The lists that hold the matches once each: scan_subnets returns one of them.
PushOrders == {s \in Seq(matches) : IsInjective(s) /\ ToSet(s) = matches}

AddressesOf(s) == [i \in DOMAIN s |-> s[i].addr]

\* A match is of an address that answers.
MatchesAnswer == \A t \in got \union matches : t.addr \in open

\* Only a probe that was answered adds to them.
LEMMA MatchesAnswerHolds == Spec => []MatchesAnswer
<1>1. Init => MatchesAnswer
  BY DEF Init, MatchesAnswer
<1>2. MatchesAnswer /\ [Next]_vars => MatchesAnswer'
  <2> SUFFICES ASSUME MatchesAnswer, [Next]_vars PROVE MatchesAnswer'
    OBVIOUS
  <2>1. open' = open
    BY EnvironmentFixed
  <2>2. ASSUME NEW t \in got, EmitMatch(t) PROVE MatchesAnswer'
    BY <2>1, <2>2 DEF EmitMatch, Push, MatchesAnswer
  <2>3. ASSUME NEW t \in probing, FinishProbe(t) PROVE MatchesAnswer'
    BY <2>1, <2>3 DEF FinishProbe, MatchesAnswer
  <2>4. ASSUME UNCHANGED <<got, matches>> PROVE MatchesAnswer'
    BY <2>1, <2>4 DEF MatchesAnswer
  <2>5. CASE ScanControl
    BY <2>4, <2>5 DEF ScanControl, tasks, ArpBatch, NoArpBatch, HeuristicBatch,
       NoHeuristicBatch, StartPing, PingReplies, PingNobody, PingUnavailable, RawBatch,
       FullBatch, Exhausted, StopCancelled, SpawnTask, SpawnLoopEnds, AllJoined, BatchDone,
       RunBatch, Proceed
  <2>6. CASE \E t \in waiting : Acquire(t)
    BY <2>4, <2>6 DEF Acquire
  <2>7. CASE Cancel \/ Reset \/ UNCHANGED vars
    BY <2>4, <2>7 DEF Cancel, Reset, tasks, vars
  <2> QED BY <2>2, <2>3, <2>5, <2>6, <2>7 DEF Next, ScanStep, TaskStep
<1> QED BY <1>1, <1>2, PTL DEF Spec

\* A list of tasks, of which no three have one address, is a result.
LEMMA ListIsResult ==
  ASSUME ScanOfDiscovery, NEW M, NEW order \in Seq(M), IsInjective(order), ToSet(order) = M,
         \/ M \subseteq PriorityTasks \union RawTasks
         \/ M \subseteq PriorityTasks \union SweepTasks,
         \A t \in M : t.addr \in open /\ t.addr[1] \in Swept
  PROVE  AddressesOf(order) \in SweepResults(open)
<1> DEFINE First(t) == t = CHOOSE u \in M : u.addr = t.addr
           hits == {t.addr : t \in M}
           twice == {t.addr : t \in {u \in M : ~First(u)}}
           S == ({"once"} \X hits) \union ({"again"} \X twice)
           Mark(t) == <<IF First(t) THEN "once" ELSE "again", t.addr>>
           s == [i \in DOMAIN order |-> Mark(order[i])]
           n == Len(order)
<1>1. n \in Nat /\ DOMAIN order = 1..n /\ \A i \in 1..n : order[i] \in M
  OBVIOUS
<1>2. \A t \in M : \E i \in 1..n : order[i] = t
  BY <1>1 DEF ToSet
<1>3. \A i, j \in 1..n : order[i] = order[j] => i = j
  BY <1>1 DEF IsInjective
<1>4. \A t \in M : \E u \in M : u.addr = t.addr /\ First(u)
  <2> SUFFICES ASSUME NEW t \in M PROVE \E u \in M : u.addr = t.addr /\ First(u)
    OBVIOUS
  <2> DEFINE u == CHOOSE x \in M : x.addr = t.addr
  <2>1. u \in M /\ u.addr = t.addr
    OBVIOUS
  <2>2. First(u)
    BY <2>1
  <2> QED BY <2>1, <2>2
<1>5. \A t, u \in M : t.addr = u.addr /\ First(t) /\ First(u) => t = u
  OBVIOUS
<1>6. ASSUME NEW t \in M, NEW u \in M, t.addr = u.addr, ~First(t), ~First(u) PROVE t = u
  <2> SUFFICES ASSUME t # u PROVE FALSE
    OBVIOUS
  <2>1. PICK w \in M : w.addr = t.addr /\ First(w)
    BY <1>4
  <2>2. w # t /\ w # u
    BY <1>6, <2>1
  <2> HIDE DEF First
  <2>3. /\ t \in SweepTasks /\ u \in SweepTasks /\ w \in SweepTasks
        /\ t.net # u.net /\ u.net # w.net /\ t.net # w.net
    BY <1>6, <2>1, <2>2, SameAddress DEF ScanOfDiscovery
  <2>4. /\ t.net \in Nets /\ u.net \in Nets /\ w.net \in Nets
        /\ t.addr[1] \in HostsOf[t.net] /\ t.addr[1] \in HostsOf[u.net]
        /\ t.addr[1] \in HostsOf[w.net]
    BY <1>6, <2>1, <2>3 DEF SweepTasks, HostIter
  <2> QED BY <2>3, <2>4 DEF ScanOfDiscovery
<1>7. ASSUME NEW t \in M, ~First(t) PROVE t.addr[1] \in TwiceSwept
  <2>1. PICK w \in M : w.addr = t.addr /\ First(w)
    BY <1>4
  <2>2. w # t
    BY <1>7, <2>1
  <2> HIDE DEF First
  <2>3. t \in SweepTasks /\ w \in SweepTasks /\ t.net # w.net
    BY <2>1, <2>2, SameAddress DEF ScanOfDiscovery
  <2>4. /\ t.net \in Nets /\ w.net \in Nets
        /\ t.addr[1] \in HostsOf[t.net] /\ t.addr[1] \in HostsOf[w.net]
    BY <2>1, <2>3 DEF SweepTasks, HostIter
  <2>5. t.addr[1] \in Hosts
    BY <2>4, HostsAssumption
  <2> QED BY <2>3, <2>4, <2>5 DEF ScanOfDiscovery
<1> HIDE DEF First
<1>8. \A t, u \in M : Mark(t) = Mark(u) => t = u
  BY <1>5, <1>6
<1>9. \A t \in M : Mark(t) \in S
  OBVIOUS
<1>10. \A x \in S : \E t \in M : Mark(t) = x
  <2>1. ASSUME NEW a \in hits PROVE \E t \in M : Mark(t) = <<"once", a>>
    BY <1>4
  <2>2. ASSUME NEW a \in twice PROVE \E t \in M : Mark(t) = <<"again", a>>
    OBVIOUS
  <2>3. ASSUME NEW x \in S
        PROVE  \/ \E a \in hits : x = <<"once", a>>
               \/ \E a \in twice : x = <<"again", a>>
    OBVIOUS
  <2> HIDE DEF hits, twice, S, Mark
  <2> QED BY <2>1, <2>2, <2>3
<1>11. twice \in SUBSET {a \in hits : a[1] \in TwiceSwept}
  BY <1>7
<1>12. hits \in SUBSET Answering(open)
  BY DEF Answering
<1>13. \A t \in M : Mark(t)[2] = t.addr
  OBVIOUS
<1> HIDE DEF hits, twice, S, Mark
<1>14. s \in [1..n -> S] /\ (\A i, j \in 1..n : s[i] = s[j] => i = j)
       /\ \A x \in S : \E i \in 1..n : s[i] = x
  <2>1. s \in [1..n -> S]
    BY <1>1, <1>9
  <2>2. \A i, j \in 1..n : s[i] = s[j] => i = j
    BY <1>1, <1>3, <1>8
  <2>3. ASSUME NEW x \in S PROVE \E i \in 1..n : s[i] = x
    BY <1>1, <1>2, <1>10
  <2> QED BY <2>1, <2>2, <2>3
<1> HIDE DEF s, n
<1>15. Cardinality(S) = n
  <2>1. s \in Bijection(1..n, S)
    BY <1>14 DEF Bijection, Injection, Surjection, IsInjective
  <2>2. IsFiniteSet(1..n) /\ Cardinality(1..n) = n
    BY <1>1, FS_Interval
  <2> QED BY <2>1, <2>2, FS_Bijection DEF ExistsBijection
<1>16. s \in SetToSeqs(S)
  BY <1>14, <1>15 DEF SetToSeqs
<1>17. AddressesOf(order) = [i \in DOMAIN s |-> s[i][2]]
  BY <1>1, <1>13, <1>14 DEF AddressesOf, s, n
<1>18. AddressesOf(order) \in Listings(hits, twice)
  BY <1>16, <1>17 DEF Listings, S
<1> QED BY <1>11, <1>12, <1>18 DEF SweepResults

\* scan_subnets keeps the contract TcpDiscovery is built on: in whatever order
\* the matches were pushed, the list it returns is one of an answering set of
\* addresses of its subnets, and repeats only those of two subnets.
THEOREM SweepFitsDiscovery ==
  ASSUME ScanOfDiscovery
  PROVE  Spec => [](phase = "done" =>
                      \A order \in PushOrders : AddressesOf(order) \in SweepResults(open))
<1>1. ASSUME IInv, WithinSubnets, MatchesAnswer, phase = "done", NEW order \in PushOrders
      PROVE  AddressesOf(order) \in SweepResults(open)
  <2>1. matches \subseteq spawned /\ spawned \subseteq Drawn
    BY <1>1 DEF IInv, TaskInv, TasksPlaced, Drawn
  <2>2. \/ matches \subseteq PriorityTasks \union RawTasks
        \/ matches \subseteq PriorityTasks \union SweepTasks
    BY <1>1, <2>1 DEF IInv, RouteInv, DrawnInPhase
  <2>3. \A t \in matches : t.addr \in open /\ t.addr[1] \in Swept
    BY <1>1, <2>1 DEF WithinSubnets, MatchesAnswer, ScanOfDiscovery
  <2> QED BY <1>1, <2>2, <2>3, ListIsResult DEF PushOrders
<1>2. Spec => []WithinSubnets
  BY WithinSubnetsHolds DEF ScanOfDiscovery
<1>3. IInv /\ WithinSubnets /\ MatchesAnswer =>
        (phase = "done" =>
           \A order \in PushOrders : AddressesOf(order) \in SweepResults(open))
  BY <1>1
<1> QED BY <1>2, <1>3, Inductive, MatchesAnswerHolds, PTL
=============================================================================
