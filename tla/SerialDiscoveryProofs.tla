----------------------- MODULE SerialDiscoveryProofs -----------------------
(***************************************************************************)
(* Theorems about SerialDiscovery, for any finite set of ports, any number *)
(* of passes and retries: an undisturbed sweep returns every port that     *)
(* answers and that no older thread holds, the preferred port comes first, *)
(* and every pass keeps what PollWatch expects of one.  About              *)
(* SerialStreaming, for a channel of any capacity: a probing pass that     *)
(* discover_streaming returns from has called back every match that did    *)
(* not meet a full channel.                                                *)
(***************************************************************************)
EXTENDS SerialStreaming, PassContract, FiniteSetTheorems, FunctionTheorems,
        SequenceTheorems, TLAPS

----------------------------------------------------------------------------
(* Lists of ports.                                                         *)

\* A list of a set of ports is a sequence of ports.
LEMMA ListsArePorts ==
  ASSUME NEW S \in SUBSET Ports, NEW s \in SetToSeqs(S)
  PROVE  s \in Seq(Ports)
<1>1. Cardinality(S) \in Nat
  BY SerialDiscoveryAssumption, FS_Subset, FS_CardinalityType
<1>2. s \in [1..Cardinality(S) -> S]
  BY DEF SetToSeqs
<1> QED BY <1>1, <1>2

\* A list of a set of ports names each of them once, and no other.
LEMMA ListsNamePorts ==
  ASSUME NEW S \in SUBSET Ports, NEW s \in SetToSeqs(S)
  PROVE  IsInjective(s) /\ ToSet(s) = S
<1> DEFINE D == 1..Cardinality(S)
<1>1. IsFiniteSet(S) /\ Cardinality(S) \in Nat
  BY SerialDiscoveryAssumption, FS_Subset, FS_CardinalityType
<1>2. s \in [D -> S] /\ \A i, j \in D : s[i] = s[j] => i = j
  BY DEF SetToSeqs
<1>3. s \in Injection(D, S)
  BY <1>2, Fun_IsInj
<1>4. Cardinality(D) = Cardinality(S)
  BY <1>1, FS_Interval
<1>5. s \in Surjection(D, S)
  BY <1>1, <1>3, <1>4, FS_Injection
<1>6. \A x \in S : \E i \in D : s[i] = x
  BY <1>5 DEF Surjection
<1> QED BY <1>2, <1>6 DEF ToSet, IsInjective

\* A match collected is among the results, with all that were there.
LEMMA CollectAdds ==
  ASSUME NEW s \in Seq(Ports), NEW p \in Ports
  PROVE  /\ Append(s, p) \in Seq(Ports) /\ Append(s, p) # <<>>
         /\ ToSet(s) \subseteq ToSet(Append(s, p)) /\ p \in ToSet(Append(s, p))
<1>1. /\ Append(s, p) \in Seq(Ports) /\ DOMAIN Append(s, p) = 1..Len(s) + 1
      /\ DOMAIN s = 1..Len(s) /\ Len(s) \in Nat
      /\ \A k \in 1..Len(s) : Append(s, p)[k] = s[k]
      /\ Append(s, p)[Len(s) + 1] = p /\ Append(s, p) # <<>>
  OBVIOUS
<1> DEFINE t == Append(s, p)
<1>2. /\ t \in Seq(Ports) /\ DOMAIN t = 1..Len(s) + 1
      /\ \A k \in 1..Len(s) : t[k] = s[k]
      /\ t[Len(s) + 1] = p /\ t # <<>>
  BY <1>1
<1> HIDE DEF t
<1>3. p \in ToSet(t)
  BY <1>1, <1>2 DEF ToSet
<1>4. ASSUME NEW x \in ToSet(s) PROVE x \in ToSet(t)
  <2>1. PICK k \in 1..Len(s) : s[k] = x
    BY <1>1 DEF ToSet
  <2>2. k \in DOMAIN t /\ t[k] = x
    BY <1>1, <1>2, <2>1
  <2> QED BY <2>2 DEF ToSet
<1>5. ToSet(s) \subseteq ToSet(t)
  BY <1>4
<1> QED BY <1>2, <1>3, <1>5 DEF t

----------------------------------------------------------------------------
(* The inductive invariant.                                                *)

\* A pass goes forward: the attempts on the preferred port are counted until
\* the sweep, tasks live only while the sweep spawns and joins, and a result
\* has a task behind it or is the preferred port.
Progress ==
  /\ pc \in {"preferred", "retry"} => attempt <= Retries
  /\ pc \in {"ports", "spawn", "join"} /\ Preferred # NoPort => attempt = Retries + 1
  /\ pc = "list" => attempt = 0 /\ mode = "list"
  /\ pc \in {"preferred", "retry"} => Preferred # NoPort
  /\ pc \in {"list", "preferred", "retry", "ports", "spawn"} => result = <<>>
  /\ pc \in {"list", "preferred", "retry", "ports"} =>
       unspawned = {} /\ \A p \in Ports : task[p] = "none"
  /\ pc \notin {"spawn", "join"} => \A p \in Ports : task[p] \in {"none", "joined"}
  /\ pc = "join" /\ result # <<>> => \E p \in Ports : task[p] = "joined"

\* What becomes of a listed port that answers.
Covered ==
  /\ cancelled => disturbed
  /\ ~disturbed /\ pc # "spawn" => unspawned = {}
  /\ ~disturbed /\ (pc \in {"spawn", "join"} \/ Swept) =>
       \A p \in listed :
         behaviour[p] = "answers" =>
           \/ p \in unspawned
           \/ task[p] \in {"spawned", "match"}
           \/ p \in ToSet(result) \union blocked

IInv == TypeOK /\ Progress /\ Covered /\ PreferredFirst

\* A process starts in the invariant.
LEMMA InvInit == Init => IInv
<1> SUFFICES ASSUME Init PROVE IInv
  OBVIOUS
<1>1. <<>> \in Seq(Ports) /\ attempt \in 0..Retries + 1 /\ pass \in 0..MaxPasses
  BY SerialDiscoveryAssumption DEF Init
<1>2. TypeOK
  BY <1>1 DEF Init, TypeOK
<1>3. Progress /\ Covered
  BY DEF Init, Progress, Covered, Swept
<1>4. PreferredFirst
  BY DEF Init, PreferredFirst
<1> QED BY <1>2, <1>3, <1>4 DEF IInv

\* Every step of a pass, of the blocking threads and of the user keeps the types.
LEMMA TypeStep == IInv /\ [Next]_vars => TypeOK'
<1> SUFFICES ASSUME TypeOK, Progress, [Next]_vars PROVE TypeOK'
  BY DEF IInv
<1> USE SerialDiscoveryAssumption DEF TypeOK, setup, sweep
<1>1. CASE UNCHANGED vars
  BY <1>1 DEF vars
<1>2. CASE Cancel \/ Reset
  BY <1>2 DEF Cancel, Reset
<1>3. CASE StartPass
  <2>1. <<>> \in Seq(Ports) /\ pass' \in 0..MaxPasses
    BY <1>3 DEF StartPass
  <2> QED BY <1>3, <2>1 DEF StartPass
<1>4. CASE ListAllPorts
  <2>1. listed' \subseteq Ports /\ result' \in Seq(Ports)
    BY <1>4, ListsArePorts DEF ListAllPorts
  <2>2. unspawned' \subseteq listed'
    BY <1>4 DEF ListAllPorts, Progress
  <2> QED BY <1>4, <2>1, <2>2 DEF ListAllPorts
<1>5. CASE PreferredCancelled \/ PreferredSilent \/ RetryDelay
  BY <1>5 DEF PreferredCancelled, PreferredSilent, RetryLeft, RetryDelay, Progress
<1>6. CASE PreferredAnswers
  <2>1. Preferred \in Ports
    BY <1>6 DEF PreferredAnswers, Progress
  <2>2. result' \in Seq(Ports)
    BY <1>6, <2>1 DEF PreferredAnswers
  <2> QED BY <1>6, <2>2 DEF PreferredAnswers, Progress
<1>7. CASE ListPorts \/ ListPortsFails \/ SpawnLoopEnds \/ SweepReturns
  BY <1>7 DEF ListPorts, ListPortsFails, SpawnLoopEnds, SweepReturns
<1>8. ASSUME NEW p \in Ports,
             SpawnTask(p) \/ OpenPort(p) \/ ThreadEnds(p) \/ BudgetExpires(p) \/ LeftoverEnds(p)
      PROVE  TypeOK'
  <2>1. CASE SpawnTask(p)
    BY <2>1 DEF SpawnTask
  <2>2. CASE OpenPort(p)
    BY <2>2 DEF OpenPort
  <2>3. CASE ThreadEnds(p)
    BY <2>3 DEF ThreadEnds
  <2>4. CASE BudgetExpires(p)
    BY <2>4 DEF BudgetExpires
  <2>5. CASE LeftoverEnds(p)
    BY <2>5 DEF LeftoverEnds
  <2> QED BY <1>8, <2>1, <2>2, <2>3, <2>4, <2>5
<1>9. ASSUME NEW p \in Ports, JoinCancelled(p) PROVE TypeOK'
  BY <1>9 DEF JoinCancelled, AbortTasks
<1>10. ASSUME NEW p \in Ports, JoinTask(p) PROVE TypeOK'
  <2>1. result' \in Seq(Ports)
    BY <1>10, CollectAdds DEF JoinTask
  <2> QED BY <1>10, <2>1 DEF JoinTask
<1>11. CASE Abandon
  <2>1. <<>> \in Seq(Ports)
    OBVIOUS
  <2> QED BY <1>11, <2>1 DEF Abandon, AbortTasks
<1> QED
  BY <1>1, <1>2, <1>3, <1>4, <1>5, <1>6, <1>7, <1>8, <1>9, <1>10, <1>11 DEF Next, Discovery, DiscoveryControl

\* Every step keeps the order of a pass.
LEMMA ProgressStep == IInv /\ [Next]_vars => Progress'
<1> SUFFICES ASSUME TypeOK, Progress, [Next]_vars PROVE Progress'
  BY DEF IInv
<1> USE SerialDiscoveryAssumption DEF TypeOK, Progress, setup, sweep
<1>1. CASE UNCHANGED vars
  BY <1>1 DEF vars
<1>2. CASE Cancel \/ Reset
  BY <1>2 DEF Cancel, Reset
<1>3. CASE StartPass
  BY <1>3 DEF StartPass
<1>4. CASE ListAllPorts
  BY <1>4 DEF ListAllPorts
<1>5. CASE PreferredCancelled \/ PreferredAnswers \/ PreferredSilent \/ RetryDelay
  BY <1>5 DEF PreferredCancelled, PreferredAnswers, PreferredSilent, RetryLeft, RetryDelay
<1>6. CASE ListPorts \/ ListPortsFails \/ SpawnLoopEnds
  BY <1>6 DEF ListPorts, ListPortsFails, SpawnLoopEnds
<1>7. CASE SweepReturns
  BY <1>7 DEF SweepReturns, AllJoined
<1>8. ASSUME NEW p \in Ports,
             SpawnTask(p) \/ OpenPort(p) \/ ThreadEnds(p) \/ BudgetExpires(p)
      PROVE  Progress'
  <2>1. /\ UNCHANGED <<pc, attempt, mode, result>>
        /\ pc # "spawn" => unspawned' = unspawned
        /\ \A q \in Ports : task[q] \in {"none", "joined"} /\ pc # "spawn" => task'[q] = task[q]
        /\ \A q \in Ports : task[q] = "joined" /\ pc = "join" => task'[q] = task[q]
    BY <1>8 DEF SpawnTask, OpenPort, ThreadEnds, BudgetExpires
  <2> QED BY <2>1
<1>9. ASSUME NEW p \in Ports, LeftoverEnds(p) PROVE Progress'
  BY <1>9 DEF LeftoverEnds
<1>10. ASSUME NEW p \in Ports, JoinCancelled(p) PROVE Progress'
  BY <1>10 DEF JoinCancelled, AbortTasks
<1>11. ASSUME NEW p \in Ports, JoinTask(p) PROVE Progress'
  BY <1>11 DEF JoinTask
<1>12. CASE Abandon
  BY <1>12 DEF Abandon, AbortTasks
<1> QED
  BY <1>1, <1>2, <1>3, <1>4, <1>5, <1>6, <1>7, <1>8, <1>9, <1>10, <1>11, <1>12
     DEF Next, Discovery, DiscoveryControl

\* Every step of an undisturbed sweep keeps an answering port in its sight.
LEMMA CoveredStep == IInv /\ [Next]_vars => Covered'
<1> SUFFICES ASSUME TypeOK, Progress, Covered, [Next]_vars PROVE Covered'
  BY DEF IInv
<1> USE SerialDiscoveryAssumption DEF setup, sweep
<1>1. CASE UNCHANGED vars
  BY <1>1 DEF vars, Covered, Swept
<1>2. CASE Cancel \/ Reset
  BY <1>2 DEF Cancel, Reset, Covered, Swept
<1>3. CASE StartPass
  BY <1>3 DEF StartPass, Covered, Swept
<1>4. CASE \/ ListAllPorts \/ PreferredCancelled \/ PreferredAnswers \/ PreferredSilent
           \/ RetryDelay \/ ListPortsFails
  BY <1>4 DEF ListAllPorts, PreferredCancelled, PreferredAnswers, PreferredSilent,
     RetryDelay, ListPortsFails, Covered, Swept, Progress
<1>5. CASE ListPorts
  BY <1>5 DEF ListPorts, Covered
<1>6. CASE SpawnLoopEnds
  BY <1>6 DEF SpawnLoopEnds, Covered
<1>7. CASE SweepReturns
  BY <1>7 DEF SweepReturns, Covered
<1>8. ASSUME NEW p \in Ports,
             SpawnTask(p) \/ OpenPort(p) \/ ThreadEnds(p) \/ BudgetExpires(p)
      PROVE  Covered'
  <2>1. /\ UNCHANGED <<cancelled, disturbed, pc, listed, behaviour, result>>
        /\ pc # "spawn" => unspawned' = unspawned
        /\ pc = "returned" => task' = task
        /\ blocked \subseteq blocked'
    BY <1>8 DEF SpawnTask, OpenPort, ThreadEnds, BudgetExpires, Progress, TypeOK
  <2>2. ASSUME ~disturbed, NEW q \in listed, behaviour[q] = "answers",
               \/ q \in unspawned
               \/ task[q] \in {"spawned", "match"}
               \/ q \in ToSet(result) \union blocked
        PROVE  \/ q \in unspawned'
               \/ task'[q] \in {"spawned", "match"}
               \/ q \in ToSet(result) \union blocked'
    <3>1. CASE SpawnTask(p)
      BY <2>2, <3>1 DEF SpawnTask, TypeOK
    <3>2. CASE OpenPort(p)
      BY <2>2, <3>2 DEF OpenPort, TypeOK
    <3>3. CASE ThreadEnds(p)
      BY <2>2, <3>3 DEF ThreadEnds, TypeOK
    <3>4. CASE BudgetExpires(p)
      BY <2>2, <3>4 DEF BudgetExpires, OutOfBudget, TypeOK
    <3> QED BY <1>8, <3>1, <3>2, <3>3, <3>4
  <2> QED BY <2>1, <2>2 DEF Covered, Swept
<1>9. ASSUME NEW p \in Ports, LeftoverEnds(p) PROVE Covered'
  BY <1>9 DEF LeftoverEnds, Covered, Swept
<1>10. ASSUME NEW p \in Ports, JoinCancelled(p) PROVE Covered'
  BY <1>10 DEF JoinCancelled, Covered
<1>11. ASSUME NEW p \in Ports, JoinTask(p) PROVE Covered'
  <2>1. /\ UNCHANGED <<cancelled, disturbed, pc, listed, behaviour, unspawned, blocked>>
        /\ pc = "join"
        /\ task' = [task EXCEPT ![p] = "joined"]
    BY <1>11 DEF JoinTask
  <2>2. ToSet(result) \subseteq ToSet(result') /\ (task[p] = "match" => p \in ToSet(result'))
    BY <1>11, CollectAdds DEF JoinTask, TypeOK
  <2>3. task[p] # "spawned"
    BY <1>11 DEF JoinTask
  <2>4. \A q \in Ports : q # p => task'[q] = task[q]
    BY <2>1 DEF TypeOK
  <2>5. listed \subseteq Ports
    BY DEF TypeOK
  <2> QED BY <2>1, <2>2, <2>3, <2>4, <2>5 DEF Covered
<1>12. CASE Abandon
  BY <1>12 DEF Abandon, Covered
<1> QED
  BY <1>1, <1>2, <1>3, <1>4, <1>5, <1>6, <1>7, <1>8, <1>9, <1>10, <1>11, <1>12
     DEF Next, Discovery, DiscoveryControl

\* Every step keeps the preferred port first.
LEMMA OrderStep == IInv /\ [Next]_vars => PreferredFirst'
<1> SUFFICES ASSUME TypeOK, Progress, Progress', PreferredFirst, [Next]_vars
             PROVE  PreferredFirst'
  BY ProgressStep DEF IInv
<1> USE SerialDiscoveryAssumption DEF setup, sweep
<1>1. CASE UNCHANGED vars
  BY <1>1 DEF vars, PreferredFirst
<1>2. CASE Cancel \/ Reset
  BY <1>2 DEF Cancel, Reset, PreferredFirst
<1>3. CASE StartPass
  BY <1>3 DEF StartPass, PreferredFirst
<1>4. CASE ListAllPorts
  BY <1>4 DEF ListAllPorts, PreferredFirst, Progress
<1>5. CASE PreferredAnswers
  <2>1. result' = <<Preferred>> /\ pc' = "returned"
    BY <1>5 DEF PreferredAnswers
  <2> QED BY <2>1 DEF PreferredFirst
<1>6. CASE PreferredCancelled \/ PreferredSilent \/ RetryDelay \/ ListPortsFails
  BY <1>6 DEF PreferredCancelled, PreferredSilent, RetryDelay, ListPortsFails,
     PreferredFirst, Progress
<1>7. CASE ListPorts \/ SpawnLoopEnds \/ SweepReturns
  BY <1>7 DEF ListPorts, SpawnLoopEnds, SweepReturns, PreferredFirst, Progress
<1>8. ASSUME NEW p \in Ports,
             SpawnTask(p) \/ OpenPort(p) \/ ThreadEnds(p) \/ BudgetExpires(p)
      PROVE  PreferredFirst'
  <2>1. /\ UNCHANGED <<pc, attempt, mode, result>>
        /\ \A q \in Ports : task'[q] = "none" => task[q] = "none"
    BY <1>8 DEF SpawnTask, OpenPort, ThreadEnds, BudgetExpires, TypeOK
  <2> QED BY <2>1 DEF PreferredFirst
<1>9. ASSUME NEW p \in Ports, LeftoverEnds(p) PROVE PreferredFirst'
  BY <1>9 DEF LeftoverEnds, PreferredFirst
<1>10. ASSUME NEW p \in Ports, JoinCancelled(p) PROVE PreferredFirst'
  <2>1. /\ UNCHANGED <<attempt, mode, result>> /\ pc' = "returned"
        /\ task'[p] = "joined"
    BY <1>10 DEF JoinCancelled, AbortTasks
  <2> QED BY <2>1 DEF PreferredFirst
<1>11. ASSUME NEW p \in Ports, JoinTask(p) PROVE PreferredFirst'
  <2>1. /\ UNCHANGED <<attempt, mode, pc>> /\ pc = "join"
        /\ task'[p] = "joined"
    BY <1>11 DEF JoinTask, TypeOK
  <2> QED BY <2>1 DEF PreferredFirst
<1>12. CASE Abandon
  BY <1>12 DEF Abandon, PreferredFirst
<1> QED
  BY <1>1, <1>2, <1>3, <1>4, <1>5, <1>6, <1>7, <1>8, <1>9, <1>10, <1>11, <1>12
     DEF Next, Discovery, DiscoveryControl

----------------------------------------------------------------------------
(* The theorems.                                                           *)

\* The invariant holds in every state of every sequence of passes.
THEOREM Inductive == Spec => []IInv
<1>1. IInv /\ [Next]_vars => IInv'
  BY TypeStep, ProgressStep, CoveredStep, OrderStep DEF IInv
<1> QED BY InvInit, <1>1, PTL DEF Spec

\* The variables of a pass of run_discovery keep their types; in particular the
\* preferred port is tried preferred_retry + 1 times at most.
THEOREM TypeCorrect == Spec => []TypeOK
<1>1. IInv => TypeOK
  BY DEF IInv
<1> QED BY Inductive, <1>1, PTL

\* An undisturbed sweep_all_ports returns every listed port that answers within
\* the budget and that no thread of an earlier pass holds.
THEOREM AnsweringIsFoundHolds == Spec => []AnsweringIsFound
<1>1. IInv => AnsweringIsFound
  <2> SUFFICES ASSUME TypeOK, Progress, Covered, Swept, ~disturbed,
                      NEW p \in listed, behaviour[p] = "answers"
               PROVE  p \in ToSet(result) \union blocked
    BY DEF IInv, AnsweringIsFound
  <2>1. p \in Ports /\ unspawned = {} /\ task[p] \in {"none", "joined"}
    BY DEF TypeOK, Progress, Covered, Swept
  <2> QED BY <2>1 DEF Covered
<1> QED BY Inductive, <1>1, PTL

\* run_discovery opens no other port before the preferred one was tried in vain as
\* often as configured, and returns it alone when it answers.
THEOREM PreferredFirstHolds == Spec => []PreferredFirst
<1>1. IInv => PreferredFirst
  BY DEF IInv
<1> QED BY Inductive, <1>1, PTL

----------------------------------------------------------------------------
(* A pass, as PollWatch sees it.                                           *)

\* A sequence of ports that names none twice is a list of the ports it names.
LEMMA OnceIsListed ==
  ASSUME NEW s \in Seq(Ports), IsInjective(s)
  PROVE  s \in SetToSeqs(ToSet(s))
<1> DEFINE D == 1..Len(s)
           S == ToSet(s)
<1>1. DOMAIN s = D /\ Len(s) \in Nat
  OBVIOUS
<1>2. s \in [D -> S] /\ \A x \in S : \E i \in D : s[i] = x
  BY <1>1 DEF ToSet
<1>3. s \in Injection(D, S) /\ s \in Surjection(D, S)
  BY <1>1, <1>2, Fun_IsInj, Fun_IsSurj DEF IsInjective
<1>4. IsFiniteSet(D) /\ Cardinality(D) = Len(s)
  <2>1. 1 \in Int /\ Len(s) \in Int
    BY <1>1
  <2>2. /\ IsFiniteSet(1..Len(s))
        /\ Cardinality(1..Len(s)) = IF 1 > Len(s) THEN 0 ELSE Len(s) - 1 + 1
    BY ONLY <2>1, FS_Interval, Zenon
  <2>3. (IF 1 > Len(s) THEN 0 ELSE Len(s) - 1 + 1) = Len(s)
    BY ONLY <1>1
  <2> QED BY <2>2, <2>3
<1>5. Cardinality(S) = Len(s)
  BY <1>3, <1>4, FS_Surjection
<1>6. \A i, j \in D : i # j => s[i] # s[j]
  BY <1>1 DEF IsInjective
<1> QED BY ONLY <1>2, <1>5, <1>6 DEF SetToSeqs

\* A port that is not in the result yet is appended to it once.
LEMMA CollectOnce ==
  ASSUME NEW s \in Seq(Ports), NEW p \in Ports, IsInjective(s), p \notin ToSet(s)
  PROVE  IsInjective(Append(s, p)) /\ ToSet(Append(s, p)) = ToSet(s) \union {p}
<1> DEFINE t == Append(s, p)
<1>1. /\ DOMAIN t = 1..Len(s) + 1 /\ DOMAIN s = 1..Len(s) /\ Len(s) \in Nat
      /\ \A k \in 1..Len(s) : t[k] = s[k]
      /\ t[Len(s) + 1] = p
  OBVIOUS
<1> HIDE DEF t
<1>2. \A k \in 1..Len(s) : s[k] \in ToSet(s)
  BY <1>1 DEF ToSet
<1>3. IsInjective(t)
  BY <1>1, <1>2 DEF IsInjective
<1>4. ASSUME NEW k \in DOMAIN t PROVE t[k] \in ToSet(s) \union {p}
  <2>1. k = Len(s) + 1 \/ k \in 1..Len(s)
    BY <1>1
  <2> QED BY <1>1, <1>2, <2>1
<1>5. ToSet(s) \union {p} \subseteq ToSet(t)
  BY CollectAdds DEF t
<1>6. ToSet(t) = ToSet(s) \union {p}
  BY ONLY <1>4, <1>5 DEF ToSet
<1> QED BY <1>3, <1>6 DEF t

\* What the result is made of: ports that answered, each of them once and joined,
\* or, without a probe, the ports listed; and every port listed gets its task.
Gathered ==
  /\ IsInjective(result)
  /\ \A p \in Ports : task[p] = "match" => behaviour[p] \in {"answers", "slow"}
  /\ mode = "probe" => \A p \in ToSet(result) : behaviour[p] \notin {"silent", "stalled"}
  /\ mode = "probe" => \A p \in listed : p \in unspawned \/ task[p] # "none"
  /\ pc = "join" => mode = "probe" /\ \A p \in ToSet(result) : task[p] = "joined"
  /\ pc \in {"preferred", "retry", "ports", "spawn"} => mode = "probe"
  /\ mode = "list" /\ pc = "returned" => ToSet(result) = listed

\* A process has gathered nothing yet.
LEMMA GatheredInit == Init => Gathered
<1> SUFFICES ASSUME Init PROVE Gathered
  OBVIOUS
<1>1. DOMAIN result = {}
  BY DEF Init
<1>2. ToSet(result) = {} /\ IsInjective(result)
  BY <1>1 DEF ToSet, IsInjective
<1> QED BY <1>2 DEF Init, Gathered

\* Every step of a pass, of the threads and of the user keeps that.
LEMMA GatheredStep == IInv /\ Gathered /\ [Next]_vars => Gathered'
<1> SUFFICES ASSUME TypeOK, Progress, Gathered, [Next]_vars PROVE Gathered'
  BY DEF IInv
<1> USE SerialDiscoveryAssumption DEF setup, sweep
<1>0. IsInjective(<<>>) /\ ToSet(<<>>) = {}
  BY DEF IsInjective, ToSet
<1>1. CASE UNCHANGED vars
  BY <1>1 DEF vars, Gathered
<1>2. CASE Cancel \/ Reset
  BY <1>2 DEF Cancel, Reset, Gathered
<1>3. CASE StartPass
  <2>1. mode' \in {"list", "probe"}
    BY <1>3 DEF StartPass
  <2> QED BY <1>0, <1>3, <2>1 DEF StartPass, Gathered
<1>4. CASE ListAllPorts
  <2>1. PICK ports \in SUBSET Ports : listed' = ports /\ result' \in SetToSeqs(ports)
    BY <1>4 DEF ListAllPorts
  <2>2. IsInjective(result') /\ ToSet(result') = ports
    BY <2>1, ListsNamePorts
  <2>3. mode' = "list" /\ pc' = "returned" /\ UNCHANGED <<behaviour, task>>
    BY <1>4 DEF ListAllPorts, Progress
  <2> QED BY <2>1, <2>2, <2>3 DEF Gathered
<1>5. CASE PreferredAnswers
  <2>1. /\ result' = <<Preferred>> /\ Preferred \in Ports
        /\ behaviour[Preferred] \notin {"silent", "stalled"}
        /\ pc = "preferred" /\ pc' = "returned" /\ UNCHANGED <<behaviour, mode, task, listed, unspawned>>
    BY <1>5 DEF PreferredAnswers, Progress
  <2>2. DOMAIN result' = {1} /\ result'[1] = Preferred
    BY <2>1
  <2>3. IsInjective(result') /\ ToSet(result') = {Preferred}
    BY ONLY <2>2 DEF IsInjective, ToSet
  <2> QED BY <2>1, <2>3 DEF Gathered
<1>6. CASE PreferredCancelled \/ PreferredSilent \/ RetryDelay \/ ListPortsFails
  BY <1>6 DEF PreferredCancelled, PreferredSilent, RetryDelay, ListPortsFails, Gathered
<1>7. CASE ListPorts \/ SpawnLoopEnds \/ SweepReturns
  BY <1>0, <1>7 DEF ListPorts, SpawnLoopEnds, SweepReturns, Gathered, Progress
<1>8. ASSUME NEW p \in Ports,
             SpawnTask(p) \/ OpenPort(p) \/ ThreadEnds(p) \/ BudgetExpires(p)
      PROVE  Gathered'
  <2>1. UNCHANGED <<pc, mode, listed, behaviour, result>> /\ unspawned \ {p} \subseteq unspawned'
    BY <1>8 DEF SpawnTask, OpenPort, ThreadEnds, BudgetExpires
  <2>2. \A q \in Ports : /\ q # p => task'[q] = task[q]
                         /\ task[q] = "joined" /\ pc # "spawn" => task'[q] = "joined"
                         /\ task[q] # "none" => task'[q] # "none"
    BY <1>8 DEF SpawnTask, OpenPort, ThreadEnds, BudgetExpires, TypeOK
  <2>3. task'[p] # "none" \/ (p \in unspawned => p \in unspawned')
    BY <1>8 DEF SpawnTask, OpenPort, ThreadEnds, BudgetExpires, TypeOK
  <2>4. task'[p] = "match" => task[p] = "match" \/ behaviour[p] \in {"answers", "slow"}
    BY <1>8 DEF SpawnTask, OpenPort, ThreadEnds, BudgetExpires, TypeOK
  <2>5. ToSet(result) \subseteq Ports /\ listed \subseteq Ports
    BY DEF TypeOK, ToSet
  <2> QED BY <2>1, <2>2, <2>3, <2>4, <2>5 DEF Gathered
<1>9. ASSUME NEW p \in Ports, LeftoverEnds(p) PROVE Gathered'
  BY <1>9 DEF LeftoverEnds, Gathered
<1>10. ASSUME NEW p \in Ports, JoinCancelled(p) PROVE Gathered'
  BY <1>10 DEF JoinCancelled, AbortTasks, Gathered, TypeOK
<1>11. ASSUME NEW p \in Ports, JoinTask(p) PROVE Gathered'
  <2>1. /\ pc = "join" /\ UNCHANGED <<pc, mode, listed, unspawned, behaviour>>
        /\ task[p] \in {"match", "nothing"} /\ task' = [task EXCEPT ![p] = "joined"]
    BY <1>11 DEF JoinTask
  <2>2. p \notin ToSet(result) /\ IsInjective(result) /\ mode = "probe"
    BY <2>1 DEF Gathered
  <2>3. /\ IsInjective(result') /\ ToSet(result') \subseteq ToSet(result) \union {p}
        /\ task[p] # "match" => ToSet(result') = ToSet(result)
    <3>1. CASE task[p] = "match"
      <4>1. result' = Append(result, p) /\ result \in Seq(Ports)
        BY <1>11, <3>1 DEF JoinTask, TypeOK
      <4> QED BY ONLY <2>2, <3>1, <4>1, <1>11, CollectOnce
    <3>2. CASE task[p] # "match"
      BY <1>11, <2>2, <3>2 DEF JoinTask
    <3> QED BY <3>1, <3>2
  <2>4. task'[p] = "joined" /\ \A q \in Ports : q # p => task'[q] = task[q]
    BY <2>1 DEF TypeOK
  <2>5. ToSet(result) \subseteq Ports /\ listed \subseteq Ports
    BY DEF TypeOK, ToSet
  <2> QED BY <2>1, <2>2, <2>3, <2>4, <2>5 DEF Gathered
<1>12. CASE Abandon
  BY <1>0, <1>12 DEF Abandon, AbortTasks, Gathered, TypeOK
<1> QED
  BY <1>1, <1>2, <1>3, <1>4, <1>5, <1>6, <1>7, <1>8, <1>9, <1>10, <1>11, <1>12
     DEF Next, Discovery, DiscoveryControl

\* Every state of every sequence of passes has gathered its result that way.
LEMMA GatheredHolds == Spec => []Gathered
<1>1. IInv /\ Gathered /\ [Next]_vars => Gathered'
  BY GatheredStep
<1> QED BY GatheredInit, <1>1, Inductive, PTL DEF Spec

\* The devices of a pass, for a watch: without a probe the ports that are listed,
\* with one the ports that answer it.  A pass does not look at a port it does not
\* list, which are all when the preferred one answers, nor at one that a thread of
\* an earlier pass holds.
Seen == IF mode = "list" THEN listed
        ELSE {p \in Ports : behaviour[p] \notin {"silent", "stalled"}}
There == IF mode = "list" THEN listed ELSE {p \in Ports : behaviour[p] = "answers"}
Overlooked == (Ports \ listed) \union blocked

PassFits ==
  pc = "returned" => result \in PassResults(Seen, IF disturbed THEN {} ELSE There \ Overlooked)

\* discover() of SerialDiscovery is the pass that poll_watch expects of it: it lists
\* no port twice, none that does not answer, and, undisturbed, every answering port
\* that it looks at.
THEOREM PassFitsWatch == ~Duplicates => (Spec => []PassFits)
<1> SUFFICES ASSUME ~Duplicates PROVE Spec => []PassFits
  OBVIOUS
<1>1. IInv /\ AnsweringIsFound /\ Gathered => PassFits
  <2> SUFFICES ASSUME TypeOK, Progress, Covered, AnsweringIsFound, Gathered, pc = "returned"
               PROVE  result \in PassResults(Seen, IF disturbed THEN {} ELSE There \ Overlooked)
    BY DEF IInv, PassFits
  <2> DEFINE found == ToSet(result)
             least == IF disturbed THEN {} ELSE There \ Overlooked
  <2>1. result \in PassLists(found)
    BY OnceIsListed DEF TypeOK, Gathered, PassLists
  <2>2. found \in SUBSET Seen
    <3>1. found \subseteq Ports
      BY DEF TypeOK, ToSet
    <3>2. mode \in {"list", "probe"}
      BY SerialDiscoveryAssumption DEF TypeOK
    <3> QED BY <3>1, <3>2 DEF Gathered, Seen
  <2>3. least \subseteq found
    <3> SUFFICES ASSUME ~disturbed, NEW p \in There \ Overlooked PROVE p \in found
      OBVIOUS
    <3>1. p \in listed /\ p \in Ports /\ p \notin blocked
      BY DEF There, Overlooked, TypeOK
    <3>2. CASE mode = "list"
      BY <3>1, <3>2 DEF Gathered
    <3>3. CASE mode # "list"
      <4>1. behaviour[p] = "answers" /\ mode = "probe"
        BY <3>3, SerialDiscoveryAssumption DEF There, TypeOK
      <4>2. task[p] = "joined"
        BY <3>1, <4>1 DEF Gathered, Covered, Progress
      <4>3. Swept
        BY <3>1, <4>2 DEF Swept
      <4> QED BY <3>1, <4>1, <4>3 DEF AnsweringIsFound
    <3> QED BY <3>2, <3>3
  <2> HIDE DEF found, least
  <2>4. found \in {f \in SUBSET Seen : least \subseteq f}
    BY ONLY <2>2, <2>3
  <2>5. result \in PassResults(Seen, least)
    BY ONLY <2>1, <2>4 DEF PassResults
  <2> QED BY ONLY <2>5 DEF least
<1> QED BY <1>1, Inductive, AnsweringIsFoundHolds, GatheredHolds, PTL

----------------------------------------------------------------------------
(* discover_streaming.                                                     *)

\* Every step of the callers, of the channel and of the discovery is, for
\* run_discovery, one of its steps or none.
LEMMA StreamStepIsStep == [StreamNext]_<<vars, streamVars>> => [Next]_vars
<1>1. DiscoveryThread => Discovery
  BY DEF DiscoveryThread, Discovery, PreferredSends, JoinSends
<1>2. StartCall => StartPass
  BY DEF StartCall
<1>3. Consumer => UNCHANGED vars
  BY DEF Consumer, Receive, CallbackReturns, CallbackRaises, JoinAndReturn, DiscoverReturns
<1>4. AbandonCall => Abandon
  BY DEF AbandonCall
<1>5. UserStep => Cancel \/ Reset
  BY DEF UserStep
<1> QED BY <1>1, <1>2, <1>3, <1>4, <1>5 DEF StreamNext, Next

\* What holds of run_discovery holds of it when it is called to stream.
LEMMA StreamPasses == StreamSpec => [](IInv /\ Gathered)
<1>1. IInv /\ [Next]_vars => IInv'
  BY TypeStep, ProgressStep, CoveredStep, OrderStep DEF IInv
<1>2. IInv /\ Gathered /\ [Next]_vars => Gathered'
  BY GatheredStep
<1>3. StreamInit => IInv /\ Gathered
  BY InvInit, GatheredInit DEF StreamInit
<1> QED BY <1>1, <1>2, <1>3, StreamStepIsStep, PTL DEF StreamSpec

\* What was called back and what still waits in the channel, in the order sent.
Delivered == called \o channel

\* How the matches delivered relate to those collected.
Accounted(delivered, lost, all) ==
  /\ ToSet(all) = ToSet(delivered) \union lost
  /\ ToSet(delivered) \intersect lost = {}
  /\ IsInjective(delivered)
  /\ InOrder(delivered, all)
  /\ Len(delivered) <= Len(all)
  /\ lost # {} => Len(all) > ChannelCapacity

StreamInv ==
  /\ channel \in Seq(Ports) /\ Len(channel) <= ChannelCapacity
  /\ called \in Seq(Ports)
  /\ dropped \subseteq Ports
  /\ caller = "returned" => channel = <<>> /\ pc \in Ended
  /\ caller \in {"receiving", "calling", "returned"} /\ mode = "probe" =>
       Accounted(Delivered, dropped, result)

\* A match that is collected and sent is accounted for.
LEMMA AccountedSent ==
  ASSUME NEW d \in Seq(Ports), NEW lost \in SUBSET Ports, NEW all \in Seq(Ports),
         NEW m \in Ports, m \notin ToSet(all), IsInjective(all), Accounted(d, lost, all)
  PROVE  Accounted(Append(d, m), lost, Append(all, m))
<1> DEFINE e == Append(d, m)
           more == Append(all, m)
<1>1. /\ DOMAIN e = 1..Len(d) + 1 /\ DOMAIN d = 1..Len(d) /\ Len(d) \in Nat
      /\ Len(e) = Len(d) + 1
      /\ \A k \in 1..Len(d) : e[k] = d[k]
      /\ e[Len(d) + 1] = m
  OBVIOUS
<1>2. /\ DOMAIN more = 1..Len(all) + 1 /\ DOMAIN all = 1..Len(all) /\ Len(all) \in Nat
      /\ Len(more) = Len(all) + 1
      /\ \A k \in 1..Len(all) : more[k] = all[k]
      /\ more[Len(all) + 1] = m
  OBVIOUS
<1>3. m \notin ToSet(d) /\ m \notin lost
  BY DEF Accounted
<1>4. IsInjective(e) /\ ToSet(e) = ToSet(d) \union {m}
  BY <1>3, CollectOnce DEF Accounted
<1>5. ToSet(more) = ToSet(all) \union {m}
  BY CollectOnce
<1> HIDE DEF e, more
<1>6. ASSUME NEW i \in DOMAIN e, NEW j \in DOMAIN e, i < j
      PROVE  \E k, l \in DOMAIN more : k < l /\ e[i] = more[k] /\ e[j] = more[l]
  <2>1. i \in DOMAIN d /\ e[i] = d[i]
    BY <1>1, <1>6
  <2>2. CASE j = Len(d) + 1
    <3>1. d[i] \in ToSet(all)
      BY <2>1 DEF Accounted, ToSet
    <3>2. PICK k \in DOMAIN all : all[k] = d[i]
      BY <3>1 DEF ToSet
    <3>3. k \in DOMAIN more /\ Len(all) + 1 \in DOMAIN more /\ k < Len(all) + 1 /\ more[k] = all[k]
      BY <1>2
    <3> QED BY <1>1, <1>2, <2>1, <2>2, <3>2, <3>3
  <2>3. CASE j # Len(d) + 1
    <3>1. j \in DOMAIN d /\ e[j] = d[j]
      BY <1>1, <2>3
    <3>2. PICK k, l \in DOMAIN all : k < l /\ d[i] = all[k] /\ d[j] = all[l]
      BY <1>6, <2>1, <3>1 DEF Accounted, InOrder
    <3>3. /\ k \in DOMAIN more /\ l \in DOMAIN more
          /\ more[k] = all[k] /\ more[l] = all[l]
      BY <1>2
    <3> QED BY <2>1, <3>1, <3>2, <3>3
  <2> QED BY <2>2, <2>3
<1>7. InOrder(e, more)
  BY <1>6 DEF InOrder
<1>8. Len(e) <= Len(more) /\ (lost # {} => Len(more) > ChannelCapacity)
  BY <1>1, <1>2, SerialStreamingAssumption DEF Accounted
<1>9. ToSet(more) = ToSet(e) \union lost /\ ToSet(e) \intersect lost = {}
  BY <1>3, <1>4, <1>5 DEF Accounted
<1> QED BY <1>4, <1>7, <1>8, <1>9 DEF Accounted, e, more

\* A match that is collected and meets a full channel is accounted for.
LEMMA AccountedDropped ==
  ASSUME NEW d \in Seq(Ports), NEW lost \in SUBSET Ports, NEW all \in Seq(Ports),
         NEW m \in Ports, m \notin ToSet(all), IsInjective(all), Accounted(d, lost, all),
         Len(d) >= ChannelCapacity
  PROVE  Accounted(d, lost \union {m}, Append(all, m))
<1> DEFINE more == Append(all, m)
<1>1. /\ DOMAIN more = 1..Len(all) + 1 /\ DOMAIN all = 1..Len(all) /\ Len(all) \in Nat
      /\ Len(more) = Len(all) + 1 /\ Len(d) \in Nat
      /\ \A k \in 1..Len(all) : more[k] = all[k]
  OBVIOUS
<1>2. ToSet(more) = ToSet(all) \union {m}
  BY CollectOnce
<1> HIDE DEF more
<1>3. m \notin ToSet(d)
  BY DEF Accounted
<1>4. \A k \in DOMAIN all : k \in DOMAIN more /\ more[k] = all[k]
  BY <1>1
<1>5. InOrder(d, more)
  <2> SUFFICES ASSUME NEW i \in DOMAIN d, NEW j \in DOMAIN d, i < j
               PROVE  \E k, l \in DOMAIN more : k < l /\ d[i] = more[k] /\ d[j] = more[l]
    BY DEF InOrder
  <2>1. PICK k, l \in DOMAIN all : k < l /\ d[i] = all[k] /\ d[j] = all[l]
    BY DEF Accounted, InOrder
  <2> QED BY <1>4, <2>1
<1>6. Len(d) <= Len(more) /\ Len(more) > ChannelCapacity
  BY <1>1, SerialStreamingAssumption DEF Accounted
<1>7. /\ ToSet(more) = ToSet(d) \union (lost \union {m})
      /\ ToSet(d) \intersect (lost \union {m}) = {}
  BY <1>2, <1>3 DEF Accounted
<1>8. IsInjective(d)
  BY DEF Accounted
<1> QED BY <1>5, <1>6, <1>7, <1>8 DEF Accounted, more

\* Before anything is sent, nothing is missing.
LEMMA AccountedFromStart == Accounted(<<>> \o <<>>, {}, <<>>)
<1>1. <<>> \o <<>> = <<>> /\ DOMAIN <<>> = {} /\ Len(<<>>) = 0
  OBVIOUS
<1> QED BY <1>1 DEF Accounted, InOrder, IsInjective, ToSet

\* try_send of a match that is collected keeps the stream in order.
LEMMA SendStep ==
  ASSUME StreamInv, TypeOK, IsInjective(result), NEW m \in Ports, m \notin ToSet(result),
         result' = Append(result, m), mode' = mode, pc \notin Ended, TrySend(m)
  PROVE  StreamInv'
<1>1. caller' = caller /\ called' = called /\ result \in Seq(Ports) /\ caller # "returned"
  BY DEF TrySend, TypeOK, StreamInv
<1>2. /\ channel \in Seq(Ports) /\ called \in Seq(Ports) /\ dropped \in SUBSET Ports
      /\ Delivered \in Seq(Ports) /\ Len(Delivered) = Len(called) + Len(channel)
      /\ Len(called) \in Nat /\ Len(channel) \in Nat
  BY DEF StreamInv, Delivered
<1>3. CASE ReceiverAlive /\ Len(channel) < ChannelCapacity
  <2>1. channel' = Append(channel, m) /\ dropped' = dropped
    BY <1>3 DEF TrySend
  <2>2. channel' \in Seq(Ports) /\ Len(channel') = Len(channel) + 1
    BY <1>2, <2>1
  <2>3. called \o Append(channel, m) = Append(called \o channel, m)
    <3>0. called \in Seq(Ports) /\ channel \in Seq(Ports) /\ m \in Ports
      BY <1>2
    <3>1. <<m>> \in Seq(Ports) /\ called \o channel \in Seq(Ports)
      BY ONLY <3>0
    <3>2. Append(channel, m) = channel \o <<m>>
      BY ONLY <3>0
    <3>3. Append(called \o channel, m) = (called \o channel) \o <<m>>
      BY ONLY <3>0, <3>1
    <3>4. (called \o channel) \o <<m>> = called \o (channel \o <<m>>)
      BY ONLY <3>0, <3>1, ConcatAssociative
    <3> QED BY ONLY <3>2, <3>3, <3>4
  <2>4. Delivered' = Append(Delivered, m)
    BY <1>1, <2>1, <2>3 DEF Delivered
  <2>5. mode' = "probe" => Accounted(Delivered', dropped', result')
    <3>1. ASSUME mode' = "probe" PROVE Accounted(Delivered, dropped, result)
      BY <1>3, <3>1 DEF StreamInv, ReceiverAlive
    <3> QED BY <1>1, <1>2, <2>1, <2>4, <3>1, AccountedSent
  <2>6. Len(channel') <= ChannelCapacity
    BY <1>2, <1>3, <2>2, SerialStreamingAssumption
  <2> QED BY <1>1, <1>2, <2>1, <2>2, <2>5, <2>6 DEF StreamInv
<1>4. CASE ReceiverAlive /\ ~(Len(channel) < ChannelCapacity)
  <2>1. channel' = channel /\ dropped' = dropped \union {m} /\ Delivered' = Delivered
    BY <1>1, <1>4 DEF TrySend, Delivered
  <2>2. mode' = "probe" => Accounted(Delivered', dropped', result')
    <3>1. ASSUME mode' = "probe" PROVE Accounted(Delivered, dropped, result)
      BY <1>4, <3>1 DEF StreamInv, ReceiverAlive
    <3>2. Len(Delivered) >= ChannelCapacity
      BY <1>2, <1>4, SerialStreamingAssumption
    <3> QED BY <1>1, <1>2, <2>1, <3>1, <3>2, AccountedDropped
  <2> QED BY <1>1, <1>2, <2>1, <2>2 DEF StreamInv
<1>5. CASE ~ReceiverAlive
  <2>1. channel' = channel /\ dropped' = dropped
    BY <1>5 DEF TrySend
  <2> QED BY <1>1, <1>2, <1>5, <2>1 DEF StreamInv, ReceiverAlive
<1> QED BY <1>3, <1>4, <1>5

\* The callback takes over the first match of the channel.
LEMMA Receiving ==
  ASSUME NEW s \in Seq(Ports), NEW t \in Seq(Ports), t # <<>>
  PROVE  /\ Append(s, Head(t)) \o Tail(t) = s \o t
         /\ Append(s, Head(t)) \in Seq(Ports) /\ Tail(t) \in Seq(Ports)
         /\ Len(Tail(t)) <= Len(t)
<1>1. Head(t) \in Ports /\ Tail(t) \in Seq(Ports) /\ <<Head(t)>> \o Tail(t) = t /\ Len(Tail(t)) <= Len(t)
  OBVIOUS
<1>2. <<Head(t)>> \in Seq(Ports) /\ Append(s, Head(t)) = s \o <<Head(t)>>
  BY <1>1
<1>3. (s \o <<Head(t)>>) \o Tail(t) = s \o (<<Head(t)>> \o Tail(t))
  BY <1>1, <1>2, ConcatAssociative
<1> QED BY <1>1, <1>2, <1>3

\* The process starts with nothing delivered.
LEMMA StreamInvInit == StreamInit => StreamInv
<1> SUFFICES ASSUME StreamInit PROVE StreamInv
  OBVIOUS
<1>1. <<>> \in Seq(Ports) /\ Len(<<>>) = 0
  OBVIOUS
<1> QED BY <1>1, SerialStreamingAssumption DEF StreamInit, StreamInv

\* Every step of the discovery, of the callers and of the user keeps the account.
LEMMA StreamInvStep ==
  IInv /\ Gathered /\ StreamInv /\ [StreamNext]_<<vars, streamVars>> => StreamInv'
<1> SUFFICES ASSUME TypeOK, Progress, Gathered, StreamInv,
                    [StreamNext]_<<vars, streamVars>>
             PROVE  StreamInv'
  BY DEF IInv
<1>1. ASSUME UNCHANGED streamVars, UNCHANGED <<result, mode>>, pc \in Ended => pc' \in Ended
      PROVE  StreamInv'
  BY <1>1 DEF StreamInv, streamVars, Delivered
<1>2. CASE UNCHANGED <<vars, streamVars>>
  BY <1>1, <1>2 DEF vars, setup
<1>3. CASE DiscoveryControl /\ UNCHANGED streamVars
  <2>1. CASE ListAllPorts
    <3>1. mode' = "list" /\ pc \notin Ended
      BY <2>1 DEF ListAllPorts, Progress, Ended, setup
    <3> QED BY <1>3, <3>1 DEF StreamInv, streamVars
  <2>2. CASE \/ PreferredCancelled \/ PreferredSilent \/ RetryDelay
             \/ ListPorts \/ ListPortsFails \/ SpawnLoopEnds \/ SweepReturns
    BY <1>1, <1>3, <2>2 DEF PreferredCancelled, PreferredSilent, RetryDelay, ListPorts,
       ListPortsFails, SpawnLoopEnds, SweepReturns, setup, Ended
  <2>3. ASSUME NEW p \in Ports, \/ SpawnTask(p) \/ JoinCancelled(p)
                                \/ OpenPort(p) \/ ThreadEnds(p) \/ BudgetExpires(p)
        PROVE  StreamInv'
    BY <1>1, <1>3, <2>3 DEF SpawnTask, JoinCancelled, OpenPort, ThreadEnds, BudgetExpires,
       setup, Ended
  <2> QED BY <1>3, <2>1, <2>2, <2>3 DEF DiscoveryControl
<1>4. CASE PreferredSends
  <2>1. /\ result = <<>> /\ result' = <<Preferred>> /\ Preferred \in Ports
        /\ mode' = mode /\ pc \notin Ended
    BY <1>4, SerialDiscoveryAssumption
       DEF PreferredSends, PreferredAnswers, Progress, setup, Ended
  <2>2. result' = Append(result, Preferred) /\ Preferred \notin ToSet(result)
    BY <2>1 DEF ToSet
  <2>3. IsInjective(result)
    BY DEF Gathered
  <2> QED BY <1>4, <2>1, <2>2, <2>3, SendStep DEF PreferredSends
<1>5. ASSUME NEW p \in Ports, JoinSends(p) PROVE StreamInv'
  <2>1. /\ pc = "join" /\ pc' = pc /\ mode' = mode /\ task[p] \in {"match", "nothing"}
    BY <1>5 DEF JoinSends, JoinTask, setup
  <2>2. CASE task[p] = "match"
    <3>1. result' = Append(result, p) /\ TrySend(p)
      BY <1>5, <2>2 DEF JoinSends, JoinTask
    <3>2. p \notin ToSet(result) /\ IsInjective(result)
      BY <2>1, <2>2 DEF Gathered
    <3> QED BY <2>1, <3>1, <3>2, SendStep DEF Ended
  <2>3. CASE task[p] # "match"
    <3>1. result' = result /\ UNCHANGED streamVars
      BY <1>5, <2>3 DEF JoinSends, JoinTask
    <3> QED BY <1>1, <2>1, <3>1
  <2> QED BY <2>2, <2>3
<1>6. CASE StartCall
  <2>1. channel' = <<>> /\ dropped' = {} /\ called' = <<>> /\ result' = <<>>
        /\ caller' \in {"waiting", "receiving"}
    BY <1>6 DEF StartCall, StartPass
  <2>2. <<>> \in Seq(Ports) /\ Len(<<>>) = 0
    OBVIOUS
  <2>3. Accounted(Delivered', dropped', result')
    BY <2>1, AccountedFromStart DEF Delivered
  <2> QED BY <2>1, <2>2, <2>3, SerialStreamingAssumption DEF StreamInv
<1>7. CASE Receive
  <2>1. /\ caller = "receiving" /\ caller' = "calling" /\ channel # <<>>
        /\ called' = Append(called, Head(channel)) /\ channel' = Tail(channel)
        /\ dropped' = dropped /\ UNCHANGED <<result, mode, pc>>
    BY <1>7 DEF Receive, vars, setup
  <2>2. Delivered' = Delivered /\ channel' \in Seq(Ports) /\ called' \in Seq(Ports)
        /\ Len(channel') <= Len(channel)
    BY <2>1, Receiving DEF Delivered, StreamInv
  <2>3. Len(channel') <= ChannelCapacity
    <3>1. Len(channel) \in Nat /\ Len(channel') \in Nat /\ Len(channel) <= ChannelCapacity
      BY <2>2 DEF StreamInv
    <3> QED BY <2>2, <3>1, SerialStreamingAssumption
  <2> QED BY <2>1, <2>2, <2>3 DEF StreamInv
<1>8. CASE CallbackReturns
  BY <1>8 DEF CallbackReturns, StreamInv, Delivered, vars, setup
<1>9. CASE CallbackRaises
  <2>1. <<>> \in Seq(Ports) /\ Len(<<>>) = 0
    OBVIOUS
  <2> QED BY <1>9, <2>1, SerialStreamingAssumption DEF CallbackRaises, StreamInv
<1>10. CASE JoinAndReturn
  BY <1>10 DEF JoinAndReturn, StreamOver, StreamInv, Delivered, vars, setup
<1>11. CASE DiscoverReturns
  BY <1>11 DEF DiscoverReturns, StreamInv, vars, setup
<1>12. CASE AbandonCall
  BY <1>12 DEF AbandonCall, StreamInv
<1>13. CASE UserStep
  BY <1>1, <1>13 DEF UserStep, Cancel, Reset, setup
<1>14. ASSUME NEW p \in Ports, LeftoverEnds(p), UNCHANGED streamVars PROVE StreamInv'
  BY <1>1, <1>14 DEF LeftoverEnds, setup
<1> QED
  BY <1>2, <1>3, <1>4, <1>5, <1>6, <1>7, <1>8, <1>9, <1>10, <1>11, <1>12, <1>13, <1>14
     DEF StreamNext, DiscoveryThread, Consumer

\* What discover_streaming sends at either of its two places, in any interleaving
\* with the callback, is delivered in order or met a full channel.
THEOREM StreamInductive == StreamSpec => []StreamInv
<1> QED BY StreamInvInit, StreamInvStep, StreamPasses, PTL DEF StreamSpec

\* A probing pass that discover_streaming returns from has called back every
\* match once, in the order of its result, but those that met a full channel.
THEOREM ProbedCalledBackHolds == StreamSpec => []ProbedCalledBack
<1>1. StreamInv => ProbedCalledBack
  <2> SUFFICES ASSUME StreamInv, caller = "returned", mode = "probe"
               PROVE  /\ ToSet(called) \union dropped = ToSet(result)
                      /\ ToSet(called) \intersect dropped = {}
                      /\ IsInjective(called) /\ InOrder(called, result)
                      /\ dropped # {} => Len(result) > ChannelCapacity
    BY DEF ProbedCalledBack
  <2>1. channel = <<>> /\ called \in Seq(Ports) /\ Accounted(Delivered, dropped, result)
    BY DEF StreamInv
  <2>2. Delivered = called
    BY <2>1 DEF Delivered
  <2> QED BY <2>1, <2>2 DEF Accounted
<1> QED BY StreamInductive, <1>1, PTL
=============================================================================
