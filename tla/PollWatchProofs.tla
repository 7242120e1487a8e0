-------------------------- MODULE PollWatchProofs --------------------------
(***************************************************************************)
(* Theorems about PollWatch, for any finite set of devices: the callbacks  *)
(* of a round bring the caller from one result to the next, an undisturbed *)
(* pass removes nobody who stayed, and without duplicates in its passes    *)
(* the watch implements WatchContract.                                     *)
(***************************************************************************)
EXTENDS PollWatch, FiniteSetTheorems, FunctionTheorems, TLAPS

----------------------------------------------------------------------------
(* What a pass returns.                                                    *)

\* A list of a set of devices without repetition names exactly the set.
LEMMA ListsNameTheSet ==
  ASSUME NEW S \in SUBSET Devices, NEW s \in SetToSeqs(S)
  PROVE  /\ s \in Seq(Devices) /\ ToSet(s) = S
         /\ \A i, j \in DOMAIN s : s[i] = s[j] => i = j
<1> DEFINE D == 1..Cardinality(S)
<1>1. IsFiniteSet(S) /\ Cardinality(S) \in Nat
  BY PollWatchAssumption, FS_Subset, FS_CardinalityType
<1>2. s \in [D -> S] /\ \A i, j \in D : s[i] = s[j] => i = j
  BY DEF SetToSeqs
<1>3. DOMAIN s = D /\ s \in Seq(Devices)
  BY <1>1, <1>2
<1>4. s \in Injection(D, S)
  BY <1>2, Fun_IsInj DEF Injection, IsInjective
<1>5. Cardinality(D) = Cardinality(S)
  BY <1>1, FS_Interval
<1>6. s \in Surjection(D, S)
  BY <1>1, <1>4, <1>5, FS_Injection
<1>7. \A x \in S : \E i \in D : s[i] = x
  BY <1>6 DEF Surjection
<1> QED BY <1>2, <1>3, <1>7 DEF ToSet

\* No device comes twice in a list.
Distinct(list) == \A i, j \in DOMAIN list : list[i] = list[j] => i = j

\* Two lists one behind the other name what either names.
LEMMA ListsTogether ==
  ASSUME NEW m \in Seq(Devices), NEW t \in Seq(Devices)
  PROVE  m \o t \in Seq(Devices) /\ ToSet(m \o t) = ToSet(m) \union ToSet(t)
<1> DEFINE s == m \o t
<1>1. /\ s \in Seq(Devices) /\ Len(m) \in Nat /\ Len(t) \in Nat
      /\ DOMAIN s = 1..(Len(m) + Len(t)) /\ DOMAIN m = 1..Len(m) /\ DOMAIN t = 1..Len(t)
      /\ \A i \in 1..Len(m) : s[i] = m[i]
      /\ \A i \in 1..(Len(m) + Len(t)) : i > Len(m) => s[i] = t[i - Len(m)]
  OBVIOUS
<1> HIDE DEF s
<1>2. ASSUME NEW i \in DOMAIN s PROVE s[i] \in ToSet(m) \union ToSet(t)
  <2>1. CASE i <= Len(m)
    <3>1. i \in DOMAIN m /\ s[i] = m[i]
      BY ONLY <1>1, <1>2, <2>1
    <3> QED BY ONLY <3>1 DEF ToSet
  <2>2. CASE i > Len(m)
    <3>1. i - Len(m) \in DOMAIN t /\ s[i] = t[i - Len(m)]
      BY ONLY <1>1, <1>2, <2>2
    <3> QED BY ONLY <3>1 DEF ToSet
  <2>3. i <= Len(m) \/ i > Len(m)
    BY ONLY <1>1, <1>2
  <2> QED BY ONLY <2>1, <2>2, <2>3
<1>3. ASSUME NEW i \in DOMAIN m PROVE m[i] \in ToSet(s)
  <2>1. i \in DOMAIN s /\ s[i] = m[i]
    BY ONLY <1>1, <1>3
  <2> QED BY ONLY <2>1 DEF ToSet
<1>4. ASSUME NEW i \in DOMAIN t PROVE t[i] \in ToSet(s)
  <2>1. i + Len(m) \in DOMAIN s /\ i + Len(m) > Len(m) /\ (i + Len(m)) - Len(m) = i
    BY ONLY <1>1, <1>4
  <2>2. s[i + Len(m)] = t[i]
    BY ONLY <1>1, <2>1
  <2> QED BY ONLY <2>1, <2>2 DEF ToSet
<1>5. ToSet(s) = ToSet(m) \union ToSet(t)
  BY ONLY <1>2, <1>3, <1>4 DEF ToSet
<1> QED BY ONLY <1>1, <1>5 DEF s

\* A pass lists the devices it found, none twice unless passes may repeat one.
LEMMA ListingsNameTheSet ==
  ASSUME NEW S \in SUBSET Devices, NEW s \in PassLists(S)
  PROVE  /\ s \in Seq(Devices) /\ ToSet(s) = S
         /\ ~Duplicates => Distinct(s)
<1>1. CASE ~Duplicates
  BY <1>1, ListsNameTheSet DEF PassLists, Distinct
<1>2. CASE Duplicates
  <2>1. s \in InTwoLists(S)
    BY <1>2 DEF PassLists
  <2>2. PICK A \in SUBSET S, B \in SUBSET S : A \union B = S /\ s \in Behind(A, B)
    BY ONLY <2>1 DEF InTwoLists
  <2>3. PICK m \in SetToSeqs(A), t \in SetToSeqs(B) : s = m \o t
    BY ONLY <2>2 DEF Behind
  <2>4. m \in Seq(Devices) /\ ToSet(m) = A /\ t \in Seq(Devices) /\ ToSet(t) = B
    BY ListsNameTheSet
  <2>5. s \in Seq(Devices) /\ ToSet(s) = A \union B
    BY <2>3, <2>4, ListsTogether
  <2> QED BY <1>2, <2>2, <2>5
<1> QED BY <1>1, <1>2

----------------------------------------------------------------------------
(* The inductive invariant.                                                *)

\* The caller's picture, at every point of a round of callbacks.
Picture ==
  /\ pc \in {"check", "tick", "sleep"} => known = ToSet(prev)
  /\ pc \in {"check", "sleep"} => prev = current
  /\ pc = "added" =>
       /\ calls \subseteq AddedBy(prev, current)
       /\ known = ToSet(prev) \union {current[k] : k \in AddedBy(prev, current) \ calls}
  /\ pc = "removed" =>
       /\ calls \subseteq RemovedBy(prev, current)
       /\ known = (ToSet(prev) \union ToSet(current))
                     \ {prev[k] : k \in RemovedBy(prev, current) \ calls}
  /\ pc \notin {"added", "removed"} => calls = {}

\* An undisturbed pass lists all who stayed, but for those it did not look at.
Thorough ==
  pc \in {"added", "removed"} /\ ~disturbed => stable \ overlooked \subseteq ToSet(current)

\* Without duplicates in a pass there are none in what is kept of it.
NoneTwice == ~Duplicates => Distinct(prev) /\ Distinct(current)

IInv == TypeOK /\ Picture /\ Thorough /\ NoneTwice

\* A watch starts in the invariant.
LEMMA InvInit == Init => IInv
<1> SUFFICES ASSUME Init PROVE IInv
  OBVIOUS
<1>1. <<>> \in Seq(Devices) /\ DOMAIN <<>> = {}
  OBVIOUS
<1>2. TypeOK
  BY <1>1 DEF Init, TypeOK
<1>3. Picture /\ Thorough /\ NoneTwice
  BY <1>1 DEF Init, Picture, Thorough, NoneTwice, Distinct, ToSet
<1> QED BY <1>2, <1>3 DEF IInv

\* A step that leaves the watch and what it found alone keeps the invariant.
LEMMA InvSame ==
  ASSUME IInv, UNCHANGED <<disturbed, pc, prev, current, calls, known>>,
         pc \in {"added", "removed"} => stable' = stable /\ overlooked' = overlooked,
         TypeOK'
  PROVE  IInv'
BY DEF IInv, Picture, Thorough, NoneTwice, Distinct

\* Every step of the watch, the devices and the user keeps the invariant.
LEMMA InvStep == IInv /\ [Next]_vars => IInv'
<1> SUFFICES ASSUME IInv, [Next]_vars PROVE IInv'
  OBVIOUS
<1>0. TypeOK /\ Picture /\ Thorough /\ NoneTwice
  BY DEF IInv
<1>1. CASE UNCHANGED vars
  BY <1>0, <1>1, InvSame DEF vars, TypeOK
<1>2. ASSUME NEW d \in Devices, Appear(d) \/ Vanish(d) PROVE IInv'
  BY <1>0, <1>2, InvSame DEF Appear, Vanish, TypeOK
<1>3. CASE Cancel \/ Reset
  <2>1. TypeOK'
    BY <1>0, <1>3 DEF Cancel, Reset, TypeOK, environment
  <2>2. Picture' /\ Thorough' /\ NoneTwice'
    BY <1>0, <1>3 DEF Cancel, Reset, environment, Picture, Thorough, NoneTwice, Distinct
  <2> QED BY <2>1, <2>2 DEF IInv
<1>4. CASE CheckToken
  <2>1. TypeOK'
    BY <1>0, <1>4 DEF CheckToken, TypeOK
  <2>2. Picture' /\ Thorough' /\ NoneTwice'
    BY <1>0, <1>4 DEF CheckToken, Picture, Thorough, NoneTwice, Distinct
  <2> QED BY <2>1, <2>2 DEF IInv
<1>5. CASE Tick
  <2>1. PICK found \in SUBSET glimpsed :
          (disturbed \/ stable \ overlooked' \subseteq found) /\ current' \in PassLists(found)
    BY <1>5 DEF Tick, PassResults
  <2>2. /\ current' \in Seq(Devices) /\ ToSet(current') = found
        /\ ~Duplicates => Distinct(current')
    BY <1>0, <2>1, ListingsNameTheSet DEF TypeOK
  <2>3. /\ pc = "tick" /\ pc' = "added" /\ calls' = AddedBy(prev, current')
        /\ overlooked' \subseteq Devices
        /\ UNCHANGED <<present, stable, glimpsed, cancelled, disturbed, prev, known, beat>>
    BY <1>5, PollWatchAssumption DEF Tick
  <2>4. TypeOK'
    BY <1>0, <2>2, <2>3 DEF TypeOK, AddedBy, Missing
  <2>5. Picture'
    BY <1>0, <2>3 DEF Picture
  <2>6. Thorough' /\ NoneTwice'
    BY <1>0, <2>1, <2>2, <2>3 DEF Thorough, NoneTwice, Distinct
  <2> QED BY <2>4, <2>5, <2>6 DEF IInv
<1>6. CASE TickFails \/ ReturnException \/ WakeCancelled \/ SleepElapsed
  <2>1. TypeOK'
    BY <1>0, <1>6 DEF TickFails, ReturnException, WakeCancelled, SleepElapsed, AfterSleep,
       TypeOK, environment, Picture
  <2>2. Picture' /\ Thorough' /\ NoneTwice'
    BY <1>0, <1>6 DEF TickFails, ReturnException, WakeCancelled, SleepElapsed, AfterSleep,
       environment, Picture, Thorough, NoneTwice, Distinct
  <2> QED BY <2>1, <2>2 DEF IInv
<1>7. ASSUME NEW k \in calls, CallAdded(k) PROVE IInv'
  <2>1. /\ pc = "added" /\ calls' = calls \ {k} /\ known' = known \union {current[k]}
        /\ UNCHANGED <<present, stable, glimpsed, overlooked, cancelled, disturbed, pc, prev, current>>
        /\ beat' = ~beat
    BY <1>7 DEF CallAdded, environment
  <2>2. k \in DOMAIN current /\ current[k] \in Devices
    BY <1>0, <2>1 DEF TypeOK
  <2>3. TypeOK'
    BY <1>0, <2>1, <2>2 DEF TypeOK
  <2>4. Picture'
    <3>1. k \in AddedBy(prev, current)
      BY <1>0, <2>1 DEF Picture
    <3>2. AddedBy(prev, current) \ calls' = (AddedBy(prev, current) \ calls) \union {k}
      BY <2>1, <3>1
    <3> HIDE DEF AddedBy
    <3> QED BY <1>0, <2>1, <3>2 DEF Picture
  <2>5. Thorough' /\ NoneTwice'
    BY <1>0, <2>1 DEF Thorough, NoneTwice, Distinct
  <2> QED BY <2>3, <2>4, <2>5 DEF IInv
<1>8. ASSUME NEW k \in calls, CallRemoved(k) PROVE IInv'
  <2>1. /\ pc = "removed" /\ calls' = calls \ {k} /\ known' = known \ {prev[k]}
        /\ UNCHANGED <<present, stable, glimpsed, overlooked, cancelled, disturbed, pc, prev, current>>
        /\ beat' = ~beat
    BY <1>8 DEF CallRemoved, environment
  <2>2. TypeOK'
    BY <1>0, <2>1 DEF TypeOK
  <2>3. Picture'
    <3>1. k \in RemovedBy(prev, current)
      BY <1>0, <2>1 DEF Picture
    <3>2. RemovedBy(prev, current) \ calls' = (RemovedBy(prev, current) \ calls) \union {k}
      BY <2>1, <3>1
    <3> QED BY <1>0, <2>1, <3>2 DEF Picture
  <2>4. Thorough' /\ NoneTwice'
    BY <1>0, <2>1 DEF Thorough, NoneTwice, Distinct
  <2> QED BY <2>2, <2>3, <2>4 DEF IInv
<1>9. ASSUME NEW k \in calls, CallbackRaises(k) PROVE IInv'
  <2>1. /\ pc \in {"added", "removed"} /\ calls' = {} /\ pc' = "raised"
        /\ UNCHANGED <<present, stable, glimpsed, overlooked, cancelled, disturbed, prev, current>>
        /\ known' \in {known \union {current[k]}, known \ {prev[k]}} /\ beat' = ~beat
        /\ pc = "removed" => known' = known \ {prev[k]}
    BY <1>9 DEF CallbackRaises, environment
  <2>2. known' \subseteq Devices
    <3>1. CASE pc = "added"
      <4>1. current[k] \in Devices
        BY <1>0, <3>1 DEF TypeOK
      <4> QED BY <1>0, <2>1, <4>1 DEF TypeOK
    <3>2. CASE pc = "removed"
      BY <1>0, <2>1, <3>2 DEF TypeOK
    <3> QED BY <2>1, <3>1, <3>2
  <2>3. TypeOK'
    BY <1>0, <2>1, <2>2 DEF TypeOK
  <2>4. Picture' /\ Thorough' /\ NoneTwice'
    BY <1>0, <2>1 DEF Picture, Thorough, NoneTwice, Distinct
  <2> QED BY <2>3, <2>4 DEF IInv
<1>10. CASE AllAdded
  <2>1. /\ pc = "added" /\ calls = {} /\ pc' = "removed" /\ calls' = RemovedBy(prev, current)
        /\ UNCHANGED <<present, stable, glimpsed, overlooked, cancelled, disturbed, prev,
                       current, known, beat>>
    BY <1>10 DEF AllAdded, environment
  <2>2. TypeOK'
    BY <1>0, <2>1 DEF TypeOK, RemovedBy, Missing
  <2>3. known = ToSet(prev) \union ToSet(current)
    BY <1>0, <2>1 DEF Picture, AddedBy, Missing, ToSet
  <2>4. Picture'
    BY <2>1, <2>3 DEF Picture
  <2>5. Thorough' /\ NoneTwice'
    BY <1>0, <2>1 DEF Thorough, NoneTwice, Distinct
  <2> QED BY <2>2, <2>4, <2>5 DEF IInv
<1>11. CASE AllRemoved
  <2>1. /\ pc = "removed" /\ calls = {} /\ pc' = "sleep" /\ prev' = current
        /\ UNCHANGED <<present, stable, glimpsed, overlooked, cancelled, disturbed, current,
                       calls, known, beat>>
    BY <1>11 DEF AllRemoved, NextPrev, environment
  <2>2. TypeOK'
    BY <1>0, <2>1 DEF TypeOK
  <2>3. known = ToSet(current)
    BY <1>0, <2>1 DEF Picture, RemovedBy, Missing, ToSet
  <2>4. Picture' /\ Thorough' /\ NoneTwice'
    BY <1>0, <2>1, <2>3 DEF Picture, Thorough, NoneTwice, Distinct
  <2> QED BY <2>2, <2>4 DEF IInv
<1> QED
  BY <1>1, <1>2, <1>3, <1>4, <1>5, <1>6, <1>7, <1>8, <1>9, <1>10, <1>11 DEF Next, WatchStep

----------------------------------------------------------------------------
(* The theorems.                                                           *)

\* The invariant holds in every state of every behaviour of poll_watch.
THEOREM Inductive == Spec => []IInv
BY InvInit, InvStep, PTL DEF Spec

\* The variables of poll_watch keep their types, and every callback that is due
\* has a device to report.
THEOREM TypeCorrect == Spec => []TypeOK
<1>1. IInv => TypeOK
  BY DEF IInv
<1> QED BY Inductive, <1>1, PTL

\* Between two rounds of poll_watch the caller knows exactly the last result, also
\* when passes list devices twice.
THEOREM KnownIsCurrentHolds == Spec => []KnownIsCurrent
<1>1. IInv => KnownIsCurrent
  BY DEF IInv, Picture, KnownIsCurrent
<1> QED BY Inductive, <1>1, PTL

\* A pass of poll_watch during which nobody set the token gets no device reported
\* as removed that it looked at and that answered throughout.
THEOREM RemovedOnlyIfGoneHolds == Spec => []RemovedOnlyIfGoneUndisturbed
<1>1. IInv => RemovedOnlyIfGoneUndisturbed
  BY DEF IInv, Picture, Thorough, RemovedOnlyIfGoneUndisturbed, RemovedOnlyIfGone,
     RemovedBy, Missing
<1> QED BY Inductive, <1>1, PTL

\* As long as no pass lists a device twice, poll_watch implements WatchContract.
THEOREM ImplementsContract == ~Duplicates => (Spec => KeepsContract)
<1> SUFFICES ASSUME ~Duplicates PROVE Spec => KeepsContract
  OBVIOUS
<1>1. Init => Contract!Init
  BY DEF Init, Contract!Init
<1>2. IInv /\ [Next]_vars => [Contract!Next]_<<known, beat, pc = "returned">>
  <2> SUFFICES ASSUME TypeOK, Picture, NoneTwice, [Next]_vars
               PROVE  \/ Contract!Next
                      \/ UNCHANGED <<known, beat, pc = "returned">>
    BY DEF IInv
  <2>1. CASE UNCHANGED vars
    BY <2>1 DEF vars
  <2>2. ASSUME Cancel \/ Reset \/ \E d \in Devices : Appear(d) \/ Vanish(d)
        PROVE  UNCHANGED <<known, beat, pc>>
    BY <2>2 DEF Cancel, Reset, Appear, Vanish
  <2>3. ASSUME \/ CheckToken \/ Tick \/ TickFails \/ ReturnException \/ AllAdded
               \/ AllRemoved \/ WakeCancelled \/ SleepElapsed
        PROVE  UNCHANGED <<known, beat>> /\ pc # "returned"
    BY <2>3 DEF CheckToken, Tick, TickFails, ReturnException, AllAdded, AllRemoved,
       WakeCancelled, SleepElapsed
  <2>4. ASSUME UNCHANGED <<known, beat>>, pc # "returned"
        PROVE  Contract!Next \/ UNCHANGED <<known, beat, pc = "returned">>
    <3>1. CASE pc' = "returned"
      BY <2>4, <3>1 DEF Contract!Next, Contract!Return
    <3>2. CASE pc' # "returned"
      BY <2>4, <3>2
    <3> QED BY <3>1, <3>2
  <2>5. ASSUME NEW k \in calls, pc = "added", known' = known \union {current[k]},
               beat' = ~beat, pc' # "returned"
        PROVE  Contract!Next
    <3>1. k \in DOMAIN current /\ current[k] \in Devices
      BY <2>5 DEF TypeOK
    <3>2. current[k] \notin ToSet(prev)
      BY <2>5 DEF Picture, AddedBy, Missing
    <3>3. \A j \in AddedBy(prev, current) \ calls : current[j] # current[k]
      BY <3>1 DEF NoneTwice, Distinct, AddedBy, Missing
    <3>4. current[k] \notin known
      BY <2>5, <3>2, <3>3 DEF Picture
    <3>5. Contract!Added(current[k])
      BY <2>5, <3>4 DEF Contract!Added
    <3> QED BY <3>1, <3>5 DEF Contract!Next
  <2>6. ASSUME NEW k \in calls, pc = "removed", known' = known \ {prev[k]},
               beat' = ~beat, pc' # "returned"
        PROVE  Contract!Next
    <3>1. k \in DOMAIN prev /\ prev[k] \in Devices
      BY <2>6 DEF TypeOK
    <3>2. \A j \in RemovedBy(prev, current) \ calls : prev[j] # prev[k]
      BY <3>1 DEF NoneTwice, Distinct, RemovedBy, Missing
    <3>3. prev[k] \in known
      BY <2>6, <3>1, <3>2 DEF Picture, ToSet
    <3>4. Contract!Removed(prev[k])
      BY <2>6, <3>3 DEF Contract!Removed
    <3> QED BY <3>1, <3>4 DEF Contract!Next
  <2>7. ASSUME NEW k \in calls, CallAdded(k) \/ CallRemoved(k) \/ CallbackRaises(k)
        PROVE  Contract!Next
    BY <2>5, <2>6, <2>7 DEF CallAdded, CallRemoved, CallbackRaises
  <2> QED
    BY <2>1, <2>2, <2>3, <2>4, <2>7 DEF Next, WatchStep
<1> QED BY <1>1, <1>2, Inductive, PTL DEF Spec, KeepsContract, Contract!Spec
=============================================================================
