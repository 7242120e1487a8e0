------------------------- MODULE ProbeStreamProofs -------------------------
(***************************************************************************)
(* Theorems about ProbeStream, for any names, ports, peers and filters:    *)
(* the probe of a host returns every match of its tasks once, leaves none  *)
(* running, which is what TcpDiscovery expects of it, and a match is the   *)
(* peer's whole answer.                                                    *)
(***************************************************************************)
EXTENDS ProbeStream, SweepContract, FiniteSetTheorems, FunctionTheorems, TLAPS

----------------------------------------------------------------------------
(* The list of matches.                                                    *)

\* A match that is not in the list yet can be appended.
LEMMA AppendMatch ==
  ASSUME NEW s \in Seq(Addresses), NEW a \in Addresses, a \notin ToSet(s), IsInjective(s)
  PROVE  /\ Append(s, a) \in Seq(Addresses)
         /\ IsInjective(Append(s, a))
         /\ ToSet(Append(s, a)) = ToSet(s) \union {a}
<1> DEFINE t == Append(s, a)
<1>1. /\ t \in Seq(Addresses) /\ DOMAIN t = 1..Len(s) + 1
      /\ DOMAIN s = 1..Len(s) /\ Len(s) \in Nat
      /\ \A k \in 1..Len(s) : t[k] = s[k]
      /\ t[Len(s) + 1] = a
  OBVIOUS
<1> HIDE DEF t
<1>2. \A k \in 1..Len(s) : s[k] \in ToSet(s)
  BY <1>1 DEF ToSet
<1>3. IsInjective(t)
  BY <1>1, <1>2 DEF IsInjective
<1>4. ASSUME NEW x \in ToSet(t) PROVE x \in ToSet(s) \union {a}
  <2>1. PICK k \in DOMAIN t : x = t[k]
    BY DEF ToSet
  <2>2. k = Len(s) + 1 \/ k \in 1..Len(s)
    BY <1>1
  <2> QED BY <1>1, <1>2, <2>1, <2>2
<1>5. ASSUME NEW x \in ToSet(s) \union {a} PROVE x \in ToSet(t)
  <2>1. CASE x = a
    <3>1. Len(s) + 1 \in DOMAIN t
      BY <1>1
    <3> QED BY <1>1, <2>1, <3>1 DEF ToSet
  <2>2. CASE x \in ToSet(s)
    <3>1. PICK k \in 1..Len(s) : x = s[k]
      BY <1>1, <2>2 DEF ToSet
    <3>2. k \in DOMAIN t /\ t[k] = x
      BY <1>1, <3>1
    <3> QED BY <3>2 DEF ToSet
  <2> QED BY <2>1, <2>2
<1>6. ToSet(t) = ToSet(s) \union {a}
  BY <1>4, <1>5
<1> QED BY <1>1, <1>3, <1>6 DEF t

----------------------------------------------------------------------------
(* The inductive invariant.                                                *)

Final == {"match", "no_match", "panicked"}

\* What is known of the task of an address, and of its peer, at every point.
Task(a) ==
  /\ read[a] <= sent[a]
  /\ pc[a] \in {"none", "connecting", "writing"} => read[a] = 0
  /\ command /\ pc[a] = "judge" =>
       peer[a] \in {"closed", "reset"} /\ (peer[a] = "closed" => read[a] = sent[a])

Tasks == \A a \in Addresses : Task(a)

\* What probe_host has collected.
Collected ==
  /\ IsInjective(matches)
  /\ ToSet(matches) = {a \in joined : pc[a] = "match"}
  /\ \A a \in joined : pc[a] \in Final
  /\ host = "resolving" => joined = {} /\ \A a \in Addresses : pc[a] = "none"
  /\ host = "returned" => \A a \in Addresses : a \in joined \/ pc[a] = "none"

IInv == TypeOK /\ Tasks /\ Collected /\ AnswerIsMatched

\* A probe starts in the invariant.
LEMMA InvInit == Init => IInv
<1> SUFFICES ASSUME Init PROVE IInv
  OBVIOUS
<1>1. matches \in Seq(Addresses) /\ 0 \in 0..MaxChunks /\ DOMAIN matches = {}
  BY ProbeStreamAssumption DEF Init
<1>2. TypeOK
  BY <1>1, ProbeStreamAssumption DEF Init, TypeOK
<1>3. Tasks /\ AnswerIsMatched
  BY DEF Init, Tasks, Task, AnswerIsMatched
<1>4. ToSet(matches) = {} /\ IsInjective(matches)
  BY <1>1 DEF ToSet, IsInjective
<1>5. Collected
  BY <1>4 DEF Init, Collected
<1> QED BY <1>2, <1>3, <1>5 DEF IInv

\* A step of the task of a, or of its peer: the other addresses and what is
\* collected are left alone.
LEMMA TaskStep ==
  ASSUME IInv, NEW a \in Addresses,
         \/ PeerSends(a) \/ PeerCloses(a)
         \/ Connected(a) \/ ConnectFails(a) \/ Written(a) \/ WriteFails(a)
         \/ ReadBytes(a) \/ ConnectionEnds(a) \/ IoTimeout(a) \/ Judge(a)
  PROVE  IInv'
<1>0. TypeOK /\ Tasks /\ Collected /\ AnswerIsMatched /\ MaxChunks \in Nat \ {0}
  BY ProbeStreamAssumption DEF IInv
<1> USE DEF params, peers, tasks, Goto
<1>1. TypeOK'
  <2>0. CASE PeerSends(a)
    <3>1. sent[a] + 1 \in 0..MaxChunks
      BY <1>0, <2>0 DEF PeerSends, TypeOK
    <3>2. sent' \in [Addresses -> 0..MaxChunks]
      BY <1>0, <2>0, <3>1 DEF PeerSends, TypeOK
    <3> QED BY <1>0, <2>0, <3>2 DEF PeerSends, TypeOK
  <2>1. CASE PeerCloses(a)
    BY <1>0, <2>1 DEF PeerCloses, TypeOK
  <2>2. CASE Connected(a) \/ ConnectFails(a) \/ Written(a) \/ WriteFails(a)
    BY <1>0, <2>2 DEF Connected, ConnectFails, Written, WriteFails, TypeOK
  <2>3. CASE ReadBytes(a)
    BY <1>0, <2>3 DEF ReadBytes, AfterRead, TypeOK
  <2>4. CASE ConnectionEnds(a) \/ IoTimeout(a)
    BY <1>0, <2>4 DEF ConnectionEnds, IoTimeout, TypeOK
  <2>5. CASE Judge(a)
    <3>1. Verdict(a) \in Final
      BY <1>0 DEF Verdict, TypeOK, Final
    <3> QED BY <1>0, <2>5, <3>1 DEF Judge, TypeOK, Final
  <2> QED BY <2>0, <2>1, <2>2, <2>3, <2>4, <2>5
<1>2. /\ UNCHANGED <<command, filter, needs, host, joined, matches>>
      /\ expired \subseteq expired'
      /\ \A b \in Addresses : b # a =>
           pc'[b] = pc[b] /\ read'[b] = read[b] /\ sent'[b] = sent[b] /\ peer'[b] = peer[b]
  BY <1>0 DEF PeerSends, PeerCloses, Connected, ConnectFails, Written, WriteFails,
     ReadBytes, ConnectionEnds, IoTimeout, Judge, TypeOK
<1>3. pc[a] \in Final \union {"none"} => pc'[a] = pc[a] /\ read'[a] = read[a]
  BY <1>0 DEF PeerSends, PeerCloses, Connected, ConnectFails, Written, WriteFails,
     ReadBytes, ConnectionEnds, IoTimeout, InIoTimeout, Judge, TypeOK, Final
<1>4. Task(a)'
  <2>1. Task(a)
    BY <1>0 DEF Tasks
  <2>2. CASE PeerSends(a) \/ PeerCloses(a)
    BY <1>0, <2>1, <2>2 DEF PeerSends, PeerCloses, TypeOK, Task
  <2>3. CASE Connected(a) \/ ConnectFails(a) \/ Written(a) \/ WriteFails(a)
    BY <1>0, <2>1, <2>3 DEF Connected, ConnectFails, Written, WriteFails, TypeOK, Task
  <2>4. CASE ReadBytes(a)
    BY <1>0, <2>1, <2>4 DEF ReadBytes, AfterRead, TypeOK, Task
  <2>5. CASE ConnectionEnds(a) \/ IoTimeout(a)
    BY <1>0, <2>1, <2>5 DEF ConnectionEnds, IoTimeout, TypeOK, Task
  <2>6. CASE Judge(a)
    <3>1. Verdict(a) \in Final
      BY <1>0 DEF Verdict, TypeOK, Final
    <3> QED BY <1>0, <2>1, <2>6, <3>1 DEF Judge, TypeOK, Task, Final
  <2> QED BY <2>2, <2>3, <2>4, <2>5, <2>6
<1>5. Tasks'
  BY <1>0, <1>2, <1>4 DEF Tasks, Task
<1>6. Collected'
  <2>1. \A b \in joined : pc'[b] = pc[b] /\ b \in Addresses
    BY <1>0, <1>2, <1>3 DEF Collected, TypeOK
  <2>2. \A b \in Addresses : pc[b] = "none" => pc'[b] = "none"
    BY <1>2, <1>3
  <2> QED BY <1>0, <1>2, <2>1, <2>2 DEF Collected
<1>7. AnswerIsMatched'
  <2> DEFINE Told(b) ==
        /\ (pc[b] \in {"no_match", "panicked"} /\ Acceptable(b) =>
              b \in expired \/ filter = "empty")
        /\ (pc[b] = "match" =>
              /\ Acceptable(b)
              /\ peer[b] \in {"closed", "reset"}
              /\ (peer[b] = "closed" => read[b] = sent[b]))
  <2> SUFFICES ASSUME command PROVE \A b \in Addresses : Told(b)'
    BY <1>2 DEF AnswerIsMatched
  <2>1. \A b \in Addresses : Told(b)
    BY <1>0 DEF AnswerIsMatched
  <2>2. ASSUME NEW b \in Addresses, b # a PROVE Told(b)'
    BY <1>2, <2>1, <2>2 DEF Acceptable
  <2>3. Told(a)'
    <3>1. Task(a) /\ Told(a)
      BY <1>0, <2>1 DEF Tasks
    <3>2. CASE PeerSends(a) \/ PeerCloses(a)
      BY <1>0, <3>1, <3>2 DEF PeerSends, PeerCloses, TypeOK, Acceptable
    <3>3. CASE Connected(a) \/ ConnectFails(a) \/ Written(a) \/ WriteFails(a)
      <4>1. /\ pc'[a] \in {"writing", "reading", "no_match"}
            /\ read[a] = 0 /\ read' = read
        BY <1>0, <3>1, <3>3 DEF Connected, ConnectFails, Written, WriteFails, TypeOK, Task
      <4>2. ~Acceptable(a)'
        BY <1>0, <4>1 DEF Acceptable
      <4> QED BY <4>1, <4>2
    <3>4. CASE ReadBytes(a) \/ ConnectionEnds(a) \/ IoTimeout(a)
      BY <1>0, <3>1, <3>4 DEF ReadBytes, AfterRead, ConnectionEnds, IoTimeout, TypeOK
    <3>5. CASE Judge(a)
      <4>1. /\ Verdict(a) = "match" => Acceptable(a)
            /\ Verdict(a) \in {"no_match", "panicked"} /\ Acceptable(a) => filter = "empty"
        BY <1>0 DEF Verdict, Acceptable, TypeOK
      <4>2. /\ pc[a] = "judge" /\ pc'[a] = Verdict(a)
            /\ UNCHANGED <<filter, needs, read, peer, sent, expired>>
        BY <1>0, <3>5 DEF Judge, TypeOK
      <4> QED BY <3>1, <4>1, <4>2 DEF Task, Acceptable
    <3> QED BY <3>2, <3>3, <3>4, <3>5
  <2> QED BY <2>2, <2>3
<1> QED BY <1>1, <1>5, <1>6, <1>7 DEF IInv

\* Every step of the tasks, the peers and probe_host keeps the invariant.
LEMMA InvStep == IInv /\ [Next]_vars => IInv'
<1> SUFFICES ASSUME IInv, [Next]_vars PROVE IInv'
  OBVIOUS
<1>0. TypeOK /\ Tasks /\ Collected /\ AnswerIsMatched
  BY DEF IInv
<1> USE DEF params, peers, tasks
<1>1. CASE UNCHANGED vars
  BY <1>0, <1>1 DEF vars, IInv, TypeOK, Tasks, Task, Collected, AnswerIsMatched, Acceptable
<1>2. ASSUME NEW ips \in Resolutions, ResolveAndSpawn(ips) PROVE IInv'
  <2>1. /\ host = "resolving" /\ host' = IF ips = {} THEN "returned" ELSE "joining"
        /\ pc' = [a \in Addresses |-> IF a[1] \in ips THEN "connecting" ELSE "none"]
        /\ UNCHANGED <<command, filter, needs, peer, sent, read, expired, joined, matches>>
    BY <1>2 DEF ResolveAndSpawn
  <2>2. TypeOK'
    BY <1>0, <2>1 DEF TypeOK
  <2>3. /\ \A a \in Addresses : pc[a] = "none" /\ pc'[a] \in {"none", "connecting"}
        /\ joined = {} /\ (ips = {} => \A a \in Addresses : pc'[a] = "none")
    BY <1>0, <2>1 DEF Collected
  <2>4. Tasks'
    BY <1>0, <2>1, <2>3 DEF Tasks, Task
  <2>5. Collected'
    BY <1>0, <2>1, <2>3 DEF Collected
  <2>6. AnswerIsMatched'
    BY <2>3 DEF AnswerIsMatched
  <2> QED BY <2>2, <2>4, <2>5, <2>6 DEF IInv
<1>3. ASSUME NEW a \in Addresses, JoinNext(a) PROVE IInv'
  <2>1. /\ host = "joining" /\ a \notin joined /\ pc[a] \in Final
        /\ joined' = joined \union {a}
        /\ matches' = IF pc[a] = "match" THEN Append(matches, a) ELSE matches
        /\ UNCHANGED <<command, filter, needs, peer, sent, host, pc, read, expired>>
    BY <1>3 DEF JoinNext, Running, Final
  <2>2. a \notin ToSet(matches) /\ matches \in Seq(Addresses) /\ IsInjective(matches)
    BY <1>0, <2>1 DEF Collected, TypeOK
  <2>3. /\ matches' \in Seq(Addresses) /\ IsInjective(matches')
        /\ ToSet(matches') = IF pc[a] = "match" THEN ToSet(matches) \union {a} ELSE ToSet(matches)
    BY <2>1, <2>2, AppendMatch
  <2>4. TypeOK'
    BY <1>0, <2>1, <2>3 DEF TypeOK
  <2>5. Tasks' /\ AnswerIsMatched'
    BY <1>0, <2>1 DEF Tasks, Task, AnswerIsMatched, Acceptable
  <2>6. Collected'
    BY <1>0, <2>1, <2>3 DEF Collected
  <2> QED BY <2>4, <2>5, <2>6 DEF IInv
<1>4. CASE Return
  <2>1. /\ host' = "returned" /\ \A a \in Addresses : a \in joined \/ pc[a] = "none"
        /\ UNCHANGED <<command, filter, needs, peer, sent, pc, read, expired, joined, matches>>
    BY <1>4 DEF Return, AllJoined, Running
  <2>2. TypeOK' /\ Tasks' /\ AnswerIsMatched'
    BY <1>0, <2>1 DEF TypeOK, Tasks, Task, AnswerIsMatched, Acceptable
  <2>3. Collected'
    BY <1>0, <2>1 DEF Collected
  <2> QED BY <2>2, <2>3 DEF IInv
<1> QED
  BY <1>1, <1>2, <1>3, <1>4, TaskStep DEF Next, ProbeHost

----------------------------------------------------------------------------
(* The theorems.                                                           *)

\* The invariant holds in every state of every probe of a host.
THEOREM Inductive == Spec => []IInv
BY InvInit, InvStep, PTL DEF Spec

\* The variables of probe_host and its tasks keep their types.
THEOREM TypeCorrect == Spec => []TypeOK
<1>1. IInv => TypeOK
  BY DEF IInv
<1> QED BY Inductive, <1>1, PTL

\* probe_stream makes an acceptable answer a match unless io_timeout ended it or the
\* filter is empty, and a match is the whole answer unless the peer reset.
THEOREM AnswerIsMatchedHolds == Spec => []AnswerIsMatched
<1>1. IInv => AnswerIsMatched
  BY DEF IInv
<1> QED BY Inductive, <1>1, PTL

\* probe_host returns the match of every task, once, and leaves no task running.
THEOREM HostCollectsHolds == Spec => []HostCollects
<1>1. IInv => HostCollects
  BY DEF IInv, Collected, HostCollects, TypeOK, Final
<1> QED BY Inductive, <1>1, PTL

----------------------------------------------------------------------------
(* The probe of a host, as TcpDiscovery sees it.                           *)

\* A sequence of addresses that names none twice is a list of those it names.
LEMMA OnceIsListed ==
  ASSUME NEW s \in Seq(Addresses), IsInjective(s)
  PROVE  s \in SetToSeqs(ToSet(s))
<1> DEFINE D == 1..Len(s)
           S == ToSet(s)
<1>1. DOMAIN s = D /\ Len(s) \in Nat
  OBVIOUS
<1>2. s \in [D -> S] /\ \A x \in S : \E i \in D : s[i] = x
  BY <1>1 DEF ToSet
<1>3. s \in Injection(D, S) /\ s \in Surjection(D, S)
  BY <1>1, <1>2, Fun_IsInj, Fun_IsSurj DEF IsInjective
<1>4. IsFiniteSet(D) /\ Cardinality(D) = Len(s)
  <2>1. 1 \in Int /\ Len(s) \in Int
    BY <1>1
  <2>2. /\ IsFiniteSet(1..Len(s))
        /\ Cardinality(1..Len(s)) = IF 1 > Len(s) THEN 0 ELSE Len(s) - 1 + 1
    BY ONLY <2>1, FS_Interval, Zenon
  <2>3. (IF 1 > Len(s) THEN 0 ELSE Len(s) - 1 + 1) = Len(s)
    BY ONLY <1>1
  <2> QED BY <2>2, <2>3
<1>5. Cardinality(S) = Len(s)
  BY <1>3, <1>4, FS_Surjection
<1>6. \A i, j \in D : i # j => s[i] # s[j]
  BY <1>1 DEF IsInjective
<1> QED BY ONLY <1>2, <1>5, <1>6 DEF SetToSeqs

\* What the probe of h returns is a list of the addresses of h that answered it.
ProbeFits(h) ==
  host = "returned" => matches \in HostResults(h, {a \in Addresses : pc[a] = "match"})

\* probe_host, with the tasks of all its addresses, keeps what run_discovery
\* relies on, for a host that is an IP address: all that mDNS and SSDP name
\* are.
THEOREM ProbeFitsDiscovery ==
  ASSUME NEW CONSTANT h, Resolutions \subseteq {{}, {h}}
  PROVE  Spec => []ProbeFits(h)
<1>1. ASSUME TypeOK, HostCollects PROVE ProbeFits(h)
  <2> SUFFICES ASSUME host = "returned"
               PROVE  matches \in HostResults(h, {a \in Addresses : pc[a] = "match"})
    BY DEF ProbeFits
  <2> DEFINE answered == {a \in Addresses : pc[a] = "match"}
  <2>1. matches \in Seq(Addresses) /\ IsInjective(matches) /\ ToSet(matches) = answered
    BY <1>1 DEF TypeOK, HostCollects
  <2>2. \A a \in Addresses : a[1] = h
    BY DEF Addresses
  <2>3. {a \in answered : a[1] = h} = answered
    BY <2>2
  <2> HIDE DEF answered
  <2>4. matches \in HostResults(h, answered)
    BY <2>1, <2>3, OnceIsListed DEF HostResults
  <2> QED BY <2>4 DEF answered
<1> QED BY <1>1, TypeCorrect, HostCollectsHolds, PTL
=============================================================================
