--------------------------- MODULE RawRouteProofs ---------------------------
(***************************************************************************)
(* Theorems about RawRoute, for any hosts, ports, number of source ports   *)
(* and traffic of others: which replies make a host alive and a target     *)
(* found, and that only a wrap of the source ports hides a reply in time.  *)
(* The route implements the step TcpScan makes of it.                      *)
(***************************************************************************)
EXTENDS RawRoute, FiniteSetTheorems, WellFoundedInduction, TLAPS

----------------------------------------------------------------------------
(* Arithmetic of blocks and source ports.                                  *)

\* Numbers with one remainder are a multiple of the modulus apart.
LEMMA SameRemainder ==
  ASSUME NEW P \in Nat \ {0}, NEW a \in Nat, NEW b \in Nat, a < b, a % P = b % P
  PROVE  P <= b - a
<1> DEFINE qa == a \div P
           qb == b \div P
           r  == a % P
<1>1. a = P * qa + r /\ b = P * qb + r /\ qa \in Int /\ qb \in Int /\ r \in Int
  OBVIOUS
<1> HIDE DEF qa, qb, r
<1>2. P * (qb - qa) = b - a
  BY <1>1
<1>3. qb - qa >= 1
  <2>1. ASSUME qb - qa <= 0 PROVE FALSE
    <3>1. P * (qb - qa) <= 0
      BY <1>1, <2>1
    <3> QED BY <1>2, <3>1
  <2> QED BY <1>1, <2>1
<1>4. P * (qb - qa) >= P
  BY <1>1, <1>3
<1> QED BY <1>2, <1>4

\* Numbers with one quotient are less than the divisor apart.
LEMMA SameQuotient ==
  ASSUME NEW P \in Nat \ {0}, NEW a \in Nat, NEW b \in Nat, a \div P = b \div P
  PROVE  b - a < P
<1> DEFINE q == a \div P
<1>1. /\ a = P * q + (a % P) /\ b = P * q + (b % P) /\ q \in Int
      /\ a % P \in 0..P - 1 /\ b % P \in 0..P - 1
  OBVIOUS
<1> HIDE DEF q
<1> QED BY <1>1

\* A set of positions of a sequence has a last one.
LEMMA LastOf ==
  ASSUME NEW n \in Nat, NEW S \in SUBSET (1..n), S # {}
  PROVE  \E i \in S : \A j \in S : j <= i
<1> DEFINE T == {n - i : i \in S}
<1>1. T \subseteq Nat
  <2> SUFFICES ASSUME NEW i \in S PROVE n - i \in Nat
    OBVIOUS
  <2> QED OBVIOUS
<1>2. T # {} /\ \A i \in S : n - i \in T
  OBVIOUS
<1>3. \A y \in T : \E i \in S : y = n - i
  OBVIOUS
<1> HIDE DEF T
<1>4. PICK x \in T : \A y \in T : ~(<<y, x>> \in OpToRel(<, Nat))
  BY <1>1, <1>2, NatLessThanWellFounded, WFMin
<1>5. ASSUME NEW y \in T PROVE x <= y
  <2>1. x \in Nat /\ y \in Nat /\ ~(<<y, x>> \in OpToRel(<, Nat))
    BY <1>1, <1>4
  <2>2. y < x => <<y, x>> \in {ss \in Nat \X Nat : ss[1] < ss[2]}
    BY <2>1
  <2> QED BY <2>1, <2>2 DEF OpToRel
<1>6. PICK i \in S : x = n - i
  BY <1>3
<1>7. ASSUME NEW j \in S PROVE j <= i
  <2>1. x <= n - j
    BY <1>2, <1>5
  <2>2. i \in Nat /\ j \in Nat
    OBVIOUS
  <2> QED BY <1>6, <2>1, <2>2
<1> QED BY <1>7

\* A number below n times m has a quotient below n.
LEMMA QuotientBound ==
  ASSUME NEW m \in Nat \ {0}, NEW n \in Nat, NEW a \in Nat, a < n * m
  PROVE  a \div m \in 0..n - 1 /\ a % m \in 0..m - 1
<1> DEFINE q == a \div m
<1>1. a = m * q + (a % m) /\ q \in Int /\ a % m \in 0..m - 1
  OBVIOUS
<1> HIDE DEF q
<1>2. q >= 0
  <2>1. ASSUME q <= 0 - 1 PROVE FALSE
    <3>1. m * q <= 0 - m
      BY <1>1, <2>1
    <3> QED BY <1>1, <3>1
  <2> QED BY <1>1, <2>1
<1>3. q < n
  <2>1. ASSUME q >= n PROVE FALSE
    <3>1. m * q >= m * n
      BY <1>1, <2>1
    <3>2. m * n = n * m
      OBVIOUS
    <3> QED BY <1>1, <3>1, <3>2
  <2> QED BY <1>1, <2>1
<1>4. q \in 0..n - 1
  BY <1>1, <1>2, <1>3
<1> QED BY <1>1, <1>4 DEF q

----------------------------------------------------------------------------
(* The targets of a SYN scan.                                              *)

\* The targets of one host stand together, as many as there are ports.
Blocks(list) ==
  \A i, j \in DOMAIN list : list[i][1] = list[j][1] => j - i < Len(Ports)

\* build_raw_probe_targets keeps the targets of a host together.
LEMMA TargetListShape ==
  ASSUME alive \subseteq AllHosts, NEW t \in TargetLists
  PROVE  t \in Seq(alive \X ToSet(Ports)) /\ Blocks(t)
<1> DEFINE n == Cardinality(alive)
           m == Len(Ports)
<1>1. n \in Nat
  BY RawRouteAssumption, FS_Subset, FS_CardinalityType
<1>2. /\ m \in Nat \ {0}
      /\ \A p \in 1..m : Ports[p] \in ToSet(Ports)
  BY RawRouteAssumption
<1>3. PICK hosts \in SetToSeqs(alive) :
        t = [k \in 1..Len(hosts) * Len(Ports) |->
               <<hosts[((k - 1) \div Len(Ports)) + 1], Ports[((k - 1) % Len(Ports)) + 1]>>]
  BY DEF TargetLists
<1>4. hosts \in [1..n -> alive] /\ \A i, j \in 1..n : hosts[i] = hosts[j] => i = j
  BY DEF SetToSeqs
<1>5. Len(hosts) = n
  BY <1>1, <1>4
<1>6. t = [k \in 1..n * m |-> <<hosts[((k - 1) \div m) + 1], Ports[((k - 1) % m) + 1]>>]
  BY <1>3, <1>5
<1> HIDE DEF n, m
<1>7. n * m \in Nat
  BY <1>1, <1>2
<1>8. ASSUME NEW k \in 1..n * m
      PROVE  /\ k - 1 \in Nat
             /\ ((k - 1) \div m) + 1 \in 1..n /\ ((k - 1) % m) + 1 \in 1..m
  <2>1. k - 1 \in Nat /\ k - 1 < n * m
    BY <1>7
  <2>2. (k - 1) \div m \in 0..n - 1 /\ (k - 1) % m \in 0..m - 1
    BY <1>1, <1>2, <2>1, QuotientBound
  <2> QED BY <1>1, <1>2, <2>1, <2>2
<1>9. t \in Seq(alive \X ToSet(Ports))
  <2>1. \A k \in 1..n * m :
          <<hosts[((k - 1) \div m) + 1], Ports[((k - 1) % m) + 1]>> \in alive \X ToSet(Ports)
    BY <1>2, <1>4, <1>8
  <2>2. t \in [1..n * m -> alive \X ToSet(Ports)]
    BY <1>6, <2>1
  <2> QED BY <1>7, <2>2
<1>10. ASSUME NEW i \in DOMAIN t, NEW j \in DOMAIN t, t[i][1] = t[j][1] PROVE j - i < m
  <2>1. i \in 1..n * m /\ j \in 1..n * m
    BY <1>6
  <2>2. hosts[((i - 1) \div m) + 1] = hosts[((j - 1) \div m) + 1]
    BY <1>6, <1>10, <2>1
  <2>3. /\ i - 1 \in Nat /\ ((i - 1) \div m) + 1 \in 1..n
        /\ j - 1 \in Nat /\ ((j - 1) \div m) + 1 \in 1..n
    BY <1>8, <2>1
  <2>4. ((i - 1) \div m) + 1 = ((j - 1) \div m) + 1
    BY <1>4, <2>2, <2>3
  <2>5. (i - 1) \div m \in Int /\ (j - 1) \div m \in Int
    BY <1>2, <2>3
  <2>6. (i - 1) \div m = (j - 1) \div m
    BY <2>4, <2>5
  <2>7. (j - 1) - (i - 1) < m
    BY <1>2, <2>3, <2>6, SameQuotient
  <2> QED BY <1>2, <2>1, <2>7
<1> QED BY <1>9, <1>10 DEF Blocks, m

\* port_map has, for a source port in use, the last target with it.
LEMMA PortMapIsLast ==
  ASSUME NEW A, targets \in Seq(A), NEW i \in DOMAIN targets
  PROVE  \E j \in DOMAIN targets : /\ PortMap[SrcPort(i)] = targets[j]
                                    /\ SrcPort(j) = SrcPort(i) /\ i <= j
<1> DEFINE q == SrcPort(i)
           last == CHOOSE k \in SameSrc(q) : \A j \in SameSrc(q) : j <= k
<1>1. SameSrc(q) \subseteq 1..Len(targets) /\ Len(targets) \in Nat /\ i \in SameSrc(q)
  BY DEF SameSrc
<1>2. \E k \in SameSrc(q) : \A j \in SameSrc(q) : j <= k
  BY <1>1, LastOf
<1>3. last \in SameSrc(q) /\ \A j \in SameSrc(q) : j <= last
  BY <1>2
<1>4. PortMap[q] = targets[last]
  BY <1>1 DEF PortMap, SameSrc
<1> QED BY <1>1, <1>3, <1>4 DEF SameSrc

\* Two targets with one source port are as far apart as there are source ports.
LEMMA SrcPortsApart ==
  ASSUME NEW i \in Nat \ {0}, NEW j \in Nat \ {0}, i < j, SrcPort(i) = SrcPort(j)
  PROVE  i + PortSpace <= j
<1>1. PortSpace \in Nat \ {0} /\ BasePort \in Nat
  BY RawRouteAssumption
<1>2. /\ BasePort + i - 1 \in Nat /\ BasePort + j - 1 \in Nat
      /\ BasePort + i - 1 < BasePort + j - 1
  BY <1>1
<1>3. (BasePort + i - 1) % PortSpace = (BasePort + j - 1) % PortSpace
  BY DEF SrcPort
<1>4. PortSpace <= (BasePort + j - 1) - (BasePort + i - 1)
  BY <1>1, <1>2, <1>3, SameRemainder
<1> QED BY <1>1, <1>4

----------------------------------------------------------------------------
(* The inductive invariant.                                                *)

\* The order of the route, and what the list of targets looks like.
Route ==
  /\ pc \in {"ping", "pinging", "build"} => targets = <<>> /\ found = {} /\ outcome = "pending"
  /\ pc \in {"ping", "build"} => heard = {}
  /\ outcome = "filtered" => pc \in {"syn", "done"} /\ Blocks(targets)
  /\ pc = "syn" => outcome = "filtered"

\* Every segment that was received has been judged.
Judged == outcome = "filtered" => \A s \in heard : Credits(s) => PortMap[s.to] \in found

IInv == TypeOK /\ Route /\ Judged /\ OnlyAnswersCount

\* A route starts in the invariant.
LEMMA InvInit == Init => IInv
<1> SUFFICES ASSUME Init PROVE IInv
  OBVIOUS
<1>1. TypeOK
  <2>1. targets \in Seq(alive \X ToSet(Ports)) /\ found \subseteq ToSet(targets)
    BY DEF Init
  <2> QED BY <2>1 DEF Init, TypeOK
<1>2. Route /\ Judged /\ OnlyAnswersCount
  BY DEF Init, Route, Judged, OnlyAnswersCount
<1> QED BY <1>1, <1>2 DEF IInv

\* The ping sweep keeps the invariant: it has no targets yet.
LEMMA PingStep ==
  ASSUME IInv,
         \/ PingUnavailable \/ SendEchoes \/ PingDeadline
         \/ pc = "pinging" /\ \E e \in Echoes : RecvEcho(e)
  PROVE  IInv'
<1>1. /\ TypeOK /\ OnlyAnswersCount /\ pc \in {"ping", "pinging"}
      /\ targets = <<>> /\ found = {} /\ outcome = "pending"
      /\ UNCHANGED <<up, open, targets, found>>
      /\ outcome' \in {"pending", "unavailable", "nobody"}
      /\ pc' \in {"pinging", "build", "done"}
      /\ pc' \in {"pinging", "build"} => outcome' = "pending"
      /\ pc' = "build" => heard' = {}
  BY DEF IInv, Route, PingUnavailable, SendEchoes, PingDeadline, RecvEcho
<1>2. /\ alive' \subseteq AllHosts
      /\ alive' \subseteq ((Hosts \union Strays) \intersect up) \ Loopback
  <2>1. alive \subseteq AllHosts /\ alive \subseteq ((Hosts \union Strays) \intersect up) \ Loopback
    BY <1>1 DEF TypeOK, OnlyAnswersCount
  <2>2. CASE alive' = alive
    BY <2>1, <2>2
  <2>3. CASE alive' # alive
    <3>1. PICK e \in Echoes : RecvEcho(e)
      BY <2>3 DEF PingUnavailable, SendEchoes, PingDeadline
    <3>2. alive' = alive \union {e.host} /\ e.id = "ours" /\ e.host \notin Loopback
      BY <2>3, <3>1 DEF RecvEcho, IsOurs
    <3>3. e.host \in (Hosts \union Strays) \intersect up
      BY <3>2 DEF Echoes, Strays
    <3>4. Strays \subseteq AllHosts
      BY DEF Strays, AllHosts
    <3> QED BY <2>1, <3>2, <3>3, <3>4 DEF AllHosts
  <2> QED BY <2>2, <2>3
<1>3. TypeOK'
  <2>1. targets' \in Seq(alive' \X ToSet(Ports)) /\ found' \subseteq ToSet(targets')
    BY <1>1
  <2> QED BY <1>1, <1>2, <2>1 DEF TypeOK
<1>4. Route' /\ Judged' /\ OnlyAnswersCount'
  BY <1>1, <1>2 DEF Route, Judged, OnlyAnswersCount
<1> QED BY <1>3, <1>4 DEF IInv

\* Building the targets keeps the invariant.
LEMMA BuildStep ==
  ASSUME IInv, SynUnavailable \/ SendSyns
  PROVE  IInv'
<1>1. /\ TypeOK /\ OnlyAnswersCount /\ found = {} /\ heard = {}
      /\ UNCHANGED <<up, open, alive, heard>> /\ targets' \in TargetLists
      /\ \/ pc' = "done" /\ outcome' = "unfiltered" /\ found' = ToSet(targets')
         \/ pc' = "syn" /\ outcome' = "filtered" /\ found' = {}
  BY DEF IInv, Route, SynUnavailable, SendSyns
<1>2. targets' \in Seq(alive \X ToSet(Ports)) /\ Blocks(targets')
  BY <1>1, TargetListShape DEF TypeOK
<1>3. TypeOK'
  BY <1>1, <1>2 DEF TypeOK
<1>4. Route' /\ Judged' /\ OnlyAnswersCount'
  BY <1>1, <1>2 DEF Route, Judged, OnlyAnswersCount, Blocks
<1> QED BY <1>3, <1>4 DEF IInv

\* An answer to this scan is credited to no target but the one it comes from.
LEMMA OwnAnswerIsOpen ==
  ASSUME NEW A, targets \in Seq(A), Blocks(targets), NEW s \in OwnSegments, Credits(s)
  PROVE  PortMap[s.to] \in open
<1>0. DOMAIN targets = 1..Len(targets) /\ Len(targets) \in Nat
  OBVIOUS
<1>1. PICK i \in DOMAIN targets : s = Answer(targets[i], SrcPort(i))
  BY DEF OwnSegments
<1>2. s.to = SrcPort(i) /\ s.from = targets[i] /\ targets[i] \in open
  BY <1>1 DEF Answer, Credits
<1>3. PICK j \in DOMAIN targets : /\ PortMap[s.to] = targets[j]
                                  /\ SrcPort(j) = SrcPort(i) /\ i <= j
  BY <1>2, PortMapIsLast
<1>4. targets[i][1] = targets[j][1]
  BY <1>2, <1>3 DEF Credits
<1>5. j - i < Len(Ports)
  BY <1>4 DEF Blocks
<1>6. ~(i < j)
  <2>1. /\ i \in Nat \ {0} /\ j \in Nat \ {0} /\ PortSpace \in Nat /\ Len(Ports) \in Nat
        /\ Len(Ports) <= PortSpace
    BY <1>0, RawRouteAssumption
  <2>2. i < j => i + PortSpace <= j
    BY <1>3, <2>1, SrcPortsApart
  <2> QED BY <1>5, <2>1, <2>2
<1>7. i = j
  BY <1>0, <1>3, <1>6
<1> QED BY <1>2, <1>3, <1>7

\* The SYN scan keeps the invariant, whatever segment comes in.
LEMMA SynStep ==
  ASSUME IInv, NEW s \in Segments, RecvSegment(s)
  PROVE  IInv'
<1>0. TypeOK /\ Route /\ Judged /\ OnlyAnswersCount
  BY DEF IInv
<1>1. /\ pc = "syn" /\ outcome = "filtered" /\ heard' = heard \union {s}
      /\ found' = IF Credits(s) THEN found \union {PortMap[s.to]} ELSE found
      /\ UNCHANGED <<up, open, pc, alive, targets, outcome>>
  BY <1>0 DEF RecvSegment, Route
<1>2. targets \in Seq(alive \X ToSet(Ports)) /\ DOMAIN targets = 1..Len(targets)
      /\ Len(targets) \in Nat
  BY <1>0 DEF TypeOK
<1>3. Credits(s) => PortMap[s.to] \in ToSet(targets)
  <2> SUFFICES ASSUME Credits(s) PROVE PortMap[s.to] \in ToSet(targets)
    OBVIOUS
  <2>1. PICK i \in DOMAIN targets : s.to = SrcPort(i)
    BY DEF Credits, PortMap
  <2>2. PICK j \in DOMAIN targets : PortMap[s.to] = targets[j]
    BY <1>2, <2>1, PortMapIsLast
  <2> QED BY <2>2 DEF ToSet
<1>4. TypeOK'
  BY <1>0, <1>1, <1>3 DEF TypeOK
<1>5. Route'
  BY <1>0, <1>1 DEF Route, Blocks
<1>6. Judged'
  <2>1. PortMap' = PortMap
    BY <1>1 DEF PortMap, SameSrc
  <2>2. \A x : Credits(x)' <=> Credits(x)
    BY <2>1 DEF Credits
  <2> SUFFICES ASSUME NEW x \in heard', Credits(x) PROVE PortMap[x.to] \in found'
    BY <2>1, <2>2 DEF Judged
  <2>3. CASE x = s
    BY <1>1, <2>3
  <2>4. CASE x # s
    BY <1>0, <1>1, <2>4 DEF Judged
  <2> QED BY <2>3, <2>4
<1>7. OnlyAnswersCount'
  <2>1. alive' \subseteq ((Hosts \union Strays) \intersect up') \ Loopback
    BY <1>0, <1>1 DEF OnlyAnswersCount
  <2>2. OtherSegments' = OtherSegments
    BY <1>1 DEF OtherSegments, Answer
  <2>3. ASSUME NEW t \in found, t \notin open
        PROVE  \E x \in OtherSegments \intersect heard', i \in DOMAIN targets :
                 x.syn_ack /\ x.from[1] = t[1] /\ targets[i] = t /\ x.to = SrcPort(i)
    BY <1>0, <1>1, <2>3 DEF OnlyAnswersCount
  <2>4. ASSUME Credits(s), PortMap[s.to] \notin open
        PROVE  \E x \in OtherSegments \intersect heard', i \in DOMAIN targets :
                 /\ x.syn_ack /\ x.from[1] = PortMap[s.to][1]
                 /\ targets[i] = PortMap[s.to] /\ x.to = SrcPort(i)
    <3>1. s \notin OwnSegments
      BY <1>0, <1>1, <1>2, <2>4, OwnAnswerIsOpen DEF Route
    <3>2. s \in OtherSegments \intersect heard'
      BY <1>1, <3>1 DEF Segments
    <3>3. PICK k \in DOMAIN targets : s.to = SrcPort(k)
      BY <2>4 DEF Credits, PortMap
    <3>4. PICK i \in DOMAIN targets : PortMap[s.to] = targets[i] /\ SrcPort(i) = s.to
      BY <1>2, <3>3, PortMapIsLast
    <3>5. s.syn_ack /\ s.from[1] = PortMap[s.to][1]
      BY <2>4 DEF Credits
    <3> QED BY <3>2, <3>4, <3>5
  <2>5. ASSUME NEW t \in found', t \notin open
        PROVE  \E x \in OtherSegments \intersect heard', i \in DOMAIN targets :
                 x.syn_ack /\ x.from[1] = t[1] /\ targets[i] = t /\ x.to = SrcPort(i)
    <3>1. CASE t \in found
      BY <2>3, <2>5, <3>1
    <3>2. CASE t \notin found
      <4>1. Credits(s) /\ t = PortMap[s.to]
        BY <1>1, <3>2
      <4> QED BY <2>4, <2>5, <4>1
    <3> QED BY <3>1, <3>2
  <2>6. SrcPort(0)' = SrcPort(0) /\ UNCHANGED <<targets, open>>
    BY <1>1 DEF SrcPort
  <2> QED BY <1>1, <2>1, <2>2, <2>5, <2>6 DEF OnlyAnswersCount, SrcPort
<1> QED BY <1>4, <1>5, <1>6, <1>7 DEF IInv

\* A step that leaves the route where it is, or ends the SYN scan.
LEMMA EndStep ==
  ASSUME IInv, SynDeadline \/ UNCHANGED vars
  PROVE  IInv'
<1>1. /\ TypeOK /\ Route /\ Judged /\ OnlyAnswersCount
      /\ UNCHANGED <<up, open, alive, targets, found, outcome, heard>>
      /\ pc' = pc \/ (pc = "syn" /\ pc' = "done")
  BY DEF IInv, SynDeadline, vars
<1>2. PortMap' = PortMap
  BY <1>1 DEF PortMap, SameSrc
<1>3. TypeOK' /\ Route'
  BY <1>1 DEF TypeOK, Route, Blocks
<1>5. OnlyAnswersCount'
  <2>1. OtherSegments' = OtherSegments
    BY <1>1 DEF OtherSegments, Answer
  <2> QED BY <1>1, <2>1 DEF OnlyAnswersCount, SrcPort
<1>4. Judged'
  BY <1>1, <1>2 DEF Judged, Credits
<1> QED BY <1>3, <1>4, <1>5 DEF IInv

----------------------------------------------------------------------------
(* The theorems.                                                           *)

\* The invariant holds in every state of every route.
THEOREM Inductive == Spec => []IInv
<1>1. IInv /\ [Next]_vars => IInv'
  BY PingStep, BuildStep, SynStep, EndStep DEF Next
<1> QED BY InvInit, <1>1, PTL DEF Spec

\* The variables of ping_sweep and syn_scan keep their types; what a SYN scan
\* finds are targets of alive hosts.
THEOREM TypeCorrect == Spec => []TypeOK
<1>1. IInv => TypeOK
  BY DEF IInv
<1> QED BY Inductive, <1>1, PTL

\* Whoever else pings and connects: a host is alive for an echo with the
\* identifier of this process only, and a target that is not open is found only
\* for a SYN-ACK to somebody else that came from its host to its source port.
THEOREM OnlyAnswersCountHolds == Spec => []OnlyAnswersCount
<1>1. IInv => OnlyAnswersCount
  BY DEF IInv
<1> QED BY Inductive, <1>1, PTL

\* syn_scan misses a target that replied in time only if a later target took its
\* source port, one wrap of the port numbers further on.
THEOREM MissedOnlyIfWrappedHolds == Spec => []MissedOnlyIfWrapped
<1>1. IInv => MissedOnlyIfWrapped
  <2> SUFFICES ASSUME TypeOK, Judged, outcome = "filtered", OwnSegments \subseteq heard,
                      NEW i \in DOMAIN targets, targets[i] \in open,
                      ~(i + PortSpace <= Len(targets))
               PROVE  targets[i] \in found
    BY DEF IInv, MissedOnlyIfWrapped
  <2>1. /\ targets \in Seq(alive \X ToSet(Ports)) /\ DOMAIN targets = 1..Len(targets)
        /\ Len(targets) \in Nat /\ PortSpace \in Nat
    BY RawRouteAssumption DEF TypeOK
  <2>2. PICK j \in DOMAIN targets : /\ PortMap[SrcPort(i)] = targets[j]
                                    /\ SrcPort(j) = SrcPort(i) /\ i <= j
    BY <2>1, PortMapIsLast
  <2>3. j = i
    <3>1. i \in Nat \ {0} /\ j \in Nat \ {0} /\ j <= Len(targets)
      BY <2>1
    <3>2. i < j => i + PortSpace <= j
      BY <2>2, <3>1, SrcPortsApart
    <3> QED BY <2>1, <2>2, <3>1, <3>2
  <2> DEFINE answer == Answer(targets[i], SrcPort(i))
  <2>4. /\ answer \in heard /\ answer.syn_ack
        /\ answer.to = SrcPort(i) /\ answer.from = targets[i]
    BY DEF OwnSegments, Answer
  <2>5. SrcPort(i) \in DOMAIN PortMap
    BY DEF PortMap
  <2>6. Credits(answer)
    BY <2>2, <2>3, <2>4, <2>5 DEF Credits
  <2> QED BY <2>2, <2>3, <2>4, <2>6 DEF Judged
<1> QED BY Inductive, <1>1, PTL

----------------------------------------------------------------------------
(* The route within a scan.  In TcpScan the route is one step out of the   *)
(* phase "pinging", and its outcome any of those PingReplies, PingNobody   *)
(* and PingUnavailable allow.                                              *)

\* The scan around the route, which waits for it: its addresses and subnets, its
\* parameters, and where it is.
CONSTANTS
  Ips, V4, Nets, HostsOf, Covers, Common, ArpHosts, UseArp, MaxConcurrent, BatchSize,
  Resettable, NoNet,
  Answering, Cached, Cancelled, Planned, Spawned, Collected,
  AllTasks   \* the tasks of the full sweep

ScanPhase ==
  IF pc # "done" THEN "pinging"
  ELSE CASE outcome = "unavailable" -> "full"
         [] outcome = "nobody" -> "done"
         [] OTHER -> "raw"

ScanUnswept ==
  IF pc # "done" \/ outcome = "nobody" THEN {}
  ELSE IF outcome = "unavailable" THEN AllTasks
  ELSE {[src |-> "raw", net |-> NoNet, addr |-> a] : a \in found}

Scan == INSTANCE TcpScan WITH
  Hosts <- Ips, Ports <- ToSet(Ports), Strays <- Strays,
  open <- Answering, arp <- Cached, cancelled <- Cancelled, everCancelled <- Cancelled,
  phase <- ScanPhase, step <- "between", unswept <- ScanUnswept, todo <- {},
  waiting <- {}, probing <- {}, got <- {}, permits <- MaxConcurrent,
  planned <- Planned \union ScanUnswept,
  spawned <- Spawned, matches <- Collected

\* The scan hands its remaining hosts to the route, and sweeps the rest itself.
ScanOfRoute == Scan!RemainingHosts = Hosts /\ Scan!SweepTasks = AllTasks

RouteEnds == Scan!PingReplies \/ Scan!PingNobody \/ Scan!PingUnavailable

\* Who has replied: somebody that is pinged with the identifier of this process.
Replied ==
  /\ alive \subseteq Hosts \union Strays
  /\ pc \in {"build", "syn"} => alive # {}

\* Only an echo reply of our own adds to them.
LEMMA RepliedHolds == Spec => []Replied
<1>1. Init => Replied
  BY DEF Init, Replied
<1>2. Replied /\ [Next]_vars => Replied'
  <2> SUFFICES ASSUME Replied, [Next]_vars PROVE Replied'
    OBVIOUS
  <2>1. CASE pc = "pinging" /\ \E e \in Echoes : RecvEcho(e)
    <3>1. PICK e \in Echoes : RecvEcho(e)
      BY <2>1
    <3>2. IsOurs(e) => e.host \in Hosts \union Strays
      BY DEF Echoes, IsOurs, Strays
    <3> QED BY <2>1, <3>1, <3>2 DEF Replied, RecvEcho
  <2>2. CASE pc = "syn" /\ \E s \in Segments : RecvSegment(s)
    BY <2>2 DEF Replied, RecvSegment
  <2>3. CASE PingDeadline
    BY <2>3 DEF Replied, PingDeadline
  <2>4. CASE PingUnavailable \/ SendEchoes \/ SynUnavailable \/ SendSyns \/ SynDeadline
    BY <2>4 DEF Replied, PingUnavailable, SendEchoes, SynUnavailable, SendSyns, SynDeadline
  <2>5. CASE UNCHANGED vars
    BY <2>5 DEF Replied, vars
  <2> QED BY <2>1, <2>2, <2>3, <2>4, <2>5 DEF Next
<1> QED BY <1>1, <1>2, PTL DEF Spec

\* What the scan does when the route ends with addresses to probe.
LEMMA EndsWithTargets ==
  ASSUME ScanOfRoute, TypeOK', Replied, Replied', alive' = alive,
         pc \in {"build", "syn"}, pc' = "done", outcome' \in {"unfiltered", "filtered"}
  PROVE  Scan!PingReplies
<1>1. alive \in (SUBSET (Scan!RemainingHosts \union Strays)) \ {{}}
  BY DEF ScanOfRoute, Replied
<1>2. found' \subseteq alive \X ToSet(Ports)
  <2>1. found' \subseteq ToSet(targets') /\ targets' \in Seq(alive \X ToSet(Ports))
    BY DEF TypeOK
  <2> QED BY <2>1 DEF ToSet
<1>3. found' \in Scan!RawProbeTargets(alive)
  BY <1>2 DEF Scan!RawProbeTargets
<1>4. ScanPhase = "pinging" /\ ScanPhase' = "raw"
  BY DEF ScanPhase
<1>5. Scan!Plan(Scan!TasksFor("raw", found'))
  <2>1. ScanUnswept = {} /\ ScanUnswept' = Scan!TasksFor("raw", found')
    BY DEF ScanUnswept, Scan!TasksFor
  <2> QED BY <2>1 DEF Scan!Plan
<1>6. Scan!Proceed("raw")
  BY <1>4 DEF Scan!Proceed, Scan!environment, Scan!token, Scan!tasks
<1> QED BY <1>1, <1>3, <1>4, <1>5, <1>6 DEF Scan!PingReplies

\* A step of ping_sweep, build_raw_probe_targets or syn_scan is nothing to the
\* scan, but for the one that ends the route.
LEMMA RouteStep ==
  ASSUME ScanOfRoute, IInv, IInv', Replied, Replied', [Next]_vars
  PROVE  [RouteEnds]_Scan!vars
<1>1. ASSUME pc # "done", pc' # "done" PROVE UNCHANGED Scan!vars
  BY <1>1 DEF Scan!vars, ScanPhase, ScanUnswept
<1>2. CASE PingUnavailable
  <2>1. /\ ScanPhase = "pinging" /\ ScanPhase' = "full"
        /\ ScanUnswept = {} /\ ScanUnswept' = AllTasks
    BY <1>2 DEF PingUnavailable, ScanPhase, ScanUnswept
  <2>2. Scan!PingUnavailable
    BY <2>1 DEF ScanOfRoute, Scan!PingUnavailable, Scan!Proceed, Scan!Plan,
                Scan!environment, Scan!token, Scan!tasks
  <2> QED BY <2>2 DEF RouteEnds
<1>3. CASE PingDeadline
  <2>1. CASE alive = {}
    <3>1. /\ ScanPhase = "pinging" /\ ScanPhase' = "done"
          /\ ScanUnswept = {} /\ ScanUnswept' = {}
      BY <1>3, <2>1 DEF PingDeadline, ScanPhase, ScanUnswept
    <3>2. Scan!PingNobody
      BY <3>1 DEF Scan!PingNobody, Scan!Proceed, Scan!environment, Scan!token, Scan!tasks
    <3> QED BY <3>2 DEF RouteEnds
  <2>2. CASE alive # {}
    BY <1>1, <1>3, <2>2 DEF PingDeadline
  <2> QED BY <2>1, <2>2
<1>4. CASE SynUnavailable
  <2>1. Scan!PingReplies
    BY <1>4, EndsWithTargets DEF SynUnavailable, IInv
  <2> QED BY <2>1 DEF RouteEnds
<1>5. CASE SynDeadline
  <2>1. outcome = "filtered"
    BY <1>5 DEF SynDeadline, IInv, Route
  <2>2. Scan!PingReplies
    BY <1>5, <2>1, EndsWithTargets DEF SynDeadline, IInv
  <2> QED BY <2>2 DEF RouteEnds
<1>6. CASE SendEchoes \/ SendSyns
  BY <1>1, <1>6 DEF SendEchoes, SendSyns
<1>7. CASE pc = "pinging" /\ \E e \in Echoes : RecvEcho(e)
  BY <1>1, <1>7 DEF RecvEcho
<1>8. CASE pc = "syn" /\ \E s \in Segments : RecvSegment(s)
  BY <1>1, <1>8 DEF RecvSegment
<1>9. CASE UNCHANGED vars
  BY <1>9 DEF vars, Scan!vars, ScanPhase, ScanUnswept
<1> QED
  BY <1>2, <1>3, <1>4, <1>5, <1>6, <1>7, <1>8, <1>9 DEF Next

\* The raw route implements the choice TcpScan makes of it: for any scan that
\* waits for it, it ends with a set of tasks TcpScan allows, and touches nothing
\* before.
THEOREM RouteFitsScan ==
  ASSUME ScanOfRoute
  PROVE  Spec => ScanPhase = "pinging" /\ ScanUnswept = {} /\ [][RouteEnds]_Scan!vars
<1>1. Init => ScanPhase = "pinging" /\ ScanUnswept = {}
  BY DEF Init, ScanPhase, ScanUnswept
<1>2. IInv /\ IInv' /\ Replied /\ Replied' /\ [Next]_vars => [RouteEnds]_Scan!vars
  BY RouteStep
<1> QED BY <1>1, <1>2, Inductive, RepliedHolds, PTL DEF Spec
=============================================================================
