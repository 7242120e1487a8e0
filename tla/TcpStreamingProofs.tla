------------------------- MODULE TcpStreamingProofs -------------------------
(***************************************************************************)
(* Theorems about TcpDiscovery and TcpStreaming, for any hosts, ports,     *)
(* retries and channel capacity: the preferred host is contacted alone,    *)
(* the matches of the sweep are merged without loss, the callback sees     *)
(* what was sent, in order, but for what met a full channel, and every     *)
(* discovery keeps what PollWatch expects of a pass.                       *)
(***************************************************************************)
EXTENDS TcpStreaming, PassContract, FiniteSetTheorems, FunctionTheorems, SequenceTheorems,
        TLAPS

----------------------------------------------------------------------------
(* Lists.                                                                  *)

\* A list of a finite set names exactly the set, each element once.
LEMMA ListsNameTheSet ==
  ASSUME NEW S, IsFiniteSet(S), NEW s \in SetToSeqs(S)
  PROVE  s \in Seq(S) /\ ToSet(s) = S /\ IsInjective(s)
<1> DEFINE D == 1..Cardinality(S)
<1>1. Cardinality(S) \in Nat
  BY FS_CardinalityType
<1>2. s \in [D -> S] /\ \A i, j \in D : s[i] = s[j] => i = j
  BY DEF SetToSeqs
<1>3. DOMAIN s = D /\ s \in Seq(S)
  BY <1>1, <1>2
<1>4. s \in Injection(D, S)
  BY <1>2, Fun_IsInj DEF Injection, IsInjective
<1>5. Cardinality(D) = Cardinality(S)
  BY <1>1, FS_Interval
<1>6. s \in Surjection(D, S)
  BY <1>1, <1>4, <1>5, FS_Injection
<1>7. \A x \in S : \E i \in D : s[i] = x
  BY <1>6 DEF Surjection
<1>8. IsInjective(s)
  BY <1>2, <1>3 DEF IsInjective
<1> QED BY <1>2, <1>3, <1>7, <1>8 DEF ToSet

\* One element more at the end of a list.
LEMMA AppendNames ==
  ASSUME NEW A, NEW s \in Seq(A), NEW x \in A
  PROVE  /\ Append(s, x) \in Seq(A) /\ Append(s, x) # <<>>
         /\ ToSet(Append(s, x)) = ToSet(s) \union {x}
<1> DEFINE t == Append(s, x)
<1>1. /\ t \in Seq(A) /\ t # <<>> /\ DOMAIN t = 1..Len(s) + 1
      /\ DOMAIN s = 1..Len(s) /\ Len(s) \in Nat
      /\ \A k \in 1..Len(s) : t[k] = s[k]
      /\ t[Len(s) + 1] = x
  OBVIOUS
<1> HIDE DEF t
<1>2. ASSUME NEW y \in ToSet(t) PROVE y \in ToSet(s) \union {x}
  <2>1. PICK k \in DOMAIN t : y = t[k]
    BY DEF ToSet
  <2>2. k = Len(s) + 1 \/ k \in 1..Len(s)
    BY <1>1
  <2> QED BY <1>1, <2>1, <2>2 DEF ToSet
<1>3. ASSUME NEW y \in ToSet(s) PROVE y \in ToSet(t)
  <2>1. PICK k \in 1..Len(s) : s[k] = y
    BY <1>1 DEF ToSet
  <2>2. k \in DOMAIN t /\ t[k] = y
    BY <1>1, <2>1
  <2> QED BY <2>2 DEF ToSet
<1>4. x \in ToSet(t)
  <2>1. Len(s) + 1 \in DOMAIN t
    BY <1>1
  <2> QED BY <1>1, <2>1 DEF ToSet
<1>5. ToSet(t) = ToSet(s) \union {x}
  BY <1>2, <1>3, <1>4
<1> QED BY <1>1, <1>5 DEF t

\* A list is its first element and the rest.
LEMMA HeadAndTailName ==
  ASSUME NEW A, NEW s \in Seq(A), s # <<>>
  PROVE  /\ Head(s) \in A /\ Tail(s) \in Seq(A)
         /\ ToSet(s) = {Head(s)} \union ToSet(Tail(s))
<1> DEFINE t == Tail(s)
<1>1. /\ t \in Seq(A) /\ Len(t) = Len(s) - 1 /\ Len(s) \in Nat \ {0}
      /\ \A i \in 1..Len(t) : t[i] = s[i + 1]
      /\ s[1] = Head(s) /\ Head(s) \in A
      /\ DOMAIN t = 1..Len(t) /\ DOMAIN s = 1..Len(s)
  BY HeadTailProperties
<1> HIDE DEF t
<1>2. ASSUME NEW y \in ToSet(s) PROVE y \in {Head(s)} \union ToSet(t)
  <2>1. PICK k \in 1..Len(s) : y = s[k]
    BY <1>1 DEF ToSet
  <2>2. CASE k = 1
    BY <1>1, <2>1, <2>2
  <2>3. CASE k # 1
    <3>1. k - 1 \in 1..Len(t) /\ (k - 1) + 1 = k
      BY <1>1, <2>1, <2>3
    <3>2. t[k - 1] = y
      BY <1>1, <2>1, <3>1
    <3> QED BY <1>1, <3>1, <3>2 DEF ToSet
  <2> QED BY <2>2, <2>3
<1>3. ASSUME NEW y \in {Head(s)} \union ToSet(t) PROVE y \in ToSet(s)
  <2>1. CASE y = Head(s)
    BY <1>1, <2>1 DEF ToSet
  <2>2. CASE y \in ToSet(t)
    <3>1. PICK k \in 1..Len(t) : y = t[k]
      BY <1>1, <2>2 DEF ToSet
    <3>2. k + 1 \in DOMAIN s /\ s[k + 1] = y
      BY <1>1, <3>1
    <3> QED BY <3>2 DEF ToSet
  <2> QED BY <1>3, <2>1, <2>2
<1>4. ToSet(s) = {Head(s)} \union ToSet(t)
  BY <1>2, <1>3
<1> QED BY <1>1, <1>4 DEF t

\* Two lists one after the other, by position.
LEMMA ConcatParts ==
  ASSUME NEW A, NEW s \in Seq(A), NEW t \in Seq(A)
  PROVE  /\ s \o t \in Seq(A) /\ Len(s \o t) = Len(s) + Len(t)
         /\ DOMAIN (s \o t) = 1..Len(s \o t)
         /\ \A i \in 1..Len(s) : (s \o t)[i] = s[i]
         /\ \A i \in 1..Len(t) : (s \o t)[Len(s) + i] = t[i]
  OBVIOUS

\* Two lists one after the other name what either names.
LEMMA ConcatNames ==
  ASSUME NEW A, NEW s \in Seq(A), NEW t \in Seq(A)
  PROVE  s \o t \in Seq(A) /\ ToSet(s \o t) = ToSet(s) \union ToSet(t)
<1> DEFINE u == s \o t
<1>1. /\ u \in Seq(A) /\ Len(u) = Len(s) + Len(t) /\ Len(s) \in Nat /\ Len(t) \in Nat
      /\ \A i \in 1..Len(s) : u[i] = s[i]
      /\ \A i \in 1..Len(t) : u[Len(s) + i] = t[i]
      /\ DOMAIN u = 1..Len(s) + Len(t) /\ DOMAIN s = 1..Len(s) /\ DOMAIN t = 1..Len(t)
  OBVIOUS
<1> HIDE DEF u
<1>2. ASSUME NEW y \in ToSet(u) PROVE y \in ToSet(s) \union ToSet(t)
  <2>1. PICK k \in DOMAIN u : y = u[k]
    BY DEF ToSet
  <2>2. CASE k \in 1..Len(s)
    BY <1>1, <2>1, <2>2 DEF ToSet
  <2>3. CASE k \notin 1..Len(s)
    <3>1. k - Len(s) \in 1..Len(t) /\ Len(s) + (k - Len(s)) = k
      BY <1>1, <2>3
    <3>2. t[k - Len(s)] = y
      BY <1>1, <2>1, <3>1
    <3> QED BY <1>1, <3>1, <3>2 DEF ToSet
  <2> QED BY <2>2, <2>3
<1>3. ASSUME NEW y \in ToSet(s) PROVE y \in ToSet(u)
  <2>1. PICK k \in 1..Len(s) : y = s[k]
    BY <1>1 DEF ToSet
  <2>2. k \in DOMAIN u /\ u[k] = y
    BY <1>1, <2>1
  <2> QED BY <2>2 DEF ToSet
<1>4. ASSUME NEW y \in ToSet(t) PROVE y \in ToSet(u)
  <2>1. PICK k \in 1..Len(t) : y = t[k]
    BY <1>1 DEF ToSet
  <2>2. Len(s) + k \in DOMAIN u /\ u[Len(s) + k] = y
    BY <1>1, <2>1
  <2> QED BY <2>2 DEF ToSet
<1>5. ToSet(u) = ToSet(s) \union ToSet(t)
  BY <1>2, <1>3, <1>4
<1> QED BY <1>1, <1>5 DEF u

\* The callback takes over the first match of the channel.
LEMMA Receiving ==
  ASSUME NEW A, NEW s \in Seq(A), NEW t \in Seq(A), t # <<>>
  PROVE  Append(s, Head(t)) \o Tail(t) = s \o t
<1>1. Head(t) \in A /\ Tail(t) \in Seq(A) /\ <<Head(t)>> \o Tail(t) = t
  OBVIOUS
<1>2. <<Head(t)>> \in Seq(A) /\ Append(s, Head(t)) = s \o <<Head(t)>>
  BY <1>1
<1>3. (s \o <<Head(t)>>) \o Tail(t) = s \o (<<Head(t)>> \o Tail(t))
  BY <1>1, <1>2, ConcatAssociative
<1> QED BY <1>1, <1>2, <1>3

\* The positions gone before a position, when one more goes at the end.
LEMMA PlacesStay ==
  ASSUME NEW n \in Nat, NEW gone \in SUBSET (1..n)
  PROVE  /\ IsFiniteSet(gone) /\ Cardinality(gone) \in Nat
         /\ \A i \in 1..n : PlaceOf(i, gone \union {n + 1}) = PlaceOf(i, gone)
         /\ PlaceOf(n + 1, gone) = (n + 1) - Cardinality(gone)
         /\ Cardinality(gone \union {n + 1}) = Cardinality(gone) + 1
<1>1. IsFiniteSet(gone) /\ Cardinality(gone) \in Nat
  <2>1. IsFiniteSet(1..n)
    BY FS_Interval
  <2> QED BY <2>1, FS_Subset, FS_CardinalityType
<1>2. ASSUME NEW i \in 1..n PROVE PlaceOf(i, gone \union {n + 1}) = PlaceOf(i, gone)
  <2>1. {j \in gone \union {n + 1} : j < i} = {j \in gone : j < i}
    OBVIOUS
  <2> QED BY <2>1 DEF PlaceOf
<1>3. PlaceOf(n + 1, gone) = (n + 1) - Cardinality(gone)
  <2>1. \A j \in gone : j \in 1..n /\ j < n + 1
    OBVIOUS
  <2>2. {j \in gone : j < n + 1} = gone
    BY <2>1
  <2> QED BY <2>2 DEF PlaceOf
<1>4. Cardinality(gone \union {n + 1}) = Cardinality(gone) + 1
  <2>1. n + 1 \notin gone
    OBVIOUS
  <2> QED BY <1>1, <2>1, FS_AddElement
<1> QED BY <1>1, <1>2, <1>3, <1>4

\* One match more is sent, and delivered.
LEMMA SentAndKept ==
  ASSUME NEW A, NEW list \in Seq(A), NEW whole \in Seq(A), NEW x \in A,
         NEW gone \in SUBSET (1..Len(whole)), IsWithout(list, whole, gone)
  PROVE  IsWithout(Append(list, x), Append(whole, x), gone)
<1> DEFINE longer == Append(list, x)
           more == Append(whole, x)
           n == Len(whole)
<1>1. /\ Len(longer) = Len(list) + 1 /\ Len(list) \in Nat /\ DOMAIN longer = 1..Len(list) + 1
      /\ DOMAIN list = 1..Len(list)
      /\ \A k \in 1..Len(list) : longer[k] = list[k]
      /\ longer[Len(list) + 1] = x
  OBVIOUS
<1>2. /\ Len(more) = n + 1 /\ n \in Nat /\ DOMAIN more = 1..n + 1 /\ DOMAIN whole = 1..n
      /\ \A k \in 1..n : more[k] = whole[k]
      /\ more[n + 1] = x
  OBVIOUS
<1> HIDE DEF longer, more, n
<1>3. gone \in SUBSET (1..n) /\ Len(list) + Cardinality(gone) = n
  BY DEF n, IsWithout
<1>4. PlaceOf(n + 1, gone) = (n + 1) - Cardinality(gone) /\ Cardinality(gone) \in Nat
  BY <1>2, <1>3, PlacesStay
<1>5. ASSUME NEW i \in DOMAIN more \ gone
      PROVE  PlaceOf(i, gone) \in DOMAIN longer /\ longer[PlaceOf(i, gone)] = more[i]
  <2>1. CASE i = n + 1
    <3>1. PlaceOf(i, gone) = Len(list) + 1
      BY <1>1, <1>2, <1>3, <1>4, <2>1
    <3> QED BY <1>1, <1>2, <2>1, <3>1
  <2>2. CASE i # n + 1
    <3>1. i \in DOMAIN whole \ gone /\ more[i] = whole[i]
      BY <1>2, <2>2
    <3>2. PlaceOf(i, gone) \in DOMAIN list /\ list[PlaceOf(i, gone)] = whole[i]
      BY <3>1 DEF IsWithout
    <3> QED BY <1>1, <3>1, <3>2
  <2> QED BY <2>1, <2>2
<1>6. Len(longer) + Cardinality(gone) = Len(more)
  <2>1. /\ Len(longer) = Len(list) + 1 /\ Len(more) = n + 1 /\ Len(list) + Cardinality(gone) = n
        /\ Len(list) \in Nat /\ Cardinality(gone) \in Nat
    BY ONLY <1>1, <1>2, <1>3, <1>4
  <2> QED BY ONLY <2>1
<1>7. IsWithout(longer, more, gone)
  BY <1>5, <1>6 DEF IsWithout
<1> QED BY <1>7 DEF longer, more

\* One match more is sent, and dropped.
LEMMA SentAndDropped ==
  ASSUME NEW A, NEW list \in Seq(A), NEW whole \in Seq(A), NEW x \in A,
         NEW gone \in SUBSET (1..Len(whole)), IsWithout(list, whole, gone)
  PROVE  IsWithout(list, Append(whole, x), gone \union {Len(whole) + 1})
<1> DEFINE more == Append(whole, x)
           n == Len(whole)
<1>1. /\ Len(more) = n + 1 /\ n \in Nat /\ DOMAIN more = 1..n + 1 /\ DOMAIN whole = 1..n
      /\ \A k \in 1..n : more[k] = whole[k]
      /\ Len(list) \in Nat
  OBVIOUS
<1> HIDE DEF more, n
<1>2. gone \in SUBSET (1..n) /\ Len(list) + Cardinality(gone) = n
  BY DEF n, IsWithout
<1>3. /\ Cardinality(gone \union {n + 1}) = Cardinality(gone) + 1
      /\ Cardinality(gone) \in Nat
      /\ \A i \in 1..n : PlaceOf(i, gone \union {n + 1}) = PlaceOf(i, gone)
  BY <1>1, <1>2, PlacesStay
<1>4. ASSUME NEW i \in DOMAIN more \ (gone \union {n + 1})
      PROVE  /\ PlaceOf(i, gone \union {n + 1}) \in DOMAIN list
             /\ list[PlaceOf(i, gone \union {n + 1})] = more[i]
  <2>1. i \in DOMAIN whole \ gone /\ more[i] = whole[i] /\ i \in 1..n
    BY <1>1
  <2>2. PlaceOf(i, gone) \in DOMAIN list /\ list[PlaceOf(i, gone)] = whole[i]
    BY <2>1 DEF IsWithout
  <2> QED BY <1>3, <2>1, <2>2
<1>5. Len(list) + Cardinality(gone \union {n + 1}) = Len(more)
  BY <1>1, <1>2, <1>3
<1>6. IsWithout(list, more, gone \union {n + 1})
  BY <1>4, <1>5 DEF IsWithout
<1> QED BY <1>6 DEF more, n

----------------------------------------------------------------------------
(* The inductive invariant.                                                *)

AfterPreferred ==
  {"mdns", "probe_mdns", "ssdp", "probe_ssdp", "sweep", "sweeping", "merging"}

Passing == {"answering", "probe_mdns", "probe_ssdp", "sweeping"}

\* The order of the phases, and what each finds untouched.
Course ==
  /\ pc \notin Passing => found = <<>>
  /\ pc \in {"preferred", "retry"} => attempt <= Retries
  /\ pc \in {"preferred", "retry", "answering", "answered"} => contacted = {}
  /\ pc \notin {"sweeping", "merging", "returned"} => sweepMatches = <<>> /\ ~complete
  /\ pc \notin {"merging", "returned"} => merged = 0
  /\ pc \notin {"answered", "merging", "returned"} => all = <<>>
  /\ preferred # NoHost /\ (pc \in AfterPreferred \/ contacted # {}) => attempt = Retries + 1
  /\ pc = "answering" =>
       /\ fast # <<>> \/ found # <<>>
       /\ \A a \in ToSet(fast) \union ToSet(found) : a[1] = preferred
  /\ pc = "answered" =>
       all = fast /\ fast # <<>> /\ \A a \in ToSet(fast) : a[1] = preferred

\* What a probe of a host, or a complete sweep, found is passed on, or about
\* to be.
Reached ==
  /\ pc \notin {"answering", "answered"} =>
       {a \in open : a[1] \in contacted} =
         ToSet(fast) \union (IF pc = "sweeping" THEN {} ELSE ToSet(found))
  /\ complete => {a \in open : a[1] \in Swept} = ToSet(sweepMatches) \union ToSet(found)

\* The final loop, at every point.
Merging ==
  pc \in {"merging", "returned"} =>
    /\ \A i \in DOMAIN all, j \in Len(fast) + 1 .. Len(all) : all[i] = all[j] => i = j
    /\ ToSet(all) = ToSet(fast) \union {sweepMatches[k] : k \in 1..merged}
    /\ pc = "returned" => merged = Len(sweepMatches)

\* What was sent is under way, or was dropped.
Streaming ==
  /\ ReceiverAlive =>
       /\ IsWithout(called \o channel, Sent, dropped)
       /\ ToSet(called \o channel) \subseteq ToSet(Sent)
  /\ consumer = "returned" =>
       /\ pc \in {"answered", "returned"}
       /\ IsWithout(called, Sent, dropped)
       /\ ToSet(called) \subseteq ToSet(Sent)

IInv == TypeOK /\ Course /\ Reached /\ Merging /\ Streaming

\* A call starts in the invariant.
LEMMA InvInit == StreamInit => IInv
<1> SUFFICES ASSUME StreamInit PROVE IInv
  OBVIOUS
<1> USE TcpDiscoveryAssumption, StreamingAssumption DEF StreamInit, Init
<1>1. <<>> \in Seq(open) /\ Len(<<>>) = 0 /\ DOMAIN <<>> = {} /\ ToSet(<<>>) = {}
  BY DEF ToSet
<1>2. Sent = <<>> /\ called \o channel = <<>>
  BY DEF Sent
<1>3. TypeOK
  <2>1. {found, fast, sweepMatches, all} \subseteq Seq(open) /\ channel \in Seq(open)
        /\ called \in Seq(open)
    BY <1>1
  <2>2. Len(channel) <= ChannelCapacity /\ merged \in 0..Len(sweepMatches)
    BY <1>1
  <2>3. /\ attempt \in 0..Retries + 1 /\ open \subseteq Reachable
        /\ named \subseteq Hosts /\ contacted \subseteq Hosts /\ dropped \subseteq DOMAIN Sent
    OBVIOUS
  <2> QED BY <2>1, <2>2, <2>3 DEF TypeOK, DiscoveryTypes
<1>4. Course /\ Reached /\ Merging
  BY <1>1 DEF Course, Reached, Merging, AfterPreferred, Passing
<1>5. Cardinality({}) = 0
  BY FS_EmptySet
<1>6. Streaming
  BY <1>1, <1>2, <1>5 DEF Streaming, IsWithout, ReceiverAlive
<1> QED BY <1>3, <1>4, <1>6 DEF IInv

----------------------------------------------------------------------------
(* The steps of the discovery.                                             *)

\* What a probe of a host finds.
LEMMA ProbedHosts ==
  ASSUME TypeOK, NEW h, NEW f \in HostResults(h, open)
  PROVE  f \in Seq(open) /\ ToSet(f) = {a \in open : a[1] = h} /\ IsInjective(f)
<1> DEFINE S == {a \in open : a[1] = h}
<1>1. S \subseteq Reachable /\ S \subseteq open
  BY DEF TypeOK, DiscoveryTypes
<1>2. IsFiniteSet(S)
  BY <1>1, TcpDiscoveryAssumption, FS_Subset
<1>3. f \in SetToSeqs(S)
  BY DEF HostResults
<1> HIDE DEF S
<1>4. f \in Seq(S) /\ ToSet(f) = S /\ IsInjective(f)
  BY <1>2, <1>3, ListsNameTheSet
<1>5. f \in Seq(open)
  BY <1>1, <1>4
<1> QED BY <1>4, <1>5 DEF S

\* What a sweep finds.
LEMMA SweptHosts ==
  ASSUME TypeOK, NEW f \in SweepResults(open)
  PROVE  f \in Seq(open)
<1>1. PICK hits \in SUBSET Answering(open), twice \in SUBSET Answering(open) :
        f \in Listings(hits, twice)
  BY DEF SweepResults
<1> DEFINE S == ({"once"} \X hits) \union ({"again"} \X twice)
<1>2. PICK s \in SetToSeqs(S) : f = [i \in DOMAIN s |-> s[i][2]]
  BY <1>1 DEF Listings
<1>3. IsFiniteSet(S)
  <2>1. IsFiniteSet(hits) /\ IsFiniteSet(twice)
    BY TcpDiscoveryAssumption, FS_Subset DEF TypeOK, DiscoveryTypes, Answering
  <2>2. IsFiniteSet({"once"}) /\ IsFiniteSet({"again"})
    BY FS_Singleton
  <2>3. IsFiniteSet({"once"} \X hits) /\ IsFiniteSet({"again"} \X twice)
    BY <2>1, <2>2, FS_Product
  <2> QED BY <2>3, FS_Union
<1>4. \A x \in S : x[2] \in open
  BY DEF Answering
<1> HIDE DEF S
<1>5. s \in Seq(S)
  BY <1>2, <1>3, ListsNameTheSet
<1> QED BY <1>2, <1>4, <1>5

\* A step of the discovery other than passing a match on leaves the stream as
\* it is.
LEMMA StreamingKept ==
  ASSUME IInv, Discovery, UNCHANGED streamVars
  PROVE  /\ Streaming' /\ UNCHANGED <<fast, sweepMatches, open>>
         /\ DiscoveryTypes' => TypeOK'
<1>1. UNCHANGED <<fast, sweepMatches, open>> /\ pc \notin {"answered", "returned", "failed"}
  BY DEF Discovery, NoPreferred, PreferredCancelled, PreferredAnswers, PreferredSilent,
     RetryDelay, Listen, SkipFastPath, ProbeNamedHost, NamedProbed, PreferredReturns,
     Sweep, SweepReturns, MergeNext, MergeEnds, SweepFails, setup, matches
<1>2. Sent' = Sent
  BY <1>1 DEF Sent
<1>3. Streaming'
  BY <1>1, <1>2 DEF IInv, Streaming, streamVars, ReceiverAlive
<1>4. DiscoveryTypes' => TypeOK'
  BY <1>1, <1>2 DEF IInv, TypeOK, streamVars
<1> QED BY <1>1, <1>3, <1>4

\* The attempts on the preferred host.
LEMMA PreferredStep ==
  ASSUME IInv, UNCHANGED streamVars,
         NoPreferred \/ PreferredCancelled \/ PreferredAnswers \/ PreferredSilent \/ RetryDelay
  PROVE  IInv'
<1>0. DiscoveryTypes /\ Course /\ Reached /\ Merging
  BY DEF IInv, TypeOK
<1>1. Discovery
  BY DEF Discovery
<1>2. Streaming' /\ UNCHANGED <<fast, sweepMatches, open>> /\ (DiscoveryTypes' => TypeOK')
  BY <1>1, StreamingKept
<1>3. CASE NoPreferred \/ RetryDelay
  <2>1. DiscoveryTypes' /\ Course'
    BY <1>0, <1>3 DEF NoPreferred, RetryDelay, DiscoveryTypes, Course, setup, matches,
       AfterPreferred, Passing
  <2>2. Reached' /\ Merging'
    BY <1>0, <1>3 DEF NoPreferred, RetryDelay, Reached, Merging, setup, matches
  <2> QED BY <1>2, <2>1, <2>2 DEF IInv
<1>4. CASE PreferredCancelled
  <2>1. DiscoveryTypes' /\ Course'
    BY <1>0, <1>4 DEF PreferredCancelled, DiscoveryTypes, Course, setup, matches,
       AfterPreferred, Passing
  <2>2. ToSet(all) = {} /\ DOMAIN all = {} /\ Len(sweepMatches) = 0 /\ merged = 0
        /\ found = <<>> /\ contacted = {} /\ ToSet(found) = {}
    BY <1>0, <1>4 DEF PreferredCancelled, Course, Passing, ToSet
  <2>3. ToSet(fast) = {}
    BY <1>0, <1>4, <2>2 DEF PreferredCancelled, Reached
  <2>4. Reached' /\ Merging'
    BY <1>0, <1>4, <2>2, <2>3 DEF PreferredCancelled, Reached, Merging, setup, matches
  <2> QED BY <1>2, <2>1, <2>4 DEF IInv
<1>5. CASE PreferredAnswers
  <2>1. found' \in HostResults(preferred, open) /\ found' # <<>>
    BY <1>5 DEF PreferredAnswers
  <2>2. found' \in Seq(open) /\ ToSet(found') = {a \in open : a[1] = preferred}
    BY <2>1, ProbedHosts DEF IInv
  <2>3. attempt' \in 0..Retries + 1
    BY <1>0, <1>5, TcpDiscoveryAssumption DEF PreferredAnswers, DiscoveryTypes, Course
  <2>4. DiscoveryTypes'
    BY <1>0, <1>5, <2>2, <2>3 DEF PreferredAnswers, DiscoveryTypes, setup
  <2>5. ToSet(fast) = {}
    BY <1>0, <1>5 DEF PreferredAnswers, Course, Reached, Passing
  <2>6. Course'
    BY <1>0, <1>5, <2>1, <2>2, <2>5
       DEF PreferredAnswers, Course, setup, AfterPreferred, Passing
  <2>7. Reached' /\ Merging'
    BY <1>0, <1>5 DEF PreferredAnswers, Reached, Merging, Course, setup
  <2> QED BY <1>2, <2>4, <2>6, <2>7 DEF IInv
<1>6. CASE PreferredSilent
  <2>1. /\ attempt' = attempt + 1 /\ attempt <= Retries /\ attempt \in Nat /\ Retries \in Nat
        /\ pc' = "mdns" => attempt = Retries
        /\ pc' = "retry" => attempt + 1 <= Retries
    BY <1>0, <1>6, TcpDiscoveryAssumption
       DEF PreferredSilent, DiscoveryTypes, Course, RetryLeft
  <2>2. DiscoveryTypes'
    BY <1>0, <1>6, <2>1 DEF PreferredSilent, DiscoveryTypes, setup, matches
  <2>3. Course'
    BY <1>0, <1>6, <2>1 DEF PreferredSilent, Course, setup, matches, AfterPreferred, Passing
  <2>4. Reached' /\ Merging'
    BY <1>0, <1>6 DEF PreferredSilent, Reached, Merging, Course, setup, matches
  <2> QED BY <1>2, <2>2, <2>3, <2>4 DEF IInv
<1> QED BY <1>3, <1>4, <1>5, <1>6

\* The fast paths.
LEMMA FastPathStep ==
  ASSUME IInv, UNCHANGED streamVars,
         Listen \/ SkipFastPath \/ (\E h \in Hosts : ProbeNamedHost(h)) \/ NamedProbed
  PROVE  IInv'
<1>0. DiscoveryTypes /\ Course /\ Reached /\ Merging
  BY DEF IInv, TypeOK
<1>1. Discovery
  BY DEF Discovery
<1>2. Streaming' /\ UNCHANGED <<fast, sweepMatches, open>> /\ (DiscoveryTypes' => TypeOK')
  BY <1>1, StreamingKept
<1>3. CASE Listen \/ SkipFastPath
  <2>1. named' \subseteq Hosts
    BY <1>0, <1>3, TcpDiscoveryAssumption DEF Listen, SkipFastPath, DiscoveryTypes
  <2>2. DiscoveryTypes' /\ Course'
    BY <1>0, <1>3, <2>1 DEF Listen, SkipFastPath, DiscoveryTypes, Course, setup, matches,
       AfterPreferred, Passing
  <2>3. found = <<>>
    BY <1>0, <1>3 DEF Listen, SkipFastPath, Course, Passing
  <2>4. Reached' /\ Merging'
    BY <1>0, <1>3, <2>3 DEF Listen, SkipFastPath, Reached, Merging, setup, matches
  <2> QED BY <1>2, <2>2, <2>4 DEF IInv
<1>4. ASSUME NEW h \in Hosts, ProbeNamedHost(h) PROVE IInv'
  <2>1. found' \in Seq(open) /\ ToSet(found') = {a \in open : a[1] = h}
    BY <1>4, ProbedHosts DEF IInv, ProbeNamedHost
  <2>2. DiscoveryTypes' /\ Course'
    BY <1>0, <1>4, <2>1 DEF ProbeNamedHost, DiscoveryTypes, Course, setup,
       AfterPreferred, Passing
  <2>3. ToSet(found) = {}
    BY <1>4 DEF ProbeNamedHost, ToSet
  <2>4. {a \in open : a[1] \in contacted} = ToSet(fast)
    BY <1>0, <1>4, <2>3 DEF ProbeNamedHost, Reached
  <2>5. {a \in open : a[1] \in contacted \union {h}}
          = {a \in open : a[1] \in contacted} \union {a \in open : a[1] = h}
    OBVIOUS
  <2>6. Reached' /\ Merging'
    BY <1>0, <1>4, <2>1, <2>4, <2>5 DEF ProbeNamedHost, Reached, Merging, Course, setup
  <2> QED BY <1>2, <2>2, <2>6 DEF IInv
<1>5. CASE NamedProbed
  <2>1. DiscoveryTypes' /\ Course'
    BY <1>0, <1>5 DEF NamedProbed, DiscoveryTypes, Course, setup, matches,
       AfterPreferred, Passing
  <2>2. Reached' /\ Merging'
    BY <1>0, <1>5 DEF NamedProbed, Reached, Merging, setup, matches
  <2> QED BY <1>2, <2>1, <2>2 DEF IInv
<1> QED BY <1>3, <1>4, <1>5

\* The ways out of a phase that passed its matches on, and the sweep.
LEMMA SweepStep ==
  ASSUME IInv, UNCHANGED streamVars,
         PreferredReturns \/ Sweep \/ SweepFails \/ SweepReturns
  PROVE  IInv'
<1>0. DiscoveryTypes /\ Course /\ Reached /\ Merging
  BY DEF IInv, TypeOK
<1>1. Discovery
  BY DEF Discovery
<1>2. Streaming' /\ UNCHANGED <<fast, sweepMatches, open>> /\ (DiscoveryTypes' => TypeOK')
  BY <1>1, StreamingKept
<1>3. CASE PreferredReturns
  <2>1. DiscoveryTypes' /\ Course'
    BY <1>0, <1>3 DEF PreferredReturns, DiscoveryTypes, Course, setup, AfterPreferred, Passing
  <2>2. Reached' /\ Merging'
    BY <1>0, <1>3 DEF PreferredReturns, Reached, Merging, Course, setup
  <2> QED BY <1>2, <2>1, <2>2 DEF IInv
<1>4. CASE Sweep
  <2> DEFINE answering == {a \in open : a[1] \in Swept}
  <2>1. found' \in Seq(open)
    BY <1>4, SweptHosts DEF IInv, Sweep
  <2>2. complete' \in BOOLEAN /\ (complete' => ToSet(found') = answering)
    BY <1>4 DEF Sweep, Answering
  <2>3. DiscoveryTypes' /\ Course'
    BY <1>0, <1>4, <2>1, <2>2 DEF Sweep, DiscoveryTypes, Course, setup, AfterPreferred, Passing
  <2>4. ToSet(found) = {} /\ ToSet(sweepMatches) = {}
    BY <1>0, <1>4 DEF Sweep, Course, Passing, ToSet
  <2>5. Reached' /\ Merging'
    BY <1>0, <1>4, <2>2, <2>4 DEF Sweep, Reached, Merging, setup
  <2> QED BY <1>2, <2>3, <2>5 DEF IInv
<1>5. CASE SweepFails
  <2>1. DiscoveryTypes' /\ Course'
    BY <1>0, <1>5 DEF SweepFails, DiscoveryTypes, Course, setup, matches,
       AfterPreferred, Passing
  <2>2. Reached' /\ Merging'
    BY <1>0, <1>5 DEF SweepFails, Reached, Merging, setup, matches
  <2> QED BY <1>2, <2>1, <2>2 DEF IInv
<1>6. CASE SweepReturns
  <2>1. DiscoveryTypes' /\ Course'
    BY <1>0, <1>6 DEF SweepReturns, DiscoveryTypes, Course, setup, AfterPreferred, Passing
  <2>2. ToSet(found) = {} /\ merged = 0
    BY <1>0, <1>6 DEF SweepReturns, Course, ToSet
  <2>3. Reached'
    BY <1>0, <1>6, <2>2 DEF SweepReturns, Reached, setup
  <2>4. {sweepMatches[k] : k \in 1..0} = {} /\ Len(fast) \in Nat
    BY <1>0 DEF DiscoveryTypes
  <2>5. Merging'
    BY <1>6, <2>2, <2>4 DEF SweepReturns, Merging
  <2> QED BY <1>2, <2>1, <2>3, <2>5 DEF IInv
<1> QED BY <1>3, <1>4, <1>5, <1>6

\* The final loop.
LEMMA MergeStep ==
  ASSUME IInv, UNCHANGED streamVars, MergeNext \/ MergeEnds
  PROVE  IInv'
<1>0. DiscoveryTypes /\ Course /\ Reached /\ Merging
  BY DEF IInv, TypeOK
<1>1. Discovery
  BY DEF Discovery
<1>2. Streaming' /\ UNCHANGED <<fast, sweepMatches, open>> /\ (DiscoveryTypes' => TypeOK')
  BY <1>1, StreamingKept
<1>3. CASE MergeEnds
  <2>1. DiscoveryTypes' /\ Course'
    BY <1>0, <1>3 DEF MergeEnds, DiscoveryTypes, Course, setup, matches, AfterPreferred, Passing
  <2>2. Reached' /\ Merging'
    BY <1>0, <1>3 DEF MergeEnds, Reached, Merging, setup, matches
  <2> QED BY <1>2, <2>1, <2>2 DEF IInv
<1>4. CASE MergeNext
  <2> DEFINE x == sweepMatches[merged + 1]
             before == {sweepMatches[k] : k \in 1..merged}
             after == {sweepMatches[k] : k \in 1..merged + 1}
  <2>1. /\ pc = "merging" /\ merged < Len(sweepMatches) /\ merged' = merged + 1
        /\ all' = IF x \in ToSet(all) THEN all ELSE Append(all, x)
        /\ pc' = "merging" /\ found = <<>>
    BY <1>0, <1>4 DEF MergeNext, IsNew, Course, Passing
  <2>2. /\ sweepMatches \in Seq(open) /\ all \in Seq(open) /\ fast \in Seq(open)
        /\ merged \in Nat /\ Len(sweepMatches) \in Nat
    BY <1>0 DEF DiscoveryTypes
  <2>3. x \in open /\ merged' \in 0..Len(sweepMatches)
    BY <2>1, <2>2
  <2>4. after = before \union {x}
    <3>1. \A k \in 1..merged + 1 : k \in 1..merged \/ k = merged + 1
      BY <2>2
    <3>2. \A k \in 1..merged : k \in 1..merged + 1
      BY <2>2
    <3>3. merged + 1 \in 1..merged + 1
      BY <2>2
    <3> QED BY <3>1, <3>2, <3>3
  <2> HIDE DEF x, before, after
  <2>5. all' \in Seq(open) /\ ToSet(all') = ToSet(all) \union {x}
    <3>1. CASE x \in ToSet(all)
      BY <2>1, <2>2, <3>1
    <3>2. CASE x \notin ToSet(all)
      BY <2>1, <2>2, <2>3, <3>2, AppendNames
    <3> QED BY <3>1, <3>2
  <2>6. ASSUME NEW i \in DOMAIN all', NEW j \in Len(fast) + 1 .. Len(all'), all'[i] = all'[j]
        PROVE  i = j
    <3>0. \A k \in DOMAIN all, l \in Len(fast) + 1 .. Len(all) : all[k] = all[l] => k = l
      BY <1>0, <2>1 DEF Merging
    <3>1. CASE x \in ToSet(all)
      BY <2>1, <2>6, <3>0, <3>1
    <3>2. CASE x \notin ToSet(all)
      <4>1. /\ all' = Append(all, x) /\ Len(all') = Len(all) + 1 /\ Len(all) \in Nat
            /\ DOMAIN all' = 1..Len(all) + 1 /\ DOMAIN all = 1..Len(all)
            /\ \A k \in 1..Len(all) : all'[k] = all[k]
            /\ all'[Len(all) + 1] = x
        BY <2>1, <2>2, <3>2
      <4>2. \A k \in 1..Len(all) : all[k] # x
        BY <3>2, <4>1 DEF ToSet
      <4>3. Len(fast) \in Nat /\ j \in 1..Len(all) + 1 /\ i \in 1..Len(all) + 1
        BY <2>2, <4>1
      <4>4. CASE i = Len(all) + 1 \/ j = Len(all) + 1
        BY <2>6, <4>1, <4>2, <4>3, <4>4
      <4>5. CASE i # Len(all) + 1 /\ j # Len(all) + 1
        <5>1. i \in DOMAIN all /\ j \in Len(fast) + 1 .. Len(all) /\ j \in 1..Len(all)
          BY <4>1, <4>3, <4>5
        <5> QED BY <2>6, <3>0, <4>1, <5>1
      <4> QED BY <4>4, <4>5
    <3> QED BY <3>1, <3>2
  <2>7. ToSet(all) = ToSet(fast) \union before
    BY <1>0, <2>1 DEF Merging, before
  <2>8. Merging'
    <3>1. {sweepMatches'[k] : k \in 1..merged'} = after
      BY <1>2, <2>1 DEF after
    <3>2. ToSet(all') = ToSet(fast') \union {sweepMatches'[k] : k \in 1..merged'}
      BY <1>2, <2>4, <2>5, <2>7, <3>1
    <3>3. Len(fast') = Len(fast)
      BY <1>2
    <3> QED BY <2>1, <2>6, <3>2, <3>3 DEF Merging
  <2>9. DiscoveryTypes' /\ Course'
    BY <1>0, <1>4, <2>3, <2>5 DEF MergeNext, DiscoveryTypes, Course, setup,
       AfterPreferred, Passing
  <2>10. Reached'
    BY <1>0, <1>4 DEF MergeNext, Reached, setup
  <2> QED BY <1>2, <2>8, <2>9, <2>10 DEF IInv
<1> QED BY <1>3, <1>4

----------------------------------------------------------------------------
(* Passing a match on, and the calling thread.                             *)

\* Behind two lists, one element more is behind the second.
LEMMA AppendBehind ==
  ASSUME NEW A, NEW s \in Seq(A), NEW t \in Seq(A), NEW x \in A
  PROVE  s \o Append(t, x) = Append(s \o t, x)
<1>1. <<x>> \in Seq(A) /\ Append(t, x) = t \o <<x>> /\ s \o t \in Seq(A)
  OBVIOUS
<1>2. Append(s \o t, x) = (s \o t) \o <<x>>
  BY <1>1
<1>3. (s \o t) \o <<x>> = s \o (t \o <<x>>)
  BY <1>1, ConcatAssociative
<1> QED BY <1>1, <1>2, <1>3

\* A match passed on is the next one sent.
LEMMA PassedOn ==
  ASSUME IInv, PassOn
  PROVE  /\ pc \in Passing /\ Head(found) \in open
         /\ Sent \in Seq(open) /\ Sent' = Append(Sent, Head(found))
         /\ DiscoveryTypes' /\ Course' /\ Reached' /\ Merging'
<1>0. DiscoveryTypes /\ Course /\ Reached
  BY DEF IInv, TypeOK
<1> DEFINE x == Head(found)
<1>1. pc \in Passing /\ found # <<>> /\ found' = Tail(found)
  BY <1>0 DEF PassOn, Course
<1>2. found \in Seq(open) /\ fast \in Seq(open) /\ sweepMatches \in Seq(open)
  BY <1>0 DEF DiscoveryTypes
<1>3. x \in open /\ found' \in Seq(open) /\ ToSet(found) = {x} \union ToSet(found')
  BY <1>1, <1>2, HeadAndTailName
<1>4. Sent \in Seq(open)
  BY <1>2, ConcatNames DEF Sent
<1> HIDE DEF x
<1>5. CASE pc = "sweeping"
  <2>1. sweepMatches' = Append(sweepMatches, x) /\ fast' = fast
    BY <1>5 DEF PassOn, x
  <2>2. /\ sweepMatches' \in Seq(open)
        /\ ToSet(sweepMatches') = ToSet(sweepMatches) \union {x}
    BY <1>2, <1>3, <2>1, AppendNames
  <2>3. Sent' = Append(Sent, x)
    BY <1>2, <1>3, <2>1, AppendBehind DEF Sent
  <2>4. merged = 0
    BY <1>0, <1>5 DEF Course
  <2>5. merged' \in 0..Len(sweepMatches')
    BY <2>2, <2>4 DEF PassOn
  <2>6. DiscoveryTypes'
    BY <1>0, <1>2, <1>3, <2>1, <2>2, <2>5 DEF PassOn, DiscoveryTypes, setup
  <2>7. Course'
    BY <1>0, <1>5, <2>1 DEF PassOn, Course, setup, AfterPreferred, Passing
  <2>8. Reached' /\ Merging'
    BY <1>0, <1>3, <1>5, <2>1, <2>2 DEF PassOn, Reached, Merging, setup
  <2> QED BY <1>1, <1>3, <1>4, <2>3, <2>6, <2>7, <2>8 DEF x
<1>6. CASE pc # "sweeping"
  <2>1. fast' = Append(fast, x) /\ sweepMatches' = sweepMatches
    BY <1>6 DEF PassOn, x
  <2>2. fast' \in Seq(open) /\ fast' # <<>> /\ ToSet(fast') = ToSet(fast) \union {x}
    BY <1>2, <1>3, <2>1, AppendNames
  <2>3. sweepMatches = <<>> /\ ~complete
    BY <1>0, <1>1, <1>6 DEF Course, Passing
  <2>4. Sent' = Append(Sent, x)
    <3>1. fast \o <<>> = fast /\ fast' \o <<>> = fast'
      BY <1>2, <2>2
    <3> QED BY <2>1, <2>3, <3>1 DEF Sent
  <2>5. DiscoveryTypes'
    BY <1>0, <1>2, <1>3, <2>1, <2>2 DEF PassOn, DiscoveryTypes, setup
  <2>6. Course'
    BY <1>0, <1>1, <1>3, <1>6, <2>1, <2>2 DEF PassOn, Course, setup, AfterPreferred, Passing
  <2>7. Reached' /\ Merging'
    BY <1>0, <1>1, <1>3, <1>6, <2>1, <2>2, <2>3 DEF PassOn, Reached, Merging, setup, Passing
  <2> QED BY <1>1, <1>3, <1>4, <2>4, <2>5, <2>6, <2>7 DEF x
<1> QED BY <1>5, <1>6

\* A match is passed on and sent, or dropped.
LEMMA SendStep ==
  ASSUME IInv, PassOnAndSend
  PROVE  IInv'
<1> DEFINE x == Head(found)
<1>1. /\ pc \in Passing /\ x \in open /\ Sent \in Seq(open) /\ Sent' = Append(Sent, x)
      /\ DiscoveryTypes' /\ Course' /\ Reached' /\ Merging'
  BY PassedOn DEF PassOnAndSend
<1>2. TypeOK /\ Streaming /\ pc' = pc /\ open' = open /\ consumer' = consumer /\ called' = called
  BY DEF IInv, PassOnAndSend, PassOn, setup
<1>3. channel \in Seq(open) /\ called \in Seq(open) /\ called \o channel \in Seq(open)
      /\ dropped \subseteq DOMAIN Sent /\ Len(channel) <= ChannelCapacity
  BY <1>2 DEF TypeOK
<1>4. channel' = IF ReceiverAlive /\ Len(channel) < ChannelCapacity THEN Append(channel, x)
                                                                    ELSE channel
  BY DEF PassOnAndSend, AfterTrySend
<1>5. dropped' = IF ReceiverAlive /\ channel' = channel THEN dropped \union {Len(Sent) + 1}
                                                        ELSE dropped
  BY DEF PassOnAndSend
<1> HIDE DEF x
<1>6. /\ DOMAIN Sent = 1..Len(Sent) /\ DOMAIN Sent' = 1..Len(Sent) + 1 /\ Len(Sent) \in Nat
      /\ Sent' \in Seq(open) /\ ToSet(Sent') = ToSet(Sent) \union {x}
  BY <1>1, AppendNames
<1>7. consumer' # "returned"
  BY <1>1, <1>2 DEF Streaming, Passing
<1>8. CASE ReceiverAlive /\ Len(channel) < ChannelCapacity
  <2>1. channel' = Append(channel, x)
    BY <1>4, <1>8
  <2>2. Len(channel') = Len(channel) + 1 /\ Len(channel) \in Nat /\ channel' \in Seq(open)
    BY <1>1, <1>3, <2>1
  <2>3. channel' # channel
    BY <2>2
  <2>4. dropped' = dropped
    BY <1>5, <2>3
  <2>5. called \o channel' = Append(called \o channel, x)
    BY <1>1, <1>3, <2>1, AppendBehind
  <2>6. /\ IsWithout(called \o channel, Sent, dropped)
        /\ ToSet(called \o channel) \subseteq ToSet(Sent)
    BY <1>2, <1>8 DEF Streaming
  <2>7. IsWithout(called \o channel', Sent', dropped')
    BY <1>1, <1>3, <1>6, <2>4, <2>5, <2>6, SentAndKept
  <2>8. ToSet(called \o channel') = ToSet(called \o channel) \union {x}
    <3> DEFINE u == called \o channel
    <3>1. u \in Seq(open) /\ x \in open
      BY <1>1, <1>3
    <3> HIDE DEF u
    <3>2. ToSet(Append(u, x)) = ToSet(u) \union {x}
      BY <3>1, AppendNames
    <3> QED BY <2>5, <3>2 DEF u
  <2>9. Streaming'
    <3>1. called' \o channel' = called \o channel'
      BY <1>2
    <3>2. ToSet(called \o channel') \subseteq ToSet(Sent')
      BY <1>6, <2>6, <2>8
    <3> QED BY <1>7, <2>7, <3>1, <3>2 DEF Streaming
  <2>10. Len(channel') <= ChannelCapacity
    BY <1>8, <2>2, StreamingAssumption
  <2>11. TypeOK'
    BY <1>1, <1>2, <1>3, <1>6, <2>2, <2>4, <2>10 DEF TypeOK
  <2> QED BY <1>1, <2>9, <2>11 DEF IInv
<1>9. CASE ReceiverAlive /\ ~(Len(channel) < ChannelCapacity)
  <2>1. channel' = channel /\ dropped' = dropped \union {Len(Sent) + 1}
    BY <1>4, <1>5, <1>9
  <2>2. /\ IsWithout(called \o channel, Sent, dropped)
        /\ ToSet(called \o channel) \subseteq ToSet(Sent)
    BY <1>2, <1>9 DEF Streaming
  <2>3. IsWithout(called \o channel, Sent', dropped')
    BY <1>1, <1>3, <1>6, <2>1, <2>2, SentAndDropped
  <2>4. Streaming'
    BY <1>2, <1>6, <1>7, <2>1, <2>2, <2>3 DEF Streaming
  <2>5. dropped' \subseteq DOMAIN Sent'
    BY <1>3, <1>6, <2>1
  <2>6. TypeOK'
    BY <1>1, <1>2, <1>3, <2>1, <2>5 DEF TypeOK
  <2> QED BY <1>1, <2>4, <2>6 DEF IInv
<1>10. CASE ~ReceiverAlive
  <2>1. channel' = channel /\ dropped' = dropped /\ ~ReceiverAlive'
    BY <1>2, <1>4, <1>5, <1>10 DEF ReceiverAlive
  <2>2. Streaming'
    BY <1>7, <2>1 DEF Streaming
  <2>3. dropped' \subseteq DOMAIN Sent'
    BY <1>3, <1>6, <2>1
  <2>4. TypeOK'
    BY <1>1, <1>2, <1>3, <2>1, <2>3 DEF TypeOK
  <2> QED BY <1>1, <2>2, <2>4 DEF IInv
<1> QED BY <1>8, <1>9, <1>10

\* A step of the calling thread leaves the discovery as it is.
LEMMA DiscoveryKept ==
  ASSUME IInv, UNCHANGED vars
  PROVE  /\ Sent' = Sent /\ DiscoveryTypes' /\ Course' /\ Reached' /\ Merging'
         /\ UNCHANGED <<pc, open>>
<1>1. UNCHANGED <<preferred, open, cancelled, pc, attempt, named, contacted, found, fast,
                  sweepMatches, merged, complete, all>>
  BY DEF vars, setup, matches
<1>2. Sent' = Sent
  BY <1>1 DEF Sent
<1>3. DiscoveryTypes' /\ Course'
  BY <1>1 DEF IInv, TypeOK, DiscoveryTypes, Course
<1>4. Reached' /\ Merging'
  BY <1>1 DEF IInv, Reached, Merging
<1> QED BY <1>1, <1>2, <1>3, <1>4

\* The calling thread.
LEMMA ConsumerStep ==
  ASSUME IInv, Consumer
  PROVE  IInv'
<1>1. UNCHANGED vars
  BY DEF Consumer, Receive, CallbackReturns, CallbackRaises, JoinAndReturn, DiscoverReturns
<1>2. /\ Sent' = Sent /\ DiscoveryTypes' /\ Course' /\ Reached' /\ Merging'
      /\ pc' = pc /\ open' = open
  BY <1>1, DiscoveryKept
<1>3. TypeOK /\ Streaming
  BY DEF IInv
<1>4. channel \in Seq(open) /\ called \in Seq(open) /\ Len(channel) <= ChannelCapacity
  BY <1>3 DEF TypeOK
<1>5. CASE Receive
  <2>1. /\ channel # <<>> /\ called' = Append(called, Head(channel)) /\ channel' = Tail(channel)
        /\ consumer = "receiving" /\ consumer' = "calling" /\ dropped' = dropped
    BY <1>5 DEF Receive
  <2>2. Head(channel) \in open /\ channel' \in Seq(open)
    BY <1>4, <2>1, HeadAndTailName
  <2>3. called' \in Seq(open) /\ Len(channel') = Len(channel) - 1 /\ Len(channel) \in Nat
    BY <1>4, <2>1, <2>2
  <2>4. called' \o channel' = called \o channel
    BY <1>4, <2>1, Receiving
  <2>5. Streaming'
    BY <1>2, <1>3, <2>1, <2>4 DEF Streaming, ReceiverAlive
  <2>6. Len(channel') <= ChannelCapacity
    BY <1>4, <2>3, StreamingAssumption
  <2>7. TypeOK'
    BY <1>2, <1>3, <2>1, <2>2, <2>3, <2>6 DEF TypeOK
  <2> QED BY <1>2, <2>5, <2>7 DEF IInv
<1>6. CASE CallbackReturns
  <2>1. Streaming'
    BY <1>2, <1>3, <1>6 DEF CallbackReturns, Streaming, ReceiverAlive
  <2>2. TypeOK'
    BY <1>2, <1>3, <1>6 DEF CallbackReturns, TypeOK
  <2> QED BY <1>2, <2>1, <2>2 DEF IInv
<1>7. CASE CallbackRaises
  <2>1. Streaming'
    BY <1>7 DEF CallbackRaises, Streaming, ReceiverAlive
  <2>2. <<>> \in Seq(open') /\ Len(<<>>) <= ChannelCapacity
    BY StreamingAssumption
  <2>3. TypeOK'
    BY <1>2, <1>7, <2>2 DEF CallbackRaises, TypeOK
  <2> QED BY <1>2, <2>1, <2>3 DEF IInv
<1>8. CASE JoinAndReturn
  <2>1. /\ channel = <<>> /\ pc \in Ended /\ consumer = "receiving"
        /\ consumer' = IF pc = "failed" THEN "raised" ELSE "returned"
        /\ UNCHANGED <<channel, dropped, called>>
    BY <1>8 DEF JoinAndReturn, StreamOver
  <2>2. called \o channel = called
    BY <1>4, <2>1
  <2>3. IsWithout(called, Sent, dropped) /\ ToSet(called) \subseteq ToSet(Sent)
    BY <1>3, <2>1, <2>2 DEF Streaming, ReceiverAlive
  <2>4. Streaming'
    BY <1>2, <2>1, <2>3 DEF Streaming, ReceiverAlive, Ended
  <2>5. TypeOK'
    BY <1>2, <1>3, <2>1 DEF TypeOK
  <2> QED BY <1>2, <2>4, <2>5 DEF IInv
<1>9. CASE DiscoverReturns
  <2>1. Streaming'
    BY <1>9 DEF DiscoverReturns, Streaming, ReceiverAlive
  <2>2. TypeOK'
    BY <1>2, <1>3, <1>9 DEF DiscoverReturns, TypeOK
  <2> QED BY <1>2, <2>1, <2>2 DEF IInv
<1> QED BY <1>5, <1>6, <1>7, <1>8, <1>9 DEF Consumer

\* Another thread sets or resets the token.
LEMMA TokenStep ==
  ASSUME IInv, UserStep
  PROVE  IInv'
<1>1. /\ cancelled' \in BOOLEAN
      /\ UNCHANGED <<preferred, open, pc, attempt, named, contacted, found, fast,
                     sweepMatches, merged, complete, all>>
      /\ UNCHANGED <<channel, consumer, dropped, called>>
  BY DEF UserStep, Cancel, Reset, SetToken, setup, matches, streamVars
<1>2. Sent' = Sent
  BY <1>1 DEF Sent
<1>3. TypeOK' /\ Course'
  BY <1>1, <1>2 DEF IInv, TypeOK, DiscoveryTypes, Course
<1>4. Reached' /\ Merging' /\ Streaming'
  BY <1>1, <1>2 DEF IInv, Reached, Merging, Streaming, ReceiverAlive
<1> QED BY <1>3, <1>4 DEF IInv

----------------------------------------------------------------------------
(* The theorems.                                                           *)

\* Every step keeps the invariant.
LEMMA InvStep == IInv /\ [StreamNext]_<<vars, streamVars>> => IInv'
<1> SUFFICES ASSUME IInv, [StreamNext]_<<vars, streamVars>> PROVE IInv'
  OBVIOUS
<1>1. CASE Discovery /\ UNCHANGED streamVars
  BY <1>1, PreferredStep, FastPathStep, SweepStep, MergeStep DEF Discovery
<1>2. CASE PassOnAndSend
  BY <1>2, SendStep
<1>3. CASE Consumer
  BY <1>3, ConsumerStep
<1>4. CASE UserStep
  BY <1>4, TokenStep
<1>5. CASE UNCHANGED <<vars, streamVars>>
  <2>1. /\ Sent' = Sent /\ DiscoveryTypes' /\ Course' /\ Reached' /\ Merging'
        /\ UNCHANGED <<pc, open>>
    BY <1>5, DiscoveryKept
  <2>2. TypeOK' /\ Streaming'
    BY <1>5, <2>1 DEF IInv, TypeOK, Streaming, ReceiverAlive, streamVars
  <2> QED BY <2>1, <2>2 DEF IInv
<1> QED BY <1>1, <1>2, <1>3, <1>4, <1>5 DEF StreamNext, DiscoveryThread

\* The invariant holds throughout a call of discover or discover_streaming.
THEOREM Inductive == StreamSpec => []IInv
<1> QED BY InvInit, InvStep, PTL DEF StreamSpec

\* The types of the discovery's and the stream's state; the channel never
\* holds more than its capacity.
THEOREM TypeCorrect == StreamSpec => []TypeOK
<1>1. IInv => TypeOK
  BY DEF IInv
<1> QED BY <1>1, Inductive, PTL

\* The final loop of run_discovery adds no address twice and loses none.
THEOREM SweepIsMergedHolds == StreamSpec => []SweepIsMerged
<1>1. ASSUME IInv PROVE SweepIsMerged
  <2> SUFFICES ASSUME pc \in {"answered", "returned"} PROVE
        /\ \A i \in DOMAIN all, j \in Len(fast) + 1 .. Len(all) : all[i] = all[j] => i = j
        /\ ToSet(all) = ToSet(Sent)
        /\ complete => ToSet(all) = {a \in open : a[1] \in Swept \union contacted}
    BY DEF SweepIsMerged
  <2>1. DiscoveryTypes /\ Course /\ Reached /\ Merging
    BY <1>1 DEF IInv, TypeOK
  <2>2. fast \in Seq(open) /\ sweepMatches \in Seq(open) /\ all \in Seq(open)
    BY <2>1 DEF DiscoveryTypes
  <2>3. ToSet(Sent) = ToSet(fast) \union ToSet(sweepMatches)
    BY <2>2, ConcatNames DEF Sent
  <2>4. CASE pc = "answered"
    <3>1. all = fast /\ sweepMatches = <<>> /\ ~complete
      BY <2>1, <2>4 DEF Course
    <3>2. ToSet(sweepMatches) = {}
      BY <3>1 DEF ToSet
    <3>3. Len(fast) + 1 .. Len(all) = {}
      BY <2>2, <3>1
    <3> QED BY <2>3, <3>1, <3>2, <3>3
  <2>5. CASE pc = "returned"
    <3>1. {sweepMatches[k] : k \in 1..merged} = ToSet(sweepMatches)
      <4>1. merged = Len(sweepMatches)
        BY <2>1, <2>5 DEF Merging
      <4>2. DOMAIN sweepMatches = 1..merged
        BY <2>2, <4>1
      <4> QED BY <4>2 DEF ToSet
    <3>2. /\ \A i \in DOMAIN all, j \in Len(fast) + 1 .. Len(all) : all[i] = all[j] => i = j
          /\ ToSet(all) = ToSet(fast) \union ToSet(sweepMatches)
      BY <2>1, <2>5, <3>1 DEF Merging
    <3>3. ToSet(found) = {}
      BY <2>1, <2>5 DEF Course, Passing, ToSet
    <3>4. {a \in open : a[1] \in contacted} = ToSet(fast)
      BY <2>1, <2>5, <3>3 DEF Reached
    <3>5. complete => {a \in open : a[1] \in Swept} = ToSet(sweepMatches)
      BY <2>1, <3>3 DEF Reached
    <3> QED BY <2>3, <3>2, <3>4, <3>5
  <2> QED BY <2>4, <2>5
<1> QED BY <1>1, Inductive, PTL

\* try_preferred returns early with what the preferred host answered, and lets
\* nobody else be contacted before its attempts are used up.
THEOREM PreferredAloneHolds == StreamSpec => []PreferredAlone
<1>1. IInv => PreferredAlone
  <2> SUFFICES ASSUME IInv, preferred # NoHost PROVE
        /\ pc \in AfterPreferred => attempt = Retries + 1
        /\ attempt <= Retries => contacted = {}
        /\ pc = "answered" =>
             all # <<>> /\ contacted = {} /\ \A a \in ToSet(all) : a[1] = preferred
    BY DEF PreferredAlone, AfterPreferred
  <2>1. DiscoveryTypes /\ Course
    BY DEF IInv, TypeOK
  <2>2. pc \in AfterPreferred \/ contacted # {} => attempt = Retries + 1
    BY <2>1 DEF Course
  <2>3. attempt <= Retries => contacted = {}
    BY <2>2, TcpDiscoveryAssumption
  <2>4. pc = "answered" =>
          all # <<>> /\ contacted = {} /\ \A a \in ToSet(all) : a[1] = preferred
    BY <2>1 DEF Course
  <2> QED BY <2>2, <2>3, <2>4
<1> QED BY <1>1, Inductive, PTL

\* discover_streaming's channel reorders, repeats and invents nothing.
THEOREM StreamedOnceHolds == StreamSpec => []StreamedOnce
<1>1. IInv => StreamedOnce
  BY DEF IInv, Streaming, StreamedOnce
<1> QED BY <1>1, Inductive, PTL

\* A list without some elements of the whole and these elements are the whole.
LEMMA NothingElseIsLost ==
  ASSUME NEW A, NEW list \in Seq(A), NEW whole \in Seq(A), NEW gone \in SUBSET DOMAIN whole,
         IsWithout(list, whole, gone), ToSet(list) \subseteq ToSet(whole)
  PROVE  ToSet(whole) = ToSet(list) \union {whole[i] : i \in gone}
<1>1. ASSUME NEW y \in ToSet(whole) PROVE y \in ToSet(list) \union {whole[i] : i \in gone}
  <2>1. PICK i \in DOMAIN whole : y = whole[i]
    BY DEF ToSet
  <2>2. CASE i \in gone
    BY <2>1, <2>2
  <2>3. CASE i \notin gone
    <3>1. PlaceOf(i, gone) \in DOMAIN list /\ list[PlaceOf(i, gone)] = y
      BY <2>1, <2>3 DEF IsWithout
    <3> QED BY <3>1 DEF ToSet
  <2> QED BY <2>2, <2>3
<1>2. {whole[i] : i \in gone} \subseteq ToSet(whole)
  BY DEF ToSet
<1> QED BY <1>1, <1>2

\* When discover_streaming returns, every match of the discovery was given to
\* the callback, or met a full channel.
THEOREM MatchesCalledBackHolds == StreamSpec => []MatchesCalledBack
<1>1. ASSUME IInv, SweepIsMerged PROVE MatchesCalledBack
  <2> SUFFICES ASSUME consumer = "returned" PROVE
        /\ IsWithout(called, Sent, dropped)
        /\ ToSet(all) = ToSet(called) \union {Sent[i] : i \in dropped}
    BY DEF MatchesCalledBack
  <2>1. /\ pc \in {"answered", "returned"}
        /\ IsWithout(called, Sent, dropped) /\ ToSet(called) \subseteq ToSet(Sent)
    BY <1>1 DEF IInv, Streaming
  <2>2. called \in Seq(open) /\ dropped \subseteq DOMAIN Sent
    BY <1>1 DEF IInv, TypeOK
  <2>3. Sent \in Seq(open)
    BY <1>1, ConcatNames DEF IInv, TypeOK, DiscoveryTypes, Sent
  <2>4. ToSet(Sent) = ToSet(called) \union {Sent[i] : i \in dropped}
    BY <2>1, <2>2, <2>3, NothingElseIsLost
  <2>5. ToSet(all) = ToSet(Sent)
    BY <1>1, <2>1 DEF SweepIsMerged
  <2> QED BY <2>1, <2>4, <2>5
<1> QED BY <1>1, Inductive, SweepIsMergedHolds, PTL
----------------------------------------------------------------------------
(* A pass, as PollWatch sees it.                                           *)

\* A sequence that names nothing twice is a list of what it names.
LEMMA OnceIsListed ==
  ASSUME NEW A, NEW s \in Seq(A), IsInjective(s)
  PROVE  s \in SetToSeqs(ToSet(s))
<1> DEFINE D == 1..Len(s)
           S == ToSet(s)
<1>1. DOMAIN s = D /\ Len(s) \in Nat
  OBVIOUS
<1>2. s \in [D -> S] /\ \A x \in S : \E i \in D : s[i] = x
  BY <1>1 DEF ToSet
<1>3. s \in Surjection(D, S)
  BY <1>2, Fun_IsSurj
<1>4. IsFiniteSet(D) /\ Cardinality(D) = Len(s)
  <2>1. 1 \in Int /\ Len(s) \in Int
    BY <1>1
  <2>2. /\ IsFiniteSet(1..Len(s))
        /\ Cardinality(1..Len(s)) = IF 1 > Len(s) THEN 0 ELSE Len(s) - 1 + 1
    BY ONLY <2>1, FS_Interval, Zenon
  <2>3. (IF 1 > Len(s) THEN 0 ELSE Len(s) - 1 + 1) = Len(s)
    BY ONLY <1>1
  <2> QED BY <2>2, <2>3
<1>5. s \in Injection(D, S)
  BY <1>1, <1>2, Fun_IsInj DEF IsInjective
<1>6. Cardinality(S) = Len(s)
  BY <1>3, <1>4, <1>5, FS_Surjection
<1>7. \A i, j \in D : i # j => s[i] # s[j]
  BY <1>1 DEF IsInjective
<1> QED BY ONLY <1>2, <1>6, <1>7 DEF SetToSeqs

\* Nothing is twice on the same side of the cut.
OnceOnEachSide(list, cut) ==
  \A i, j \in DOMAIN list : list[i] = list[j] /\ (i <= cut <=> j <= cut) => i = j

\* The two sides of a cut, one behind the other.
LEMMA SidesMakeTheWhole ==
  ASSUME NEW A, NEW s \in Seq(A), NEW u \in Seq(A), NEW v \in Seq(A),
         Len(u) + Len(v) = Len(s),
         \A i \in 1..Len(u) : u[i] = s[i],
         \A i \in 1..Len(v) : v[i] = s[Len(u) + i]
  PROVE  s = u \o v
<1> DEFINE w == u \o v
<1>1. /\ w \in Seq(A) /\ Len(w) = Len(s) /\ DOMAIN w = 1..Len(s)
      /\ \A i \in 1..Len(u) : w[i] = u[i]
      /\ \A i \in 1..Len(v) : w[Len(u) + i] = v[i]
      /\ DOMAIN s = 1..Len(s) /\ {Len(s), Len(u), Len(v)} \subseteq Nat
  BY ConcatParts
<1> HIDE DEF w
<1>2. ASSUME NEW i \in 1..Len(s) PROVE w[i] = s[i]
  <2>1. CASE i \in 1..Len(u)
    BY <1>1, <2>1
  <2>2. CASE i \notin 1..Len(u)
    <3>1. i - Len(u) \in 1..Len(v) /\ Len(u) + (i - Len(u)) = i
      BY <1>1, <2>2
    <3> QED BY <1>1, <3>1
  <2> QED BY <2>1, <2>2
<1>3. w = s
  BY <1>1, <1>2
<1> QED BY <1>3 DEF w

\* The two sides of a cut are two lists.
LEMMA CutInTwo ==
  ASSUME NEW A, NEW s \in Seq(A), NEW cut \in 0..Len(s), OnceOnEachSide(s, cut)
  PROVE  s \in InTwoLists(ToSet(s))
<1> DEFINE u == [i \in 1..cut |-> s[i]]
           v == [i \in 1..Len(s) - cut |-> s[cut + i]]
<1>1. Len(s) \in Nat /\ DOMAIN s = 1..Len(s) /\ \A i \in 1..Len(s) : s[i] \in A
  OBVIOUS
<1>2. cut \in Nat /\ Len(s) - cut \in Nat
  BY <1>1
<1>3. u \in Seq(A) /\ Len(u) = cut /\ DOMAIN u = 1..cut
  BY <1>1, <1>2
<1>4. v \in Seq(A) /\ Len(v) = Len(s) - cut /\ DOMAIN v = 1..Len(s) - cut
  BY <1>1, <1>2
<1>5. IsInjective(u)
  BY <1>1, <1>2 DEF OnceOnEachSide, IsInjective
<1>6. IsInjective(v)
  <2> SUFFICES ASSUME NEW i \in 1..Len(s) - cut, NEW j \in 1..Len(s) - cut, v[i] = v[j]
               PROVE  i = j
    BY <1>4 DEF IsInjective
  <2>1. cut + i \in DOMAIN s /\ cut + j \in DOMAIN s /\ ~(cut + i <= cut) /\ ~(cut + j <= cut)
    BY <1>1, <1>2
  <2>2. s[cut + i] = s[cut + j]
    OBVIOUS
  <2>3. cut + i = cut + j
    BY ONLY <2>1, <2>2, OnceOnEachSide(s, cut) DEF OnceOnEachSide
  <2> QED BY <1>2, <2>3
<1>7. /\ \A i \in 1..Len(u) : u[i] = s[i]
      /\ \A i \in 1..Len(v) : v[i] = s[Len(u) + i]
      /\ Len(u) + Len(v) = Len(s)
  BY <1>1, <1>2, <1>3, <1>4
<1> HIDE DEF u, v
<1>8. s = u \o v /\ ToSet(s) = ToSet(u) \union ToSet(v)
  <2>1. s \in Seq(A) /\ u \in Seq(A) /\ v \in Seq(A)
    BY ONLY <1>3, <1>4, s \in Seq(A)
  <2>2. s = u \o v
    BY ONLY <1>7, <2>1, SidesMakeTheWhole
  <2>3. ToSet(u \o v) = ToSet(u) \union ToSet(v)
    BY ONLY <2>1, ConcatNames
  <2> QED BY ONLY <2>2, <2>3
<1>9. u \in SetToSeqs(ToSet(u)) /\ v \in SetToSeqs(ToSet(v))
  BY <1>3, <1>4, <1>5, <1>6, OnceIsListed
<1>10. s \in Behind(ToSet(u), ToSet(v))
  <2>1. <<u, v>> \in SetToSeqs(ToSet(u)) \X SetToSeqs(ToSet(v))
    BY <1>9
  <2>2. s = <<u, v>>[1] \o <<u, v>>[2]
    BY <1>8
  <2> QED BY ONLY <2>1, <2>2 DEF Behind
<1> DEFINE parts == <<ToSet(u), ToSet(v)>>
<1>11. /\ parts \in {p \in (SUBSET ToSet(s)) \X (SUBSET ToSet(s)) : p[1] \union p[2] = ToSet(s)}
       /\ parts[1] = ToSet(u) /\ parts[2] = ToSet(v)
  BY ONLY <1>8
<1> HIDE DEF parts
<1> QED BY ONLY <1>10, <1>11 DEF InTwoLists

\* A match that is not behind the cut yet is appended there.
LEMMA OneMoreBehind ==
  ASSUME NEW A, NEW s \in Seq(A), NEW x \in A, NEW cut \in 0..Len(s), OnceOnEachSide(s, cut),
         \A i \in DOMAIN s : i > cut => s[i] # x
  PROVE  /\ OnceOnEachSide(Append(s, x), cut) /\ cut \in 0..Len(Append(s, x))
         /\ \A i \in DOMAIN Append(s, x) :
              (i \in DOMAIN s /\ Append(s, x)[i] = s[i]) \/ Append(s, x)[i] = x
<1> DEFINE t == Append(s, x)
<1>1. /\ Len(t) = Len(s) + 1 /\ DOMAIN t = 1..Len(s) + 1 /\ DOMAIN s = 1..Len(s)
      /\ Len(s) \in Nat
      /\ \A k \in 1..Len(s) : t[k] = s[k]
      /\ t[Len(s) + 1] = x
  OBVIOUS
<1> HIDE DEF t
<1>2. cut \in 0..Len(t) /\ ~(Len(s) + 1 <= cut)
  BY <1>1
<1>3. ASSUME NEW i \in DOMAIN t PROVE (i \in DOMAIN s /\ t[i] = s[i]) \/ (i = Len(s) + 1 /\ t[i] = x)
  BY <1>1
<1>4. ASSUME NEW i \in DOMAIN t, NEW j \in DOMAIN t, t[i] = t[j], i <= cut <=> j <= cut
      PROVE  i = j
  <2>1. CASE i \in DOMAIN s /\ j \in DOMAIN s
    BY <1>1, <1>4, <2>1 DEF OnceOnEachSide
  <2>2. CASE i = Len(s) + 1 /\ j \in DOMAIN s
    BY <1>1, <1>2, <1>4, <2>2
  <2>3. CASE j = Len(s) + 1 /\ i \in DOMAIN s
    BY <1>1, <1>2, <1>4, <2>3
  <2> QED BY <1>3, <2>1, <2>2, <2>3
<1>5. OnceOnEachSide(t, cut)
  BY <1>4 DEF OnceOnEachSide
<1> QED BY <1>2, <1>3, <1>5 DEF t

\* The first of a list that names nothing twice is not in the rest.
LEMMA HeadOnce ==
  ASSUME NEW A, NEW s \in Seq(A), s # <<>>, IsInjective(s)
  PROVE  IsInjective(Tail(s)) /\ Head(s) \notin ToSet(Tail(s))
<1> DEFINE t == Tail(s)
<1>1. /\ t \in Seq(A) /\ Len(t) = Len(s) - 1 /\ Len(s) \in Nat \ {0}
      /\ \A i \in 1..Len(t) : t[i] = s[i + 1]
      /\ s[1] = Head(s)
      /\ DOMAIN t = 1..Len(t) /\ DOMAIN s = 1..Len(s)
  BY HeadTailProperties
<1> HIDE DEF t
<1>2. \A i \in DOMAIN t : i + 1 \in DOMAIN s /\ i + 1 # 1 /\ t[i] = s[i + 1] /\ i \in Nat
  BY <1>1
<1>3. 1 \in DOMAIN s
  BY <1>1
<1>4. IsInjective(t)
  BY <1>2 DEF IsInjective
<1>5. Head(s) \notin ToSet(t)
  BY <1>1, <1>2, <1>3 DEF IsInjective, ToSet
<1> QED BY <1>4, <1>5 DEF t

\* The matches of the fast paths up to the cut are those of the hosts that mDNS
\* named, and behind it are those of the hosts that SSDP named; one phase names
\* no host twice.
Apart(cut) ==
  /\ OnceOnEachSide(fast, cut)
  /\ pc \in {"answering", "probe_mdns", "probe_ssdp"} =>
       IsInjective(found) /\ \A i \in DOMAIN fast : i > cut => fast[i] \notin ToSet(found)
  /\ pc \in {"probe_mdns", "probe_ssdp"} =>
       /\ \A i \in DOMAIN fast : i > cut => fast[i][1] \notin named
       /\ \A a \in ToSet(found) : a[1] \notin named
  /\ pc \in {"preferred", "retry", "answering", "mdns", "probe_mdns", "ssdp"} => cut = 0
  /\ pc \in {"preferred", "retry", "mdns"} => fast = <<>>

FastComesFirst ==
  pc \in {"merging", "returned"} =>
    Len(fast) <= Len(all) /\ \A i \in DOMAIN fast : all[i] = fast[i]

TwoLists == FastComesFirst /\ \E cut \in 0..Len(fast) : Apart(cut)

\* A call starts with empty lists.
LEMMA TwoListsInit == StreamInit => TwoLists
<1> SUFFICES ASSUME StreamInit PROVE TwoLists
  OBVIOUS
<1>1. /\ pc = "preferred" /\ fast = <<>> /\ Len(fast) = 0 /\ DOMAIN fast = {}
  BY DEF StreamInit, Init
<1>2. Apart(0) /\ 0 \in 0..Len(fast)
  BY <1>1 DEF Apart, OnceOnEachSide
<1>3. FastComesFirst
  BY <1>1 DEF FastComesFirst
<1> QED BY <1>2, <1>3 DEF TwoLists

\* A host is probed: the preferred one, before anything is found, or one that
\* the phase has not probed before.
LEMMA ProbeKeepsApart ==
  ASSUME IInv, NEW cut \in 0..Len(fast), Apart(cut),
         PreferredAnswers \/ \E h \in Hosts : ProbeNamedHost(h)
  PROVE  Apart(cut)' /\ fast' = fast
<1>1. CASE PreferredAnswers
  <2>1. /\ pc = "preferred" /\ pc' = "answering" /\ fast' = fast /\ fast = <<>> /\ cut = 0
        /\ found' \in HostResults(preferred, open)
    BY <1>1 DEF PreferredAnswers, Apart
  <2>2. IsInjective(found') /\ DOMAIN fast = {}
    BY <2>1, ProbedHosts DEF IInv
  <2> QED BY <2>1, <2>2 DEF Apart
<1>2. ASSUME NEW h \in Hosts, ProbeNamedHost(h) PROVE Apart(cut)' /\ fast' = fast
  <2>1. /\ pc \in {"probe_mdns", "probe_ssdp"} /\ pc' = pc /\ fast' = fast
        /\ h \in named /\ named' = named \ {h} /\ found' \in HostResults(h, open)
    BY <1>2 DEF ProbeNamedHost
  <2>2. IsInjective(found') /\ \A a \in ToSet(found') : a[1] = h
    BY <2>1, ProbedHosts DEF IInv
  <2>3. \A i \in DOMAIN fast : i > cut => fast[i][1] # h /\ fast[i][1] \notin named'
    BY <2>1 DEF Apart
  <2>4. \A i \in DOMAIN fast : i > cut => fast[i] \notin ToSet(found')
    BY <2>2, <2>3
  <2>5. \A a \in ToSet(found') : a[1] \notin named'
    BY <2>1, <2>2
  <2> QED BY <2>1, <2>2, <2>3, <2>4, <2>5 DEF Apart
<1> QED BY <1>1, <1>2

\* A match is passed on: it is behind the cut, where it was not before.
LEMMA PassOnKeepsApart ==
  ASSUME IInv, NEW cut \in 0..Len(fast), Apart(cut), PassOn
  PROVE  Apart(cut)' /\ cut \in 0..Len(fast')
<1> DEFINE x == Head(found)
<1>1. /\ pc' = pc /\ named' = named /\ found # <<>> /\ found' = Tail(found)
      /\ pc = "sweeping" => fast' = fast
      /\ pc # "sweeping" => fast' = Append(fast, x)
  BY DEF PassOn
<1>2. pc \in Passing
  BY <1>1 DEF IInv, Course
<1>3. CASE pc = "sweeping"
  BY <1>1, <1>3 DEF Apart
<1>4. CASE pc # "sweeping"
  <2>1. found \in Seq(open) /\ fast \in Seq(open)
    BY DEF IInv, TypeOK, DiscoveryTypes
  <2>2. x \in open /\ ToSet(found) = {x} \union ToSet(found')
    BY <1>1, <2>1, HeadAndTailName
  <2>3. /\ IsInjective(found) /\ OnceOnEachSide(fast, cut)
        /\ \A i \in DOMAIN fast : i > cut => fast[i] \notin ToSet(found)
    BY <1>2, <1>4 DEF Apart, Passing
  <2>4. IsInjective(found') /\ x \notin ToSet(found')
    BY <1>1, <2>1, <2>3, HeadOnce
  <2> HIDE DEF x
  <2>5. /\ OnceOnEachSide(fast', cut) /\ cut \in 0..Len(fast')
        /\ \A i \in DOMAIN fast' : (i \in DOMAIN fast /\ fast'[i] = fast[i]) \/ fast'[i] = x
    <3>1. \A i \in DOMAIN fast : i > cut => fast[i] # x
      BY <2>2, <2>3
    <3>2. fast' = Append(fast, x)
      BY <1>1, <1>4
    <3> QED BY <2>1, <2>2, <2>3, <3>1, <3>2, OneMoreBehind
  <2>6. \A i \in DOMAIN fast' : i > cut => fast'[i] \notin ToSet(found')
    BY <2>2, <2>3, <2>4, <2>5
  <2>7. pc \in {"probe_mdns", "probe_ssdp"} =>
          /\ \A i \in DOMAIN fast' : i > cut => fast'[i][1] \notin named
          /\ \A a \in ToSet(found') : a[1] \notin named
    BY <2>2, <2>5 DEF Apart
  <2>8. pc \in {"answering", "probe_mdns"} => cut = 0
    BY DEF Apart
  <2> QED BY <1>1, <1>2, <1>4, <2>4, <2>5, <2>6, <2>7, <2>8 DEF Apart, Passing
<1> QED BY <1>3, <1>4

\* The second fast path starts behind all that the first has found.
LEMMA ListenCutsBehind ==
  ASSUME IInv, NEW cut \in 0..Len(fast), Apart(cut), Listen
  PROVE  fast' = fast /\ \E new \in 0..Len(fast) : Apart(new)'
<1>1. /\ fast' = fast /\ found' = found /\ found = <<>>
      /\ (pc = "mdns" /\ pc' = "probe_mdns") \/ (pc = "ssdp" /\ pc' = "probe_ssdp")
  BY DEF Listen, matches, IInv, Course, Passing
<1>2. fast \in Seq(open) /\ Len(fast) \in Nat /\ DOMAIN fast = 1..Len(fast)
  BY DEF IInv, TypeOK, DiscoveryTypes
<1>3. IsInjective(found) /\ ToSet(found) = {}
  BY <1>1 DEF IsInjective, ToSet
<1>4. cut = 0 /\ OnceOnEachSide(fast, cut)
  BY <1>1 DEF Apart
<1>5. OnceOnEachSide(fast, Len(fast))
  BY <1>2, <1>4 DEF OnceOnEachSide
<1>6. \A i \in DOMAIN fast : ~(i > Len(fast))
  BY <1>2
<1>7. CASE pc' = "probe_mdns"
  <2>1. fast = <<>> /\ DOMAIN fast = {}
    BY <1>1, <1>7 DEF Apart
  <2>2. Apart(0)'
    BY <1>1, <1>3, <1>4, <1>7, <2>1 DEF Apart
  <2> QED BY <1>1, <1>2, <2>2
<1>8. CASE pc' = "probe_ssdp"
  <2>1. Apart(Len(fast))'
    BY <1>1, <1>3, <1>5, <1>6, <1>8 DEF Apart
  <2> QED BY <1>1, <1>2, <2>1
<1> QED BY <1>1, <1>7, <1>8

\* The other steps of the discovery leave its lists apart.
LEMMA OthersKeepApart ==
  ASSUME IInv, NEW cut \in 0..Len(fast), Apart(cut),
         \/ NoPreferred \/ PreferredCancelled \/ PreferredSilent \/ RetryDelay
         \/ SkipFastPath \/ NamedProbed \/ PreferredReturns \/ Sweep \/ SweepFails
         \/ SweepReturns \/ MergeNext \/ MergeEnds \/ UNCHANGED <<pc, named, found, fast>>
  PROVE  Apart(cut)' /\ fast' = fast
<1>1. CASE UNCHANGED <<pc, named, found, fast>>
  BY <1>1 DEF Apart
<1>2. CASE NoPreferred \/ PreferredCancelled \/ PreferredSilent \/ RetryDelay
  <2>1. /\ fast' = fast /\ pc \in {"preferred", "retry"}
        /\ pc' \in {"preferred", "retry", "mdns", "returned"}
    BY <1>2 DEF NoPreferred, PreferredCancelled, PreferredSilent, RetryDelay, matches
  <2> QED BY <2>1 DEF Apart
<1>3. CASE SkipFastPath \/ NamedProbed
  <2>1. /\ fast' = fast
        /\ \/ pc \in {"mdns", "probe_mdns"} /\ pc' = "ssdp"
           \/ pc \in {"ssdp", "probe_ssdp"} /\ pc' = "sweep"
    BY <1>3 DEF SkipFastPath, NamedProbed, matches
  <2> QED BY <2>1 DEF Apart
<1>4. CASE PreferredReturns \/ Sweep \/ SweepFails \/ SweepReturns \/ MergeNext \/ MergeEnds
  <2>1. fast' = fast /\ pc' \in {"answered", "sweeping", "failed", "merging", "returned"}
    BY <1>4 DEF PreferredReturns, Sweep, SweepFails, SweepReturns, MergeNext, MergeEnds, matches
  <2> QED BY <2>1 DEF Apart
<1> QED BY <1>1, <1>2, <1>3, <1>4

\* The result starts with the matches of the fast paths.
LEMMA FastComesFirstStep ==
  ASSUME IInv, FastComesFirst, \E cut \in 0..Len(fast) : Apart(cut),
         [StreamNext]_<<vars, streamVars>>
  PROVE  FastComesFirst'
<1>1. fast \in Seq(open) /\ all \in Seq(open)
  BY DEF IInv, TypeOK, DiscoveryTypes
<1>2. CASE PreferredCancelled
  <2>1. fast = <<>> /\ all = <<>> /\ fast' = fast /\ all' = all
    BY <1>2 DEF PreferredCancelled, Apart, IInv, Course, matches
  <2> QED BY <2>1 DEF FastComesFirst
<1>3. CASE SweepReturns
  BY <1>1, <1>3 DEF SweepReturns, FastComesFirst
<1>4. CASE MergeNext
  <2> DEFINE m == sweepMatches[merged']
  <2>1. /\ pc = "merging" /\ fast' = fast
        /\ all' = all \/ all' = Append(all, m)
        /\ merged' \in 1..Len(sweepMatches) /\ sweepMatches \in Seq(open)
    BY <1>4 DEF MergeNext, IInv, TypeOK, DiscoveryTypes
  <2>2. Len(fast) <= Len(all) /\ \A i \in DOMAIN fast : all[i] = fast[i]
    BY <2>1 DEF FastComesFirst
  <2>3. m \in open
    BY <2>1
  <2> HIDE DEF m
  <2>4. /\ DOMAIN fast = 1..Len(fast) /\ Len(fast) \in Nat /\ Len(all) \in Nat
        /\ Len(Append(all, m)) = Len(all) + 1
        /\ \A i \in 1..Len(all) : Append(all, m)[i] = all[i]
    BY <1>1, <2>3
  <2>5. Len(fast) <= Len(all') /\ \A i \in DOMAIN fast : all'[i] = fast[i]
    BY <2>1, <2>2, <2>4
  <2> QED BY <2>1, <2>5 DEF FastComesFirst
<1>5. CASE MergeEnds
  BY <1>5 DEF MergeEnds, FastComesFirst, matches
<1>6. CASE UNCHANGED <<pc, fast, all>>
  BY <1>6 DEF FastComesFirst
<1>7. CASE pc' \notin {"merging", "returned"}
  BY <1>7 DEF FastComesFirst
<1>8. CASE Discovery
  BY <1>2, <1>3, <1>4, <1>5, <1>7, <1>8 DEF Discovery, NoPreferred, PreferredAnswers,
     PreferredSilent, RetryDelay, Listen, SkipFastPath, ProbeNamedHost, NamedProbed,
     PreferredReturns, Sweep, SweepFails
<1>9. CASE PassOn
  <2>1. pc' = pc /\ pc \in Passing
    BY <1>9 DEF PassOn, IInv, Course
  <2> QED BY <1>7, <2>1 DEF Passing
<1>10. CASE Consumer \/ UserStep \/ UNCHANGED <<vars, streamVars>>
  <2>1. UNCHANGED <<pc, fast, all>>
    BY <1>10 DEF Consumer, Receive, CallbackReturns, CallbackRaises, JoinAndReturn,
       DiscoverReturns, UserStep, Cancel, Reset, SetToken, vars, matches
  <2> QED BY <1>6, <2>1
<1> QED BY <1>8, <1>9, <1>10 DEF StreamNext, DiscoveryThread, PassOnAndSend

\* Every step keeps the lists apart.
LEMMA TwoListsStep ==
  IInv /\ TwoLists /\ [StreamNext]_<<vars, streamVars>> => TwoLists'
<1> SUFFICES ASSUME IInv, TwoLists, [StreamNext]_<<vars, streamVars>> PROVE TwoLists'
  OBVIOUS
<1>1. PICK cut \in 0..Len(fast) : Apart(cut)
  BY DEF TwoLists
<1>2. FastComesFirst'
  BY FastComesFirstStep DEF TwoLists
<1>3. CASE PreferredAnswers \/ \E h \in Hosts : ProbeNamedHost(h)
  BY <1>1, <1>2, <1>3, ProbeKeepsApart DEF TwoLists
<1>4. CASE PassOn
  BY <1>1, <1>2, <1>4, PassOnKeepsApart DEF TwoLists
<1>5. CASE Listen
  BY <1>1, <1>2, <1>5, ListenCutsBehind DEF TwoLists
<1>6. CASE \/ NoPreferred \/ PreferredCancelled \/ PreferredSilent \/ RetryDelay
           \/ SkipFastPath \/ NamedProbed \/ PreferredReturns \/ Sweep \/ SweepFails
           \/ SweepReturns \/ MergeNext \/ MergeEnds \/ UNCHANGED <<pc, named, found, fast>>
  BY <1>1, <1>2, <1>6, OthersKeepApart DEF TwoLists
<1>7. CASE Consumer \/ UserStep \/ UNCHANGED <<vars, streamVars>>
  <2>1. UNCHANGED <<pc, named, found, fast>>
    BY <1>7 DEF Consumer, Receive, CallbackReturns, CallbackRaises, JoinAndReturn,
       DiscoverReturns, UserStep, Cancel, Reset, SetToken, vars, matches
  <2> QED BY <1>6, <2>1
<1>8. Discovery \/ PassOn \/ Consumer \/ UserStep \/ UNCHANGED <<vars, streamVars>>
  BY DEF StreamNext, DiscoveryThread, PassOnAndSend
<1>9. CASE Discovery
  BY <1>3, <1>5, <1>6, <1>9 DEF Discovery
<1> QED BY <1>4, <1>7, <1>8, <1>9

\* The lists are apart throughout a call.
LEMMA TwoListsHold == StreamSpec => []TwoLists
<1> QED BY TwoListsInit, TwoListsStep, Inductive, PTL DEF StreamSpec

\* A pass keeps what PollWatch relies on: it lists addresses that answer; all
\* of those it could reach, when its sweep was complete and no preferred host
\* answered for the others; and an address twice only if mDNS and SSDP both
\* named its host.
PassFits ==
  pc \in {"answered", "returned"} =>
    all \in PassResults(open, IF complete
                                THEN {a \in open : a[1] \in Swept \union contacted} ELSE {})

\* The result of run_discovery, with all its phases and however it is
\* interleaved with the caller and the token, is one of a pass of PollWatch
\* whose devices may be listed twice.
THEOREM PassFitsWatch == Duplicates => (StreamSpec => []PassFits)
<1> SUFFICES ASSUME Duplicates PROVE StreamSpec => []PassFits
  OBVIOUS
<1>1. ASSUME IInv, TwoLists, SweepIsMerged PROVE PassFits
  <2> SUFFICES ASSUME pc \in {"answered", "returned"} PROVE
        all \in PassResults(open, IF complete
                                    THEN {a \in open : a[1] \in Swept \union contacted} ELSE {})
    BY DEF PassFits
  <2> DEFINE least == IF complete THEN {a \in open : a[1] \in Swept \union contacted} ELSE {}
             names == ToSet(all)
  <2>1. all \in Seq(open) /\ fast \in Seq(open)
    BY <1>1 DEF IInv, TypeOK, DiscoveryTypes
  <2>2. PICK cut \in 0..Len(fast) : Apart(cut)
    BY <1>1 DEF TwoLists
  <2>3. Len(fast) <= Len(all) /\ \A i \in DOMAIN fast : all[i] = fast[i]
    <3>1. CASE pc = "answered"
      <4>1. all = fast
        BY <1>1, <3>1 DEF IInv, Course
      <4> QED BY <2>1, <4>1
    <3>2. CASE pc = "returned"
      BY <1>1, <3>2 DEF TwoLists, FastComesFirst
    <3> QED BY <3>1, <3>2
  <2>4. \A i \in DOMAIN all, j \in Len(fast) + 1 .. Len(all) : all[i] = all[j] => i = j
    BY <1>1 DEF SweepIsMerged
  <2>5. OnceOnEachSide(all, cut) /\ cut \in 0..Len(all)
    <3>1. /\ DOMAIN all = 1..Len(all) /\ DOMAIN fast = 1..Len(fast)
          /\ Len(all) \in Nat /\ Len(fast) \in Nat
      BY <2>1
    <3>2. ASSUME NEW i \in DOMAIN all, NEW j \in DOMAIN all, all[i] = all[j],
                 i <= cut <=> j <= cut
          PROVE  i = j
      <4>1. CASE i \in DOMAIN fast /\ j \in DOMAIN fast
        BY <2>2, <2>3, <3>2, <4>1 DEF Apart, OnceOnEachSide
      <4>2. CASE j \notin DOMAIN fast
        <5>1. j \in Len(fast) + 1 .. Len(all)
          BY <3>1, <4>2
        <5> QED BY <2>4, <3>2, <5>1
      <4>3. CASE i \notin DOMAIN fast
        <5>1. i \in Len(fast) + 1 .. Len(all)
          BY <3>1, <4>3
        <5> QED BY <2>4, <3>2, <5>1
      <4> QED BY <4>1, <4>2, <4>3
    <3>3. cut \in 0..Len(all)
      BY <2>3, <3>1
    <3> QED BY <3>2, <3>3 DEF OnceOnEachSide
  <2>6. all \in PassLists(names)
    BY <2>1, <2>5, CutInTwo DEF PassLists
  <2>7. names \in SUBSET open /\ least \subseteq names
    <3>1. names \subseteq open
      BY <2>1 DEF ToSet
    <3>2. complete => names = {a \in open : a[1] \in Swept \union contacted}
      BY <1>1 DEF SweepIsMerged
    <3> QED BY <3>1, <3>2
  <2> HIDE DEF least, names
  <2>8. names \in {f \in SUBSET open : least \subseteq f}
    BY ONLY <2>7
  <2>9. all \in PassResults(open, least)
    BY ONLY <2>6, <2>8 DEF PassResults
  <2> QED BY ONLY <2>9 DEF least
<1> QED BY <1>1, Inductive, TwoListsHold, SweepIsMergedHolds, PTL
=============================================================================
