--------------------------- MODULE UsbWatchProofs ---------------------------
(***************************************************************************)
(* Theorems about UsbWatch, for all devices, filters and channel sizes:    *)
(* the events in transit always complete the map of reported devices to    *)
(* the truth, and the watch implements WatchContract.  And about           *)
(* DeviceMatch, for all lists of devices: matches lead back to devices.    *)
(***************************************************************************)
EXTENDS UsbWatch, DeviceMatch, SequenceTheorems, FiniteSetTheorems, TLAPS

----------------------------------------------------------------------------
(* A queue of events between the bus and a set of devices.                 *)

\* The events of queue take the device d from tracked_set to present_set.
Bridges(queue, d, tracked_set, present_set) ==
  /\ \A i \in LastAbout(d, queue) : d \in present_set <=> queue[i].kind = "connected"
  /\ (\A i \in DOMAIN queue : queue[i].dev # d) =>
       (d \in present_set <=> d \in tracked_set)

\* A new event at the end of the queue, as the bus records one.
LEMMA AppendBridges ==
  ASSUME NEW queue \in Seq(Event), NEW e \in Event, NEW d, NEW T, NEW P, NEW Q,
         Bridges(queue, d, T, P),
         e.dev = d => (d \in Q <=> e.kind = "connected"),
         e.dev # d => (d \in Q <=> d \in P)
  PROVE  Bridges(Append(queue, e), d, T, Q)
<1> DEFINE longer == Append(queue, e)
<1>1. /\ longer \in Seq(Event) /\ Len(longer) = Len(queue) + 1 /\ Len(queue) \in Nat
      /\ \A i \in 1..Len(queue) : longer[i] = queue[i]
      /\ longer[Len(queue) + 1] = e
      /\ DOMAIN longer = 1..(Len(queue) + 1) /\ DOMAIN queue = 1..Len(queue)
  OBVIOUS
<1> HIDE DEF longer
<1>2. CASE e.dev = d
  <2>1. ASSUME NEW i \in LastAbout(d, longer) PROVE i = Len(queue) + 1
    BY <1>1, <1>2 DEF LastAbout
  <2>2. ~ \A i \in DOMAIN longer : longer[i].dev # d
    BY <1>1, <1>2
  <2> QED BY <1>1, <1>2, <2>1, <2>2 DEF Bridges, longer
<1>3. CASE e.dev # d
  <2>1. ASSUME NEW i \in LastAbout(d, longer)
        PROVE  i \in LastAbout(d, queue) /\ longer[i] = queue[i]
    BY <1>1, <1>3 DEF LastAbout
  <2>2. (\A i \in DOMAIN longer : longer[i].dev # d) => \A i \in DOMAIN queue : queue[i].dev # d
    BY <1>1
  <2> QED BY <1>3, <2>1, <2>2 DEF Bridges, longer
<1> QED BY <1>2, <1>3

\* The first event taken off the queue and into the set.
LEMMA TailBridges ==
  ASSUME NEW queue \in Seq(Event), queue # <<>>, NEW d, NEW T, NEW U, NEW P,
         Bridges(queue, d, T, P),
         Head(queue).dev = d => (d \in U <=> Head(queue).kind = "connected"),
         Head(queue).dev # d => (d \in U <=> d \in T)
  PROVE  Bridges(Tail(queue), d, U, P)
<1> DEFINE rest == Tail(queue)
<1>1. /\ rest \in Seq(Event) /\ Len(rest) = Len(queue) - 1 /\ Len(queue) \in Nat \ {0}
      /\ \A i \in 1..Len(rest) : rest[i] = queue[i + 1]
      /\ queue[1] = Head(queue)
      /\ DOMAIN rest = 1..Len(rest) /\ DOMAIN queue = 1..Len(queue)
  BY HeadTailProperties
<1> HIDE DEF rest
<1>2. ASSUME NEW i \in LastAbout(d, rest)
      PROVE  i + 1 \in LastAbout(d, queue) /\ rest[i] = queue[i + 1]
  <2>1. i \in 1..Len(rest) /\ rest[i].dev = d /\ \A j \in i + 1 .. Len(rest) : rest[j].dev # d
    BY <1>1 DEF LastAbout
  <2>2. ASSUME NEW j \in i + 2 .. Len(queue) PROVE queue[j].dev # d
    <3>1. /\ j - 1 \in i + 1 .. Len(rest) /\ j - 1 \in 1..Len(rest)
          /\ (j - 1) + 1 = j
      BY <1>1, <2>1
    <3>2. rest[j - 1] = queue[(j - 1) + 1]
      BY <1>1, <3>1
    <3>3. rest[j - 1].dev # d
      BY <2>1, <3>1
    <3> QED BY <3>1, <3>2, <3>3
  <2> QED BY <1>1, <2>1, <2>2 DEF LastAbout
<1>3. ASSUME \A i \in DOMAIN rest : rest[i].dev # d
      PROVE  d \in P <=> d \in U
  <2>1. ASSUME NEW j \in 2..Len(queue) PROVE queue[j].dev # d
    <3>1. j - 1 \in DOMAIN rest /\ (j - 1) + 1 = j
      BY <1>1
    <3> QED BY <1>1, <1>3, <3>1
  <2>2. CASE Head(queue).dev = d
    <3>1. 1 \in LastAbout(d, queue)
      BY <1>1, <2>1, <2>2 DEF LastAbout
    <3> QED BY <1>1, <2>2, <3>1 DEF Bridges
  <2>3. CASE Head(queue).dev # d
    <3>1. \A j \in DOMAIN queue : queue[j].dev # d
      BY <1>1, <2>1, <2>3
    <3> QED BY <2>3, <3>1 DEF Bridges
  <2> QED BY <2>2, <2>3
<1> QED BY <1>2, <1>3 DEF Bridges, rest

\* The three queues one after the other are one queue of events.
LEMMA TransitType ==
  ASSUME TypeOK
  PROVE  InTransit \in Seq(Event)
BY DEF TypeOK, InTransit

\* An event recorded at the end of the stream is at the end of the transit.
LEMMA TransitAppend ==
  ASSUME NEW c \in Seq(Event), NEW h \in Seq(Event), NEW s \in Seq(Event), NEW e \in Event
  PROVE  c \o h \o Append(s, e) = Append(c \o h \o s, e)
<1> DEFINE front == c \o h
<1>1. front \in Seq(Event)
  OBVIOUS
<1> HIDE DEF front
<1>2. front \o Append(s, e) = Append(front \o s, e)
  BY <1>1
<1> QED BY <1>2 DEF front

\* The three queues, one after the other, of any state: InTransit is the one
\* of this state.
Transit(c, h, s) == c \o h \o s

\* The watching thread takes the first event of the transit off the channel.
LEMMA TransitTail ==
  ASSUME NEW c \in Seq(Event), c # <<>>, NEW h \in Seq(Event), NEW s \in Seq(Event)
  PROVE  /\ Transit(c, h, s) # <<>>
         /\ Head(Transit(c, h, s)) = Head(c)
         /\ Tail(Transit(c, h, s)) = Transit(Tail(c), h, s)
<1>1. c \o h \in Seq(Event) /\ c \o h # <<>>
      /\ Head(c \o h) = Head(c) /\ Tail(c \o h) = Tail(c) \o h
  OBVIOUS
<1> DEFINE front == c \o h
<1> HIDE DEF front
<1>2. front \in Seq(Event) /\ front # <<>>
  BY <1>1 DEF front
<1>3. front \o s # <<>> /\ Head(front \o s) = Head(front) /\ Tail(front \o s) = Tail(front) \o s
  BY <1>2
<1> QED BY <1>1, <1>3 DEF front, Transit

\* The feeder moves an event from the stream into its hand.
LEMMA TransitPoll ==
  ASSUME NEW c \in Seq(Event), NEW s \in Seq(Event), s # <<>>
  PROVE  c \o <<Head(s)>> \o Tail(s) = c \o <<>> \o s
<1>1. Head(s) \in Event /\ Tail(s) \in Seq(Event) /\ <<Head(s)>> \o Tail(s) = s
  OBVIOUS
<1>2. <<Head(s)>> \in Seq(Event) /\ c \o <<>> = c
  BY <1>1
<1>3. (c \o <<Head(s)>>) \o Tail(s) = c \o (<<Head(s)>> \o Tail(s))
  BY <1>1, <1>2, ConcatAssociative
<1> QED BY <1>1, <1>2, <1>3

----------------------------------------------------------------------------
(* The inductive invariant.                                                *)

Looking == {"list", "initial", "loop", "recv", "adding", "removing"}

\* What the two threads hold between their steps.
Shape ==
  /\ pc = "start" => feeder = "off"
  /\ pc \in Looking \union {"raised"} => feeder # "off"
  /\ feeder = "off" => channel = <<>> /\ held = <<>> /\ stream = <<>>
  /\ feeder = "polling" => held = <<>>
  /\ pc \in {"start", "list"} => pending = {} /\ announced = {}
  /\ pc = "start" => tracked = {} /\ unlisted = {}
  /\ pc = "list" => tracked \intersect unlisted = {}
  /\ pc \in Looking \ {"list"} => unlisted = {}
  /\ pc = "initial" => announced = tracked \ pending
  /\ pc \in {"loop", "recv", "adding", "removing"} => pending = {} /\ announced = tracked

\* While the devices are being listed, those not yet looked at are only
\* as good as the events about them.
Bridged ==
  pc \in Looking /\ feeder # "ended" /\ ~blind =>
    \A d \in Matching :
      Bridges(InTransit, d, IF d \in unlisted THEN present ELSE tracked, present)

IInv == TypeOK /\ Shape /\ Bridged

\* A watch starts in the invariant.
LEMMA InvInit == Init => IInv
<1> SUFFICES ASSUME Init PROVE IInv
  OBVIOUS
<1>1. /\ stream \in Seq(Event) /\ channel \in Seq(Event) /\ held \in Seq(Event)
      /\ Len(channel) = 0 /\ Len(held) = 0
  BY EmptySeq DEF Init
<1>2. Len(channel) <= Capacity /\ Len(held) <= 1 /\ events \in 0..MaxEvents
  BY <1>1, UsbAssumption DEF Init
<1>3. /\ present \subseteq Devices /\ unlisted \subseteq Devices /\ tracked \subseteq Matching
      /\ pending \subseteq tracked /\ announced \subseteq Devices
  BY DEF Init
<1>4. TypeOK
  BY <1>1, <1>2, <1>3 DEF Init, TypeOK
<1>5. Shape /\ Bridged
  BY DEF Init, Shape, Bridged, Looking
<1> QED BY <1>4, <1>5 DEF IInv

\* The events of the bus, and those the watching thread takes off the channel.
LEMMA EventType ==
  /\ \A d \in Devices : [kind |-> "connected", dev |-> d] \in Event
  /\ \A d \in Devices : [kind |-> "disconnected", dev |-> d] \in Event
  /\ \A e \in Event : e.dev \in Devices /\ e.kind \in {"connected", "disconnected"}
BY DEF Event

\* Every step of the two threads, the bus and the user keeps the types.
LEMMA TypeStep == IInv /\ [Next]_vars => TypeOK'
<1> SUFFICES ASSUME TypeOK, Shape, [Next]_vars PROVE TypeOK'
  BY DEF IInv
<1> USE UsbAssumption DEF TypeOK, outside
<1>1. CASE UNCHANGED vars
  BY <1>1 DEF vars
<1>2. ASSUME NEW d \in Devices, Plug(d) \/ Unplug(d) PROVE TypeOK'
  <2>1. stream' \in Seq(Event)
    <3>1. PICK e \in Event : stream' = stream \/ stream' = Append(stream, e)
      BY <1>2, EventType DEF Plug, Unplug, Record
    <3>2. stream \in Seq(Event)
      OBVIOUS
    <3> QED BY ONLY <3>1, <3>2
  <2>2. present' \subseteq Devices /\ events' \in 0..MaxEvents
    BY <1>2 DEF Plug, Unplug
  <2> QED BY <1>2, <2>1, <2>2 DEF Plug, Unplug
<1>3. CASE WantCancel \/ Cancel \/ Reset
  <2>1. CASE WantCancel
    BY <2>1 DEF WantCancel
  <2>2. CASE Cancel
    BY <2>2 DEF Cancel
  <2>3. CASE Reset
    BY <2>3 DEF Reset
  <2> QED BY <1>3, <2>1, <2>2, <2>3
<1>4. CASE FeederPoll
  BY <1>4 DEF FeederPoll
<1>5. CASE FeederSend
  <2>1. /\ channel' \in Seq(Event)
        /\ Len(channel') = Len(channel) + Len(held)
    BY <1>5 DEF FeederSend
  <2>2. Len(channel) < Capacity
    BY <1>5 DEF FeederSend, CanSend
  <2>3. Len(channel') <= Capacity
    BY <2>1, <2>2
  <2> QED BY <1>5, <2>1, <2>3 DEF FeederSend
<1>6. CASE FeederEnds \/ StreamCloses
  <2>1. held' = <<>> \/ held' = held
    BY <1>6 DEF FeederEnds, StreamCloses
  <2>2. held' \in Seq(Event) /\ Len(held') <= 1
    <3>1. CASE held' = <<>>
      BY <3>1, EmptySeq
    <3>2. CASE held' = held
      BY <3>2
    <3> QED BY <2>1, <3>1, <3>2
  <2> QED BY <1>6, <2>2 DEF FeederEnds, StreamCloses
<1>7. CASE WatcherFails \/ StartWatcher
  BY <1>7 DEF WatcherFails, StartWatcher
<1>8. ASSUME NEW d \in Devices, ListDevice(d) PROVE TypeOK'
  BY <1>8 DEF ListDevice
<1>9. CASE ListFails
  BY <1>9 DEF ListFails, Shape
<1>10. CASE Listed \/ InitialDone \/ CheckToken
  BY <1>10 DEF Listed, InitialDone, CheckToken
<1>11. ASSUME NEW d \in Devices, CallInitial(d) PROVE TypeOK'
  BY <1>11 DEF CallInitial
<1>12. CASE RecvConnected \/ RecvDisconnected
  <2>1. channel # <<>> /\ channel' = Tail(channel) /\ pc = "recv"
    BY <1>12 DEF RecvConnected, RecvDisconnected
  <2>2. channel' \in Seq(Event) /\ Len(channel') <= Capacity
    BY <2>1
  <2>3. Head(channel).dev \in Devices
    BY <2>1, EventType
  <2>4. pending = {} /\ announced = tracked
    BY <2>1 DEF Shape
  <2>5. tracked' \subseteq Matching /\ announced' \subseteq Devices
    BY <1>12, <2>3, <2>4 DEF RecvConnected, RecvDisconnected, Accepts, Forget
  <2>6. beat' \in BOOLEAN /\ pc' \in {"loop", "adding", "removing"}
    BY <1>12 DEF RecvConnected, RecvDisconnected
  <2> QED BY <1>12, <2>2, <2>4, <2>5, <2>6 DEF RecvConnected, RecvDisconnected
<1>13. CASE CallbackReturns \/ ReturnException \/ RecvTimeout \/ RecvClosed
  BY <1>13 DEF CallbackReturns, ReturnException, RecvTimeout, RecvClosed
<1> QED
  BY <1>1, <1>2, <1>3, <1>4, <1>5, <1>6, <1>7, <1>8, <1>9, <1>10, <1>11, <1>12,
     <1>13 DEF Next, Feeder, Watcher

\* Every step keeps what the threads hold, and the caller's picture in step
\* with the map.
LEMMA ShapeStep == IInv /\ [Next]_vars => Shape'
<1> SUFFICES ASSUME TypeOK, Shape, [Next]_vars PROVE Shape'
  BY DEF IInv
<1> USE DEF TypeOK, Shape, Looking, outside
<1>1. CASE UNCHANGED vars
  BY <1>1 DEF vars
<1>2. ASSUME NEW d \in Devices, Plug(d) \/ Unplug(d) PROVE Shape'
  BY <1>2 DEF Plug, Unplug, Record
<1>3. CASE WantCancel \/ Cancel \/ Reset
  BY <1>3 DEF WantCancel, Cancel, Reset
<1>4. CASE FeederPoll \/ FeederSend
  BY <1>4 DEF FeederPoll, FeederSend
<1>5. CASE FeederEnds \/ StreamCloses
  BY <1>5 DEF FeederEnds, StreamCloses
<1>6. CASE WatcherFails \/ StartWatcher
  BY <1>6 DEF WatcherFails, StartWatcher
<1>7. ASSUME NEW d \in Devices, ListDevice(d) PROVE Shape'
  BY <1>7 DEF ListDevice
<1>8. CASE ListFails \/ Listed \/ InitialDone \/ CheckToken
  BY <1>8 DEF ListFails, Listed, InitialDone, CheckToken
<1>9. ASSUME NEW d \in Devices, CallInitial(d) PROVE Shape'
  BY <1>9 DEF CallInitial
<1>10. CASE RecvConnected
  BY <1>10 DEF RecvConnected
<1>11. CASE RecvDisconnected
  BY <1>11 DEF RecvDisconnected, Forget
<1>12. CASE CallbackReturns \/ ReturnException \/ RecvTimeout \/ RecvClosed
  BY <1>12 DEF CallbackReturns, ReturnException, RecvTimeout, RecvClosed
<1> QED
  BY <1>1, <1>2, <1>3, <1>4, <1>5, <1>6, <1>7, <1>8, <1>9, <1>10, <1>11, <1>12
     DEF Next, Feeder, Watcher

\* A step that leaves the events in transit, the map, the listing and the bus
\* alone keeps the bridge.
LEMMA BridgedSame ==
  ASSUME Bridged, InTransit' = InTransit,
         UNCHANGED <<present, tracked, unlisted, blind>>,
         pc' \in Looking /\ feeder' # "ended" => pc \in Looking /\ feeder # "ended"
  PROVE  Bridged'
<1> SUFFICES ASSUME pc' \in Looking, feeder' # "ended", ~blind', NEW d \in Matching
             PROVE  Bridges(InTransit', d, IF d \in unlisted' THEN present' ELSE tracked', present')
  BY DEF Bridged
<1> QED BY DEF Bridged

\* Every step keeps the bridge from the map to the bus.
LEMMA BridgedStep == IInv /\ [Next]_vars => Bridged'
<1> SUFFICES ASSUME TypeOK, Shape, Bridged, [Next]_vars PROVE Bridged'
  BY DEF IInv
<1>0. /\ stream \in Seq(Event) /\ channel \in Seq(Event) /\ held \in Seq(Event)
      /\ InTransit \in Seq(Event)
  BY TransitType DEF TypeOK
<1>1. CASE UNCHANGED vars
  BY <1>1, BridgedSame DEF vars, InTransit
<1>2. ASSUME NEW d \in Devices, Plug(d) \/ Unplug(d) PROVE Bridged'
  <2> SUFFICES ASSUME pc' \in Looking, feeder' # "ended", ~blind', NEW m \in Matching
               PROVE  Bridges(InTransit', m, IF m \in unlisted' THEN present' ELSE tracked', present')
    BY DEF Bridged
  <2>1. /\ UNCHANGED <<blind, channel, feeder, held, pc, unlisted, tracked>>
        /\ feeder \notin {"off", "ended"}
    BY <1>2 DEF Plug, Unplug, Shape, Looking
  <2>2. PICK e \in Event : /\ stream' = Append(stream, e)
                           /\ e.dev = d
                           /\ d \in present' <=> e.kind = "connected"
                           /\ \A x : x # d => (x \in present' <=> x \in present)
    <3>1. CASE Plug(d)
      <4>1. stream' = Append(stream, [kind |-> "connected", dev |-> d])
        BY <2>1, <3>1 DEF Plug, Record
      <4>2. d \in present' /\ \A x : x # d => (x \in present' <=> x \in present)
        BY <3>1 DEF Plug
      <4> QED BY <4>1, <4>2, EventType
    <3>2. CASE Unplug(d)
      <4>1. stream' = Append(stream, [kind |-> "disconnected", dev |-> d])
        BY <2>1, <3>2 DEF Unplug, Record
      <4>2. d \notin present' /\ \A x : x # d => (x \in present' <=> x \in present)
        BY <3>2 DEF Unplug
      <4> QED BY <4>1, <4>2, EventType
    <3> QED BY <1>2, <3>1, <3>2
  <2>3. InTransit' = Append(InTransit, e)
    BY <1>0, <2>1, <2>2, TransitAppend DEF InTransit
  <2>4. Bridges(InTransit, m, IF m \in unlisted THEN present ELSE tracked, present)
    BY <2>1 DEF Bridged
  <2>5. \A T : Bridges(InTransit, m, T, present) => Bridges(InTransit', m, T, present')
    <3> SUFFICES ASSUME NEW T, Bridges(InTransit, m, T, present)
                 PROVE  Bridges(Append(InTransit, e), m, T, present')
      BY <2>3
    <3> QED BY <1>0, <2>2, AppendBridges
  <2>6. CASE m \notin unlisted
    BY <2>1, <2>4, <2>5, <2>6
  <2>7. CASE m \in unlisted
    <3>1. Bridges(InTransit', m, present, present')
      BY <2>4, <2>5, <2>7
    <3>2. CASE m # d
      BY <2>1, <2>2, <2>7, <3>1, <3>2 DEF Bridges
    <3>3. CASE m = d
      BY <2>1, <2>7, <3>1, <3>3 DEF Bridges
    <3> QED BY <3>2, <3>3
  <2> QED BY <2>6, <2>7
<1>3. CASE WantCancel \/ Cancel \/ Reset
  BY <1>3, BridgedSame DEF WantCancel, Cancel, Reset, InTransit, outside
<1>4. CASE FeederPoll
  <2>1. InTransit' = InTransit
    <3>1. held = <<>> /\ channel' = channel /\ stream # <<>>
          /\ held' = <<Head(stream)>> /\ stream' = Tail(stream)
      BY <1>4 DEF FeederPoll, Shape
    <3> QED BY <1>0, <3>1, TransitPoll DEF InTransit
  <2> QED BY <1>4, <2>1, BridgedSame DEF FeederPoll
<1>5. CASE FeederSend
  <2>1. InTransit' = InTransit
    <3>1. channel' = channel \o held /\ held' = <<>> /\ stream' = stream
      BY <1>5 DEF FeederSend, outside
    <3>2. channel \o held \in Seq(Event) /\ (channel \o held) \o <<>> = channel \o held
      BY <1>0
    <3> QED BY <3>1, <3>2 DEF InTransit
  <2> QED BY <1>5, <2>1, BridgedSame DEF FeederSend, outside
<1>6. CASE FeederEnds \/ StreamCloses
  BY <1>6 DEF FeederEnds, StreamCloses, Bridged
<1>7. CASE WatcherFails
  BY <1>7 DEF WatcherFails, Bridged, Looking
<1>8. CASE StartWatcher
  <2>1. channel = <<>> /\ held = <<>> /\ stream = <<>>
    BY <1>8 DEF StartWatcher, Shape
  <2>2. InTransit' = <<>> \o <<>> \o <<>>
    BY <1>8, <2>1 DEF StartWatcher, InTransit, outside
  <2>3. InTransit' = <<>>
    BY <2>2
  <2>4. \A d \in Matching : d \in unlisted'
    BY <1>8, UsbAssumption DEF StartWatcher
  <2> QED BY <2>3, <2>4 DEF Bridged, Bridges, LastAbout
<1>9. ASSUME NEW d \in Devices, ListDevice(d) PROVE Bridged'
  <2> SUFFICES ASSUME pc' \in Looking, feeder' # "ended", ~blind', NEW m \in Matching
               PROVE  Bridges(InTransit', m, IF m \in unlisted' THEN present' ELSE tracked', present')
    BY DEF Bridged
  <2>1. InTransit' = InTransit /\ present' = present
    BY <1>9 DEF ListDevice, InTransit, outside
  <2>2. Bridges(InTransit, m, IF m \in unlisted THEN present ELSE tracked, present)
    BY <1>9 DEF ListDevice, Bridged
  <2>3. CASE m # d
    BY <1>9, <2>1, <2>2, <2>3 DEF ListDevice, Bridges
  <2>4. CASE m = d
    <3>1. m \notin tracked /\ m \in unlisted /\ m \notin unlisted'
      BY <1>9, <2>4 DEF ListDevice, Shape
    <3>2. m \in tracked' <=> m \in present
      BY <1>9, <2>4, <3>1 DEF ListDevice
    <3> QED BY <2>1, <2>2, <3>1, <3>2 DEF Bridges
  <2> QED BY <2>3, <2>4
<1>10. CASE ListFails
  BY <1>10 DEF ListFails, Bridged
<1>11. CASE Listed \/ InitialDone \/ CheckToken
  BY <1>11, BridgedSame DEF Listed, InitialDone, CheckToken, InTransit, outside, Looking
<1>12. ASSUME NEW d \in Devices, CallInitial(d) PROVE Bridged'
  BY <1>12, BridgedSame DEF CallInitial, InTransit, outside, Looking
<1>13. CASE RecvConnected \/ RecvDisconnected
  <2> SUFFICES ASSUME feeder' # "ended", ~blind', NEW m \in Matching
               PROVE  Bridges(InTransit', m, IF m \in unlisted' THEN present' ELSE tracked', present')
    BY DEF Bridged
  <2>1. /\ pc = "recv" /\ channel # <<>> /\ channel' = Tail(channel)
        /\ UNCHANGED <<present, stream, held, feeder, unlisted, blind>>
        /\ unlisted = {}
    BY <1>13 DEF RecvConnected, RecvDisconnected, Shape, Looking, outside
  <2>2. InTransit # <<>> /\ Head(InTransit) = Head(channel) /\ InTransit' = Tail(InTransit)
    <3>1. /\ InTransit = Transit(channel, held, stream)
          /\ InTransit' = Transit(Tail(channel), held, stream)
      BY <2>1 DEF InTransit, Transit
    <3>2. /\ channel \in Seq(Event) /\ channel # <<>>
          /\ held \in Seq(Event) /\ stream \in Seq(Event)
      BY <1>0, <2>1
    <3> HIDE DEF InTransit
    <3>3. /\ Transit(channel, held, stream) # <<>>
          /\ Head(Transit(channel, held, stream)) = Head(channel)
          /\ Tail(Transit(channel, held, stream)) = Transit(Tail(channel), held, stream)
      BY ONLY <3>2, TransitTail
    <3> QED BY ONLY <3>1, <3>3
  <2>3. Bridges(InTransit, m, tracked, present)
    BY <2>1 DEF Bridged, Looking
  <2>4. /\ Head(channel).dev = m => (m \in tracked' <=> Head(channel).kind = "connected")
        /\ Head(channel).dev # m => (m \in tracked' <=> m \in tracked)
    <3>1. CASE RecvConnected
      BY <3>1 DEF RecvConnected, Accepts, IsNew
    <3>2. CASE RecvDisconnected
      BY <3>2 DEF RecvDisconnected, Forget
    <3> QED BY <1>13, <3>1, <3>2
  <2>5. Bridges(Tail(InTransit), m, tracked', present)
    BY <1>0, <2>2, <2>3, <2>4, TailBridges
  <2> QED BY <2>1, <2>2, <2>5
<1>14. CASE CallbackReturns \/ ReturnException \/ RecvTimeout \/ RecvClosed
  BY <1>14, BridgedSame DEF CallbackReturns, ReturnException, RecvTimeout, RecvClosed,
     InTransit, outside, Looking
<1> QED
  BY <1>1, <1>2, <1>3, <1>4, <1>5, <1>6, <1>7, <1>8, <1>9, <1>10, <1>11, <1>12,
     <1>13, <1>14 DEF Next, Feeder, Watcher

----------------------------------------------------------------------------
(* The theorems.                                                           *)

\* The invariant holds in every state of every behaviour of the two threads.
THEOREM Inductive == Spec => []IInv
<1>1. IInv /\ [Next]_vars => IInv'
  BY TypeStep, ShapeStep, BridgedStep DEF IInv
<1> QED BY InvInit, <1>1, PTL DEF Spec

\* The variables keep their types; the channel never holds more than its
\* capacity, and what is still to be reported is in the map.
THEOREM TypeCorrect == Spec => []TypeOK
<1>1. IInv => TypeOK
  BY DEF IInv
<1> QED BY Inductive, <1>1, PTL

\* Whatever the bus does while UsbDiscovery::watch starts, lists and runs, the
\* map of tracked devices and the events still under way add up to the truth.
THEOREM MapCatchesUpHolds == Spec => []MapCatchesUp
<1>1. IInv => MapCatchesUp
  <2> SUFFICES ASSUME Shape, Bridged,
                      pc \in {"initial", "loop", "recv", "adding", "removing"},
                      feeder # "ended", ~blind, NEW d \in Matching
               PROVE  Bridges(InTransit, d, tracked, present)
    BY DEF IInv, MapCatchesUp, Bridges
  <2> QED BY DEF Shape, Bridged, Looking
<1> QED BY Inductive, <1>1, PTL

\* Through its callbacks UsbDiscovery::watch implements WatchContract: on_added
\* and on_removed alternate for each device, and neither comes after the return.
THEOREM ImplementsContract == Spec => KeepsContract
<1>1. Init => Contract!Init
  BY DEF Init, Contract!Init
<1>2. IInv /\ [Next]_vars => [Contract!Next]_<<announced, beat, pc = "returned">>
  <2> SUFFICES ASSUME TypeOK, Shape, [Next]_vars
               PROVE  \/ Contract!Next
                      \/ UNCHANGED <<announced, beat, pc = "returned">>
    BY DEF IInv
  <2>1. CASE UNCHANGED vars
    BY <2>1 DEF vars
  <2>2. ASSUME NEW d \in Devices, Plug(d) \/ Unplug(d)
        PROVE  UNCHANGED <<announced, beat, pc>>
    BY <2>2 DEF Plug, Unplug
  <2>3. ASSUME WantCancel \/ Cancel \/ Reset \/ Feeder \/ StreamCloses
        PROVE  UNCHANGED <<announced, beat, pc>>
    BY <2>3 DEF WantCancel, Cancel, Reset, Feeder, FeederPoll, FeederSend, FeederEnds, StreamCloses
  <2>4. ASSUME NEW d \in Devices, CallInitial(d) PROVE Contract!Next
    <3>1. d \notin announced /\ pc # "returned" /\ pc' # "returned"
      BY <2>4 DEF CallInitial, Shape
    <3>2. Contract!Added(d)
      BY <2>4, <3>1 DEF CallInitial, Contract!Added
    <3> QED BY <3>2 DEF Contract!Next
  <2>5. ASSUME RecvConnected
        PROVE  Contract!Next \/ UNCHANGED <<announced, beat, pc = "returned">>
    <3> DEFINE d == Head(channel).dev
    <3>1. d \in Devices /\ announced = tracked /\ pc = "recv"
      BY <2>5, EventType DEF RecvConnected, TypeOK, Shape
    <3>2. CASE Accepts(d) /\ IsNew(d)
      <4>1. Contract!Added(d)
        BY <2>5, <3>1, <3>2 DEF RecvConnected, IsNew, Contract!Added
      <4> QED BY <3>1, <4>1 DEF Contract!Next
    <3>3. CASE ~(Accepts(d) /\ IsNew(d))
      BY <2>5, <3>1, <3>3 DEF RecvConnected
    <3> QED BY <3>2, <3>3
  <2>6. ASSUME RecvDisconnected
        PROVE  Contract!Next \/ UNCHANGED <<announced, beat, pc = "returned">>
    <3> DEFINE d == Head(channel).dev
    <3>1. d \in Devices /\ announced = tracked /\ pc = "recv"
      BY <2>6, EventType DEF RecvDisconnected, TypeOK, Shape
    <3>2. CASE d \in tracked
      <4>1. Contract!Removed(d)
        BY <2>6, <3>1, <3>2 DEF RecvDisconnected, Contract!Removed
      <4> QED BY <3>1, <4>1 DEF Contract!Next
    <3>3. CASE d \notin tracked
      BY <2>6, <3>1, <3>3 DEF RecvDisconnected
    <3> QED BY <3>2, <3>3
  <2>7. ASSUME \/ WatcherFails \/ StartWatcher \/ (\E d \in Devices : ListDevice(d))
               \/ ListFails \/ Listed \/ InitialDone \/ CheckToken \/ CallbackReturns
               \/ ReturnException \/ RecvTimeout \/ RecvClosed
        PROVE  UNCHANGED <<announced, beat>> /\ pc # "returned"
    BY <2>7 DEF WatcherFails, StartWatcher, ListDevice, ListFails, Listed, InitialDone,
       CheckToken, CallbackReturns, ReturnException, RecvTimeout, RecvClosed
  <2>8. ASSUME UNCHANGED <<announced, beat>>, pc # "returned"
        PROVE  Contract!Next \/ UNCHANGED <<announced, beat, pc = "returned">>
    <3>1. CASE pc' = "returned"
      BY <2>8, <3>1 DEF Contract!Next, Contract!Return
    <3>2. CASE pc' # "returned"
      BY <2>8, <3>2
    <3> QED BY <3>1, <3>2
  <2> QED
    BY <2>1, <2>2, <2>3, <2>4, <2>5, <2>6, <2>7, <2>8 DEF Next, Watcher
<1> QED BY <1>1, <1>2, Inductive, PTL DEF Spec, KeepsContract, Contract!Spec

----------------------------------------------------------------------------
(* What a match leads back to.                                             *)

\* Where the last colon of a text is.
LEMMA LastColonAt ==
  ASSUME NEW t \in Text, NEW n \in 1..Len(t), t[n] = Colon,
         \A i \in 1..Len(t) : i > n => t[i] # Colon
  PROVE  LastColon(t) = n
<1> DEFINE I == {i \in 1..Len(t) : IsColon(t[i])}
<1>1. n \in I /\ \A i \in I : n >= i
  BY DEF IsColon, Text
<1>2. \A x \in I : (\A y \in I : x >= y) => x = n
  BY <1>1 DEF Text
<1>3. (CHOOSE x \in I : \A y \in I : x >= y) = n
  BY <1>1, <1>2
<1>4. Max(I) = n
  BY <1>3 DEF Max
<1> QED
  BY <1>1, <1>4 DEF LastColon, SelectLastInSeq

\* Where the first colon of a text is.
LEMMA FirstColonAt ==
  ASSUME NEW t \in Text, NEW n \in 1..Len(t), t[n] = Colon,
         \A i \in 1..(n - 1) : t[i] # Colon
  PROVE  SplitOnce(t) = [before |-> SubSeq(t, 1, n - 1), after |-> SubSeq(t, n + 1, Len(t))]
<1> DEFINE I == {i \in 1..Len(t) : IsColon(t[i])}
<1>1. n \in I /\ \A i \in I : n <= i
  BY DEF IsColon, Text
<1>2. \A x \in I : (\A y \in I : x <= y) => x = n
  BY <1>1 DEF Text
<1>3. (CHOOSE x \in I : \A y \in I : x <= y) = n
  BY <1>1, <1>2
<1>4. Min(I) = n
  BY <1>3 DEF Min
<1>5. SelectInSeq(t, IsColon) = n
  BY <1>1, <1>4 DEF SelectInSeq
<1> QED
  BY <1>5 DEF SplitOnce

\* A text without a colon is not split.
LEMMA NoColon ==
  ASSUME NEW t, \A i \in 1..Len(t) : t[i] # Colon
  PROVE  SplitOnce(t).before = t
<1>1. SelectInSeq(t, IsColon) = 0
  BY DEF SelectInSeq, IsColon
<1> QED
  BY <1>1 DEF SplitOnce

\* A number is not a colon.
LEMMA NumberIsNoColon ==
  ASSUME NEW n \in Nat
  PROVE  /\ Decimal(n) # Colon /\ Hex(n) # Colon
         /\ Decimal(n) \in Token /\ Hex(n) \in Token /\ Colon \in Token
         /\ ParseAs("decimal", <<Decimal(n)>>) = n /\ ParseAs("hex", <<Hex(n)>>) = n
BY DEF Decimal, Hex, Colon, Token, ParseAs

\* A piece of one token.
LEMMA OneToken ==
  ASSUME NEW t \in Seq(Token), NEW n \in 1..Len(t)
  PROVE  SubSeq(t, n, n) = <<t[n]>>
<1>1. n \in Int /\ \A i \in n..n : t[i] \in Token
  OBVIOUS
<1>2. /\ SubSeq(t, n, n) \in Seq(Token)
      /\ Len(SubSeq(t, n, n)) = 1
      /\ SubSeq(t, n, n)[1] = t[n]
  BY <1>1, SubSeqProperties
<1>3. <<t[n]>> \in Seq(Token) /\ Len(<<t[n]>>) = 1 /\ <<t[n]>>[1] = t[n]
  BY <1>1
<1> DEFINE piece == SubSeq(t, n, n)
           single == <<t[n]>>
<1>4. Len(piece) = Len(single) /\ \A i \in 1..Len(piece) : piece[i] = single[i]
  BY <1>2, <1>3
<1>5. piece \in Seq(Token) /\ single \in Seq(Token)
  BY <1>2, <1>3
<1> HIDE DEF piece, single
<1>6. piece = single
  BY <1>4, <1>5, SeqEqual
<1> QED
  BY <1>6 DEF piece, single

\* A TCP match leads back to the port, and to a host that needs no brackets.
LEMMA TcpReopens ==
  ASSUME NEW d \in TcpDevice
  PROVE  LeadsBack(MatchOf(d), d)
<1> DEFINE host == Bracketed(d)
           n == Len(host)
           port == Decimal(d.port)
           address == host \o <<Colon, port>>
           m == MatchOf(d)
<1>1. d.transport = "tcp" /\ d.host \in Text /\ d.port \in Nat
  BY DEF TcpDevice
<1>2. host \in Seq(Token)
  <2>1. LeftBracket \in Token /\ RightBracket \in Token
    BY DEF Token
  <2>2. d.host \in Seq(Token)
    BY <1>1 DEF Text
  <2>3. <<LeftBracket>> \in Seq(Token) /\ <<RightBracket>> \in Seq(Token)
    BY <2>1
  <2>4. <<LeftBracket>> \o d.host \o <<RightBracket>> \in Seq(Token)
    BY <2>2, <2>3
  <2> QED
    BY <2>2, <2>4 DEF Bracketed
<1>3. /\ m.transport = "tcp" /\ m.address = address
  BY <1>1 DEF MatchOf, TcpMatch
<1>4. port \in Token /\ Colon \in Token /\ port # Colon /\ ParseAs("decimal", <<port>>) = d.port
  BY <1>1, NumberIsNoColon
<1> HIDE DEF host, port, m
<1>5. /\ address \in Seq(Token) /\ n \in Nat /\ Len(address) = n + 2
      /\ address[n + 1] = Colon /\ address[n + 2] = port
  BY <1>2, <1>4
<1>6. SubSeq(address, 1, n) = host
  BY <1>2, <1>4
<1> HIDE DEF address, n
<1>7. LastColon(address) = n + 1
  <2>1. address \in Text /\ n + 1 \in 1..Len(address)
    BY <1>5 DEF Text
  <2>2. \A i \in 1..Len(address) : i > n + 1 => i = n + 2
    BY <1>5
  <2> QED
    BY <1>4, <1>5, <2>1, <2>2, LastColonAt
<1>8. SubSeq(address, n + 2, n + 2) = <<port>>
  BY <1>5, OneToken
<1>9. HostOf(m) = host
  <2>1. n + 1 # 0 /\ (n + 1) - 1 = n
    BY <1>5
  <2> QED
    BY <1>3, <1>6, <1>7, <2>1 DEF HostOf
<1>10. PortOf(m) = d.port
  <2>1. n + 1 # 0 /\ (n + 1) + 1 = n + 2 /\ Len(address) = n + 2
    BY <1>5
  <2> QED
    BY <1>3, <1>4, <1>7, <1>8, <2>1 DEF PortOf
<1>11. BusParams(m) = [host |-> host, port |-> d.port] /\ ~IsHid(m)
  BY <1>3, <1>9, <1>10 DEF BusParams, IsHid
<1>12. ~d.v6 => host = d.host
  BY <1>1 DEF Bracketed, host
<1>13. ~d.v6 => Reopens(m, d)
  BY <1>1, <1>11, <1>12 DEF Reopens
<1> QED
  BY <1>1, <1>10, <1>13 DEF LeadsBack, m

\* A serial match leads back to the port and to its settings, but for flow control.
LEMMA SerialReopens ==
  ASSUME NEW d \in SerialDevice
  PROVE  LeadsBack(MatchOf(d), d)
<1> DEFINE m == MatchOf(d)
           params == BusParams(m)
<1>1. /\ d.transport = "serial" /\ d.baud \in {None} \union Nat /\ d.data_bits \in {None} \union Nat
      /\ d.parity \in {None, "none", "even", "odd"} /\ d.stop_bits \in {None} \union Nat
  BY DEF SerialDevice
<1>2. m = [transport |-> "serial", address |-> d.port, info |-> SerialInfo(d)]
  BY <1>1 DEF MatchOf, SerialMatch
<1>3. ParseAs("decimal", <<>>) = None
  BY DEF ParseAs
<1> HIDE DEF m
<1>4. /\ params.port = d.port
      /\ params.baudrate = ParseAs("decimal", SerialInfo(d).baud_rate)
      /\ params.bytesize = ParseAs("decimal", SerialInfo(d).data_bits)
      /\ params.stopbits = ParseAs("decimal", SerialInfo(d).stop_bits)
      /\ params.parity = IF SerialInfo(d).parity = <<>> THEN None
                         ELSE ParityChar(SerialInfo(d).parity[1][2])
      /\ params.flow_control = None
  BY <1>2 DEF BusParams
<1> HIDE DEF params
<1>5. params.baudrate = d.baud
  BY <1>1, <1>3, <1>4, NumberIsNoColon DEF SerialInfo, Optional
<1>6. Opened(params.bytesize, 8) = Opened(d.data_bits, 8)
  BY <1>1, <1>3, <1>4, NumberIsNoColon DEF SerialInfo, Opened
<1>7. Opened(params.stopbits, 1) = Opened(d.stop_bits, 1)
  BY <1>1, <1>3, <1>4, NumberIsNoColon DEF SerialInfo, Opened
<1>8. Opened(params.parity, "N") = ParityChar(d.parity)
  <2>1. CASE d.parity \in {None, "none"}
    BY <2>1, <1>4, MatchAssumption DEF SerialInfo, Opened, ParityChar
  <2>2. CASE d.parity \in {"even", "odd"}
    <3>1. SerialInfo(d).parity = <<Word(d.parity)>>
      BY <2>2, MatchAssumption DEF SerialInfo
    <3>2. params.parity = ParityChar(d.parity)
      BY <3>1, <1>4 DEF Word
    <3> QED
      BY <2>2, <3>2, MatchAssumption DEF Opened, ParityChar
  <2> QED
    BY <1>1, <2>1, <2>2
<1>9. ~IsHid(m)
  BY <1>2 DEF IsHid
<1> DEFINE e == [d EXCEPT !.flow = None]
<1>10. /\ e.transport = "serial" /\ e.port = d.port /\ e.baud = d.baud /\ e.data_bits = d.data_bits
       /\ e.stop_bits = d.stop_bits /\ e.parity = d.parity
       /\ Opened(params.flow_control, "none") = Opened(e.flow, "none")
  BY <1>1, <1>4 DEF SerialDevice, Opened
<1> HIDE DEF e
<1>11. Reopens(m, e)
  BY <1>4, <1>5, <1>6, <1>7, <1>8, <1>9, <1>10 DEF Reopens, params
<1> QED
  BY <1>1, <1>11 DEF LeadsBack, m, e

\* A USB match leads back to vendor, product and serial number, whatever colons
\* the serial number holds.
LEMMA UsbReopens ==
  ASSUME NEW d \in UsbDevice
  PROVE  LeadsBack(MatchOf(d), d)
<1> DEFINE head == <<Hex(d.vid), Colon, Hex(d.pid)>>
           tail == IF d.serial = <<>> THEN <<>> ELSE <<Colon>> \o d.serial
           address == head \o tail
           rest == <<Hex(d.pid)>> \o tail
           m == MatchOf(d)
<1>1. d.transport = "usb" /\ d.vid \in Nat /\ d.pid \in Nat /\ d.serial \in Text /\ d.class \in Nat
  BY DEF UsbDevice
<1>2. /\ Hex(d.vid) \in Token /\ Hex(d.pid) \in Token /\ Colon \in Token
      /\ Hex(d.vid) # Colon /\ Hex(d.pid) # Colon
      /\ ParseAs("hex", <<Hex(d.vid)>>) = d.vid /\ ParseAs("hex", <<Hex(d.pid)>>) = d.pid
      /\ ParseAs("decimal", <<Decimal(d.class)>>) = d.class
  BY <1>1, NumberIsNoColon
<1>3. /\ m.transport = "usb" /\ m.address = address
      /\ m.info.serial_number = d.serial /\ m.info.device_class = <<Decimal(d.class)>>
  BY <1>1 DEF MatchOf, UsbMatch
<1>4. tail \in Seq(Token) /\ (tail # <<>> => tail[1] = Colon)
  <2>1. d.serial \in Seq(Token)
    BY <1>1 DEF Text
  <2> QED
    BY <1>2, <2>1
<1> HIDE DEF tail, m
<1>5. head \in Seq(Token) /\ Len(head) = 3
  BY <1>2
<1>6. /\ address \in Seq(Token) /\ Len(address) = 3 + Len(tail)
      /\ address[1] = Hex(d.vid) /\ address[2] = Colon /\ address[3] = Hex(d.pid)
  BY <1>2, <1>4, <1>5
<1>7. /\ SplitOnce(address).before = <<Hex(d.vid)>>
      /\ SplitOnce(address).after = SubSeq(address, 3, Len(address))
  <2>1. address \in Text /\ 2 \in 1..Len(address)
    BY <1>4, <1>6 DEF Text
  <2>2. \A i \in 1..(2 - 1) : address[i] # Colon
    BY <1>2, <1>6
  <2> HIDE DEF address
  <2>3. SubSeq(address, 1, 1) = <<Hex(d.vid)>>
    BY <1>4, <1>6, <2>1, OneToken
  <2>4. SplitOnce(address) =
          [before |-> SubSeq(address, 1, 2 - 1), after |-> SubSeq(address, 2 + 1, Len(address))]
    BY <2>1, <2>2, <1>6, FirstColonAt
  <2> QED
    BY <2>3, <2>4
<1>8. SubSeq(address, 3, Len(address)) = rest
  BY <1>2, <1>4, <1>6
<1>9. rest \in Seq(Token) /\ Len(rest) = 1 + Len(tail) /\ rest[1] = Hex(d.pid)
  BY <1>2, <1>4
<1>10. SplitOnce(rest).before = <<Hex(d.pid)>>
  <2>1. CASE tail = <<>>
    <3>1. rest = <<Hex(d.pid)>>
      BY <2>1, <1>9
    <3>2. \A i \in 1..Len(rest) : rest[i] # Colon
      BY <3>1, <1>2
    <3> HIDE DEF rest
    <3> QED
      BY <3>1, <3>2, NoColon
  <2>2. CASE tail # <<>>
    <3>1. rest \in Text /\ 2 \in 1..Len(rest) /\ rest[2] = Colon
      BY <2>2, <1>4, <1>9 DEF Text
    <3>2. \A i \in 1..(2 - 1) : rest[i] # Colon
      BY <1>2, <1>9
    <3> HIDE DEF rest
    <3>3. SubSeq(rest, 1, 1) = <<Hex(d.pid)>>
      BY <3>1, <1>9, OneToken
    <3>4. SplitOnce(rest).before = SubSeq(rest, 1, 2 - 1)
      BY <3>1, <3>2, FirstColonAt
    <3> QED
      BY <3>3, <3>4
  <2> QED
    BY <2>1, <2>2
<1> HIDE DEF address, rest
<1>11. VendorId(m) = d.vid /\ ProductId(m) = d.pid
  BY <1>2, <1>3, <1>7, <1>8, <1>10 DEF VendorId, ProductId
<1>12. BusParams(m) = [vendor |-> d.vid, product |-> d.pid, serial_number |-> d.serial]
  BY <1>3, <1>11 DEF BusParams
<1>13. IsHid(m) <=> d.class = 3
  BY <1>2, <1>3 DEF IsHid
<1> QED
  BY <1>1, <1>12, <1>13 DEF Reopens, LeadsBack, m

----------------------------------------------------------------------------
(* The loop over the devices of a discovery.                               *)

AnyDevice == TcpDevice \union SerialDevice \union UsbDevice

\* A match of any transport leads back to its device.
LEMMA MatchReopens ==
  ASSUME NEW d \in AnyDevice
  PROVE  LeadsBack(MatchOf(d), d)
BY TcpReopens, SerialReopens, UsbReopens DEF AnyDevice

\* What the loop over the devices has done so far.
MatchInv ==
  /\ devices \in Seq(AnyDevice)
  /\ looked_at \in 0..Len(devices)
  /\ found_matches \in Seq({MatchOf(d) : d \in AnyDevice})
  /\ ParamsReopen

\* Which of the first k devices pass.
Passers(k) == {j \in 1..k : Passes(devices[j])}

\* There are finitely many of them.
LEMMA PassingIsNat ==
  ASSUME NEW k \in Nat
  PROVE  IsFiniteSet(Passers(k)) /\ Passing(k) = Cardinality(Passers(k)) /\ Passing(k) \in Nat
<1>1. IsFiniteSet(1..k)
  BY FS_Interval
<1>2. Passers(k) \subseteq 1..k
  BY DEF Passers
<1>3. IsFiniteSet(Passers(k))
  BY <1>1, <1>2, FS_Subset
<1>4. Passing(k) = Cardinality(Passers(k))
  BY DEF Passing, Passers
<1> QED
  BY <1>3, <1>4, FS_CardinalityType

\* One more device counts for one if it passes.
LEMMA PassingNext ==
  ASSUME NEW k \in Nat
  PROVE  Passing(k + 1) = IF Passes(devices[k + 1]) THEN Passing(k) + 1 ELSE Passing(k)
<1>1. CASE Passes(devices[k + 1])
  <2>1. Passers(k + 1) = Passers(k) \union {k + 1} /\ (k + 1) \notin Passers(k)
    BY <1>1 DEF Passers
  <2>2. Cardinality(Passers(k) \union {k + 1}) = Cardinality(Passers(k)) + 1
    BY <2>1, PassingIsNat, FS_AddElement
  <2>3. /\ Passing(k) = Cardinality(Passers(k))
        /\ Passing(k + 1) = Cardinality(Passers(k + 1))
    BY PassingIsNat
  <2> QED
    BY <1>1, <2>1, <2>2, <2>3
<1>2. CASE ~Passes(devices[k + 1])
  <2>1. Passers(k + 1) = Passers(k)
    BY <1>2 DEF Passers
  <2> QED
    BY <1>2, <2>1, PassingIsNat
<1> QED
  BY <1>1, <1>2

\* A device that passes has a place in the list of matches.
LEMMA PassingPlace ==
  ASSUME NEW k \in Nat, NEW n \in Nat, k \in 1..n, Passes(devices[k])
  PROVE  Passing(k) \in 1..Passing(n)
<1>1. Passers(k) \subseteq Passers(n) /\ k \in Passers(k)
  BY DEF Passers
<1>2. Cardinality(Passers(k)) <= Cardinality(Passers(n))
  BY <1>1, PassingIsNat, FS_Subset
<1>3. Cardinality(Passers(k)) # 0
  BY <1>1, PassingIsNat, FS_EmptySet
<1> QED
  BY <1>2, <1>3, PassingIsNat

\* A discovery that has looked at nothing.
LEMMA MatchInvInit == MatchInit => MatchInv
<1> SUFFICES ASSUME MatchInit PROVE MatchInv
  OBVIOUS
<1>1. devices \in Seq(AnyDevice) /\ looked_at \in 0..Len(devices)
  BY MatchAssumption DEF MatchInit, AnyDevice
<1>2. found_matches = <<>> /\ looked_at = 0
  BY DEF MatchInit
<1>3. Passing(0) = 0
  <2>1. Passers(0) = {}
    BY DEF Passers
  <2> QED
    BY <2>1, PassingIsNat, FS_EmptySet
<1> QED
  BY <1>1, <1>2, <1>3 DEF MatchInv, ParamsReopen

\* A step keeps it: only DiscoverNext moves the loop.
LEMMA MatchInvNext == MatchInv /\ [MatchNext]_matchVars => MatchInv'
<1> SUFFICES ASSUME MatchInv, [MatchNext]_matchVars PROVE MatchInv'
  OBVIOUS
<1> DEFINE M == {MatchOf(d) : d \in AnyDevice}
           n == looked_at
<1>1. devices \in Seq(AnyDevice) /\ n \in 0..Len(devices) /\ found_matches \in Seq(M)
  BY DEF MatchInv
<1>2. /\ Len(found_matches) = Passing(n)
      /\ \A k \in 1..n : Passes(devices[k]) => LeadsBack(found_matches[Passing(k)], devices[k])
  BY DEF MatchInv, ParamsReopen
<1>3. ASSUME UNCHANGED <<devices, looked_at, found_matches>> PROVE MatchInv'
  BY <1>3 DEF MatchInv, ParamsReopen, Passing
<1>4. ASSUME DiscoverNext PROVE MatchInv'
  <2> DEFINE d == devices[n + 1]
  <2>1. /\ devices' = devices /\ n < Len(devices) /\ looked_at' = n + 1
        /\ found_matches' = IF Passes(d) THEN Append(found_matches, MatchOf(d)) ELSE found_matches
    BY <1>4 DEF DiscoverNext
  <2>2. \A k : Passing(k)' = Passing(k)
    BY <2>1 DEF Passing
  <2>3. d \in AnyDevice /\ MatchOf(d) \in M /\ n \in Nat /\ n + 1 \in 0..Len(devices)
    BY <1>1, <2>1
  <2>4. found_matches' \in Seq(M)
    BY <1>1, <2>1, <2>3
  <2>5. \A k \in 1..n : Passes(devices[k]) => Passing(k) \in 1..Len(found_matches)
    BY <1>1, <1>2, PassingPlace
  <2>6. /\ Len(found_matches') = Passing(n + 1)
        /\ \A k \in 1..(n + 1) :
             Passes(devices[k]) => LeadsBack(found_matches'[Passing(k)], devices[k])
    <3>1. CASE Passes(d)
      <4>1. found_matches' = Append(found_matches, MatchOf(d)) /\ Passing(n + 1) = Passing(n) + 1
        BY <2>1, <2>3, <3>1, PassingNext
      <4>2. /\ Len(found_matches') = Passing(n) + 1
            /\ found_matches'[Passing(n) + 1] = MatchOf(d)
            /\ \A i \in 1..Len(found_matches) : found_matches'[i] = found_matches[i]
        BY <1>1, <1>2, <2>3, <4>1
      <4>3. LeadsBack(found_matches'[Passing(n + 1)], d)
        BY <2>3, <4>1, <4>2, MatchReopens
      <4>4. ASSUME NEW k \in 1..n, Passes(devices[k])
            PROVE  LeadsBack(found_matches'[Passing(k)], devices[k])
        <5>1. found_matches'[Passing(k)] = found_matches[Passing(k)]
          BY <2>5, <4>2, <4>4
        <5> QED
          BY <1>2, <4>4, <5>1
      <4>5. \A k \in 1..(n + 1) : k \in 1..n \/ k = n + 1
        BY <2>3
      <4> QED
        BY <4>1, <4>2, <4>3, <4>4, <4>5
    <3>2. CASE ~Passes(d)
      <4>1. found_matches' = found_matches /\ Passing(n + 1) = Passing(n)
        BY <2>1, <2>3, <3>2, PassingNext
      <4>2. \A k \in 1..(n + 1) : k \in 1..n \/ k = n + 1
        BY <2>3
      <4> QED
        BY <1>2, <3>2, <4>1, <4>2
    <3> QED
      BY <3>1, <3>2
  <2>7. ParamsReopen'
    BY <2>1, <2>2, <2>6 DEF ParamsReopen
  <2> QED
    BY <1>1, <2>1, <2>3, <2>4, <2>7 DEF MatchInv
<1>5. CASE DiscoverReturns BY <1>3, <1>5 DEF DiscoverReturns
<1>6. CASE DiscoverFails BY <1>3, <1>6 DEF DiscoverFails
<1>7. CASE CallNext BY <1>3, <1>7 DEF CallNext
<1>8. CASE ReturnStreamed BY <1>3, <1>8 DEF ReturnStreamed
<1>9. CASE UNCHANGED matchVars BY <1>3, <1>9 DEF matchVars
<1> QED
  BY <1>4, <1>5, <1>6, <1>7, <1>8, <1>9 DEF MatchNext

\* Every discovery, whatever devices it meets: the n-th match it builds
\* (build_match, build_device_match) is of the n-th device that passes the
\* filters, and the parameters bus_params reads back of it name that device and
\* its settings, but for the brackets of an IPv6 host and for flow control.
THEOREM ParamsReopenHolds == MatchSpec => []ParamsReopen
<1>1. MatchInv => ParamsReopen
  BY DEF MatchInv
<1> QED
  BY <1>1, MatchInvInit, MatchInvNext, PTL DEF MatchSpec
=============================================================================
