------------------------------ MODULE UsbWatch ------------------------------
(***************************************************************************)
(* The hotplug watch of the USB transport: UsbDiscovery::watch of          *)
(* src/usb/mod.rs.                                                         *)
(*                                                                         *)
(* The calling Python thread starts the OS hotplug watcher, spawns a       *)
(* thread that moves its events into a bounded channel, takes the list of  *)
(* connected devices and reports them, and then handles events until the   *)
(* token is set.  Devices come and go all the while.  Of a DeviceInfo only *)
(* the id counts, and whether it passes apply_filters (Matching).          *)
(***************************************************************************)
EXTENDS Naturals, Sequences

CONSTANTS
  Devices,      \* ids of USB devices; an id may come back
  Matching,     \* those that pass apply_filters
  Capacity,     \* of the event channel (64 in the code)
  MaxEvents,    \* bound on the plug and unplug events of a behaviour
  ListMayFail   \* whether nusb::list_devices may fail

ASSUME UsbAssumption ==
  /\ Matching \subseteq Devices
  /\ Capacity \in Nat \ {0}
  /\ MaxEvents \in Nat
  /\ ListMayFail \in BOOLEAN

VARIABLES
  present,    \* environment: connected devices
  events,     \* environment: number of plug and unplug events so far
  stream,     \* hotplug events the OS holds for the watcher
  channel,    \* the sync_channel between the two threads
  feeder,     \* the background thread: "off", "polling", "sending", "ended"
  held,       \* the event the feeder is sending (a sequence of at most one)
  pc,         \* the watching thread
  unlisted,   \* devices list_devices has not looked at yet
  blind,      \* history: list_devices failed
  tracked,    \* the HashMap of reported devices
  pending,    \* tracked devices whose initial on_added is still to come
  wanted,     \* another thread waits to call token.cancel(), or has, and no reset since
  cancelled,  \* the token
  announced,  \* history: devices added and not removed, as the caller saw it
  beat        \* history: flips with every callback

outside == <<present, events, stream>>
vars == <<present, events, stream, channel, feeder, held, pc, unlisted, blind,
          tracked, pending, wanted, cancelled, announced, beat>>

Event == [kind : {"connected", "disconnected"}, dev : Devices]

----------------------------------------------------------------------------
Init ==
  /\ present \in SUBSET Devices
  /\ events = 0
  /\ stream = <<>> /\ channel = <<>>
  /\ feeder = "off" /\ held = <<>>
  /\ pc = "start"
  /\ unlisted = {} /\ blind = FALSE /\ tracked = {} /\ pending = {}
  /\ wanted = FALSE /\ cancelled = FALSE
  /\ announced = {}
  /\ beat = FALSE

----------------------------------------------------------------------------
(* The bus.  Events are recorded once the watcher exists.                  *)

Record(kind, d) ==
  stream' = IF feeder \in {"off", "ended"} THEN stream
            ELSE Append(stream, [kind |-> kind, dev |-> d])

Plug(d) ==
  /\ events < MaxEvents
  /\ d \notin present
  /\ present' = present \union {d}
  /\ events' = events + 1
  /\ Record("connected", d)
  /\ UNCHANGED <<blind, channel, feeder, held, pc, unlisted, tracked, pending, wanted,
                 cancelled, announced, beat>>

Unplug(d) ==
  /\ events < MaxEvents
  /\ d \in present
  /\ present' = present \ {d}
  /\ events' = events + 1
  /\ Record("disconnected", d)
  /\ UNCHANGED <<blind, channel, feeder, held, pc, unlisted, tracked, pending, wanted,
                 cancelled, announced, beat>>

----------------------------------------------------------------------------
(* Another Python thread that stops the watch, or takes the token back.    *)

\* The watching thread holds the GIL except while it lists the devices, while
\* it is inside a Python callback, and when it is not in watch: recv_timeout
\* blocks with the GIL held.
GilFree == pc \in {"start", "list", "initial", "adding", "removing", "returned"}

WantCancel ==
  /\ ~wanted
  /\ wanted' = TRUE
  /\ UNCHANGED <<outside, blind, channel, feeder, held, pc, unlisted, tracked, pending,
                 cancelled, announced, beat>>

Cancel ==
  /\ wanted /\ ~cancelled
  /\ GilFree
  /\ cancelled' = TRUE
  /\ UNCHANGED <<outside, blind, channel, feeder, held, pc, unlisted, tracked, pending,
                 wanted, announced, beat>>

Reset ==
  /\ cancelled
  /\ GilFree
  /\ cancelled' = FALSE
  /\ wanted' = FALSE
  /\ UNCHANGED <<outside, blind, channel, feeder, held, pc, unlisted, tracked, pending,
                 announced, beat>>

----------------------------------------------------------------------------
(* The background thread.                                                  *)

\* Mutation: the receiver outlives the watch.
ReceiverGone_Never == FALSE

\* The channel is closed once the watching thread has left watch.
ReceiverGone == pc = "returned"

FeederPoll ==
  /\ feeder = "polling"
  /\ ~cancelled
  /\ stream # <<>>
  /\ held' = <<Head(stream)>>
  /\ stream' = Tail(stream)
  /\ feeder' = "sending"
  /\ UNCHANGED <<present, events, blind, channel, pc, unlisted, tracked, pending,
                 wanted, cancelled, announced, beat>>

\* send() blocks while the channel is full.
CanSend == Len(channel) < Capacity

FeederSend ==
  /\ feeder = "sending"
  /\ ~ReceiverGone
  /\ CanSend
  /\ channel' = channel \o held
  /\ held' = <<>>
  /\ feeder' = "polling"
  /\ UNCHANGED <<outside, blind, pc, unlisted, tracked, pending, wanted, cancelled, announced, beat>>

FeederEnds ==
  /\ \/ feeder = "polling" /\ cancelled
     \/ feeder = "sending" /\ ReceiverGone
  /\ feeder' = "ended"
  /\ held' = <<>>
  /\ UNCHANGED <<outside, blind, channel, pc, unlisted, tracked, pending, wanted,
                 cancelled, announced, beat>>

\* The watcher's stream ends: the OS stopped reporting.
StreamCloses ==
  /\ feeder = "polling"
  /\ stream = <<>>
  /\ feeder' = "ended"
  /\ UNCHANGED <<outside, blind, channel, held, pc, unlisted, tracked, pending, wanted,
                 cancelled, announced, beat>>

----------------------------------------------------------------------------
(* The watching thread.                                                    *)

WatcherFails ==
  /\ pc = "start"
  /\ pc' = "returned"
  /\ UNCHANGED <<outside, blind, channel, feeder, held, unlisted, tracked, pending,
                 wanted, cancelled, announced, beat>>

\* watch_devices() succeeds, the feeder is spawned, the listing begins.
StartWatcher ==
  /\ pc = "start"
  /\ feeder' = "polling"
  /\ pc' = "list"
  /\ unlisted' = Devices
  /\ UNCHANGED <<outside, blind, channel, held, tracked, pending, wanted, cancelled, announced, beat>>

\* list_devices looks at one device after the other.
ListDevice(d) ==
  /\ pc = "list"
  /\ d \in unlisted
  /\ unlisted' = unlisted \ {d}
  /\ tracked' = IF d \in present \intersect Matching THEN tracked \union {d} ELSE tracked
  /\ UNCHANGED <<outside, blind, channel, feeder, held, pc, pending, wanted, cancelled, announced, beat>>

\* A failed listing counts as an empty one.
ListFails ==
  /\ ListMayFail
  /\ pc = "list"
  /\ unlisted' = {}
  /\ tracked' = {}
  /\ blind' = TRUE
  /\ UNCHANGED <<outside, channel, feeder, held, pc, pending, wanted, cancelled, announced, beat>>

Listed ==
  /\ pc = "list"
  /\ unlisted = {}
  /\ pc' = "initial"
  /\ pending' = tracked
  /\ UNCHANGED <<outside, blind, channel, feeder, held, unlisted, tracked, wanted,
                 cancelled, announced, beat>>

\* on_added for the devices of the initial list, in the map's order.
CallInitial(d) ==
  /\ pc = "initial"
  /\ d \in pending
  /\ pending' = pending \ {d}
  /\ announced' = announced \union {d}
  /\ beat' = ~beat
  /\ \/ pc' = pc
     \/ pc' = "raised"
  /\ UNCHANGED <<outside, blind, channel, feeder, held, unlisted, tracked, wanted, cancelled>>

InitialDone ==
  /\ pc = "initial"
  /\ pending = {}
  /\ pc' = "loop"
  /\ UNCHANGED <<outside, blind, channel, feeder, held, unlisted, tracked, pending,
                 wanted, cancelled, announced, beat>>

CheckToken ==
  /\ pc = "loop"
  /\ pc' = IF cancelled THEN "returned" ELSE "recv"
  /\ UNCHANGED <<outside, blind, channel, feeder, held, unlisted, tracked, pending,
                 wanted, cancelled, announced, beat>>

\* Mutation: no guard against a device that is tracked already.
IsNew_Always(d) == TRUE

\* The Vacant guard on the map entry.
IsNew(d) == d \notin tracked

Accepts(d) == d \in Matching

RecvConnected ==
  /\ pc = "recv" /\ channel # <<>>
  /\ Head(channel).kind = "connected"
  /\ channel' = Tail(channel)
  /\ LET d == Head(channel).dev
     IN  IF Accepts(d) /\ IsNew(d)
           THEN /\ tracked' = tracked \union {d}
                /\ announced' = announced \union {d}
                /\ beat' = ~beat
                /\ pc' = "adding"
           ELSE /\ pc' = "loop"
                /\ UNCHANGED <<tracked, announced, beat>>
  /\ UNCHANGED <<outside, blind, feeder, held, unlisted, pending, wanted, cancelled>>

\* Mutation: a disconnected device stays in the map.
Forget_Not(d) == tracked

Forget(d) == tracked \ {d}

RecvDisconnected ==
  /\ pc = "recv" /\ channel # <<>>
  /\ Head(channel).kind = "disconnected"
  /\ channel' = Tail(channel)
  /\ LET d == Head(channel).dev
     IN  IF d \in tracked
           THEN /\ tracked' = Forget(d)
                /\ announced' = announced \ {d}
                /\ beat' = ~beat
                /\ pc' = "removing"
           ELSE /\ pc' = "loop"
                /\ UNCHANGED <<tracked, announced, beat>>
  /\ UNCHANGED <<outside, blind, feeder, held, unlisted, pending, wanted, cancelled>>

\* on_added or on_removed returns, or raises.
CallbackReturns ==
  /\ pc \in {"adding", "removing"}
  /\ pc' \in {"loop", "raised"}
  /\ UNCHANGED <<outside, blind, channel, feeder, held, unlisted, tracked, pending,
                 wanted, cancelled, announced, beat>>

ReturnException ==
  /\ pc = "raised"
  /\ pc' = "returned"
  /\ UNCHANGED <<outside, blind, channel, feeder, held, unlisted, tracked, pending,
                 wanted, cancelled, announced, beat>>

RecvTimeout ==
  /\ pc = "recv" /\ channel = <<>>
  /\ feeder # "ended"
  /\ pc' = "loop"
  /\ UNCHANGED <<outside, blind, channel, feeder, held, unlisted, tracked, pending,
                 wanted, cancelled, announced, beat>>

\* The feeder is gone and the channel drained: watch returns without error.
RecvClosed ==
  /\ pc = "recv" /\ channel = <<>>
  /\ feeder = "ended"
  /\ pc' = "returned"
  /\ UNCHANGED <<outside, blind, channel, feeder, held, unlisted, tracked, pending,
                 wanted, cancelled, announced, beat>>

----------------------------------------------------------------------------
Feeder == FeederPoll \/ FeederSend \/ FeederEnds

Watcher ==
  \/ WatcherFails \/ StartWatcher
  \/ (\E d \in Devices : ListDevice(d)) \/ ListFails \/ Listed
  \/ (\E d \in Devices : CallInitial(d)) \/ InitialDone
  \/ CheckToken \/ RecvConnected \/ RecvDisconnected
  \/ CallbackReturns \/ ReturnException \/ RecvTimeout \/ RecvClosed

Next ==
  \/ Feeder \/ StreamCloses
  \/ Watcher
  \/ WantCancel \/ Cancel \/ Reset
  \/ \E d \in Devices : Plug(d) \/ Unplug(d)

\* Both threads run, and a thread that waits for the GIL gets it if it is
\* released again and again.  Nobody has to cancel, plug or unplug.
Spec ==
  /\ Init /\ [][Next]_vars
  /\ WF_vars(Feeder) /\ WF_vars(Watcher) /\ SF_vars(Cancel)

----------------------------------------------------------------------------
(* Properties.                                                             *)

TypeOK ==
  /\ present \subseteq Devices
  /\ events \in 0..MaxEvents
  /\ stream \in Seq(Event)
  /\ channel \in Seq(Event) /\ Len(channel) <= Capacity
  /\ feeder \in {"off", "polling", "sending", "ended"}
  /\ held \in Seq(Event) /\ Len(held) <= 1
  /\ pc \in {"start", "list", "initial", "loop", "recv", "adding", "removing",
             "raised", "returned"}
  /\ unlisted \subseteq Devices
  /\ blind \in BOOLEAN
  /\ tracked \subseteq Matching
  /\ pending \subseteq tracked
  /\ wanted \in BOOLEAN
  /\ cancelled \in BOOLEAN
  /\ announced \subseteq Devices
  /\ beat \in BOOLEAN

InTransit == channel \o held \o stream

\* The position of the last event about a device, if there is one.
LastAbout(d, queue) ==
  {i \in DOMAIN queue : queue[i].dev = d /\ \A j \in i + 1 .. Len(queue) : queue[j].dev # d}

\* "Calls on_added immediately for all currently-connected matching devices"
\* (usb/mod.rs:238), and whatever happens between starting the watcher, taking
\* the list and now: for every matching device, the last event still in
\* transit says whether it is connected, and without one the map is right.
\* Neither the race of the list with the watcher nor the two queues lose or
\* invent a device.  A list that failed loses all of them.
MapCatchesUp ==
  /\ pc \in {"initial", "loop", "recv", "adding", "removing"}
  /\ feeder # "ended" /\ ~blind
  =>
  \A d \in Matching :
    /\ \A i \in LastAbout(d, InTransit) :
         d \in present <=> InTransit[i].kind = "connected"
    /\ (\A i \in DOMAIN InTransit : InTransit[i].dev # d) =>
         (d \in present <=> d \in tracked)

\* When the bus falls silent, the caller's picture becomes the truth, unless
\* the watch ends, the list failed or the OS closes the stream.
PictureConverges ==
  \A d \in Matching :
    /\ <>[](d \in present /\ feeder # "ended" /\ ~blind)
         => <>[](d \in announced \/ pc = "returned")
    /\ <>[](d \notin present /\ feeder # "ended")
         => <>[](d \notin announced \/ pc = "returned")

\* Once the token is set and stays set, the watch returns and its thread ends,
\* the feeder blocked on a full channel included.
CancelEndsBothThreads ==
  <>[]cancelled => <>[](pc = "returned" /\ feeder \in {"off", "ended"})

\* Each thread looks at the token by itself (usb/mod.rs:287, 335), and a reset
\* may come between the two looks: a watch whose feeder is gone returns all the
\* same, and a feeder whose watch is gone, also by an exception of a callback,
\* ends with the next event of the bus.
NeitherThreadIsOrphaned ==
  /\ feeder = "ended" ~> pc = "returned"
  /\ pc = "returned" /\ feeder # "off" /\ stream # <<>> ~> feeder = "ended"

\* "Stop from any thread. token.cancel()" (README.md:154): a thread that
\* calls cancel(), and does not reset the token, gets the watch to return.
CancelFromAnyThread == wanted ~> (pc = "returned" \/ ~wanted)

\* Through its callbacks the watch keeps WatchContract.
Contract == INSTANCE WatchContract WITH known <- announced, over <- pc = "returned"
KeepsContract == Contract!Spec
=============================================================================
