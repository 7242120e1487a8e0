--------------------------- MODULE SerialStreaming ---------------------------
(***************************************************************************)
(* How SerialDiscovery of src/serial/mod.rs is called.  discover and       *)
(* discover_async run run_discovery without a channel.  discover_streaming *)
(* runs it on a thread of its own; run_discovery passes the preferred      *)
(* port's match, and sweep_all_ports each match it joins, to a bounded     *)
(* channel with try_send, and the calling Python thread, holding the GIL,  *)
(* drains the channel into the callback and returns what it received.      *)
(*                                                                         *)
(* Bound: the next call waits for the discovery thread of the one before,  *)
(* which a callback that raises leaves behind.                             *)
(***************************************************************************)
EXTENDS SerialDiscovery

CONSTANTS
  ChannelCapacity,  \* of the sync_channel (64 in the code)
  MayRaise          \* whether the callback may raise

ASSUME SerialStreamingAssumption ==
  /\ ChannelCapacity \in Nat \ {0}
  /\ MayRaise \in BOOLEAN

VARIABLES
  channel,  \* matches sent and not received
  caller,   \* "idle"; "waiting" in discover or discover_async, which end "discovered";
            \* "receiving" or "calling" in discover_streaming, which ends "returned"
  dropped,  \* history, of a call that lasts: the matches that met a full channel
  called    \* what the callback was called with, and discover_streaming collects

streamVars == <<channel, caller, dropped, called>>

StreamInit ==
  /\ Init
  /\ caller = "idle"
  /\ channel = <<>> /\ dropped = {} /\ called = <<>>

CallOver == caller \in {"idle", "discovered", "returned", "raised"}
ReceiverAlive == caller \in {"receiving", "calling"}

----------------------------------------------------------------------------
(* The discovery.                                                          *)

\* try_send: a match that finds the channel full, or the receiver gone, is lost.
TrySend(m) ==
  /\ IF ReceiverAlive /\ Len(channel) < ChannelCapacity
       THEN channel' = Append(channel, m) /\ UNCHANGED dropped
       ELSE /\ dropped' = IF ReceiverAlive THEN dropped \union {m} ELSE dropped
            /\ UNCHANGED channel
  /\ UNCHANGED <<caller, called>>

\* Mutation: the fast path returns its match without sending it.
PreferredSends_Silent == PreferredAnswers /\ UNCHANGED streamVars

\* run_discovery sends the match of the preferred port before it returns it.
PreferredSends == PreferredAnswers /\ TrySend(Preferred)

\* sweep_all_ports sends a match before it collects it.
JoinSends(p) ==
  /\ JoinTask(p)
  /\ IF task[p] = "match" THEN TrySend(p) ELSE UNCHANGED streamVars

DiscoveryThread ==
  \/ DiscoveryControl /\ UNCHANGED streamVars
  \/ PreferredSends
  \/ \E p \in Ports : JoinSends(p)

----------------------------------------------------------------------------
(* The calling thread.                                                     *)

StartCall ==
  /\ CallOver
  /\ StartPass
  /\ caller' \in {"waiting", "receiving"}
  /\ channel' = <<>> /\ dropped' = {} /\ called' = <<>>

Receive ==
  /\ caller = "receiving"
  /\ channel # <<>>
  /\ caller' = "calling"
  /\ called' = Append(called, Head(channel))
  /\ channel' = Tail(channel)
  /\ UNCHANGED <<dropped, vars>>

CallbackReturns ==
  /\ caller = "calling"
  /\ caller' = "receiving"
  /\ UNCHANGED <<channel, dropped, called, vars>>

\* The exception leaves discover_streaming at once; the receiver is dropped and
\* the discovery thread runs on, detached.
CallbackRaises ==
  /\ MayRaise
  /\ caller = "calling"
  /\ caller' = "raised"
  /\ channel' = <<>> /\ dropped' = {} /\ called' = <<>>
  /\ UNCHANGED vars

\* The iterator over the receiver ends when the discovery has dropped the sender
\* and the channel is empty.
StreamOver == pc \in Ended /\ channel = <<>>

\* join()?? passes the error of the discovery on.
JoinAndReturn ==
  /\ caller = "receiving"
  /\ StreamOver
  /\ caller' = IF pc = "failed" THEN "raised" ELSE "returned"
  /\ UNCHANGED <<channel, dropped, called, vars>>

DiscoverReturns ==
  /\ caller = "waiting"
  /\ pc \in Ended
  /\ caller' = IF pc = "failed" THEN "raised" ELSE "discovered"
  /\ UNCHANGED <<channel, dropped, called, vars>>

\* Only a coroutine of discover_async can be abandoned.
AbandonCall ==
  /\ caller = "waiting"
  /\ Abandon
  /\ caller' = "raised"
  /\ UNCHANGED <<channel, dropped, called>>

\* Another Python thread runs only while discover waits, inside the callback or
\* between two calls.
GilFree == caller # "receiving"

UserStep ==
  /\ GilFree
  /\ Cancel \/ Reset
  /\ UNCHANGED streamVars

----------------------------------------------------------------------------
Consumer ==
  Receive \/ CallbackReturns \/ CallbackRaises \/ JoinAndReturn \/ DiscoverReturns

StreamNext ==
  \/ DiscoveryThread \/ Consumer
  \/ StartCall \/ AbandonCall \/ UserStep
  \/ (\E p \in Ports : LeftoverEnds(p)) /\ UNCHANGED streamVars

\* The threads of the discovery run, and every callback returns or raises.
StreamSpec ==
  /\ StreamInit
  /\ [][StreamNext]_<<vars, streamVars>>
  /\ WF_<<vars, streamVars>>(DiscoveryThread)
  /\ WF_<<vars, streamVars>>(Consumer)

----------------------------------------------------------------------------
(* Properties.                                                             *)

\* Any two elements of the list come in that order in the whole.
InOrder(list, whole) ==
  \A i, j \in DOMAIN list :
    i < j => \E k, l \in DOMAIN whole : k < l /\ list[i] = whole[k] /\ list[j] = whole[l]

\* "Run discovery and call callback(match) for each device found"
\* (serial/mod.rs:172): a probing pass that discover_streaming returns from has
\* called back every match, of the preferred port or of the sweep, once and in
\* the order of its result, but those that met a full channel, which takes more
\* matches than the channel holds.  Of a list-only pass the sentence does not
\* hold: it is given no channel (serial/mod.rs:316-318), and no port that it
\* lists is called back.
ProbedCalledBack ==
  caller = "returned" /\ mode = "probe" =>
    /\ ToSet(called) \union dropped = ToSet(result)
    /\ ToSet(called) \intersect dropped = {}
    /\ IsInjective(called) /\ InOrder(called, result)
    /\ dropped # {} => Len(result) > ChannelCapacity

\* Every pass ends, even with a port whose probe never ends, and whatever the
\* callback does, also as a thread that a callback which raised has left behind;
\* and every call ends, with the pass or with the exception: the caller holds the
\* GIL, but the discovery thread never waits for it or for the channel, which is
\* closed with the pass.  Only a preferred port that takes no bytes holds both,
\* since that probe, unlike those of the sweep, has no budget around it.
CallAndPassEnd ==
  LET held == pc = "preferred" /\ behaviour[Preferred] = "stalled"
  IN  /\ (pc \notin Ended) ~> (pc \in Ended \/ held)
      /\ ~CallOver ~> (CallOver \/ held)
=============================================================================
