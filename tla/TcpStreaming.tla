---------------------------- MODULE TcpStreaming ----------------------------
(***************************************************************************)
(* How TcpDiscovery of src/tcp/mod.rs is called.  discover runs            *)
(* run_discovery on the calling thread, with the GIL released.             *)
(* discover_streaming runs it on a thread of its own, which passes every   *)
(* match to a bounded channel with try_send; the calling Python thread,    *)
(* holding the GIL, drains the channel into the callback.                  *)
(***************************************************************************)
EXTENDS TcpDiscovery

CONSTANTS
  ChannelCapacity,  \* of the sync_channel (256 in the code)
  MayRaise          \* whether the callback may raise

ASSUME StreamingAssumption ==
  /\ ChannelCapacity \in Nat \ {0}
  /\ MayRaise \in BOOLEAN

VARIABLES
  channel,   \* matches sent and not received
  consumer,  \* the calling thread: "waiting" in discover, which ends "discovered";
             \* "receiving" or "calling" in discover_streaming, which ends "returned"
  dropped,   \* history, of a call that lasts: the matches sent that met a full channel
  called     \* history, of a call that lasts: what the callback was called with

streamVars == <<channel, consumer, dropped, called>>

StreamInit ==
  /\ Init
  /\ channel = <<>>
  /\ consumer \in {"waiting", "receiving"}
  /\ dropped = {}
  /\ called = <<>>

----------------------------------------------------------------------------
(* The discovery thread.                                                   *)

ReceiverAlive == consumer \in {"receiving", "calling"}

\* Mutation: a match of the sweep is sent again by the caller of run_batch.
AfterTrySend_Twice(m) == channel \o <<m, m>>

\* try_send: a match that finds the channel full, or the receiver gone, is
\* dropped.
AfterTrySend(m) ==
  IF ReceiverAlive /\ Len(channel) < ChannelCapacity THEN Append(channel, m)
                                                     ELSE channel

PassOnAndSend ==
  /\ PassOn
  /\ channel' = AfterTrySend(Head(found))
  /\ dropped' = IF ReceiverAlive /\ channel' = channel
                  THEN dropped \union {Len(Sent) + 1} ELSE dropped
  /\ UNCHANGED <<consumer, called>>

DiscoveryThread == (Discovery /\ UNCHANGED streamVars) \/ PassOnAndSend

----------------------------------------------------------------------------
(* The calling thread.                                                     *)

Receive ==
  /\ consumer = "receiving"
  /\ channel # <<>>
  /\ consumer' = "calling"
  /\ called' = Append(called, Head(channel))
  /\ channel' = Tail(channel)
  /\ UNCHANGED <<dropped, vars>>

CallbackReturns ==
  /\ consumer = "calling"
  /\ consumer' = "receiving"
  /\ UNCHANGED <<channel, dropped, called, vars>>

\* The exception leaves discover_streaming at once; the receiver is dropped
\* and the discovery thread runs on, detached.
CallbackRaises ==
  /\ MayRaise
  /\ consumer = "calling"
  /\ consumer' = "raised"
  /\ channel' = <<>> /\ dropped' = {} /\ called' = <<>>
  /\ UNCHANGED vars

\* Mutation: the loop ends when the channel is empty for a moment.
StreamOver_WhenEmpty == channel = <<>>

\* Mutation: the caller keeps a sender alive while it iterates.
StreamOver_SenderKept == FALSE

\* The iterator over the receiver ends when the sender is dropped, with the
\* discovery, and the channel is empty.
StreamOver == pc \in Ended /\ channel = <<>>

\* join()?? passes the discovery's error on.
JoinAndReturn ==
  /\ consumer = "receiving"
  /\ StreamOver
  /\ consumer' = IF pc = "failed" THEN "raised" ELSE "returned"
  /\ UNCHANGED <<channel, dropped, called, vars>>

DiscoverReturns ==
  /\ consumer = "waiting"
  /\ pc \in Ended
  /\ consumer' = IF pc = "failed" THEN "raised" ELSE "discovered"
  /\ UNCHANGED <<channel, dropped, called, vars>>

\* Another Python thread runs only while discover waits, inside the callback
\* or after the call.
GilFree == consumer # "receiving"

UserStep ==
  /\ GilFree
  /\ Cancel \/ Reset
  /\ UNCHANGED streamVars

----------------------------------------------------------------------------
Consumer ==
  Receive \/ CallbackReturns \/ CallbackRaises \/ JoinAndReturn \/ DiscoverReturns

StreamNext == DiscoveryThread \/ Consumer \/ UserStep

\* The discovery's timeouts run out, and every callback returns or raises.
StreamSpec ==
  /\ StreamInit
  /\ [][StreamNext]_<<vars, streamVars>>
  /\ WF_<<vars, streamVars>>(DiscoveryThread)
  /\ WF_<<vars, streamVars>>(Consumer)

----------------------------------------------------------------------------
(* Properties.                                                             *)

TypeOK ==
  /\ DiscoveryTypes
  /\ channel \in Seq(open) /\ Len(channel) <= ChannelCapacity
  /\ consumer \in {"waiting", "discovered", "receiving", "calling", "returned", "raised"}
  /\ dropped \subseteq DOMAIN Sent
  /\ called \in Seq(open)

\* Where a list without the positions gone has the i-th element of the whole.
PlaceOf(i, gone) == i - Cardinality({j \in gone : j < i})

\* The list is the whole without the elements at the positions gone: the others
\* in their order, each once.
IsWithout(list, whole, gone) ==
  /\ Len(list) + Cardinality(gone) = Len(whole)
  /\ \A i \in DOMAIN whole \ gone :
       PlaceOf(i, gone) \in DOMAIN list /\ list[PlaceOf(i, gone)] = whole[i]

\* While the call lasts, what the callback has seen and the channel holds is
\* what the discovery sent, in that order and each once, except what met a full
\* channel.
StreamedOnce == ReceiverAlive => IsWithout(called \o channel, Sent, dropped)

\* "Run discovery and call callback(match) for every device found"
\* (tcp/mod.rs:230): when the call returns, the callback has seen every match
\* of every phase, in order, but those that met a full channel, which the
\* discovery never waits for; a failed discovery does not return.
MatchesCalledBack ==
  consumer = "returned" =>
    /\ IsWithout(called, Sent, dropped)
    /\ ToSet(all) = ToSet(called) \union {Sent[i] : i \in dropped}

\* The call returns, with the discovery's end or the callback's exception; and
\* the discovery ends whatever the callback does: it never waits for the
\* channel and needs no GIL.
CallAndSweepEnd == <>(consumer \in {"discovered", "returned", "raised"}) /\ <>(pc \in Ended)
=============================================================================
