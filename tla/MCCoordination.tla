---------------------------- MODULE MCCoordination ----------------------------
(***************************************************************************)
(* The coordination primitives side by side: every behaviour is one of a   *)
(* single primitive, named by focus, beside idle ones.  A channel and a    *)
(* stream run on the variables of the queue, and a subscription ref on     *)
(* those of the hub.                                                       *)
(***************************************************************************)
EXTENDS Channel, StreamChannel, SubscriptionRef, Signals, TLC

CONSTANTS a1, a2, a3, pr1, pr2, co1, co2, m1, m2, m0, pu1, pu2

VARIABLE focus

vars == <<focus, qvars, chown, stown, psvars, srown, sgvars>>

MCOffers == pr1 :> <<a1, a2>> @@ pr2 :> <<a3>>
MCDemands == co1 :> {<<1, 3>>, <<2, 2>>} @@ co2 :> {<<1, 1>>}
MCFan == a1 :> 2 @@ a2 :> 0 @@ a3 :> 1
MCReads == co1 :> 2 @@ co2 :> 1
MCChunks == <<<<a1, a2>>, <<a3>>>>
MCMessages == pu1 :> <<m1>> @@ pu2 :> <<m2>>

QueueIdle == QueueInit /\ qkind = "unbounded"
ChannelIdle == ChannelStart /\ chmode = "queue"
StreamIdle == /\ stpolicy = "Fail" /\ ststate = "exhausted"
              /\ stbuf = <<>> /\ stgot = <<>> /\ sterrs = <<>>
PubSubIdle == PubSubInit /\ psmode = "unbounded"
SignalIdle == SignalInit /\ sgkind = "latch"

MCInit ==
  \/ focus = "queue"   /\ QueueInit   /\ ChannelIdle /\ StreamIdle /\ PubSubIdle /\ SubRefStart /\ SignalIdle
  \/ focus = "channel" /\ ChannelInit /\ StreamIdle  /\ PubSubIdle /\ SubRefStart /\ SignalIdle
  \/ focus = "stream"  /\ StreamInit  /\ ChannelIdle /\ PubSubIdle /\ SubRefStart /\ SignalIdle
  \/ focus = "pubsub"  /\ PubSubInit  /\ SubRefStart /\ QueueIdle  /\ ChannelIdle /\ StreamIdle /\ SignalIdle
  \/ focus = "subref"  /\ SubRefInit  /\ QueueIdle   /\ ChannelIdle /\ StreamIdle /\ SignalIdle
  \/ focus = "signal"  /\ SignalInit  /\ QueueIdle   /\ ChannelIdle /\ StreamIdle /\ PubSubIdle /\ SubRefStart

MCNext ==
  /\ UNCHANGED focus
  /\ \/ focus = "queue"   /\ QueueNext   /\ UNCHANGED <<chown, stown, psvars, srown, sgvars>>
     \/ focus = "channel" /\ ChannelNext /\ UNCHANGED <<stown, psvars, srown, sgvars>>
     \/ focus = "stream"  /\ StreamNext  /\ UNCHANGED <<chown, psvars, srown, sgvars>>
     \/ focus = "pubsub"  /\ PubSubNext  /\ UNCHANGED <<qvars, chown, stown, srown, sgvars>>
     \/ focus = "subref"  /\ SubRefNext  /\ UNCHANGED <<qvars, chown, stown, sgvars>>
     \/ focus = "signal"  /\ SignalNext  /\ UNCHANGED <<qvars, chown, stown, psvars, srown>>

OverQueue == {"queue", "channel"}
OverHub == {"pubsub", "subref"}

\* The fairness of the primitive that runs; the idle ones have nothing to do.
MCFairness ==
  /\ \A p \in QProducers : /\ WF_qvars(focus \in OverQueue /\ QProduce(p))
                           /\ WF_stvars(focus = "stream" /\ StSending(p))
  /\ \A c \in QConsumers : WF_qvars(focus \in OverQueue /\ QConsume(c))
  /\ WF_qvars(focus \in OverQueue /\ QShutdownNotify)
  /\ WF_stvars(focus = "stream" /\ StPoll)
  /\ \A s \in PsSubs : /\ WF_psvars(focus \in OverHub /\ PsForwarder(s))
                       /\ WF_psvars(focus \in OverHub /\ PsSubscribing(s))
                       /\ WF_psvars(focus \in OverHub /\ PsClosing(s))
  /\ \A t \in SgSetters : WF_sgvars(focus = "signal" /\ SgNotify(t))
  /\ \A w \in SgWaiters : WF_sgvars(focus = "signal" /\ SgWaiting(w))

MCSpec == MCInit /\ [][MCNext]_vars /\ MCFairness

\* ChannelInv, where the queue is used by a channel (channel.rs, read and write).
ChannelOk == focus = "channel" => ChannelInv

\* StreamInv, where the queue is used by a stream (stream.rs, the Channel state).
StreamOk == focus = "stream" => StreamInv

\* PubSubInv, where only forwarders write to the subscribers' queues (pubsub.rs), and
\* SubRefInv, where subscriptions to a reference do, too (subscription_ref.rs).
HubOk == (focus = "pubsub" => PubSubInv) /\ (focus = "subref" => SubRefInv)
==============================================================================
