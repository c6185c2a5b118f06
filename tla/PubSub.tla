------------------------------- MODULE PubSub -------------------------------
(***************************************************************************)
(* coordination/pubsub.rs: a hub over a tokio broadcast ring (external),   *)
(* with one forwarding task per subscription that moves messages from the  *)
(* ring into the subscriber's unbounded queue, and the finalizer that      *)
(* aborts it when the subscriber's scope closes; and Stream::broadcast of  *)
(* streaming/stream.rs, whose pump publishes a stream, shuts the hub down  *)
(* and closes the scopes of all branches.                                  *)
(*                                                                         *)
(* The queues are sequences here: Queue.tla is about them.  A scope is     *)
(* open or closed: Scope.tla is about scopes.                              *)
(***************************************************************************)
EXTENDS Naturals, Sequences, FiniteSets, FiniteSetsExt, SequencesExt

CONSTANTS PsModes,       \* subset of the PubSubMode variants and "broadcast"
          PsCapacity,
          PsRing,        \* the ring of tokio: the next power of two
          PsSubs,        \* subscribers, each with a scope of its own
          PsPublishers,
          PsMessages,    \* bound: PsMessages[p]: what p publishes, in order
          PsClosable     \* bound: the subscribers whose scope the program closes

ASSUME PubSubAssumption ==
  /\ PsModes \subseteq {"bounded", "dropping", "sliding", "unbounded", "broadcast"}
  /\ PsCapacity \in Nat \ {0} /\ PsRing \in Nat /\ PsCapacity <= PsRing
  /\ IsFiniteSet(PsSubs) /\ PsClosable \subseteq PsSubs
  /\ PsMessages = [p \in PsPublishers |-> PsMessages[p]]
  /\ \A p \in PsPublishers : /\ PsMessages[p] \in Seq(Range(PsMessages[p]))
                             /\ IsInjective(PsMessages[p])
  /\ \A p, r \in PsPublishers : p # r => Range(PsMessages[p]) \cap Range(PsMessages[r]) = {}

VARIABLES psmode,    \* "broadcast" is a sliding hub with a pump
          pslog,     \* every message that was sent, in order
          pstx,      \* tx is Some
          pspump,    \* broadcast: how far the pump has got
          pstodo,    \* pstodo[p]: what p has not published yet
          psleft,    \* the messages whose publish returned false
          psat,      \* psat[s]: how far the call of subscribe has got
          psnext,    \* psnext[s]: the place in pslog that the receiver reads next
          psfwd,     \* psfwd[s]: where the forwarding task is
          psheld,    \* psheld[s]: the message it has received and not offered
          psabort,   \* psabort[s]: the task has been aborted
          psscope,   \* psscope[s]: the scope: "open", "closing", "queue" or "closed"
          psfin,     \* psfin[s]: the scope holds the finalizer
          psq,       \* psq[s]: all messages that entered the queue of s
          psqopen,   \* psqopen[s]: that queue is open
          psstart,   \* observer: psstart[s]: the first message s can receive
          pslagged   \* observer: subscribers whose receiver has lagged

pshub == <<psmode, pslog, pstx, pspump, pstodo, psleft>>
pssub == <<psat, psnext, psfwd, psheld, psabort, psscope, psfin, psq, psqopen, psstart,
           pslagged>>
psvars == <<pshub, pssub>>

PsValues == UNION {Range(PsMessages[p]) : p \in PsPublishers}

PubSubTypeOK ==
  /\ psmode \in PsModes
  /\ pslog \in Seq(PsValues)
  /\ pstx \in BOOLEAN
  /\ pspump \in {"none", "publish", "close", "done"}
  /\ pstodo \in [PsPublishers -> Seq(PsValues)]
  /\ psleft \subseteq PsValues
  /\ psat \in [PsSubs -> {"no", "receiver", "spawned", "yes"}]
  /\ psnext \in [PsSubs -> Nat]
  /\ psfwd \in [PsSubs -> {"none", "recv", "offer", "shut", "ended"}]
  /\ psheld \in [PsSubs -> Seq(PsValues)]
  /\ psabort \in [PsSubs -> BOOLEAN]
  /\ psscope \in [PsSubs -> {"open", "closing", "queue", "closed"}]
  /\ psfin \in [PsSubs -> BOOLEAN]
  /\ psq \in [PsSubs -> Seq(PsValues)]
  /\ psqopen \in [PsSubs -> BOOLEAN]
  /\ pslagged \subseteq PsSubs

PubSubInit ==
  /\ psmode \in PsModes
  /\ pslog = <<>> /\ pstx = TRUE /\ psleft = {}
  /\ pspump = IF psmode = "broadcast" THEN "publish" ELSE "none"
  /\ pstodo = PsMessages
  /\ psat = [s \in PsSubs |-> "no"]
  /\ psnext = [s \in PsSubs |-> 0] /\ psstart = psnext
  /\ psfwd = [s \in PsSubs |-> "none"]
  /\ psheld = [s \in PsSubs |-> <<>>]
  /\ psabort = [s \in PsSubs |-> FALSE]
  /\ psscope = [s \in PsSubs |-> "open"]
  /\ psfin = [s \in PsSubs |-> FALSE]
  /\ psq = [s \in PsSubs |-> <<>>]
  /\ psqopen = [s \in PsSubs |-> TRUE]
  /\ pslagged = {}

(***************************************************************************)
(* The broadcast ring.                                                     *)
(***************************************************************************)

\* The subscribers whose broadcast receiver exists.
PsAlive == {s \in PsSubs : psnext[s] > 0 /\ psfwd[s] \notin {"shut", "ended"}}

\* How many messages the receiver of s has not seen.
PsLag(s) == Len(pslog) + 1 - psnext[s]

\* The ring of an unbounded hub has UNBOUNDED_CAP places, more than the program
\* has messages.
PsPlaces == IF psmode = "unbounded" THEN Len(pslog) + 1 ELSE PsRing

\* Sender::len: messages that some receiver has still to see, at most the ring.
PsLen == LET longest == Max({PsLag(s) : s \in PsAlive} \cup {0})
         IN  IF longest > PsPlaces THEN PsPlaces ELSE longest

(***************************************************************************)
(* publish, publish_all, shutdown.                                         *)
(***************************************************************************)

\* Bounded and dropping hubs refuse when the ring holds capacity messages.
PsRoom == psmode \in {"bounded", "dropping"} => PsLen < PsCapacity

\* Under the mutex of tx.  send fails if there is no receiver.
Publish(p) ==
  /\ pstodo[p] # <<>>
  /\ psmode = "broadcast" => \A s \in PsSubs : psat[s] = "yes"
  /\ IF pstx /\ PsRoom /\ PsAlive # {}
     THEN pslog' = Append(pslog, Head(pstodo[p])) /\ UNCHANGED psleft
     ELSE psleft' = psleft \cup {Head(pstodo[p])} /\ UNCHANGED pslog
  /\ pstodo' = [pstodo EXCEPT ![p] = Tail(@)]
  /\ UNCHANGED <<psmode, pstx, pspump, pssub>>

PsShutdown == /\ psmode # "broadcast" /\ pstx
              /\ pstx' = FALSE
              /\ UNCHANGED <<psmode, pslog, pspump, pstodo, psleft, pssub>>

(***************************************************************************)
(* subscribe.                                                              *)
(***************************************************************************)

\* tx.subscribe(), or a queue that is shut down at once.
PsSubscribe(s) ==
  /\ psat[s] = "no"
  /\ IF pstx
     THEN /\ psat' = [psat EXCEPT ![s] = "receiver"]
          /\ psnext' = [psnext EXCEPT ![s] = Len(pslog) + 1]
          /\ UNCHANGED psqopen
     ELSE /\ psat' = [psat EXCEPT ![s] = "yes"]
          /\ psqopen' = [psqopen EXCEPT ![s] = FALSE]
          /\ UNCHANGED psnext
  /\ psstart' = [psstart EXCEPT ![s] = Len(pslog) + 1]
  /\ UNCHANGED <<pshub, psfwd, psheld, psabort, psscope, psfin, psq, pslagged>>

\* tokio::spawn
PsSpawn(s) == /\ psat[s] = "receiver"
              /\ psat' = [psat EXCEPT ![s] = "spawned"]
              /\ psfwd' = [psfwd EXCEPT ![s] = "recv"]
              /\ UNCHANGED <<pshub, psnext, psheld, psabort, psscope, psfin, psq, psqopen,
                             psstart, pslagged>>

\* A closed scope refuses the finalizer, which subscribe does not look at.
PsAddFinalizer(s) == /\ psat[s] = "spawned"
                     /\ psat' = [psat EXCEPT ![s] = "yes"]
                     /\ psfin' = [psfin EXCEPT ![s] = psscope[s] = "open"]
                     /\ UNCHANGED <<pshub, psnext, psfwd, psheld, psabort, psscope, psq,
                                    psqopen, psstart, pslagged>>

(***************************************************************************)
(* The forwarding task.                                                    *)
(***************************************************************************)

\* Lagged: the receiver goes on with the oldest message in the ring.
PsLagged(s) == /\ psfwd[s] = "recv" /\ PsLag(s) > PsPlaces
               /\ psnext' = [psnext EXCEPT ![s] = Len(pslog) - PsPlaces + 1]
               /\ pslagged' = pslagged \cup {s}
               /\ UNCHANGED <<pshub, psat, psfwd, psheld, psabort, psscope, psfin, psq, psqopen,
                              psstart>>

PsRecv(s) == /\ psfwd[s] = "recv" /\ PsLag(s) \in 1..PsPlaces
             /\ psheld' = [psheld EXCEPT ![s] = <<pslog[psnext[s]]>>]
             /\ psnext' = [psnext EXCEPT ![s] = @ + 1]
             /\ psfwd' = [psfwd EXCEPT ![s] = "offer"]
             /\ UNCHANGED <<pshub, psat, psabort, psscope, psfin, psq, psqopen, psstart, pslagged>>

PsForward(s) == /\ psfwd[s] = "offer"
                /\ psq' = [psq EXCEPT ![s] = IF psqopen[s] THEN @ \o psheld[s] ELSE @]
                /\ psheld' = [psheld EXCEPT ![s] = <<>>]
                /\ psfwd' = [psfwd EXCEPT ![s] = "recv"]
                /\ UNCHANGED <<pshub, psat, psnext, psabort, psscope, psfin, psqopen, psstart,
                               pslagged>>

\* Faulty variant: the task stops as soon as the hub is shut down.
PsClosedEarly(s) ==
  /\ psfwd[s] = "recv" /\ ~pstx
  /\ psfwd' = [psfwd EXCEPT ![s] = "shut"]
  /\ UNCHANGED <<pshub, psat, psnext, psheld, psabort, psscope, psfin, psq, psqopen, psstart,
                 pslagged>>

\* Closed: the hub is shut down and everything has been seen.
PsClosed(s) == /\ psfwd[s] = "recv" /\ PsLag(s) = 0 /\ ~pstx
               /\ psfwd' = [psfwd EXCEPT ![s] = "shut"]
               /\ UNCHANGED <<pshub, psat, psnext, psheld, psabort, psscope, psfin, psq, psqopen,
                              psstart, pslagged>>

\* q.shutdown() behind the loop.
PsShutQueue(s) == /\ psfwd[s] = "shut"
                  /\ psqopen' = [psqopen EXCEPT ![s] = FALSE]
                  /\ psfwd' = [psfwd EXCEPT ![s] = "ended"]
                  /\ UNCHANGED <<pshub, psat, psnext, psheld, psabort, psscope, psfin, psq,
                                 psstart, pslagged>>

\* An aborted task ends when it next waits; a poll that is under way may go on
\* with messages that are already there.
PsAborted(s) == /\ psfwd[s] = "recv" /\ psabort[s]
                /\ psfwd' = [psfwd EXCEPT ![s] = "ended"]
                /\ UNCHANGED <<pshub, psat, psnext, psheld, psabort, psscope, psfin, psq, psqopen,
                               psstart, pslagged>>

(***************************************************************************)
(* Closing a scope runs its finalizer: abort, then shut the queue.         *)
(***************************************************************************)

PsCloseScope(s) == /\ psscope[s] = "open"
                   /\ IF psmode = "broadcast" THEN pspump = "close" ELSE s \in PsClosable
                   /\ psscope' = [psscope EXCEPT ![s] = IF psfin[s] THEN "closing" ELSE "closed"]
                   /\ UNCHANGED <<pshub, psat, psnext, psfwd, psheld, psabort, psfin, psq,
                                  psqopen, psstart, pslagged>>

\* Faulty variant: the queue is shut and the task goes on.
PsAbortSkipped(s) == /\ psscope[s] = "closing"
                     /\ psscope' = [psscope EXCEPT ![s] = "queue"]
                     /\ UNCHANGED <<pshub, psat, psnext, psfwd, psheld, psabort, psfin, psq,
                                    psqopen, psstart, pslagged>>

PsAbort(s) == /\ psscope[s] = "closing"
              /\ psabort' = [psabort EXCEPT ![s] = TRUE]
              /\ psscope' = [psscope EXCEPT ![s] = "queue"]
              /\ UNCHANGED <<pshub, psat, psnext, psfwd, psheld, psfin, psq, psqopen, psstart,
                             pslagged>>

PsFinShut(s) == /\ psscope[s] = "queue"
                /\ psqopen' = [psqopen EXCEPT ![s] = FALSE]
                /\ psscope' = [psscope EXCEPT ![s] = "closed"]
                /\ UNCHANGED <<pshub, psat, psnext, psfwd, psheld, psabort, psfin, psq, psstart,
                               pslagged>>

\* The end of the pump: shutdown of the hub, then hub.close().
PsPumpEnd == /\ pspump = "publish" /\ \A p \in PsPublishers : pstodo[p] = <<>>
             /\ pstx' = FALSE
             /\ pspump' = "close"
             /\ UNCHANGED <<psmode, pslog, pstodo, psleft, pssub>>

PsPumpDone == /\ pspump = "close" /\ \A s \in PsSubs : psscope[s] = "closed"
              /\ pspump' = "done"
              /\ UNCHANGED <<psmode, pslog, pstx, pstodo, psleft, pssub>>

(***************************************************************************)
(* The specification.                                                      *)
(***************************************************************************)

PsForwarder(s) == \/ PsLagged(s) \/ PsRecv(s) \/ PsForward(s) \/ PsClosed(s)
                  \/ PsShutQueue(s) \/ PsAborted(s)
PsSubscribing(s) == PsSpawn(s) \/ PsAddFinalizer(s)
PsClosing(s) == PsAbort(s) \/ PsFinShut(s)

PubSubNext ==
  \/ \E p \in PsPublishers : Publish(p)
  \/ \E s \in PsSubs : \/ PsSubscribe(s) \/ PsSubscribing(s) \/ PsForwarder(s)
                       \/ PsCloseScope(s) \/ PsClosing(s)
  \/ PsShutdown \/ PsPumpEnd \/ PsPumpDone

\* Calls that have begun go on and the runtime polls the forwarding tasks.
PubSubFairness == \A s \in PsSubs : /\ WF_psvars(PsForwarder(s))
                                    /\ WF_psvars(PsSubscribing(s))
                                    /\ WF_psvars(PsClosing(s))

PubSubSpec == PubSubInit /\ [][PubSubNext]_psvars /\ PubSubFairness

(***************************************************************************)
(* Properties.                                                             *)
(***************************************************************************)

\* What s has been given or is about to be given.
PsSeen(s) == psq[s] \o psheld[s]

\* A subscriber is given the messages sent after it subscribed, in order and
\* without a gap, as long as its queue is open and its receiver has not lagged.
SubscribersSeeAll ==
  \A s \in PsSubs : psnext[s] > 0 /\ psqopen[s] /\ s \notin pslagged =>
     PsSeen(s) = SubSeq(pslog, psstart[s], psnext[s] - 1)

\* With gaps or without: the order of the hub is kept and nothing comes twice.
SubscribersInOrder ==
  \A s \in PsSubs : /\ IsInjective(PsSeen(s))
                    /\ \A i, j \in DOMAIN PsSeen(s) : i < j =>
                         \E a, b \in psstart[s]..Len(pslog) :
                            a < b /\ pslog[a] = PsSeen(s)[i] /\ pslog[b] = PsSeen(s)[j]

\* Only a sliding hub makes a receiver lag: the others refuse first, although
\* the ring may be larger than the capacity they refuse at.
OnlySlidingLags ==
  psmode \notin {"sliding", "broadcast"} => pslagged = {}

\* A task goes on forwarding for a closed scope only if the scope was closed
\* before subscribe could register the finalizer.
ForwarderEndsWithScope ==
  \A s \in PsSubs : psscope[s] = "closed" /\ psfwd[s] \in {"recv", "offer"} /\ ~psabort[s] => ~psfin[s]

\* What every interleaving of publishers, subscribers and scopes keeps.
PubSubInv == /\ PubSubTypeOK /\ SubscribersSeeAll /\ SubscribersInOrder /\ OnlySlidingLags
             /\ ForwarderEndsWithScope

\* A subscriber is given everything that has been sent, unless its scope closes
\* or its receiver lags; and after the hub is shut down its queue ends.
PubSubDelivers ==
  \A s \in PsSubs :
     /\ psnext[s] > 0 ~> \/ PsLag(s) = 0 /\ psheld[s] = <<>>
                        \/ psscope[s] # "open" \/ s \in pslagged
     /\ ~pstx /\ psat[s] # "no" ~> ~psqopen[s]
==============================================================================
