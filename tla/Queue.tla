------------------------------- MODULE Queue -------------------------------
(***************************************************************************)
(* coordination/queue.rs: one multi-producer multi-consumer queue of any   *)
(* of the four kinds.  The bounded, dropping and unbounded kinds rest on a *)
(* flume channel (external: try_send, recv_async and try_recv are atomic,  *)
(* and a receiver wakes up); the sliding kind is a deque under a mutex     *)
(* with a tokio Notify, whose steps are modelled one by one.               *)
(*                                                                         *)
(* A task of the program makes a call and collects its result when the     *)
(* call has returned.  Every take is a demand for lo receives that wait,   *)
(* and then up to hi elements without waiting:                             *)
(*   take = (1,1)   take_all = (1,all)   take_up_to(n) = (1,n)             *)
(*   take_n(n) = (n,n)   take_between(a,b) = (a,b)   poll = (0,1)          *)
(***************************************************************************)
EXTENDS Naturals, Sequences, FiniteSets, SequencesExt

CONSTANTS QProducers,
          QConsumers,
          QKinds,     \* the kinds to explore
          QCapacity,
          QOffers,    \* bound: QOffers[p]: the values that p offers, in order; all
                      \* are different, so that what becomes of each can be told
          QDemands,   \* bound: QDemands[c]: the pairs <<lo, hi>> that c may use
          QCalls      \* bound: how many takes a consumer of a bare queue makes

ASSUME QueueAssumption ==
  /\ QKinds \subseteq {"bounded", "dropping", "unbounded", "sliding"}
  /\ QCapacity \in Nat
  /\ QOffers = [p \in QProducers |-> QOffers[p]]
  /\ \A p \in QProducers : QOffers[p] \in Seq(Range(QOffers[p])) /\ IsInjective(QOffers[p])
  /\ \A p, r \in QProducers : p # r => Range(QOffers[p]) \cap Range(QOffers[r]) = {}
  /\ \A c \in QConsumers : /\ QDemands[c] \subseteq Nat \X (Nat \ {0})
                            /\ \A d \in QDemands[c] : d[1] <= d[2]
  /\ QCalls \in Nat

VARIABLES qkind,   \* which constructor made the queue
          qbuf,    \* the buffered values, oldest first
          qopen,   \* tx is Some, or SlidingState::open
          qclose,  \* how far the call of shutdown has got
          qcall,   \* qcall[p]: the offering call of p
          qtodo,   \* qtodo[p]: values that p has not offered yet
          qleft,   \* qleft[p]: values p was told had not been stored
          qtake,   \* qtake[c]: the taking call of c
          qmade,   \* qmade[c]: how many calls c has made
          qseen,   \* history: all values that were stored, in order
          qgone,   \* history: all values that left the buffer, in order
          qdrop,   \* history: values dropped by a failed take, or pushed out
          qlate    \* observer: tasks overtaken between their look and their wait

qvars == <<qkind, qbuf, qopen, qclose, qcall, qtodo, qleft, qtake, qmade,
           qseen, qgone, qdrop, qlate>>

\* capacity.max(1)
Cap == IF QCapacity = 0 THEN 1 ELSE QCapacity

QValues == UNION {Range(QOffers[p]) : p \in QProducers}
QTaking == {"idle", "recv", "gap", "asleep", "drain", "done", "failed"}
NoTake == [at |-> "idle", lo |-> 0, hi |-> 0, out |-> <<>>]

QueueTypeOK ==
  /\ qkind \in QKinds
  /\ qbuf \in Seq(QValues)
  /\ qopen \in BOOLEAN
  /\ qclose \in {"no", "notify", "yes"}
  /\ qcall \in [QProducers -> {"none", "offer", "offer_all", "notify_one", "notify_all"}]
  /\ qtodo \in [QProducers -> Seq(QValues)]
  /\ qleft \in [QProducers -> Seq(QValues)]
  /\ qtake \in [QConsumers -> [at : QTaking, lo : Nat, hi : Nat, out : Seq(QValues)]]
  /\ qmade \in [QConsumers -> Nat]
  /\ qlate \subseteq QConsumers

QueueInit ==
  /\ qkind \in QKinds
  /\ qbuf = <<>> /\ qopen = TRUE /\ qclose = "no"
  /\ qcall = [p \in QProducers |-> "none"]
  /\ qtodo = QOffers
  /\ qleft = [p \in QProducers |-> <<>>]
  /\ qtake = [c \in QConsumers |-> NoTake]
  /\ qmade = [c \in QConsumers |-> 0]
  /\ qseen = <<>> /\ qgone = <<>> /\ qdrop = {} /\ qlate = {}

qprod == <<qcall, qtodo, qleft>>
qcons == <<qtake, qmade>>
qstore == <<qbuf, qseen, qgone, qdrop>>

(***************************************************************************)
(* Storing and waking.                                                     *)
(***************************************************************************)

\* The flume channel has no room; an unbounded channel always has.
QFull == qkind \in {"bounded", "dropping"} /\ Len(qbuf) >= Cap

\* push_back, then pop_front while there are more than capacity elements.
QStore(v) ==
  LET all  == Append(qbuf, v)
      over == IF qkind = "sliding" /\ Len(all) > Cap THEN Len(all) - Cap ELSE 0
  IN  /\ qbuf' = SubSeq(all, over + 1, Len(all))
      /\ qseen' = Append(qseen, v)
      /\ qgone' = qgone \o SubSeq(all, 1, over)
      /\ qdrop' = qdrop \cup Range(SubSeq(all, 1, over))

\* Faulty variant: one sleeping task is woken.
QNotifyOne ==
  /\ \/ /\ \A c \in QConsumers : qtake[c].at # "asleep"
        /\ UNCHANGED qtake
     \/ \E c \in QConsumers : /\ qtake[c].at = "asleep"
                              /\ qtake' = [qtake EXCEPT ![c].at = "recv"]
  /\ qlate' = qlate \cup {c \in QConsumers : qtake[c].at = "gap"}

\* not_empty.notify_waiters(): every task whose Notified exists goes on; a task
\* that has released the mutex and not made its Notified yet is overtaken.
QNotifyWaiters ==
  /\ qtake' = [c \in QConsumers |-> IF qtake[c].at = "asleep"
                                    THEN [qtake[c] EXCEPT !.at = "recv"] ELSE qtake[c]]
  /\ qlate' = qlate \cup {c \in QConsumers : qtake[c].at = "gap"}

(***************************************************************************)
(* offer and offer_all.                                                    *)
(***************************************************************************)

QOffer(p, how) == /\ qcall[p] = "none" /\ qtodo[p] # <<>>
                  /\ qcall' = [qcall EXCEPT ![p] = how]
                  /\ UNCHANGED <<qkind, qopen, qclose, qtodo, qleft, qcons,
                                 qstore, qlate>>

\* What the call does next when one value has been dealt with.
QAfter(p) == IF qcall[p] = "offer" \/ Len(qtodo[p]) = 1 THEN "none" ELSE "offer_all"

\* The value is refused and the caller hears of it: offer returns false, and
\* offer_all keeps the value if a bounded queue is full or a sliding one closed.
QTold(p) == \/ qcall[p] = "offer"
            \/ IF qopen THEN qkind = "bounded" ELSE qkind = "sliding"

\* One value of FlumeShared::offer / offer_or_retain or of
\* SlidingShared::offer_or_retain.
QOfferStep(p) ==
  LET v == Head(qtodo[p]) IN
  /\ qcall[p] \in {"offer", "offer_all"}
  /\ qtodo' = [qtodo EXCEPT ![p] = Tail(@)]
  /\ IF qopen /\ ~QFull
     THEN /\ QStore(v)
          /\ qcall' = [qcall EXCEPT ![p] =
                         IF qkind # "sliding" THEN QAfter(p)
                         ELSE IF QAfter(p) = "none" THEN "notify_one" ELSE "notify_all"]
          /\ UNCHANGED qleft
     ELSE /\ qcall' = [qcall EXCEPT ![p] = QAfter(p)]
          /\ qleft' = [qleft EXCEPT ![p] = IF QTold(p) THEN Append(@, v) ELSE @]
          /\ UNCHANGED qstore
  /\ UNCHANGED <<qkind, qopen, qclose, qcons, qlate>>

\* The sliding queue notifies after it has released the mutex.
QOfferNotify(p) ==
  /\ qcall[p] \in {"notify_one", "notify_all"}
  /\ QNotifyWaiters
  /\ qcall' = [qcall EXCEPT ![p] = IF @ = "notify_one" THEN "none" ELSE "offer_all"]
  /\ UNCHANGED <<qkind, qopen, qclose, qtodo, qleft, qmade, qstore>>

(***************************************************************************)
(* The takes.                                                              *)
(***************************************************************************)

QTake(c, d) ==
  /\ qtake[c].at = "idle"
  /\ qmade' = [qmade EXCEPT ![c] = @ + 1]
  /\ qtake' = [qtake EXCEPT ![c] = [at |-> IF d[1] = 0 THEN "drain" ELSE "recv",
                                    lo |-> d[1], hi |-> d[2], out |-> <<>>]]
  /\ UNCHANGED <<qkind, qopen, qclose, qprod, qstore, qlate>>

\* Where a take is when its out has n elements.
QWhere(t, n) == IF n < t.lo THEN "recv" ELSE IF n < t.hi THEN "drain" ELSE "done"

QPop(c) ==
  LET t == qtake[c]
      n == Len(t.out) + 1
  IN  /\ qbuf # <<>>
      /\ qbuf' = Tail(qbuf)
      /\ qgone' = Append(qgone, Head(qbuf))
      /\ qtake' = [qtake EXCEPT ![c] = [t EXCEPT !.out = Append(@, Head(qbuf)),
                                                 !.at = QWhere(t, n)]]
      /\ UNCHANGED <<qseen, qdrop>>

\* The ? after a receive: what has been collected is dropped.
QFail(c) == /\ qbuf = <<>> /\ ~qopen
            /\ qtake' = [qtake EXCEPT ![c].at = "failed", ![c].out = <<>>]
            /\ qdrop' = qdrop \cup Range(qtake[c].out)
            /\ UNCHANGED <<qbuf, qseen, qgone>>

\* Sliding: the mutex is released with nothing found in an open queue.
QLook(c) == /\ qkind = "sliding" /\ qbuf = <<>> /\ qopen
            /\ qtake' = [qtake EXCEPT ![c].at = "gap"]
            /\ UNCHANGED qstore

\* recv: flume wakes a receiver when there is a value or no sender.
QRecv(c) == /\ qtake[c].at = "recv"
            /\ QPop(c) \/ QFail(c) \/ QLook(c)
            /\ UNCHANGED <<qkind, qopen, qclose, qprod, qmade, qlate>>

\* not_empty.notified(): notifications count from here.
QNotified(c) == /\ qtake[c].at = "gap"
                /\ qtake' = [qtake EXCEPT ![c].at = "asleep"]
                /\ UNCHANGED <<qkind, qopen, qclose, qprod, qmade, qstore, qlate>>

\* try_recv returns None.
QDry(c) == /\ qbuf = <<>> /\ qopen
           /\ qtake' = [qtake EXCEPT ![c].at = "done"]
           /\ UNCHANGED qstore

QTryRecv(c) == /\ qtake[c].at = "drain"
               /\ QPop(c) \/ QFail(c) \/ QDry(c)
               /\ UNCHANGED <<qkind, qopen, qclose, qprod, qmade, qlate>>

\* The program has the result.
QCollect(c) == /\ qtake[c].at \in {"done", "failed"}
               /\ qtake' = [qtake EXCEPT ![c] = NoTake]
               /\ UNCHANGED <<qkind, qopen, qclose, qprod, qmade, qstore, qlate>>

(***************************************************************************)
(* shutdown.  The watch flag that it also sets, and await_shutdown, are in *)
(* Signals.tla.                                                            *)
(***************************************************************************)

\* tx.take(), or open = false; the sliding queue then notifies.
QShutdown == /\ qclose = "no"
             /\ qopen' = FALSE
             /\ qclose' = IF qkind = "sliding" THEN "notify" ELSE "yes"
             /\ UNCHANGED <<qkind, qprod, qcons, qstore, qlate>>

QShutdownNotify == /\ qclose = "notify"
                   /\ QNotifyWaiters
                   /\ qclose' = "yes"
                   /\ UNCHANGED <<qkind, qopen, qprod, qmade, qstore>>

(***************************************************************************)
(* The specification.                                                      *)
(***************************************************************************)

QProduce(p) == QOfferStep(p) \/ QOfferNotify(p)
QConsume(c) == QRecv(c) \/ QNotified(c) \/ QTryRecv(c)

QueueNext == \/ \E p \in QProducers :
                  QProduce(p) \/ \E how \in {"offer", "offer_all"} : QOffer(p, how)
             \/ \E c \in QConsumers :
                  QConsume(c) \/ QCollect(c)
                  \/ (qmade[c] < QCalls /\ \E d \in QDemands[c] : QTake(c, d))
             \/ QShutdown \/ QShutdownNotify

\* Tasks inside a call go on.
QueueFairness == /\ \A p \in QProducers : WF_qvars(QProduce(p))
                 /\ \A c \in QConsumers : WF_qvars(QConsume(c))
                 /\ WF_qvars(QShutdownNotify)

QueueSpec == QueueInit /\ [][QueueNext]_qvars /\ QueueFairness

(***************************************************************************)
(* Properties.                                                             *)
(***************************************************************************)

\* What has been offered and is not to be offered any more.
QOffered == UNION {Range(QOffers[p]) \ Range(qtodo[p]) : p \in QProducers}
QInHand == UNION {Range(qtake[c].out) : c \in QConsumers}

\* Values leave in the order in which they were stored, whatever the kind and
\* however many tasks take; no value is stored twice.
QueueFifo == qseen = qgone \o qbuf /\ IsInjective(qseen)

\* Every value offered so far was stored or handed back to its producer; the
\* others were swallowed, which only a dropping queue or a shutdown can do.
OffersAccounted ==
  LET back == UNION {Range(qleft[p]) : p \in QProducers}
  IN  /\ back \cap Range(qseen) = {}
      /\ QOffered \ (back \cup Range(qseen)) # {} => qkind = "dropping" \/ ~qopen

\* Some consumer asks for more than one element at a time.
QGathers == \E c \in QConsumers : \E d \in QDemands[c] : d[2] > 1

\* A value that was stored is dropped only by a sliding queue, or as one of the last
\* values of a queue that was shut down, by a take for several elements which meets
\* the end; a take for one element loses nothing.
DropsExplained ==
  /\ qdrop # {} => qkind = "sliding" \/ (~qopen /\ qbuf = <<>> /\ QGathers)
  /\ qdrop \cap (Range(qbuf) \cup QInHand) = {}

\* A task sleeps beside a value, or on a closed queue, only if a notification is
\* still to come or overtook it between the mutex and its Notified.
QueueSleepers ==
  \A c \in QConsumers :
     qtake[c].at = "asleep" /\ (qbuf # <<>> \/ ~qopen) =>
        \/ c \in qlate
        \/ \E p \in QProducers : qcall[p] \in {"notify_one", "notify_all"}
        \/ qclose = "notify"

\* What every interleaving of offers, takes and shutdown keeps.
QueueInv == QueueTypeOK /\ QueueFifo /\ OffersAccounted /\ DropsExplained /\ QueueSleepers

\* After shutdown every take returns, but for the tasks that were overtaken.
ShutdownReleases ==
  \A c \in QConsumers :
     ~qopen /\ qtake[c].at # "idle" ~> qtake[c].at \in {"done", "failed", "idle"} \/ c \in qlate

\* What the comment of take says: a take blocks only until a value is available.
\* The sliding queue does not keep it: see QueueSleepers.
NoSleepBesideValues ==
  \A c \in QConsumers : []<>~(qtake[c].at = "asleep" /\ qbuf # <<>>)

\* What the comment of shutdown says: buffered values remain available to
\* receivers.  take_all, take_up_to, take_n and take_between drop what they have
\* collected when they meet the end: see DropsExplained.
BufferedStayAvailable == qkind # "sliding" => qdrop = {}
==============================================================================
