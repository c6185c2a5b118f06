------------------------- MODULE CoordinationProofs --------------------------
(***************************************************************************)
(* What tasks meet at: one-shot signals, queues, streams, channels and     *)
(* hubs.                                                                   *)
(***************************************************************************)
EXTENDS MCCoordination, ProofLemmas

(***************************************************************************)
(* One-shot signals.                                                       *)
(***************************************************************************)

\* The setters whose call has returned, and no more notifications than those.
SgReturned == {t \in SgSetters : sgset[t] = "yes"}

SgCounting == /\ sgver <= Cardinality(SgReturned)
              /\ \A w \in SgWaiters : sgseen[w] <= sgver

\* The slot of a Deferred holds the exit of the completion that was told so.
SgSlot ==
  sgkind = "deferred" =>
     /\ sgval = NoExit => sgfirst = {} /\ \A w \in SgWaiters : sgat[w] # "done"
     /\ \A s, t \in sgfirst : s = t
     /\ ~sgforced /\ sgval # NoExit => sgfirst = {sgval}
     /\ ~sgforced => \A w \in SgWaiters : sgat[w] = "done" => sgfirst = {sgres[w]}
     /\ \A w \in SgWaiters : sgat[w] # "gap"

\* A waiter that has looked at an empty slot is overtaken by the notification.
SgOvertaken ==
  \A w \in SgWaiters : sgat[w] = "gap" /\ sgval # NoExit =>
     w \in sglate \/ \E t \in SgSetters : sgset[t] = "notify"

\* The inductive invariant.
SignalIInv == SignalTypeOK /\ SgCounting /\ SgSlot /\ SgOvertaken /\ SleepersNotified

\* It holds at the start.
LEMMA SignalInitOk == SignalInit => SignalIInv
<1> SUFFICES ASSUME SignalInit PROVE SignalIInv OBVIOUS
<1> USE SignalAssumption DEF SignalInit
<1>1. SgReturned \in SUBSET SgSetters /\ Cardinality(SgSetters) \in Nat /\ Cardinality(SgReturned) \in Nat
  BY FS_Subset, FS_CardinalityType DEF SgReturned
<1>2. SignalTypeOK
  <2>1. sgforced \in BOOLEAN OBVIOUS
  <2>2. 0 \in 0..Cardinality(SgSetters) BY <1>1
  <2>3. QED BY <2>1, <2>2 DEF SignalTypeOK
<1>3. SgCounting BY <1>1 DEF SgCounting
<1>4. SgSlot /\ SgOvertaken /\ SleepersNotified BY DEF SgSlot, SgOvertaken, SleepersNotified
<1>5. QED BY <1>2, <1>3, <1>4 DEF SignalIInv

\* A setter that returns leaves room for one notification more.
LEMMA ReturnCounted ==
  ASSUME SignalIInv, NEW t \in SgSetters, sgset[t] # "yes",
         NEW x \in {"notify", "yes"}, sgset' = [sgset EXCEPT ![t] = x]
  PROVE  /\ sgset' \in [SgSetters -> {"no", "notify", "yes"}]
         /\ sgver \in Nat /\ sgver <= Cardinality(SgReturned') /\ Cardinality(SgSetters) \in Nat
         /\ Cardinality(SgReturned') \in Nat /\ Cardinality(SgReturned') <= Cardinality(SgSetters)
         /\ x = "yes" => sgver + 1 <= Cardinality(SgReturned')
<1>1. /\ IsFiniteSet(SgSetters) /\ sgset \in [SgSetters -> {"no", "notify", "yes"}]
      /\ sgver \in 0..Cardinality(SgSetters) /\ sgver <= Cardinality(SgReturned)
  BY SignalAssumption DEF SignalIInv, SignalTypeOK, SgCounting
<1>2. /\ SgReturned \in SUBSET SgSetters /\ SgReturned' \in SUBSET SgSetters /\ t \notin SgReturned
  BY DEF SgReturned
<1>3. x = "yes" => SgReturned' = SgReturned \cup {t} BY <1>1 DEF SgReturned
<1>4. x # "yes" => SgReturned' = SgReturned BY <1>1 DEF SgReturned
<1>5. /\ Cardinality(SgReturned) \in Nat /\ Cardinality(SgReturned') \in Nat
      /\ Cardinality(SgReturned') <= Cardinality(SgSetters) /\ Cardinality(SgSetters) \in Nat
      /\ x = "yes" => Cardinality(SgReturned') = Cardinality(SgReturned) + 1
  BY <1>1, <1>2, <1>3, CountChange
<1>6. sgver \in Nat BY <1>1, <1>5
<1>7. QED BY <1>1, <1>3, <1>4, <1>5, <1>6

\* The steps of a setter.
LEMMA SignalSetterOk ==
  ASSUME SignalIInv, NEW t \in SgSetters,
         SgOpen(t) \/ SgNotify(t) \/ SgShutdown(t) \/ SgComplete(t) \/ SgForce(t)
  PROVE  SignalIInv'
<1> USE SignalAssumption
<1>1. /\ SignalTypeOK /\ SgCounting /\ SgSlot /\ SgOvertaken /\ SleepersNotified
      /\ sgset[t] # "yes" /\ sgkind' = sgkind /\ sgat' = sgat /\ sgseen' = sgseen /\ sgres' = sgres
  BY DEF SignalIInv, SgOpen, SgNotify, SgShutdown, SgComplete, SgForce, sgwait
<1>2. PICK x \in {"notify", "yes"} : sgset' = [sgset EXCEPT ![t] = x] /\ (x = "notify" => sgver' = sgver)
  BY DEF SgOpen, SgNotify, SgShutdown, SgComplete, SgForce
<1>3. /\ sgset' \in [SgSetters -> {"no", "notify", "yes"}]
      /\ sgver \in Nat /\ sgver <= Cardinality(SgReturned') /\ Cardinality(SgSetters) \in Nat
      /\ Cardinality(SgReturned') \in Nat /\ Cardinality(SgReturned') <= Cardinality(SgSetters)
      /\ x = "yes" => sgver + 1 <= Cardinality(SgReturned')
  BY <1>1, <1>2, ReturnCounted
<1>4. sgver' \in {sgver, sgver + 1}
  BY DEF SgOpen, SgNotify, SgShutdown, SgComplete, SgForce
<1>5. sgver' \in 0..Cardinality(SgSetters) /\ sgver' \in Nat /\ sgver <= sgver' BY <1>2, <1>3, <1>4
<1>6. /\ sgseen \in [SgWaiters -> Nat] /\ \A w \in SgWaiters : sgseen[w] <= sgver
  BY <1>1, <1>3 DEF SignalTypeOK, SgCounting
<1>7. SgCounting' BY <1>1, <1>2, <1>3, <1>4, <1>5, <1>6 DEF SgCounting
<1>8. /\ sgval' \in SgSetters \cup {NoExit} /\ sgfirst' \subseteq SgSetters /\ sgforced' \in BOOLEAN
      /\ sglate' \subseteq SgWaiters
  <2>1. sgforced' \in BOOLEAN BY <1>1 DEF SignalTypeOK, SgOpen, SgNotify, SgShutdown, SgComplete, SgForce
  <2>2. sgval' \in SgSetters \cup {NoExit}
    BY <1>1 DEF SignalTypeOK, SgOpen, SgNotify, SgShutdown, SgComplete, SgForce
  <2>3. sgfirst' \subseteq SgSetters
    BY <1>1 DEF SignalTypeOK, SgOpen, SgNotify, SgShutdown, SgComplete, SgForce
  <2>4. sglate' \subseteq SgWaiters
    BY <1>1 DEF SignalTypeOK, SgOpen, SgNotify, SgShutdown, SgComplete, SgForce, sgwait
  <2>5. QED BY <2>1, <2>2, <2>3, <2>4
<1>9. SignalTypeOK' BY <1>1, <1>3, <1>5, <1>8 DEF SignalTypeOK
<1>10. SgSlot'
  <2>1. CASE sgkind # "deferred" BY <1>1, <2>1 DEF SgSlot
  <2>2. CASE sgkind = "deferred" /\ SgComplete(t)
    BY <1>1, <2>2 DEF SignalTypeOK, SgSlot, SgComplete
  <2>3. CASE sgkind = "deferred" /\ SgForce(t)
    BY <1>1, <2>3 DEF SignalTypeOK, SgSlot, SgForce
  <2>4. CASE sgkind = "deferred" /\ SgNotify(t)
    BY <1>1, <2>4 DEF SgSlot, SgNotify
  <2>5. QED BY <2>1, <2>2, <2>3, <2>4 DEF SgOpen, SgShutdown
<1>11. SgOvertaken'
  <2>1. CASE SgOpen(t) BY <1>1, <2>1 DEF SignalTypeOK, SgOvertaken, SgOpen, sgwait
  <2>2. CASE SgNotify(t) BY <1>1, <2>2 DEF SignalTypeOK, SgOvertaken, SgNotify
  <2>3. CASE SgShutdown(t) BY <1>1, <2>3 DEF SignalTypeOK, SgOvertaken, SgShutdown
  <2>4. CASE SgComplete(t) \/ SgForce(t)
    BY <1>1, <2>4 DEF SgSlot, SgOvertaken, SgComplete, SgForce
  <2>5. QED BY <2>1, <2>2, <2>3, <2>4
<1>12. SleepersNotified'
  <2>1. CASE sgver' = sgver + 1 BY <1>1, <1>3, <1>6, <2>1 DEF SleepersNotified
  <2>2. CASE SgOpen(t) BY <1>1, <2>2 DEF SignalTypeOK, SleepersNotified, SgOpen, sgwait
  <2>3. CASE SgComplete(t) /\ sgver' = sgver
    <3>1. sgval # NoExit /\ sgval' = sgval /\ sglate' = sglate /\ sgkind = "deferred"
      BY <1>3, <2>3 DEF SgComplete, sgwait
    <3>2. QED BY <1>1, <2>3, <3>1 DEF SleepersNotified
  <2>4. QED BY <1>4, <2>1, <2>2, <2>3 DEF SgNotify, SgShutdown, SgForce
<1>13. QED BY <1>7, <1>9, <1>10, <1>11, <1>12 DEF SignalIInv

\* The steps of a waiter.
LEMMA SignalWaiterOk ==
  ASSUME SignalIInv, NEW w \in SgWaiters, SgWait(w) \/ SgWaiting(w)
  PROVE  SignalIInv'
<1> USE SignalAssumption
<1>1. /\ SignalTypeOK /\ SgCounting /\ SgSlot /\ SgOvertaken /\ SleepersNotified
      /\ UNCHANGED <<sgkind, sgval, sgver, sgset, sgfirst, sgforced, sglate>>
  BY DEF SignalIInv, SgWait, SgWaiting, SgLook, SgSubscribe, SgWake
<1>2. sgver \in Nat /\ Cardinality(SgSetters) \in Nat
  <2>1. Cardinality(SgSetters) \in Nat BY FS_CardinalityType
  <2>2. QED BY <1>1, <2>1 DEF SignalTypeOK
<1>3. SignalTypeOK'
  <2>1. sgat' \in [SgWaiters -> {"idle", "look", "gap", "asleep", "done"}]
    BY <1>1 DEF SignalTypeOK, SgWait, SgWaiting, SgLook, SgSubscribe, SgWake
  <2>2. sgseen' \in [SgWaiters -> 0..Cardinality(SgSetters)]
    BY <1>1 DEF SignalTypeOK, SgWait, SgWaiting, SgLook, SgSubscribe, SgWake
  <2>3. sgres' \in [SgWaiters -> SgSetters \cup {NoExit}]
    BY <1>1 DEF SignalTypeOK, SgWait, SgWaiting, SgLook, SgSubscribe, SgWake
  <2>4. QED BY <1>1, <2>1, <2>2, <2>3 DEF SignalTypeOK
<1>4. SgCounting'
  <2>1. sgver' <= Cardinality(SgReturned') BY <1>1 DEF SgCounting, SgReturned
  <2>2. \A v \in SgWaiters : sgseen'[v] \in {sgseen[v], sgver}
    BY <1>1 DEF SignalTypeOK, SgWait, SgWaiting, SgLook, SgSubscribe, SgWake
  <2>3. QED BY <1>1, <1>2, <2>1, <2>2 DEF SgCounting
<1>5. \A v \in SgWaiters \ {w} : sgat'[v] = sgat[v] /\ sgseen'[v] = sgseen[v] /\ sgres'[v] = sgres[v]
  BY <1>1 DEF SignalTypeOK, SgWait, SgWaiting, SgLook, SgSubscribe, SgWake
<1>6. SgSlot'
  <2> SUFFICES ASSUME sgkind = "deferred" PROVE SgSlot' BY <1>1 DEF SgSlot
  <2>1. /\ sgat'[w] # "gap"
        /\ sgat'[w] = "done" => sgval # NoExit /\ sgres'[w] = sgval
    BY <1>1 DEF SignalTypeOK, SgSlot, SgWait, SgWaiting, SgLook, SgSubscribe, SgWake
  <2>2. QED BY <1>1, <1>5, <2>1 DEF SgSlot
<1>7. SgOvertaken'
  <2>1. sgat'[w] = "gap" => sgval = NoExit
    BY <1>1 DEF SignalTypeOK, SgWait, SgWaiting, SgLook, SgSubscribe, SgWake
  <2>2. QED BY <1>1, <1>5, <2>1 DEF SgOvertaken
<1>8. SleepersNotified'
  <2>1. sgat'[w] = "asleep" => sgval = NoExit \/ sgat[w] = "gap"
    BY <1>1 DEF SignalTypeOK, SgWait, SgWaiting, SgLook, SgSubscribe, SgWake
  <2>2. QED BY <1>1, <1>5, <2>1 DEF SleepersNotified, SgOvertaken, SgSlot
<1>9. QED BY <1>3, <1>4, <1>6, <1>7, <1>8 DEF SignalIInv

\* One completion is first and gives every waiter its exit, and nobody sleeps beside
\* a value without a notification to come, unless it was overtaken: for any number of
\* setters and waiters (deferred.rs, latch.rs, and the await_shutdown of queue.rs and
\* pubsub.rs).
THEOREM SignalInvariant == SignalSpec => []SignalInv
<1>1. SignalIInv /\ [SignalNext]_sgvars => SignalIInv'
  <2> SUFFICES ASSUME SignalIInv, [SignalNext]_sgvars PROVE SignalIInv' OBVIOUS
  <2>1. CASE UNCHANGED sgvars
    BY <2>1 DEF sgvars, SignalIInv, SignalTypeOK, SgCounting, SgReturned, SgSlot, SgOvertaken,
       SleepersNotified
  <2>2. QED BY <2>1, SignalSetterOk, SignalWaiterOk DEF SignalNext
<1>2. SignalIInv => SignalInv
  <2> SUFFICES ASSUME SignalIInv PROVE FirstCompletionWins
    BY DEF SignalIInv, SignalInv
  <2> SUFFICES ASSUME sgkind = "deferred" PROVE Cardinality(sgfirst) <= 1
    BY DEF SignalIInv, SgSlot, FirstCompletionWins
  <2>1. QED BY AtMostOne DEF SignalIInv, SgSlot
<1>3. QED BY <1>1, <1>2, SignalInitOk, PTL DEF SignalSpec

(***************************************************************************)
(* The queue.                                                              *)
(***************************************************************************)

\* What a producer has still to offer is not repeated, is its own and was not stored;
\* a call that goes on has a value to offer.
QOnce ==
  /\ qseen \in Seq(QValues) /\ qgone \in Seq(QValues)
  /\ \A p \in QProducers :
       /\ IsInjective(qtodo[p]) /\ Range(qtodo[p]) \subseteq Range(QOffers[p])
       /\ Range(qtodo[p]) \cap Range(qseen) = {}
       /\ qcall[p] \in {"offer", "offer_all", "notify_all"} => qtodo[p] # <<>>

\* What was handed back was not stored and is not offered again.
QBack ==
  \A p, r \in QProducers : /\ Range(qleft[p]) \cap Range(qseen) = {}
                           /\ Range(qtodo[r]) \cap Range(qleft[p]) = {}

\* A value that is not to be offered was stored or handed back.
QSwallow ==
  qkind # "dropping" /\ qopen =>
     \A p \in QProducers : \A v \in Range(QOffers[p]) \ (Range(qtodo[p]) \cup Range(qseen)) :
        \E r \in QProducers : v \in Range(qleft[r])

\* The takes hold values that left the buffer and were not dropped.
QHands ==
  /\ qdrop \subseteq Range(qgone)
  /\ \A c \in QConsumers : Range(qtake[c].out) \subseteq Range(qgone) \ qdrop
  /\ \A c, e \in QConsumers : c # e => Range(qtake[c].out) \cap Range(qtake[e].out) = {}

\* A take asks for no more than its consumer may, and holds a value while it goes on
\* only if it asks for more than one.
QAsked(t) == /\ t.lo <= t.hi /\ (t.hi > 1 => QGathers)
             /\ t.at \in {"recv", "gap", "asleep", "drain"} /\ t.out # <<>> => t.hi > 1

\* The first part of DropsExplained, and what it rests on.
QLosses ==
  /\ qdrop # {} => qkind = "sliding" \/ (~qopen /\ qbuf = <<>> /\ QGathers)
  /\ \A c \in QConsumers : QAsked(qtake[c])

\* QueueSleepers, from the moment the mutex is released.
QWaits ==
  \A c \in QConsumers : qtake[c].at \in {"gap", "asleep"} =>
     /\ qkind = "sliding"
     /\ qbuf # <<>> \/ ~qopen =>
          \/ c \in qlate
          \/ \E p \in QProducers : qcall[p] \in {"notify_one", "notify_all"}
          \/ qclose = "notify"

\* The inductive invariant.
QueueIInv == QueueTypeOK /\ QueueFifo /\ QOnce /\ QBack /\ QSwallow /\ QHands /\ QWaits /\ QLosses

\* It holds at the start.
LEMMA QueueInitOk == QueueInit => QueueIInv
<1> SUFFICES ASSUME QueueInit PROVE QueueIInv OBVIOUS
<1>1. /\ qtodo = QOffers /\ qleft = [p \in QProducers |-> <<>>]
      /\ qtake = [c \in QConsumers |-> NoTake] /\ qmade = [c \in QConsumers |-> 0]
      /\ qbuf = <<>> /\ qseen = <<>> /\ qgone = <<>> /\ qdrop = {} /\ qlate = {} /\ qopen = TRUE
      /\ qclose = "no" /\ qcall = [p \in QProducers |-> "none"] /\ qkind \in QKinds
  BY DEF QueueInit
<1>2. <<>> \in Seq(QValues) OBVIOUS
<1>3. QOffers \in [QProducers -> Seq(QValues)]
  <2>1. ASSUME NEW p \in QProducers PROVE QOffers[p] \in Seq(QValues)
    <3>1. QOffers[p] \in Seq(Range(QOffers[p])) BY QueueAssumption
    <3>2. Range(QOffers[p]) \subseteq QValues BY DEF QValues
    <3>3. QED BY <3>1, <3>2, SeqMonotonic
  <2>2. QOffers = [p \in QProducers |-> QOffers[p]] BY QueueAssumption
  <2>3. QED BY <2>1, <2>2
<1>4. \A c \in QConsumers : qtake[c].at = "idle" /\ qtake[c].out = <<>> /\ Range(qtake[c].out) = {}
  BY <1>1, EmptyLine DEF NoTake
<1>5. \A p \in QProducers : qcall[p] = "none" /\ Range(qleft[p]) = {} BY <1>1, EmptyLine
<1>6. QueueTypeOK
  <2>1. NoTake \in [at : QTaking, lo : Nat, hi : Nat, out : Seq(QValues)]
    BY <1>2 DEF NoTake, QTaking
  <2>2. QED BY <1>1, <1>2, <1>3, <2>1 DEF QueueTypeOK
<1>7. Range(qseen) = {} /\ Range(qgone) = {} BY <1>1, EmptyLine
<1>8. QueueFifo BY <1>1, EmptyLine DEF QueueFifo
<1>9. QOnce BY <1>1, <1>2, <1>5, <1>7, QueueAssumption DEF QOnce
<1>10. QBack BY <1>5, <1>7 DEF QBack
<1>11. QSwallow BY <1>1 DEF QSwallow
<1>12. QHands BY <1>1, <1>4 DEF QHands
<1>13. QWaits BY <1>4 DEF QWaits
<1>14. QLosses BY <1>1 DEF QLosses, QAsked, NoTake
<1>15. QED BY <1>6, <1>8, <1>9, <1>10, <1>11, <1>12, <1>13, <1>14 DEF QueueIInv

\* The value that a producer offers next: it is new, and then it is gone.
LEMMA QHeadGoes ==
  ASSUME QueueIInv, NEW p \in QProducers, qtodo[p] # <<>>,
         qtodo' = [qtodo EXCEPT ![p] = Tail(@)]
  PROVE  /\ Head(qtodo[p]) \in QValues \ Range(qseen)
         /\ Head(qtodo[p]) \in Range(qtodo[p])
         /\ \A r \in QProducers : Head(qtodo[p]) \notin Range(qleft[r])
         /\ qtodo' \in [QProducers -> Seq(QValues)]
         /\ \A r \in QProducers : /\ IsInjective(qtodo'[r])
                                  /\ Range(qtodo'[r]) = Range(qtodo[r]) \ {Head(qtodo[p])}
                                  /\ r # p => qtodo'[r] = qtodo[r]
         /\ QAfter(p) # "none" => qtodo'[p] # <<>>
<1>1. qtodo \in [QProducers -> Seq(QValues)] /\ QOnce /\ QBack BY DEF QueueIInv, QueueTypeOK
<1>2. PICK t \in Seq(QValues) : t = qtodo[p] BY <1>1
<1>3. t # <<>> /\ IsInjective(t) BY <1>1, <1>2 DEF QOnce
<1>4. /\ Tail(t) \in Seq(QValues) /\ Head(t) \in QValues /\ Head(t) \in Range(t)
      /\ IsInjective(Tail(t)) /\ Range(Tail(t)) = Range(t) \ {Head(t)}
  BY <1>3, TailOnce
<1>5. qtodo'[p] = Tail(t) /\ \A r \in QProducers \ {p} : qtodo'[r] = qtodo[r] BY <1>1, <1>2
<1>6. qtodo' \in [QProducers -> Seq(QValues)] BY <1>1, <1>2, <1>4
<1>7. \A r \in QProducers \ {p} : Head(t) \notin Range(qtodo[r])
  BY <1>1, <1>2, <1>4, QueueAssumption DEF QOnce
<1>8. ASSUME NEW r \in QProducers
      PROVE  /\ IsInjective(qtodo'[r]) /\ Range(qtodo'[r]) = Range(qtodo[r]) \ {Head(t)}
             /\ r # p => qtodo'[r] = qtodo[r]
  <2>1. CASE r = p BY <1>2, <1>4, <1>5, <2>1, Zenon
  <2>2. CASE r # p
    <3>1. qtodo'[r] = qtodo[r] /\ Head(t) \notin Range(qtodo[r]) BY <1>5, <1>7, <2>2
    <3>2. IsInjective(qtodo[r]) BY <1>1 DEF QOnce
    <3>3. Range(qtodo[r]) = Range(qtodo[r]) \ {Head(t)} BY <3>1, Zenon
    <3>4. QED BY <2>2, <3>1, <3>2, <3>3, Zenon
  <2>3. QED BY <2>1, <2>2
<1>9. Head(t) \notin Range(qseen) /\ \A r \in QProducers : Head(t) \notin Range(qleft[r])
  BY <1>1, <1>2, <1>4 DEF QOnce, QBack
<1>10. QAfter(p) # "none" => qtodo'[p] # <<>>
  <2>1. QAfter(p) # "none" => Len(t) # 1 BY <1>2 DEF QAfter
  <2>2. Len(t) # 1 => Tail(t) # <<>>
    <3>1. Len(Tail(t)) = Len(t) - 1 /\ Len(t) \in Nat BY <1>3, HeadTailProperties
    <3>2. Tail(t) = <<>> => Len(Tail(t)) = 0 BY EmptySeq
    <3>3. QED BY <3>1, <3>2
  <2>3. QED BY <1>5, <2>1, <2>2
<1>11. QED BY <1>2, <1>4, <1>6, <1>8, <1>9, <1>10, Zenon

\* A value is stored, and a sliding queue pushes old ones out.
LEMMA QStoreMoves ==
  ASSUME QueueIInv, NEW v \in QValues \ Range(qseen), QStore(v)
  PROVE  /\ qbuf' \in Seq(QValues) /\ qseen' \in Seq(QValues) /\ qgone' \in Seq(QValues)
         /\ QueueFifo' /\ Range(qseen') = Range(qseen) \cup {v}
         /\ \E D \in SUBSET QValues :
              /\ qdrop' = qdrop \cup D /\ Range(qgone') = Range(qgone) \cup D
              /\ Range(qgone) \cap D = {} /\ (D # {} => qkind = "sliding")
<1>1. /\ qbuf \in Seq(QValues) /\ qgone \in Seq(QValues) /\ qseen \in Seq(QValues)
      /\ qseen = qgone \o qbuf /\ IsInjective(qseen)
  BY DEF QueueIInv, QueueTypeOK, QOnce, QueueFifo
<1>2. IsInjective(qgone \o qbuf) /\ v \in QValues \ Range(qgone \o qbuf) BY <1>1, Zenon
<1>3. /\ Append(qbuf, v) \in Seq(QValues) /\ qgone \o Append(qbuf, v) = Append(qgone \o qbuf, v)
      /\ Append(qgone \o qbuf, v) \in Seq(QValues) /\ IsInjective(Append(qgone \o qbuf, v))
      /\ Range(Append(qgone \o qbuf, v)) = Range(qgone \o qbuf) \cup {v}
  BY <1>1, <1>2, LineAppend
<1>4. PICK all \in Seq(QValues) : all = Append(qbuf, v) BY <1>3, Zenon
<1>5. /\ qgone \o all = Append(qseen, v) /\ IsInjective(qgone \o all)
      /\ Append(qseen, v) \in Seq(QValues) /\ Range(Append(qseen, v)) = Range(qseen) \cup {v}
  BY <1>1, <1>3, <1>4, Zenon
<1>6. PICK k \in 0..Len(all) : /\ k # 0 => qkind = "sliding"
                               /\ qbuf' = SubSeq(all, k + 1, Len(all))
                               /\ qseen' = Append(qseen, v)
                               /\ qgone' = qgone \o SubSeq(all, 1, k)
                               /\ qdrop' = qdrop \cup Range(SubSeq(all, 1, k))
  <2>1. Len(all) \in Nat /\ Cap \in Nat BY QueueAssumption DEF Cap
  <2>2. PICK k : /\ k = IF qkind = "sliding" /\ Len(all) > Cap THEN Len(all) - Cap ELSE 0
                 /\ qbuf' = SubSeq(all, k + 1, Len(all))
                 /\ qseen' = Append(qseen, v)
                 /\ qgone' = qgone \o SubSeq(all, 1, k)
                 /\ qdrop' = qdrop \cup Range(SubSeq(all, 1, k))
    BY <1>4, Zenon DEF QStore
  <2>3. k \in 0..Len(all) /\ (k # 0 => qkind = "sliding") BY <2>1, <2>2
  <2>4. QED BY <2>2, <2>3, Zenon
<1>7. /\ SubSeq(all, 1, k) \in Seq(QValues) /\ SubSeq(all, k + 1, Len(all)) \in Seq(QValues)
      /\ qgone \o SubSeq(all, 1, k) \in Seq(QValues)
      /\ (qgone \o SubSeq(all, 1, k)) \o SubSeq(all, k + 1, Len(all)) = qgone \o all
      /\ Range(qgone \o SubSeq(all, 1, k)) = Range(qgone) \cup Range(SubSeq(all, 1, k))
      /\ Range(qgone) \cap Range(SubSeq(all, 1, k)) = {}
      /\ k = 0 => Range(SubSeq(all, 1, k)) = {}
  BY <1>1, <1>5, LineCut
<1>8. qbuf' \in Seq(QValues) /\ qseen' \in Seq(QValues) /\ qgone' \in Seq(QValues)
  BY <1>5, <1>6, <1>7, Zenon
<1>9. qseen' = qgone' \o qbuf' /\ IsInjective(qseen') BY <1>5, <1>6, <1>7, Zenon
<1>10. PICK D \in SUBSET QValues : D = Range(SubSeq(all, 1, k))
  <2>1. Range(SubSeq(all, 1, k)) \subseteq QValues BY <1>7, RangeOf
  <2>2. QED BY <2>1, Zenon
<1>11. /\ qdrop' = qdrop \cup D /\ Range(qgone') = Range(qgone) \cup D
       /\ Range(qgone) \cap D = {} /\ (D # {} => qkind = "sliding")
  BY <1>6, <1>7, <1>10, Zenon
<1>12. Range(qseen') = Range(qseen) \cup {v} BY <1>5, <1>6, Zenon
<1>13. QueueFifo' BY <1>9, Zenon DEF QueueFifo
<1>14. QED BY <1>8, <1>11, <1>12, <1>13, Zenon

\* One value of an offer is stored.
LEMMA QueueStoreOk ==
  ASSUME QueueIInv, NEW p \in QProducers, QOfferStep(p), qopen /\ ~QFull
  PROVE  QueueIInv'
<1>1. /\ QueueTypeOK /\ QueueFifo /\ QOnce /\ QBack /\ QSwallow /\ QHands /\ QWaits /\ QLosses
  BY DEF QueueIInv
<1>2. /\ qcall[p] \in {"offer", "offer_all"} /\ qtodo' = [qtodo EXCEPT ![p] = Tail(@)]
      /\ QStore(Head(qtodo[p])) /\ qleft' = qleft
      /\ qcall' = [qcall EXCEPT ![p] = IF qkind # "sliding" THEN QAfter(p)
                                       ELSE IF QAfter(p) = "none" THEN "notify_one" ELSE "notify_all"]
      /\ qkind' = qkind /\ qopen' = qopen /\ qclose' = qclose /\ qtake' = qtake /\ qmade' = qmade
      /\ qlate' = qlate
  BY DEF QOfferStep, qcons
<1>3. qtodo[p] # <<>> BY <1>1, <1>2 DEF QOnce
<1>4. PICK v : v = Head(qtodo[p]) OBVIOUS
<1>5. /\ v \in QValues \ Range(qseen) /\ v \in Range(qtodo[p])
      /\ \A r \in QProducers : v \notin Range(qleft[r])
      /\ qtodo' \in [QProducers -> Seq(QValues)]
      /\ \A r \in QProducers : /\ IsInjective(qtodo'[r])
                               /\ Range(qtodo'[r]) = Range(qtodo[r]) \ {v}
                               /\ r # p => qtodo'[r] = qtodo[r]
      /\ QAfter(p) # "none" => qtodo'[p] # <<>>
  BY <1>2, <1>3, <1>4, QHeadGoes
<1>6. /\ qbuf' \in Seq(QValues) /\ qseen' \in Seq(QValues) /\ qgone' \in Seq(QValues)
      /\ QueueFifo' /\ Range(qseen') = Range(qseen) \cup {v}
      /\ \E D \in SUBSET QValues :
           /\ qdrop' = qdrop \cup D /\ Range(qgone') = Range(qgone) \cup D
           /\ Range(qgone) \cap D = {} /\ (D # {} => qkind = "sliding")
  BY <1>2, <1>4, <1>5, QStoreMoves
<1>7. /\ qcall' \in [QProducers -> {"none", "offer", "offer_all", "notify_one", "notify_all"}]
      /\ \A r \in QProducers \ {p} : qcall'[r] = qcall[r]
      /\ qcall'[p] \in {"offer", "offer_all", "notify_all"} => QAfter(p) # "none"
      /\ qkind = "sliding" => qcall'[p] \in {"notify_one", "notify_all"}
  BY <1>1, <1>2 DEF QueueTypeOK, QAfter
<1>8. QueueTypeOK' BY <1>1, <1>2, <1>5, <1>6, <1>7 DEF QueueTypeOK
<1>9. QOnce'
  <2> SUFFICES ASSUME NEW r \in QProducers
               PROVE  /\ IsInjective(qtodo'[r]) /\ Range(qtodo'[r]) \subseteq Range(QOffers[r])
                      /\ Range(qtodo'[r]) \cap Range(qseen') = {}
                      /\ qcall'[r] \in {"offer", "offer_all", "notify_all"} => qtodo'[r] # <<>>
    BY <1>6 DEF QOnce
  <2>1. Range(qtodo[r]) \subseteq Range(QOffers[r]) /\ Range(qtodo[r]) \cap Range(qseen) = {}
        /\ (qcall[r] \in {"offer", "offer_all", "notify_all"} => qtodo[r] # <<>>)
    BY <1>1 DEF QOnce
  <2>2. QED BY <1>5, <1>6, <1>7, <2>1
<1>10. QBack'
  <2> SUFFICES ASSUME NEW a \in QProducers, NEW r \in QProducers
               PROVE  /\ Range(qleft[a]) \cap Range(qseen') = {}
                      /\ Range(qtodo'[r]) \cap Range(qleft[a]) = {}
    BY <1>2 DEF QBack
  <2>1. Range(qleft[a]) \cap Range(qseen) = {} /\ Range(qtodo[r]) \cap Range(qleft[a]) = {}
    BY <1>1 DEF QBack
  <2>2. v \notin Range(qleft[a]) /\ Range(qtodo'[r]) = Range(qtodo[r]) \ {v} BY <1>5
  <2>3. QED BY <1>6, <2>1, <2>2
<1>11. QSwallow'
  <2> SUFFICES ASSUME qkind # "dropping", qopen, NEW r \in QProducers,
                      NEW x \in Range(QOffers[r]) \ (Range(qtodo'[r]) \cup Range(qseen'))
               PROVE  \E q \in QProducers : x \in Range(qleft[q])
    BY <1>2 DEF QSwallow
  <2>1. x \notin Range(qtodo[r]) \cup Range(qseen) BY <1>5, <1>6
  <2>2. QED BY <1>1, <2>1 DEF QSwallow
<1>12. QHands'
  <2>1. PICK D \in SUBSET QValues :
           /\ qdrop' = qdrop \cup D /\ Range(qgone') = Range(qgone) \cup D
           /\ Range(qgone) \cap D = {} /\ (D # {} => qkind = "sliding")
    BY <1>6
  <2>2. QED BY <1>1, <1>2, <2>1 DEF QHands
<1>13. QWaits' BY <1>1, <1>2, <1>7 DEF QWaits
<1>14. QLosses'
  <2>1. PICK D \in SUBSET QValues : qdrop' = qdrop \cup D /\ (D # {} => qkind = "sliding") BY <1>6
  <2>2. QED BY <1>1, <1>2, <2>1 DEF QLosses
<1>15. QED BY <1>6, <1>8, <1>9, <1>10, <1>11, <1>12, <1>13, <1>14 DEF QueueIInv

\* One value of an offer is refused.
LEMMA QueueRefuseOk ==
  ASSUME QueueIInv, NEW p \in QProducers, QOfferStep(p), ~(qopen /\ ~QFull)
  PROVE  QueueIInv'
<1>1. /\ QueueTypeOK /\ QueueFifo /\ QOnce /\ QBack /\ QSwallow /\ QHands /\ QWaits /\ QLosses
  BY DEF QueueIInv
<1>2. /\ qcall[p] \in {"offer", "offer_all"} /\ qtodo' = [qtodo EXCEPT ![p] = Tail(@)]
      /\ qleft' = [qleft EXCEPT ![p] = IF QTold(p) THEN Append(@, Head(qtodo[p])) ELSE @]
      /\ qcall' = [qcall EXCEPT ![p] = QAfter(p)]
      /\ qkind' = qkind /\ qopen' = qopen /\ qclose' = qclose /\ qtake' = qtake /\ qmade' = qmade
      /\ qlate' = qlate /\ qbuf' = qbuf /\ qseen' = qseen /\ qgone' = qgone /\ qdrop' = qdrop
  BY DEF QOfferStep, qcons, qstore
<1>3. qtodo[p] # <<>> BY <1>1, <1>2 DEF QOnce
<1>4. PICK v : v = Head(qtodo[p]) OBVIOUS
<1>5. /\ v \in QValues \ Range(qseen) /\ v \in Range(qtodo[p])
      /\ \A r \in QProducers : v \notin Range(qleft[r])
      /\ qtodo' \in [QProducers -> Seq(QValues)]
      /\ \A r \in QProducers : /\ IsInjective(qtodo'[r])
                               /\ Range(qtodo'[r]) = Range(qtodo[r]) \ {v}
                               /\ r # p => qtodo'[r] = qtodo[r]
      /\ QAfter(p) # "none" => qtodo'[p] # <<>>
  BY <1>2, <1>3, <1>4, QHeadGoes
<1>6. /\ qcall' \in [QProducers -> {"none", "offer", "offer_all", "notify_one", "notify_all"}]
      /\ \A r \in QProducers \ {p} : qcall'[r] = qcall[r]
      /\ qcall'[p] \in {"offer", "offer_all", "notify_all"} => QAfter(p) # "none"
  BY <1>1, <1>2 DEF QueueTypeOK, QAfter
<1>7. /\ qleft' \in [QProducers -> Seq(QValues)]
      /\ \A r \in QProducers : Range(qleft[r]) \subseteq Range(qleft'[r])
      /\ \A r \in QProducers : Range(qleft'[r]) \subseteq Range(qleft[r]) \cup {v}
      /\ QTold(p) => v \in Range(qleft'[p])
  <2>1. qleft \in [QProducers -> Seq(QValues)] BY <1>1 DEF QueueTypeOK
  <2>2. PICK l \in Seq(QValues) : l = qleft[p] BY <2>1
  <2>3. Append(l, v) \in Seq(QValues) /\ Range(Append(l, v)) = Range(l) \cup {v} BY <1>5, RangeAppend
  <2>4. PICK m \in Seq(QValues) : m = IF QTold(p) THEN Append(l, v) ELSE l BY <2>3, Zenon
  <2>5. Range(l) \subseteq Range(m) /\ Range(m) \subseteq Range(l) \cup {v} /\ (QTold(p) => v \in Range(m))
    <3>1. CASE QTold(p) BY <2>3, <2>4, <3>1, Zenon
    <3>2. CASE ~QTold(p) BY <2>3, <2>4, <3>2, Zenon
    <3>3. QED BY <3>1, <3>2
  <2>6. qleft' = [qleft EXCEPT ![p] = m] BY <1>2, <1>4, <2>2, <2>4
  <2>7. /\ qleft'[p] = m /\ \A r \in QProducers \ {p} : qleft'[r] = qleft[r]
        /\ qleft' \in [QProducers -> Seq(QValues)]
    BY <2>1, <2>6
  <2>8. ASSUME NEW r \in QProducers
        PROVE  Range(qleft[r]) \subseteq Range(qleft'[r]) /\ Range(qleft'[r]) \subseteq Range(qleft[r]) \cup {v}
    <3>1. CASE r = p BY <2>2, <2>5, <2>7, <3>1, Zenon
    <3>2. CASE r # p
      <4>1. qleft'[r] = qleft[r] BY <2>7, <3>2
      <4>2. Range(qleft'[r]) = Range(qleft[r]) BY <4>1, Zenon
      <4>3. QED BY <4>2
    <3>3. QED BY <3>1, <3>2
  <2>9. QTold(p) => v \in Range(qleft'[p]) BY <2>5, <2>7, Zenon
  <2>10. QED BY <2>7, <2>8, <2>9, Zenon
<1>8. QueueTypeOK' BY <1>1, <1>2, <1>5, <1>6, <1>7 DEF QueueTypeOK
<1>9. QOnce'
  <2> SUFFICES ASSUME NEW r \in QProducers
               PROVE  /\ IsInjective(qtodo'[r]) /\ Range(qtodo'[r]) \subseteq Range(QOffers[r])
                      /\ Range(qtodo'[r]) \cap Range(qseen') = {}
                      /\ qcall'[r] \in {"offer", "offer_all", "notify_all"} => qtodo'[r] # <<>>
    BY <1>1, <1>2 DEF QOnce
  <2>1. Range(qtodo[r]) \subseteq Range(QOffers[r]) /\ Range(qtodo[r]) \cap Range(qseen) = {}
        /\ (qcall[r] \in {"offer", "offer_all", "notify_all"} => qtodo[r] # <<>>)
    BY <1>1 DEF QOnce
  <2>2. QED BY <1>2, <1>5, <1>6, <2>1
<1>10. QBack'
  <2> SUFFICES ASSUME NEW a \in QProducers, NEW r \in QProducers
               PROVE  /\ Range(qleft'[a]) \cap Range(qseen) = {}
                      /\ Range(qtodo'[r]) \cap Range(qleft'[a]) = {}
    BY <1>2 DEF QBack
  <2>1. Range(qleft[a]) \cap Range(qseen) = {} /\ Range(qtodo[r]) \cap Range(qleft[a]) = {}
    BY <1>1 DEF QBack
  <2>2. Range(qleft'[a]) \subseteq Range(qleft[a]) \cup {v} BY <1>7
  <2>3. Range(qtodo'[r]) = Range(qtodo[r]) \ {v} BY <1>5
  <2>4. QED BY <1>5, <2>1, <2>2, <2>3
<1>11. QSwallow'
  <2>1. qkind # "dropping" /\ qopen => QTold(p) BY DEF QFull, QTold
  <2> SUFFICES ASSUME qkind # "dropping", qopen, NEW r \in QProducers,
                      NEW x \in Range(QOffers[r]) \ (Range(qtodo'[r]) \cup Range(qseen))
               PROVE  \E q \in QProducers : x \in Range(qleft'[q])
    BY <1>2 DEF QSwallow
  <2>2. CASE x = v BY <1>7, <2>1, <2>2
  <2>3. CASE x # v
    <3>1. x \notin Range(qtodo[r]) \cup Range(qseen) BY <1>5, <2>3
    <3>2. PICK q \in QProducers : x \in Range(qleft[q]) BY <1>1, <3>1 DEF QSwallow
    <3>3. QED BY <1>7, <3>2
  <2>4. QED BY <2>2, <2>3
<1>12. QHands' BY <1>1, <1>2 DEF QHands
<1>13. QWaits' BY <1>1, <1>2, <1>6 DEF QWaits
<1>14. QueueFifo' BY <1>1, <1>2 DEF QueueFifo
<1>15. QLosses' BY <1>1, <1>2 DEF QLosses
<1>16. QED BY <1>8, <1>9, <1>10, <1>11, <1>12, <1>13, <1>14, <1>15 DEF QueueIInv

\* A notification, by an offer or by shutdown.
LEMMA QueueNotifyOk ==
  ASSUME QueueIInv, QShutdownNotify \/ \E p \in QProducers : QOfferNotify(p)
  PROVE  QueueIInv'
<1>1. /\ QueueTypeOK /\ QueueFifo /\ QOnce /\ QBack /\ QSwallow /\ QHands /\ QWaits /\ QLosses
  BY DEF QueueIInv
<1>2. /\ QNotifyWaiters
      /\ qkind' = qkind /\ qopen' = qopen /\ qtodo' = qtodo /\ qleft' = qleft /\ qmade' = qmade
      /\ qbuf' = qbuf /\ qseen' = qseen /\ qgone' = qgone /\ qdrop' = qdrop
  BY DEF QShutdownNotify, QOfferNotify, qprod, qstore
<1>3. qclose' \in {"no", "notify", "yes"} BY <1>1 DEF QueueTypeOK, QShutdownNotify, QOfferNotify
<1>4. /\ qcall' \in [QProducers -> {"none", "offer", "offer_all", "notify_one", "notify_all"}]
      /\ \A p \in QProducers : qcall'[p] \in {"offer", "offer_all", "notify_all"} =>
           qcall[p] \in {"offer", "offer_all", "notify_all"}
  BY <1>1 DEF QueueTypeOK, QShutdownNotify, QOfferNotify, qprod
<1>5. /\ qtake' \in [QConsumers -> [at : QTaking, lo : Nat, hi : Nat, out : Seq(QValues)]]
      /\ \A c \in QConsumers : /\ qtake'[c].out = qtake[c].out /\ qtake'[c].at # "asleep"
                               /\ qtake'[c].at = "gap" => qtake[c].at = "gap"
                               /\ qtake'[c].lo = qtake[c].lo /\ qtake'[c].hi = qtake[c].hi
                               /\ qtake'[c].at = qtake[c].at \/ qtake[c].at = "asleep"
  BY <1>1, <1>2 DEF QueueTypeOK, QNotifyWaiters, QTaking
<1>6. /\ qlate' \subseteq QConsumers
      /\ \A c \in QConsumers : qtake[c].at = "gap" => c \in qlate'
  BY <1>1, <1>2 DEF QueueTypeOK, QNotifyWaiters
<1>7. QueueTypeOK' BY <1>1, <1>2, <1>3, <1>4, <1>5, <1>6 DEF QueueTypeOK
<1>8. QueueFifo' /\ QBack' /\ QSwallow' BY <1>1, <1>2 DEF QueueFifo, QBack, QSwallow
<1>9. QOnce' BY <1>1, <1>2, <1>4 DEF QOnce
<1>10. QHands' BY <1>1, <1>2, <1>5 DEF QHands
<1>11. QWaits' BY <1>1, <1>2, <1>5, <1>6 DEF QWaits
<1>12. QLosses' BY <1>1, <1>2, <1>5 DEF QLosses, QAsked
<1>13. QED BY <1>7, <1>8, <1>9, <1>10, <1>11, <1>12 DEF QueueIInv

\* A call of offer starts, and a shutdown closes the queue.
LEMMA QueueCallOk ==
  ASSUME QueueIInv,
         QShutdown \/ \E p \in QProducers, how \in {"offer", "offer_all"} : QOffer(p, how)
  PROVE  QueueIInv'
<1>1. /\ QueueTypeOK /\ QueueFifo /\ QOnce /\ QBack /\ QSwallow /\ QHands /\ QWaits /\ QLosses
  BY DEF QueueIInv
<1>2. /\ qkind' = qkind /\ qtodo' = qtodo /\ qleft' = qleft /\ qmade' = qmade /\ qtake' = qtake
      /\ qbuf' = qbuf /\ qseen' = qseen /\ qgone' = qgone /\ qdrop' = qdrop /\ qlate' = qlate
  BY DEF QShutdown, QOffer, qprod, qcons, qstore
<1>3. CASE QShutdown
  <2>1. /\ qopen' = FALSE /\ qcall' = qcall
        /\ qclose' = IF qkind = "sliding" THEN "notify" ELSE "yes"
    BY <1>3 DEF QShutdown, qprod
  <2>2. QueueTypeOK' BY <1>1, <1>2, <2>1 DEF QueueTypeOK
  <2>3. QueueFifo' /\ QBack' /\ QSwallow' /\ QOnce'
    BY <1>1, <1>2, <2>1 DEF QueueFifo, QBack, QSwallow, QOnce
  <2>4. QHands' /\ QWaits' BY <1>1, <1>2, <2>1 DEF QHands, QWaits
  <2>5. QLosses' BY <1>1, <1>2, <2>1 DEF QLosses
  <2>6. QED BY <2>2, <2>3, <2>4, <2>5 DEF QueueIInv
<1>4. CASE \E p \in QProducers, how \in {"offer", "offer_all"} : QOffer(p, how)
  <2>1. PICK p \in QProducers, how \in {"offer", "offer_all"} :
          /\ qcall[p] = "none" /\ qtodo[p] # <<>> /\ qcall' = [qcall EXCEPT ![p] = how]
          /\ qopen' = qopen /\ qclose' = qclose
    BY <1>4 DEF QOffer
  <2>2. /\ qcall' \in [QProducers -> {"none", "offer", "offer_all", "notify_one", "notify_all"}]
        /\ \A r \in QProducers \ {p} : qcall'[r] = qcall[r]
    BY <1>1, <2>1 DEF QueueTypeOK
  <2>3. QueueTypeOK' BY <1>1, <1>2, <2>1, <2>2 DEF QueueTypeOK
  <2>4. QueueFifo' /\ QBack' /\ QSwallow'
    BY <1>1, <1>2, <2>1 DEF QueueFifo, QBack, QSwallow
  <2>5. QOnce' BY <1>1, <1>2, <2>1, <2>2 DEF QOnce
  <2>6. QHands' BY <1>1, <1>2, <2>1 DEF QHands
  <2>7. QWaits' BY <1>1, <1>2, <2>1, <2>2 DEF QWaits
  <2>8. QLosses' BY <1>1, <1>2, <2>1 DEF QLosses
  <2>9. QED BY <2>3, <2>4, <2>5, <2>6, <2>7, <2>8 DEF QueueIInv
<1>5. QED BY <1>3, <1>4

\* What a consumer may ask for.
QDemand == {d \in Nat \X Nat : d[1] <= d[2] /\ (d[2] > 1 => QGathers)}

\* A take moves and takes no value: it starts, looks, waits, finds nothing, returns.
QMoves(c) == \/ \E d \in QDemand : QTake(c, d)
             \/ QNotified(c) \/ QCollect(c)
             \/ qtake[c].at = "recv" /\ QLook(c) /\ UNCHANGED <<qkind, qopen, qclose, qprod, qmade, qlate>>
             \/ qtake[c].at = "drain" /\ QDry(c) /\ UNCHANGED <<qkind, qopen, qclose, qprod, qmade, qlate>>

\* A consumer goes on without taking anything out of the queue.
LEMMA QueueMoveOk == ASSUME QueueIInv, NEW c \in QConsumers, QMoves(c) PROVE QueueIInv'
<1>1. /\ QueueTypeOK /\ QueueFifo /\ QOnce /\ QBack /\ QSwallow /\ QHands /\ QWaits /\ QLosses
  BY DEF QueueIInv
<1>2. /\ qkind' = qkind /\ qtodo' = qtodo /\ qleft' = qleft /\ qcall' = qcall /\ qopen' = qopen
      /\ qbuf' = qbuf /\ qseen' = qseen /\ qgone' = qgone /\ qdrop' = qdrop /\ qlate' = qlate
      /\ qclose' = qclose
  BY DEF QMoves, QTake, QNotified, QCollect, QLook, QDry, qprod, qstore
<1>3. qtake \in [QConsumers -> [at : QTaking, lo : Nat, hi : Nat, out : Seq(QValues)]]
  BY <1>1 DEF QueueTypeOK
<1>4. PICK t \in [at : QTaking, lo : Nat, hi : Nat, out : Seq(QValues)] :
        /\ qtake' = [qtake EXCEPT ![c] = t]
        /\ t.out = <<>> \/ t.out = qtake[c].out
        /\ t.at = "gap" => qkind = "sliding" /\ qbuf = <<>> /\ qopen
        /\ t.at = "asleep" => qtake[c].at = "gap"
        /\ QAsked(t)
  <2>0. QAsked(qtake[c]) BY <1>1 DEF QLosses
  <2>1. CASE \E d \in QDemand : QTake(c, d)
    <3>1. PICK d \in QDemand : QTake(c, d) BY <2>1
    <3>2. d[1] \in Nat /\ d[2] \in Nat /\ d[1] <= d[2] /\ (d[2] > 1 => QGathers) BY DEF QDemand
    <3>3. PICK t : /\ t = [at |-> IF d[1] = 0 THEN "drain" ELSE "recv", lo |-> d[1], hi |-> d[2], out |-> <<>>]
                   /\ qtake' = [qtake EXCEPT ![c] = t]
      BY <3>1, Zenon DEF QTake
    <3>4. t \in [at : QTaking, lo : Nat, hi : Nat, out : Seq(QValues)] BY <3>2, <3>3 DEF QTaking
    <3>5. QAsked(t) BY <3>2, <3>3 DEF QAsked
    <3>6. QED BY <3>3, <3>4, <3>5
  <2>2. CASE QNotified(c)
    <3>1. qtake[c].at = "gap" /\ qtake' = [qtake EXCEPT ![c] = [qtake[c] EXCEPT !.at = "asleep"]]
      BY <1>3, <2>2 DEF QNotified
    <3>2. [qtake[c] EXCEPT !.at = "asleep"] \in [at : QTaking, lo : Nat, hi : Nat, out : Seq(QValues)]
      BY <1>3 DEF QTaking
    <3>3. QAsked([qtake[c] EXCEPT !.at = "asleep"]) BY <1>3, <2>0, <3>1 DEF QAsked
    <3>4. QED BY <1>3, <3>1, <3>2, <3>3
  <2>3. CASE QCollect(c)
    <3>1. NoTake \in [at : QTaking, lo : Nat, hi : Nat, out : Seq(QValues)] /\ QAsked(NoTake)
      BY DEF NoTake, QTaking, QAsked
    <3>2. QED BY <2>3, <3>1 DEF QCollect, NoTake
  <2>4. CASE qtake[c].at = "recv" /\ QLook(c)
    <3>1. qtake' = [qtake EXCEPT ![c] = [qtake[c] EXCEPT !.at = "gap"]]
          /\ qkind = "sliding" /\ qbuf = <<>> /\ qopen /\ qtake[c].at = "recv"
      BY <1>3, <2>4 DEF QLook
    <3>2. [qtake[c] EXCEPT !.at = "gap"] \in [at : QTaking, lo : Nat, hi : Nat, out : Seq(QValues)]
      BY <1>3 DEF QTaking
    <3>3. QAsked([qtake[c] EXCEPT !.at = "gap"]) BY <1>3, <2>0, <3>1 DEF QAsked
    <3>4. QED BY <1>3, <3>1, <3>2, <3>3
  <2>5. CASE QDry(c)
    <3>1. qtake' = [qtake EXCEPT ![c] = [qtake[c] EXCEPT !.at = "done"]]
      BY <1>3, <2>5 DEF QDry
    <3>2. [qtake[c] EXCEPT !.at = "done"] \in [at : QTaking, lo : Nat, hi : Nat, out : Seq(QValues)]
      BY <1>3 DEF QTaking
    <3>3. QAsked([qtake[c] EXCEPT !.at = "done"]) BY <1>3, <2>0 DEF QAsked
    <3>4. QED BY <1>3, <3>1, <3>2, <3>3
  <2>6. QED BY <2>1, <2>2, <2>3, <2>4, <2>5 DEF QMoves
<1>5. /\ qtake'[c] = t /\ \A e \in QConsumers \ {c} : qtake'[e] = qtake[e]
      /\ qtake' \in [QConsumers -> [at : QTaking, lo : Nat, hi : Nat, out : Seq(QValues)]]
  BY <1>3, <1>4
<1>6. qmade' \in [QConsumers -> Nat]
  <2>1. qmade \in [QConsumers -> Nat] BY <1>1 DEF QueueTypeOK
  <2>2. qmade' = qmade \/ qmade' = [qmade EXCEPT ![c] = @ + 1]
    BY DEF QMoves, QTake, QNotified, QCollect
  <2>3. QED BY <2>1, <2>2
<1>7. QueueTypeOK' BY <1>1, <1>2, <1>5, <1>6 DEF QueueTypeOK
<1>8. QueueFifo' /\ QBack' /\ QSwallow' /\ QOnce'
  BY <1>1, <1>2 DEF QueueFifo, QBack, QSwallow, QOnce
<1>9. QHands'
  <2>1. \A e \in QConsumers : Range(qtake'[e].out) \subseteq Range(qtake[e].out)
    <3>1. Range(qtake'[c].out) \subseteq Range(qtake[c].out)
      <4>1. CASE t.out = <<>> BY <1>5, <4>1, EmptyLine, Zenon
      <4>2. CASE t.out = qtake[c].out BY <1>5, <4>2, Zenon
      <4>3. QED BY <1>4, <4>1, <4>2
    <3>2. \A e \in QConsumers \ {c} : Range(qtake'[e].out) = Range(qtake[e].out) BY <1>5, Zenon
    <3>3. QED BY <3>1, <3>2
  <2>2. QED BY <1>1, <1>2, <2>1 DEF QHands
<1>10. QWaits' BY <1>1, <1>2, <1>4, <1>5 DEF QWaits
<1>11. QLosses' BY <1>1, <1>2, <1>4, <1>5 DEF QLosses
<1>12. QED BY <1>7, <1>8, <1>9, <1>10, <1>11 DEF QueueIInv

\* The step of a take that ends a receive or a try_recv.
QEnds(c) == /\ qtake[c].at \in {"recv", "drain"}
            /\ QPop(c) \/ QFail(c)
            /\ UNCHANGED <<qkind, qopen, qclose, qprod, qmade, qlate>>

\* A consumer takes the oldest value.
LEMMA QueuePopOk ==
  ASSUME QueueIInv, NEW c \in QConsumers, QEnds(c), QPop(c) PROVE QueueIInv'
<1>1. /\ QueueTypeOK /\ QueueFifo /\ QOnce /\ QBack /\ QSwallow /\ QHands /\ QWaits /\ QLosses
  BY DEF QueueIInv
<1>2. /\ qkind' = qkind /\ qtodo' = qtodo /\ qleft' = qleft /\ qcall' = qcall /\ qopen' = qopen
      /\ qmade' = qmade /\ qseen' = qseen /\ qdrop' = qdrop /\ qlate' = qlate /\ qclose' = qclose
      /\ qbuf # <<>> /\ qbuf' = Tail(qbuf) /\ qgone' = Append(qgone, Head(qbuf))
  BY DEF QEnds, QPop, qprod
<1>3. /\ qtake \in [QConsumers -> [at : QTaking, lo : Nat, hi : Nat, out : Seq(QValues)]]
      /\ qbuf \in Seq(QValues) /\ qgone \in Seq(QValues) /\ qseen = qgone \o qbuf /\ IsInjective(qseen)
  BY <1>1 DEF QueueTypeOK, QOnce, QueueFifo
<1>4. PICK v : v = Head(qbuf) OBVIOUS
<1>5. /\ qbuf' \in Seq(QValues) /\ v \in QValues /\ qgone' \in Seq(QValues)
      /\ qgone' \o qbuf' = qseen
      /\ Range(qgone') = Range(qgone) \cup {v} /\ v \notin Range(qgone)
  <2>1. IsInjective(qgone \o qbuf) BY <1>3, Zenon
  <2>2. /\ Tail(qbuf) \in Seq(QValues) /\ Head(qbuf) \in QValues /\ Append(qgone, Head(qbuf)) \in Seq(QValues)
        /\ Append(qgone, Head(qbuf)) \o Tail(qbuf) = qgone \o qbuf
        /\ Range(Append(qgone, Head(qbuf))) = Range(qgone) \cup {Head(qbuf)}
        /\ Head(qbuf) \notin Range(qgone)
    BY <1>2, <1>3, <2>1, LineHead
  <2>3. QED BY <1>2, <1>3, <1>4, <2>2, Zenon
<1>6. PICK o \in Seq(QValues) : o = qtake[c].out BY <1>3
<1>7. Append(o, v) \in Seq(QValues) /\ Range(Append(o, v)) = Range(o) \cup {v} BY <1>5, RangeAppend
<1>8. PICK w \in {"recv", "drain", "done"} :
        qtake' = [qtake EXCEPT ![c] = [qtake[c] EXCEPT !.out = Append(o, v), !.at = w]]
  <2>1. QWhere(qtake[c], Len(qtake[c].out) + 1) \in {"recv", "drain", "done"} BY DEF QWhere
  <2>2. qtake' = [qtake EXCEPT ![c] = [qtake[c] EXCEPT !.out = Append(o, v),
                                                       !.at = QWhere(qtake[c], Len(qtake[c].out) + 1)]]
    BY <1>4, <1>6 DEF QPop
  <2>3. QED BY <2>1, <2>2
<1>9. /\ qtake' \in [QConsumers -> [at : QTaking, lo : Nat, hi : Nat, out : Seq(QValues)]]
      /\ qtake'[c].out = Append(o, v) /\ qtake'[c].at = w
      /\ \A e \in QConsumers \ {c} : qtake'[e] = qtake[e]
  BY <1>3, <1>7, <1>8 DEF QTaking
<1>10. QueueTypeOK' BY <1>1, <1>2, <1>5, <1>9 DEF QueueTypeOK
<1>11. QueueFifo'
  <2>1. qseen' = qgone' \o qbuf' /\ IsInjective(qseen') BY <1>2, <1>3, <1>5, Zenon
  <2>2. QED BY <2>1 DEF QueueFifo
<1>12. QBack' /\ QSwallow' BY <1>1, <1>2 DEF QBack, QSwallow
<1>13. QOnce' BY <1>1, <1>2, <1>5 DEF QOnce
<1>14. QHands'
  <2>1. Range(qtake'[c].out) = Range(qtake[c].out) \cup {v} BY <1>6, <1>7, <1>9, Zenon
  <2>2. v \notin qdrop /\ \A e \in QConsumers : v \notin Range(qtake[e].out)
    BY <1>1, <1>5 DEF QHands
  <2>3. \A e \in QConsumers \ {c} : Range(qtake'[e].out) = Range(qtake[e].out) BY <1>9, Zenon
  <2>4. qdrop \subseteq Range(qgone') BY <1>1, <1>5 DEF QHands
  <2>5. ASSUME NEW e \in QConsumers PROVE Range(qtake'[e].out) \subseteq Range(qgone') \ qdrop
    <3>1. Range(qtake[e].out) \subseteq Range(qgone) \ qdrop BY <1>1 DEF QHands
    <3>2. CASE e = c BY <1>5, <2>1, <2>2, <3>1, <3>2
    <3>3. CASE e # c BY <1>5, <2>3, <3>1, <3>3
    <3>4. QED BY <3>2, <3>3
  <2>6. ASSUME NEW d \in QConsumers, NEW e \in QConsumers, d # e
        PROVE  Range(qtake'[d].out) \cap Range(qtake'[e].out) = {}
    <3>1. Range(qtake[d].out) \cap Range(qtake[e].out) = {} BY <1>1, <2>6 DEF QHands
    <3>2. CASE d = c
      <4>1. Range(qtake'[e].out) = Range(qtake[e].out) /\ v \notin Range(qtake[e].out) BY <2>2, <2>3, <2>6, <3>2
      <4>2. QED BY <2>1, <3>1, <3>2, <4>1
    <3>3. CASE e = c
      <4>1. Range(qtake'[d].out) = Range(qtake[d].out) /\ v \notin Range(qtake[d].out) BY <2>2, <2>3, <2>6, <3>3
      <4>2. QED BY <2>1, <3>1, <3>3, <4>1
    <3>4. CASE d # c /\ e # c BY <2>3, <3>1, <3>4
    <3>5. QED BY <3>2, <3>3, <3>4
  <2>7. QED BY <1>2, <2>4, <2>5, <2>6 DEF QHands
<1>15. QWaits' BY <1>1, <1>2, <1>9 DEF QWaits
<1>16. QLosses'
  <2>1. \A e \in QConsumers : QAsked(qtake[e]) BY <1>1 DEF QLosses
  <2>2. QAsked(qtake'[c])
    <3>1. PICK n \in Nat : n = Len(o) BY <1>6
    <3>2. /\ qtake[c].lo \in Nat /\ qtake[c].hi \in Nat /\ qtake[c].lo <= qtake[c].hi
          /\ qtake'[c].lo = qtake[c].lo /\ qtake'[c].hi = qtake[c].hi
          /\ qtake'[c].at = QWhere(qtake[c], n + 1) /\ (qtake[c].hi > 1 => QGathers)
      <4>1. qtake' = [qtake EXCEPT ![c] = [qtake[c] EXCEPT !.out = Append(o, v), !.at = QWhere(qtake[c], n + 1)]]
        BY <1>4, <1>6, <3>1 DEF QPop
      <4>2. QED BY <1>3, <2>1, <4>1 DEF QAsked
    <3>3. qtake'[c].at \in {"recv", "gap", "asleep", "drain"} => n + 1 < qtake[c].hi BY <3>2 DEF QWhere
    <3>4. QED BY <3>2, <3>3 DEF QAsked
  <2>3. \A e \in QConsumers : QAsked(qtake'[e]) BY <1>9, <2>1, <2>2
  <2>4. qdrop # {} => qkind = "sliding" BY <1>1, <1>2 DEF QLosses
  <2>5. QED BY <1>2, <2>3, <2>4 DEF QLosses
<1>17. QED BY <1>10, <1>11, <1>12, <1>13, <1>14, <1>15, <1>16 DEF QueueIInv

\* A consumer finds the queue shut and drops what it had collected.
LEMMA QueueFailOk ==
  ASSUME QueueIInv, NEW c \in QConsumers, QEnds(c), QFail(c) PROVE QueueIInv'
<1>1. /\ QueueTypeOK /\ QueueFifo /\ QOnce /\ QBack /\ QSwallow /\ QHands /\ QWaits /\ QLosses
  BY DEF QueueIInv
<1>2. /\ qkind' = qkind /\ qtodo' = qtodo /\ qleft' = qleft /\ qcall' = qcall /\ qopen' = qopen
      /\ qmade' = qmade /\ qseen' = qseen /\ qlate' = qlate /\ qclose' = qclose
      /\ qbuf' = qbuf /\ qgone' = qgone /\ ~qopen /\ qbuf = <<>>
      /\ qdrop' = qdrop \cup Range(qtake[c].out)
      /\ qtake' = [qtake EXCEPT ![c].at = "failed", ![c].out = <<>>]
  BY DEF QEnds, QFail, qprod
<1>3. qtake \in [QConsumers -> [at : QTaking, lo : Nat, hi : Nat, out : Seq(QValues)]]
  BY <1>1 DEF QueueTypeOK
<1>4. /\ qtake' \in [QConsumers -> [at : QTaking, lo : Nat, hi : Nat, out : Seq(QValues)]]
      /\ qtake'[c].out = <<>> /\ qtake'[c].at = "failed"
      /\ qtake'[c].lo = qtake[c].lo /\ qtake'[c].hi = qtake[c].hi
      /\ \A e \in QConsumers \ {c} : qtake'[e] = qtake[e]
  <2>1. qtake' = [qtake EXCEPT ![c] = [qtake[c] EXCEPT !.at = "failed", !.out = <<>>]] BY <1>2, <1>3
  <2>2. [qtake[c] EXCEPT !.at = "failed", !.out = <<>>] \in [at : QTaking, lo : Nat, hi : Nat, out : Seq(QValues)]
    <3>1. <<>> \in Seq(QValues) OBVIOUS
    <3>2. QED BY <1>3, <3>1 DEF QTaking
  <2>3. QED BY <1>3, <2>1, <2>2
<1>5. QueueTypeOK' BY <1>1, <1>2, <1>4 DEF QueueTypeOK
<1>6. QueueFifo' /\ QBack' /\ QSwallow' /\ QOnce'
  BY <1>1, <1>2 DEF QueueFifo, QBack, QSwallow, QOnce
<1>7. QHands'
  <2>1. Range(qtake'[c].out) = {} BY <1>4, EmptyLine, Zenon
  <2>2. \A e \in QConsumers \ {c} : Range(qtake'[e].out) = Range(qtake[e].out) BY <1>4, Zenon
  <2>3. \A e \in QConsumers : Range(qtake[e].out) \subseteq Range(qgone) \ qdrop BY <1>1 DEF QHands
  <2>4. \A d, e \in QConsumers : d # e => Range(qtake[d].out) \cap Range(qtake[e].out) = {}
    BY <1>1 DEF QHands
  <2>5. qdrop' \subseteq Range(qgone) BY <1>1, <1>2, <2>3 DEF QHands
  <2>6. \A e \in QConsumers : Range(qtake'[e].out) \subseteq Range(qgone) \ qdrop'
    <3> SUFFICES ASSUME NEW e \in QConsumers PROVE Range(qtake'[e].out) \subseteq Range(qgone) \ qdrop' OBVIOUS
    <3>1. CASE e = c BY <2>1, <3>1
    <3>2. CASE e # c
      <4>1. Range(qtake'[e].out) = Range(qtake[e].out) BY <2>2, <3>2
      <4>2. Range(qtake[c].out) \cap Range(qtake[e].out) = {} BY <2>4, <3>2
      <4>3. Range(qtake[e].out) \subseteq Range(qgone) \ qdrop BY <2>3
      <4>4. QED BY <1>2, <4>1, <4>2, <4>3
    <3>3. QED BY <3>1, <3>2
  <2>7. \A d, e \in QConsumers : d # e => Range(qtake'[d].out) \cap Range(qtake'[e].out) = {}
    BY <2>1, <2>2, <2>4
  <2>8. QED BY <1>2, <2>5, <2>6, <2>7 DEF QHands
<1>8. QWaits' BY <1>1, <1>2, <1>4 DEF QWaits
<1>9. QLosses'
  <2>1. \A e \in QConsumers : QAsked(qtake[e]) BY <1>1 DEF QLosses
  <2>2. QAsked(qtake'[c]) BY <1>4, <2>1 DEF QAsked
  <2>3. \A e \in QConsumers : QAsked(qtake'[e]) BY <1>4, <2>1, <2>2
  <2>4. qtake[c].out = <<>> => Range(qtake[c].out) = {} BY EmptyLine, Zenon
  <2>5. qtake[c].out # <<>> => QGathers BY <2>1 DEF QAsked, QEnds
  <2>6. qdrop' # {} => qkind = "sliding" \/ QGathers BY <1>1, <1>2, <2>4, <2>5 DEF QLosses
  <2>7. QED BY <1>2, <2>3, <2>6 DEF QLosses
<1>10. QED BY <1>5, <1>6, <1>7, <1>8, <1>9 DEF QueueIInv

\* A value that was handed back is to be offered again.
LEMMA QueueAgainOk ==
  ASSUME QueueIInv, NEW p \in QProducers, NEW v \in Range(qleft[p]),
         \A r \in QProducers : Range(qleft[r]) \subseteq Range(QOffers[r]),
         qcall[p] = "none", qcall' = [qcall EXCEPT ![p] = "offer"],
         qleft' \in [QProducers -> Seq(QValues)], qtodo' \in [QProducers -> Seq(QValues)],
         \A r \in QProducers \ {p} : qleft'[r] = qleft[r] /\ qtodo'[r] = qtodo[r],
         Range(qleft'[p]) = Range(qleft[p]) \ {v},
         IsInjective(qtodo'[p]), Range(qtodo'[p]) = Range(qtodo[p]) \cup {v}, qtodo'[p] # <<>>,
         UNCHANGED <<qkind, qopen, qclose, qcons, qstore, qlate>>
  PROVE  QueueIInv'
<1>0. QueueTypeOK /\ QueueFifo /\ QOnce /\ QBack /\ QSwallow /\ QHands /\ QWaits /\ QLosses BY DEF QueueIInv
<1>1. /\ qkind' = qkind /\ qopen' = qopen /\ qclose' = qclose /\ qtake' = qtake /\ qmade' = qmade
      /\ qbuf' = qbuf /\ qseen' = qseen /\ qgone' = qgone /\ qdrop' = qdrop /\ qlate' = qlate
  BY DEF qcons, qstore
<1>2. v \in Range(QOffers[p]) /\ v \notin Range(qseen) BY <1>0 DEF QBack
<1>3. \A r \in QProducers : r # p => v \notin Range(QOffers[r]) BY <1>2, QueueAssumption
<1>4. qcall \in [QProducers -> {"none", "offer", "offer_all", "notify_one", "notify_all"}]
  BY <1>0 DEF QueueTypeOK
<1>5. /\ \A r \in QProducers \ {p} : qcall'[r] = qcall[r]
      /\ qcall'[p] = "offer"
      /\ qcall' \in [QProducers -> {"none", "offer", "offer_all", "notify_one", "notify_all"}]
  BY <1>4
<1>6. QueueTypeOK' BY <1>0, <1>1, <1>5 DEF QueueTypeOK
<1>7. QueueFifo' /\ QHands'
  <2>1. QueueFifo' BY <1>0, <1>1, Zenon DEF QueueFifo
  <2>2. QHands'
    <3>1. /\ qdrop \subseteq Range(qgone)
          /\ (\A c \in QConsumers : Range(qtake[c].out) \subseteq Range(qgone) \ qdrop)
          /\ \A c, e \in QConsumers : c # e => Range(qtake[c].out) \cap Range(qtake[e].out) = {}
      BY <1>0 DEF QHands
    <3>2. qdrop' \subseteq Range(qgone') BY <1>1, <3>1
    <3>3. \A c \in QConsumers : Range(qtake'[c].out) \subseteq Range(qgone') \ qdrop' BY <1>1, <3>1
    <3>4. \A c, e \in QConsumers : c # e => Range(qtake'[c].out) \cap Range(qtake'[e].out) = {}
      BY <1>1, <3>1
    <3>5. QED BY <3>2, <3>3, <3>4, Zenon DEF QHands
  <2>3. QED BY <2>1, <2>2
<1>8. QOnce'
  <2>1. ASSUME NEW r \in QProducers
        PROVE  /\ IsInjective(qtodo'[r]) /\ Range(qtodo'[r]) \subseteq Range(QOffers[r])
               /\ Range(qtodo'[r]) \cap Range(qseen) = {}
               /\ qcall'[r] \in {"offer", "offer_all", "notify_all"} => qtodo'[r] # <<>>
    <3>1. CASE r = p
      <4>1. Range(qtodo[p]) \subseteq Range(QOffers[p]) /\ Range(qtodo[p]) \cap Range(qseen) = {}
        BY <1>0 DEF QOnce
      <4>2. QED BY <1>2, <3>1, <4>1
    <3>2. CASE r # p
      <4>1. qtodo'[r] = qtodo[r] /\ qcall'[r] = qcall[r] BY <1>5, <3>2
      <4>2. QED BY <1>0, <4>1 DEF QOnce
    <3>3. QED BY <3>1, <3>2
  <2>2. QED BY <1>0, <1>1, <2>1 DEF QOnce
<1>9. QBack'
  <2>1. \A q \in QProducers : Range(qleft'[q]) \subseteq Range(qleft[q]) /\ v \notin Range(qleft'[q])
    BY <1>3
  <2>2. \A r \in QProducers : Range(qtodo'[r]) \subseteq Range(qtodo[r]) \cup {v} OBVIOUS
  <2> SUFFICES ASSUME NEW q \in QProducers, NEW r \in QProducers
               PROVE  /\ Range(qleft'[q]) \cap Range(qseen) = {}
                      /\ Range(qtodo'[r]) \cap Range(qleft'[q]) = {}
    BY <1>1 DEF QBack
  <2>3. Range(qleft[q]) \cap Range(qseen) = {} /\ Range(qtodo[r]) \cap Range(qleft[q]) = {}
    BY <1>0 DEF QBack
  <2>4. QED BY <2>1, <2>2, <2>3
<1>10. QSwallow'
  <2> SUFFICES ASSUME qkind # "dropping", qopen, NEW r \in QProducers,
                      NEW x \in Range(QOffers[r]) \ (Range(qtodo'[r]) \cup Range(qseen))
               PROVE  \E q \in QProducers : x \in Range(qleft'[q])
    BY <1>1 DEF QSwallow
  <2>1. x # v BY <1>3
  <2>2. x \notin Range(qtodo[r]) OBVIOUS
  <2>3. PICK q \in QProducers : x \in Range(qleft[q]) BY <1>0, <2>2 DEF QSwallow
  <2>4. x \in Range(qleft'[q]) BY <2>1, <2>3
  <2>5. QED BY <2>4
<1>11. QWaits'
  <2>1. \A r \in QProducers : qcall[r] \in {"notify_one", "notify_all"} => qcall'[r] = qcall[r]
    BY <1>5
  <2>2. QED BY <1>0, <1>1, <2>1 DEF QWaits
<1>12. QLosses' BY <1>0, <1>1 DEF QLosses
<1>13. QED BY <1>6, <1>7, <1>8, <1>9, <1>10, <1>11, <1>12 DEF QueueIInv

\* Values leave in the order in which they were stored and none twice, no value is lost
\* but by a dropping queue, an offer to a closed one, an overflow, or a take for several
\* elements that meets the end of a closed one, and no taker sleeps beside a value
\* unless a notification is to come or overtook it: for every kind and capacity, and any
\* number of producers and consumers (queue.rs).
THEOREM QueueInvariant == QueueSpec => []QueueInv
<1>1. QueueIInv /\ [QueueNext]_qvars => QueueIInv'
  <2> SUFFICES ASSUME QueueIInv, [QueueNext]_qvars PROVE QueueIInv' OBVIOUS
  <2>1. CASE UNCHANGED qvars
    BY <2>1 DEF qvars, QueueIInv, QueueTypeOK, QueueFifo, QOnce, QBack, QSwallow, QHands, QWaits, QLosses
  <2>2. CASE \E p \in QProducers : QProduce(p) \/ \E how \in {"offer", "offer_all"} : QOffer(p, how)
    BY <2>2, QueueStoreOk, QueueRefuseOk, QueueNotifyOk, QueueCallOk DEF QProduce
  <2>3. ASSUME NEW c \in QConsumers, QConsume(c) \/ QCollect(c) \/ \E d \in QDemands[c] : QTake(c, d)
        PROVE  QueueIInv'
    <3>0. QDemands[c] \subseteq QDemand
      <4> SUFFICES ASSUME NEW d \in QDemands[c] PROVE d \in QDemand OBVIOUS
      <4>1. d \in Nat \X Nat /\ d[1] <= d[2] BY QueueAssumption
      <4>2. d[2] > 1 => QGathers BY DEF QGathers
      <4>3. QED BY <4>1, <4>2 DEF QDemand
    <3>1. QMoves(c) \/ QEnds(c) BY <2>3, <3>0 DEF QConsume, QRecv, QTryRecv, QMoves, QEnds
    <3>2. QED BY <3>1, QueueMoveOk, QueuePopOk, QueueFailOk DEF QEnds
  <2>4. CASE QShutdown \/ QShutdownNotify BY <2>4, QueueCallOk, QueueNotifyOk
  <2>5. QED BY <2>1, <2>2, <2>3, <2>4 DEF QueueNext
<1>2. QueueIInv => QueueInv
  <2> SUFFICES ASSUME QueueIInv PROVE QueueInv OBVIOUS
  <2>1. QueueTypeOK /\ QueueFifo /\ QOnce /\ QBack /\ QSwallow /\ QHands /\ QWaits /\ QLosses BY DEF QueueIInv
  <2>2. OffersAccounted
    <3> DEFINE back == UNION {Range(qleft[p]) : p \in QProducers}
    <3>a. \A v : v \in back <=> \E p \in QProducers : v \in Range(qleft[p]) OBVIOUS
    <3> HIDE DEF back
    <3>1. back \cap Range(qseen) = {} BY <2>1, <3>a DEF QBack
    <3>2. ASSUME NEW v \in QOffered \ (back \cup Range(qseen))
          PROVE  qkind = "dropping" \/ ~qopen
      <4>1. PICK p \in QProducers : v \in Range(QOffers[p]) \ Range(qtodo[p]) BY DEF QOffered
      <4>2. v \notin Range(qseen) /\ \A r \in QProducers : v \notin Range(qleft[r]) BY <3>a
      <4>3. QED BY <2>1, <4>1, <4>2 DEF QSwallow
    <3>3. QED BY <3>1, <3>2 DEF OffersAccounted, back
  <2>3. DropsExplained
    <3>1. Range(qgone) \cap Range(qbuf) = {}
      <4>1. qgone \in Seq(QValues) /\ qbuf \in Seq(QValues) /\ IsInjective(qgone \o qbuf)
        BY <2>1 DEF QueueTypeOK, QOnce, QueueFifo
      <4>2. QED BY <4>1, PartsApart
    <3>2. \A c \in QConsumers : qdrop \cap Range(qtake[c].out) = {} BY <2>1 DEF QHands
    <3>3. QED BY <2>1, <3>1, <3>2 DEF QHands, QLosses, DropsExplained, QInHand
  <2>4. QueueSleepers BY <2>1 DEF QWaits, QueueSleepers
  <2>5. QED BY <2>1, <2>2, <2>3, <2>4 DEF QueueInv
<1>3. QED BY <1>1, <1>2, QueueInitOk, PTL DEF QueueSpec

(***************************************************************************)
(* A stream over a queue.                                                  *)
(***************************************************************************)

\* Only the reader takes, one message at a time, while the stream is open.
StReading ==
  LET t == qtake[StReader] IN
  /\ \A c \in QConsumers \ {StReader} : qtake[c].out = <<>>
  /\ t.at \in {"idle", "recv", "gap", "asleep", "done"}
  /\ t.at \in {"recv", "gap", "asleep"} => t.lo = 1 /\ t.hi = 1
  /\ IF t.at = "done" THEN Len(t.out) = 1 ELSE t.out = <<>>
  /\ ststate # "open" => t.at = "idle"
  /\ ststate = "exhausted" => stbuf = <<>>

\* What the reader has in its hand left the queue after what has reached the stream.
StNewest ==
  \A v \in Range(qtake[StReader].out), w \in Range(stgot \o stbuf) \cup Range(sterrs) :
     \E a, b \in DOMAIN qgone : a < b /\ qgone[a] = w /\ qgone[b] = v

\* A stream closes behind an End.
StEnded == ststate # "open" => StEnds \cap Range(qgone) # {}

\* What p has still to send is the rest of its offers; what it was told of is its own,
\* and what it sends again is the message it was told of last, before anything else.
StOwes(p) ==
  LET all == QOffers[p]
      at  == Len(all) - Len(qtodo[p])
  IN  /\ at \in Nat
      /\ \A i \in 1..Len(qtodo[p]) : qtodo[p][i] = all[at + i]
      /\ IsInjective(qleft[p]) /\ Range(qleft[p]) \subseteq Range(all)
      /\ \A i \in DOMAIN qleft[p] : StRepeats(qleft[p][i]) =>
           i = Len(qleft[p]) /\ qcall[p] = "none" /\ at > 0 /\ qleft[p][i] = all[at]
      /\ qcall[p] \in {"none", "offer", "notify_one"}

\* The messages of one sender are stored in the order of its calls.
StStored ==
  \A p \in QProducers : \A i, j \in DOMAIN QOffers[p] : \A a, b \in DOMAIN qseen :
     i < j /\ qseen[a] = QOffers[p][i] /\ qseen[b] = QOffers[p][j] => a < b

\* The queue of a stream is never shut down.
StQueue == QueueIInv /\ qopen = TRUE /\ qkind = StKind(stpolicy)

\* The inductive invariant.
StreamIInv == /\ StreamTypeOK /\ StQueue /\ StReading /\ StreamInOrder /\ StNewest /\ StEnded
              /\ StStored /\ \A p \in QProducers : StOwes(p)

\* The queue goes on and what was filtered from it stays what it was.
LEMMA FilteredLonger ==
  ASSUME NEW part, NEW s, NEW t, NEW S, NEW T, StFiltered(part, s, S),
         DOMAIN s \subseteq DOMAIN t, \A a \in DOMAIN s : t[a] = s[a],
         Range(t) \cap T = Range(s) \cap S
  PROVE  StFiltered(part, t, T)
<1>1. \A i, j \in DOMAIN part : i < j =>
        \E a, b \in DOMAIN t : a < b /\ t[a] = part[i] /\ t[b] = part[j]
  <2> SUFFICES ASSUME NEW i \in DOMAIN part, NEW j \in DOMAIN part, i < j
               PROVE  \E a, b \in DOMAIN t : a < b /\ t[a] = part[i] /\ t[b] = part[j]
    OBVIOUS
  <2>1. PICK a \in DOMAIN s, b \in DOMAIN s : a < b /\ s[a] = part[i] /\ s[b] = part[j]
    BY DEF StFiltered
  <2>2. a \in DOMAIN t /\ b \in DOMAIN t /\ t[a] = s[a] /\ t[b] = s[b] OBVIOUS
  <2>3. QED BY <2>1, <2>2
<1>2. IsInjective(part) /\ Range(part) = Range(t) \cap T BY DEF StFiltered
<1>3. QED BY <1>1, <1>2 DEF StFiltered

\* One more element, behind all the others.
LEMMA FilteredMore ==
  ASSUME NEW V, NEW part \in Seq(V), NEW s, NEW S, NEW T, NEW v \in V, StFiltered(part, s, S),
         v \notin Range(part), Range(s) \cap T = (Range(s) \cap S) \cup {v},
         \A w \in Range(part) : \E a, b \in DOMAIN s : a < b /\ s[a] = w /\ s[b] = v
  PROVE  StFiltered(Append(part, v), s, T)
<1>1. PICK more \in Seq(V) : more = Append(part, v) BY RangeAppend
<1>2. /\ Len(part) \in Nat /\ DOMAIN part = 1..Len(part) /\ DOMAIN more = 1..Len(part) + 1
      /\ more[Len(part) + 1] = v /\ \A i \in 1..Len(part) : more[i] = part[i]
  BY <1>1
<1>3. IsInjective(more) /\ Range(more) = Range(part) \cup {v}
  <2>1. IsInjective(part) BY DEF StFiltered
  <2>2. QED BY <1>1, <2>1, AppendOnce
<1>4. Range(more) = Range(s) \cap T BY <1>3 DEF StFiltered
<1>5. ASSUME NEW i \in DOMAIN more, NEW j \in DOMAIN more, i < j
      PROVE  \E a, b \in DOMAIN s : a < b /\ s[a] = more[i] /\ s[b] = more[j]
  <2>1. i \in DOMAIN part /\ more[i] = part[i] BY <1>2, <1>5
  <2>2. CASE j = Len(part) + 1
    <3>1. more[j] = v /\ part[i] \in Range(part) BY <1>2, <2>1, <2>2 DEF Range
    <3>2. QED BY <2>1, <3>1
  <2>3. CASE j # Len(part) + 1
    <3>1. j \in DOMAIN part /\ more[j] = part[j] BY <1>2, <2>3
    <3>2. \E a, b \in DOMAIN s : a < b /\ s[a] = part[i] /\ s[b] = part[j]
      BY <1>5, <2>1, <3>1 DEF StFiltered
    <3>3. QED BY <2>1, <3>1, <3>2
  <2>4. QED BY <2>2, <2>3
<1>6. StFiltered(more, s, T) BY <1>3, <1>4, <1>5 DEF StFiltered
<1>7. QED BY <1>1, <1>6

\* The reader is the only one with messages in its hand.
LEMMA StHand ==
  ASSUME NEW take, StReader \in QConsumers, \A c \in QConsumers \ {StReader} : take[c].out = <<>>
  PROVE  UNION {Range(take[c].out) : c \in QConsumers} = Range(take[StReader].out)
<1>1. \A c \in QConsumers \ {StReader} : Range(take[c].out) = {} BY EmptyLine, Zenon
<1>2. QED BY <1>1

\* A step that neither gives the stream a message nor takes one away from it.
LEMMA StNothingPassed ==
  ASSUME StreamInOrder, stgot' = stgot, stbuf' = stbuf, sterrs' = sterrs,
         DOMAIN qgone \subseteq DOMAIN qgone', \A a \in DOMAIN qgone : qgone'[a] = qgone[a],
         StPassed' = StPassed
  PROVE  StreamInOrder'
<1>1. StPassed \subseteq Range(qgone) BY DEF StPassed
<1>2. Range(qgone) \subseteq Range(qgone')
  <2> SUFFICES ASSUME NEW a \in DOMAIN qgone PROVE qgone[a] \in Range(qgone') BY DEF Range
  <2>1. a \in DOMAIN qgone' /\ qgone'[a] = qgone[a] OBVIOUS
  <2>2. QED BY <2>1 DEF Range
<1>3. /\ Range(qgone') \cap (StPassed \ StMarks) = Range(qgone) \cap (StPassed \ StMarks)
      /\ Range(qgone') \cap (StPassed \cap StFails) = Range(qgone) \cap (StPassed \cap StFails)
  BY <1>1, <1>2
<1>4. /\ StFiltered(stgot \o stbuf, qgone', StPassed \ StMarks)
      /\ StFiltered(sterrs, qgone', StPassed \cap StFails)
  <2>1. StFiltered(stgot \o stbuf, qgone, StPassed \ StMarks) /\ StFiltered(sterrs, qgone, StPassed \cap StFails)
    BY DEF StreamInOrder
  <2>2. StFiltered(stgot \o stbuf, qgone', StPassed \ StMarks) BY <1>3, <2>1, FilteredLonger
  <2>3. StFiltered(sterrs, qgone', StPassed \cap StFails) BY <1>3, <2>1, FilteredLonger
  <2>4. QED BY <2>2, <2>3
<1>5. QED BY <1>4 DEF StreamInOrder, StFiltered, StMarks

\* A step of the reader leaves the senders alone.
LEMMA StSendersStay ==
  ASSUME StStored, \A p \in QProducers : StOwes(p),
         qtodo' = qtodo, qleft' = qleft, qcall' = qcall, qseen' = qseen, stpolicy' = stpolicy
  PROVE  StStored' /\ \A p \in QProducers : StOwes(p)'
<1>1. StStored' BY DEF StStored
<1>2. ASSUME NEW p \in QProducers PROVE StOwes(p)'
  <2>1. StOwes(p) OBVIOUS
  <2>2. \A v : StRepeats(v)' = StRepeats(v) BY DEF StRepeats
  <2>3. QED BY <2>1, <2>2 DEF StOwes, StRepeats
<1>3. QED BY <1>1, <1>2

\* A step of a sender leaves the stream alone.
LEMMA StStreamStays ==
  ASSUME StreamTypeOK, StReading, StreamInOrder, StNewest, StEnded, UNCHANGED stown,
         DOMAIN qgone \subseteq DOMAIN qgone', \A a \in DOMAIN qgone : qgone'[a] = qgone[a],
         \A c \in QConsumers : qtake'[c].out = qtake[c].out,
         \/ qtake'[StReader] = qtake[StReader]
         \/ /\ qtake[StReader].at = "asleep" /\ qtake'[StReader].at = "recv"
            /\ qtake'[StReader].lo = qtake[StReader].lo /\ qtake'[StReader].hi = qtake[StReader].hi,
         Range(qgone') \ qdrop' = Range(qgone) \ qdrop
  PROVE  StReading' /\ StreamInOrder' /\ StNewest' /\ StEnded'
<1>1. stpolicy' = stpolicy /\ ststate' = ststate /\ stbuf' = stbuf /\ stgot' = stgot /\ sterrs' = sterrs
  BY DEF stown
<1>2. StReader \in QConsumers BY StreamAssumption
<1>3. StReading' BY <1>1, <1>2 DEF StReading
<1>4. QInHand' = QInHand BY DEF QInHand
<1>5. StPassed' = StPassed BY <1>4 DEF StPassed
<1>6. StreamInOrder' BY <1>1, <1>5, StNothingPassed
<1>7. StNewest'
  <2> SUFFICES ASSUME NEW v \in Range(qtake[StReader].out),
                      NEW w \in Range(stgot \o stbuf) \cup Range(sterrs)
               PROVE  \E a, b \in DOMAIN qgone' : a < b /\ qgone'[a] = w /\ qgone'[b] = v
    BY <1>1, <1>2 DEF StNewest
  <2>1. PICK a \in DOMAIN qgone, b \in DOMAIN qgone : a < b /\ qgone[a] = w /\ qgone[b] = v
    BY DEF StNewest
  <2>2. a \in DOMAIN qgone' /\ b \in DOMAIN qgone' /\ qgone'[a] = w /\ qgone'[b] = v BY <2>1
  <2>3. QED BY <2>1, <2>2
<1>8. StEnded'
  <2>1. Range(qgone) \subseteq Range(qgone')
    <3> SUFFICES ASSUME NEW a \in DOMAIN qgone PROVE qgone[a] \in Range(qgone') BY DEF Range
    <3>1. a \in DOMAIN qgone' /\ qgone'[a] = qgone[a] OBVIOUS
    <3>2. QED BY <3>1 DEF Range
  <2>2. QED BY <1>1, <2>1 DEF StEnded
<1>9. QED BY <1>3, <1>6, <1>7, <1>8

\* The parts of the invariant.
LEMMA StParts ==
  ASSUME StreamIInv
  PROVE  /\ StreamTypeOK /\ StQueue /\ StReading /\ StreamInOrder /\ StNewest /\ StEnded
         /\ StStored /\ (\A p \in QProducers : StOwes(p))
         /\ QueueIInv /\ qopen = TRUE /\ qkind = StKind(stpolicy)
         /\ QueueTypeOK /\ QueueFifo /\ QOnce /\ QBack /\ QSwallow /\ QHands /\ QWaits /\ QLosses
         /\ stpolicy \in StPolicies /\ stbuf \in Seq(QValues) /\ stgot \in Seq(QValues)
         /\ sterrs \in Seq(StFails) /\ ststate \in {"open", "closed", "exhausted"}
         /\ StReader \in QConsumers
<1>1. StReader \in QConsumers BY StreamAssumption
<1>2. QED BY <1>1 DEF StreamIInv, StQueue, QueueIInv, StreamTypeOK

\* What a sender sends.
LEMMA QOffersTyped ==
  ASSUME NEW p \in QProducers
  PROVE  QOffers[p] \in Seq(QValues) /\ IsInjective(QOffers[p])
<1>1. QOffers[p] \in Seq(Range(QOffers[p])) BY QueueAssumption
<1>2. Range(QOffers[p]) \subseteq QValues BY DEF QValues
<1>3. QED BY <1>1, <1>2, SeqMonotonic, QueueAssumption

\* How far p has got.
StSentBy(p) == Len(QOffers[p]) - Len(qtodo[p])

\* The next message of p is the next of its offers, and those behind it are to come.
LEMMA StNextOf ==
  ASSUME StreamIInv, NEW p \in QProducers, qtodo[p] # <<>>,
         qtodo' = [qtodo EXCEPT ![p] = Tail(@)]
  PROVE  /\ Len(QOffers[p]) \in Nat /\ DOMAIN QOffers[p] = 1..Len(QOffers[p])
         /\ StSentBy(p) \in Nat /\ StSentBy(p)' = StSentBy(p) + 1
         /\ StSentBy(p) + 1 \in DOMAIN QOffers[p]
         /\ Head(qtodo[p]) = QOffers[p][StSentBy(p) + 1]
         /\ Len(qtodo'[p]) \in Nat
         /\ \A i \in 1..Len(qtodo'[p]) : qtodo'[p][i] = QOffers[p][StSentBy(p) + 1 + i]
         /\ \A j \in DOMAIN QOffers[p] : j > StSentBy(p) => QOffers[p][j] \in Range(qtodo[p])
<1>1. qtodo \in [QProducers -> Seq(QValues)] BY StParts DEF QueueTypeOK
<1>2. PICK t \in Seq(QValues) : t = qtodo[p] BY <1>1
<1>3. PICK all \in Seq(QValues) : all = QOffers[p] BY QOffersTyped
<1>4. PICK n : n = StSentBy(p) OBVIOUS
<1>5. n = Len(all) - Len(t) /\ n \in Nat /\ \A i \in 1..Len(t) : t[i] = all[n + i]
  BY <1>2, <1>3, <1>4, StParts DEF StOwes, StSentBy
<1>6. /\ Len(all) \in Nat /\ DOMAIN all = 1..Len(all) /\ Len(t) \in Nat \ {0} /\ DOMAIN t = 1..Len(t)
      /\ Tail(t) \in Seq(QValues) /\ Len(Tail(t)) = Len(t) - 1 /\ Head(t) = t[1]
      /\ \A i \in 1..Len(t) - 1 : Tail(t)[i] = t[i + 1]
  BY <1>2
<1>7. qtodo'[p] = Tail(t) BY <1>1, <1>2
<1>8. n + 1 \in DOMAIN all /\ Head(t) = all[n + 1] BY <1>5, <1>6
<1>9. StSentBy(p)' = n + 1
  <2>1. PICK y \in Nat, z \in Nat : y = Len(all) /\ z = Len(t) BY <1>6
  <2>2. n = y - z /\ Len(qtodo'[p]) = z - 1 BY <1>5, <1>6, <1>7, <2>1
  <2>3. y - (z - 1) = n + 1 BY <2>2
  <2>4. QED BY <1>3, <2>1, <2>2, <2>3, Zenon DEF StSentBy
<1>10. ASSUME NEW i \in 1..Len(Tail(t)) PROVE Tail(t)[i] = all[n + 1 + i]
  <2>1. i + 1 \in 1..Len(t) /\ Tail(t)[i] = t[i + 1] BY <1>6
  <2>2. t[i + 1] = all[n + (i + 1)] BY <1>5, <2>1
  <2>3. n + (i + 1) = n + 1 + i BY <1>5, <1>6
  <2>4. QED BY <2>1, <2>2, <2>3
<1>11. ASSUME NEW j \in DOMAIN all, j > n PROVE all[j] \in Range(t)
  <2>1. j - n \in DOMAIN t /\ n + (j - n) = j BY <1>5, <1>6, <1>11
  <2>2. t[j - n] = all[j] BY <1>5, <1>6, <2>1
  <2>3. QED BY <2>1, <2>2 DEF Range
<1>12. /\ Len(all) \in Nat /\ DOMAIN all = 1..Len(all) /\ n \in Nat /\ StSentBy(p)' = n + 1
       /\ n + 1 \in DOMAIN all /\ Head(t) = all[n + 1] /\ Len(qtodo'[p]) \in Nat
       /\ \A i \in 1..Len(qtodo'[p]) : qtodo'[p][i] = all[n + 1 + i]
       /\ \A j \in DOMAIN all : j > n => all[j] \in Range(t)
  <2>1. Len(qtodo'[p]) \in Nat BY <1>6, <1>7
  <2>2. \A i \in 1..Len(qtodo'[p]) : qtodo'[p][i] = all[n + 1 + i] BY <1>7, <1>10
  <2>3. QED BY <1>5, <1>6, <1>8, <1>9, <1>11, <2>1, <2>2, Zenon
<1>13. QED BY <1>2, <1>3, <1>4, <1>12, Zenon

\* Storing a message puts what leaves the queue behind what has left it.
LEMMA StGoneGrows ==
  ASSUME QueueIInv, NEW v \in QValues \ Range(qseen), QStore(v)
  PROVE  /\ DOMAIN qgone \subseteq DOMAIN qgone' /\ \A a \in DOMAIN qgone : qgone'[a] = qgone[a]
         /\ qseen' = Append(qseen, v)
<1>1. qbuf \in Seq(QValues) /\ qgone \in Seq(QValues) BY DEF QueueIInv, QueueTypeOK, QOnce
<1>2. PICK all \in Seq(QValues) : all = Append(qbuf, v)
  <2>1. Append(qbuf, v) \in Seq(QValues) BY <1>1, RangeAppend
  <2>2. QED BY <2>1, Zenon
<1>3. PICK k : /\ k = IF qkind = "sliding" /\ Len(all) > Cap THEN Len(all) - Cap ELSE 0
               /\ qgone' = qgone \o SubSeq(all, 1, k) /\ qseen' = Append(qseen, v)
  BY <1>2, Zenon DEF QStore
<1>4. k \in 0..Len(all)
  <2>1. Len(all) \in Nat /\ Cap \in Nat BY QueueAssumption DEF Cap
  <2>2. QED BY <1>3, <2>1
<1>5. PICK d \in Seq(QValues) : d = SubSeq(all, 1, k)
  <2>1. SubSeq(all, 1, k) \in Seq(QValues) BY <1>1, <1>4, PartsSplit
  <2>2. QED BY <2>1, Zenon
<1>6. PICK g \in Seq(QValues) : g = qgone \o d
  <2>1. qgone \o d \in Seq(QValues) BY <1>1, TwoParts
  <2>2. QED BY <2>1, Zenon
<1>7. Len(g) = Len(qgone) + Len(d) /\ \A i \in 1..Len(qgone) : g[i] = qgone[i]
  BY <1>1, <1>6, TwoParts
<1>8. DOMAIN qgone = 1..Len(qgone) /\ DOMAIN g = 1..Len(g) /\ Len(d) \in Nat /\ Len(qgone) \in Nat BY <1>1
<1>9. DOMAIN qgone \subseteq DOMAIN g /\ \A a \in DOMAIN qgone : g[a] = qgone[a] BY <1>7, <1>8
<1>10. qgone' = g BY <1>3, <1>5, <1>6, Zenon
<1>11. QED BY <1>3, <1>9, <1>10

\* A message is stored, behind the earlier ones of its sender.
LEMMA StStoreOk ==
  ASSUME StreamIInv, NEW p \in QProducers, QOfferStep(p), UNCHANGED stown, ~QFull
  PROVE  StreamIInv'
<1>0. /\ StreamTypeOK /\ StQueue /\ StReading /\ StreamInOrder /\ StNewest /\ StEnded
      /\ StStored /\ (\A r \in QProducers : StOwes(r))
      /\ QueueIInv /\ qopen = TRUE /\ qkind = StKind(stpolicy)
      /\ QueueTypeOK /\ QOnce /\ QBack /\ StReader \in QConsumers
  BY StParts
<1>1. QueueIInv' BY <1>0, QueueStoreOk
<1>2. /\ qcall[p] \in {"offer", "offer_all"} /\ qtodo' = [qtodo EXCEPT ![p] = Tail(@)]
      /\ QStore(Head(qtodo[p])) /\ qleft' = qleft
      /\ qcall' = [qcall EXCEPT ![p] = IF qkind # "sliding" THEN QAfter(p)
                                       ELSE IF QAfter(p) = "none" THEN "notify_one" ELSE "notify_all"]
      /\ qkind' = qkind /\ qopen' = qopen /\ qtake' = qtake
  BY <1>0 DEF QOfferStep, qcons
<1>3. stpolicy' = stpolicy /\ ststate' = ststate /\ stbuf' = stbuf /\ stgot' = stgot /\ sterrs' = sterrs
  BY DEF stown
<1>4. qtodo[p] # <<>> BY <1>0, <1>2 DEF QOnce
<1>5. PICK v : v = Head(qtodo[p]) OBVIOUS
<1>6. v \in QValues \ Range(qseen) /\ v \in Range(qtodo[p])
      /\ \A r \in QProducers : r # p => qtodo'[r] = qtodo[r]
  BY <1>0, <1>2, <1>4, <1>5, QHeadGoes
<1>7. DOMAIN qgone \subseteq DOMAIN qgone' /\ (\A a \in DOMAIN qgone : qgone'[a] = qgone[a])
      /\ qseen' = Append(qseen, v)
  BY <1>0, <1>2, <1>5, <1>6, StGoneGrows
<1>8. Range(qgone') \ qdrop' = Range(qgone) \ qdrop
  <2>1. PICK D \in SUBSET QValues :
          /\ qdrop' = qdrop \cup D /\ Range(qgone') = Range(qgone) \cup D /\ Range(qgone) \cap D = {}
    BY <1>0, <1>2, <1>5, <1>6, QStoreMoves
  <2>2. QED BY <2>1
<1>9. StReading' /\ StreamInOrder' /\ StNewest' /\ StEnded'
  BY <1>0, <1>2, <1>7, <1>8, StStreamStays
<1>10. PICK n : n = StSentBy(p) OBVIOUS
<1>11. /\ Len(QOffers[p]) \in Nat /\ DOMAIN QOffers[p] = 1..Len(QOffers[p])
       /\ n \in Nat /\ StSentBy(p)' = n + 1 /\ n + 1 \in DOMAIN QOffers[p]
       /\ v = QOffers[p][n + 1] /\ Len(qtodo'[p]) \in Nat
       /\ \A i \in 1..Len(qtodo'[p]) : qtodo'[p][i] = QOffers[p][n + 1 + i]
       /\ \A j \in DOMAIN QOffers[p] : j > n => QOffers[p][j] \in Range(qtodo[p])
  BY <1>2, <1>4, <1>5, <1>10, StNextOf
<1>12. StStored'
  <2> SUFFICES ASSUME NEW r \in QProducers, NEW i \in DOMAIN QOffers[r], NEW j \in DOMAIN QOffers[r],
                      NEW a \in DOMAIN qseen', NEW b \in DOMAIN qseen',
                      i < j, qseen'[a] = QOffers[r][i], qseen'[b] = QOffers[r][j]
               PROVE  a < b
    BY DEF StStored
  <2>1. PICK s \in Seq(QValues) : s = qseen BY <1>0 DEF QOnce
  <2>2. /\ Len(s) \in Nat /\ DOMAIN s = 1..Len(s) /\ DOMAIN qseen' = 1..Len(s) + 1
        /\ qseen'[Len(s) + 1] = v /\ \A x \in 1..Len(s) : qseen'[x] = s[x]
    BY <2>1, <1>6, <1>7
  <2>3. QOffers[r] \in Seq(QValues) /\ IsInjective(QOffers[r]) BY QOffersTyped
  <2>a. DOMAIN QOffers[r] = 1..Len(QOffers[r]) /\ Len(QOffers[r]) \in Nat BY <2>3
  <2>4. QOffers[r][i] # QOffers[r][j] BY <2>3, <2>a DEF IsInjective
  <2>5. CASE a \in DOMAIN s /\ b \in DOMAIN s BY <2>5, <2>1, <2>2, <1>0 DEF StStored
  <2>6. CASE a \in DOMAIN s /\ b \notin DOMAIN s BY <2>6, <2>2
  <2>7. CASE a \notin DOMAIN s
    <3>1. a = Len(s) + 1 /\ QOffers[r][i] = v BY <2>2, <2>7
    <3>2. b \in DOMAIN s /\ qseen'[b] = s[b] BY <2>2, <2>4, <3>1
    <3>3. r = p
      <4>1. v \in Range(QOffers[r]) BY <3>1 DEF Range
      <4>2. v \in Range(QOffers[p]) BY <1>11 DEF Range
      <4>3. QED BY <4>1, <4>2, QueueAssumption
    <3>4. i = n + 1 BY <3>1, <3>3, <2>3, <1>11 DEF IsInjective
    <3>5. QOffers[p][j] \in Range(qtodo[p])
      <4>1. j > n BY <3>3, <3>4, <1>11
      <4>2. QED BY <3>3, <4>1, <1>11
    <3>6. QOffers[p][j] \in Range(qseen) BY <2>1, <3>2, <3>3 DEF Range
    <3>7. QED BY <3>5, <3>6, <1>0 DEF QOnce
  <2>8. QED BY <2>5, <2>6, <2>7
<1>13. ASSUME NEW r \in QProducers PROVE StOwes(r)'
  <2>0. StOwes(r) BY <1>0
  <2>a. \A x : StRepeats(x)' = StRepeats(x) BY <1>3 DEF StRepeats
  <2>b. qcall \in [QProducers -> {"none", "offer", "offer_all", "notify_one", "notify_all"}]
    BY <1>0 DEF QueueTypeOK
  <2>1. CASE r # p
    <3>1. qtodo'[r] = qtodo[r] /\ qleft'[r] = qleft[r] /\ qcall'[r] = qcall[r] BY <2>1, <1>2, <1>6, <2>b
    <3>2. QED BY <2>0, <3>1, <1>3 DEF StOwes, StRepeats
  <2>2. CASE r = p
    <3>0. qcall[p] = "offer" BY <2>0, <2>2, <1>2 DEF StOwes
    <3>1. QAfter(p) = "none" BY <3>0 DEF QAfter
    <3>2. qcall'[p] \in {"none", "notify_one"} BY <1>2, <2>b, <3>1
    <3>3. \A i \in DOMAIN qleft[p] : ~StRepeats(qleft[p][i]) BY <2>0, <2>2, <3>0 DEF StOwes
    <3>4. /\ Len(QOffers[p]) - Len(qtodo'[p]) = n + 1
          /\ \A i \in 1..Len(qtodo'[p]) : qtodo'[p][i] = QOffers[p][(n + 1) + i]
      BY <1>11 DEF StSentBy
    <3>5. IsInjective(qleft[p]) /\ Range(qleft[p]) \subseteq Range(QOffers[p]) BY <2>0, <2>2 DEF StOwes
    <3>6. n + 1 \in Nat BY <1>11
    <3>7. QED BY <2>2, <3>2, <3>3, <3>4, <3>5, <3>6, <1>2, <1>3 DEF StOwes, StRepeats
  <2>3. QED BY <2>1, <2>2
<1>14. StreamTypeOK' /\ StQueue'
  <2>1. QueueTypeOK' BY <1>1 DEF QueueIInv
  <2>2. QED BY <1>0, <1>1, <1>2, <1>3, <2>1 DEF StreamTypeOK, StQueue
<1>15. QED BY <1>9, <1>12, <1>13, <1>14 DEF StreamIInv

\* A message is refused, and its sender is told.
LEMMA StRefuseOk ==
  ASSUME StreamIInv, NEW p \in QProducers, QOfferStep(p), UNCHANGED stown, QFull
  PROVE  StreamIInv'
<1>0. /\ StreamTypeOK /\ StQueue /\ StReading /\ StreamInOrder /\ StNewest /\ StEnded
      /\ StStored /\ (\A r \in QProducers : StOwes(r))
      /\ QueueIInv /\ qopen = TRUE /\ qkind = StKind(stpolicy)
      /\ QueueTypeOK /\ QOnce /\ QBack /\ StReader \in QConsumers
  BY StParts
<1>1. QueueIInv' BY <1>0, QueueRefuseOk
<1>2. /\ qcall[p] \in {"offer", "offer_all"} /\ qtodo' = [qtodo EXCEPT ![p] = Tail(@)]
      /\ qleft' = [qleft EXCEPT ![p] = IF QTold(p) THEN Append(@, Head(qtodo[p])) ELSE @]
      /\ qcall' = [qcall EXCEPT ![p] = QAfter(p)]
      /\ qkind' = qkind /\ qopen' = qopen /\ qtake' = qtake
      /\ qseen' = qseen /\ qgone' = qgone /\ qdrop' = qdrop
  BY <1>0 DEF QOfferStep, qcons, qstore
<1>3. stpolicy' = stpolicy /\ ststate' = ststate /\ stbuf' = stbuf /\ stgot' = stgot /\ sterrs' = sterrs
  BY DEF stown
<1>4. qtodo[p] # <<>> BY <1>0, <1>2 DEF QOnce
<1>5. PICK v : v = Head(qtodo[p]) OBVIOUS
<1>6. v \in QValues /\ v \notin Range(qleft[p]) /\ \A r \in QProducers : r # p => qtodo'[r] = qtodo[r]
  BY <1>0, <1>2, <1>4, <1>5, QHeadGoes
<1>7. StReading' /\ StreamInOrder' /\ StNewest' /\ StEnded' BY <1>0, <1>2, StStreamStays
<1>8. PICK n : n = StSentBy(p) OBVIOUS
<1>9. /\ Len(QOffers[p]) \in Nat /\ DOMAIN QOffers[p] = 1..Len(QOffers[p])
      /\ n \in Nat /\ StSentBy(p)' = n + 1 /\ n + 1 \in DOMAIN QOffers[p]
      /\ v = QOffers[p][n + 1] /\ Len(qtodo'[p]) \in Nat
      /\ \A i \in 1..Len(qtodo'[p]) : qtodo'[p][i] = QOffers[p][n + 1 + i]
  BY <1>2, <1>4, <1>5, <1>8, StNextOf
<1>10. StStored' BY <1>0, <1>2 DEF StStored
<1>11. ASSUME NEW r \in QProducers PROVE StOwes(r)'
  <2>0. StOwes(r) BY <1>0
  <2>b. /\ qcall \in [QProducers -> {"none", "offer", "offer_all", "notify_one", "notify_all"}]
        /\ qleft \in [QProducers -> Seq(QValues)]
    BY <1>0 DEF QueueTypeOK
  <2>1. CASE r # p
    <3>1. qtodo'[r] = qtodo[r] /\ qleft'[r] = qleft[r] /\ qcall'[r] = qcall[r] BY <2>1, <1>2, <1>6, <2>b
    <3>2. QED BY <2>0, <3>1, <1>3 DEF StOwes, StRepeats
  <2>2. CASE r = p
    <3>0. qcall[p] = "offer" BY <2>0, <2>2, <1>2 DEF StOwes
    <3>1. qcall'[p] = "none" BY <1>2, <2>b, <3>0 DEF QAfter
    <3>2. PICK l \in Seq(QValues) : l = qleft[p] BY <2>b
    <3>3. PICK m \in Seq(QValues) : m = Append(l, v) BY <1>6, RangeAppend
    <3>4. QTold(p) BY <3>0 DEF QTold
    <3>5. qleft'[p] = m BY <1>2, <1>5, <2>b, <3>2, <3>3, <3>4
    <3>6. /\ IsInjective(l) /\ Range(l) \subseteq Range(QOffers[p])
          /\ \A i \in DOMAIN l : ~StRepeats(l[i])
      BY <2>0, <2>2, <3>0, <3>2 DEF StOwes
    <3>7. IsInjective(m) /\ Range(m) = Range(l) \cup {v} BY <1>6, <3>2, <3>3, <3>6, AppendOnce
    <3>8. v \in Range(QOffers[p]) BY <1>9 DEF Range
    <3>9. ASSUME NEW i \in DOMAIN m, StRepeats(m[i]) PROVE i = Len(m) /\ m[i] = v
      <4>1. /\ Len(l) \in Nat /\ DOMAIN l = 1..Len(l) /\ DOMAIN m = 1..Len(l) + 1 /\ Len(m) = Len(l) + 1
            /\ m[Len(l) + 1] = v /\ \A x \in 1..Len(l) : m[x] = l[x]
        BY <1>6, <3>3
      <4>2. CASE i \in DOMAIN l BY <4>1, <4>2, <3>6, <3>9
      <4>3. CASE i \notin DOMAIN l BY <4>1, <4>3
      <4>4. QED BY <4>2, <4>3
    <3>10. \A i \in DOMAIN m : StRepeats(m[i])' => i = Len(m) /\ m[i] = QOffers[p][n + 1]
      BY <1>3, <1>9, <3>9 DEF StRepeats
    <3>11. /\ Len(QOffers[p]) - Len(qtodo'[p]) = n + 1
           /\ \A i \in 1..Len(qtodo'[p]) : qtodo'[p][i] = QOffers[p][(n + 1) + i]
      BY <1>9 DEF StSentBy
    <3>12. n + 1 \in Nat /\ n + 1 > 0 BY <1>9
    <3>13. Range(m) \subseteq Range(QOffers[p]) BY <3>6, <3>7, <3>8
    <3>14. QED BY <2>2, <3>1, <3>5, <3>7, <3>10, <3>11, <3>12, <3>13, <1>3 DEF StOwes, StRepeats
  <2>3. QED BY <2>1, <2>2
<1>12. StreamTypeOK' /\ StQueue'
  <2>1. QueueTypeOK' BY <1>1 DEF QueueIInv
  <2>2. QED BY <1>0, <1>1, <1>2, <1>3, <2>1 DEF StreamTypeOK, StQueue
<1>13. QED BY <1>7, <1>10, <1>11, <1>12 DEF StreamIInv

\* A sliding queue wakes the reader.
LEMMA StNotifyOk ==
  ASSUME StreamIInv, NEW p \in QProducers, QOfferNotify(p), UNCHANGED stown PROVE StreamIInv'
<1>0. /\ StreamTypeOK /\ StQueue /\ StReading /\ StreamInOrder /\ StNewest /\ StEnded
      /\ StStored /\ (\A r \in QProducers : StOwes(r))
      /\ QueueIInv /\ qopen = TRUE /\ QueueTypeOK /\ StReader \in QConsumers
  BY StParts
<1>1. QueueIInv' BY <1>0, QueueNotifyOk
<1>2. /\ QNotifyWaiters /\ qcall[p] \in {"notify_one", "notify_all"}
      /\ qcall' = [qcall EXCEPT ![p] = IF @ = "notify_one" THEN "none" ELSE "offer_all"]
      /\ qkind' = qkind /\ qopen' = qopen /\ qtodo' = qtodo /\ qleft' = qleft
      /\ qseen' = qseen /\ qgone' = qgone /\ qdrop' = qdrop
  BY DEF QOfferNotify, qstore
<1>3. stpolicy' = stpolicy /\ ststate' = ststate /\ stbuf' = stbuf /\ stgot' = stgot /\ sterrs' = sterrs
  BY DEF stown
<1>4. qtake \in [QConsumers -> [at : QTaking, lo : Nat, hi : Nat, out : Seq(QValues)]]
  BY <1>0 DEF QueueTypeOK
<1>5. /\ \A c \in QConsumers : qtake'[c].out = qtake[c].out
      /\ \/ qtake'[StReader] = qtake[StReader]
         \/ /\ qtake[StReader].at = "asleep" /\ qtake'[StReader].at = "recv"
            /\ qtake'[StReader].lo = qtake[StReader].lo /\ qtake'[StReader].hi = qtake[StReader].hi
  BY <1>0, <1>2, <1>4 DEF QNotifyWaiters
<1>6. StReading' /\ StreamInOrder' /\ StNewest' /\ StEnded' BY <1>0, <1>2, <1>5, StStreamStays
<1>7. StStored' BY <1>0, <1>2 DEF StStored
<1>8. ASSUME NEW r \in QProducers PROVE StOwes(r)'
  <2>1. StOwes(r) BY <1>0
  <2>2. qcall \in [QProducers -> {"none", "offer", "offer_all", "notify_one", "notify_all"}]
    BY <1>0 DEF QueueTypeOK
  <2>3. StOwes(p) BY <1>0
  <2>4. qcall[p] = "notify_one" BY <1>2, <2>3 DEF StOwes
  <2>5. qcall'[r] \in {"none", "offer", "notify_one"} /\ (qcall[r] = "none" => qcall'[r] = "none")
    <3>1. CASE r = p BY <3>1, <1>2, <2>2, <2>4
    <3>2. CASE r # p BY <3>2, <1>2, <2>1, <2>2 DEF StOwes
    <3>3. QED BY <3>1, <3>2
  <2>6. QED BY <1>2, <1>3, <2>1, <2>5 DEF StOwes, StRepeats
<1>9. StreamTypeOK' /\ StQueue'
  <2>1. QueueTypeOK' BY <1>1 DEF QueueIInv
  <2>2. QED BY <1>0, <1>1, <1>2, <1>3, <2>1 DEF StreamTypeOK, StQueue
<1>10. QED BY <1>6, <1>7, <1>8, <1>9 DEF StreamIInv

\* A sender begins with its next message; it owes no other.
LEMMA StSendOk == ASSUME StreamIInv, NEW p \in QProducers, StSend(p) PROVE StreamIInv'
<1>0. /\ StreamTypeOK /\ StQueue /\ StReading /\ StreamInOrder /\ StNewest /\ StEnded
      /\ StStored /\ (\A r \in QProducers : StOwes(r))
      /\ QueueIInv /\ qopen = TRUE /\ QueueTypeOK /\ StReader \in QConsumers
  BY StParts
<1>1. QueueIInv' BY <1>0, QueueCallOk DEF StSend
<1>2. /\ ~StRefused(p) /\ qcall[p] = "none" /\ qcall' = [qcall EXCEPT ![p] = "offer"]
      /\ qkind' = qkind /\ qopen' = qopen /\ qtodo' = qtodo /\ qleft' = qleft /\ qtake' = qtake
      /\ qseen' = qseen /\ qgone' = qgone /\ qdrop' = qdrop /\ UNCHANGED stown
  BY DEF StSend, QOffer, qstore, qcons
<1>3. stpolicy' = stpolicy /\ ststate' = ststate /\ stbuf' = stbuf /\ stgot' = stgot /\ sterrs' = sterrs
  BY <1>2 DEF stown
<1>4. StReading' /\ StreamInOrder' /\ StNewest' /\ StEnded' BY <1>0, <1>2, StStreamStays
<1>5. StStored' BY <1>0, <1>2 DEF StStored
<1>6. ASSUME NEW r \in QProducers PROVE StOwes(r)'
  <2>1. StOwes(r) BY <1>0
  <2>2. /\ qcall \in [QProducers -> {"none", "offer", "offer_all", "notify_one", "notify_all"}]
        /\ qleft \in [QProducers -> Seq(QValues)]
    BY <1>0 DEF QueueTypeOK
  <2>3. CASE r = p
    <3>1. \A i \in DOMAIN qleft[p] : ~StRepeats(qleft[p][i])
      <4> SUFFICES ASSUME NEW i \in DOMAIN qleft[p], StRepeats(qleft[p][i]) PROVE FALSE OBVIOUS
      <4>1. PICK l \in Seq(QValues) : l = qleft[p] BY <2>2
      <4>2. i = Len(l) /\ i \in DOMAIN l BY <2>1, <2>3, <4>1 DEF StOwes
      <4>3. l # <<>> /\ Last(l) = l[i]
        <5>1. l # <<>> BY <4>2
        <5>2. QED BY <4>2, <5>1, FrontLast
      <4>4. QED BY <1>2, <4>1, <4>3 DEF StRefused
    <3>2. qcall'[p] = "offer" BY <1>2, <2>2
    <3>3. QED BY <1>2, <1>3, <2>1, <2>3, <3>1, <3>2 DEF StOwes, StRepeats
  <2>4. CASE r # p
    <3>1. qcall'[r] = qcall[r] BY <1>2, <2>2, <2>4
    <3>2. QED BY <1>2, <1>3, <2>1, <3>1 DEF StOwes, StRepeats
  <2>5. QED BY <2>3, <2>4
<1>7. StreamTypeOK' /\ StQueue'
  <2>1. QueueTypeOK' BY <1>1 DEF QueueIInv
  <2>2. QED BY <1>0, <1>1, <1>2, <1>3, <2>1 DEF StreamTypeOK, StQueue
<1>8. QED BY <1>4, <1>5, <1>6, <1>7 DEF StreamIInv

\* The message that a sender was told of last: it was taken back from what it was told of,
\* and is the next to be sent.
LEMMA StBack ==
  ASSUME StreamIInv, NEW p \in QProducers, StAgain(p)
  PROVE  /\ Last(qleft[p]) \in QValues \ Range(qseen)
         /\ qcall[p] = "none" /\ StRepeats(Last(qleft[p]))
         /\ StSentBy(p) \in Nat /\ StSentBy(p) > 0 /\ StSentBy(p) \in DOMAIN QOffers[p]
         /\ Last(qleft[p]) = QOffers[p][StSentBy(p)]
         /\ \A r \in QProducers : Last(qleft[p]) \notin Range(qtodo[r])
         /\ qleft' \in [QProducers -> Seq(QValues)] /\ qtodo' \in [QProducers -> Seq(QValues)]
         /\ \A r \in QProducers \ {p} : qleft'[r] = qleft[r] /\ qtodo'[r] = qtodo[r]
         /\ IsInjective(qleft'[p]) /\ Range(qleft'[p]) = Range(qleft[p]) \ {Last(qleft[p])}
         /\ \A i \in DOMAIN qleft'[p] : ~StRepeats(qleft'[p][i])
         /\ IsInjective(qtodo'[p]) /\ Range(qtodo'[p]) = Range(qtodo[p]) \cup {Last(qleft[p])}
         /\ Len(qtodo'[p]) = Len(qtodo[p]) + 1 /\ qtodo'[p] # <<>>
         /\ \A i \in 1..Len(qtodo'[p]) : qtodo'[p][i] = QOffers[p][StSentBy(p) - 1 + i]
<1>0. /\ QOnce /\ QBack /\ QueueTypeOK /\ StOwes(p) BY StParts
<1>1. qtodo \in [QProducers -> Seq(QValues)] /\ qleft \in [QProducers -> Seq(QValues)]
  BY <1>0 DEF QueueTypeOK
<1>2. PICK t \in Seq(QValues) : t = qtodo[p] BY <1>1
<1>3. PICK l \in Seq(QValues) : l = qleft[p] BY <1>1
<1>4. /\ qcall[p] = "none" /\ l # <<>> /\ StRepeats(Last(l))
      /\ qtodo' = [qtodo EXCEPT ![p] = <<Last(l)>> \o @] /\ qleft' = [qleft EXCEPT ![p] = Front(@)]
  BY <1>3 DEF StAgain, StRefused
<1>5. PICK n : n = StSentBy(p) OBVIOUS
<1>6. PICK all \in Seq(QValues) : all = QOffers[p] BY QOffersTyped
<1>7. PICK v : v = Last(l) OBVIOUS
<1>8. /\ n = Len(all) - Len(t) /\ n \in Nat /\ (\A i \in 1..Len(t) : t[i] = all[n + i])
      /\ IsInjective(l) /\ Range(l) \subseteq Range(all)
      /\ \A i \in DOMAIN l : StRepeats(l[i]) => i = Len(l) /\ n > 0 /\ l[i] = all[n]
  BY <1>0, <1>2, <1>3, <1>5, <1>6 DEF StOwes, StSentBy
<1>9. /\ Front(l) \in Seq(QValues) /\ v \in QValues /\ v \in Range(l)
      /\ Range(l) = Range(Front(l)) \cup {v} /\ Len(l) \in DOMAIN l /\ v = l[Len(l)]
      /\ \A i \in DOMAIN Front(l) : i \in DOMAIN l /\ i < Len(l) /\ Front(l)[i] = l[i]
  BY <1>4, <1>7, FrontLast
<1>a. Len(l) \in Nat /\ DOMAIN l = 1..Len(l) OBVIOUS
<1>b. StRepeats(v) BY <1>4, <1>7
<1>10. n > 0 /\ v = all[n] /\ n \in DOMAIN all
  <2>1. n > 0 /\ v = all[n] BY <1>8, <1>9, <1>b
  <2>2. PICK y \in Nat, z \in Nat : y = Len(all) /\ z = Len(t) BY <1>2, <1>6
  <2>3. n \in 1..y BY <1>8, <2>1, <2>2
  <2>4. QED BY <2>1, <2>2, <2>3
<1>11. IsInjective(Front(l)) /\ v \notin Range(Front(l)) /\ \A i \in DOMAIN Front(l) : ~StRepeats(Front(l)[i])
  <2>1. IsInjective(Front(l)) BY <1>8, <1>9 DEF IsInjective
  <2>2. v \notin Range(Front(l))
    <3> SUFFICES ASSUME NEW i \in DOMAIN Front(l), Front(l)[i] = v PROVE FALSE BY DEF Range
    <3>1. i = Len(l) BY <1>8, <1>9 DEF IsInjective
    <3>2. QED BY <1>9, <1>a, <3>1
  <2>3. ASSUME NEW i \in DOMAIN Front(l) PROVE ~StRepeats(Front(l)[i])
    <3>1. i \in DOMAIN l /\ i < Len(l) /\ Front(l)[i] = l[i] BY <1>9
    <3>2. i # Len(l) BY <3>1, <1>a
    <3>3. ~StRepeats(l[i]) BY <1>8, <3>1, <3>2
    <3>4. QED BY <3>1, <3>3
  <2>4. QED BY <2>1, <2>2, <2>3
<1>12. PICK f \in Seq(QValues) : f = Front(l) BY <1>9, Zenon
<1>13. qleft'[p] = f /\ qleft' \in [QProducers -> Seq(QValues)] BY <1>1, <1>3, <1>4, <1>12
<1>14. v \notin Range(qseen) /\ \A r \in QProducers : v \notin Range(qtodo[r])
  BY <1>0, <1>3, <1>9 DEF QBack
<1>15. PICK h \in Seq(QValues) : h = <<v>>
  <2>1. <<v>> \in Seq(QValues) BY <1>9
  <2>2. QED BY <2>1, Zenon
<1>16. /\ Len(h) = 1 /\ h[1] = v /\ IsInjective(h) /\ Range(h) = {v}
  <2>1. Len(h) = 1 /\ h[1] = v /\ DOMAIN h = {1} BY <1>15
  <2>2. QED BY <2>1 DEF IsInjective, Range
<1>17. /\ h \o t \in Seq(QValues) /\ Len(h \o t) = Len(h) + Len(t)
       /\ (\A i \in 1..Len(h) : (h \o t)[i] = h[i]) /\ \A i \in 1..Len(t) : (h \o t)[Len(h) + i] = t[i]
  BY TwoParts
<1>18. PICK m \in Seq(QValues) : m = h \o t BY <1>17, Zenon
<1>19. Len(m) = Len(t) + 1 /\ m[1] = v /\ \A i \in 1..Len(t) : m[i + 1] = t[i]
  <2>1. Len(t) \in Nat OBVIOUS
  <2>2. Len(m) = 1 + Len(t) /\ m[1] = v /\ \A i \in 1..Len(t) : m[1 + i] = t[i]
    BY <1>16, <1>17, <1>18
  <2>3. \A i \in 1..Len(t) : 1 + i = i + 1 OBVIOUS
  <2>4. QED BY <2>1, <2>2, <2>3
<1>20. IsInjective(m) /\ Range(m) = Range(t) \cup {v}
  <2>1. IsInjective(t) /\ Range(h) \cap Range(t) = {} BY <1>0, <1>2, <1>14, <1>16 DEF QOnce
  <2>2. IsInjective(h \o t) /\ Range(h \o t) = Range(h) \cup Range(t) BY <1>16, <2>1, ConcatOnce
  <2>3. QED BY <1>16, <1>18, <2>2
<1>21. qtodo'[p] = m /\ qtodo' \in [QProducers -> Seq(QValues)]
  BY <1>1, <1>2, <1>4, <1>7, <1>15, <1>18
<1>22. ASSUME NEW i \in 1..Len(m) PROVE m[i] = all[n - 1 + i]
  <2>1. PICK z \in Nat : z = Len(t) OBVIOUS
  <2>2. CASE i = 1
    <3>1. n - 1 + i = n BY <1>8, <2>2
    <3>2. QED BY <1>10, <1>19, <2>2, <3>1
  <2>3. CASE i # 1
    <3>1. i - 1 \in 1..z /\ (i - 1) + 1 = i BY <1>19, <2>1, <2>3
    <3>2. m[(i - 1) + 1] = t[i - 1] BY <1>19, <2>1, <3>1
    <3>3. t[i - 1] = all[n + (i - 1)] BY <1>8, <2>1, <3>1
    <3>4. n + (i - 1) = n - 1 + i BY <1>8
    <3>5. QED BY <3>1, <3>2, <3>3, <3>4
  <2>4. QED BY <2>2, <2>3
<1>23. m # <<>>
  <2>1. Len(t) \in Nat OBVIOUS
  <2>2. QED BY <1>19, <2>1
<1>24. \A r \in QProducers \ {p} : qleft'[r] = qleft[r] /\ qtodo'[r] = qtodo[r] BY <1>1, <1>4
<1>25. /\ v \in QValues \ Range(qseen)
       /\ n \in Nat /\ n > 0 /\ n \in DOMAIN all /\ v = all[n]
       /\ (\A r \in QProducers : v \notin Range(qtodo[r]))
       /\ IsInjective(f) /\ Range(f) = Range(l) \ {v}
       /\ \A i \in DOMAIN f : ~StRepeats(f[i])
  <2>1. v \in QValues \ Range(qseen) BY <1>9, <1>14
  <2>2. Range(f) = Range(l) \ {v} BY <1>9, <1>11, <1>12
  <2>3. QED BY <2>1, <2>2, <1>8, <1>10, <1>11, <1>12, <1>14, Zenon
<1>26. v = Last(qleft[p]) /\ all = QOffers[p] /\ n = StSentBy(p) BY <1>3, <1>5, <1>6, <1>7
<1>27. /\ Last(qleft[p]) \in QValues \ Range(qseen) /\ qcall[p] = "none" /\ StRepeats(Last(qleft[p]))
       /\ StSentBy(p) \in Nat /\ StSentBy(p) > 0 /\ StSentBy(p) \in DOMAIN QOffers[p]
       /\ Last(qleft[p]) = QOffers[p][StSentBy(p)]
       /\ \A r \in QProducers : Last(qleft[p]) \notin Range(qtodo[r])
  BY <1>4, <1>b, <1>25, <1>26, Zenon
<1>28. /\ IsInjective(qleft'[p]) /\ Range(qleft'[p]) = Range(qleft[p]) \ {Last(qleft[p])}
       /\ \A i \in DOMAIN qleft'[p] : ~StRepeats(qleft'[p][i])
  BY <1>3, <1>13, <1>25, <1>26, Zenon
<1>29. /\ IsInjective(qtodo'[p]) /\ Range(qtodo'[p]) = Range(qtodo[p]) \cup {Last(qleft[p])}
       /\ Len(qtodo'[p]) = Len(qtodo[p]) + 1 /\ qtodo'[p] # <<>>
       /\ \A i \in 1..Len(qtodo'[p]) : qtodo'[p][i] = QOffers[p][StSentBy(p) - 1 + i]
  BY <1>2, <1>19, <1>20, <1>21, <1>22, <1>23, <1>26, Zenon
<1>30. QED BY <1>13, <1>21, <1>24, <1>27, <1>28, <1>29, Zenon

\* A refused message is offered again.
LEMMA StAgainOk == ASSUME StreamIInv, NEW p \in QProducers, StAgain(p) PROVE StreamIInv'
<1>0. /\ StreamTypeOK /\ StQueue /\ StReading /\ StreamInOrder /\ StNewest /\ StEnded
      /\ StStored /\ (\A r \in QProducers : StOwes(r))
      /\ QueueIInv /\ qopen = TRUE /\ StReader \in QConsumers
      /\ QueueTypeOK /\ QueueFifo /\ QOnce /\ QBack /\ QSwallow /\ QHands /\ QWaits /\ QLosses
  BY StParts
<1>1. /\ qcall' = [qcall EXCEPT ![p] = "offer"]
      /\ qkind' = qkind /\ qopen' = qopen /\ qclose' = qclose /\ qtake' = qtake /\ qmade' = qmade
      /\ qbuf' = qbuf /\ qseen' = qseen /\ qgone' = qgone /\ qdrop' = qdrop /\ qlate' = qlate
      /\ UNCHANGED stown
  BY DEF StAgain, qcons, qstore
<1>2. stpolicy' = stpolicy /\ ststate' = ststate /\ stbuf' = stbuf /\ stgot' = stgot /\ sterrs' = sterrs
  BY <1>1 DEF stown
<1>3. qcall \in [QProducers -> {"none", "offer", "offer_all", "notify_one", "notify_all"}]
  BY <1>0 DEF QueueTypeOK
<1>4. PICK v : v = Last(qleft[p]) OBVIOUS
<1>5. PICK n : n = StSentBy(p) OBVIOUS
<1>6. /\ v \in QValues \ Range(qseen) /\ qcall[p] = "none"
      /\ n \in Nat /\ n > 0 /\ n \in DOMAIN QOffers[p] /\ v = QOffers[p][n]
      /\ (\A r \in QProducers : v \notin Range(qtodo[r]))
      /\ qleft' \in [QProducers -> Seq(QValues)] /\ qtodo' \in [QProducers -> Seq(QValues)]
      /\ (\A r \in QProducers \ {p} : qleft'[r] = qleft[r] /\ qtodo'[r] = qtodo[r])
      /\ IsInjective(qleft'[p]) /\ Range(qleft'[p]) = Range(qleft[p]) \ {v}
      /\ (\A i \in DOMAIN qleft'[p] : ~StRepeats(qleft'[p][i]))
      /\ IsInjective(qtodo'[p]) /\ Range(qtodo'[p]) = Range(qtodo[p]) \cup {v}
      /\ Len(qtodo'[p]) = Len(qtodo[p]) + 1 /\ qtodo'[p] # <<>>
      /\ \A i \in 1..Len(qtodo'[p]) : qtodo'[p][i] = QOffers[p][n - 1 + i]
  <2> USE <1>4, <1>5, StBack
  <2>1. /\ v \in QValues \ Range(qseen) /\ qcall[p] = "none"
        /\ n \in Nat /\ n > 0 /\ n \in DOMAIN QOffers[p] /\ v = QOffers[p][n]
        /\ \A r \in QProducers : v \notin Range(qtodo[r])
    OBVIOUS
  <2>2. /\ qleft' \in [QProducers -> Seq(QValues)] /\ qtodo' \in [QProducers -> Seq(QValues)]
        /\ \A r \in QProducers \ {p} : qleft'[r] = qleft[r] /\ qtodo'[r] = qtodo[r]
    OBVIOUS
  <2>3. /\ IsInjective(qleft'[p]) /\ Range(qleft'[p]) = Range(qleft[p]) \ {v}
        /\ IsInjective(qtodo'[p]) /\ Range(qtodo'[p]) = Range(qtodo[p]) \cup {v}
        /\ Len(qtodo'[p]) = Len(qtodo[p]) + 1 /\ qtodo'[p] # <<>>
    OBVIOUS
  <2>4. \A i \in DOMAIN qleft'[p] : ~StRepeats(qleft'[p][i]) OBVIOUS
  <2>5. \A i \in 1..Len(qtodo'[p]) : qtodo'[p][i] = QOffers[p][n - 1 + i] OBVIOUS
  <2>6. QED BY <2>1, <2>2, <2>3, <2>4, <2>5, Zenon
<1>a. Last(qleft[p]) \in Range(qleft[p])
  <2>1. qleft[p] \in Seq(QValues) /\ qleft[p] # <<>> BY <1>0 DEF QueueTypeOK, StAgain, StRefused
  <2>2. QED BY <2>1, FrontLast
<1>9. \A r \in QProducers \ {p} : qcall'[r] = qcall[r] BY <1>1, <1>3
<1>10. qcall'[p] = "offer" /\ qcall' \in [QProducers -> {"none", "offer", "offer_all", "notify_one", "notify_all"}]
  BY <1>1, <1>3
<1>11. \A r \in QProducers : Range(qleft[r]) \subseteq Range(QOffers[r]) BY <1>0 DEF StOwes
<1>12. QueueIInv'
  <2>1. UNCHANGED <<qkind, qopen, qclose, qcons, qstore, qlate>> BY DEF StAgain
  <2>2. v \in Range(qleft[p]) BY <1>4, <1>a
  <2>3. QED BY <1>0, <1>1, <1>6, <1>11, <2>1, <2>2, QueueAgainOk
<1>13. StReading' /\ StreamInOrder' /\ StNewest' /\ StEnded' BY <1>0, <1>1, StStreamStays
<1>14. StStored' BY <1>0, <1>1 DEF StStored
<1>15. ASSUME NEW r \in QProducers PROVE StOwes(r)'
  <2>1. StOwes(r) BY <1>0
  <2>2. CASE r # p
    <3>1. qtodo'[r] = qtodo[r] /\ qleft'[r] = qleft[r] /\ qcall'[r] = qcall[r] BY <1>6, <1>9, <2>2
    <3>2. QED BY <2>1, <3>1, <1>2 DEF StOwes, StRepeats
  <2>3. CASE r = p
    <3>1. Len(QOffers[p]) - Len(qtodo'[p]) = n - 1 /\ n - 1 \in Nat
      <4>1. QOffers[p] \in Seq(QValues) /\ qtodo[p] \in Seq(QValues) BY <1>0, QOffersTyped DEF QueueTypeOK
      <4>2. PICK y \in Nat, z \in Nat : y = Len(QOffers[p]) /\ z = Len(qtodo[p]) BY <4>1
      <4>3. n = y - z /\ Len(qtodo'[p]) = z + 1 BY <1>5, <1>6, <4>2 DEF StSentBy
      <4>4. y - (z + 1) = n - 1 /\ n - 1 \in Nat BY <1>6, <4>3
      <4>5. QED BY <4>2, <4>3, <4>4
    <3>2. Range(qleft'[p]) \subseteq Range(QOffers[p]) BY <1>6, <1>11
    <3>3. \A i \in DOMAIN qleft'[p] : qleft'[p][i] \notin StMarks /\ stpolicy' # "BoundedBlock"
      BY <1>2, <1>6 DEF StRepeats
    <3>4. QED BY <1>6, <1>10, <2>3, <3>1, <3>2, <3>3 DEF StOwes, StRepeats
  <2>4. QED BY <2>2, <2>3
<1>16. StreamTypeOK' /\ StQueue'
  <2>1. QueueTypeOK' BY <1>12 DEF QueueIInv
  <2>2. QED BY <1>0, <1>1, <1>2, <1>12, <2>1 DEF StreamTypeOK, StQueue
<1>17. QED BY <1>13, <1>14, <1>15, <1>16 DEF StreamIInv

\* What has reached the stream left the queue.
LEMMA StFromQueue ==
  ASSUME StreamInOrder PROVE Range(stgot \o stbuf) \cup Range(sterrs) \subseteq Range(qgone)
BY DEF StreamInOrder, StFiltered

\* The reader begins, or goes to sleep.
LEMMA StMoveOk ==
  ASSUME StreamIInv,
         \/ StTake
         \/ QNotified(StReader) /\ UNCHANGED stown
         \/ /\ qtake[StReader].at = "recv" /\ QLook(StReader) /\ UNCHANGED stown
            /\ UNCHANGED <<qkind, qopen, qclose, qprod, qmade, qlate>>
  PROVE  StreamIInv'
<1>0. /\ StreamTypeOK /\ StQueue /\ StReading /\ StreamInOrder /\ StNewest /\ StEnded
      /\ StStored /\ (\A r \in QProducers : StOwes(r))
      /\ QueueIInv /\ QueueTypeOK /\ StReader \in QConsumers
  BY StParts
<1>1. QMoves(StReader)
  <2>1. CASE StTake
    <3>1. <<1, 1>> \in QDemand BY DEF QDemand
    <3>2. QED BY <2>1, <3>1 DEF StTake, QMoves
  <2>2. CASE ~StTake BY <2>2 DEF QMoves
  <2>3. QED BY <2>1, <2>2
<1>2. QueueIInv' BY <1>0, <1>1, QueueMoveOk
<1>3. /\ qkind' = qkind /\ qtodo' = qtodo /\ qleft' = qleft /\ qcall' = qcall /\ qopen' = qopen
      /\ qseen' = qseen /\ qgone' = qgone /\ qdrop' = qdrop /\ UNCHANGED stown
  BY DEF StTake, QTake, QNotified, QLook, qprod, qstore
<1>4. stpolicy' = stpolicy /\ ststate' = ststate /\ stbuf' = stbuf /\ stgot' = stgot /\ sterrs' = sterrs
  BY <1>3 DEF stown
<1>5. qtake \in [QConsumers -> [at : QTaking, lo : Nat, hi : Nat, out : Seq(QValues)]]
  BY <1>0 DEF QueueTypeOK
<1>6. PICK t : /\ qtake' = [qtake EXCEPT ![StReader] = t] /\ t.at \in {"recv", "gap", "asleep"}
               /\ t.lo = 1 /\ t.hi = 1 /\ t.out = <<>> /\ qtake[StReader].out = <<>> /\ ststate = "open"
  <2>1. CASE StTake
    <3>1. qtake' = [qtake EXCEPT ![StReader] = [at |-> "recv", lo |-> 1, hi |-> 1, out |-> <<>>]]
          /\ qtake[StReader].at = "idle" /\ ststate = "open"
      BY <2>1 DEF StTake, QTake
    <3>2. qtake[StReader].out = <<>> BY <1>0, <3>1 DEF StReading
    <3>3. PICK t : t = [at |-> "recv", lo |-> 1, hi |-> 1, out |-> <<>>] OBVIOUS
    <3>4. t.at = "recv" /\ t.lo = 1 /\ t.hi = 1 /\ t.out = <<>> BY <3>3
    <3>5. QED BY <3>1, <3>2, <3>3, <3>4
  <2>2. CASE qtake[StReader].at = "gap" /\ QNotified(StReader)
    <3>1. qtake' = [qtake EXCEPT ![StReader] = [qtake[StReader] EXCEPT !.at = "asleep"]]
      BY <1>0, <1>5, <2>2 DEF QNotified
    <3>2. /\ qtake[StReader].out = <<>> /\ ststate = "open"
          /\ qtake[StReader].lo = 1 /\ qtake[StReader].hi = 1
      BY <1>0, <2>2 DEF StReading
    <3>3. PICK t : t = [qtake[StReader] EXCEPT !.at = "asleep"] OBVIOUS
    <3>4. /\ t.at = "asleep" /\ t.lo = qtake[StReader].lo /\ t.hi = qtake[StReader].hi
          /\ t.out = qtake[StReader].out
      BY <1>0, <1>5, <3>3
    <3>5. QED BY <3>1, <3>2, <3>3, <3>4
  <2>3. CASE qtake[StReader].at = "recv" /\ QLook(StReader)
    <3>1. qtake' = [qtake EXCEPT ![StReader] = [qtake[StReader] EXCEPT !.at = "gap"]]
      BY <1>0, <1>5, <2>3 DEF QLook
    <3>2. /\ qtake[StReader].out = <<>> /\ ststate = "open"
          /\ qtake[StReader].lo = 1 /\ qtake[StReader].hi = 1
      BY <1>0, <2>3 DEF StReading
    <3>3. PICK t : t = [qtake[StReader] EXCEPT !.at = "gap"] OBVIOUS
    <3>4. /\ t.at = "gap" /\ t.lo = qtake[StReader].lo /\ t.hi = qtake[StReader].hi
          /\ t.out = qtake[StReader].out
      BY <1>0, <1>5, <3>3
    <3>5. QED BY <3>1, <3>2, <3>3, <3>4
  <2>4. QED BY <2>1, <2>2, <2>3 DEF QNotified
<1>7. qtake'[StReader] = t /\ \A c \in QConsumers \ {StReader} : qtake'[c] = qtake[c] BY <1>0, <1>5, <1>6
<1>8. StReading' BY <1>0, <1>4, <1>6, <1>7 DEF StReading
<1>9. Range(qtake'[StReader].out) = {} /\ Range(qtake[StReader].out) = {} BY <1>6, <1>7, EmptyLine, Zenon
<1>10. QInHand' = QInHand
  <2>1. \A c \in QConsumers \ {StReader} : qtake[c].out = <<>> /\ qtake'[c].out = <<>>
    BY <1>0, <1>7 DEF StReading
  <2>2. UNION {Range(qtake[c].out) : c \in QConsumers} = Range(qtake[StReader].out) BY <1>0, <2>1, StHand
  <2>3. UNION {Range(qtake'[c].out) : c \in QConsumers} = Range(qtake'[StReader].out)
    BY <1>0, <2>1, StHand
  <2>4. QED BY <1>9, <2>2, <2>3 DEF QInHand
<1>11. StPassed' = StPassed BY <1>3, <1>10 DEF StPassed
<1>12. StreamInOrder' BY <1>0, <1>3, <1>4, <1>11, StNothingPassed
<1>13. StNewest' BY <1>9 DEF StNewest
<1>14. StEnded' BY <1>0, <1>3, <1>4 DEF StEnded
<1>15. StStored' /\ \A p \in QProducers : StOwes(p)' BY <1>0, <1>3, <1>4, StSendersStay
<1>16. StreamTypeOK' /\ StQueue'
  <2>1. QueueTypeOK' BY <1>2 DEF QueueIInv
  <2>2. QED BY <1>0, <1>2, <1>3, <1>4, <2>1 DEF StreamTypeOK, StQueue
<1>17. QED BY <1>8, <1>12, <1>13, <1>14, <1>15, <1>16 DEF StreamIInv

\* The reader takes the oldest message out of the queue.
LEMMA StPopOk == ASSUME StreamIInv, QEnds(StReader), QPop(StReader), UNCHANGED stown PROVE StreamIInv'
<1>0. /\ StreamTypeOK /\ StQueue /\ StReading /\ StreamInOrder /\ StNewest /\ StEnded
      /\ StStored /\ (\A r \in QProducers : StOwes(r))
      /\ QueueIInv /\ QueueTypeOK /\ QOnce /\ QHands /\ QueueFifo /\ StReader \in QConsumers
  BY StParts
<1>1. QueueIInv' BY <1>0, QueuePopOk
<1>2. /\ qkind' = qkind /\ qtodo' = qtodo /\ qleft' = qleft /\ qcall' = qcall /\ qopen' = qopen
      /\ qseen' = qseen /\ qdrop' = qdrop /\ qbuf # <<>> /\ qgone' = Append(qgone, Head(qbuf))
      /\ qtake[StReader].at \in {"recv", "drain"}
  BY DEF QEnds, QPop, qprod
<1>3. stpolicy' = stpolicy /\ ststate' = ststate /\ stbuf' = stbuf /\ stgot' = stgot /\ sterrs' = sterrs
  BY DEF stown
<1>4. qtake \in [QConsumers -> [at : QTaking, lo : Nat, hi : Nat, out : Seq(QValues)]]
      /\ qbuf \in Seq(QValues) /\ qgone \in Seq(QValues)
  BY <1>0 DEF QueueTypeOK, QOnce
<1>5. PICK v : v = Head(qbuf) OBVIOUS
<1>6. v \in QValues /\ v \notin Range(qgone) /\ Range(qgone') = Range(qgone) \cup {v}
  <2>1. IsInjective(qgone \o qbuf) BY <1>0, Zenon DEF QueueFifo
  <2>2. /\ Head(qbuf) \in QValues /\ Range(Append(qgone, Head(qbuf))) = Range(qgone) \cup {Head(qbuf)}
        /\ Head(qbuf) \notin Range(qgone)
    BY <1>2, <1>4, <2>1, LineHead
  <2>3. QED BY <1>2, <1>5, <2>2
<1>7. /\ qtake[StReader].at = "recv" /\ qtake[StReader].lo = 1 /\ qtake[StReader].hi = 1
      /\ qtake[StReader].out = <<>> /\ ststate = "open"
  BY <1>0, <1>2 DEF StReading
<1>8. /\ qtake'[StReader].out = <<v>> /\ qtake'[StReader].at = "done"
      /\ \A c \in QConsumers \ {StReader} : qtake'[c] = qtake[c]
  <2>1. QWhere(qtake[StReader], Len(qtake[StReader].out) + 1) = "done"
    <3>1. Len(qtake[StReader].out) + 1 = 1 BY <1>7
    <3>2. QED BY <1>7, <3>1 DEF QWhere
  <2>2. Append(qtake[StReader].out, v) = <<v>> BY <1>7
  <2>3. qtake' = [qtake EXCEPT ![StReader] = [qtake[StReader] EXCEPT !.out = <<v>>, !.at = "done"]]
    BY <1>5, <2>1, <2>2 DEF QPop
  <2>4. QED BY <1>0, <1>4, <2>3
<1>9. Len(<<v>>) = 1 /\ Range(<<v>>) = {v}
  <2>1. DOMAIN <<v>> = {1} /\ <<v>>[1] = v /\ Len(<<v>>) = 1 OBVIOUS
  <2>2. QED BY <2>1 DEF Range
<1>10. Range(qtake'[StReader].out) = {v} /\ Range(qtake[StReader].out) = {}
  BY <1>7, <1>8, <1>9, EmptyLine, Zenon
<1>11. StReading'
  <2>1. Len(qtake'[StReader].out) = 1 BY <1>8, <1>9
  <2>2. QED BY <1>0, <1>3, <1>7, <1>8, <2>1 DEF StReading
<1>12. QInHand' = {v} /\ QInHand = {}
  <2>1. \A c \in QConsumers \ {StReader} : qtake[c].out = <<>> /\ qtake'[c].out = <<>>
    BY <1>0, <1>8 DEF StReading
  <2>2. UNION {Range(qtake[c].out) : c \in QConsumers} = Range(qtake[StReader].out) BY <1>0, <2>1, StHand
  <2>3. UNION {Range(qtake'[c].out) : c \in QConsumers} = Range(qtake'[StReader].out)
    BY <1>0, <2>1, StHand
  <2>4. QED BY <1>10, <2>2, <2>3 DEF QInHand
<1>13. StPassed' = StPassed BY <1>2, <1>6, <1>12 DEF StPassed
<1>14. /\ Len(qgone) \in Nat /\ DOMAIN qgone = 1..Len(qgone) /\ DOMAIN qgone' = 1..Len(qgone) + 1
       /\ qgone'[Len(qgone) + 1] = v /\ \A a \in 1..Len(qgone) : qgone'[a] = qgone[a]
  BY <1>2, <1>4, <1>5, <1>6
<1>15. DOMAIN qgone \subseteq DOMAIN qgone' /\ \A a \in DOMAIN qgone : qgone'[a] = qgone[a] BY <1>14
<1>16. StreamInOrder' BY <1>0, <1>3, <1>13, <1>15, StNothingPassed
<1>17. StNewest'
  <2> SUFFICES ASSUME NEW w \in Range(stgot \o stbuf) \cup Range(sterrs)
               PROVE  \E a, b \in DOMAIN qgone' : a < b /\ qgone'[a] = w /\ qgone'[b] = v
    BY <1>3, <1>10 DEF StNewest
  <2>1. w \in Range(qgone) BY <1>0, StFromQueue
  <2>2. PICK a \in DOMAIN qgone : qgone[a] = w BY <2>1 DEF Range
  <2>3. /\ a \in DOMAIN qgone' /\ qgone'[a] = w /\ a < Len(qgone) + 1
        /\ Len(qgone) + 1 \in DOMAIN qgone' /\ qgone'[Len(qgone) + 1] = v
    BY <1>14, <2>2
  <2>4. QED BY <2>3
<1>18. StEnded' BY <1>3, <1>7 DEF StEnded
<1>19. StStored' /\ \A p \in QProducers : StOwes(p)' BY <1>0, <1>2, <1>3, StSendersStay
<1>20. StreamTypeOK' /\ StQueue'
  <2>1. QueueTypeOK' BY <1>1 DEF QueueIInv
  <2>2. QED BY <1>0, <1>1, <1>2, <1>3, <2>1 DEF StreamTypeOK, StQueue
<1>21. QED BY <1>11, <1>16, <1>17, <1>18, <1>19, <1>20 DEF StreamIInv

\* What the reader had in its hand reaches the stream, behind everything else.
LEMMA StMessageOk == ASSUME StreamIInv, StMessage PROVE StreamIInv'
<1>0. /\ StreamTypeOK /\ StQueue /\ StReading /\ StreamInOrder /\ StNewest /\ StEnded
      /\ StStored /\ (\A r \in QProducers : StOwes(r))
      /\ QueueIInv /\ QueueTypeOK /\ QOnce /\ QHands /\ StReader \in QConsumers
      /\ stbuf \in Seq(QValues) /\ stgot \in Seq(QValues) /\ sterrs \in Seq(StFails)
  BY StParts
<1>1. PICK m : m = Head(qtake[StReader].out) OBVIOUS
<1>2. /\ ststate = "open" /\ QCollect(StReader)
      /\ ststate' = IF m \in StEnds THEN "closed" ELSE ststate
      /\ stbuf' = IF m \in StMarks THEN stbuf ELSE Append(stbuf, m)
      /\ sterrs' = IF m \in StFails THEN Append(sterrs, m) ELSE sterrs
      /\ stpolicy' = stpolicy /\ stgot' = stgot
  BY <1>1 DEF StMessage
<1>3. QMoves(StReader) BY <1>2 DEF QMoves
<1>4. QueueIInv' BY <1>0, <1>3, QueueMoveOk
<1>5. /\ qkind' = qkind /\ qtodo' = qtodo /\ qleft' = qleft /\ qcall' = qcall /\ qopen' = qopen
      /\ qseen' = qseen /\ qgone' = qgone /\ qdrop' = qdrop
      /\ qtake' = [qtake EXCEPT ![StReader] = NoTake] /\ qtake[StReader].at \in {"done", "failed"}
  BY <1>2 DEF QCollect, qprod, qstore
<1>6. qtake \in [QConsumers -> [at : QTaking, lo : Nat, hi : Nat, out : Seq(QValues)]]
      /\ qgone \in Seq(QValues)
  BY <1>0 DEF QueueTypeOK, QOnce
<1>7. PICK o \in Seq(QValues) : o = qtake[StReader].out BY <1>0, <1>6
<1>8. Len(o) = 1 BY <1>0, <1>5, <1>7 DEF StReading
<1>9. Range(o) = {m} /\ m \in QValues
  <2>1. DOMAIN o = {1} /\ m = o[1] /\ o[1] \in QValues BY <1>1, <1>7, <1>8
  <2>2. QED BY <2>1 DEF Range
<1>10. m \in Range(qgone) \ qdrop BY <1>0, <1>7, <1>9 DEF QHands
<1>11. qtake'[StReader] = NoTake /\ \A c \in QConsumers \ {StReader} : qtake'[c] = qtake[c]
  BY <1>0, <1>5, <1>6
<1>12. qtake'[StReader].at = "idle" /\ qtake'[StReader].out = <<>> BY <1>11 DEF NoTake
<1>13. Range(qtake'[StReader].out) = {} BY <1>12, EmptyLine, Zenon
<1>14. QInHand = {m} /\ QInHand' = {}
  <2>1. \A c \in QConsumers \ {StReader} : qtake[c].out = <<>> /\ qtake'[c].out = <<>>
    BY <1>0, <1>11 DEF StReading
  <2>2. UNION {Range(qtake[c].out) : c \in QConsumers} = Range(qtake[StReader].out) BY <1>0, <2>1, StHand
  <2>3. UNION {Range(qtake'[c].out) : c \in QConsumers} = Range(qtake'[StReader].out)
    BY <1>0, <2>1, StHand
  <2>4. QED BY <1>7, <1>9, <1>13, <2>2, <2>3 DEF QInHand
<1>15. StPassed' = StPassed \cup {m} /\ m \notin StPassed /\ StPassed \subseteq Range(qgone)
  BY <1>5, <1>10, <1>14 DEF StPassed
<1>16. ststate' \in {"open", "closed"} BY <1>2
<1>17. \A w \in Range(stgot \o stbuf) \cup Range(sterrs) :
          \E a, b \in DOMAIN qgone : a < b /\ qgone[a] = w /\ qgone[b] = m
  BY <1>0, <1>7, <1>9 DEF StNewest
<1>18. PICK part \in Seq(QValues) : part = stgot \o stbuf
  <2>1. stgot \o stbuf \in Seq(QValues) BY <1>0, TwoParts
  <2>2. QED BY <2>1, Zenon
<1>19. StFiltered(part, qgone, StPassed \ StMarks) /\ StFiltered(sterrs, qgone, StPassed \cap StFails)
  BY <1>0, <1>18 DEF StreamInOrder
<1>20. StFiltered(stgot' \o stbuf', qgone, StPassed' \ StMarks)
  <2>1. CASE m \in StMarks
    <3>1. StPassed' \ StMarks = StPassed \ StMarks BY <1>15, <2>1
    <3>2. stgot' \o stbuf' = part BY <1>2, <1>18, <2>1
    <3>3. QED BY <1>19, <3>1, <3>2
  <2>2. CASE m \notin StMarks
    <3>1. stgot' \o stbuf' = Append(part, m)
      <4>1. stgot \o Append(stbuf, m) = Append(stgot \o stbuf, m) BY <1>0, <1>9, PartsMove
      <4>2. QED BY <1>2, <1>18, <2>2, <4>1
    <3>2. Range(qgone) \cap (StPassed' \ StMarks) = (Range(qgone) \cap (StPassed \ StMarks)) \cup {m}
      BY <1>10, <1>15, <2>2
    <3>3. m \notin Range(part) BY <1>15, <1>19 DEF StFiltered
    <3>4. \A w \in Range(part) : \E a, b \in DOMAIN qgone : a < b /\ qgone[a] = w /\ qgone[b] = m
      BY <1>17, <1>18
    <3>5. StFiltered(Append(part, m), qgone, StPassed' \ StMarks)
      BY <1>9, <1>19, <3>2, <3>3, <3>4, FilteredMore
    <3>6. QED BY <3>1, <3>5
  <2>3. QED BY <2>1, <2>2
<1>21. StFiltered(sterrs', qgone, StPassed' \cap StFails) /\ sterrs' \in Seq(StFails)
  <2>1. CASE m \notin StFails
    <3>1. StPassed' \cap StFails = StPassed \cap StFails /\ sterrs' = sterrs BY <1>2, <1>15, <2>1
    <3>2. QED BY <1>0, <1>19, <3>1
  <2>2. CASE m \in StFails
    <3>1. sterrs' = Append(sterrs, m) BY <1>2, <2>2
    <3>2. Range(qgone) \cap (StPassed' \cap StFails) = (Range(qgone) \cap (StPassed \cap StFails)) \cup {m}
      BY <1>10, <1>15, <2>2
    <3>3. m \notin Range(sterrs) BY <1>15, <1>19 DEF StFiltered
    <3>4. \A w \in Range(sterrs) : \E a, b \in DOMAIN qgone : a < b /\ qgone[a] = w /\ qgone[b] = m
      BY <1>17
    <3>5. StFiltered(Append(sterrs, m), qgone, StPassed' \cap StFails)
      BY <1>0, <2>2, <1>19, <3>2, <3>3, <3>4, FilteredMore
    <3>6. Append(sterrs, m) \in Seq(StFails) BY <1>0, <2>2, RangeAppend
    <3>7. QED BY <3>1, <3>5, <3>6
  <2>3. QED BY <2>1, <2>2
<1>22. StreamInOrder'
  <2>1. StFiltered(stgot \o stbuf, qgone, StPassed \ StMarks)' <=> StFiltered(stgot' \o stbuf', qgone', StPassed' \ StMarks)
    BY DEF StFiltered, StMarks
  <2>2. StFiltered(sterrs, qgone, StPassed \cap StFails)' <=> StFiltered(sterrs', qgone', StPassed' \cap StFails)
    BY DEF StFiltered
  <2>3. QED BY <1>5, <1>20, <1>21, <2>1, <2>2 DEF StreamInOrder
<1>23. StReading' BY <1>0, <1>11, <1>12, <1>16 DEF StReading
<1>24. StNewest' BY <1>13 DEF StNewest
<1>25. StEnded' BY <1>2, <1>5, <1>10 DEF StEnded
<1>26. StStored' /\ \A p \in QProducers : StOwes(p)' BY <1>0, <1>2, <1>5, StSendersStay
<1>27. StreamTypeOK' /\ StQueue'
  <2>1. QueueTypeOK' BY <1>4 DEF QueueIInv
  <2>2. stbuf' \in Seq(QValues) BY <1>0, <1>2, <1>9, RangeAppend
  <2>3. QED BY <1>0, <1>2, <1>4, <1>5, <1>16, <1>21, <2>1, <2>2 DEF StreamTypeOK, StQueue
<1>28. QED BY <1>22, <1>23, <1>24, <1>25, <1>26, <1>27 DEF StreamIInv

\* The reader yields what is buffered, or finds the stream closed.
LEMMA StYieldOk == ASSUME StreamIInv, StYield \/ StExhaust PROVE StreamIInv'
<1>0. /\ StreamTypeOK /\ StQueue /\ StReading /\ StreamInOrder /\ StNewest /\ StEnded
      /\ StStored /\ (\A r \in QProducers : StOwes(r))
      /\ QueueIInv /\ QueueTypeOK
      /\ stbuf \in Seq(QValues) /\ stgot \in Seq(QValues) /\ sterrs \in Seq(StFails)
  BY StParts
<1>1. UNCHANGED qvars /\ stpolicy' = stpolicy /\ sterrs' = sterrs BY DEF StYield, StExhaust
<1>2. /\ qkind' = qkind /\ qbuf' = qbuf /\ qopen' = qopen /\ qclose' = qclose /\ qcall' = qcall
      /\ qtodo' = qtodo /\ qleft' = qleft /\ qtake' = qtake /\ qmade' = qmade
      /\ qseen' = qseen /\ qgone' = qgone /\ qdrop' = qdrop /\ qlate' = qlate
  BY <1>1 DEF qvars
<1>3. QueueIInv'
  BY <1>0, <1>2 DEF QueueIInv, QueueTypeOK, QueueFifo, QOnce, QBack, QSwallow, QHands, QWaits,
                       QLosses, QAsked
<1>4. stgot' \o stbuf' = stgot \o stbuf /\ stbuf' \in Seq(QValues) /\ stgot' \in Seq(QValues)
  <2>1. CASE StExhaust BY <1>0, <2>1 DEF StExhaust
  <2>2. CASE StYield
    <3>1. stgot' = stgot \o stbuf /\ stbuf' = <<>> BY <2>2 DEF StYield
    <3>2. PICK part \in Seq(QValues) : part = stgot \o stbuf
      <4>1. stgot \o stbuf \in Seq(QValues) BY <1>0, TwoParts
      <4>2. QED BY <4>1, Zenon
    <3>3. part \o <<>> = part OBVIOUS
    <3>4. QED BY <3>1, <3>2, <3>3
  <2>3. QED BY <2>1, <2>2
<1>5. /\ ststate' \in {"open", "closed", "exhausted"}
      /\ (ststate' # "open" => ststate # "open") /\ (ststate' = "exhausted" => stbuf' = <<>>)
  BY <1>0 DEF StYield, StExhaust, StreamTypeOK
<1>6. StReading' BY <1>0, <1>2, <1>5 DEF StReading
<1>7. QInHand' = QInHand /\ StPassed' = StPassed BY <1>2 DEF QInHand, StPassed
<1>8. StreamInOrder'
  <2>1. StFiltered(stgot \o stbuf, qgone, StPassed \ StMarks)' <=> StFiltered(stgot' \o stbuf', qgone', StPassed' \ StMarks)
    BY DEF StFiltered, StMarks
  <2>2. StFiltered(sterrs, qgone, StPassed \cap StFails)' <=> StFiltered(sterrs', qgone', StPassed' \cap StFails)
    BY DEF StFiltered
  <2>3. QED BY <1>0, <1>1, <1>2, <1>4, <1>7, <2>1, <2>2 DEF StreamInOrder
<1>9. StNewest' BY <1>0, <1>1, <1>2, <1>4 DEF StNewest
<1>10. StEnded' BY <1>0, <1>2, <1>5 DEF StEnded
<1>11. StStored' /\ \A p \in QProducers : StOwes(p)' BY <1>0, <1>1, <1>2, StSendersStay
<1>12. StreamTypeOK' /\ StQueue'
  <2>1. QueueTypeOK' BY <1>3 DEF QueueIInv
  <2>2. QED BY <1>0, <1>1, <1>2, <1>3, <1>4, <1>5, <2>1 DEF StreamTypeOK, StQueue
<1>13. QED BY <1>6, <1>8, <1>9, <1>10, <1>11, <1>12 DEF StreamIInv

\* It holds at the start.
LEMMA StreamInitOk == StreamInit => StreamIInv
<1> SUFFICES ASSUME StreamInit PROVE StreamIInv OBVIOUS
<1>0. StReader \in QConsumers BY StreamAssumption
<1>1. /\ QueueInit /\ stpolicy \in StPolicies /\ qkind = StKind(stpolicy) /\ ststate = "open"
      /\ stbuf = <<>> /\ stgot = <<>> /\ sterrs = <<>>
  BY DEF StreamInit
<1>2. QueueIInv BY <1>1, QueueInitOk
<1>3. /\ qtodo = QOffers /\ qleft = [p \in QProducers |-> <<>>] /\ qopen = TRUE
      /\ qtake = [c \in QConsumers |-> NoTake] /\ qcall = [p \in QProducers |-> "none"]
      /\ qgone = <<>> /\ qseen = <<>>
  BY <1>1 DEF QueueInit
<1>4. StreamTypeOK /\ StQueue
  <2>1. <<>> \in Seq(QValues) /\ <<>> \in Seq(StFails) OBVIOUS
  <2>2. QED BY <1>1, <1>2, <1>3, <2>1 DEF StreamTypeOK, StQueue, QueueIInv
<1>5. \A c \in QConsumers : qtake[c].at = "idle" /\ qtake[c].out = <<>> BY <1>3 DEF NoTake
<1>6. StReading BY <1>0, <1>1, <1>5 DEF StReading
<1>7. Range(stgot \o stbuf) = {} /\ Range(sterrs) = {} /\ Range(qgone) = {} BY <1>1, <1>3, EmptyLine, Zenon
<1>8. stgot \o stbuf = <<>> /\ DOMAIN <<>> = {} BY <1>1
<1>9. StreamInOrder
  <2>1. StFiltered(stgot \o stbuf, qgone, StPassed \ StMarks) BY <1>7, <1>8, EmptyLine DEF StFiltered
  <2>2. StFiltered(sterrs, qgone, StPassed \cap StFails) BY <1>1, <1>7, <1>8, EmptyLine DEF StFiltered
  <2>3. QED BY <2>1, <2>2 DEF StreamInOrder
<1>10. StNewest BY <1>7 DEF StNewest
<1>11. StEnded BY <1>1 DEF StEnded
<1>12. StStored BY <1>3, <1>8 DEF StStored
<1>13. ASSUME NEW p \in QProducers PROVE StOwes(p)
  <2>1. PICK all \in Seq(QValues) : all = QOffers[p] BY QOffersTyped
  <2>2. Len(all) - Len(all) = 0 /\ \A i \in 1..Len(all) : 0 + i = i BY <2>1
  <2>3. qtodo[p] = all /\ qleft[p] = <<>> /\ qcall[p] = "none" BY <1>3, <2>1
  <2>4. IsInjective(qleft[p]) /\ Range(qleft[p]) = {} BY <2>3, EmptyLine, Zenon
  <2>5. DOMAIN qleft[p] = {} BY <1>8, <2>3
  <2>6. QED BY <2>1, <2>2, <2>3, <2>4, <2>5 DEF StOwes
<1>14. QED BY <1>4, <1>6, <1>9, <1>10, <1>11, <1>12, <1>13 DEF StreamIInv

\* What the invariant says of a stream that has ended.
LEMMA StreamEndOk == ASSUME StreamIInv PROVE StreamComplete
<1> SUFFICES ASSUME ststate = "exhausted", stpolicy \in {"BoundedBlock", "Fail"}
             PROVE  \E p \in QProducers : \E j \in DOMAIN QOffers[p] :
                      /\ QOffers[p][j] \in StEnds \cap Range(qgone)
                      /\ \A i \in 1..j-1 : QOffers[p][i] \notin StMarks =>
                            QOffers[p][i] \in Range(stgot) \cup Range(qleft[p])
  BY DEF StreamComplete
<1>0. /\ StReading /\ StreamInOrder /\ StEnded /\ StStored /\ (\A r \in QProducers : StOwes(r))
      /\ qopen = TRUE /\ qkind = StKind(stpolicy) /\ StReader \in QConsumers
      /\ QueueTypeOK /\ QueueFifo /\ QOnce /\ QSwallow /\ QHands
      /\ stbuf \in Seq(QValues) /\ stgot \in Seq(QValues)
  BY StParts
<1>1. qkind = "bounded" BY <1>0 DEF StKind
<1>2. qdrop = {}
  <2>1. QLosses BY StParts DEF QueueIInv
  <2>2. QED BY <1>0, <1>1, <2>1 DEF QLosses
<1>3. qtake[StReader].out = <<>> /\ stbuf = <<>> BY <1>0 DEF StReading
<1>4. QInHand = {}
  <2>1. Range(qtake[StReader].out) = {} BY <1>3, EmptyLine, Zenon
  <2>2. UNION {Range(qtake[c].out) : c \in QConsumers} = Range(qtake[StReader].out)
    BY <1>0, StHand DEF StReading
  <2>3. QED BY <2>1, <2>2 DEF QInHand
<1>5. Range(stgot) = Range(qgone) \ StMarks
  <2>1. stgot \o stbuf = stgot BY <1>0, <1>3
  <2>2. Range(stgot \o stbuf) = Range(qgone) \cap (StPassed \ StMarks) BY <1>0 DEF StreamInOrder, StFiltered
  <2>3. QED BY <1>2, <1>4, <2>1, <2>2 DEF StPassed
<1>6. PICK e : e \in StEnds \cap Range(qgone) BY <1>0 DEF StEnded
<1>a. PICK p \in QProducers : e \in Range(QOffers[p]) BY <1>6, StreamAssumption DEF QValues
<1>7. PICK j \in DOMAIN QOffers[p] : QOffers[p][j] = e BY <1>a DEF Range
<1>8. PICK gone \in Seq(QValues), buf \in Seq(QValues) : gone = qgone /\ buf = qbuf
  BY <1>0 DEF QueueTypeOK, QOnce
<1>9. /\ DOMAIN gone = 1..Len(gone) /\ DOMAIN qseen = 1..Len(qseen) /\ Len(gone) \in Nat /\ Len(buf) \in Nat
      /\ Len(qseen) = Len(gone) + Len(buf) /\ \A a \in 1..Len(gone) : qseen[a] = gone[a]
  <2>1. qseen = gone \o buf /\ qseen \in Seq(QValues) BY <1>0, <1>8 DEF QueueFifo, QOnce
  <2>2. QED BY <2>1, TwoParts
<1>10. PICK b \in DOMAIN gone : gone[b] = e BY <1>6, <1>8 DEF Range
<1>11. b \in DOMAIN qseen /\ qseen[b] = e /\ b \in 1..Len(gone) BY <1>9, <1>10
<1>12. e \notin Range(qtodo[p])
  <2>1. e \in Range(qseen) BY <1>11 DEF Range
  <2>2. QED BY <1>0, <2>1 DEF QOnce
<1>13. PICK all \in Seq(QValues) : all = QOffers[p] /\ IsInjective(all) BY QOffersTyped
<1>14. PICK t \in Seq(QValues) : t = qtodo[p] BY <1>0 DEF QueueTypeOK
<1>15. PICK n : n = Len(all) - Len(t) OBVIOUS
<1>16. n \in Nat /\ \A k \in 1..Len(t) : t[k] = all[n + k] BY <1>0, <1>13, <1>14, <1>15 DEF StOwes
<1>17. PICK y \in Nat, z \in Nat : y = Len(all) /\ z = Len(t) /\ DOMAIN all = 1..y /\ DOMAIN t = 1..z
  BY <1>13, <1>14
<1>18. n = y - z /\ j \in 1..y /\ all[j] = e BY <1>7, <1>13, <1>15, <1>17
<1>19. j <= n
  <2> SUFFICES ASSUME j > n PROVE FALSE BY <1>16, <1>18
  <2>1. j - n \in 1..z /\ n + (j - n) = j BY <1>16, <1>18
  <2>2. t[j - n] = e BY <1>16, <1>17, <1>18, <2>1
  <2>3. e \in Range(t) BY <1>17, <2>1, <2>2 DEF Range
  <2>4. QED BY <1>12, <1>14, <2>3
<1>20. ASSUME NEW i \in 1..j-1, QOffers[p][i] \notin StMarks
       PROVE  QOffers[p][i] \in Range(stgot) \cup Range(qleft[p])
  <2>1. PICK x : x = all[i] OBVIOUS
  <2>2. i \in 1..y /\ i < j /\ i \in Nat BY <1>18
  <2>3. x \notin Range(t)
    <3> SUFFICES ASSUME NEW k \in DOMAIN t, t[k] = x PROVE FALSE BY DEF Range
    <3>1. k \in 1..z /\ n + k \in 1..y BY <1>16, <1>17, <1>18
    <3>2. all[n + k] = all[i] BY <1>16, <1>17, <2>1, <3>1
    <3>3. n + k = i BY <1>13, <1>17, <2>2, <3>1, <3>2 DEF IsInjective
    <3>4. QED BY <1>16, <1>18, <1>19, <2>2, <3>1, <3>3
  <2>4. x \in Range(QOffers[p]) /\ x \notin Range(qtodo[p])
    BY <1>13, <1>14, <1>17, <2>1, <2>2, <2>3 DEF Range
  <2>5. CASE x \in Range(qseen)
    <3>1. PICK a \in DOMAIN qseen : qseen[a] = x BY <2>5 DEF Range
    <3>2. a < b
      <4>1. i \in DOMAIN QOffers[p] /\ QOffers[p][i] = x BY <1>13, <1>17, <2>1, <2>2
      <4>2. QED BY <1>0, <1>7, <1>11, <2>2, <3>1, <4>1 DEF StStored
    <3>3. a \in 1..Len(gone) BY <1>9, <1>11, <3>1, <3>2
    <3>4. x \in Range(qgone) BY <1>8, <1>9, <3>1, <3>3 DEF Range
    <3>5. QED BY <1>5, <1>13, <1>20, <2>1, <3>4
  <2>6. CASE x \notin Range(qseen)
    <3>1. PICK r \in QProducers : x \in Range(qleft[r]) BY <1>0, <1>1, <2>4, <2>6 DEF QSwallow
    <3>2. x \in Range(QOffers[r]) BY <1>0, <3>1 DEF StOwes
    <3>3. r = p BY <2>4, <3>2, QueueAssumption
    <3>4. QED BY <1>13, <2>1, <3>1, <3>3
  <2>7. QED BY <2>5, <2>6
<1>21. QED BY <1>6, <1>7, <1>20

\* Every step keeps it.
LEMMA StreamNextOk == StreamIInv /\ [StreamNext]_stvars => StreamIInv'
<1> SUFFICES ASSUME StreamIInv, [StreamNext]_stvars PROVE StreamIInv' OBVIOUS
<1>0. /\ StreamTypeOK /\ StQueue /\ StReading /\ StreamInOrder /\ StNewest /\ StEnded
      /\ StStored /\ (\A r \in QProducers : StOwes(r))
      /\ QueueIInv /\ qopen = TRUE /\ StReader \in QConsumers
  BY StParts
<1>1. CASE UNCHANGED stvars
  <2>1. /\ qkind' = qkind /\ qbuf' = qbuf /\ qopen' = qopen /\ qclose' = qclose /\ qcall' = qcall
        /\ qtodo' = qtodo /\ qleft' = qleft /\ qtake' = qtake /\ qmade' = qmade
        /\ qseen' = qseen /\ qgone' = qgone /\ qdrop' = qdrop /\ qlate' = qlate /\ UNCHANGED stown
    BY <1>1 DEF stvars, qvars
  <2>2. stpolicy' = stpolicy /\ ststate' = ststate /\ stbuf' = stbuf /\ stgot' = stgot /\ sterrs' = sterrs
    BY <2>1 DEF stown
  <2>3. QueueIInv'
    BY <1>0, <2>1 DEF QueueIInv, QueueTypeOK, QueueFifo, QOnce, QBack, QSwallow, QHands, QWaits,
                         QLosses, QAsked
  <2>4. StReading' /\ StreamInOrder' /\ StNewest' /\ StEnded' BY <1>0, <2>1, StStreamStays
  <2>5. StStored' /\ \A p \in QProducers : StOwes(p)' BY <1>0, <2>1, <2>2, StSendersStay
  <2>6. StreamTypeOK' /\ StQueue'
    BY <1>0, <2>1, <2>2, <2>3 DEF StreamTypeOK, StQueue, QueueIInv
  <2>7. QED BY <2>4, <2>5, <2>6 DEF StreamIInv
<1>2. CASE StTake \/ StMessage \/ StYield \/ StExhaust BY <1>2, StMoveOk, StMessageOk, StYieldOk
<1>3. CASE QConsume(StReader) /\ UNCHANGED stown
  <2>1. qtake[StReader].at # "drain" BY <1>0 DEF StReading
  <2>2. CASE QRecv(StReader) /\ QPop(StReader)
    BY <1>3, <2>2, StPopOk DEF QRecv, QEnds
  <2>3. CASE QRecv(StReader) /\ QLook(StReader) BY <1>3, <2>3, StMoveOk DEF QRecv
  <2>4. CASE QNotified(StReader) BY <1>3, <2>4, StMoveOk
  <2>5. QED BY <1>0, <1>3, <2>1, <2>2, <2>3, <2>4 DEF QConsume, QRecv, QTryRecv, QFail
<1>4. ASSUME NEW p \in QProducers, StSend(p) \/ StSending(p) PROVE StreamIInv'
  <2>1. CASE QProduce(p) /\ UNCHANGED stown
    BY <2>1, StStoreOk, StRefuseOk, StNotifyOk DEF QProduce
  <2>2. QED BY <1>4, <2>1, StSendOk, StAgainOk DEF StSending
<1>5. QED BY <1>1, <1>2, <1>3, <1>4 DEF StreamNext, StPoll

\* Every chunk and every failure that leaves the queue reaches the puller once and in the
\* order in which it was stored, and a stream that blocks or fails its senders ends only
\* behind an End, with every chunk sent before it yielded or refused to its sender: for any
\* number of senders, every policy and every capacity (streaming/stream.rs over queue.rs).
THEOREM StreamInvariant == StreamSpec => []StreamInv
<1>1. StreamIInv => StreamInv BY StreamEndOk DEF StreamIInv, StreamInv
<1>2. QED BY <1>1, StreamInitOk, StreamNextOk, PTL DEF StreamSpec

(***************************************************************************)
(* A channel over a queue.                                                 *)
(***************************************************************************)

\* The chunks that are to come are the last of the stream's; only a stream channel has any.
ChChunk == Seq(QValues) \ {<<>>}
ChSource ==
  LET at == Len(ChChunks) - Len(chsrc) IN
  /\ chsrc \in Seq(ChChunk)
  /\ IF chmode = "stream"
     THEN at \in Nat /\ \A k \in 1..Len(chsrc) : chsrc[k] = ChChunks[at + k]
     ELSE chsrc = <<>>

\* A reader is inside a take of one element only while it is at "take", and has outputs in
\* its hand only behind it; one that was told of the end met a queue that was shut and empty.
ChReader(c) ==
  LET t == qtake[c] IN
  /\ t.at \in {"idle", "recv", "gap", "asleep", "done", "failed"}
  /\ t.at # "idle" => chat[c] = "take" /\ chmode # "stream"
  /\ t.at \in {"recv", "gap", "asleep"} => t.lo = 1 /\ t.hi = 1
  /\ IF t.at = "done" THEN Len(t.out) = 1 ELSE t.out = <<>>
  /\ chat[c] \notin {"expand", "push"} => chhold[c] = <<>>
  /\ chat[c] = "push" => Len(chhold[c]) = 1
  /\ chreads[c] = 0 => chat[c] = "idle" /\ chgot[c] = <<>>
  /\ t.at = "failed" \/ (chat[c] = "end" /\ chmode # "stream") => ~qopen /\ qbuf = <<>>

\* A writer offers one element at a time, and again while it is refused.
ChWriter(p) ==
  /\ Range(qleft[p]) \subseteq Range(QOffers[p])
  /\ qleft[p] # <<>> => Len(qleft[p]) = 1 /\ qcall[p] = "none" /\ chmode = "queue"
  /\ qcall[p] \in {"none", "offer", "notify_one"} /\ (qcall[p] # "none" => chmode # "stream")
  /\ chsnap[p] => chmode = "fold" /\ qcall[p] = "none" /\ qtodo[p] # <<>>

\* The queue of a fold channel takes everything.
ChKind == chmode = "fold" => qkind = "unbounded" /\ qopen

\* p has folded its next input and not enqueued the snapshot.
ChOwed(p) == chsnap[p] \/ qcall[p] = "offer"

\* What was stored or is to be was folded in, and a writer that is alone folds and stores
\* in the same order.
ChFolds ==
  chmode = "fold" =>
     /\ Range(qseen) \subseteq Range(chacc)
     /\ \A p \in QProducers : ChOwed(p) => Head(qtodo[p]) \in Range(chacc)
     /\ \A p \in QProducers : Range(chacc) \subseteq Range(QOffers[p]) =>
          chacc = IF ChOwed(p) THEN Append(qseen, Head(qtodo[p])) ELSE qseen

\* No output is in two places, and those that are somewhere are the ones handed out.
ChApart ==
  /\ IsInjective(chpend)
  /\ \A c \in QConsumers :
       /\ IsInjective(chhold[c]) /\ IsInjective(chgot[c])
       /\ Range(chhold[c]) \cap Range(chpend) = {} /\ Range(chgot[c]) \cap Range(chpend) = {}
       /\ \A d \in QConsumers :
            /\ Range(chhold[c]) \cap Range(chgot[d]) = {}
            /\ c # d => Range(chhold[c]) \cap Range(chhold[d]) = {}
                          /\ Range(chgot[c]) \cap Range(chgot[d]) = {}
  /\ \A x : x \in ChHanded <=> \/ x \in Range(chpend)
                            \/ \E c \in QConsumers : x \in Range(chhold[c]) \cup Range(chgot[c])

\* The outputs of a reader that is alone are in order, what it takes is newer than all of
\* them, and it takes nothing while there is something on the list.
ChLinedUp(c) ==
  chmode # "stream" /\ ChAlone(c) =>
     /\ \A i, j \in DOMAIN ChLine(c) : i < j => ChBefore(ChLine(c)[i], ChLine(c)[j])
     /\ chat[c] \in {"take", "expand", "end"} => chpend = <<>>
     /\ \A v \in Range(qtake[c].out), x \in Range(ChLine(c)) :
          \E a, b \in DOMAIN qgone : a < b /\ qgone[a] = x[1] /\ qgone[b] = v

\* What is made of a stream comes in order; one that comes before another.
ChTidy(s) == \A i, j \in DOMAIN s : i < j => ChPulledBefore(s[i], s[j])
ChAhead(s, t) == \A x \in Range(s), y \in Range(t) : ChPulledBefore(x, y)

\* The outputs of a reader of a stream that is alone are in order, it pulls a chunk only
\* when the list is empty, and has the expansion of the chunk's first element in its hand
\* while the others are all there is on the list.
ChStreamed(c) ==
  chmode = "stream" /\ ChAlone(c) =>
     /\ ChTidy(ChLine(c))
     /\ chat[c] \in {"take", "end"} => chpend = <<>>
     /\ chat[c] = "end" => chsrc = <<>>
     /\ chat[c] = "expand" =>
          \E k \in DOMAIN ChChunks : /\ chhold[c] = Expand(Head(ChChunks[k]))
                                     /\ chpend = Raw(Tail(ChChunks[k]))

\* The inductive invariant.
ChannelIInv == /\ ChannelTypeOK /\ ChSource /\ QueueIInv /\ ChKind /\ ChFolds /\ ChApart
               /\ \A p \in QProducers : ChWriter(p)
               /\ \A c \in QConsumers : ChReader(c) /\ ChLinedUp(c) /\ ChStreamed(c)

\* The parts of the invariant.
LEMMA ChParts ==
  ASSUME ChannelIInv
  PROVE  /\ ChannelTypeOK /\ ChSource /\ QueueIInv /\ ChKind /\ ChFolds /\ ChApart
         /\ (\A p \in QProducers : ChWriter(p))
         /\ (\A c \in QConsumers : ChReader(c) /\ ChLinedUp(c) /\ ChStreamed(c))
         /\ QueueTypeOK /\ QueueFifo /\ QOnce /\ QBack /\ QSwallow /\ QHands /\ QWaits /\ QLosses
         /\ chpend \in Seq(ChOutputs)
         /\ chhold \in [QConsumers -> Seq(ChOutputs)] /\ chgot \in [QConsumers -> Seq(ChOutputs)]
BY DEF ChannelIInv, ChannelTypeOK, QueueIInv

\* A step that changes nothing about the outputs.
LEMMA ChOutputsStay ==
  ASSUME ChApart, chpend' = chpend, chhold' = chhold, chgot' = chgot, ChHanded' = ChHanded
  PROVE  ChApart'
BY DEF ChApart

\* What is due stays what it is when the wired elements, or the chunks to come, do.
LEMMA ChHandedStays ==
  ASSUME chmode' = chmode, chsrc' = chsrc, ChWired' = ChWired PROVE ChHanded' = ChHanded
<1>1. ChPulled' = ChPulled BY DEF ChPulled
<1>2. ChFirsts' = ChFirsts /\ ChOthers' = ChOthers BY <1>1 DEF ChFirsts, ChOthers
<1>3. QED BY <1>2 DEF ChHanded

\* The order of the outputs stays what it is when the queue goes on.
LEMMA ChOrderStays ==
  ASSUME NEW c \in QConsumers, ChLinedUp(c), chmode' = chmode,
         \A d \in QConsumers : chreads[d] \in Nat /\ chreads'[d] \in Nat /\ chreads[d] <= chreads'[d],
         ChLine(c)' = ChLine(c),
         chat'[c] \in {"take", "expand", "end"} =>
            (chat[c] \in {"take", "expand", "end"} /\ chpend' = chpend) \/ chpend' = <<>>,
         qtake'[c].out = qtake[c].out \/ qtake'[c].out = <<>>,
         DOMAIN qgone \subseteq DOMAIN qgone', \A a \in DOMAIN qgone : qgone'[a] = qgone[a]
  PROVE  ChLinedUp(c)'
<1> SUFFICES ASSUME chmode # "stream", ChAlone(c)'
             PROVE  /\ \A i, j \in DOMAIN ChLine(c)' : i < j => ChBefore(ChLine(c)[i], ChLine(c)[j])'
                    /\ chat'[c] \in {"take", "expand", "end"} => chpend' = <<>>
                    /\ \A v \in Range(qtake'[c].out), x \in Range(ChLine(c)') :
                         \E a, b \in DOMAIN qgone' : a < b /\ qgone'[a] = x[1] /\ qgone'[b] = v
  BY DEF ChLinedUp
<1>1. ChAlone(c)
  <2>1. \A d \in QConsumers \ {c} : chreads'[d] = 0 BY DEF ChAlone
  <2>2. \A d \in QConsumers \ {c} : chreads[d] = 0 BY <2>1
  <2>3. QED BY <2>2 DEF ChAlone
<1>2. PICK line : line = ChLine(c) /\ line = ChLine(c)' OBVIOUS
<1>3. /\ \A i, j \in DOMAIN line : i < j => ChBefore(line[i], line[j])
      /\ chat[c] \in {"take", "expand", "end"} => chpend = <<>>
      /\ \A v \in Range(qtake[c].out), x \in Range(line) :
           \E a, b \in DOMAIN qgone : a < b /\ qgone[a] = x[1] /\ qgone[b] = v
  BY <1>1, <1>2 DEF ChLinedUp
<1>4. \A x, y : (\E a, b \in DOMAIN qgone : a < b /\ qgone[a] = x /\ qgone[b] = y)
          => \E a, b \in DOMAIN qgone' : a < b /\ qgone'[a] = x /\ qgone'[b] = y
  <2> SUFFICES ASSUME NEW x, NEW y, NEW a \in DOMAIN qgone, NEW b \in DOMAIN qgone,
                      a < b, qgone[a] = x, qgone[b] = y
               PROVE  \E k, l \in DOMAIN qgone' : k < l /\ qgone'[k] = x /\ qgone'[l] = y
    OBVIOUS
  <2>1. a \in DOMAIN qgone' /\ b \in DOMAIN qgone' /\ qgone'[a] = x /\ qgone'[b] = y OBVIOUS
  <2>2. QED BY <2>1
<1>5. \A x, y : ChBefore(x, y) => ChBefore(x, y)' BY <1>4 DEF ChBefore
<1>6. \A i, j \in DOMAIN line : i < j => ChBefore(line[i], line[j])' BY <1>3, <1>5
<1>7. \A i, j \in DOMAIN ChLine(c)' : i < j => ChBefore(ChLine(c)[i], ChLine(c)[j])'
  BY <1>2, <1>6 DEF ChBefore
<1>8. chat'[c] \in {"take", "expand", "end"} => chpend' = <<>> BY <1>3
<1>9. ASSUME NEW v \in Range(qtake'[c].out), NEW x \in Range(ChLine(c)')
      PROVE  \E a, b \in DOMAIN qgone' : a < b /\ qgone'[a] = x[1] /\ qgone'[b] = v
  <2>1. CASE qtake'[c].out = <<>>
    <3>1. Range(qtake'[c].out) = {} BY <2>1, EmptyLine, Zenon
    <3>2. QED BY <3>1
  <2>2. CASE qtake'[c].out = qtake[c].out
    <3>1. v \in Range(qtake[c].out) /\ x \in Range(line) BY <1>2, <2>2
    <3>2. QED BY <1>3, <1>4, <3>1
  <2>3. QED BY <2>1, <2>2
<1>10. QED BY <1>7, <1>8, <1>9

\* The same for what is made of a stream.
LEMMA ChStreamStays ==
  ASSUME NEW c \in QConsumers, ChStreamed(c), chmode' = chmode, chsrc' = chsrc,
         \A d \in QConsumers : chreads[d] \in Nat /\ chreads'[d] \in Nat /\ chreads[d] <= chreads'[d],
         ChLine(c)' = ChLine(c),
         chat'[c] = "take" => chpend' = <<>>,
         chat'[c] \in {"expand", "end"} =>
            chat'[c] = chat[c] /\ chpend' = chpend /\ chhold'[c] = chhold[c]
  PROVE  ChStreamed(c)'
<1> SUFFICES ASSUME chmode = "stream", ChAlone(c)' PROVE ChStreamed(c)' BY DEF ChStreamed
<1>1. ChAlone(c)
  <2>1. \A d \in QConsumers \ {c} : chreads'[d] = 0 BY DEF ChAlone
  <2>2. \A d \in QConsumers \ {c} : chreads[d] = 0 BY <2>1
  <2>3. QED BY <2>2 DEF ChAlone
<1>2. PICK line : line = ChLine(c) /\ line = ChLine(c)' OBVIOUS
<1>3. ChTidy(line) BY <1>1, <1>2 DEF ChStreamed
<1>4. ChTidy(ChLine(c))' BY <1>2, <1>3 DEF ChTidy, ChPulledBefore
<1>5. chat'[c] \in {"take", "end"} => chpend' = <<>> BY <1>1 DEF ChStreamed
<1>6. chat'[c] = "end" => chsrc' = <<>> BY <1>1 DEF ChStreamed
<1>7. ASSUME chat'[c] = "expand"
      PROVE  \E k \in DOMAIN ChChunks : /\ chhold'[c] = Expand(Head(ChChunks[k]))
                                        /\ chpend' = Raw(Tail(ChChunks[k]))
  BY <1>1, <1>7 DEF ChStreamed
<1>8. QED BY <1>4, <1>5, <1>6, <1>7 DEF ChStreamed, Expand, Raw

\* A step of a reader leaves the writers alone.
LEMMA ChWritersStay ==
  ASSUME \A p \in QProducers : ChWriter(p), ChKind, ChFolds,
         qtodo' = qtodo, qleft' = qleft, qcall' = qcall, qseen' = qseen, qkind' = qkind, qopen' = qopen,
         chmode' = chmode, chacc' = chacc, chsnap' = chsnap
  PROVE  ChKind' /\ ChFolds' /\ \A p \in QProducers : ChWriter(p)'
<1>1. ChKind' BY DEF ChKind
<1>2. ChFolds' BY DEF ChFolds, ChOwed
<1>3. \A p \in QProducers : ChWriter(p)' BY DEF ChWriter
<1>4. QED BY <1>1, <1>2, <1>3

\* A reader moves outputs between the list, its hand and what it has returned, and takes
\* in outputs that were not due yet.
LEMMA ChShuffle ==
  ASSUME ChApart, NEW c \in QConsumers, NEW N,
         \A d \in QConsumers \ {c} : chhold'[d] = chhold[d] /\ chgot'[d] = chgot[d],
         N \cap ChHanded = {}, ChHanded' = ChHanded \cup N,
         IsInjective(chpend'), IsInjective(chhold'[c]), IsInjective(chgot'[c]),
         Range(chhold'[c]) \cap Range(chpend') = {}, Range(chgot'[c]) \cap Range(chpend') = {},
         Range(chhold'[c]) \cap Range(chgot'[c]) = {},
         \A x : x \in Range(chpend') \cup Range(chhold'[c]) \cup Range(chgot'[c])
            <=> x \in Range(chpend) \cup Range(chhold[c]) \cup Range(chgot[c]) \cup N
  PROVE  ChApart'
<1> DEFINE mine == Range(chpend) \cup Range(chhold[c]) \cup Range(chgot[c])
           next == Range(chpend') \cup Range(chhold'[c]) \cup Range(chgot'[c])
           of(d) == Range(chhold[d]) \cup Range(chgot[d])
<1>1. \A x : x \in next <=> x \in mine \cup N OBVIOUS
<1>2. \A d \in QConsumers \ {c} : of(d) \cap mine = {} /\ of(d) \subseteq ChHanded BY DEF ChApart
<1>3. \A d \in QConsumers \ {c} : of(d) \cap next = {} BY <1>1, <1>2
<1>4. \A d, e \in QConsumers \ {c} : d # e => of(d) \cap of(e) = {} BY DEF ChApart
<1>5. \A d \in QConsumers \ {c} : /\ IsInjective(chhold[d]) /\ IsInjective(chgot[d])
                                  /\ Range(chhold[d]) \cap Range(chgot[d]) = {}
  BY DEF ChApart
<1>6. \A x : x \in ChHanded <=> x \in mine \/ \E d \in QConsumers \ {c} : x \in of(d) BY DEF ChApart
<1>7. \A x : x \in ChHanded' <=> x \in next \/ \E d \in QConsumers \ {c} : x \in of(d) BY <1>1, <1>6
<1>8. \A x : x \in ChHanded' <=> \/ x \in Range(chpend')
                              \/ \E d \in QConsumers : x \in Range(chhold'[d]) \cup Range(chgot'[d])
  <2> SUFFICES ASSUME NEW x
               PROVE  x \in ChHanded' <=> \/ x \in Range(chpend')
                                       \/ \E d \in QConsumers : x \in Range(chhold'[d]) \cup Range(chgot'[d])
    OBVIOUS
  <2>1. x \in next <=> x \in Range(chpend') \/ x \in Range(chhold'[c]) \cup Range(chgot'[c]) OBVIOUS
  <2>2. (\E d \in QConsumers \ {c} : x \in of(d))
           <=> \E d \in QConsumers \ {c} : x \in Range(chhold'[d]) \cup Range(chgot'[d])
    OBVIOUS
  <2> HIDE DEF next, of
  <2>3. (\E d \in QConsumers : x \in Range(chhold'[d]) \cup Range(chgot'[d]))
           <=> \/ x \in Range(chhold'[c]) \cup Range(chgot'[c])
               \/ \E d \in QConsumers \ {c} : x \in Range(chhold'[d]) \cup Range(chgot'[d])
    OBVIOUS
  <2>4. QED BY <1>7, <2>1, <2>2, <2>3, Zenon
<1>9. ASSUME NEW d \in QConsumers
      PROVE  /\ IsInjective(chhold'[d]) /\ IsInjective(chgot'[d])
             /\ Range(chhold'[d]) \cap Range(chpend') = {} /\ Range(chgot'[d]) \cap Range(chpend') = {}
  <2>1. CASE d = c BY <2>1
  <2>2. CASE d # c BY <1>3, <1>5, <2>2
  <2>3. QED BY <2>1, <2>2
<1>10. ASSUME NEW d \in QConsumers, NEW e \in QConsumers
       PROVE  /\ Range(chhold'[d]) \cap Range(chgot'[e]) = {}
              /\ d # e => Range(chhold'[d]) \cap Range(chhold'[e]) = {}
                          /\ Range(chgot'[d]) \cap Range(chgot'[e]) = {}
  <2>1. CASE d = c /\ e = c BY <2>1
  <2>2. CASE d = c /\ e # c
    <3>1. of(e) \cap next = {} /\ chhold'[e] = chhold[e] /\ chgot'[e] = chgot[e] BY <1>3, <2>2
    <3>2. QED BY <2>2, <3>1
  <2>3. CASE d # c /\ e = c
    <3>1. of(d) \cap next = {} /\ chhold'[d] = chhold[d] /\ chgot'[d] = chgot[d] BY <1>3, <2>3
    <3>2. QED BY <2>3, <3>1
  <2>4. CASE d # c /\ e # c
    <3>1. d # e => of(d) \cap of(e) = {} BY <1>4, <2>4
    <3>2. QED BY <1>5, <2>4, <3>1
  <2>5. QED BY <2>1, <2>2, <2>3, <2>4
<1>11. QED BY <1>8, <1>9, <1>10, Zenon DEF ChApart

\* A step of a writer, or of shutdown, leaves the readers and the outputs alone.
LEMMA ChQueueStep ==
  ASSUME ChannelIInv, QueueIInv',
         UNCHANGED <<chmode, chpend, chsrc, chat, chhold, chgot, chreads>>,
         chacc' \in Seq(QValues), chsnap' \in [QProducers -> BOOLEAN],
         \A c \in QConsumers :
            \/ qtake'[c] = qtake[c]
            \/ /\ qtake[c].at = "asleep" /\ qtake'[c].at = "recv" /\ qtake'[c].out = qtake[c].out
               /\ qtake'[c].lo = qtake[c].lo /\ qtake'[c].hi = qtake[c].hi,
         ~qopen /\ qbuf = <<>> => ~qopen' /\ qbuf' = <<>>,
         DOMAIN qgone \subseteq DOMAIN qgone', \A a \in DOMAIN qgone : qgone'[a] = qgone[a],
         Range(qgone') \ qdrop' = Range(qgone) \ qdrop,
         ChKind', ChFolds', \A p \in QProducers : ChWriter(p)'
  PROVE  ChannelIInv'
<1>0. /\ ChannelTypeOK /\ ChSource /\ ChApart
      /\ (\A c \in QConsumers : ChReader(c) /\ ChLinedUp(c) /\ ChStreamed(c))
      /\ QueueTypeOK /\ chreads \in [QConsumers -> Nat]
  BY ChParts DEF ChannelTypeOK
<1>1. /\ chmode' = chmode /\ chpend' = chpend /\ chsrc' = chsrc /\ chat' = chat /\ chhold' = chhold
      /\ chgot' = chgot /\ chreads' = chreads
  OBVIOUS
<1>2. QueueTypeOK' BY DEF QueueIInv
<1>3. ChannelTypeOK' BY <1>0, <1>1, <1>2 DEF ChannelTypeOK
<1>4. ChSource' BY <1>0, <1>1 DEF ChSource, ChChunk
<1>5. QInHand' = QInHand
  <2>1. \A c \in QConsumers : qtake'[c].out = qtake[c].out OBVIOUS
  <2>2. QED BY <2>1 DEF QInHand
<1>6. ChWired' = ChWired BY <1>5 DEF ChWired
<1>7. ChApart' BY <1>0, <1>1, <1>6, ChHandedStays, ChOutputsStay
<1>8. ASSUME NEW c \in QConsumers PROVE ChReader(c)' /\ ChLinedUp(c)' /\ ChStreamed(c)'
  <2>0. ChReader(c) /\ ChLinedUp(c) /\ ChStreamed(c) BY <1>0
  <2>1. ChReader(c)'
    <3>1. CASE qtake'[c] = qtake[c] BY <1>1, <2>0, <3>1 DEF ChReader
    <3>2. CASE /\ qtake[c].at = "asleep" /\ qtake'[c].at = "recv" /\ qtake'[c].out = qtake[c].out
               /\ qtake'[c].lo = qtake[c].lo /\ qtake'[c].hi = qtake[c].hi
      BY <1>1, <2>0, <3>2 DEF ChReader
    <3>3. QED BY <3>1, <3>2
  <2>2. ChLine(c)' = ChLine(c) BY <1>1 DEF ChLine
  <2>3. \A d \in QConsumers : chreads[d] \in Nat /\ chreads'[d] \in Nat /\ chreads[d] <= chreads'[d]
    BY <1>0, <1>1
  <2>4. qtake'[c].out = qtake[c].out OBVIOUS
  <2>5. ChLinedUp(c)' BY <1>1, <2>0, <2>2, <2>3, <2>4, ChOrderStays
  <2>6. ChStreamed(c)'
    <3>1. CASE chmode # "stream" BY <1>1, <3>1 DEF ChStreamed
    <3>2. CASE chmode = "stream"
      <4>1. chat[c] = "take" /\ ChAlone(c) => chpend = <<>> BY <2>0, <3>2 DEF ChStreamed
      <4>2. ChAlone(c)' => ChAlone(c) BY <1>1 DEF ChAlone
      <4>3. CASE ~ChAlone(c) BY <4>2, <4>3 DEF ChStreamed
      <4>4. CASE ChAlone(c) BY <1>1, <2>0, <2>2, <2>3, <4>1, <4>4, ChStreamStays
      <4>5. QED BY <4>3, <4>4
    <3>3. QED BY <3>1, <3>2
  <2>7. QED BY <2>1, <2>5, <2>6
<1>9. QED BY <1>3, <1>4, <1>7, <1>8 DEF ChannelIInv

\* A writer folds its input into the accumulator.
LEMMA ChFoldOk == ASSUME ChannelIInv, NEW p \in QProducers, ChFold(p) PROVE ChannelIInv'
<1>0. /\ ChannelTypeOK /\ QueueIInv /\ ChKind /\ ChFolds /\ (\A r \in QProducers : ChWriter(r))
      /\ QueueTypeOK /\ QOnce /\ chacc \in Seq(QValues) /\ chsnap \in [QProducers -> BOOLEAN]
      /\ qtodo \in [QProducers -> Seq(QValues)]
  BY ChParts DEF ChannelTypeOK, QueueTypeOK
<1>1. /\ chmode = "fold" /\ ~chsnap[p] /\ qcall[p] = "none" /\ qtodo[p] # <<>>
      /\ chacc' = Append(chacc, Head(qtodo[p])) /\ chsnap' = [chsnap EXCEPT ![p] = TRUE]
      /\ UNCHANGED <<chmode, chpend, chsrc, chat, chhold, chgot, chreads>>
      /\ UNCHANGED qvars
  BY DEF ChFold
<1>2. /\ qkind' = qkind /\ qbuf' = qbuf /\ qopen' = qopen /\ qclose' = qclose /\ qcall' = qcall
      /\ qtodo' = qtodo /\ qleft' = qleft /\ qtake' = qtake /\ qmade' = qmade
      /\ qseen' = qseen /\ qgone' = qgone /\ qdrop' = qdrop /\ qlate' = qlate /\ chmode' = chmode
  BY <1>1 DEF qvars
<1>3. QueueIInv'
  BY <1>0, <1>2 DEF QueueIInv, QueueTypeOK, QueueFifo, QOnce, QBack, QSwallow, QHands, QWaits,
                       QLosses, QAsked
<1>4. PICK h \in QValues : h = Head(qtodo[p]) /\ h \in Range(qtodo[p])
  <2>1. qtodo[p] \in Seq(QValues) /\ IsInjective(qtodo[p]) BY <1>0 DEF QOnce
  <2>2. Head(qtodo[p]) \in QValues /\ Head(qtodo[p]) \in Range(qtodo[p]) BY <1>1, <2>1, TailOnce
  <2>3. QED BY <2>2
<1>5. chacc' \in Seq(QValues) /\ Range(chacc') = Range(chacc) \cup {h} BY <1>0, <1>1, <1>4, RangeAppend
<1>6. /\ chsnap' \in [QProducers -> BOOLEAN] /\ chsnap'[p] = TRUE
      /\ \A r \in QProducers \ {p} : chsnap'[r] = chsnap[r]
  BY <1>0, <1>1
<1>7. ChKind' BY <1>0, <1>2 DEF ChKind
<1>8. ASSUME NEW r \in QProducers PROVE ChWriter(r)'
  <2>1. ChWriter(r) BY <1>0
  <2>2. CASE r = p BY <1>1, <1>2, <2>1, <2>2 DEF ChWriter
  <2>3. CASE r # p BY <1>2, <1>6, <2>1, <2>3 DEF ChWriter
  <2>4. QED BY <2>2, <2>3
<1>9. ChFolds'
  <2>1. ChOwed(p)' /\ ~ChOwed(p) BY <1>1, <1>6 DEF ChOwed
  <2>2. ASSUME NEW r \in QProducers \ {p} PROVE ChOwed(r)' <=> ChOwed(r)
    BY <1>2, <1>6 DEF ChOwed
  <2>3. Range(qseen') \subseteq Range(chacc') BY <1>0, <1>1, <1>2, <1>5 DEF ChFolds
  <2>4. ASSUME NEW r \in QProducers, ChOwed(r)' PROVE Head(qtodo'[r]) \in Range(chacc')
    <3>1. CASE r = p BY <1>2, <1>4, <1>5, <3>1
    <3>2. CASE r # p
      <4>1. ChOwed(r) BY <2>2, <2>4, <3>2
      <4>2. QED BY <1>0, <1>1, <1>2, <1>5, <4>1 DEF ChFolds
    <3>3. QED BY <3>1, <3>2
  <2>5. ASSUME NEW r \in QProducers, Range(chacc') \subseteq Range(QOffers[r])
        PROVE  chacc' = IF ChOwed(r)' THEN Append(qseen', Head(qtodo'[r])) ELSE qseen'
    <3>1. h \in Range(QOffers[p]) BY <1>0, <1>4 DEF QOnce
    <3>2. r = p BY <1>5, <2>5, <3>1, QueueAssumption
    <3>3. Range(chacc) \subseteq Range(QOffers[p]) BY <1>5, <2>5, <3>2
    <3>4. chacc = qseen BY <1>0, <1>1, <2>1, <3>3 DEF ChFolds
    <3>5. QED BY <1>1, <1>2, <2>1, <3>2, <3>4
  <2>6. QED BY <2>3, <2>4, <2>5 DEF ChFolds
<1>10. QED BY <1>1, <1>2, <1>3, <1>5, <1>6, <1>7, <1>8, <1>9, ChQueueStep

\* A writer begins to offer.
LEMMA ChWriteOk == ASSUME ChannelIInv, NEW p \in QProducers, ChWrite(p) PROVE ChannelIInv'
<1>0. /\ ChannelTypeOK /\ QueueIInv /\ ChKind /\ ChFolds /\ (\A r \in QProducers : ChWriter(r))
      /\ QueueTypeOK /\ chacc \in Seq(QValues) /\ chsnap \in [QProducers -> BOOLEAN]
      /\ qcall \in [QProducers -> {"none", "offer", "offer_all", "notify_one", "notify_all"}]
  BY ChParts DEF ChannelTypeOK, QueueTypeOK
<1>1. /\ chmode # "stream" /\ (chmode = "fold" => chsnap[p]) /\ qleft[p] = <<>> /\ QOffer(p, "offer")
      /\ chsnap' = [chsnap EXCEPT ![p] = FALSE] /\ chacc' = chacc
      /\ UNCHANGED <<chmode, chpend, chsrc, chat, chhold, chgot, chreads>>
  BY DEF ChWrite
<1>2. /\ qkind' = qkind /\ qbuf' = qbuf /\ qopen' = qopen /\ qtodo' = qtodo /\ qleft' = qleft
      /\ qtake' = qtake /\ qseen' = qseen /\ qgone' = qgone /\ qdrop' = qdrop /\ chmode' = chmode
      /\ qcall' = [qcall EXCEPT ![p] = "offer"]
  BY <1>1 DEF QOffer, qcons, qstore
<1>3. QueueIInv' BY <1>0, <1>1, QueueCallOk
<1>4. /\ chsnap' \in [QProducers -> BOOLEAN] /\ chsnap'[p] = FALSE /\ qcall'[p] = "offer"
      /\ \A r \in QProducers \ {p} : chsnap'[r] = chsnap[r] /\ qcall'[r] = qcall[r]
  BY <1>0, <1>1, <1>2
<1>5. ChKind' BY <1>0, <1>2 DEF ChKind
<1>6. ASSUME NEW r \in QProducers PROVE ChWriter(r)'
  <2>1. ChWriter(r) BY <1>0
  <2>2. CASE r = p BY <1>1, <1>2, <1>4, <2>1, <2>2 DEF ChWriter
  <2>3. CASE r # p BY <1>2, <1>4, <2>1, <2>3 DEF ChWriter
  <2>4. QED BY <2>2, <2>3
<1>7. ChFolds'
  <2> SUFFICES ASSUME chmode = "fold" PROVE ChFolds' BY <1>2 DEF ChFolds
  <2>1. \A r \in QProducers : ChOwed(r)' <=> ChOwed(r) BY <1>1, <1>2, <1>4 DEF ChOwed
  <2>2. QED BY <1>0, <1>1, <1>2, <2>1 DEF ChFolds
<1>8. QED BY <1>0, <1>1, <1>2, <1>3, <1>4, <1>5, <1>6, <1>7, ChQueueStep

\* The element that was refused is offered again.
LEMMA ChRetryOk == ASSUME ChannelIInv, NEW p \in QProducers, ChRetry(p) PROVE ChannelIInv'
<1>0. /\ ChannelTypeOK /\ QueueIInv /\ ChKind /\ ChFolds /\ (\A r \in QProducers : ChWriter(r))
      /\ QueueTypeOK /\ QOnce /\ QBack /\ chacc \in Seq(QValues) /\ chsnap \in [QProducers -> BOOLEAN]
      /\ qcall \in [QProducers -> {"none", "offer", "offer_all", "notify_one", "notify_all"}]
      /\ qtodo \in [QProducers -> Seq(QValues)] /\ qleft \in [QProducers -> Seq(QValues)]
  BY ChParts DEF ChannelTypeOK, QueueTypeOK
<1>1. /\ qcall[p] = "none" /\ qleft[p] # <<>>
      /\ qtodo' = [qtodo EXCEPT ![p] = qleft[p] \o @] /\ qleft' = [qleft EXCEPT ![p] = <<>>]
      /\ qcall' = [qcall EXCEPT ![p] = "offer"]
      /\ UNCHANGED <<qkind, qopen, qclose, qcons, qstore, qlate>> /\ UNCHANGED chown
  BY DEF ChRetry
<1>2. /\ qkind' = qkind /\ qbuf' = qbuf /\ qopen' = qopen
      /\ qtake' = qtake /\ qseen' = qseen /\ qgone' = qgone /\ qdrop' = qdrop
  BY <1>1 DEF qcons, qstore
<1>3. /\ chmode' = chmode /\ chacc' = chacc /\ chsnap' = chsnap
      /\ UNCHANGED <<chmode, chpend, chsrc, chat, chhold, chgot, chreads>>
  BY <1>1 DEF chown
<1>4. PICK l \in Seq(QValues) : l = qleft[p] BY <1>0
<1>5. PICK t \in Seq(QValues) : t = qtodo[p] BY <1>0
<1>6. Len(l) = 1 /\ chmode = "queue" BY <1>0, <1>1, <1>4 DEF ChWriter
<1>7. PICK v : v = l[1] OBVIOUS
<1>8. DOMAIN l = {1} BY <1>4, <1>6
<1>9. IsInjective(l) /\ Range(l) = {v} BY <1>7, <1>8 DEF IsInjective, Range
<1>10. IsInjective(t) /\ v \notin Range(t) BY <1>0, <1>4, <1>5, <1>9 DEF QOnce, QBack
<1>11. PICK m \in Seq(QValues) : m = l \o t
  <2>1. l \o t \in Seq(QValues) BY <1>4, <1>5, TwoParts
  <2>2. QED BY <2>1, Zenon
<1>12. IsInjective(m) /\ Range(m) = Range(t) \cup {v}
  <2>1. Range(l) \cap Range(t) = {} BY <1>9, <1>10
  <2>2. IsInjective(l \o t) /\ Range(l \o t) = Range(l) \cup Range(t)
    BY <1>4, <1>5, <1>9, <1>10, <2>1, ConcatOnce
  <2>3. QED BY <1>9, <1>11, <2>2
<1>13. m # <<>>
  <2>1. v \in Range(m) BY <1>12
  <2>2. QED BY <2>1, EmptyLine
<1>14. /\ qtodo'[p] = m /\ qleft'[p] = <<>> /\ qcall'[p] = "offer"
       /\ qtodo' \in [QProducers -> Seq(QValues)] /\ qleft' \in [QProducers -> Seq(QValues)]
       /\ \A r \in QProducers \ {p} : qleft'[r] = qleft[r] /\ qtodo'[r] = qtodo[r] /\ qcall'[r] = qcall[r]
  BY <1>0, <1>1, <1>4, <1>5, <1>11
<1>15. QueueIInv'
  <2>1. \A r \in QProducers : Range(qleft[r]) \subseteq Range(QOffers[r]) BY <1>0 DEF ChWriter
  <2>2. Range(qleft'[p]) = Range(qleft[p]) \ {v}
    <3>1. Range(qleft'[p]) = {} BY <1>14, EmptyLine, Zenon
    <3>2. QED BY <1>4, <1>9, <3>1
  <2>3. v \in Range(qleft[p]) BY <1>4, <1>9
  <2>4. IsInjective(qtodo'[p]) /\ Range(qtodo'[p]) = Range(qtodo[p]) \cup {v} /\ qtodo'[p] # <<>>
    BY <1>5, <1>12, <1>13, <1>14
  <2>5. QED BY <1>0, <1>1, <1>14, <2>1, <2>2, <2>3, <2>4, QueueAgainOk
<1>16. ChKind' BY <1>3, <1>6 DEF ChKind
<1>17. ChFolds' BY <1>3, <1>6 DEF ChFolds
<1>18. ASSUME NEW r \in QProducers PROVE ChWriter(r)'
  <2>1. ChWriter(r) BY <1>0
  <2>2. CASE r = p
    <3>1. Range(qleft'[p]) = {} BY <1>14, EmptyLine, Zenon
    <3>2. QED BY <1>1, <1>3, <1>6, <1>14, <2>1, <2>2, <3>1 DEF ChWriter
  <2>3. CASE r # p BY <1>3, <1>14, <2>1, <2>3 DEF ChWriter
  <2>4. QED BY <2>2, <2>3
<1>19. QED BY <1>0, <1>2, <1>3, <1>15, <1>16, <1>17, <1>18, ChQueueStep

\* An element is stored; the snapshot of a writer that is alone follows the earlier ones.
LEMMA ChStoreOk ==
  ASSUME ChannelIInv, NEW p \in QProducers, QOfferStep(p), UNCHANGED chown, qopen /\ ~QFull
  PROVE  ChannelIInv'
<1>0. /\ ChannelTypeOK /\ QueueIInv /\ ChKind /\ ChFolds /\ (\A r \in QProducers : ChWriter(r))
      /\ QueueTypeOK /\ QOnce /\ chacc \in Seq(QValues) /\ chsnap \in [QProducers -> BOOLEAN]
      /\ qcall \in [QProducers -> {"none", "offer", "offer_all", "notify_one", "notify_all"}]
      /\ qseen \in Seq(QValues)
  BY ChParts DEF ChannelTypeOK, QueueTypeOK, QOnce
<1>1. QueueIInv' BY <1>0, QueueStoreOk
<1>2. /\ qcall[p] \in {"offer", "offer_all"} /\ qtodo' = [qtodo EXCEPT ![p] = Tail(@)]
      /\ QStore(Head(qtodo[p])) /\ qleft' = qleft
      /\ qcall' = [qcall EXCEPT ![p] = IF qkind # "sliding" THEN QAfter(p)
                                       ELSE IF QAfter(p) = "none" THEN "notify_one" ELSE "notify_all"]
      /\ qkind' = qkind /\ qopen' = qopen /\ qtake' = qtake
  BY <1>0 DEF QOfferStep, qcons
<1>3. /\ chmode' = chmode /\ chacc' = chacc /\ chsnap' = chsnap
      /\ UNCHANGED <<chmode, chpend, chsrc, chat, chhold, chgot, chreads>>
  BY DEF chown
<1>4. qtodo[p] # <<>> BY <1>0, <1>2 DEF QOnce
<1>5. PICK v : v = Head(qtodo[p]) OBVIOUS
<1>6. v \in QValues \ Range(qseen) /\ v \in Range(qtodo[p])
      /\ \A r \in QProducers : r # p => qtodo'[r] = qtodo[r]
  BY <1>0, <1>2, <1>4, <1>5, QHeadGoes
<1>7. DOMAIN qgone \subseteq DOMAIN qgone' /\ (\A a \in DOMAIN qgone : qgone'[a] = qgone[a])
      /\ qseen' = Append(qseen, v)
  BY <1>0, <1>2, <1>5, <1>6, StGoneGrows
<1>8. Range(qgone') \ qdrop' = Range(qgone) \ qdrop
  <2>1. PICK D \in SUBSET QValues :
          /\ qdrop' = qdrop \cup D /\ Range(qgone') = Range(qgone) \cup D /\ Range(qgone) \cap D = {}
    BY <1>0, <1>2, <1>5, <1>6, QStoreMoves
  <2>2. QED BY <2>1
<1>9. qcall[p] = "offer" /\ ~chsnap[p] /\ chmode # "stream" /\ qleft[p] = <<>>
  <2>1. ChWriter(p) BY <1>0
  <2>2. QED BY <1>2, <2>1 DEF ChWriter
<1>10. qcall'[p] \in {"none", "notify_one"} /\ \A r \in QProducers \ {p} : qcall'[r] = qcall[r]
  BY <1>0, <1>2, <1>9 DEF QAfter
<1>11. ChKind' BY <1>0, <1>2, <1>3 DEF ChKind
<1>12. ASSUME NEW r \in QProducers PROVE ChWriter(r)'
  <2>1. ChWriter(r) BY <1>0
  <2>2. CASE r = p BY <1>2, <1>3, <1>9, <1>10, <2>1, <2>2 DEF ChWriter
  <2>3. CASE r # p
    <3>1. qtodo'[r] = qtodo[r] /\ qcall'[r] = qcall[r] BY <1>6, <1>10, <2>3
    <3>2. QED BY <1>2, <1>3, <2>1, <3>1 DEF ChWriter
  <2>4. QED BY <2>2, <2>3
<1>13. ChFolds'
  <2> SUFFICES ASSUME chmode = "fold" PROVE ChFolds' BY <1>3 DEF ChFolds
  <2>1. ChOwed(p) /\ ~ChOwed(p)' BY <1>3, <1>9, <1>10 DEF ChOwed
  <2>2. ASSUME NEW r \in QProducers \ {p} PROVE ChOwed(r)' <=> ChOwed(r)
    BY <1>3, <1>10 DEF ChOwed
  <2>3. v \in Range(chacc) BY <1>0, <1>5, <2>1 DEF ChFolds
  <2>4. Range(qseen') = Range(qseen) \cup {v} BY <1>0, <1>6, <1>7, RangeAppend
  <2>5. Range(qseen') \subseteq Range(chacc') BY <1>0, <1>3, <2>3, <2>4 DEF ChFolds
  <2>6. ASSUME NEW r \in QProducers, ChOwed(r)' PROVE Head(qtodo'[r]) \in Range(chacc')
    <3>1. r # p BY <2>1, <2>6
    <3>2. ChOwed(r) /\ qtodo'[r] = qtodo[r] BY <1>6, <2>2, <2>6, <3>1
    <3>3. QED BY <1>0, <1>3, <3>2 DEF ChFolds
  <2>7. ASSUME NEW r \in QProducers, Range(chacc') \subseteq Range(QOffers[r])
        PROVE  chacc' = IF ChOwed(r)' THEN Append(qseen', Head(qtodo'[r])) ELSE qseen'
    <3>1. v \in Range(QOffers[p]) BY <1>0, <1>6 DEF QOnce
    <3>2. r = p BY <1>3, <2>3, <2>7, <3>1, QueueAssumption
    <3>3. chacc = Append(qseen, v) BY <1>0, <1>3, <1>5, <2>1, <2>7, <3>2 DEF ChFolds
    <3>4. QED BY <1>3, <1>7, <2>1, <3>2, <3>3
  <2>8. QED BY <2>5, <2>6, <2>7 DEF ChFolds
<1>14. \A c \in QConsumers : qtake'[c] = qtake[c] BY <1>2
<1>15. chacc' \in Seq(QValues) /\ chsnap' \in [QProducers -> BOOLEAN] BY <1>0, <1>3
<1>16. QED BY <1>1, <1>3, <1>7, <1>8, <1>11, <1>12, <1>13, <1>14, <1>15, ChQueueStep

\* An element is refused, and its writer is told.
LEMMA ChRefuseOk ==
  ASSUME ChannelIInv, NEW p \in QProducers, QOfferStep(p), UNCHANGED chown, ~(qopen /\ ~QFull)
  PROVE  ChannelIInv'
<1>0. /\ ChannelTypeOK /\ QueueIInv /\ ChKind /\ ChFolds /\ (\A r \in QProducers : ChWriter(r))
      /\ QueueTypeOK /\ QOnce /\ chacc \in Seq(QValues) /\ chsnap \in [QProducers -> BOOLEAN]
      /\ qcall \in [QProducers -> {"none", "offer", "offer_all", "notify_one", "notify_all"}]
      /\ qleft \in [QProducers -> Seq(QValues)]
  BY ChParts DEF ChannelTypeOK, QueueTypeOK
<1>1. QueueIInv' BY <1>0, QueueRefuseOk
<1>2. /\ qcall[p] \in {"offer", "offer_all"} /\ qtodo' = [qtodo EXCEPT ![p] = Tail(@)]
      /\ qleft' = [qleft EXCEPT ![p] = IF QTold(p) THEN Append(@, Head(qtodo[p])) ELSE @]
      /\ qcall' = [qcall EXCEPT ![p] = QAfter(p)]
      /\ qkind' = qkind /\ qopen' = qopen /\ qtake' = qtake
      /\ qbuf' = qbuf /\ qseen' = qseen /\ qgone' = qgone /\ qdrop' = qdrop
  BY <1>0 DEF QOfferStep, qcons, qstore
<1>3. /\ chmode' = chmode /\ chacc' = chacc /\ chsnap' = chsnap
      /\ UNCHANGED <<chmode, chpend, chsrc, chat, chhold, chgot, chreads>>
  BY DEF chown
<1>4. qtodo[p] # <<>> BY <1>0, <1>2 DEF QOnce
<1>5. PICK v : v = Head(qtodo[p]) OBVIOUS
<1>6. v \in QValues /\ v \in Range(qtodo[p]) /\ \A r \in QProducers : r # p => qtodo'[r] = qtodo[r]
  BY <1>0, <1>2, <1>4, <1>5, QHeadGoes
<1>7. qcall[p] = "offer" /\ ~chsnap[p] /\ qleft[p] = <<>>
  <2>1. ChWriter(p) BY <1>0
  <2>2. QED BY <1>2, <2>1 DEF ChWriter
<1>8. chmode = "queue"
  <2>1. chmode # "stream" BY <1>0, <1>7 DEF ChWriter
  <2>2. chmode # "fold" BY <1>0 DEF ChKind, QFull
  <2>3. QED BY <1>0, <2>1, <2>2, ChannelAssumption DEF ChannelTypeOK
<1>9. qcall'[p] = "none" /\ \A r \in QProducers \ {p} : qcall'[r] = qcall[r] BY <1>0, <1>2, <1>7 DEF QAfter
<1>10. qleft'[p] = <<v>> /\ \A r \in QProducers \ {p} : qleft'[r] = qleft[r]
  <2>1. QTold(p) BY <1>7 DEF QTold
  <2>2. Append(qleft[p], v) = <<v>> BY <1>7
  <2>3. qleft' = [qleft EXCEPT ![p] = <<v>>] BY <1>2, <1>5, <2>1, <2>2
  <2>4. QED BY <1>0, <2>3
<1>11. Len(<<v>>) = 1 /\ Range(<<v>>) = {v}
  <2>1. DOMAIN <<v>> = {1} /\ <<v>>[1] = v /\ Len(<<v>>) = 1 OBVIOUS
  <2>2. QED BY <2>1 DEF Range
<1>12. v \in Range(QOffers[p]) BY <1>0, <1>6 DEF QOnce
<1>13. ChKind' /\ ChFolds' BY <1>3, <1>8 DEF ChKind, ChFolds
<1>14. ASSUME NEW r \in QProducers PROVE ChWriter(r)'
  <2>1. ChWriter(r) BY <1>0
  <2>2. CASE r = p
    <3>1. Range(qleft'[p]) \subseteq Range(QOffers[p]) /\ Len(qleft'[p]) = 1 BY <1>10, <1>11, <1>12
    <3>2. QED BY <1>3, <1>7, <1>8, <1>9, <2>2, <3>1 DEF ChWriter
  <2>3. CASE r # p
    <3>1. qtodo'[r] = qtodo[r] /\ qcall'[r] = qcall[r] /\ qleft'[r] = qleft[r] BY <1>6, <1>9, <1>10, <2>3
    <3>2. QED BY <1>3, <2>1, <3>1 DEF ChWriter
  <2>4. QED BY <2>2, <2>3
<1>15. \A c \in QConsumers : qtake'[c] = qtake[c] BY <1>2
<1>16. chacc' \in Seq(QValues) /\ chsnap' \in [QProducers -> BOOLEAN] BY <1>0, <1>3
<1>17. QED BY <1>1, <1>2, <1>3, <1>13, <1>14, <1>15, <1>16, ChQueueStep

\* Readers are woken, and the queue is shut.
LEMMA ChSignalOk ==
  ASSUME ChannelIInv, UNCHANGED chown,
         \/ \E p \in QProducers : QOfferNotify(p)
         \/ chmode = "queue" /\ (QShutdown \/ QShutdownNotify)
  PROVE  ChannelIInv'
<1>0. /\ ChannelTypeOK /\ QueueIInv /\ ChKind /\ ChFolds /\ (\A r \in QProducers : ChWriter(r))
      /\ QueueTypeOK /\ chacc \in Seq(QValues) /\ chsnap \in [QProducers -> BOOLEAN]
      /\ qcall \in [QProducers -> {"none", "offer", "offer_all", "notify_one", "notify_all"}]
      /\ qtake \in [QConsumers -> [at : QTaking, lo : Nat, hi : Nat, out : Seq(QValues)]]
  BY ChParts DEF ChannelTypeOK, QueueTypeOK
<1>1. QueueIInv' BY <1>0, QueueNotifyOk, QueueCallOk
<1>2. /\ qkind' = qkind /\ qtodo' = qtodo /\ qleft' = qleft
      /\ qbuf' = qbuf /\ qseen' = qseen /\ qgone' = qgone /\ qdrop' = qdrop
      /\ qopen' = qopen \/ (qopen' = FALSE /\ chmode = "queue")
  BY DEF QOfferNotify, QShutdown, QShutdownNotify, qprod, qstore
<1>3. /\ chmode' = chmode /\ chacc' = chacc /\ chsnap' = chsnap
      /\ UNCHANGED <<chmode, chpend, chsrc, chat, chhold, chgot, chreads>>
  BY DEF chown
<1>4. ASSUME NEW r \in QProducers
      PROVE  \/ qcall'[r] = qcall[r]
             \/ qcall[r] = "notify_one" /\ qcall'[r] = "none"
  <2>1. CASE \E p \in QProducers : QOfferNotify(p)
    <3>1. PICK p \in QProducers :
            /\ qcall[p] \in {"notify_one", "notify_all"}
            /\ qcall' = [qcall EXCEPT ![p] = IF @ = "notify_one" THEN "none" ELSE "offer_all"]
      BY <2>1 DEF QOfferNotify
    <3>2. qcall[p] = "notify_one" BY <1>0, <3>1 DEF ChWriter
    <3>3. QED BY <1>0, <3>1, <3>2
  <2>2. CASE QShutdown \/ QShutdownNotify BY <2>2 DEF QShutdown, QShutdownNotify, qprod
  <2>3. QED BY <2>1, <2>2
<1>5. ASSUME NEW c \in QConsumers
      PROVE  \/ qtake'[c] = qtake[c]
             \/ /\ qtake[c].at = "asleep" /\ qtake'[c].at = "recv" /\ qtake'[c].out = qtake[c].out
                /\ qtake'[c].lo = qtake[c].lo /\ qtake'[c].hi = qtake[c].hi
  <2>1. CASE QNotifyWaiters BY <1>0, <2>1 DEF QNotifyWaiters
  <2>2. CASE QShutdown BY <2>2 DEF QShutdown, qcons
  <2>3. QED BY <2>1, <2>2 DEF QOfferNotify, QShutdownNotify
<1>6. ChKind' BY <1>0, <1>2, <1>3 DEF ChKind
<1>7. ASSUME NEW r \in QProducers PROVE ChWriter(r)'
  <2>1. ChWriter(r) BY <1>0
  <2>2. QED BY <1>2, <1>3, <1>4, <2>1 DEF ChWriter
<1>8. ChFolds'
  <2>1. ASSUME NEW r \in QProducers PROVE ChOwed(r)' <=> ChOwed(r) BY <1>3, <1>4 DEF ChOwed
  <2>2. QED BY <1>0, <1>2, <1>3, <2>1 DEF ChFolds
<1>9. chacc' \in Seq(QValues) /\ chsnap' \in [QProducers -> BOOLEAN] BY <1>0, <1>3
<1>10. QED BY <1>1, <1>2, <1>3, <1>5, <1>6, <1>7, <1>8, <1>9, ChQueueStep

\* The outputs of an element: they are different, and each names its element and its place.
LEMMA ChExpands ==
  ASSUME NEW v \in QValues
  PROVE  /\ Expand(v) \in Seq(ChOutputs) /\ IsInjective(Expand(v))
         /\ DOMAIN Expand(v) \in SUBSET (Nat \ {0})
         /\ \A i \in DOMAIN Expand(v) : Expand(v)[i] = <<v, i>>
         /\ \A x \in Range(Expand(v)) : x[1] = v /\ x[2] # 0
<1>1. ChFan[v] \in Nat BY ChannelAssumption
<1>2. PICK n \in Nat : n = ChFan[v] BY <1>1
<1>3. PICK e : e = Expand(v) OBVIOUS
<1>4. e = [i \in 1..n |-> <<v, i>>] BY <1>2, <1>3 DEF Expand
<1>5. DOMAIN e = 1..n /\ \A i \in 1..n : e[i] = <<v, i>> /\ <<v, i>> \in ChOutputs BY <1>4 DEF ChOutputs
<1>6. e \in Seq(ChOutputs) BY <1>4, <1>5
<1>7. IsInjective(e)
  <2>1. \A i, j \in 1..n : <<v, i>> = <<v, j>> => i = j OBVIOUS
  <2>2. \A i, j \in 1..n : e[i] = e[j] => i = j BY <1>5, <2>1
  <2>3. QED BY <1>5, <2>2 DEF IsInjective
<1>8. ASSUME NEW x \in Range(e) PROVE x[1] = v /\ x[2] # 0
  <2>1. PICK i \in 1..n : e[i] = x BY <1>5 DEF Range
  <2>2. x = <<v, i>> BY <1>5, <2>1, Zenon
  <2>3. i # 0 OBVIOUS
  <2>4. QED BY <2>2, <2>3
<1>9. DOMAIN e \in SUBSET (Nat \ {0}) BY <1>5
<1>10. QED BY <1>3, <1>5, <1>6, <1>7, <1>8, <1>9, Zenon

\* Elements that are not expanded.
LEMMA ChRaws ==
  ASSUME NEW s \in Seq(QValues), IsInjective(s)
  PROVE  /\ Raw(s) \in Seq(ChOutputs) /\ IsInjective(Raw(s))
         /\ Range(Raw(s)) = {<<v, 0>> : v \in Range(s)}
<1>1. DOMAIN s = 1..Len(s) /\ Len(s) \in Nat /\ \A i \in 1..Len(s) : s[i] \in QValues BY RangeOf
<1>2. PICK n \in Nat : n = Len(s) BY <1>1
<1>3. PICK e : e = Raw(s) OBVIOUS
<1>4. e = [i \in 1..n |-> <<s[i], 0>>] BY <1>1, <1>2, <1>3 DEF Raw
<1>5. DOMAIN e = 1..n /\ \A i \in 1..n : e[i] = <<s[i], 0>> /\ <<s[i], 0>> \in ChOutputs
  BY <1>1, <1>2, <1>4 DEF ChOutputs
<1>6. e \in Seq(ChOutputs) BY <1>4, <1>5
<1>7. \A i, j \in 1..n : s[i] = s[j] => i = j BY <1>1, <1>2 DEF IsInjective
<1>8. IsInjective(e)
  <2>1. \A x, y : <<x, 0>> = <<y, 0>> => x = y OBVIOUS
  <2>2. \A i, j \in 1..n : e[i] = e[j] => i = j BY <1>5, <1>7, <2>1
  <2>3. QED BY <1>5, <2>2 DEF IsInjective
<1>9. Range(e) = {<<v, 0>> : v \in Range(s)}
  <2>1. ASSUME NEW i \in 1..n PROVE e[i] \in {<<v, 0>> : v \in Range(s)}
    <3>1. s[i] \in Range(s) BY <1>1, <1>2 DEF Range
    <3>2. QED BY <1>5, <3>1
  <2>2. ASSUME NEW i \in 1..n PROVE <<s[i], 0>> \in Range(e) BY <1>5 DEF Range
  <2>3. Range(e) \subseteq {<<v, 0>> : v \in Range(s)} BY <1>5, <2>1 DEF Range
  <2>4. {<<v, 0>> : v \in Range(s)} \subseteq Range(e) BY <1>1, <1>2, <2>2 DEF Range
  <2>5. QED BY <2>3, <2>4
<1>10. QED BY <1>3, <1>6, <1>8, <1>9, Zenon

\* The elements in the hands of the takes, when c's has changed.
LEMMA ChHandMoves ==
  ASSUME QueueIInv, NEW c \in QConsumers, \A d \in QConsumers \ {c} : qtake'[d] = qtake[d]
  PROVE  QInHand' = (QInHand \ Range(qtake[c].out)) \cup Range(qtake'[c].out)
<1>1. \A d \in QConsumers \ {c} : /\ Range(qtake'[d].out) = Range(qtake[d].out)
                                  /\ Range(qtake[d].out) \cap Range(qtake[c].out) = {}
  BY DEF QueueIInv, QHands
<1> DEFINE of(d) == Range(qtake[d].out)
           next(d) == Range(qtake'[d].out)
<1>2. QInHand = UNION {of(d) : d \in QConsumers} BY DEF QInHand
<1>3. QInHand' = UNION {next(d) : d \in QConsumers} BY DEF QInHand
<1>4. \A d \in QConsumers \ {c} : next(d) = of(d) /\ of(d) \cap of(c) = {} BY <1>1
<1> HIDE DEF of, next
<1>5. UNION {next(d) : d \in QConsumers} = ((UNION {of(d) : d \in QConsumers}) \ of(c)) \cup next(c)
  <2>1. ASSUME NEW x PROVE x \in UNION {next(d) : d \in QConsumers}
                        <=> x \in ((UNION {of(d) : d \in QConsumers}) \ of(c)) \cup next(c)
    <3>1. x \in UNION {next(d) : d \in QConsumers} <=> \E d \in QConsumers : x \in next(d) OBVIOUS
    <3>2. x \in UNION {of(d) : d \in QConsumers} <=> \E d \in QConsumers : x \in of(d) OBVIOUS
    <3>3. (\E d \in QConsumers : x \in next(d)) <=> x \in next(c) \/ \E d \in QConsumers \ {c} : x \in next(d)
      OBVIOUS
    <3>4. (\E d \in QConsumers : x \in of(d)) <=> x \in of(c) \/ \E d \in QConsumers \ {c} : x \in of(d)
      OBVIOUS
    <3>5. (\E d \in QConsumers \ {c} : x \in next(d)) <=> \E d \in QConsumers \ {c} : x \in of(d)
      BY <1>4
    <3>6. (\E d \in QConsumers \ {c} : x \in of(d)) => x \notin of(c) BY <1>4
    <3>7. QED BY <3>1, <3>2, <3>3, <3>4, <3>5, <3>6, Zenon
  <2>2. QED BY <2>1
<1>6. QInHand' = (QInHand \ of(c)) \cup next(c) BY <1>2, <1>3, <1>5, Zenon
<1>7. QED BY <1>6 DEF of, next

\* A step of reader c: the writers are left alone, and nobody else is alone.
LEMMA ChReaderStep ==
  ASSUME ChannelIInv, NEW c \in QConsumers, QueueIInv',
         qtodo' = qtodo, qleft' = qleft, qcall' = qcall, qseen' = qseen, qkind' = qkind, qopen' = qopen,
         chmode' = chmode, chacc' = chacc, chsnap' = chsnap,
         qbuf = <<>> => qbuf' = <<>>,
         chpend' \in Seq(ChOutputs),
         chat' \in [QConsumers -> {"idle", "pending", "take", "expand", "push", "end"}],
         chhold' \in [QConsumers -> Seq(ChOutputs)], chgot' \in [QConsumers -> Seq(ChOutputs)],
         chreads' \in [QConsumers -> Nat], chreads'[c] # 0,
         \A d \in QConsumers \ {c} : /\ qtake'[d] = qtake[d] /\ chat'[d] = chat[d] /\ chhold'[d] = chhold[d]
                                     /\ chgot'[d] = chgot[d] /\ chreads'[d] = chreads[d],
         ChSource', ChApart', ChReader(c)', ChLinedUp(c)', ChStreamed(c)'
  PROVE  ChannelIInv'
<1>0. /\ ChannelTypeOK /\ ChKind /\ ChFolds /\ (\A r \in QProducers : ChWriter(r))
      /\ (\A d \in QConsumers : ChReader(d)) /\ chmode \in ChModes
      /\ chacc \in Seq(QValues) /\ chsnap \in [QProducers -> BOOLEAN]
  BY ChParts DEF ChannelTypeOK
<1>1. ChKind' /\ ChFolds' /\ \A p \in QProducers : ChWriter(p)' BY <1>0, ChWritersStay
<1>2. QueueTypeOK' BY DEF QueueIInv
<1>3. ChannelTypeOK' BY <1>0, <1>2 DEF ChannelTypeOK
<1>4. ASSUME NEW d \in QConsumers, d # c PROVE ChReader(d)' /\ ChLinedUp(d)' /\ ChStreamed(d)'
  <2>1. ChReader(d) BY <1>0
  <2>2. /\ qtake'[d] = qtake[d] /\ chat'[d] = chat[d] /\ chhold'[d] = chhold[d]
        /\ chgot'[d] = chgot[d] /\ chreads'[d] = chreads[d]
    BY <1>4
  <2>3. ChReader(d)' BY <2>1, <2>2 DEF ChReader
  <2>4. ~ChAlone(d)' BY <1>4 DEF ChAlone
  <2>5. QED BY <2>3, <2>4 DEF ChLinedUp, ChStreamed
<1>5. \A d \in QConsumers : ChReader(d)' /\ ChLinedUp(d)' /\ ChStreamed(d)' BY <1>4
<1>6. QED BY <1>1, <1>3, <1>5 DEF ChannelIInv

\* A reader that does something has begun to read.
LEMMA ChBegun ==
  ASSUME ChannelIInv, NEW c \in QConsumers, chat[c] # "idle"
  PROVE  chreads[c] # 0
BY ChParts DEF ChReader

\* The queue stays as it is.
LEMMA ChQueueSame ==
  ASSUME ChannelIInv, UNCHANGED qvars
  PROVE  /\ QueueIInv' /\ ChWired' = ChWired
         /\ qtodo' = qtodo /\ qleft' = qleft /\ qcall' = qcall /\ qseen' = qseen
         /\ qkind' = qkind /\ qopen' = qopen /\ qbuf' = qbuf /\ qtake' = qtake /\ qgone' = qgone
<1>0. QueueIInv BY ChParts
<1>1. /\ qkind' = qkind /\ qbuf' = qbuf /\ qopen' = qopen /\ qclose' = qclose /\ qcall' = qcall
      /\ qtodo' = qtodo /\ qleft' = qleft /\ qtake' = qtake /\ qmade' = qmade
      /\ qseen' = qseen /\ qgone' = qgone /\ qdrop' = qdrop /\ qlate' = qlate
  BY DEF qvars
<1>2. QueueIInv'
  BY <1>0, <1>1 DEF QueueIInv, QueueTypeOK, QueueFifo, QOnce, QBack, QSwallow, QHands, QWaits, QLosses
<1>3. ChWired' = ChWired BY <1>1 DEF ChWired, QInHand
<1>4. QED BY <1>1, <1>2, <1>3

\* A read begins.
LEMMA ChReadOk == ASSUME ChannelIInv, NEW c \in QConsumers, ChRead(c) PROVE ChannelIInv'
<1>0. /\ ChannelTypeOK /\ ChSource /\ ChApart /\ ChReader(c) /\ ChLinedUp(c) /\ ChStreamed(c)
      /\ chpend \in Seq(ChOutputs) /\ chhold \in [QConsumers -> Seq(ChOutputs)]
      /\ chgot \in [QConsumers -> Seq(ChOutputs)] /\ chreads \in [QConsumers -> Nat]
      /\ chat \in [QConsumers -> {"idle", "pending", "take", "expand", "push", "end"}]
  BY ChParts DEF ChannelTypeOK
<1>1. /\ chat[c] = "idle" /\ chat' = [chat EXCEPT ![c] = "pending"]
      /\ chreads' = [chreads EXCEPT ![c] = @ + 1] /\ UNCHANGED qvars
      /\ chmode' = chmode /\ chacc' = chacc /\ chsnap' = chsnap
      /\ chpend' = chpend /\ chsrc' = chsrc /\ chhold' = chhold /\ chgot' = chgot
  BY DEF ChRead, ChRest
<1>2. /\ QueueIInv' /\ ChWired' = ChWired
      /\ qtodo' = qtodo /\ qleft' = qleft /\ qcall' = qcall /\ qseen' = qseen
      /\ qkind' = qkind /\ qopen' = qopen /\ qbuf' = qbuf /\ qtake' = qtake /\ qgone' = qgone
  BY <1>1, ChQueueSame
<1>3. /\ chat' \in [QConsumers -> {"idle", "pending", "take", "expand", "push", "end"}]
      /\ chat'[c] = "pending" /\ chreads' \in [QConsumers -> Nat] /\ chreads'[c] # 0
      /\ chreads[c] <= chreads'[c]
      /\ \A d \in QConsumers \ {c} : chat'[d] = chat[d] /\ chreads'[d] = chreads[d]
  BY <1>0, <1>1
<1>4. ChSource' BY <1>0, <1>1 DEF ChSource, ChChunk
<1>5. ChApart' BY <1>0, <1>1, <1>2, ChHandedStays, ChOutputsStay
<1>6. ChReader(c)' BY <1>0, <1>1, <1>2, <1>3 DEF ChReader
<1>7. ChLinedUp(c)' /\ ChStreamed(c)'
  <2>1. ASSUME NEW d \in QConsumers
        PROVE  chreads[d] \in Nat /\ chreads'[d] \in Nat /\ chreads[d] <= chreads'[d]
    <3>1. chreads[d] \in Nat /\ chreads'[d] \in Nat BY <1>0, <1>3
    <3>2. CASE d = c BY <1>3, <3>1, <3>2
    <3>3. CASE d # c
      <4>1. chreads'[d] = chreads[d] BY <1>3, <3>3
      <4>2. QED BY <3>1, <4>1
    <3>4. QED BY <3>2, <3>3
  <2>2. ChLine(c)' = ChLine(c) BY <1>1 DEF ChLine
  <2>3. ChLinedUp(c)' BY <1>0, <1>1, <1>2, <1>3, <2>1, <2>2, ChOrderStays
  <2>4. ChStreamed(c)' BY <1>0, <1>1, <1>3, <2>1, <2>2, ChStreamStays
  <2>5. QED BY <2>3, <2>4
<1>8. \A d \in QConsumers \ {c} : /\ qtake'[d] = qtake[d] /\ chat'[d] = chat[d] /\ chhold'[d] = chhold[d]
                                  /\ chgot'[d] = chgot[d] /\ chreads'[d] = chreads[d]
  BY <1>1, <1>2, <1>3
<1>9. QED BY <1>0, <1>1, <1>2, <1>3, <1>4, <1>5, <1>6, <1>7, <1>8, ChReaderStep

\* A read looks at the list and finds nothing.
LEMMA ChDryOk ==
  ASSUME ChannelIInv, NEW c \in QConsumers, ChDrain(c), chpend = <<>> PROVE ChannelIInv'
<1>0. /\ ChannelTypeOK /\ ChSource /\ ChApart /\ ChReader(c) /\ ChLinedUp(c) /\ ChStreamed(c)
      /\ chpend \in Seq(ChOutputs) /\ chhold \in [QConsumers -> Seq(ChOutputs)]
      /\ chgot \in [QConsumers -> Seq(ChOutputs)] /\ chreads \in [QConsumers -> Nat]
      /\ chat \in [QConsumers -> {"idle", "pending", "take", "expand", "push", "end"}]
  BY ChParts DEF ChannelTypeOK
<1>1. /\ chat[c] = "pending" /\ chat' = [chat EXCEPT ![c] = "take"]
      /\ chreads' = chreads /\ UNCHANGED qvars
      /\ chmode' = chmode /\ chacc' = chacc /\ chsnap' = chsnap
      /\ chpend' = chpend /\ chsrc' = chsrc /\ chhold' = chhold /\ chgot' = chgot
  BY DEF ChDrain, ChRest
<1>2. /\ QueueIInv' /\ ChWired' = ChWired
      /\ qtodo' = qtodo /\ qleft' = qleft /\ qcall' = qcall /\ qseen' = qseen
      /\ qkind' = qkind /\ qopen' = qopen /\ qbuf' = qbuf /\ qtake' = qtake /\ qgone' = qgone
  BY <1>1, ChQueueSame
<1>3. /\ chat' \in [QConsumers -> {"idle", "pending", "take", "expand", "push", "end"}]
      /\ chat'[c] = "take" /\ chreads'[c] # 0
      /\ \A d \in QConsumers \ {c} : chat'[d] = chat[d]
  BY <1>0, <1>1, ChBegun
<1>4. ChSource' BY <1>0, <1>1 DEF ChSource, ChChunk
<1>5. ChApart' BY <1>0, <1>1, <1>2, ChHandedStays, ChOutputsStay
<1>6. ChReader(c)' BY <1>0, <1>1, <1>2, <1>3 DEF ChReader
<1>7. ChLinedUp(c)' /\ ChStreamed(c)'
  <2>1. \A d \in QConsumers : chreads[d] \in Nat /\ chreads'[d] \in Nat /\ chreads[d] <= chreads'[d]
    BY <1>0, <1>1
  <2>2. ChLine(c)' = ChLine(c) BY <1>1 DEF ChLine
  <2>3. ChLinedUp(c)' BY <1>0, <1>1, <1>2, <2>1, <2>2, ChOrderStays
  <2>4. ChStreamed(c)' BY <1>0, <1>1, <1>3, <2>1, <2>2, ChStreamStays
  <2>5. QED BY <2>3, <2>4
<1>8. \A d \in QConsumers \ {c} : /\ qtake'[d] = qtake[d] /\ chat'[d] = chat[d] /\ chhold'[d] = chhold[d]
                                  /\ chgot'[d] = chgot[d] /\ chreads'[d] = chreads[d]
  BY <1>1, <1>2, <1>3
<1>9. QED BY <1>0, <1>1, <1>2, <1>3, <1>4, <1>5, <1>6, <1>7, <1>8, ChReaderStep

\* A read returns the first output of the list.
LEMMA ChDrainOk ==
  ASSUME ChannelIInv, NEW c \in QConsumers, ChDrain(c), chpend # <<>> PROVE ChannelIInv'
<1>0. /\ ChannelTypeOK /\ ChSource /\ ChApart /\ ChReader(c) /\ ChLinedUp(c) /\ ChStreamed(c)
      /\ chpend \in Seq(ChOutputs) /\ chhold \in [QConsumers -> Seq(ChOutputs)]
      /\ chgot \in [QConsumers -> Seq(ChOutputs)] /\ chreads \in [QConsumers -> Nat]
      /\ chat \in [QConsumers -> {"idle", "pending", "take", "expand", "push", "end"}]
  BY ChParts DEF ChannelTypeOK
<1>1. /\ chat[c] = "pending" /\ chat' = [chat EXCEPT ![c] = "idle"]
      /\ chpend' = Tail(chpend) /\ chgot' = [chgot EXCEPT ![c] = Append(@, Head(chpend))]
      /\ chreads' = chreads /\ UNCHANGED qvars
      /\ chmode' = chmode /\ chacc' = chacc /\ chsnap' = chsnap
      /\ chsrc' = chsrc /\ chhold' = chhold
  BY DEF ChDrain, ChRest
<1>2. /\ QueueIInv' /\ ChWired' = ChWired
      /\ qtodo' = qtodo /\ qleft' = qleft /\ qcall' = qcall /\ qseen' = qseen
      /\ qkind' = qkind /\ qopen' = qopen /\ qbuf' = qbuf /\ qtake' = qtake /\ qgone' = qgone
  BY <1>1, ChQueueSame
<1>3. /\ chat' \in [QConsumers -> {"idle", "pending", "take", "expand", "push", "end"}]
      /\ chat'[c] = "idle" /\ chreads'[c] # 0
      /\ \A d \in QConsumers \ {c} : chat'[d] = chat[d]
  BY <1>0, <1>1, ChBegun
<1>4. PICK g \in Seq(ChOutputs) : g = chgot[c] BY <1>0
<1>5. chhold[c] = <<>> BY <1>0, <1>1 DEF ChReader
<1>6. /\ IsInjective(chpend) /\ IsInjective(g) /\ Range(g) \cap Range(chpend) = {}
  BY <1>0, <1>4 DEF ChApart
<1>7. PICK x : x = Head(chpend) OBVIOUS
<1>8. /\ chpend' \in Seq(ChOutputs) /\ x \in ChOutputs /\ x \in Range(chpend)
      /\ IsInjective(chpend') /\ Range(chpend') = Range(chpend) \ {x}
  BY <1>0, <1>1, <1>6, <1>7, TailOnce
<1>9. PICK h \in Seq(ChOutputs) : h = Append(g, x) BY <1>8, RangeAppend
<1>10. IsInjective(h) /\ Range(h) = Range(g) \cup {x}
  <2>1. x \in ChOutputs \ Range(g) BY <1>6, <1>8
  <2>2. QED BY <1>6, <1>9, <2>1, AppendOnce
<1>11. /\ chgot' \in [QConsumers -> Seq(ChOutputs)] /\ chgot'[c] = h
       /\ \A d \in QConsumers \ {c} : chgot'[d] = chgot[d]
  BY <1>0, <1>1, <1>4, <1>7, <1>9
<1>12. Range(chhold'[c]) = {} /\ Range(chhold[c]) = {} /\ IsInjective(chhold'[c])
  BY <1>1, <1>5, EmptyLine, Zenon
<1>13. ChApart'
  <2>1. ChHanded' = ChHanded \cup {} BY <1>1, <1>2, ChHandedStays
  <2>2. {} \cap ChHanded = {} OBVIOUS
  <2>3. Range(h) \cap Range(chpend') = {} BY <1>6, <1>8, <1>10
  <2>4. \A y : y \in Range(chpend') \cup Range(chhold'[c]) \cup Range(chgot'[c])
           <=> y \in Range(chpend) \cup Range(chhold[c]) \cup Range(chgot[c]) \cup {}
    BY <1>4, <1>8, <1>10, <1>11, <1>12
  <2>5. /\ Range(chgot'[c]) \cap Range(chpend') = {} /\ IsInjective(chgot'[c])
        /\ Range(chhold'[c]) \cap Range(chpend') = {} /\ Range(chhold'[c]) \cap Range(chgot'[c]) = {}
    BY <1>10, <1>11, <1>12, <2>3
  <2>6. \A d \in QConsumers \ {c} : chhold'[d] = chhold[d] /\ chgot'[d] = chgot[d] BY <1>1, <1>11
  <2>7. QED BY <1>0, <1>8, <1>12, <2>1, <2>2, <2>4, <2>5, <2>6, ChShuffle
<1>14. ChSource' BY <1>0, <1>1 DEF ChSource, ChChunk
<1>15. ChReader(c)' BY <1>0, <1>1, <1>2, <1>3, <1>5 DEF ChReader
<1>16. ChLinedUp(c)' /\ ChStreamed(c)'
  <2>1. \A d \in QConsumers : chreads[d] \in Nat /\ chreads'[d] \in Nat /\ chreads[d] <= chreads'[d]
    BY <1>0, <1>1
  <2>2. ChLine(c)' = ChLine(c)
    <3>1. Append(g, Head(chpend)) \o Tail(chpend) = g \o chpend BY <1>0, PartsMove
    <3>2. g \o <<>> = g /\ h \o <<>> = h BY ConcatEmptySeq
    <3>3. QED BY <1>1, <1>4, <1>5, <1>7, <1>9, <1>11, <3>1, <3>2, Zenon DEF ChLine
  <2>3. chat'[c] \notin {"take", "expand", "end"} BY <1>3
  <2>4. ChLinedUp(c)' BY <1>0, <1>1, <1>2, <2>1, <2>2, <2>3, ChOrderStays
  <2>5. ChStreamed(c)' BY <1>0, <1>1, <1>3, <2>1, <2>2, ChStreamStays
  <2>6. QED BY <2>4, <2>5
<1>17. \A d \in QConsumers \ {c} : /\ qtake'[d] = qtake[d] /\ chat'[d] = chat[d] /\ chhold'[d] = chhold[d]
                                   /\ chgot'[d] = chgot[d] /\ chreads'[d] = chreads[d]
  BY <1>1, <1>2, <1>3, <1>11
<1>18. QED BY <1>0, <1>1, <1>2, <1>3, <1>8, <1>11, <1>13, <1>14, <1>15, <1>16, <1>17, ChReaderStep

\* A read that has all its outputs from the take on: it starts the take, looks, sleeps.
LEMMA ChMoveOk ==
  ASSUME ChannelIInv, NEW c \in QConsumers, UNCHANGED chown,
         \/ chat[c] = "take" /\ chmode # "stream" /\ QTake(c, <<1, 1>>)
         \/ QNotified(c)
         \/ /\ qtake[c].at = "recv" /\ QLook(c)
            /\ UNCHANGED <<qkind, qopen, qclose, qprod, qmade, qlate>>
  PROVE  ChannelIInv'
<1>0. /\ ChannelTypeOK /\ QueueIInv /\ QueueTypeOK /\ ChSource /\ ChApart /\ ChReader(c) /\ ChLinedUp(c)
      /\ chpend \in Seq(ChOutputs) /\ chhold \in [QConsumers -> Seq(ChOutputs)]
      /\ chgot \in [QConsumers -> Seq(ChOutputs)] /\ chreads \in [QConsumers -> Nat]
      /\ chat \in [QConsumers -> {"idle", "pending", "take", "expand", "push", "end"}]
      /\ qtake \in [QConsumers -> [at : QTaking, lo : Nat, hi : Nat, out : Seq(QValues)]]
  BY ChParts DEF ChannelTypeOK, QueueTypeOK
<1>1. QMoves(c)
  <2>1. <<1, 1>> \in QDemand BY DEF QDemand
  <2>2. QED BY <2>1 DEF QMoves
<1>2. QueueIInv' BY <1>0, <1>1, QueueMoveOk
<1>3. /\ qtodo' = qtodo /\ qleft' = qleft /\ qcall' = qcall /\ qseen' = qseen /\ qkind' = qkind
      /\ qopen' = qopen /\ qbuf' = qbuf /\ qgone' = qgone /\ qdrop' = qdrop
  BY DEF QTake, QNotified, QLook, qprod, qstore
<1>4. /\ chmode' = chmode /\ chacc' = chacc /\ chsnap' = chsnap /\ chat' = chat /\ chreads' = chreads
      /\ chpend' = chpend /\ chsrc' = chsrc /\ chhold' = chhold /\ chgot' = chgot
  BY DEF chown
<1>5. PICK t : /\ qtake' = [qtake EXCEPT ![c] = t] /\ t.at \in {"recv", "gap", "asleep"}
               /\ t.lo = 1 /\ t.hi = 1 /\ t.out = <<>> /\ qtake[c].out = <<>>
               /\ chat[c] = "take" /\ chmode # "stream"
  <2>1. CASE chat[c] = "take" /\ chmode # "stream" /\ QTake(c, <<1, 1>>)
    <3>1. qtake' = [qtake EXCEPT ![c] = [at |-> "recv", lo |-> 1, hi |-> 1, out |-> <<>>]]
          /\ qtake[c].at = "idle"
      BY <2>1 DEF QTake
    <3>2. qtake[c].out = <<>> BY <1>0, <3>1 DEF ChReader
    <3>3. PICK t : t = [at |-> "recv", lo |-> 1, hi |-> 1, out |-> <<>>] OBVIOUS
    <3>4. t.at = "recv" /\ t.lo = 1 /\ t.hi = 1 /\ t.out = <<>> BY <3>3
    <3>5. QED BY <2>1, <3>1, <3>2, <3>3, <3>4
  <2>2. CASE qtake[c].at = "gap" /\ QNotified(c)
    <3>1. qtake' = [qtake EXCEPT ![c] = [qtake[c] EXCEPT !.at = "asleep"]]
      BY <1>0, <2>2 DEF QNotified
    <3>2. /\ qtake[c].out = <<>> /\ chat[c] = "take" /\ chmode # "stream"
          /\ qtake[c].lo = 1 /\ qtake[c].hi = 1
      BY <1>0, <2>2 DEF ChReader
    <3>3. PICK t : t = [qtake[c] EXCEPT !.at = "asleep"] OBVIOUS
    <3>4. t.at = "asleep" /\ t.lo = qtake[c].lo /\ t.hi = qtake[c].hi /\ t.out = qtake[c].out
      BY <1>0, <3>3
    <3>5. QED BY <3>1, <3>2, <3>3, <3>4
  <2>3. CASE qtake[c].at = "recv" /\ QLook(c)
    <3>1. qtake' = [qtake EXCEPT ![c] = [qtake[c] EXCEPT !.at = "gap"]]
      BY <1>0, <2>3 DEF QLook
    <3>2. /\ qtake[c].out = <<>> /\ chat[c] = "take" /\ chmode # "stream"
          /\ qtake[c].lo = 1 /\ qtake[c].hi = 1
      BY <1>0, <2>3 DEF ChReader
    <3>3. PICK t : t = [qtake[c] EXCEPT !.at = "gap"] OBVIOUS
    <3>4. t.at = "gap" /\ t.lo = qtake[c].lo /\ t.hi = qtake[c].hi /\ t.out = qtake[c].out
      BY <1>0, <3>3
    <3>5. QED BY <3>1, <3>2, <3>3, <3>4
  <2>4. QED BY <2>1, <2>2, <2>3 DEF QNotified
<1>6. qtake'[c] = t /\ \A d \in QConsumers \ {c} : qtake'[d] = qtake[d] BY <1>0, <1>5
<1>7. Range(qtake'[c].out) = {} /\ Range(qtake[c].out) = {} /\ qtake'[c].out = qtake[c].out
  BY <1>5, <1>6, EmptyLine, Zenon
<1>8. ChWired' = ChWired
  <2>1. QInHand' = (QInHand \ Range(qtake[c].out)) \cup Range(qtake'[c].out) BY <1>0, <1>6, ChHandMoves
  <2>2. QInHand' = QInHand BY <1>7, <2>1
  <2>3. QED BY <1>3, <2>2 DEF ChWired
<1>9. ChSource' BY <1>0, <1>4 DEF ChSource, ChChunk
<1>10. ChApart' BY <1>0, <1>4, <1>8, ChHandedStays, ChOutputsStay
<1>11. ChReader(c)' BY <1>0, <1>3, <1>4, <1>5, <1>6 DEF ChReader
<1>12. ChLinedUp(c)'
  <2>1. \A d \in QConsumers : chreads[d] \in Nat /\ chreads'[d] \in Nat /\ chreads[d] <= chreads'[d]
    BY <1>0, <1>4
  <2>2. ChLine(c)' = ChLine(c) BY <1>4 DEF ChLine
  <2>3. QED BY <1>0, <1>3, <1>4, <1>7, <2>1, <2>2, ChOrderStays
<1>13. chreads'[c] # 0 /\ ChStreamed(c)' BY <1>4, <1>5, ChBegun DEF ChStreamed
<1>14. \A d \in QConsumers \ {c} : /\ qtake'[d] = qtake[d] /\ chat'[d] = chat[d] /\ chhold'[d] = chhold[d]
                                   /\ chgot'[d] = chgot[d] /\ chreads'[d] = chreads[d]
  BY <1>4, <1>6
<1>15. QED BY <1>0, <1>2, <1>3, <1>4, <1>9, <1>10, <1>11, <1>12, <1>13, <1>14, ChReaderStep

\* The take of a reader meets the end of the queue.
LEMMA ChFailOk ==
  ASSUME ChannelIInv, NEW c \in QConsumers, UNCHANGED chown, QRecv(c), QFail(c)
  PROVE  ChannelIInv'
<1>0. /\ ChannelTypeOK /\ QueueIInv /\ QueueTypeOK /\ ChSource /\ ChApart /\ ChReader(c) /\ ChLinedUp(c)
      /\ chpend \in Seq(ChOutputs) /\ chhold \in [QConsumers -> Seq(ChOutputs)]
      /\ chgot \in [QConsumers -> Seq(ChOutputs)] /\ chreads \in [QConsumers -> Nat]
      /\ chat \in [QConsumers -> {"idle", "pending", "take", "expand", "push", "end"}]
      /\ qtake \in [QConsumers -> [at : QTaking, lo : Nat, hi : Nat, out : Seq(QValues)]]
  BY ChParts DEF ChannelTypeOK, QueueTypeOK
<1>1. QEnds(c) BY DEF QEnds, QRecv
<1>2. QueueIInv' BY <1>0, <1>1, QueueFailOk
<1>3. /\ qtodo' = qtodo /\ qleft' = qleft /\ qcall' = qcall /\ qseen' = qseen /\ qkind' = qkind
      /\ qopen' = qopen /\ qbuf' = qbuf /\ qgone' = qgone /\ qdrop' = qdrop \cup Range(qtake[c].out)
      /\ qbuf = <<>> /\ ~qopen /\ qtake[c].at = "recv"
      /\ qtake' = [qtake EXCEPT ![c].at = "failed", ![c].out = <<>>]
  BY DEF QRecv, QFail, qprod
<1>4. /\ chmode' = chmode /\ chacc' = chacc /\ chsnap' = chsnap /\ chat' = chat /\ chreads' = chreads
      /\ chpend' = chpend /\ chsrc' = chsrc /\ chhold' = chhold /\ chgot' = chgot
  BY DEF chown
<1>5. qtake[c].out = <<>> /\ chat[c] = "take" /\ chmode # "stream" BY <1>0, <1>3 DEF ChReader
<1>6. /\ qtake'[c].at = "failed" /\ qtake'[c].out = <<>>
      /\ \A d \in QConsumers \ {c} : qtake'[d] = qtake[d]
  BY <1>0, <1>3
<1>7. Range(qtake'[c].out) = {} /\ Range(qtake[c].out) = {} BY <1>5, <1>6, EmptyLine, Zenon
<1>8. ChWired' = ChWired
  <2>1. QInHand' = (QInHand \ Range(qtake[c].out)) \cup Range(qtake'[c].out) BY <1>0, <1>6, ChHandMoves
  <2>2. QInHand' = QInHand /\ qdrop' = qdrop BY <1>3, <1>7, <2>1
  <2>3. QED BY <1>3, <2>2 DEF ChWired
<1>9. ChSource' BY <1>0, <1>4 DEF ChSource, ChChunk
<1>10. ChApart' BY <1>0, <1>4, <1>8, ChHandedStays, ChOutputsStay
<1>11. ChReader(c)' BY <1>0, <1>3, <1>4, <1>5, <1>6 DEF ChReader
<1>12. ChLinedUp(c)'
  <2>1. \A d \in QConsumers : chreads[d] \in Nat /\ chreads'[d] \in Nat /\ chreads[d] <= chreads'[d]
    BY <1>0, <1>4
  <2>2. ChLine(c)' = ChLine(c) BY <1>4 DEF ChLine
  <2>3. QED BY <1>0, <1>3, <1>4, <1>6, <2>1, <2>2, ChOrderStays
<1>13. chreads'[c] # 0 /\ ChStreamed(c)' BY <1>4, <1>5, ChBegun DEF ChStreamed
<1>14. \A d \in QConsumers \ {c} : /\ qtake'[d] = qtake[d] /\ chat'[d] = chat[d] /\ chhold'[d] = chhold[d]
                                   /\ chgot'[d] = chgot[d] /\ chreads'[d] = chreads[d]
  BY <1>4, <1>6
<1>15. QED BY <1>0, <1>2, <1>3, <1>4, <1>9, <1>10, <1>11, <1>12, <1>13, <1>14, ChReaderStep

\* The outputs of a queue's channel are those of elements that left the queue.
LEMMA ChFromQueue ==
  ASSUME ChannelIInv, NEW c \in QConsumers, chmode # "stream"
  PROVE  \A x \in Range(ChLine(c)) : x \in ChHanded /\ x[1] \in ChWired
<1>0. /\ ChApart /\ QueueIInv /\ QueueTypeOK /\ QOnce
      /\ chpend \in Seq(ChOutputs) /\ chhold \in [QConsumers -> Seq(ChOutputs)]
      /\ chgot \in [QConsumers -> Seq(ChOutputs)]
  BY ChParts
<1>1. PICK g \in Seq(ChOutputs) : g = chgot[c] BY <1>0
<1>2. PICK h \in Seq(ChOutputs) : h = chhold[c] BY <1>0
<1>3. PICK gh \in Seq(ChOutputs) : gh = g \o h
  <2>1. g \o h \in Seq(ChOutputs) BY TwoParts
  <2>2. QED BY <2>1, Zenon
<1>4. Range(gh) = Range(g) \cup Range(h) BY <1>3, PartsApart
<1>5. Range(gh \o chpend) = Range(gh) \cup Range(chpend) BY <1>0, PartsApart
<1>6. ChLine(c) = gh \o chpend BY <1>1, <1>2, <1>3 DEF ChLine
<1>7. SUFFICES ASSUME NEW x \in Range(ChLine(c)) PROVE x \in ChHanded /\ x[1] \in ChWired OBVIOUS
<1>8. x \in Range(chpend) \/ x \in Range(chhold[c]) \cup Range(chgot[c])
  BY <1>1, <1>2, <1>4, <1>5, <1>6, <1>7
<1>9. x \in ChHanded BY <1>0, <1>8 DEF ChApart
<1>10. PICK v \in ChWired : x \in Range(Expand(v)) BY <1>9 DEF ChHanded
<1>11. v \in QValues
  <2>1. qgone \in Seq(QValues) BY <1>0 DEF QOnce
  <2>2. Range(qgone) \subseteq QValues BY <2>1, RangeOf
  <2>3. QED BY <2>2 DEF ChWired
<1>12. x[1] = v BY <1>10, <1>11, ChExpands
<1>13. QED BY <1>9, <1>10, <1>12

\* A reader takes the oldest element out of the queue: it is newer than all its outputs.
LEMMA ChPopOk ==
  ASSUME ChannelIInv, NEW c \in QConsumers, UNCHANGED chown, QRecv(c), QPop(c)
  PROVE  ChannelIInv'
<1>0. /\ ChannelTypeOK /\ QueueIInv /\ QueueTypeOK /\ QueueFifo /\ QOnce
      /\ ChSource /\ ChApart /\ ChReader(c) /\ ChLinedUp(c)
      /\ chpend \in Seq(ChOutputs) /\ chhold \in [QConsumers -> Seq(ChOutputs)]
      /\ chgot \in [QConsumers -> Seq(ChOutputs)] /\ chreads \in [QConsumers -> Nat]
      /\ chat \in [QConsumers -> {"idle", "pending", "take", "expand", "push", "end"}]
      /\ qtake \in [QConsumers -> [at : QTaking, lo : Nat, hi : Nat, out : Seq(QValues)]]
      /\ qbuf \in Seq(QValues) /\ qgone \in Seq(QValues)
  BY ChParts DEF ChannelTypeOK, QueueTypeOK, QOnce
<1>1. QEnds(c) BY DEF QEnds, QRecv
<1>2. QueueIInv' BY <1>0, <1>1, QueuePopOk
<1>3. /\ qtodo' = qtodo /\ qleft' = qleft /\ qcall' = qcall /\ qseen' = qseen /\ qkind' = qkind
      /\ qopen' = qopen /\ qgone' = Append(qgone, Head(qbuf)) /\ qdrop' = qdrop
      /\ qbuf # <<>> /\ qtake[c].at = "recv"
  BY DEF QRecv, QPop, qprod
<1>4. /\ chmode' = chmode /\ chacc' = chacc /\ chsnap' = chsnap /\ chat' = chat /\ chreads' = chreads
      /\ chpend' = chpend /\ chsrc' = chsrc /\ chhold' = chhold /\ chgot' = chgot
  BY DEF chown
<1>5. /\ qtake[c].out = <<>> /\ chat[c] = "take" /\ chmode # "stream"
      /\ qtake[c].lo = 1 /\ qtake[c].hi = 1
  BY <1>0, <1>3 DEF ChReader
<1>6. PICK v : v = Head(qbuf) OBVIOUS
<1>7. v \in QValues /\ v \notin Range(qgone) /\ Range(qgone') = Range(qgone) \cup {v}
  <2>1. IsInjective(qgone \o qbuf) BY <1>0, Zenon DEF QueueFifo
  <2>2. /\ Head(qbuf) \in QValues /\ Range(Append(qgone, Head(qbuf))) = Range(qgone) \cup {Head(qbuf)}
        /\ Head(qbuf) \notin Range(qgone)
    BY <1>0, <1>3, <2>1, LineHead
  <2>3. QED BY <1>3, <1>6, <2>2
<1>8. /\ qtake'[c].out = <<v>> /\ qtake'[c].at = "done"
      /\ \A d \in QConsumers \ {c} : qtake'[d] = qtake[d]
  <2>1. QWhere(qtake[c], Len(qtake[c].out) + 1) = "done"
    <3>1. Len(qtake[c].out) + 1 = 1 BY <1>5
    <3>2. QED BY <1>5, <3>1 DEF QWhere
  <2>2. Append(qtake[c].out, v) = <<v>> BY <1>5
  <2>3. qtake' = [qtake EXCEPT ![c] = [qtake[c] EXCEPT !.out = <<v>>, !.at = "done"]]
    BY <1>6, <2>1, <2>2 DEF QPop
  <2>4. QED BY <1>0, <2>3
<1>9. Len(<<v>>) = 1 /\ Range(<<v>>) = {v}
  <2>1. DOMAIN <<v>> = {1} /\ <<v>>[1] = v /\ Len(<<v>>) = 1 OBVIOUS
  <2>2. QED BY <2>1 DEF Range
<1>10. Range(qtake'[c].out) = {v} /\ Range(qtake[c].out) = {} /\ Len(qtake'[c].out) = 1
  BY <1>5, <1>8, <1>9, EmptyLine, Zenon
<1>11. ChWired' = ChWired
  <2>1. QInHand' = (QInHand \ Range(qtake[c].out)) \cup Range(qtake'[c].out) BY <1>0, <1>8, ChHandMoves
  <2>2. QInHand' = QInHand \cup {v} BY <1>10, <2>1
  <2>3. QED BY <1>3, <1>7, <2>2 DEF ChWired
<1>12. ChSource' BY <1>0, <1>4 DEF ChSource, ChChunk
<1>13. ChApart' BY <1>0, <1>4, <1>11, ChHandedStays, ChOutputsStay
<1>14. ChReader(c)' BY <1>0, <1>3, <1>4, <1>5, <1>8, <1>10 DEF ChReader
<1>15. /\ Len(qgone) \in Nat /\ DOMAIN qgone = 1..Len(qgone) /\ DOMAIN qgone' = 1..Len(qgone) + 1
       /\ qgone'[Len(qgone) + 1] = v /\ \A a \in 1..Len(qgone) : qgone'[a] = qgone[a]
  BY <1>0, <1>3, <1>6, <1>7
<1>16. DOMAIN qgone \subseteq DOMAIN qgone' /\ \A a \in DOMAIN qgone : qgone'[a] = qgone[a] BY <1>15
<1>17. ChLinedUp(c)'
  <2> SUFFICES ASSUME ChAlone(c)' PROVE ChLinedUp(c)' BY DEF ChLinedUp
  <2>1. ChAlone(c) BY <1>4 DEF ChAlone
  <2>2. PICK line : line = ChLine(c) /\ line = ChLine(c)' BY <1>4 DEF ChLine
  <2>3. /\ \A i, j \in DOMAIN line : i < j => ChBefore(line[i], line[j])
        /\ chpend = <<>>
    BY <1>0, <1>5, <2>1, <2>2 DEF ChLinedUp
  <2>4. \A x, y : ChBefore(x, y) => ChBefore(x, y)'
    <3> SUFFICES ASSUME NEW x, NEW y, ChBefore(x, y) PROVE ChBefore(x, y)' OBVIOUS
    <3>1. CASE x[1] = y[1] /\ x[2] < y[2] BY <3>1 DEF ChBefore
    <3>2. CASE \E a, b \in DOMAIN qgone : a < b /\ qgone[a] = x[1] /\ qgone[b] = y[1]
      <4>1. PICK a \in DOMAIN qgone, b \in DOMAIN qgone : a < b /\ qgone[a] = x[1] /\ qgone[b] = y[1] BY <3>2
      <4>2. a \in DOMAIN qgone' /\ b \in DOMAIN qgone' /\ qgone'[a] = x[1] /\ qgone'[b] = y[1] BY <1>16, <4>1
      <4>3. QED BY <4>1, <4>2 DEF ChBefore
    <3>3. QED BY <3>1, <3>2 DEF ChBefore
  <2>5. \A i, j \in DOMAIN line : i < j => ChBefore(line[i], line[j])' BY <2>3, <2>4
  <2>6. ASSUME NEW x \in Range(line)
        PROVE  \E a, b \in DOMAIN qgone' : a < b /\ qgone'[a] = x[1] /\ qgone'[b] = v
    <3>1. x[1] \in ChWired BY <1>5, <2>2, ChFromQueue
    <3>2. x[1] \in Range(qgone) BY <3>1 DEF ChWired
    <3>3. PICK a \in DOMAIN qgone : qgone[a] = x[1] BY <3>2 DEF Range
    <3>4. /\ a \in DOMAIN qgone' /\ qgone'[a] = x[1] /\ a < Len(qgone) + 1
          /\ Len(qgone) + 1 \in DOMAIN qgone' /\ qgone'[Len(qgone) + 1] = v
      BY <1>15, <3>3
    <3>5. QED BY <3>4
  <2>7. \A i, j \in DOMAIN ChLine(c)' : i < j => ChBefore(ChLine(c)[i], ChLine(c)[j])'
    BY <2>2, <2>5 DEF ChBefore
  <2>8. ASSUME NEW w \in Range(qtake'[c].out), NEW x \in Range(ChLine(c)')
        PROVE  \E a, b \in DOMAIN qgone' : a < b /\ qgone'[a] = x[1] /\ qgone'[b] = w
    BY <1>10, <2>2, <2>6
  <2>9. QED BY <1>4, <2>3, <2>7, <2>8 DEF ChLinedUp
<1>18. chreads'[c] # 0 /\ ChStreamed(c)' BY <1>4, <1>5, ChBegun DEF ChStreamed
<1>19. \A d \in QConsumers \ {c} : /\ qtake'[d] = qtake[d] /\ chat'[d] = chat[d] /\ chhold'[d] = chhold[d]
                                   /\ chgot'[d] = chgot[d] /\ chreads'[d] = chreads[d]
  BY <1>4, <1>8
<1>20. QED BY <1>0, <1>2, <1>3, <1>4, <1>12, <1>13, <1>14, <1>17, <1>18, <1>19, ChReaderStep

\* The outputs of the element that a reader took were not due before.
LEMMA ChNewlyHanded ==
  ASSUME ChannelIInv, chmode # "stream", NEW v \in QValues \ ChWired,
         chmode' = chmode, ChWired' = ChWired \cup {v}
  PROVE  ChHanded' = ChHanded \cup Range(Expand(v)) /\ Range(Expand(v)) \cap ChHanded = {}
<1>1. ChHanded = UNION {Range(Expand(w)) : w \in ChWired} BY DEF ChHanded
<1>2. ChHanded' = UNION {Range(Expand(w)) : w \in ChWired \cup {v}} BY DEF ChHanded, Expand
<1>3. ChHanded' = ChHanded \cup Range(Expand(v)) BY <1>1, <1>2
<1>4. ASSUME NEW x \in Range(Expand(v)), x \in ChHanded PROVE FALSE
  <2>1. PICK w \in ChWired : x \in Range(Expand(w)) BY <1>1, <1>4
  <2>2. w \in QValues
    <3>1. qgone \in Seq(QValues) BY ChParts DEF QOnce
    <3>2. Range(qgone) \subseteq QValues BY <3>1, RangeOf
    <3>3. QED BY <3>2 DEF ChWired
  <2>3. x[1] = v /\ x[1] = w BY <1>4, <2>1, <2>2, ChExpands
  <2>4. QED BY <2>3
<1>5. QED BY <1>3, <1>4

\* The outputs of the element that a reader took line up behind the others.
LEMMA ChLineGrows ==
  ASSUME NEW g \in Seq(ChOutputs), NEW v \in QValues,
         \A i, j \in DOMAIN g : i < j => ChBefore(g[i], g[j]),
         \A x \in Range(g) : \E a, b \in DOMAIN qgone : a < b /\ qgone[a] = x[1] /\ qgone[b] = v
  PROVE  \A i, j \in DOMAIN (g \o Expand(v)) : i < j => ChBefore((g \o Expand(v))[i], (g \o Expand(v))[j])
<1>1. PICK e \in Seq(ChOutputs) : e = Expand(v) BY ChExpands
<1>2. /\ DOMAIN e \in SUBSET (Nat \ {0}) /\ (\A i \in DOMAIN e : e[i] = <<v, i>>)
      /\ DOMAIN e = 1..Len(e) /\ Len(e) \in Nat /\ DOMAIN g = 1..Len(g) /\ Len(g) \in Nat
  BY <1>1, ChExpands
<1>3. PICK line \in Seq(ChOutputs) : line = g \o e
  <2>1. g \o e \in Seq(ChOutputs) BY TwoParts
  <2>2. QED BY <2>1, Zenon
<1>4. /\ Len(line) = Len(g) + Len(e) /\ (\A i \in 1..Len(g) : line[i] = g[i])
      /\ \A i \in 1..Len(e) : line[Len(g) + i] = e[i]
  BY <1>3, TwoParts
<1>5. PICK m \in Nat, n \in Nat : m = Len(g) /\ n = Len(e) BY <1>2
<1>6. DOMAIN line = 1..m + n BY <1>4, <1>5
<1>7. SUFFICES ASSUME NEW i \in 1..m + n, NEW j \in 1..m + n, i < j PROVE ChBefore(line[i], line[j])
  BY <1>1, <1>3, <1>6
<1>8. CASE j <= m
  <2>1. i \in DOMAIN g /\ j \in DOMAIN g /\ line[i] = g[i] /\ line[j] = g[j] BY <1>2, <1>4, <1>5, <1>7, <1>8
  <2>2. QED BY <1>7, <2>1
<1>9. CASE ~(j <= m)
  <2>1. PICK l \in 1..n : j = m + l
    <3>1. j - m \in 1..n /\ j = m + (j - m) BY <1>9
    <3>2. QED BY <3>1
  <2>2. line[j] = <<v, l>>
    <3>1. line[j] = e[l] /\ l \in DOMAIN e BY <1>2, <1>4, <1>5, <2>1
    <3>2. QED BY <1>2, <3>1
  <2>3. line[j][1] = v /\ line[j][2] = l BY <2>2
  <2>4. CASE i <= m
    <3>1. i \in DOMAIN g /\ line[i] = g[i] BY <1>2, <1>4, <1>5, <2>4
    <3>2. g[i] \in Range(g) BY <3>1 DEF Range
    <3>3. \E a, b \in DOMAIN qgone : a < b /\ qgone[a] = line[i][1] /\ qgone[b] = v BY <3>1, <3>2
    <3>4. QED BY <2>3, <3>3 DEF ChBefore
  <2>5. CASE ~(i <= m)
    <3>1. PICK k \in 1..n : i = m + k
      <4>1. i - m \in 1..n /\ i = m + (i - m) BY <2>5
      <4>2. QED BY <4>1
    <3>2. line[i] = <<v, k>>
      <4>1. line[i] = e[k] /\ k \in DOMAIN e BY <1>2, <1>4, <1>5, <3>1
      <4>2. QED BY <1>2, <4>1
    <3>3. line[i][1] = v /\ line[i][2] = k BY <3>2
    <3>4. k < l BY <1>7, <2>1, <3>1
    <3>5. QED BY <2>3, <3>3, <3>4 DEF ChBefore
  <2>6. QED BY <2>4, <2>5
<1>10. QED BY <1>8, <1>9

\* The take has returned an element: it is expanded.
LEMMA ChTakenOk ==
  ASSUME ChannelIInv, NEW c \in QConsumers, ChTaken(c), qtake[c].at = "done" PROVE ChannelIInv'
<1>0. /\ ChannelTypeOK /\ QueueIInv /\ QueueTypeOK /\ QOnce /\ QHands
      /\ ChSource /\ ChApart /\ ChReader(c) /\ ChLinedUp(c)
      /\ chpend \in Seq(ChOutputs) /\ chhold \in [QConsumers -> Seq(ChOutputs)]
      /\ chgot \in [QConsumers -> Seq(ChOutputs)] /\ chreads \in [QConsumers -> Nat]
      /\ chat \in [QConsumers -> {"idle", "pending", "take", "expand", "push", "end"}]
      /\ qtake \in [QConsumers -> [at : QTaking, lo : Nat, hi : Nat, out : Seq(QValues)]]
  BY ChParts DEF ChannelTypeOK, QueueTypeOK
<1>1. PICK v : v = Head(qtake[c].out) OBVIOUS
<1>2. /\ chat[c] = "take" /\ QCollect(c)
      /\ chhold' = [chhold EXCEPT ![c] = Expand(v)] /\ chat' = [chat EXCEPT ![c] = "expand"]
      /\ chmode' = chmode /\ chacc' = chacc /\ chsnap' = chsnap /\ chreads' = chreads
      /\ chpend' = chpend /\ chsrc' = chsrc /\ chgot' = chgot
  BY <1>1 DEF ChTaken, ChRest
<1>3. QMoves(c) BY <1>2 DEF QMoves
<1>4. QueueIInv' BY <1>0, <1>3, QueueMoveOk
<1>5. /\ qtodo' = qtodo /\ qleft' = qleft /\ qcall' = qcall /\ qseen' = qseen /\ qkind' = qkind
      /\ qopen' = qopen /\ qbuf' = qbuf /\ qgone' = qgone /\ qdrop' = qdrop
      /\ qtake' = [qtake EXCEPT ![c] = NoTake]
  BY <1>2 DEF QCollect, qprod, qstore
<1>6. PICK o \in Seq(QValues) : o = qtake[c].out BY <1>0
<1>7. Len(o) = 1 /\ chhold[c] = <<>> /\ chmode # "stream" BY <1>0, <1>2, <1>6 DEF ChReader
<1>8. Range(o) = {v} /\ v \in QValues
  <2>1. DOMAIN o = {1} /\ v = o[1] /\ o[1] \in QValues BY <1>1, <1>6, <1>7
  <2>2. QED BY <2>1 DEF Range
<1>9. v \in Range(qgone) \ qdrop BY <1>0, <1>6, <1>8 DEF QHands
<1>10. qtake'[c] = NoTake /\ \A d \in QConsumers \ {c} : qtake'[d] = qtake[d] BY <1>0, <1>5
<1>11. qtake'[c].at = "idle" /\ qtake'[c].out = <<>> BY <1>10 DEF NoTake
<1>12. Range(qtake'[c].out) = {} BY <1>11, EmptyLine, Zenon
<1>13. ChWired' = ChWired \cup {v} /\ v \notin ChWired
  <2>1. QInHand' = (QInHand \ Range(qtake[c].out)) \cup Range(qtake'[c].out) BY <1>0, <1>10, ChHandMoves
  <2>2. QInHand' = QInHand \ {v} BY <1>6, <1>8, <1>12, <2>1
  <2>3. v \in QInHand BY <1>6, <1>8 DEF QInHand
  <2>4. QED BY <1>5, <1>9, <2>2, <2>3 DEF ChWired
<1>14. ChHanded' = ChHanded \cup Range(Expand(v)) /\ Range(Expand(v)) \cap ChHanded = {}
  BY <1>2, <1>7, <1>8, <1>13, ChNewlyHanded
<1>15. PICK e \in Seq(ChOutputs) : e = Expand(v) /\ IsInjective(e) BY <1>8, ChExpands
<1>16. /\ chhold' \in [QConsumers -> Seq(ChOutputs)] /\ chhold'[c] = e
       /\ \A d \in QConsumers \ {c} : chhold'[d] = chhold[d]
  BY <1>0, <1>2, <1>15
<1>17. /\ chat' \in [QConsumers -> {"idle", "pending", "take", "expand", "push", "end"}]
       /\ chat'[c] = "expand" /\ chreads'[c] # 0
       /\ \A d \in QConsumers \ {c} : chat'[d] = chat[d]
  BY <1>0, <1>2, ChBegun
<1>18. ChApart'
  <2>1. Range(chpend) \cup Range(chgot[c]) \subseteq ChHanded BY <1>0 DEF ChApart
  <2>2. Range(chhold[c]) = {} BY <1>7, EmptyLine, Zenon
  <2>3. IsInjective(chpend) /\ IsInjective(chgot[c]) /\ Range(chgot[c]) \cap Range(chpend) = {}
    BY <1>0 DEF ChApart
  <2>4. Range(e) \cap ChHanded = {} /\ ChHanded' = ChHanded \cup Range(e) BY <1>14, <1>15
  <2>5. /\ Range(chhold'[c]) \cap Range(chpend') = {} /\ Range(chhold'[c]) \cap Range(chgot'[c]) = {}
        /\ Range(chgot'[c]) \cap Range(chpend') = {}
        /\ IsInjective(chpend') /\ IsInjective(chhold'[c]) /\ IsInjective(chgot'[c])
    BY <1>2, <1>15, <1>16, <2>1, <2>3, <2>4
  <2>6. \A y : y \in Range(chpend') \cup Range(chhold'[c]) \cup Range(chgot'[c])
           <=> y \in Range(chpend) \cup Range(chhold[c]) \cup Range(chgot[c]) \cup Range(e)
    BY <1>2, <1>16, <2>2
  <2>7. \A d \in QConsumers \ {c} : chhold'[d] = chhold[d] /\ chgot'[d] = chgot[d] BY <1>2, <1>16
  <2>8. QED BY <1>0, <2>4, <2>5, <2>6, <2>7, ChShuffle
<1>19. ChSource' /\ ChStreamed(c)' BY <1>0, <1>2, <1>7 DEF ChSource, ChChunk, ChStreamed
<1>20. ChReader(c)' BY <1>11, <1>17 DEF ChReader
<1>21. ChLinedUp(c)'
  <2> SUFFICES ASSUME ChAlone(c)' PROVE ChLinedUp(c)' BY DEF ChLinedUp
  <2>1. ChAlone(c) BY <1>2 DEF ChAlone
  <2>2. chpend = <<>> BY <1>0, <1>2, <1>7, <2>1 DEF ChLinedUp
  <2>3. PICK g \in Seq(ChOutputs) : g = chgot[c] BY <1>0
  <2>4. PICK line \in Seq(ChOutputs) : line = g \o e
    <3>1. g \o e \in Seq(ChOutputs) BY TwoParts
    <3>2. QED BY <3>1, Zenon
  <2>5. ChLine(c) = g
    <3>1. g \o <<>> = g BY ConcatEmptySeq
    <3>2. QED BY <1>7, <2>2, <2>3, <3>1, Zenon DEF ChLine
  <2>6. ChLine(c)' = line
    <3>1. line \o <<>> = line BY ConcatEmptySeq
    <3>2. QED BY <1>2, <1>16, <2>2, <2>3, <2>4, <3>1, Zenon DEF ChLine
  <2>7. /\ \A i, j \in DOMAIN g : i < j => ChBefore(g[i], g[j])
        /\ \A x \in Range(g) : \E a, b \in DOMAIN qgone : a < b /\ qgone[a] = x[1] /\ qgone[b] = v
    BY <1>0, <1>6, <1>7, <1>8, <2>1, <2>5 DEF ChLinedUp
  <2>8. \A i, j \in DOMAIN line : i < j => ChBefore(line[i], line[j])
    BY <1>8, <1>15, <2>4, <2>7, ChLineGrows
  <2>9. \A i, j \in DOMAIN ChLine(c)' : i < j => ChBefore(ChLine(c)[i], ChLine(c)[j])'
    BY <1>5, <2>6, <2>8 DEF ChBefore
  <2>10. QED BY <1>2, <1>12, <2>2, <2>9 DEF ChLinedUp
<1>22. \A d \in QConsumers \ {c} : /\ qtake'[d] = qtake[d] /\ chat'[d] = chat[d] /\ chhold'[d] = chhold[d]
                                   /\ chgot'[d] = chgot[d] /\ chreads'[d] = chreads[d]
  BY <1>2, <1>10, <1>16, <1>17
<1>23. QED BY <1>0, <1>2, <1>4, <1>5, <1>16, <1>17, <1>18, <1>19, <1>20, <1>21, <1>22, ChReaderStep

\* The take has failed: the reader is told of the end.
LEMMA ChToldOk ==
  ASSUME ChannelIInv, NEW c \in QConsumers, ChTaken(c), qtake[c].at # "done" PROVE ChannelIInv'
<1>0. /\ ChannelTypeOK /\ QueueIInv /\ QueueTypeOK
      /\ ChSource /\ ChApart /\ ChReader(c) /\ ChLinedUp(c)
      /\ chpend \in Seq(ChOutputs) /\ chhold \in [QConsumers -> Seq(ChOutputs)]
      /\ chgot \in [QConsumers -> Seq(ChOutputs)] /\ chreads \in [QConsumers -> Nat]
      /\ chat \in [QConsumers -> {"idle", "pending", "take", "expand", "push", "end"}]
      /\ qtake \in [QConsumers -> [at : QTaking, lo : Nat, hi : Nat, out : Seq(QValues)]]
  BY ChParts DEF ChannelTypeOK, QueueTypeOK
<1>1. /\ chat[c] = "take" /\ QCollect(c) /\ chhold' = chhold /\ chat' = [chat EXCEPT ![c] = "end"]
      /\ chmode' = chmode /\ chacc' = chacc /\ chsnap' = chsnap /\ chreads' = chreads
      /\ chpend' = chpend /\ chsrc' = chsrc /\ chgot' = chgot
  BY DEF ChTaken, ChRest
<1>2. QMoves(c) BY <1>1 DEF QMoves
<1>3. QueueIInv' BY <1>0, <1>2, QueueMoveOk
<1>4. /\ qtodo' = qtodo /\ qleft' = qleft /\ qcall' = qcall /\ qseen' = qseen /\ qkind' = qkind
      /\ qopen' = qopen /\ qbuf' = qbuf /\ qgone' = qgone /\ qdrop' = qdrop
      /\ qtake' = [qtake EXCEPT ![c] = NoTake] /\ qtake[c].at = "failed"
  BY <1>1 DEF QCollect, qprod, qstore
<1>5. chmode # "stream" /\ qtake[c].out = <<>> /\ chhold[c] = <<>> /\ ~qopen /\ qbuf = <<>> BY <1>0, <1>1, <1>4 DEF ChReader
<1>6. qtake'[c] = NoTake /\ \A d \in QConsumers \ {c} : qtake'[d] = qtake[d] BY <1>0, <1>4
<1>7. qtake'[c].at = "idle" /\ qtake'[c].out = <<>> BY <1>6 DEF NoTake
<1>8. Range(qtake'[c].out) = {} /\ Range(qtake[c].out) = {} BY <1>5, <1>7, EmptyLine, Zenon
<1>9. ChWired' = ChWired
  <2>1. QInHand' = (QInHand \ Range(qtake[c].out)) \cup Range(qtake'[c].out) BY <1>0, <1>6, ChHandMoves
  <2>2. QInHand' = QInHand BY <1>8, <2>1
  <2>3. QED BY <1>4, <2>2 DEF ChWired
<1>10. /\ chat' \in [QConsumers -> {"idle", "pending", "take", "expand", "push", "end"}]
       /\ chat'[c] = "end" /\ chreads'[c] # 0
       /\ \A d \in QConsumers \ {c} : chat'[d] = chat[d]
  BY <1>0, <1>1, ChBegun
<1>11. ChSource' /\ ChStreamed(c)' BY <1>0, <1>1, <1>5 DEF ChSource, ChChunk, ChStreamed
<1>12. ChApart' BY <1>0, <1>1, <1>9, ChHandedStays, ChOutputsStay
<1>13. ChReader(c)' BY <1>1, <1>4, <1>5, <1>7, <1>10 DEF ChReader
<1>14. ChLinedUp(c)'
  <2>1. \A d \in QConsumers : chreads[d] \in Nat /\ chreads'[d] \in Nat /\ chreads[d] <= chreads'[d]
    BY <1>0, <1>1
  <2>2. ChLine(c)' = ChLine(c) BY <1>1 DEF ChLine
  <2>3. QED BY <1>0, <1>1, <1>4, <1>7, <2>1, <2>2, ChOrderStays
<1>15. \A d \in QConsumers \ {c} : /\ qtake'[d] = qtake[d] /\ chat'[d] = chat[d] /\ chhold'[d] = chhold[d]
                                   /\ chgot'[d] = chgot[d] /\ chreads'[d] = chreads[d]
  BY <1>1, <1>6, <1>10
<1>16. QED BY <1>0, <1>1, <1>3, <1>4, <1>10, <1>11, <1>12, <1>13, <1>14, <1>15, ChReaderStep

\* A chunk of the stream.
LEMMA ChChunkOf ==
  ASSUME NEW i \in DOMAIN ChChunks
  PROVE  /\ ChChunks[i] \in Seq(QValues) /\ ChChunks[i] # <<>> /\ IsInjective(ChChunks[i])
         /\ Head(ChChunks[i]) \in Range(ChChunks[i]) /\ Head(ChChunks[i]) \in QValues
         /\ Tail(ChChunks[i]) \in Seq(QValues) /\ IsInjective(Tail(ChChunks[i]))
         /\ Range(Tail(ChChunks[i])) \subseteq Range(ChChunks[i])
<1>1. ChChunks \in Seq(Seq(QValues) \ {<<>>}) /\ IsInjective(ChChunks[i]) BY ChannelAssumption
<1>2. ChChunks[i] \in Seq(QValues) \ {<<>>} BY <1>1
<1>3. PICK k \in Seq(QValues) : k = ChChunks[i] BY <1>2
<1>4. k # <<>> /\ IsInjective(k) BY <1>1, <1>2, <1>3
<1>5. /\ Tail(k) \in Seq(QValues) /\ Head(k) \in QValues /\ Head(k) \in Range(k)
      /\ IsInjective(Tail(k)) /\ Range(Tail(k)) = Range(k) \ {Head(k)}
  BY <1>4, TailOnce
<1>6. Range(Tail(k)) \subseteq Range(k) BY <1>5
<1>7. QED BY <1>3, <1>4, <1>5, <1>6, Zenon

\* The next chunk of the stream is pulled: its elements are new.
LEMMA ChNextChunk ==
  ASSUME ChannelIInv, chmode = "stream", chmode' = chmode, chsrc # <<>>, chsrc' = Tail(chsrc)
  PROVE  /\ ChSource'
         /\ \E k \in DOMAIN ChChunks :
              /\ Head(chsrc) = ChChunks[k]
              /\ ChHanded' = ChHanded \cup (Range(Expand(Head(ChChunks[k]))) \cup Range(Raw(Tail(ChChunks[k]))))
              /\ (Range(Expand(Head(ChChunks[k]))) \cup Range(Raw(Tail(ChChunks[k])))) \cap ChHanded = {}
<1>0. chsrc \in Seq(ChChunk) /\ ChSource BY ChParts DEF ChSource
<1>1. PICK n \in Nat : n = Len(ChChunks) - Len(chsrc) BY <1>0 DEF ChSource
<1>2. \A k \in 1..Len(chsrc) : chsrc[k] = ChChunks[n + k] BY <1>0, <1>1 DEF ChSource
<1>3. /\ Len(chsrc) \in Nat \ {0} /\ Head(chsrc) = chsrc[1] /\ Tail(chsrc) \in Seq(ChChunk)
      /\ Len(Tail(chsrc)) = Len(chsrc) - 1 /\ \A k \in 1..Len(chsrc) - 1 : Tail(chsrc)[k] = chsrc[k + 1]
  BY <1>0
<1>4. ChChunks \in Seq(ChChunk) /\ Len(ChChunks) \in Nat /\ DOMAIN ChChunks = 1..Len(ChChunks)
  BY ChannelAssumption DEF ChChunk
<1>5. PICK all \in Nat, l \in Nat \ {0} : all = Len(ChChunks) /\ l = Len(chsrc) BY <1>3, <1>4
<1>6. n = all - l /\ n + 1 \in DOMAIN ChChunks /\ Len(chsrc') = l - 1 /\ all - (l - 1) = n + 1
  BY <1>1, <1>3, <1>4, <1>5
<1>7. Len(ChChunks) - Len(chsrc') = n + 1 BY <1>5, <1>6
<1>8. ChSource'
  <2>1. ASSUME NEW k \in 1..Len(chsrc') PROVE chsrc'[k] = ChChunks[(n + 1) + k]
    <3>1. k \in 1..l - 1 /\ k + 1 \in 1..l BY <1>6
    <3>2. chsrc'[k] = chsrc[k + 1] /\ chsrc[k + 1] = ChChunks[n + (k + 1)] BY <1>2, <1>3, <1>5, <3>1
    <3>3. n + (k + 1) = (n + 1) + k BY <3>1
    <3>4. QED BY <3>2, <3>3
  <2>2. n + 1 \in Nat /\ chsrc' \in Seq(ChChunk) BY <1>3
  <2>3. QED BY <1>7, <2>1, <2>2 DEF ChSource, ChChunk
<1>9. PICK k : k = n + 1 OBVIOUS
<1>10. Head(chsrc) = ChChunks[k] /\ k \in DOMAIN ChChunks
  <2>1. 1 \in 1..Len(chsrc) BY <1>3
  <2>2. QED BY <1>2, <1>3, <1>6, <1>9, <2>1
<1>11. PICK f \in QValues : f = Head(ChChunks[k]) BY <1>10, ChChunkOf
<1>12. PICK rest \in Seq(QValues) : rest = Tail(ChChunks[k]) BY <1>10, ChChunkOf
<1>13. ChPulled = {ChChunks[i] : i \in 1..n} BY <1>1 DEF ChPulled
<1>14. ChPulled' = ChPulled \cup {ChChunks[k]}
  <2>1. ChPulled' = {ChChunks[i] : i \in 1..n + 1} BY <1>7 DEF ChPulled
  <2>2. \A i : i \in 1..n + 1 <=> i \in 1..n \/ i = n + 1 OBVIOUS
  <2>3. QED BY <1>9, <1>13, <2>1, <2>2
<1>15. ChFirsts' = ChFirsts \cup {f} /\ ChOthers' = ChOthers \cup Range(rest)
  BY <1>11, <1>12, <1>14 DEF ChFirsts, ChOthers
<1>16. IsInjective(rest) /\ f \in Range(ChChunks[k]) /\ Range(rest) \subseteq Range(ChChunks[k])
  BY <1>10, <1>11, <1>12, ChChunkOf
<1>17. Range(Raw(rest)) = {<<v, 0>> : v \in Range(rest)} BY <1>16, ChRaws
<1>18. ChHanded = (UNION {Range(Expand(v)) : v \in ChFirsts}) \cup {<<v, 0>> : v \in ChOthers} BY DEF ChHanded
<1>19. ChHanded' = (UNION {Range(Expand(v)) : v \in ChFirsts \cup {f}})
                  \cup {<<v, 0>> : v \in ChOthers \cup Range(rest)}
  <2>1. ChHanded' = (UNION {Range(Expand(v)) : v \in ChFirsts'}) \cup {<<v, 0>> : v \in ChOthers'}
    BY DEF ChHanded, Expand
  <2>2. QED BY <1>15, <2>1
<1>20. ChHanded' = ChHanded \cup (Range(Expand(f)) \cup Range(Raw(rest))) BY <1>17, <1>18, <1>19
<1>21. ASSUME NEW w \in ChFirsts \cup ChOthers PROVE w \in QValues /\ w \notin Range(ChChunks[k])
  <2>1. PICK i \in 1..n : w = Head(ChChunks[i]) \/ w \in Range(Tail(ChChunks[i]))
    BY <1>13, <1>21 DEF ChFirsts, ChOthers
  <2>2. i \in DOMAIN ChChunks /\ i # k BY <1>4, <1>6, <1>9
  <2>3. w \in Range(ChChunks[i]) BY <2>1, <2>2, ChChunkOf
  <2>4. ChChunks[i] \in Seq(QValues) BY <2>2, ChChunkOf
  <2>5. w \in QValues BY <2>3, <2>4, RangeOf
  <2>6. Range(ChChunks[i]) \cap Range(ChChunks[k]) = {} BY <1>10, <2>2, ChannelAssumption
  <2>7. QED BY <2>3, <2>5, <2>6
<1>22. ASSUME NEW x \in Range(Expand(f)) \cup Range(Raw(rest)), x \in ChHanded PROVE FALSE
  <2>1. x[1] \in Range(ChChunks[k])
    <3>1. CASE x \in Range(Expand(f))
      <4>1. x[1] = f BY <3>1, ChExpands
      <4>2. QED BY <1>16, <4>1
    <3>2. CASE x \in Range(Raw(rest))
      <4>1. PICK v \in Range(rest) : x = <<v, 0>> BY <1>17, <3>2
      <4>2. x[1] = v BY <4>1
      <4>3. QED BY <1>16, <4>2
    <3>3. QED BY <1>22, <3>1, <3>2
  <2>2. x[1] \in ChFirsts \cup ChOthers
    <3>1. CASE \E w \in ChFirsts : x \in Range(Expand(w))
      <4>1. PICK w \in ChFirsts : x \in Range(Expand(w)) BY <3>1
      <4>2. x[1] = w BY <1>21, <4>1, ChExpands
      <4>3. QED BY <4>1, <4>2
    <3>2. CASE \E w \in ChOthers : x = <<w, 0>>
      <4>1. PICK w \in ChOthers : x = <<w, 0>> BY <3>2
      <4>2. x[1] = w BY <4>1
      <4>3. QED BY <4>1, <4>2
    <3>3. QED BY <1>18, <1>22, <3>1, <3>2
  <2>3. QED BY <1>21, <2>1, <2>2
<1>23. (Range(Expand(f)) \cup Range(Raw(rest))) \cap ChHanded = {} BY <1>22
<1>24. QED BY <1>8, <1>10, <1>11, <1>12, <1>20, <1>23, Zenon

\* What is in order is in order before and behind any place, and the other way round.
LEMMA ChTidyParts ==
  ASSUME NEW s \in Seq(ChOutputs), NEW t \in Seq(ChOutputs), ChTidy(s \o t)
  PROVE  ChTidy(s) /\ ChTidy(t) /\ ChAhead(s, t)
<1>1. PICK u \in Seq(ChOutputs) : u = s \o t
  <2>1. s \o t \in Seq(ChOutputs) BY TwoParts
  <2>2. QED BY <2>1, Zenon
<1>2. PICK m \in Nat, n \in Nat : m = Len(s) /\ n = Len(t) OBVIOUS
<1>3. /\ DOMAIN s = 1..m /\ DOMAIN t = 1..n /\ Len(u) = m + n
      /\ (\A i \in 1..m : u[i] = s[i]) /\ \A i \in 1..n : u[m + i] = t[i]
  BY <1>1, <1>2, TwoParts
<1>4. DOMAIN u = 1..m + n BY <1>1, <1>3
<1>5. \A i, j \in 1..m + n : i < j => ChPulledBefore(u[i], u[j]) BY <1>1, <1>4 DEF ChTidy
<1>6. ChTidy(s)
  <2> SUFFICES ASSUME NEW i \in 1..m, NEW j \in 1..m, i < j PROVE ChPulledBefore(s[i], s[j])
    BY <1>3 DEF ChTidy
  <2>1. i \in 1..m + n /\ j \in 1..m + n OBVIOUS
  <2>2. QED BY <1>3, <1>5, <2>1
<1>7. ChTidy(t)
  <2> SUFFICES ASSUME NEW i \in 1..n, NEW j \in 1..n, i < j PROVE ChPulledBefore(t[i], t[j])
    BY <1>3 DEF ChTidy
  <2>1. m + i \in 1..m + n /\ m + j \in 1..m + n /\ m + i < m + j OBVIOUS
  <2>2. QED BY <1>3, <1>5, <2>1
<1>8. ChAhead(s, t)
  <2> SUFFICES ASSUME NEW x \in Range(s), NEW y \in Range(t) PROVE ChPulledBefore(x, y) BY DEF ChAhead
  <2>1. PICK i \in 1..m : s[i] = x BY <1>3 DEF Range
  <2>2. PICK j \in 1..n : t[j] = y BY <1>3 DEF Range
  <2>3. i \in 1..m + n /\ m + j \in 1..m + n /\ i < m + j OBVIOUS
  <2>4. QED BY <1>3, <1>5, <2>1, <2>2, <2>3
<1>9. QED BY <1>6, <1>7, <1>8

LEMMA ChTidyWhole ==
  ASSUME NEW s \in Seq(ChOutputs), NEW t \in Seq(ChOutputs), ChTidy(s), ChTidy(t), ChAhead(s, t)
  PROVE  ChTidy(s \o t)
<1>1. PICK u \in Seq(ChOutputs) : u = s \o t
  <2>1. s \o t \in Seq(ChOutputs) BY TwoParts
  <2>2. QED BY <2>1, Zenon
<1>2. PICK m \in Nat, n \in Nat : m = Len(s) /\ n = Len(t) OBVIOUS
<1>3. /\ DOMAIN s = 1..m /\ DOMAIN t = 1..n /\ Len(u) = m + n
      /\ (\A i \in 1..m : u[i] = s[i]) /\ \A i \in 1..n : u[m + i] = t[i]
  BY <1>1, <1>2, TwoParts
<1>4. DOMAIN u = 1..m + n BY <1>1, <1>3
<1>5. SUFFICES ASSUME NEW i \in 1..m + n, NEW j \in 1..m + n, i < j PROVE ChPulledBefore(u[i], u[j])
  BY <1>1, <1>4 DEF ChTidy
<1>6. CASE j <= m
  <2>1. i \in 1..m /\ j \in 1..m BY <1>5, <1>6
  <2>2. QED BY <1>3, <1>5, <2>1 DEF ChTidy
<1>7. CASE i <= m /\ ~(j <= m)
  <2>1. i \in 1..m /\ j - m \in 1..n /\ j = m + (j - m) BY <1>7
  <2>2. u[i] = s[i] /\ u[j] = t[j - m] BY <1>3, <2>1
  <2>3. s[i] \in Range(s) /\ t[j - m] \in Range(t) BY <1>3, <2>1 DEF Range
  <2>4. QED BY <2>2, <2>3 DEF ChAhead
<1>8. CASE ~(i <= m)
  <2>1. /\ i - m \in 1..n /\ j - m \in 1..n /\ i - m < j - m
        /\ i = m + (i - m) /\ j = m + (j - m)
    BY <1>5, <1>8
  <2>2. u[i] = t[i - m] /\ u[j] = t[j - m] BY <1>3, <2>1
  <2>3. QED BY <1>3, <2>1, <2>2 DEF ChTidy
<1>9. QED BY <1>6, <1>7, <1>8

\* What is made of one chunk: the expansion and the other elements are in order, and so
\* are the first output, the other elements and the rest of the expansion.
LEMMA ChOneChunk ==
  ASSUME NEW k \in DOMAIN ChChunks
  PROVE  LET e == Expand(Head(ChChunks[k]))
             r == Raw(Tail(ChChunks[k]))
         IN  /\ ChTidy(e) /\ ChTidy(r) /\ ChAhead(e, r)
             /\ e # <<>> => /\ ChTidy(<<Head(e)>>) /\ ChTidy(Tail(e)) /\ ChAhead(<<Head(e)>>, r)
                            /\ ChAhead(<<Head(e)>>, Tail(e)) /\ ChAhead(r, Tail(e))
<1>1. PICK q \in Seq(QValues) : q = ChChunks[k] /\ q # <<>> /\ IsInjective(q) BY ChChunkOf
<1>2. PICK n \in Nat \ {0} : n = Len(q) BY <1>1
<1>3. PICK f \in QValues : f = Head(q) /\ f = q[1] BY <1>1
<1>4. PICK t \in Seq(QValues) : t = Tail(q) /\ IsInjective(t) BY <1>1, ChChunkOf
<1>5. DOMAIN t = 1..n - 1 /\ (\A i \in 1..n - 1 : t[i] = q[i + 1]) /\ DOMAIN q = 1..n BY <1>1, <1>2, <1>4
<1>6. PICK e \in Seq(ChOutputs) : /\ e = Expand(f) /\ DOMAIN e \in SUBSET (Nat \ {0})
                                  /\ (\A i \in DOMAIN e : e[i] = <<f, i>>)
  BY ChExpands
<1>7. PICK r : r = Raw(t) OBVIOUS
<1>8. DOMAIN r = 1..n - 1 /\ \A i \in 1..n - 1 : r[i] = <<q[i + 1], 0>> BY <1>5, <1>7 DEF Raw
<1>9. ASSUME NEW a \in 1..n, NEW b \in 1..n, NEW x, NEW y, x[1] = q[a], y[1] = q[b],
             a < b \/ (b < a /\ y[2] > 1)
      PROVE  ChPulledBefore(x, y)
  <2>1. \E i, j \in DOMAIN ChChunks[k] : /\ ChChunks[k][i] = x[1] /\ ChChunks[k][j] = y[1]
                                         /\ i < j \/ (j < i /\ y[2] > 1)
    BY <1>1, <1>5, <1>9
  <2>2. QED BY <2>1 DEF ChPulledBefore
<1>10. \A i, j \in DOMAIN e : i < j => ChPulledBefore(e[i], e[j])
  <2> SUFFICES ASSUME NEW i \in DOMAIN e, NEW j \in DOMAIN e, i < j PROVE ChPulledBefore(e[i], e[j]) OBVIOUS
  <2>1. e[i] = <<f, i>> /\ e[j] = <<f, j>> BY <1>6
  <2>2. e[i][1] = e[j][1] /\ e[i][2] < e[j][2] BY <2>1
  <2>3. QED BY <2>2 DEF ChPulledBefore
<1>11. \A i, j \in DOMAIN r : i < j => ChPulledBefore(r[i], r[j])
  <2> SUFFICES ASSUME NEW i \in 1..n - 1, NEW j \in 1..n - 1, i < j PROVE ChPulledBefore(r[i], r[j])
    BY <1>8
  <2>1. r[i] = <<q[i + 1], 0>> /\ r[j] = <<q[j + 1], 0>> BY <1>8
  <2>2. r[i][1] = q[i + 1] /\ r[j][1] = q[j + 1] BY <2>1
  <2>3. i + 1 \in 1..n /\ j + 1 \in 1..n /\ i + 1 < j + 1 OBVIOUS
  <2>4. QED BY <1>9, <2>2, <2>3
<1>12. ASSUME NEW i \in DOMAIN e, NEW j \in 1..n - 1
       PROVE  ChPulledBefore(e[i], r[j]) /\ (i > 1 => ChPulledBefore(r[j], e[i]))
  <2>1. e[i] = <<f, i>> /\ r[j] = <<q[j + 1], 0>> BY <1>6, <1>8
  <2>2. e[i][1] = q[1] /\ e[i][2] = i /\ r[j][1] = q[j + 1] BY <1>3, <2>1
  <2>3. 1 \in 1..n /\ j + 1 \in 1..n /\ 1 < j + 1 OBVIOUS
  <2>4. ChPulledBefore(e[i], r[j]) BY <1>9, <2>2, <2>3
  <2>5. i > 1 => ChPulledBefore(r[j], e[i]) BY <1>9, <2>2, <2>3
  <2>6. QED BY <2>4, <2>5
<1>13. ChTidy(e) /\ ChTidy(r) BY <1>10, <1>11 DEF ChTidy
<1>14. ChAhead(e, r) BY <1>8, <1>12 DEF ChAhead, Range
<1>15. ASSUME e # <<>>
       PROVE  /\ ChTidy(<<Head(e)>>) /\ ChTidy(Tail(e)) /\ ChAhead(<<Head(e)>>, r)
              /\ ChAhead(<<Head(e)>>, Tail(e)) /\ ChAhead(r, Tail(e))
  <2>1. PICK m \in Nat \ {0} : m = Len(e) /\ DOMAIN e = 1..m BY <1>15
  <2>2. PICK d : d = Tail(e) OBVIOUS
  <2>3. DOMAIN d = 1..m - 1 /\ (\A i \in 1..m - 1 : d[i] = e[i + 1]) /\ Head(e) = e[1]
    BY <1>15, <2>1, <2>2
  <2>4. ChTidy(<<Head(e)>>)
    <3>1. DOMAIN <<Head(e)>> = {1} OBVIOUS
    <3>2. QED BY <3>1 DEF ChTidy
  <2>5. Range(<<Head(e)>>) = {e[1]}
    <3>1. DOMAIN <<Head(e)>> = {1} /\ <<Head(e)>>[1] = e[1] BY <2>3
    <3>2. QED BY <3>1 DEF Range
  <2>6. ChTidy(d)
    <3> SUFFICES ASSUME NEW i \in 1..m - 1, NEW j \in 1..m - 1, i < j PROVE ChPulledBefore(d[i], d[j])
      BY <2>3 DEF ChTidy
    <3>1. i + 1 \in 1..m /\ j + 1 \in 1..m /\ i + 1 < j + 1 OBVIOUS
    <3>2. QED BY <1>10, <2>1, <2>3, <3>1
  <2>7. ChAhead(<<Head(e)>>, r) BY <1>8, <1>12, <2>1, <2>5 DEF ChAhead, Range
  <2>8. ChAhead(<<Head(e)>>, d)
    <3> SUFFICES ASSUME NEW i \in 1..m - 1 PROVE ChPulledBefore(e[1], d[i])
      BY <2>3, <2>5 DEF ChAhead, Range
    <3>1. 1 \in 1..m /\ i + 1 \in 1..m /\ 1 < i + 1 OBVIOUS
    <3>2. QED BY <1>10, <2>1, <2>3, <3>1
  <2>9. ChAhead(r, d)
    <3> SUFFICES ASSUME NEW i \in 1..m - 1, NEW j \in 1..n - 1 PROVE ChPulledBefore(r[j], d[i])
      BY <1>8, <2>3 DEF ChAhead, Range
    <3>1. i + 1 \in 1..m /\ i + 1 > 1 OBVIOUS
    <3>2. QED BY <1>12, <2>1, <2>3, <3>1
  <2>10. QED BY <2>2, <2>4, <2>6, <2>7, <2>8, <2>9
<1>16. QED BY <1>1, <1>3, <1>4, <1>6, <1>7, <1>13, <1>14, <1>15, Zenon

\* What was made of the chunks so far comes before what is made of the next one.
LEMMA ChOlderChunks ==
  ASSUME ChannelIInv, chmode = "stream", chsrc # <<>>, NEW k \in DOMAIN ChChunks, Head(chsrc) = ChChunks[k],
         NEW g \in Seq(ChOutputs), Range(g) \subseteq ChHanded
  PROVE  ChAhead(g, Expand(Head(ChChunks[k]))) /\ ChAhead(g, Raw(Tail(ChChunks[k])))
<1>0. chsrc \in Seq(ChChunk) /\ ChSource BY ChParts DEF ChSource
<1>1. PICK n \in Nat : n = Len(ChChunks) - Len(chsrc) BY <1>0 DEF ChSource
<1>2. chsrc[1] = ChChunks[n + 1] /\ n + 1 \in DOMAIN ChChunks
  <2>1. ChChunks \in Seq(ChChunk) /\ DOMAIN ChChunks = 1..Len(ChChunks) /\ Len(ChChunks) \in Nat
    BY ChannelAssumption DEF ChChunk
  <2>2. Len(chsrc) \in Nat \ {0} BY <1>0
  <2>3. 1 \in 1..Len(chsrc) /\ n + 1 \in 1..Len(ChChunks) BY <1>1, <2>1, <2>2
  <2>4. QED BY <1>0, <1>1, <2>1, <2>3 DEF ChSource
<1>3. k = n + 1
  <2>1. ChChunks[k] = ChChunks[n + 1] BY <1>0, <1>2
  <2>2. Head(ChChunks[k]) \in Range(ChChunks[k]) BY ChChunkOf
  <2>3. Range(ChChunks[k]) \cap Range(ChChunks[n + 1]) # {} BY <2>1, <2>2
  <2>4. QED BY <1>2, <2>3, ChannelAssumption
<1>4. ASSUME NEW x \in Range(g) PROVE \E i \in DOMAIN ChChunks : i < k /\ x[1] \in Range(ChChunks[i])
  <2>1. ChPulled = {ChChunks[i] : i \in 1..n} BY <1>1 DEF ChPulled
  <2>2. PICK v : v \in ChFirsts \cup ChOthers /\ ((x \in Range(Expand(v)) /\ v \in ChFirsts) \/ x = <<v, 0>>)
    BY DEF ChHanded
  <2>3. PICK i \in 1..n : v = Head(ChChunks[i]) \/ v \in Range(Tail(ChChunks[i]))
    BY <2>1, <2>2 DEF ChFirsts, ChOthers
  <2>4. i \in DOMAIN ChChunks /\ i < k
    <3>1. DOMAIN ChChunks = 1..Len(ChChunks) /\ Len(ChChunks) \in Nat BY ChannelAssumption
    <3>2. QED BY <1>2, <1>3, <3>1
  <2>5. v \in Range(ChChunks[i]) /\ (v = Head(ChChunks[i]) => v \in QValues) BY <2>3, <2>4, ChChunkOf
  <2>6. v \in QValues
    <3>1. ChChunks[i] \in Seq(QValues) BY <2>4, ChChunkOf
    <3>2. QED BY <2>5, <3>1, RangeOf
  <2>7. x[1] = v
    <3>1. CASE x \in Range(Expand(v)) BY <2>6, <3>1, ChExpands
    <3>2. CASE x = <<v, 0>> BY <3>2
    <3>3. QED BY <2>2, <3>1, <3>2
  <2>8. QED BY <2>4, <2>5, <2>7
<1>5. ASSUME NEW x \in Range(g), NEW y, y[1] \in Range(ChChunks[k]) PROVE ChPulledBefore(x, y)
  BY <1>4, <1>5 DEF ChPulledBefore
<1>6. PICK f \in QValues : f = Head(ChChunks[k]) /\ f \in Range(ChChunks[k]) BY ChChunkOf
<1>7. PICK t \in Seq(QValues) : t = Tail(ChChunks[k]) /\ IsInjective(t) /\ Range(t) \subseteq Range(ChChunks[k])
  BY ChChunkOf
<1>8. \A y \in Range(Expand(f)) : y[1] \in Range(ChChunks[k]) BY <1>6, ChExpands
<1>9. \A y \in Range(Raw(t)) : y[1] \in Range(ChChunks[k])
  <2> SUFFICES ASSUME NEW y \in Range(Raw(t)) PROVE y[1] \in Range(ChChunks[k]) OBVIOUS
  <2>1. PICK v \in Range(t) : y = <<v, 0>> BY <1>7, ChRaws
  <2>2. y[1] = v BY <2>1
  <2>3. QED BY <1>7, <2>2
<1>10. QED BY <1>5, <1>6, <1>7, <1>8, <1>9 DEF ChAhead

\* A read of a stream returns an error.
LEMMA ChPullFailsOk == ASSUME ChannelIInv, NEW c \in QConsumers, ChPullFails(c) PROVE ChannelIInv'
<1>0. /\ ChannelTypeOK /\ ChSource /\ ChApart /\ ChReader(c) /\ ChStreamed(c)
      /\ chpend \in Seq(ChOutputs) /\ chhold \in [QConsumers -> Seq(ChOutputs)]
      /\ chgot \in [QConsumers -> Seq(ChOutputs)] /\ chreads \in [QConsumers -> Nat]
      /\ chat \in [QConsumers -> {"idle", "pending", "take", "expand", "push", "end"}]
  BY ChParts DEF ChannelTypeOK
<1>1. /\ chat[c] = "take" /\ chmode = "stream" /\ UNCHANGED qvars /\ chat' = [chat EXCEPT ![c] = "idle"]
      /\ chmode' = chmode /\ chacc' = chacc /\ chsnap' = chsnap /\ chgot' = chgot /\ chreads' = chreads
      /\ chpend' = chpend /\ chhold' = chhold /\ chsrc' = chsrc
  BY DEF ChPullFails, ChRest
<1>2. /\ QueueIInv' /\ ChWired' = ChWired
      /\ qtodo' = qtodo /\ qleft' = qleft /\ qcall' = qcall /\ qseen' = qseen
      /\ qkind' = qkind /\ qopen' = qopen /\ qbuf' = qbuf /\ qtake' = qtake /\ qgone' = qgone
  BY <1>1, ChQueueSame
<1>3. chhold[c] = <<>> /\ qtake[c].at = "idle" /\ chreads'[c] # 0 BY <1>0, <1>1, ChBegun DEF ChReader
<1>4. /\ chat' \in [QConsumers -> {"idle", "pending", "take", "expand", "push", "end"}]
      /\ chat'[c] = "idle" /\ \A d \in QConsumers \ {c} : chat'[d] = chat[d]
  BY <1>0, <1>1
<1>5. ChSource' BY <1>0, <1>1 DEF ChSource, ChChunk
<1>6. ChApart' BY <1>0, <1>1, <1>2, ChHandedStays, ChOutputsStay
<1>7. ChReader(c)' BY <1>0, <1>1, <1>2, <1>3, <1>4 DEF ChReader
<1>8. ChLinedUp(c)' BY <1>1 DEF ChLinedUp
<1>9. ChStreamed(c)'
  <2>1. \A d \in QConsumers : chreads[d] \in Nat /\ chreads'[d] \in Nat /\ chreads[d] <= chreads'[d]
    BY <1>0, <1>1
  <2>2. ChLine(c)' = ChLine(c) BY <1>1 DEF ChLine
  <2>3. QED BY <1>0, <1>1, <1>4, <2>1, <2>2, ChStreamStays
<1>10. \A d \in QConsumers \ {c} : /\ qtake'[d] = qtake[d] /\ chat'[d] = chat[d] /\ chhold'[d] = chhold[d]
                                   /\ chgot'[d] = chgot[d] /\ chreads'[d] = chreads[d]
  BY <1>1, <1>2, <1>4
<1>11. QED BY <1>0, <1>1, <1>2, <1>3, <1>4, <1>5, <1>6, <1>7, <1>8, <1>9, <1>10, ChReaderStep

\* A reader of a stream pulls a chunk, or meets the end of the stream.
LEMMA ChPullOk == ASSUME ChannelIInv, NEW c \in QConsumers, ChPull(c) PROVE ChannelIInv'
<1>0. /\ ChannelTypeOK /\ ChSource /\ ChApart /\ ChReader(c) /\ ChStreamed(c)
      /\ chpend \in Seq(ChOutputs) /\ chhold \in [QConsumers -> Seq(ChOutputs)]
      /\ chgot \in [QConsumers -> Seq(ChOutputs)] /\ chreads \in [QConsumers -> Nat]
      /\ chat \in [QConsumers -> {"idle", "pending", "take", "expand", "push", "end"}]
  BY ChParts DEF ChannelTypeOK
<1>1. /\ chat[c] = "take" /\ chmode = "stream" /\ UNCHANGED qvars
      /\ chmode' = chmode /\ chacc' = chacc /\ chsnap' = chsnap /\ chgot' = chgot /\ chreads' = chreads
  BY DEF ChPull, ChRest
<1>2. /\ QueueIInv' /\ ChWired' = ChWired
      /\ qtodo' = qtodo /\ qleft' = qleft /\ qcall' = qcall /\ qseen' = qseen
      /\ qkind' = qkind /\ qopen' = qopen /\ qbuf' = qbuf /\ qtake' = qtake /\ qgone' = qgone
  BY <1>1, ChQueueSame
<1>3. chhold[c] = <<>> /\ qtake[c].at = "idle" /\ chreads'[c] # 0 BY <1>0, <1>1, ChBegun DEF ChReader
<1>4. ChLinedUp(c)' BY <1>1 DEF ChLinedUp
<1>5. CASE chsrc = <<>>
  <2>1. /\ chat' = [chat EXCEPT ![c] = "end"] /\ chpend' = chpend /\ chhold' = chhold /\ chsrc' = chsrc
    BY <1>5 DEF ChPull
  <2>2. /\ chat' \in [QConsumers -> {"idle", "pending", "take", "expand", "push", "end"}]
        /\ chat'[c] = "end" /\ \A d \in QConsumers \ {c} : chat'[d] = chat[d]
    BY <1>0, <2>1
  <2>3. ChSource' BY <1>0, <1>1, <2>1 DEF ChSource, ChChunk
  <2>4. ChApart' BY <1>0, <1>1, <1>2, <2>1, ChHandedStays, ChOutputsStay
  <2>5. ChReader(c)' BY <1>0, <1>1, <1>2, <1>3, <2>1, <2>2 DEF ChReader
  <2>6. \A d \in QConsumers \ {c} : /\ qtake'[d] = qtake[d] /\ chat'[d] = chat[d] /\ chhold'[d] = chhold[d]
                                    /\ chgot'[d] = chgot[d] /\ chreads'[d] = chreads[d]
    BY <1>1, <1>2, <2>1, <2>2
  <2>7. ChStreamed(c)'
    <3> SUFFICES ASSUME ChAlone(c)' PROVE ChStreamed(c)' BY DEF ChStreamed
    <3>1. ChAlone(c) BY <1>1 DEF ChAlone
    <3>2. PICK line : line = ChLine(c) /\ line = ChLine(c)' BY <1>1, <2>1 DEF ChLine
    <3>3. ChTidy(line) /\ chpend = <<>> BY <1>0, <1>1, <3>1, <3>2 DEF ChStreamed
    <3>4. ChTidy(ChLine(c))' BY <3>2, <3>3 DEF ChTidy, ChPulledBefore
    <3>5. QED BY <1>5, <2>1, <2>2, <3>3, <3>4 DEF ChStreamed
  <2>8. QED BY <1>0, <1>1, <1>2, <1>3, <1>4, <2>1, <2>2, <2>3, <2>4, <2>5, <2>6, <2>7, ChReaderStep
<1>6. CASE chsrc # <<>>
  <2>1. /\ chsrc' = Tail(chsrc) /\ chpend' = chpend \o Raw(Tail(Head(chsrc)))
        /\ chhold' = [chhold EXCEPT ![c] = Expand(Head(Head(chsrc)))]
        /\ chat' = [chat EXCEPT ![c] = "expand"]
    BY <1>6 DEF ChPull
  <2>2. ChSource' BY <1>1, <1>6, <2>1, ChNextChunk
  <2>3. PICK k \in DOMAIN ChChunks :
          /\ Head(chsrc) = ChChunks[k]
          /\ ChHanded' = ChHanded \cup (Range(Expand(Head(ChChunks[k]))) \cup Range(Raw(Tail(ChChunks[k]))))
          /\ (Range(Expand(Head(ChChunks[k]))) \cup Range(Raw(Tail(ChChunks[k])))) \cap ChHanded = {}
    BY <1>1, <1>6, <2>1, ChNextChunk
  <2>4. PICK f \in QValues : f = Head(ChChunks[k]) BY ChChunkOf
  <2>5. PICK rest \in Seq(QValues) : rest = Tail(ChChunks[k]) /\ IsInjective(rest) BY ChChunkOf
  <2>6. PICK e \in Seq(ChOutputs) : e = Expand(f) /\ IsInjective(e) BY ChExpands
  <2>7. PICK r \in Seq(ChOutputs) : r = Raw(rest) /\ IsInjective(r) BY <2>5, ChRaws
  <2>8. Range(e) \cap Range(r) = {}
    <3> SUFFICES ASSUME NEW x \in Range(e), x \in Range(r) PROVE FALSE OBVIOUS
    <3>1. x[2] # 0 BY <2>6, ChExpands
    <3>2. PICK v \in Range(rest) : x = <<v, 0>> BY <2>5, <2>7, ChRaws
    <3>3. x[2] = 0 BY <3>2
    <3>4. QED BY <3>1, <3>3
  <2>9. ChHanded' = ChHanded \cup (Range(e) \cup Range(r)) /\ (Range(e) \cup Range(r)) \cap ChHanded = {}
    BY <2>3, <2>4, <2>5, <2>6, <2>7
  <2>10. chpend' = chpend \o r /\ chhold' = [chhold EXCEPT ![c] = e]
    BY <2>1, <2>3, <2>4, <2>5, <2>6, <2>7
  <2>11. /\ chhold' \in [QConsumers -> Seq(ChOutputs)] /\ chhold'[c] = e
         /\ \A d \in QConsumers \ {c} : chhold'[d] = chhold[d]
    BY <1>0, <2>10
  <2>12. /\ chat' \in [QConsumers -> {"idle", "pending", "take", "expand", "push", "end"}]
         /\ chat'[c] = "expand" /\ \A d \in QConsumers \ {c} : chat'[d] = chat[d]
    BY <1>0, <2>1
  <2>13. Range(chpend) \cup Range(chgot[c]) \subseteq ChHanded BY <1>0 DEF ChApart
  <2>14. IsInjective(chpend) /\ IsInjective(chgot[c]) /\ Range(chgot[c]) \cap Range(chpend) = {}
    BY <1>0 DEF ChApart
  <2>15. chpend' \in Seq(ChOutputs) /\ IsInjective(chpend') /\ Range(chpend') = Range(chpend) \cup Range(r)
    <3>1. Range(chpend) \cap Range(r) = {} BY <2>9, <2>13
    <3>2. chpend \in Seq(ChOutputs) /\ IsInjective(chpend) BY <1>0, <2>14
    <3>3. IsInjective(r) BY <2>7
    <3>4. /\ chpend \o r \in Seq(ChOutputs) /\ IsInjective(chpend \o r)
          /\ Range(chpend \o r) = Range(chpend) \cup Range(r)
      BY <3>1, <3>2, <3>3, ConcatOnce
    <3>5. QED BY <2>10, <3>4, Zenon
  <2>16. ChApart'
    <3>1. Range(chhold[c]) = {} BY <1>3, EmptyLine, Zenon
    <3>2. /\ Range(chhold'[c]) \cap Range(chpend') = {} /\ Range(chhold'[c]) \cap Range(chgot'[c]) = {}
          /\ Range(chgot'[c]) \cap Range(chpend') = {}
      BY <1>1, <2>8, <2>9, <2>11, <2>13, <2>14, <2>15
    <3>3. IsInjective(chpend') /\ IsInjective(chhold'[c]) /\ IsInjective(chgot'[c])
      BY <1>1, <2>6, <2>11, <2>14, <2>15
    <3>4. \A y : y \in Range(chpend') \cup Range(chhold'[c]) \cup Range(chgot'[c])
             <=> y \in Range(chpend) \cup Range(chhold[c]) \cup Range(chgot[c]) \cup (Range(e) \cup Range(r))
      BY <1>1, <2>11, <2>15, <3>1
    <3>5. \A d \in QConsumers \ {c} : chhold'[d] = chhold[d] /\ chgot'[d] = chgot[d] BY <1>1, <2>11
    <3>6. QED BY <1>0, <2>9, <3>2, <3>3, <3>4, <3>5, ChShuffle
  <2>17. ChReader(c)' BY <1>0, <1>1, <1>2, <1>3, <2>12 DEF ChReader
  <2>18. \A d \in QConsumers \ {c} : /\ qtake'[d] = qtake[d] /\ chat'[d] = chat[d] /\ chhold'[d] = chhold[d]
                                     /\ chgot'[d] = chgot[d] /\ chreads'[d] = chreads[d]
    BY <1>1, <1>2, <2>11, <2>12
  <2>19. ChStreamed(c)'
    <3> SUFFICES ASSUME ChAlone(c)' PROVE ChStreamed(c)' BY DEF ChStreamed
    <3>1. ChAlone(c) BY <1>1 DEF ChAlone
    <3>2. PICK g \in Seq(ChOutputs) : g = chgot[c] BY <1>0
    <3>3. chpend = <<>> BY <1>0, <1>1, <3>1 DEF ChStreamed
    <3>4. ChLine(c) = g
      <4>1. g \o <<>> = g BY ConcatEmptySeq
      <4>2. QED BY <1>3, <3>2, <3>3, <4>1, Zenon DEF ChLine
    <3>5. ChTidy(g) BY <1>0, <1>1, <3>1, <3>4 DEF ChStreamed
    <3>6. ChTidy(e) /\ ChTidy(r) /\ ChAhead(e, r) BY <2>4, <2>5, <2>6, <2>7, ChOneChunk
    <3>7. Range(g) \subseteq ChHanded BY <2>13, <3>2
    <3>8. ChAhead(g, e) /\ ChAhead(g, r)
      BY <1>1, <1>6, <2>1, <2>3, <2>4, <2>5, <2>6, <2>7, <3>7, ChOlderChunks
    <3>9. PICK ge \in Seq(ChOutputs) : ge = g \o e
      <4>1. g \o e \in Seq(ChOutputs) BY TwoParts
      <4>2. QED BY <4>1, Zenon
    <3>10. ChTidy(ge) /\ Range(ge) = Range(g) \cup Range(e)
      BY <3>5, <3>6, <3>8, <3>9, ChTidyWhole, PartsApart
    <3>11. ChAhead(ge, r) BY <3>6, <3>8, <3>10 DEF ChAhead
    <3>12. ChTidy(ge \o r) BY <3>6, <3>10, <3>11, ChTidyWhole
    <3>13. chpend' = r
      <4>1. <<>> \o r = r BY ConcatEmptySeq
      <4>2. QED BY <2>10, <3>3, <4>1
    <3>14. PICK line : line = ChLine(c)' OBVIOUS
    <3>15. line = ge \o r BY <1>1, <2>11, <3>2, <3>9, <3>13, <3>14 DEF ChLine
    <3>16. ChTidy(ChLine(c))'
      <4>1. ChTidy(line) BY <3>12, <3>15
      <4>2. \A i, j \in DOMAIN line : i < j => ChPulledBefore(line[i], line[j])
        BY <4>1, Zenon DEF ChTidy
      <4>3. QED BY <3>14, <4>2 DEF ChTidy, ChPulledBefore
    <3>17. chhold'[c] = Expand(Head(ChChunks[k])) /\ chpend' = Raw(Tail(ChChunks[k]))
      BY <2>4, <2>5, <2>6, <2>7, <2>11, <3>13
    <3>18. QED BY <2>12, <3>16, <3>17 DEF ChStreamed, Expand, Raw
  <2>20. QED BY <1>0, <1>1, <1>2, <1>3, <1>4, <2>2, <2>11, <2>12, <2>15, <2>16, <2>17, <2>18, <2>19, ChReaderStep
<1>7. QED BY <1>5, <1>6

\* The expansion was empty, or all of it but the first output goes to the list.
LEMMA ChExpandOk == ASSUME ChannelIInv, NEW c \in QConsumers, ChExpand(c) PROVE ChannelIInv'
<1>0. /\ ChannelTypeOK /\ ChSource /\ ChApart /\ ChReader(c) /\ ChLinedUp(c) /\ ChStreamed(c)
      /\ chpend \in Seq(ChOutputs) /\ chhold \in [QConsumers -> Seq(ChOutputs)]
      /\ chgot \in [QConsumers -> Seq(ChOutputs)] /\ chreads \in [QConsumers -> Nat]
      /\ chat \in [QConsumers -> {"idle", "pending", "take", "expand", "push", "end"}]
  BY ChParts DEF ChannelTypeOK
<1>1. /\ chat[c] = "expand" /\ UNCHANGED qvars
      /\ chmode' = chmode /\ chacc' = chacc /\ chsnap' = chsnap
      /\ chsrc' = chsrc /\ chgot' = chgot /\ chreads' = chreads
  BY DEF ChExpand, ChRest
<1>2. /\ QueueIInv' /\ ChWired' = ChWired
      /\ qtodo' = qtodo /\ qleft' = qleft /\ qcall' = qcall /\ qseen' = qseen
      /\ qkind' = qkind /\ qopen' = qopen /\ qbuf' = qbuf /\ qtake' = qtake /\ qgone' = qgone
  BY <1>1, ChQueueSame
<1>3. qtake[c].at = "idle" /\ chreads'[c] # 0 BY <1>0, <1>1, ChBegun DEF ChReader
<1>4. ChSource' BY <1>0, <1>1 DEF ChSource, ChChunk
<1>5. \A d \in QConsumers : chreads[d] \in Nat /\ chreads'[d] \in Nat /\ chreads[d] <= chreads'[d]
  BY <1>0, <1>1
<1>6. CASE chhold[c] = <<>>
  <2>1. chat' = [chat EXCEPT ![c] = "pending"] /\ chpend' = chpend /\ chhold' = chhold
    BY <1>6 DEF ChExpand
  <2>2. /\ chat' \in [QConsumers -> {"idle", "pending", "take", "expand", "push", "end"}]
        /\ chat'[c] = "pending" /\ \A d \in QConsumers \ {c} : chat'[d] = chat[d]
    BY <1>0, <2>1
  <2>3. ChApart' BY <1>0, <1>1, <1>2, <2>1, ChHandedStays, ChOutputsStay
  <2>4. ChReader(c)' BY <1>0, <1>1, <1>2, <1>3, <1>6, <2>1, <2>2 DEF ChReader
  <2>5. ChLinedUp(c)' /\ ChStreamed(c)'
    <3>1. ChLine(c)' = ChLine(c) BY <1>1, <2>1 DEF ChLine
    <3>2. ChLinedUp(c)' BY <1>0, <1>1, <1>2, <1>5, <2>1, <2>2, <3>1, ChOrderStays
    <3>3. ChStreamed(c)' BY <1>0, <1>1, <1>5, <2>2, <3>1, ChStreamStays
    <3>4. QED BY <3>2, <3>3
  <2>6. \A d \in QConsumers \ {c} : /\ qtake'[d] = qtake[d] /\ chat'[d] = chat[d] /\ chhold'[d] = chhold[d]
                                    /\ chgot'[d] = chgot[d] /\ chreads'[d] = chreads[d]
    BY <1>1, <1>2, <2>1, <2>2
  <2>7. QED BY <1>0, <1>1, <1>2, <1>3, <1>4, <2>1, <2>2, <2>3, <2>4, <2>5, <2>6, ChReaderStep
<1>7. CASE chhold[c] # <<>>
  <2>1. PICK h \in Seq(ChOutputs) : h = chhold[c] BY <1>0
  <2>2. /\ chat' = [chat EXCEPT ![c] = "push"] /\ chpend' = chpend \o Tail(h)
        /\ chhold' = [chhold EXCEPT ![c] = <<Head(h)>>] /\ h # <<>>
    BY <1>0, <1>7, <2>1 DEF ChExpand
  <2>3. /\ IsInjective(h) /\ IsInjective(chpend) /\ IsInjective(chgot[c])
        /\ Range(h) \cap Range(chpend) = {} /\ Range(chgot[c]) \cap Range(chpend) = {}
        /\ Range(h) \cap Range(chgot[c]) = {}
    BY <1>0, <2>1 DEF ChApart
  <2>4. PICK x : x = Head(h) OBVIOUS
  <2>5. PICK rest \in Seq(ChOutputs) : rest = Tail(h) BY <2>2, <2>3, TailOnce
  <2>6. x \in ChOutputs /\ x \in Range(h) /\ IsInjective(rest) /\ Range(rest) = Range(h) \ {x}
    BY <2>2, <2>3, <2>4, <2>5, TailOnce
  <2>7. PICK one \in Seq(ChOutputs) : one = <<x>>
    <3>1. <<x>> \in Seq(ChOutputs) BY <2>6
    <3>2. QED BY <3>1, Zenon
  <2>8. Len(one) = 1 /\ Range(one) = {x} /\ IsInjective(one)
    <3>1. DOMAIN one = {1} /\ one[1] = x /\ Len(one) = 1 BY <2>7
    <3>2. QED BY <3>1 DEF Range, IsInjective
  <2>9. /\ chhold' \in [QConsumers -> Seq(ChOutputs)] /\ chhold'[c] = one
        /\ \A d \in QConsumers \ {c} : chhold'[d] = chhold[d]
    BY <1>0, <2>2, <2>4, <2>7
  <2>10. /\ chat' \in [QConsumers -> {"idle", "pending", "take", "expand", "push", "end"}]
         /\ chat'[c] = "push" /\ \A d \in QConsumers \ {c} : chat'[d] = chat[d]
    BY <1>0, <2>2
  <2>11. chpend' \in Seq(ChOutputs) /\ IsInjective(chpend') /\ Range(chpend') = Range(chpend) \cup Range(rest)
    <3>1. Range(chpend) \cap Range(rest) = {} BY <2>3, <2>6
    <3>2. chpend \in Seq(ChOutputs) /\ IsInjective(chpend) /\ IsInjective(rest) BY <1>0, <2>3, <2>6
    <3>3. /\ chpend \o rest \in Seq(ChOutputs) /\ IsInjective(chpend \o rest)
          /\ Range(chpend \o rest) = Range(chpend) \cup Range(rest)
      BY <3>1, <3>2, ConcatOnce
    <3>4. QED BY <2>2, <2>5, <3>3, Zenon
  <2>12. ChApart'
    <3>1. ChHanded' = ChHanded \cup {} /\ {} \cap ChHanded = {} BY <1>1, <1>2, ChHandedStays
    <3>2. /\ Range(chhold'[c]) \cap Range(chpend') = {} /\ Range(chhold'[c]) \cap Range(chgot'[c]) = {}
          /\ Range(chgot'[c]) \cap Range(chpend') = {}
      BY <1>1, <2>3, <2>6, <2>8, <2>9, <2>11
    <3>3. IsInjective(chpend') /\ IsInjective(chhold'[c]) /\ IsInjective(chgot'[c])
      BY <1>1, <2>3, <2>8, <2>9, <2>11
    <3>4. \A y : y \in Range(chpend') \cup Range(chhold'[c]) \cup Range(chgot'[c])
             <=> y \in Range(chpend) \cup Range(chhold[c]) \cup Range(chgot[c]) \cup {}
      BY <1>1, <2>1, <2>6, <2>8, <2>9, <2>11
    <3>5. \A d \in QConsumers \ {c} : chhold'[d] = chhold[d] /\ chgot'[d] = chgot[d] BY <1>1, <2>9
    <3>6. QED BY <1>0, <3>1, <3>2, <3>3, <3>4, <3>5, ChShuffle
  <2>13. ChReader(c)' BY <1>0, <1>1, <1>2, <1>3, <2>8, <2>9, <2>10 DEF ChReader
  <2>14. ChLinedUp(c)'
    <3> SUFFICES ASSUME chmode # "stream", ChAlone(c)' PROVE ChLinedUp(c)' BY <1>1 DEF ChLinedUp
    <3>1. ChAlone(c) BY <1>1 DEF ChAlone
    <3>2. chpend = <<>> BY <1>0, <1>1, <3>1 DEF ChLinedUp
    <3>3. PICK g \in Seq(ChOutputs) : g = chgot[c] BY <1>0
    <3>4. PICK gh \in Seq(ChOutputs) : gh = g \o h
      <4>1. g \o h \in Seq(ChOutputs) BY TwoParts
      <4>2. QED BY <4>1, Zenon
    <3>5. gh \o <<>> = gh /\ <<>> \o rest = rest BY ConcatEmptySeq
    <3>6. Append(g, x) = g \o one BY <2>6, <2>7, AppendIsConcat
    <3>7. Append(g, x) \o rest = gh BY <2>2, <2>4, <2>5, <3>4, PartsMove
    <3>8. ChLine(c) = gh BY <2>1, <3>2, <3>3, <3>4, <3>5, Zenon DEF ChLine
    <3>9. chpend' = rest BY <2>2, <2>5, <3>2, <3>5
    <3>10. (chgot'[c] \o chhold'[c]) \o chpend' = gh BY <1>1, <2>9, <3>3, <3>6, <3>7, <3>9, Zenon
    <3>11. ChLine(c)' = ChLine(c) BY <3>8, <3>10 DEF ChLine
    <3>12. QED BY <1>0, <1>1, <1>2, <1>5, <2>10, <3>11, ChOrderStays
  <2>a. ChStreamed(c)'
    <3> SUFFICES ASSUME chmode = "stream", ChAlone(c)' PROVE ChTidy(ChLine(c))'
      BY <1>1, <2>10 DEF ChStreamed
    <3>1. ChAlone(c) BY <1>1 DEF ChAlone
    <3>2. PICK k \in DOMAIN ChChunks : h = Expand(Head(ChChunks[k])) /\ chpend = Raw(Tail(ChChunks[k]))
      BY <1>0, <1>1, <2>1, <3>1 DEF ChStreamed
    <3>3. PICK g \in Seq(ChOutputs) : g = chgot[c] BY <1>0
    <3>4. ChTidy((g \o h) \o chpend) BY <1>0, <2>1, <3>1, <3>3 DEF ChStreamed, ChLine
    <3>5. g \o h \in Seq(ChOutputs) BY TwoParts
    <3>6. ChTidy(g \o h) /\ ChAhead(g \o h, chpend) BY <1>0, <3>4, <3>5, ChTidyParts
    <3>7. ChTidy(g) /\ ChAhead(g, h) BY <3>6, ChTidyParts
    <3>8. ChAhead(g, chpend)
      <4>1. Range(g \o h) = Range(g) \cup Range(h) BY PartsApart
      <4>2. QED BY <3>6, <4>1 DEF ChAhead
    <3>9. /\ ChTidy(chpend) /\ ChTidy(one) /\ ChTidy(rest)
          /\ ChAhead(one, chpend) /\ ChAhead(one, rest) /\ ChAhead(chpend, rest)
      BY <2>2, <2>4, <2>5, <2>7, <3>2, ChOneChunk
    <3>10. ChAhead(g, one) /\ ChAhead(g, rest) BY <2>6, <2>8, <3>7 DEF ChAhead
    <3>11. PICK go \in Seq(ChOutputs) : go = g \o one
      <4>1. g \o one \in Seq(ChOutputs) BY TwoParts
      <4>2. QED BY <4>1, Zenon
    <3>12. ChTidy(go) /\ Range(go) = Range(g) \cup Range(one)
      BY <3>7, <3>9, <3>10, <3>11, ChTidyWhole, PartsApart
    <3>13. ChTidy(chpend') BY <1>0, <2>2, <2>5, <3>9, ChTidyWhole
    <3>14. ChAhead(go, chpend')
      <4>1. \A u \in Range(g), w \in Range(chpend) \cup Range(rest) : ChPulledBefore(u, w)
        BY <3>8, <3>10 DEF ChAhead
      <4>2. \A u \in Range(one), w \in Range(chpend) \cup Range(rest) : ChPulledBefore(u, w)
        BY <3>9 DEF ChAhead
      <4>3. QED BY <2>11, <3>12, <4>1, <4>2 DEF ChAhead
    <3>15. ChTidy(go \o chpend') BY <2>11, <3>12, <3>13, <3>14, ChTidyWhole
    <3>16. PICK line : line = ChLine(c)' OBVIOUS
    <3>17. line = go \o chpend' BY <1>1, <2>9, <3>3, <3>11, <3>16 DEF ChLine
    <3>18. ChTidy(line) BY <3>15, <3>17
    <3>19. QED BY <3>16, <3>18 DEF ChTidy, ChPulledBefore
  <2>15. \A d \in QConsumers \ {c} : /\ qtake'[d] = qtake[d] /\ chat'[d] = chat[d] /\ chhold'[d] = chhold[d]
                                     /\ chgot'[d] = chgot[d] /\ chreads'[d] = chreads[d]
    BY <1>1, <1>2, <2>9, <2>10
  <2>16. QED BY <1>0, <1>1, <1>2, <1>3, <1>4, <2>9, <2>10, <2>11, <2>12, <2>13, <2>14, <2>a, <2>15, ChReaderStep
<1>8. QED BY <1>6, <1>7

\* The read returns the output in its hand.
LEMMA ChReturnOk == ASSUME ChannelIInv, NEW c \in QConsumers, ChReturn(c) PROVE ChannelIInv'
<1>0. /\ ChannelTypeOK /\ ChSource /\ ChApart /\ ChReader(c) /\ ChLinedUp(c) /\ ChStreamed(c)
      /\ chpend \in Seq(ChOutputs) /\ chhold \in [QConsumers -> Seq(ChOutputs)]
      /\ chgot \in [QConsumers -> Seq(ChOutputs)] /\ chreads \in [QConsumers -> Nat]
      /\ chat \in [QConsumers -> {"idle", "pending", "take", "expand", "push", "end"}]
  BY ChParts DEF ChannelTypeOK
<1>1. PICK x : x = Head(chhold[c]) OBVIOUS
<1>2. /\ chat[c] = "push" /\ UNCHANGED qvars /\ chat' = [chat EXCEPT ![c] = "idle"]
      /\ chgot' = [chgot EXCEPT ![c] = Append(@, x)] /\ chhold' = [chhold EXCEPT ![c] = <<>>]
      /\ chmode' = chmode /\ chacc' = chacc /\ chsnap' = chsnap
      /\ chsrc' = chsrc /\ chpend' = chpend /\ chreads' = chreads
  BY <1>1 DEF ChReturn, ChRest
<1>3. /\ QueueIInv' /\ ChWired' = ChWired
      /\ qtodo' = qtodo /\ qleft' = qleft /\ qcall' = qcall /\ qseen' = qseen
      /\ qkind' = qkind /\ qopen' = qopen /\ qbuf' = qbuf /\ qtake' = qtake /\ qgone' = qgone
  BY <1>2, ChQueueSame
<1>4. qtake[c].at = "idle" /\ chreads'[c] # 0 /\ Len(chhold[c]) = 1 BY <1>0, <1>2, ChBegun DEF ChReader
<1>5. PICK h \in Seq(ChOutputs) : h = chhold[c] BY <1>0
<1>6. PICK g \in Seq(ChOutputs) : g = chgot[c] BY <1>0
<1>7. h = <<x>> /\ Range(h) = {x} /\ x \in ChOutputs
  <2>1. DOMAIN h = {1} /\ h[1] = x /\ x \in ChOutputs /\ h = <<x>> BY <1>1, <1>4, <1>5
  <2>2. QED BY <2>1 DEF Range
<1>8. /\ IsInjective(g) /\ IsInjective(chpend) /\ Range(h) \cap Range(chpend) = {}
      /\ Range(g) \cap Range(chpend) = {} /\ Range(h) \cap Range(g) = {}
  BY <1>0, <1>5, <1>6 DEF ChApart
<1>9. PICK n \in Seq(ChOutputs) : n = Append(g, x) BY <1>7, RangeAppend
<1>10. IsInjective(n) /\ Range(n) = Range(g) \cup {x}
  <2>1. x \in ChOutputs \ Range(g) BY <1>7, <1>8
  <2>2. QED BY <1>8, <1>9, <2>1, AppendOnce
<1>11. /\ chgot' \in [QConsumers -> Seq(ChOutputs)] /\ chgot'[c] = n
       /\ \A d \in QConsumers \ {c} : chgot'[d] = chgot[d]
  BY <1>0, <1>2, <1>6, <1>9
<1>12. /\ chhold' \in [QConsumers -> Seq(ChOutputs)] /\ chhold'[c] = <<>>
       /\ \A d \in QConsumers \ {c} : chhold'[d] = chhold[d]
  <2>1. <<>> \in Seq(ChOutputs) OBVIOUS
  <2>2. QED BY <1>0, <1>2, <2>1
<1>13. /\ chat' \in [QConsumers -> {"idle", "pending", "take", "expand", "push", "end"}]
       /\ chat'[c] = "idle" /\ \A d \in QConsumers \ {c} : chat'[d] = chat[d]
  BY <1>0, <1>2
<1>14. Range(chhold'[c]) = {} /\ IsInjective(chhold'[c]) BY <1>12, EmptyLine, Zenon
<1>15. ChApart'
  <2>1. ChHanded' = ChHanded \cup {} /\ {} \cap ChHanded = {} BY <1>2, <1>3, ChHandedStays
  <2>2. /\ Range(chhold'[c]) \cap Range(chpend') = {} /\ Range(chhold'[c]) \cap Range(chgot'[c]) = {}
        /\ Range(chgot'[c]) \cap Range(chpend') = {}
    BY <1>2, <1>7, <1>8, <1>10, <1>11, <1>14
  <2>3. IsInjective(chpend') /\ IsInjective(chhold'[c]) /\ IsInjective(chgot'[c])
    BY <1>2, <1>8, <1>10, <1>11, <1>14
  <2>4. \A y : y \in Range(chpend') \cup Range(chhold'[c]) \cup Range(chgot'[c])
           <=> y \in Range(chpend) \cup Range(chhold[c]) \cup Range(chgot[c]) \cup {}
    BY <1>2, <1>5, <1>6, <1>7, <1>10, <1>11, <1>14
  <2>5. \A d \in QConsumers \ {c} : chhold'[d] = chhold[d] /\ chgot'[d] = chgot[d] BY <1>11, <1>12
  <2>6. QED BY <1>0, <2>1, <2>2, <2>3, <2>4, <2>5, ChShuffle
<1>16. ChSource' BY <1>0, <1>2 DEF ChSource, ChChunk
<1>17. ChReader(c)' BY <1>0, <1>2, <1>3, <1>4, <1>12, <1>13 DEF ChReader
<1>18. ChLinedUp(c)' /\ ChStreamed(c)'
  <2>1. \A d \in QConsumers : chreads[d] \in Nat /\ chreads'[d] \in Nat /\ chreads[d] <= chreads'[d]
    BY <1>0, <1>2
  <2>2. ChLine(c)' = ChLine(c)
    <3>1. Append(g, x) = g \o <<x>> BY <1>7, AppendIsConcat
    <3>2. n \o <<>> = n BY ConcatEmptySeq
    <3>3. g \o h = n BY <1>7, <1>9, <3>1
    <3>4. ChLine(c) = n \o chpend BY <1>5, <1>6, <3>3, Zenon DEF ChLine
    <3>5. (chgot'[c] \o chhold'[c]) \o chpend' = n \o chpend BY <1>2, <1>11, <1>12, <3>2, Zenon
    <3>6. QED BY <3>4, <3>5 DEF ChLine
  <2>3. ChLinedUp(c)' BY <1>0, <1>2, <1>3, <1>13, <2>1, <2>2, ChOrderStays
  <2>4. ChStreamed(c)' BY <1>0, <1>2, <1>13, <2>1, <2>2, ChStreamStays
  <2>5. QED BY <2>3, <2>4
<1>19. \A d \in QConsumers \ {c} : /\ qtake'[d] = qtake[d] /\ chat'[d] = chat[d] /\ chhold'[d] = chhold[d]
                                   /\ chgot'[d] = chgot[d] /\ chreads'[d] = chreads[d]
  BY <1>2, <1>3, <1>11, <1>12, <1>13
<1>20. QED BY <1>0, <1>2, <1>3, <1>4, <1>11, <1>12, <1>13, <1>15, <1>16, <1>17, <1>18, <1>19, ChReaderStep

\* It holds at the start.
LEMMA ChannelInitOk == ChannelInit => ChannelIInv
<1> SUFFICES ASSUME ChannelInit PROVE ChannelIInv OBVIOUS
<1>1. /\ QueueInit /\ chmode \in ChModes /\ chpend = <<>> /\ chacc = <<>>
      /\ chsnap = [p \in QProducers |-> FALSE]
      /\ chsrc = IF chmode = "stream" THEN ChChunks ELSE <<>>
      /\ chat = [c \in QConsumers |-> "idle"] /\ chhold = [c \in QConsumers |-> <<>>]
      /\ chgot = [c \in QConsumers |-> <<>>] /\ chreads = [c \in QConsumers |-> 0]
      /\ qkind \in (IF chmode = "queue" THEN ChKinds ELSE {"unbounded"})
  BY DEF ChannelInit, ChannelStart
<1>2. /\ qopen = TRUE /\ qgone = <<>> /\ qseen = <<>> /\ qcall = [p \in QProducers |-> "none"]
      /\ qleft = [p \in QProducers |-> <<>>] /\ qtake = [c \in QConsumers |-> NoTake]
  BY <1>1 DEF QueueInit
<1>3. QueueIInv BY <1>1, QueueInitOk
<1>4. <<>> \in Seq(ChOutputs) /\ <<>> \in Seq(QValues) OBVIOUS
<1>5. ChannelTypeOK
  <2>1. QueueTypeOK BY <1>3 DEF QueueIInv
  <2>2. QED BY <1>1, <1>4, <2>1 DEF ChannelTypeOK
<1>6. ChChunks \in Seq(ChChunk) /\ Len(ChChunks) \in Nat BY ChannelAssumption DEF ChChunk
<1>7. ChSource
  <2>1. CASE chmode = "stream"
    <3>1. Len(ChChunks) - Len(chsrc) = 0 BY <1>1, <1>6, <2>1
    <3>2. \A k \in 1..Len(chsrc) : chsrc[k] = ChChunks[0 + k] BY <1>1, <1>6, <2>1
    <3>3. QED BY <1>1, <1>6, <2>1, <3>1, <3>2 DEF ChSource
  <2>2. CASE chmode # "stream"
    <3>1. chsrc = <<>> /\ <<>> \in Seq(ChChunk) BY <1>1, <2>2
    <3>2. QED BY <2>2, <3>1 DEF ChSource
  <2>3. QED BY <2>1, <2>2
<1>8. ChKind BY <1>1, <1>2 DEF ChKind
<1>9. \A p \in QProducers : ~chsnap[p] /\ qcall[p] = "none" /\ qleft[p] = <<>> /\ Range(qleft[p]) = {}
  BY <1>1, <1>2, EmptyLine
<1>10. Range(qseen) = {} /\ Range(qgone) = {} /\ Range(chpend) = {} /\ IsInjective(chpend)
  BY <1>1, <1>2, EmptyLine
<1>11. ChFolds
  <2>1. \A p \in QProducers : ~ChOwed(p) BY <1>9 DEF ChOwed
  <2>2. QED BY <1>1, <1>2, <1>10, <2>1 DEF ChFolds
<1>12. ASSUME NEW p \in QProducers PROVE ChWriter(p) BY <1>9 DEF ChWriter
<1>13. \A c \in QConsumers : /\ chhold[c] = <<>> /\ chgot[c] = <<>> /\ chat[c] = "idle"
                             /\ Range(chhold[c]) = {} /\ Range(chgot[c]) = {}
                             /\ IsInjective(chhold[c]) /\ IsInjective(chgot[c])
                             /\ qtake[c].at = "idle" /\ qtake[c].out = <<>> /\ Range(qtake[c].out) = {}
  BY <1>1, <1>2, EmptyLine DEF NoTake
<1>14. ChHanded = {}
  <2>1. CASE chmode = "stream"
    <3>1. Len(ChChunks) - Len(chsrc) = 0 BY <1>1, <1>6, <2>1
    <3>2. ChPulled = {} BY <3>1 DEF ChPulled
    <3>3. QED BY <2>1, <3>2 DEF ChHanded, ChFirsts, ChOthers
  <2>2. CASE chmode # "stream"
    <3>1. ChWired = {} BY <1>10 DEF ChWired
    <3>2. QED BY <2>2, <3>1 DEF ChHanded
  <2>3. QED BY <2>1, <2>2
<1>15. ChApart BY <1>10, <1>13, <1>14 DEF ChApart
<1>16. ASSUME NEW c \in QConsumers PROVE ChReader(c) /\ ChLinedUp(c) /\ ChStreamed(c)
  <2>1. ChReader(c) BY <1>13 DEF ChReader
  <2>2. ChLine(c) = <<>> BY <1>1, <1>13, EmptyLine DEF ChLine
  <2>3. DOMAIN ChLine(c) = {} BY <2>2
  <2>4. QED BY <1>13, <2>1, <2>3 DEF ChLinedUp, ChStreamed, ChTidy
<1>17. QED BY <1>3, <1>5, <1>7, <1>8, <1>11, <1>12, <1>15, <1>16 DEF ChannelIInv

\* Nothing is in two places.
LEMMA ChOnePlace ==
  ASSUME ChannelIInv, NEW x
  PROVE  Cardinality(ChPlaces(x)) = IF x \in ChHanded THEN 1 ELSE 0
<1>0. /\ ChApart /\ chpend \in Seq(ChOutputs) /\ chhold \in [QConsumers -> Seq(ChOutputs)]
      /\ chgot \in [QConsumers -> Seq(ChOutputs)]
  BY ChParts
<1> DEFINE onList(y) == \E j \in DOMAIN chpend : chpend[j] = x /\ y = <<"list", "pending", j>>
           inHand(c, y) == \E j \in DOMAIN chhold[c] : chhold[c][j] = x /\ y = <<c, "hold", j>>
           given(c, y) == \E j \in DOMAIN chgot[c] : chgot[c][j] = x /\ y = <<c, "got", j>>
<1>1. \A y : y \in ChPlaces(x) <=> onList(y) \/ (\E c \in QConsumers : inHand(c, y))
                                            \/ (\E c \in QConsumers : given(c, y))
  <2>1. \A y : y \in {<<"list", "pending", i>> : i \in {j \in DOMAIN chpend : chpend[j] = x}} <=> onList(y)
    OBVIOUS
  <2>2. \A y : y \in UNION {{<<c, "hold", i>> : i \in {j \in DOMAIN chhold[c] : chhold[c][j] = x}} :
                              c \in QConsumers}
           <=> \E c \in QConsumers : inHand(c, y)
    OBVIOUS
  <2>3. \A y : y \in UNION {{<<c, "got", i>> : i \in {j \in DOMAIN chgot[c] : chgot[c][j] = x}} :
                              c \in QConsumers}
           <=> \E c \in QConsumers : given(c, y)
    OBVIOUS
  <2> HIDE DEF onList, inHand, given
  <2>4. QED BY <2>1, <2>2, <2>3, Zenon DEF ChPlaces
<1>2. \A y : onList(y) => x \in Range(chpend) BY DEF Range
<1>3. \A c \in QConsumers : \A y : inHand(c, y) => x \in Range(chhold[c]) BY DEF Range
<1>4. \A c \in QConsumers : \A y : given(c, y) => x \in Range(chgot[c]) BY DEF Range
<1>5. x \in Range(chpend) => \E y : onList(y) BY DEF Range
<1>6. \A c \in QConsumers : x \in Range(chhold[c]) => \E y : inHand(c, y) BY DEF Range
<1>7. \A c \in QConsumers : x \in Range(chgot[c]) => \E y : given(c, y) BY DEF Range
<1>8. \A y, z : onList(y) /\ onList(z) => y = z BY <1>0 DEF ChApart, IsInjective
<1>9. \A c \in QConsumers : \A y, z : inHand(c, y) /\ inHand(c, z) => y = z BY <1>0 DEF ChApart, IsInjective
<1>10. \A c \in QConsumers : \A y, z : given(c, y) /\ given(c, z) => y = z BY <1>0 DEF ChApart, IsInjective
<1> HIDE DEF onList, inHand, given
<1>11. CASE x \notin ChHanded
  <2>1. /\ x \notin Range(chpend) /\ \A c \in QConsumers : x \notin Range(chhold[c]) /\ x \notin Range(chgot[c])
    BY <1>0, <1>11 DEF ChApart
  <2>2. ChPlaces(x) = {} BY <1>1, <1>2, <1>3, <1>4, <2>1
  <2>3. QED BY <1>11, <2>2, FS_EmptySet
<1>12. CASE x \in ChHanded
  <2>1. PICK y : ChPlaces(x) = {y}
    <3>1. CASE x \in Range(chpend)
      <4>1. \A c \in QConsumers : x \notin Range(chhold[c]) /\ x \notin Range(chgot[c])
        BY <1>0, <3>1 DEF ChApart
      <4>2. PICK y : onList(y) BY <1>5, <3>1
      <4>3. \A z : z \in ChPlaces(x) <=> z = y BY <1>1, <1>3, <1>4, <1>8, <4>1, <4>2
      <4>4. QED BY <4>3
    <3>2. ASSUME NEW c \in QConsumers, x \in Range(chhold[c]) PROVE \E y : ChPlaces(x) = {y}
      <4>1. /\ x \notin Range(chpend) /\ \A d \in QConsumers : x \notin Range(chgot[d])
            /\ \A d \in QConsumers : d # c => x \notin Range(chhold[d])
        BY <1>0, <3>2 DEF ChApart
      <4>2. PICK y : inHand(c, y) BY <1>6, <3>2
      <4>3. ASSUME NEW z PROVE z \in ChPlaces(x) <=> z = y
        <5>1. z \in ChPlaces(x) <=> \E d \in QConsumers : inHand(d, z) BY <1>1, <1>2, <1>4, <4>1
        <5>2. (\E d \in QConsumers : inHand(d, z)) <=> inHand(c, z) BY <1>3, <4>1
        <5>3. inHand(c, z) <=> z = y BY <1>9, <4>2
        <5>4. QED BY <5>1, <5>2, <5>3
      <4>4. QED BY <4>3
    <3>3. ASSUME NEW c \in QConsumers, x \in Range(chgot[c]) PROVE \E y : ChPlaces(x) = {y}
      <4>1. /\ x \notin Range(chpend) /\ \A d \in QConsumers : x \notin Range(chhold[d])
            /\ \A d \in QConsumers : d # c => x \notin Range(chgot[d])
        BY <1>0, <3>3 DEF ChApart
      <4>2. PICK y : given(c, y) BY <1>7, <3>3
      <4>3. ASSUME NEW z PROVE z \in ChPlaces(x) <=> z = y
        <5>1. z \in ChPlaces(x) <=> \E d \in QConsumers : given(d, z) BY <1>1, <1>2, <1>3, <4>1
        <5>2. (\E d \in QConsumers : given(d, z)) <=> given(c, z) BY <1>4, <4>1
        <5>3. given(c, z) <=> z = y BY <1>10, <4>2
        <5>4. QED BY <5>1, <5>2, <5>3
      <4>4. QED BY <4>3
    <3>4. x \in Range(chpend) \/ \E c \in QConsumers : x \in Range(chhold[c]) \cup Range(chgot[c])
      BY <1>0, <1>12 DEF ChApart
    <3>5. QED BY <3>1, <3>2, <3>3, <3>4
  <2>2. QED BY <1>12, <2>1, FS_Singleton
<1>13. QED BY <1>11, <1>12

\* What the inductive invariant says of the properties.
LEMMA ChannelGives == ChannelIInv => ChannelInv
<1> SUFFICES ASSUME ChannelIInv PROVE ChannelInv OBVIOUS
<1>0. /\ ChannelTypeOK /\ ChFolds /\ ChApart
      /\ (\A c \in QConsumers : ChReader(c) /\ ChLinedUp(c) /\ ChStreamed(c))
      /\ qseen \in Seq(QValues) /\ qtodo \in [QProducers -> Seq(QValues)] /\ QOnce
      /\ chpend \in Seq(ChOutputs) /\ chhold \in [QConsumers -> Seq(ChOutputs)]
      /\ chgot \in [QConsumers -> Seq(ChOutputs)] /\ (\A p \in QProducers : ChWriter(p))
  BY ChParts DEF QOnce, QueueTypeOK
<1>1. ChannelConserves BY ChOnePlace DEF ChannelConserves
<1>2. ASSUME NEW c \in QConsumers, ChAlone(c) PROVE Range(ChLine(c)) = ChHanded
  <2>1. Range(ChLine(c)) = Range(chgot[c]) \cup Range(chhold[c]) \cup Range(chpend)
    <3>1. PICK g \in Seq(ChOutputs) : g = chgot[c] BY <1>0
    <3>2. PICK h \in Seq(ChOutputs) : h = chhold[c] BY <1>0
    <3>3. PICK gh \in Seq(ChOutputs) : gh = g \o h
      <4>1. g \o h \in Seq(ChOutputs) BY TwoParts
      <4>2. QED BY <4>1, Zenon
    <3>4. Range(gh) = Range(g) \cup Range(h) BY <3>3, PartsApart
    <3>5. Range(gh \o chpend) = Range(gh) \cup Range(chpend) BY <1>0, PartsApart
    <3>6. ChLine(c) = gh \o chpend BY <3>1, <3>2, <3>3 DEF ChLine
    <3>7. QED BY <3>1, <3>2, <3>4, <3>5, <3>6
  <2>2. ASSUME NEW d \in QConsumers, d # c PROVE Range(chhold[d]) = {} /\ Range(chgot[d]) = {}
    <3>1. ChReader(d) /\ chreads[d] = 0 BY <1>0, <1>2, <2>2 DEF ChAlone
    <3>2. chhold[d] = <<>> /\ chgot[d] = <<>> BY <3>1 DEF ChReader
    <3>3. QED BY <3>2, EmptyLine, Zenon
  <2>3. \A x : x \in ChHanded <=> \/ x \in Range(chpend)
                                 \/ \E d \in QConsumers : x \in Range(chhold[d]) \cup Range(chgot[d])
    BY <1>0 DEF ChApart
  <2>4. \A x : x \in ChHanded <=> x \in Range(ChLine(c))
    <3> SUFFICES ASSUME NEW x PROVE x \in ChHanded <=> x \in Range(ChLine(c)) OBVIOUS
    <3>1. ASSUME NEW d \in QConsumers, x \in Range(chhold[d]) \cup Range(chgot[d]) PROVE d = c
      BY <2>2, <3>1
    <3>2. QED BY <2>1, <2>3, <3>1, Zenon
  <2>5. QED BY <2>4
<1>a. ASSUME NEW c \in QConsumers, ChAlone(c), chmode # "stream"
      PROVE  /\ \A i, j \in DOMAIN ChLine(c) : i < j => ChBefore(ChLine(c)[i], ChLine(c)[j])
             /\ chat[c] = "end" => qbuf = <<>> /\ chpend = <<>>
  BY <1>0, <1>a DEF ChLinedUp, ChReader
<1>b. ChannelInChunks BY <1>0, <1>2 DEF ChannelInChunks, ChStreamed, ChTidy
<1>3. ChannelInOrder BY <1>2, <1>a DEF ChannelInOrder
<1>4. ASSUME NEW p \in QProducers, chmode = "fold", Range(chacc) \subseteq Range(QOffers[p])
      PROVE  IsPrefix(qseen, chacc)
  <2>1. PICK s \in Seq(QValues) : s = qseen BY <1>0
  <2>2. Len(s) \in Nat BY <2>1
  <2>3. CASE ~ChOwed(p)
    <3>1. chacc = s BY <1>0, <1>4, <2>1, <2>3 DEF ChFolds
    <3>2. QED BY <2>1, <2>2, <3>1 DEF IsPrefix
  <2>4. CASE ChOwed(p)
    <3>1. chacc = Append(s, Head(qtodo[p])) BY <1>0, <1>4, <2>1, <2>4 DEF ChFolds
    <3>2. qtodo[p] # <<>> /\ qtodo[p] \in Seq(QValues) BY <1>0, <2>4 DEF ChOwed, ChWriter, QOnce
    <3>3. PICK h \in QValues : h = Head(qtodo[p]) BY <3>2
    <3>4. SubSeq(Append(s, h), 1, Len(s)) = SubSeq(s, 1, Len(s))
      <4>1. 1 \in Nat \ {0} /\ 1 <= Len(s) + 1 /\ Len(s) <= Len(s) BY <2>2
      <4>2. QED BY <2>2, <4>1, PartGrows
    <3>5. Len(Append(s, h)) = Len(s) + 1 OBVIOUS
    <3>6. QED BY <2>1, <2>2, <3>1, <3>3, <3>4, <3>5 DEF IsPrefix
  <2>5. QED BY <2>3, <2>4
<1>5. SnapshotsInOrder BY <1>4 DEF SnapshotsInOrder
<1>6. QED BY <1>0, <1>1, <1>3, <1>5, <1>b DEF ChannelInv

\* Every step keeps it.
LEMMA ChannelNextOk == ChannelIInv /\ [ChannelNext]_chvars => ChannelIInv'
<1> SUFFICES ASSUME ChannelIInv, [ChannelNext]_chvars PROVE ChannelIInv' OBVIOUS
<1>1. CASE UNCHANGED chvars
  <2>1. UNCHANGED qvars /\ UNCHANGED chown BY <1>1 DEF chvars
  <2>2. /\ QueueIInv' /\ qtake' = qtake /\ qopen' = qopen /\ qbuf' = qbuf /\ qgone' = qgone
        /\ qtodo' = qtodo /\ qleft' = qleft /\ qcall' = qcall /\ qseen' = qseen /\ qkind' = qkind
    BY <2>1, ChQueueSame
  <2>3. qdrop' = qdrop BY <2>1 DEF qvars
  <2>4. /\ chmode' = chmode /\ chacc' = chacc /\ chsnap' = chsnap
        /\ UNCHANGED <<chmode, chpend, chsrc, chat, chhold, chgot, chreads>>
    BY <2>1 DEF chown
  <2>5. /\ ChKind /\ ChFolds /\ (\A r \in QProducers : ChWriter(r))
        /\ chacc \in Seq(QValues) /\ chsnap \in [QProducers -> BOOLEAN]
    BY ChParts DEF ChannelTypeOK
  <2>6. ChKind' /\ ChFolds' /\ \A p \in QProducers : ChWriter(p)' BY <2>2, <2>4, <2>5, ChWritersStay
  <2>7. QED BY <2>2, <2>3, <2>4, <2>5, <2>6, ChQueueStep
<1>2. ASSUME NEW p \in QProducers,
             ChFold(p) \/ ChWrite(p) \/ ChRetry(p) \/ (QProduce(p) /\ UNCHANGED chown)
      PROVE  ChannelIInv'
  BY <1>2, ChFoldOk, ChWriteOk, ChRetryOk, ChStoreOk, ChRefuseOk, ChSignalOk DEF QProduce
<1>3. ASSUME NEW c \in QConsumers,
             \/ ChRead(c) \/ ChDrain(c) \/ ChTake(c) \/ ChTaken(c)
             \/ ChPull(c) \/ ChPullFails(c) \/ ChExpand(c) \/ ChReturn(c)
      PROVE  ChannelIInv'
  <2>1. CASE ChTake(c) BY <2>1, ChMoveOk DEF ChTake
  <2>2. QED BY <1>3, <2>1, ChReadOk, ChDryOk, ChDrainOk, ChTakenOk, ChToldOk, ChPullOk,
         ChPullFailsOk, ChExpandOk, ChReturnOk
<1>4. ASSUME NEW c \in QConsumers, QConsume(c) /\ UNCHANGED chown PROVE ChannelIInv'
  <2>1. qtake[c].at # "drain" BY ChParts DEF ChReader
  <2>2. CASE QRecv(c) /\ QPop(c) BY <1>4, <2>2, ChPopOk
  <2>3. CASE QRecv(c) /\ QFail(c) BY <1>4, <2>3, ChFailOk
  <2>4. CASE QRecv(c) /\ QLook(c) BY <1>4, <2>4, ChMoveOk DEF QRecv
  <2>5. CASE QNotified(c) BY <1>4, <2>5, ChMoveOk
  <2>6. QED BY <1>4, <2>1, <2>2, <2>3, <2>4, <2>5 DEF QConsume, QRecv, QTryRecv
<1>5. CASE chmode = "queue" /\ (QShutdown \/ QShutdownNotify) /\ UNCHANGED chown BY <1>5, ChSignalOk
<1>6. QED BY <1>1, <1>2, <1>3, <1>4, <1>5 DEF ChannelNext

\* Every output of every element that left the queue is in one place, and so are those of the
\* first element of each chunk pulled from a stream and the chunk's other elements, which are
\* not expanded; a reader that is alone gets all of them in the order of the writes, expansion
\* by expansion, or chunk by chunk, whichever reads fail; and a writer that is alone enqueues its snapshots in the order of its writes: for any number of
\* writers and readers, every kind of queue, every capacity, any expansion and any stream
\* (coordination/channel.rs over queue.rs).
THEOREM ChannelInvariant == ChannelSpec => []ChannelInv
BY ChannelInitOk, ChannelNextOk, ChannelGives, PTL DEF ChannelSpec

(***************************************************************************)
(* Publish/subscribe.                                                      *)
(***************************************************************************)

\* seen is picked from the places from..upto of log, in order.
PsPicked(seen, log, from, upto) ==
  /\ \A i \in DOMAIN seen : \E a \in from..upto : log[a] = seen[i]
  /\ \A i, j \in DOMAIN seen : i < j =>
       \E a, b \in from..upto : a < b /\ log[a] = seen[i] /\ log[b] = seen[j]

PsTyped == PubSubTypeOK /\ psstart \in [PsSubs -> Nat]

\* A message is sent once.
PsLogged ==
  /\ IsInjective(pslog)
  /\ \A p \in PsPublishers : /\ IsInjective(pstodo[p])
                             /\ Range(pstodo[p]) \subseteq Range(PsMessages[p])
                             /\ Range(pstodo[p]) \cap Range(pslog) = {}

\* No receiver of a hub that refuses is further behind than the capacity.
PsNear ==
  psmode \in {"bounded", "dropping"} => \A s \in PsAlive : PsLag(s) <= PsCapacity

\* One subscription: nothing is given before there is a receiver; the task has a message
\* only while it offers it; what was given was picked from the log between the start and
\* the receiver, all of it unless the queue is shut or the receiver has lagged; and the
\* finalizer aborts the task before it shuts the queue.
PsOne(s) ==
  /\ psat[s] = "no" => psnext[s] = 0
  /\ psat[s] = "receiver" => psnext[s] > 0
  /\ psat[s] \in {"no", "receiver"} => psfwd[s] = "none"
  /\ psnext[s] = 0 => psq[s] = <<>> /\ psheld[s] = <<>> /\ psfwd[s] = "none"
  /\ psnext[s] > 0 => psstart[s] \in 1..psnext[s] /\ psnext[s] <= Len(pslog) + 1
  /\ psfwd[s] # "offer" => psheld[s] = <<>>
  /\ PsPicked(PsSeen(s), pslog, psstart[s], psnext[s] - 1)
  /\ psscope[s] = "queue" \/ (psscope[s] = "closed" /\ psfin[s]) => psabort[s]
  /\ psnext[s] > 0 /\ psqopen[s] /\ s \notin pslagged =>
        PsSeen(s) = SubSeq(pslog, psstart[s], psnext[s] - 1)

\* The inductive invariant.
PubSubIInv == PsTyped /\ PsLogged /\ PsNear /\ OnlySlidingLags /\ \A s \in PsSubs : PsOne(s)

\* Picking goes on as the log, the reader and what was picked grow.
LEMMA PickedLog ==
  ASSUME NEW V, NEW log \in Seq(V), NEW v \in V, NEW seen, NEW from \in Nat, NEW upto \in Int,
         from..upto \subseteq 1..Len(log), PsPicked(seen, log, from, upto)
  PROVE  PsPicked(seen, Append(log, v), from, upto)
<1>1. \A a \in from..upto : Append(log, v)[a] = log[a] OBVIOUS
<1>2. PICK grown : grown = Append(log, v) OBVIOUS
<1>3. \A a \in from..upto : grown[a] = log[a] BY <1>1, <1>2
<1>4. PsPicked(seen, grown, from, upto) BY <1>3 DEF PsPicked
<1>5. QED BY <1>2, <1>4

\* What was picked from a part of the log was picked from a longer part.
LEMMA PickedUpto ==
  ASSUME NEW seen, NEW log, NEW from \in Nat, NEW upto \in Int, NEW more \in Int, upto <= more,
         PsPicked(seen, log, from, upto)
  PROVE  PsPicked(seen, log, from, more)
<1>1. from..upto \subseteq from..more OBVIOUS
<1>2. QED BY <1>1 DEF PsPicked

\* The next item of the log is picked.
LEMMA PickedNext ==
  ASSUME NEW V, NEW log, NEW seen \in Seq(V), NEW from \in Nat, NEW upto \in Int,
         from <= upto + 1, log[upto + 1] \in V, PsPicked(seen, log, from, upto)
  PROVE  PsPicked(Append(seen, log[upto + 1]), log, from, upto + 1)
<1>1. PICK more : more = Append(seen, log[upto + 1]) OBVIOUS
<1>2. /\ Len(seen) \in Nat /\ DOMAIN seen = 1..Len(seen) /\ DOMAIN more = 1..Len(seen) + 1
      /\ more[Len(seen) + 1] = log[upto + 1] /\ \A i \in 1..Len(seen) : more[i] = seen[i]
  BY <1>1
<1>3. from..upto \subseteq from..upto + 1 /\ upto + 1 \in from..upto + 1 OBVIOUS
<1>4. ASSUME NEW i \in DOMAIN more PROVE \E a \in from..upto + 1 : log[a] = more[i]
  <2>1. CASE i = Len(seen) + 1 BY <2>1, <1>2, <1>3
  <2>2. CASE i # Len(seen) + 1
    <3>1. i \in DOMAIN seen /\ more[i] = seen[i] BY <2>2, <1>2
    <3>2. QED BY <3>1, <1>3 DEF PsPicked
  <2>3. QED BY <2>1, <2>2
<1>5. ASSUME NEW i \in DOMAIN more, NEW j \in DOMAIN more, i < j
      PROVE  \E a, b \in from..upto + 1 : a < b /\ log[a] = more[i] /\ log[b] = more[j]
  <2>1. i \in DOMAIN seen /\ more[i] = seen[i] BY <1>2, <1>5
  <2>2. CASE j = Len(seen) + 1
    <3>1. PICK a \in from..upto : log[a] = seen[i] BY <2>1 DEF PsPicked
    <3>2. a < upto + 1 BY <3>1
    <3>3. QED BY <2>1, <2>2, <3>1, <3>2, <1>2, <1>3
  <2>3. CASE j # Len(seen) + 1
    <3>1. j \in DOMAIN seen /\ more[j] = seen[j] BY <2>3, <1>2
    <3>2. PICK a \in from..upto, b \in from..upto : a < b /\ log[a] = seen[i] /\ log[b] = seen[j]
      BY <2>1, <3>1, <1>5 DEF PsPicked
    <3>3. QED BY <2>1, <3>1, <3>2, <1>3
  <2>4. QED BY <2>2, <2>3
<1>6. PsPicked(more, log, from, upto + 1) BY <1>4, <1>5 DEF PsPicked
<1>7. QED BY <1>1, <1>6

\* The first of the picked items are picked as well.
LEMMA PickedPart ==
  ASSUME NEW V, NEW q \in Seq(V), NEW held \in Seq(V), NEW log, NEW from, NEW upto,
         PsPicked(q \o held, log, from, upto)
  PROVE  PsPicked(q, log, from, upto)
<1>1. PICK seen : seen = q \o held OBVIOUS
<1>2. \A i \in DOMAIN q : i \in DOMAIN seen /\ seen[i] = q[i]
  BY <1>1, TwoParts
<1>3. PsPicked(seen, log, from, upto) BY <1>1
<1>4. \A i \in DOMAIN q : \E a \in from..upto : log[a] = q[i] BY <1>2, <1>3 DEF PsPicked
<1>5. \A i, j \in DOMAIN q : i < j =>
        \E a, b \in from..upto : a < b /\ log[a] = q[i] /\ log[b] = q[j]
  <2> SUFFICES ASSUME NEW i \in DOMAIN q, NEW j \in DOMAIN q, i < j
               PROVE  \E a, b \in from..upto : a < b /\ log[a] = q[i] /\ log[b] = q[j]
    OBVIOUS
  <2>1. \E a, b \in from..upto : a < b /\ log[a] = seen[i] /\ log[b] = seen[j]
    BY <1>2, <1>3 DEF PsPicked
  <2>2. QED BY <2>1, <1>2
<1>6. QED BY <1>4, <1>5 DEF PsPicked

\* Nothing is picked from anything.
LEMMA PickedNone == ASSUME NEW log, NEW from, NEW upto PROVE PsPicked(<<>>, log, from, upto)
<1>1. DOMAIN <<>> = {} OBVIOUS
<1>2. QED BY <1>1 DEF PsPicked

\* The message that a publisher sends next is new, and then it is gone.
LEMMA PsHead ==
  ASSUME PsTyped, PsLogged, NEW p \in PsPublishers, pstodo[p] # <<>>,
         pstodo' = [pstodo EXCEPT ![p] = Tail(@)]
  PROVE  /\ Head(pstodo[p]) \in PsValues \ Range(pslog)
         /\ pstodo' \in [PsPublishers -> Seq(PsValues)]
         /\ \A r \in PsPublishers : /\ IsInjective(pstodo'[r])
                                    /\ Range(pstodo'[r]) \subseteq Range(PsMessages[r])
                                    /\ Range(pstodo'[r]) \cap Range(pslog) = {}
                                    /\ Head(pstodo[p]) \notin Range(pstodo'[r])
<1>1. pstodo \in [PsPublishers -> Seq(PsValues)] BY DEF PsTyped, PubSubTypeOK
<1>2. PICK t \in Seq(PsValues) : t = pstodo[p] BY <1>1
<1>3. IsInjective(t) /\ t # <<>> /\ Range(t) \subseteq Range(PsMessages[p]) /\ Range(t) \cap Range(pslog) = {}
  BY <1>2 DEF PsLogged
<1>4. /\ Tail(t) \in Seq(PsValues) /\ Head(t) \in PsValues /\ Head(t) \in Range(t)
      /\ IsInjective(Tail(t)) /\ Range(Tail(t)) = Range(t) \ {Head(t)}
  BY <1>3, TailOnce
<1>5. pstodo' = [pstodo EXCEPT ![p] = Tail(t)] BY <1>2
<1>6. pstodo' \in [PsPublishers -> Seq(PsValues)] BY <1>1, <1>4, <1>5
<1>7. ASSUME NEW r \in PsPublishers
      PROVE  /\ IsInjective(pstodo'[r]) /\ Range(pstodo'[r]) \subseteq Range(PsMessages[r])
             /\ Range(pstodo'[r]) \cap Range(pslog) = {} /\ Head(t) \notin Range(pstodo'[r])
  <2>1. CASE r = p
    <3>1. pstodo'[r] = Tail(t) BY <2>1, <1>1, <1>5
    <3>2. QED BY <3>1, <2>1, <1>3, <1>4
  <2>2. CASE r # p
    <3>1. pstodo'[r] = pstodo[r] BY <2>2, <1>1, <1>5
    <3>2. IsInjective(pstodo[r]) /\ Range(pstodo[r]) \subseteq Range(PsMessages[r])
          /\ Range(pstodo[r]) \cap Range(pslog) = {}
      BY DEF PsLogged
    <3>3. Range(PsMessages[p]) \cap Range(PsMessages[r]) = {} BY <2>2, PubSubAssumption
    <3>4. Head(t) \notin Range(pstodo[r]) BY <3>2, <3>3, <1>3, <1>4
    <3>5. QED BY <3>1, <3>2, <3>4
  <2>3. QED BY <2>1, <2>2
<1>8. QED BY <1>2, <1>3, <1>4, <1>6, <1>7

\* A hub with room has no receiver that is capacity messages behind.
LEMMA PsRoomNear ==
  ASSUME PsTyped, PsRoom, psmode \in {"bounded", "dropping"}, \A s \in PsSubs : PsOne(s),
         NEW s \in PsAlive
  PROVE  PsLag(s) \in Nat /\ PsLag(s) < PsCapacity
<1>1. Len(pslog) \in Nat /\ psnext \in [PsSubs -> Nat] BY DEF PsTyped, PubSubTypeOK
<1>2. PICK T : T = {PsLag(u) : u \in PsAlive} \cup {0} OBVIOUS
<1>3. \A u \in PsAlive : PsLag(u) \in 0..Len(pslog)
  <2> SUFFICES ASSUME NEW u \in PsAlive PROVE PsLag(u) \in 0..Len(pslog) OBVIOUS
  <2>1. u \in PsSubs /\ psnext[u] > 0 /\ psnext[u] \in Nat BY <1>1 DEF PsAlive
  <2>2. psnext[u] <= Len(pslog) + 1 BY <2>1 DEF PsOne
  <2>3. QED BY <1>1, <2>1, <2>2 DEF PsLag
<1>4. T \in SUBSET (0..Len(pslog)) /\ T # {} BY <1>1, <1>2, <1>3
<1>5. Max(T) \in T /\ \A y \in T : y <= Max(T) BY <1>1, <1>4, GreatestOf
<1>6. (IF Max(T) > PsPlaces THEN PsPlaces ELSE Max(T)) < PsCapacity BY <1>2 DEF PsRoom, PsLen
<1>7. PsPlaces = PsRing BY DEF PsPlaces
<1>8. Max(T) < PsCapacity BY <1>4, <1>5, <1>6, <1>7, PubSubAssumption
<1>9. PsLag(s) <= Max(T) /\ PsLag(s) \in Nat BY <1>2, <1>3, <1>5
<1>10. Max(T) \in Nat /\ PsCapacity \in Nat BY <1>4, <1>5, PubSubAssumption
<1>11. QED BY <1>8, <1>9, <1>10

\* A message is published to the subscribers of the moment.
LEMMA PsPublishOk == ASSUME PubSubIInv, NEW p \in PsPublishers, Publish(p) PROVE PubSubIInv'
<1>1. PsTyped /\ PsLogged /\ PsNear /\ OnlySlidingLags /\ \A s \in PsSubs : PsOne(s)
  BY DEF PubSubIInv
<1>2. pstodo[p] # <<>> /\ pstodo' = [pstodo EXCEPT ![p] = Tail(@)] BY DEF Publish
<1>3. PICK v : v = Head(pstodo[p]) OBVIOUS
<1>4. /\ v \in PsValues \ Range(pslog) /\ pstodo' \in [PsPublishers -> Seq(PsValues)]
      /\ \A r \in PsPublishers : /\ IsInjective(pstodo'[r])
                                 /\ Range(pstodo'[r]) \subseteq Range(PsMessages[r])
                                 /\ Range(pstodo'[r]) \cap Range(pslog) = {}
                                 /\ v \notin Range(pstodo'[r])
  BY <1>1, <1>2, <1>3, PsHead
<1>5. /\ psmode' = psmode /\ pstx' = pstx /\ pspump' = pspump /\ psat' = psat /\ psnext' = psnext
      /\ psfwd' = psfwd /\ psheld' = psheld /\ psabort' = psabort /\ psscope' = psscope
      /\ psfin' = psfin /\ psq' = psq /\ psqopen' = psqopen /\ psstart' = psstart
      /\ pslagged' = pslagged
  BY DEF Publish, pssub
<1>6. /\ pslog \in Seq(PsValues) /\ Len(pslog) \in Nat /\ psnext \in [PsSubs -> Nat]
      /\ psstart \in [PsSubs -> Nat]
  BY <1>1 DEF PsTyped, PubSubTypeOK
<1>7. PsAlive' = PsAlive BY <1>5 DEF PsAlive
<1>8. OnlySlidingLags' BY <1>1, <1>5 DEF OnlySlidingLags
<1>9. CASE pslog' = Append(pslog, v) /\ psleft' = psleft /\ PsRoom
  <2>1. /\ pslog' \in Seq(PsValues) /\ IsInjective(pslog') /\ Range(pslog') = Range(pslog) \cup {v}
    BY <1>1, <1>4, <1>6, <1>9, AppendOnce DEF PsLogged
  <2>2. Len(pslog') = Len(pslog) + 1 BY <1>6, <1>9
  <2>3. PsTyped' BY <1>1, <1>4, <1>5, <1>9, <2>1 DEF PsTyped, PubSubTypeOK
  <2>4. PsLogged' BY <1>4, <2>1 DEF PsLogged
  <2>5. PsNear'
    <3> SUFFICES ASSUME psmode \in {"bounded", "dropping"}, NEW s \in PsAlive
                 PROVE  PsLag(s)' <= PsCapacity
      BY <1>5, <1>7 DEF PsNear
    <3>1. PsLag(s) \in Nat /\ PsLag(s) < PsCapacity BY <1>1, <1>9, PsRoomNear
    <3>2. s \in PsSubs /\ psnext[s] \in Nat BY <1>6 DEF PsAlive
    <3>3. PsLag(s)' = PsLag(s) + 1 BY <1>5, <1>6, <2>2, <3>2 DEF PsLag
    <3>4. QED BY <3>1, <3>3, PubSubAssumption
  <2>6. ASSUME NEW s \in PsSubs PROVE PsOne(s)'
    <3>1. PsOne(s) /\ psnext[s] \in Nat /\ psstart[s] \in Nat /\ psnext[s] - 1 \in Int BY <1>1, <1>6
    <3>2. PsSeen(s)' = PsSeen(s) BY <1>5 DEF PsSeen
    <3>3. psstart[s]..psnext[s] - 1 \subseteq 1..Len(pslog) BY <3>1, <1>6 DEF PsOne
    <3>4. PsPicked(PsSeen(s), pslog, psstart[s], psnext[s] - 1) BY <3>1 DEF PsOne
    <3>5. PsPicked(PsSeen(s), Append(pslog, v), psstart[s], psnext[s] - 1)
      BY <1>4, <1>6, <3>1, <3>3, <3>4, PickedLog
    <3>6. PsPicked(PsSeen(s), pslog, psstart[s], psnext[s] - 1)' BY <3>2, <3>5, <1>5, <1>9
    <3>7. psnext[s] > 0 => psstart[s] \in 1..psnext[s] /\ psnext[s] <= Len(pslog') + 1
      BY <3>1, <2>2, <1>6 DEF PsOne
    <3>8. psnext[s] > 0 => SubSeq(pslog', psstart[s], psnext[s] - 1) = SubSeq(pslog, psstart[s], psnext[s] - 1)
      <4> SUFFICES ASSUME psnext[s] > 0
                   PROVE  SubSeq(pslog', psstart[s], psnext[s] - 1) = SubSeq(pslog, psstart[s], psnext[s] - 1)
        OBVIOUS
      <4>1. /\ psstart[s] \in Nat \ {0} /\ psnext[s] - 1 \in Nat /\ psstart[s] <= (psnext[s] - 1) + 1
            /\ psnext[s] - 1 <= Len(pslog)
        BY <3>1, <1>6 DEF PsOne
      <4>2. PICK from \in Nat \ {0}, upto \in Nat : from = psstart[s] /\ upto = psnext[s] - 1 BY <4>1
      <4>3. from <= upto + 1 /\ upto <= Len(pslog) BY <4>1, <4>2
      <4>4. SubSeq(Append(pslog, v), from, upto) = SubSeq(pslog, from, upto)
        BY <4>3, <1>4, <1>6, PartGrows
      <4>5. QED BY <4>2, <4>4, <1>9, Zenon
    <3>9. /\ (psat[s] = "no" => psnext[s] = 0) /\ (psat[s] = "receiver" => psnext[s] > 0)
          /\ (psat[s] \in {"no", "receiver"} => psfwd[s] = "none")
          /\ (psnext[s] = 0 => psq[s] = <<>> /\ psheld[s] = <<>> /\ psfwd[s] = "none")
          /\ (psfwd[s] # "offer" => psheld[s] = <<>>)
          /\ (psscope[s] = "queue" \/ (psscope[s] = "closed" /\ psfin[s]) => psabort[s])
          /\ (psnext[s] > 0 /\ psqopen[s] /\ s \notin pslagged =>
                PsSeen(s) = SubSeq(pslog', psstart[s], psnext[s] - 1))
      BY <3>1, <3>8 DEF PsOne
    <3>10. QED BY <1>5, <3>2, <3>6, <3>7, <3>9 DEF PsOne
  <2>7. QED BY <2>3, <2>4, <2>5, <2>6, <1>8 DEF PubSubIInv
<1>10. CASE pslog' = pslog /\ psleft' = psleft \cup {v}
  <2>1. PsTyped' BY <1>1, <1>4, <1>5, <1>10 DEF PsTyped, PubSubTypeOK
  <2>2. PsLogged' BY <1>1, <1>4, <1>10 DEF PsLogged
  <2>3. PsNear' BY <1>1, <1>5, <1>7, <1>10 DEF PsNear, PsLag
  <2>4. \A s \in PsSubs : PsOne(s)' BY <1>1, <1>5, <1>10 DEF PsOne, PsSeen
  <2>5. QED BY <2>1, <2>2, <2>3, <2>4, <1>8 DEF PubSubIInv
<1>11. QED BY <1>3, <1>9, <1>10 DEF Publish

\* A step of one subscription leaves the others alone.
PsOthers(s) ==
  \A u \in PsSubs \ {s} :
     /\ psat'[u] = psat[u] /\ psnext'[u] = psnext[u] /\ psfwd'[u] = psfwd[u]
     /\ psheld'[u] = psheld[u] /\ psabort'[u] = psabort[u] /\ psscope'[u] = psscope[u]
     /\ psfin'[u] = psfin[u] /\ psq'[u] = psq[u] /\ psqopen'[u] = psqopen[u]
     /\ psstart'[u] = psstart[u] /\ (u \in pslagged' <=> u \in pslagged)

\* A step of one subscription leaves the others and the hub as they are.
LEMMA PsLocal ==
  ASSUME PubSubIInv, NEW s \in PsSubs, pshub' = pshub, PsOthers(s), PsTyped', PsOne(s)',
         OnlySlidingLags',
         psmode \in {"bounded", "dropping"} /\ s \in PsAlive' => PsLag(s)' <= PsCapacity
  PROVE  PubSubIInv'
<1>1. PsTyped /\ PsLogged /\ PsNear /\ \A u \in PsSubs : PsOne(u) BY DEF PubSubIInv
<1>2. pslog' = pslog /\ psmode' = psmode /\ pstodo' = pstodo BY DEF pshub
<1>3. PsLogged' BY <1>1, <1>2 DEF PsLogged
<1>4. ASSUME NEW u \in PsSubs \ {s} PROVE PsOne(u)'
  <2>1. PsOne(u) BY <1>1
  <2>2. /\ psat'[u] = psat[u] /\ psnext'[u] = psnext[u] /\ psfwd'[u] = psfwd[u]
        /\ psheld'[u] = psheld[u] /\ psabort'[u] = psabort[u] /\ psscope'[u] = psscope[u]
        /\ psfin'[u] = psfin[u] /\ psq'[u] = psq[u] /\ psqopen'[u] = psqopen[u]
        /\ psstart'[u] = psstart[u] /\ (u \in pslagged' <=> u \in pslagged)
    BY DEF PsOthers
  <2>3. PsSeen(u)' = PsSeen(u) BY <2>2 DEF PsSeen
  <2>4. QED BY <1>2, <2>1, <2>2, <2>3 DEF PsOne
<1>5. PsNear'
  <2> SUFFICES ASSUME psmode \in {"bounded", "dropping"}, NEW u \in PsAlive'
               PROVE  PsLag(u)' <= PsCapacity
    BY <1>2 DEF PsNear
  <2>1. CASE u = s BY <2>1
  <2>2. CASE u # s
    <3>1. u \in PsSubs /\ psnext'[u] = psnext[u] /\ psfwd'[u] = psfwd[u] BY <2>2 DEF PsOthers, PsAlive
    <3>2. u \in PsAlive BY <3>1 DEF PsAlive
    <3>3. PsLag(u)' = PsLag(u) BY <1>2, <3>1 DEF PsLag
    <3>4. QED BY <1>1, <3>2, <3>3 DEF PsNear
  <2>3. QED BY <2>1, <2>2
<1>6. QED BY <1>3, <1>4, <1>5 DEF PubSubIInv

\* Where the subscription is not read, does not move and gives nothing.
PsStays == psnext' = psnext /\ psheld' = psheld /\ psq' = psq /\ psstart' = psstart /\ pslagged' = pslagged

\* A subscription moves on, or its scope closes, without moving a message.
LEMMA PsFlagOk ==
  ASSUME PubSubIInv, NEW s \in PsSubs,
         \/ PsSpawn(s) \/ PsAddFinalizer(s) \/ PsClosed(s) \/ PsShutQueue(s) \/ PsAborted(s)
         \/ PsCloseScope(s) \/ PsAbort(s) \/ PsFinShut(s)
  PROVE  PubSubIInv'
<1>1. PsTyped /\ PsNear /\ OnlySlidingLags /\ PsOne(s) BY DEF PubSubIInv
<1>2. pshub' = pshub /\ PsStays
  BY DEF PsSpawn, PsAddFinalizer, PsClosed, PsShutQueue, PsAborted, PsCloseScope, PsAbort, PsFinShut,
         PsStays, pshub
<1>3. pslog' = pslog /\ psmode' = psmode BY <1>2 DEF pshub
<1>4. PsTyped'
  <2>1. psat' \in [PsSubs -> {"no", "receiver", "spawned", "yes"}]
        /\ psfwd' \in [PsSubs -> {"none", "recv", "offer", "shut", "ended"}]
    BY <1>1 DEF PsTyped, PubSubTypeOK, PsSpawn, PsAddFinalizer, PsClosed, PsShutQueue, PsAborted,
                PsCloseScope, PsAbort, PsFinShut
  <2>2. psabort' \in [PsSubs -> BOOLEAN] /\ psqopen' \in [PsSubs -> BOOLEAN]
    BY <1>1 DEF PsTyped, PubSubTypeOK, PsSpawn, PsAddFinalizer, PsClosed, PsShutQueue, PsAborted,
                PsCloseScope, PsAbort, PsFinShut
  <2>3. psfin' \in [PsSubs -> BOOLEAN]
    BY <1>1, Zenon DEF PsTyped, PubSubTypeOK, PsSpawn, PsAddFinalizer, PsClosed, PsShutQueue, PsAborted,
                PsCloseScope, PsAbort, PsFinShut
  <2>4. psscope' \in [PsSubs -> {"open", "closing", "queue", "closed"}]
    BY <1>1 DEF PsTyped, PubSubTypeOK, PsSpawn, PsAddFinalizer, PsClosed, PsShutQueue, PsAborted,
                PsCloseScope, PsAbort, PsFinShut
  <2>5. QED BY <1>1, <1>2, <2>1, <2>2, <2>3, <2>4 DEF PsTyped, PubSubTypeOK, PsStays, pshub
<1>5. PsOthers(s)
  <2> SUFFICES ASSUME NEW u \in PsSubs \ {s}
               PROVE  /\ psat'[u] = psat[u] /\ psfwd'[u] = psfwd[u]
                      /\ psabort'[u] = psabort[u] /\ psscope'[u] = psscope[u]
                      /\ psfin'[u] = psfin[u] /\ psqopen'[u] = psqopen[u]
    BY <1>2 DEF PsOthers, PsStays
  <2>1. psat'[u] = psat[u] /\ psfwd'[u] = psfwd[u]
    BY <1>1 DEF PsTyped, PubSubTypeOK, PsSpawn, PsAddFinalizer, PsClosed, PsShutQueue, PsAborted,
                PsCloseScope, PsAbort, PsFinShut
  <2>2. psabort'[u] = psabort[u] /\ psscope'[u] = psscope[u]
    BY <1>1 DEF PsTyped, PubSubTypeOK, PsSpawn, PsAddFinalizer, PsClosed, PsShutQueue, PsAborted,
                PsCloseScope, PsAbort, PsFinShut
  <2>3. psfin'[u] = psfin[u] /\ psqopen'[u] = psqopen[u]
    BY <1>1 DEF PsTyped, PubSubTypeOK, PsSpawn, PsAddFinalizer, PsClosed, PsShutQueue, PsAborted,
                PsCloseScope, PsAbort, PsFinShut
  <2>4. QED BY <2>1, <2>2, <2>3
<1>6. /\ psat'[s] = "no" => psat[s] = "no"
      /\ psat'[s] = "receiver" => psat[s] = "receiver"
      /\ psat'[s] \in {"no", "receiver"} => psfwd'[s] = psfwd[s] \/ psfwd[s] # "none"
      /\ psfwd'[s] # psfwd[s] => psfwd[s] # "none" \/ psat[s] = "receiver"
      /\ psfwd'[s] # psfwd[s] => psfwd'[s] # "offer" /\ (psfwd[s] # "offer" \/ psat[s] = "receiver")
      /\ psfwd[s] \in {"shut", "ended"} => psfwd'[s] \in {"shut", "ended"} \/ psat[s] = "receiver"
  BY <1>1 DEF PsTyped, PubSubTypeOK, PsSpawn, PsAddFinalizer, PsClosed, PsShutQueue, PsAborted,
              PsCloseScope, PsAbort, PsFinShut
<1>7. psqopen'[s] => psqopen[s]
  <2>1. psqopen' = psqopen \/ psqopen' = [psqopen EXCEPT ![s] = FALSE]
    BY DEF PsSpawn, PsAddFinalizer, PsClosed, PsShutQueue, PsAborted, PsCloseScope, PsAbort, PsFinShut
  <2>2. psqopen \in [PsSubs -> BOOLEAN] BY <1>1 DEF PsTyped, PubSubTypeOK
  <2>3. psqopen' = [psqopen EXCEPT ![s] = FALSE] => psqopen'[s] = FALSE BY <2>2, Zenon
  <2>4. QED BY <2>1, <2>3
<1>8. psscope'[s] = "queue" \/ (psscope'[s] = "closed" /\ psfin'[s]) => psabort'[s]
  <2>0. /\ psscope \in [PsSubs -> {"open", "closing", "queue", "closed"}]
        /\ psfin \in [PsSubs -> BOOLEAN] /\ psabort \in [PsSubs -> BOOLEAN]
        /\ psscope[s] = "queue" \/ (psscope[s] = "closed" /\ psfin[s]) => psabort[s]
    BY <1>1 DEF PsTyped, PubSubTypeOK, PsOne
  <2>1. CASE PsCloseScope(s)
    <3>1. /\ psfin' = psfin /\ psscope'[s] = (IF psfin[s] THEN "closing" ELSE "closed")
      BY <2>0, <2>1 DEF PsCloseScope
    <3>2. QED BY <3>1
  <2>2. CASE PsAbort(s)
    <3>1. psabort' = [psabort EXCEPT ![s] = TRUE] BY <2>2 DEF PsAbort
    <3>2. psabort'[s] = TRUE BY <2>0, <3>1, Zenon
    <3>3. QED BY <3>2
  <2>3. CASE PsFinShut(s)
    <3>1. psabort' = psabort /\ psscope[s] = "queue" BY <2>3 DEF PsFinShut
    <3>2. QED BY <2>0, <3>1
  <2>4. CASE PsAddFinalizer(s)
    <3>1. psabort' = psabort /\ psscope' = psscope /\ psfin' = [psfin EXCEPT ![s] = psscope[s] = "open"]
      BY <2>4 DEF PsAddFinalizer
    <3>2. psfin'[s] = (psscope[s] = "open") BY <2>0, <3>1, Zenon
    <3>3. QED BY <2>0, <3>1, <3>2
  <2>5. CASE psabort' = psabort /\ psscope' = psscope /\ psfin' = psfin BY <2>0, <2>5
  <2>6. QED BY <2>1, <2>2, <2>3, <2>4, <2>5 DEF PsSpawn, PsClosed, PsShutQueue, PsAborted
<1>9. PsSeen(s)' = PsSeen(s) /\ psnext'[s] = psnext[s] /\ psstart'[s] = psstart[s]
      /\ psq'[s] = psq[s] /\ psheld'[s] = psheld[s] /\ pslagged' = pslagged
  BY <1>2 DEF PsStays, PsSeen
<1>10. PsOne(s)'
  <2>1. /\ psat'[s] = "no" => psnext[s] = 0
        /\ psat'[s] = "receiver" => psnext[s] > 0
        /\ psat'[s] \in {"no", "receiver"} => psfwd'[s] = "none"
    BY <1>1, <1>6 DEF PsOne
  <2>2. psnext[s] = 0 => psq[s] = <<>> /\ psheld[s] = <<>> /\ psfwd'[s] = "none"
    BY <1>1, <1>6 DEF PsOne
  <2>3. psfwd'[s] # "offer" => psheld[s] = <<>> BY <1>1, <1>6 DEF PsOne
  <2>4. /\ psnext[s] > 0 => psstart[s] \in 1..psnext[s] /\ psnext[s] <= Len(pslog) + 1
        /\ PsPicked(PsSeen(s), pslog, psstart[s], psnext[s] - 1)
        /\ psnext[s] > 0 /\ psqopen'[s] /\ s \notin pslagged =>
             PsSeen(s) = SubSeq(pslog, psstart[s], psnext[s] - 1)
    BY <1>1, <1>7 DEF PsOne
  <2>5. QED BY <1>3, <1>8, <1>9, <2>1, <2>2, <2>3, <2>4 DEF PsOne
<1>11. OnlySlidingLags' BY <1>1, <1>3, <1>9 DEF OnlySlidingLags
<1>12. psmode \in {"bounded", "dropping"} /\ s \in PsAlive' => PsLag(s)' <= PsCapacity
  <2> SUFFICES ASSUME psmode \in {"bounded", "dropping"}, s \in PsAlive' PROVE PsLag(s) <= PsCapacity
    BY <1>3, <1>9 DEF PsLag
  <2>1. psnext[s] > 0 /\ psfwd'[s] \notin {"shut", "ended"} BY <1>9 DEF PsAlive
  <2>2. psfwd[s] \notin {"shut", "ended"} BY <2>1, <1>1, <1>6 DEF PsOne
  <2>3. s \in PsAlive BY <2>1, <2>2 DEF PsAlive
  <2>4. QED BY <1>1, <2>3 DEF PsNear
<1>13. QED BY <1>2, <1>4, <1>5, <1>10, <1>11, <1>12, PsLocal

\* The receiver is made.
LEMMA PsSubscribeOk == ASSUME PubSubIInv, NEW s \in PsSubs, PsSubscribe(s) PROVE PubSubIInv'
<1>1. PsTyped /\ PsNear /\ OnlySlidingLags /\ PsOne(s) BY DEF PubSubIInv
<1>2. /\ pshub' = pshub /\ psfwd' = psfwd /\ psheld' = psheld /\ psabort' = psabort /\ psscope' = psscope
      /\ psfin' = psfin /\ psq' = psq /\ pslagged' = pslagged /\ psat[s] = "no"
      /\ psstart' = [psstart EXCEPT ![s] = Len(pslog) + 1]
      /\ \/ /\ psat' = [psat EXCEPT ![s] = "receiver"] /\ psqopen' = psqopen
            /\ psnext' = [psnext EXCEPT ![s] = Len(pslog) + 1]
         \/ /\ psat' = [psat EXCEPT ![s] = "yes"] /\ psqopen' = [psqopen EXCEPT ![s] = FALSE]
            /\ psnext' = psnext
  BY DEF PsSubscribe, pshub
<1>3. pslog' = pslog /\ psmode' = psmode /\ Len(pslog) \in Nat /\ pslog \in Seq(PsValues)
  BY <1>1, <1>2 DEF pshub, PsTyped, PubSubTypeOK
<1>4. /\ psat \in [PsSubs -> {"no", "receiver", "spawned", "yes"}] /\ psnext \in [PsSubs -> Nat]
      /\ psstart \in [PsSubs -> Nat] /\ psqopen \in [PsSubs -> BOOLEAN]
  BY <1>1 DEF PsTyped, PubSubTypeOK
<1>5. /\ psnext[s] = 0 /\ psfwd[s] = "none" /\ psq[s] = <<>> /\ psheld[s] = <<>>
      /\ PsSeen(s)' = <<>>
  <2>1. psnext[s] = 0 /\ psfwd[s] = "none" /\ psq[s] = <<>> /\ psheld[s] = <<>> BY <1>1, <1>2 DEF PsOne
  <2>2. QED BY <2>1, <1>2, EmptyLine DEF PsSeen
<1>6. PsTyped'
  <2>1. psat' \in [PsSubs -> {"no", "receiver", "spawned", "yes"}] /\ psnext' \in [PsSubs -> Nat]
        /\ psstart' \in [PsSubs -> Nat] /\ psqopen' \in [PsSubs -> BOOLEAN]
    <3>1. psat' \in [PsSubs -> {"no", "receiver", "spawned", "yes"}] BY <1>2, <1>4
    <3>0. Len(pslog) + 1 \in Nat BY <1>3
    <3>2. psnext' \in [PsSubs -> Nat] /\ psstart' \in [PsSubs -> Nat]
      <4>1. psstart' \in [PsSubs -> Nat] BY <1>2, <1>4, <3>0
      <4>2. psnext' \in [PsSubs -> Nat] BY <1>2, <1>4, <3>0
      <4>3. QED BY <4>1, <4>2
    <3>3. psqopen' \in [PsSubs -> BOOLEAN] BY <1>2, <1>4
    <3>4. QED BY <3>1, <3>2, <3>3
  <2>2. QED BY <1>1, <1>2, <2>1 DEF PsTyped, PubSubTypeOK, pshub
<1>7. PsOthers(s) BY <1>2, <1>4 DEF PsOthers
<1>8. /\ psstart'[s] = Len(pslog) + 1
      /\ \/ psat'[s] = "receiver" /\ psnext'[s] = Len(pslog) + 1
         \/ psat'[s] = "yes" /\ psnext'[s] = 0
  BY <1>2, <1>4, <1>5
<1>9. PsOne(s)'
  <2>1. PsPicked(PsSeen(s)', pslog', psstart'[s], psnext'[s] - 1) BY <1>5, PickedNone
  <2>2. psnext'[s] > 0 => SubSeq(pslog, psstart'[s], psnext'[s] - 1) = <<>>
    <3> SUFFICES ASSUME psnext'[s] > 0 PROVE SubSeq(pslog, psstart'[s], psnext'[s] - 1) = <<>> OBVIOUS
    <3>1. psnext'[s] - 1 \in Int /\ psstart'[s] \in Int /\ psnext'[s] - 1 < psstart'[s] BY <1>3, <1>8
    <3>2. QED BY <3>1, SubSeqEmpty
  <2>3. psscope[s] = "queue" \/ (psscope[s] = "closed" /\ psfin[s]) => psabort[s] BY <1>1 DEF PsOne
  <2>4. /\ psat'[s] # "no" /\ (psat'[s] = "receiver" => psnext'[s] > 0)
        /\ (psnext'[s] > 0 => psstart'[s] \in 1..psnext'[s] /\ psnext'[s] <= Len(pslog) + 1)
    BY <1>3, <1>8
  <2>5. QED BY <1>2, <1>3, <1>5, <2>1, <2>2, <2>3, <2>4 DEF PsOne
<1>10. OnlySlidingLags' BY <1>1, <1>2, <1>3 DEF OnlySlidingLags
<1>11. s \in PsAlive' => PsLag(s)' <= PsCapacity
  <2> SUFFICES ASSUME s \in PsAlive' PROVE PsLag(s)' <= PsCapacity OBVIOUS
  <2>1. psnext'[s] = Len(pslog) + 1 BY <1>8 DEF PsAlive
  <2>2. PsLag(s)' = 0 BY <2>1, <1>3 DEF PsLag
  <2>3. QED BY <2>2, PubSubAssumption
<1>12. QED BY <1>2, <1>6, <1>7, <1>9, <1>10, <1>11, PsLocal

\* The receiver skips what has left the ring.
LEMMA PsLaggedOk == ASSUME PubSubIInv, NEW s \in PsSubs, PsLagged(s) PROVE PubSubIInv'
<1>1. PsTyped /\ PsNear /\ OnlySlidingLags /\ PsOne(s) BY DEF PubSubIInv
<1>2. /\ pshub' = pshub /\ psfwd' = psfwd /\ psheld' = psheld /\ psabort' = psabort /\ psscope' = psscope
      /\ psfin' = psfin /\ psq' = psq /\ psat' = psat /\ psqopen' = psqopen /\ psstart' = psstart
      /\ psfwd[s] = "recv" /\ PsLag(s) > PsPlaces /\ pslagged' = pslagged \cup {s}
      /\ psnext' = [psnext EXCEPT ![s] = Len(pslog) - PsPlaces + 1]
  BY DEF PsLagged, pshub
<1>3. pslog' = pslog /\ psmode' = psmode /\ Len(pslog) \in Nat
  BY <1>1, <1>2 DEF pshub, PsTyped, PubSubTypeOK
<1>4. psnext \in [PsSubs -> Nat] /\ psstart \in [PsSubs -> Nat] /\ pslagged \subseteq PsSubs /\ psmode \in PsModes
  BY <1>1 DEF PsTyped, PubSubTypeOK
<1>5. psnext[s] \in Nat \ {0} /\ psstart[s] \in 1..psnext[s] /\ psnext[s] <= Len(pslog) + 1
  BY <1>1, <1>2, <1>4 DEF PsOne
<1>6. psmode \in {"sliding", "broadcast"}
  <2>1. CASE psmode = "unbounded"
    <3>1. PsPlaces = Len(pslog) + 1 BY <2>1 DEF PsPlaces
    <3>2. QED BY <3>1, <1>2, <1>3, <1>5 DEF PsLag
  <2>2. CASE psmode \in {"bounded", "dropping"}
    <3>1. s \in PsAlive BY <1>2, <1>5 DEF PsAlive
    <3>2. PsLag(s) <= PsCapacity BY <1>1, <2>2, <3>1 DEF PsNear
    <3>3. PsPlaces = PsRing BY <2>2 DEF PsPlaces
    <3>4. PsLag(s) \in Nat BY <1>3, <1>5 DEF PsLag
    <3>5. QED BY <1>2, <3>2, <3>3, <3>4, PubSubAssumption
  <2>3. QED BY <1>4, <2>1, <2>2, PubSubAssumption
<1>7. PsPlaces = PsRing /\ PsPlaces \in Nat BY <1>6, PubSubAssumption DEF PsPlaces
<1>8. PICK n \in Nat : /\ n = Len(pslog) - PsPlaces + 1 /\ psnext[s] < n /\ n <= Len(pslog) + 1
  <2>1. Len(pslog) + 1 - psnext[s] > PsPlaces BY <1>2 DEF PsLag
  <2>2. /\ Len(pslog) - PsPlaces + 1 \in Nat /\ psnext[s] < Len(pslog) - PsPlaces + 1
        /\ Len(pslog) - PsPlaces + 1 <= Len(pslog) + 1
    BY <2>1, <1>3, <1>5, <1>7
  <2>3. QED BY <2>2
<1>9. psnext'[s] = n BY <1>2, <1>4, <1>8
<1>10. PsTyped'
  <2>1. psnext' \in [PsSubs -> Nat] /\ pslagged' \subseteq PsSubs BY <1>2, <1>4, <1>8
  <2>2. QED BY <1>1, <1>2, <2>1 DEF PsTyped, PubSubTypeOK, pshub
<1>11. PsOthers(s) BY <1>2, <1>4 DEF PsOthers
<1>12. PsOne(s)'
  <2>1. PsSeen(s)' = PsSeen(s) BY <1>2 DEF PsSeen
  <2>2. PsPicked(PsSeen(s), pslog, psstart[s], psnext[s] - 1) BY <1>1 DEF PsOne
  <2>3. PsPicked(PsSeen(s), pslog, psstart[s], n - 1)
    <3>1. psnext[s] - 1 \in Int /\ n - 1 \in Int /\ psnext[s] - 1 <= n - 1 /\ psstart[s] \in Nat
      BY <1>5, <1>8
    <3>2. QED BY <3>1, <2>2, PickedUpto
  <2>4. psstart[s] \in 1..n /\ n > 0 BY <1>5, <1>8
  <2>5. psat[s] \notin {"no", "receiver"} /\ psheld[s] = <<>> BY <1>1, <1>2 DEF PsOne
  <2>6. psscope[s] = "queue" \/ (psscope[s] = "closed" /\ psfin[s]) => psabort[s] BY <1>1 DEF PsOne
  <2>7. QED BY <1>2, <1>3, <1>8, <1>9, <2>1, <2>3, <2>4, <2>5, <2>6 DEF PsOne
<1>13. OnlySlidingLags' BY <1>3, <1>6 DEF OnlySlidingLags
<1>14. QED BY <1>2, <1>6, <1>10, <1>11, <1>12, <1>13, PsLocal

\* The task receives a message.
LEMMA PsRecvOk == ASSUME PubSubIInv, NEW s \in PsSubs, PsRecv(s) PROVE PubSubIInv'
<1>1. PsTyped /\ PsNear /\ OnlySlidingLags /\ PsOne(s) BY DEF PubSubIInv
<1>2. /\ pshub' = pshub /\ psabort' = psabort /\ psscope' = psscope
      /\ psfin' = psfin /\ psq' = psq /\ psat' = psat /\ psqopen' = psqopen /\ psstart' = psstart
      /\ pslagged' = pslagged /\ psfwd[s] = "recv" /\ PsLag(s) >= 1
      /\ psnext' = [psnext EXCEPT ![s] = @ + 1] /\ psfwd' = [psfwd EXCEPT ![s] = "offer"]
      /\ psheld' = [psheld EXCEPT ![s] = <<pslog[psnext[s]]>>]
  BY DEF PsRecv, pshub
<1>3. pslog' = pslog /\ psmode' = psmode /\ Len(pslog) \in Nat /\ pslog \in Seq(PsValues)
  BY <1>1, <1>2 DEF pshub, PsTyped, PubSubTypeOK
<1>4. /\ psnext \in [PsSubs -> Nat] /\ psstart \in [PsSubs -> Nat] /\ psheld \in [PsSubs -> Seq(PsValues)]
      /\ psfwd \in [PsSubs -> {"none", "recv", "offer", "shut", "ended"}]
      /\ psq \in [PsSubs -> Seq(PsValues)]
  BY <1>1 DEF PsTyped, PubSubTypeOK
<1>5. PICK n \in Nat : n + 1 = psnext[s]
  <2>1. psnext[s] \in Nat \ {0} BY <1>1, <1>2, <1>4 DEF PsOne
  <2>2. psnext[s] - 1 \in Nat /\ (psnext[s] - 1) + 1 = psnext[s] BY <2>1
  <2>3. QED BY <2>2
<1>6. psstart[s] \in Nat \ {0} /\ psstart[s] <= n + 1 /\ n + 1 <= Len(pslog)
  <2>1. psnext[s] > 0 => psstart[s] \in 1..psnext[s] BY <1>1 DEF PsOne
  <2>2. Len(pslog) + 1 - psnext[s] >= 1 BY <1>2 DEF PsLag
  <2>3. psnext[s] > 0 BY <1>5
  <2>4. psstart[s] \in 1..(n + 1) BY <2>1, <2>3, <1>5
  <2>5. Len(pslog) + 1 - (n + 1) >= 1 BY <2>2, <1>5
  <2>6. QED BY <1>3, <2>4, <2>5
<1>7. PICK v \in PsValues : v = pslog[n + 1] BY <1>3, <1>6
<1>8. psnext'[s] = n + 2 /\ psfwd'[s] = "offer" /\ psheld'[s] = <<v>> /\ <<v>> \in Seq(PsValues)
  BY <1>2, <1>4, <1>5, <1>7
<1>9. PsTyped'
  <2>1. /\ psnext' \in [PsSubs -> Nat] /\ psheld' \in [PsSubs -> Seq(PsValues)]
        /\ psfwd' \in [PsSubs -> {"none", "recv", "offer", "shut", "ended"}]
    BY <1>2, <1>4, <1>5, <1>7, <1>8
  <2>2. QED BY <1>1, <1>2, <2>1 DEF PsTyped, PubSubTypeOK, pshub
<1>10. PsOthers(s) BY <1>2, <1>4 DEF PsOthers
<1>11. PICK q \in Seq(PsValues) : q = psq[s] BY <1>4
<1>12. PsSeen(s) = q /\ PsSeen(s)' = Append(q, v)
  <2>1. psheld[s] = <<>> BY <1>1, <1>2 DEF PsOne
  <2>2. q \o <<>> = q /\ q \o <<v>> = Append(q, v) BY <1>8
  <2>3. QED BY <1>2, <1>8, <1>11, <2>1, <2>2 DEF PsSeen
<1>13. PsOne(s)'
  <2>0. psnext[s] - 1 = n /\ psnext'[s] - 1 = n + 1 /\ psnext[s] > 0 /\ psnext'[s] > 0 BY <1>5, <1>8
  <2>1. PsPicked(q, pslog, psstart[s], n)
    <3>1. PsPicked(PsSeen(s), pslog, psstart[s], psnext[s] - 1) BY <1>1 DEF PsOne
    <3>2. QED BY <3>1, <1>12, <2>0
  <2>2. PsPicked(Append(q, v), pslog, psstart[s], n + 1)
    <3>1. n \in Int /\ psstart[s] \in Nat /\ pslog[n + 1] \in PsValues BY <1>6, <1>7
    <3>2. PsPicked(Append(q, pslog[n + 1]), pslog, psstart[s], n + 1) BY <3>1, <1>6, <2>1, PickedNext
    <3>3. QED BY <3>2, <1>7
  <2>3. psqopen[s] /\ s \notin pslagged => Append(q, v) = SubSeq(pslog, psstart[s], n + 1)
    <3>1. psqopen[s] /\ s \notin pslagged => q = SubSeq(pslog, psstart[s], n)
      BY <1>1, <1>12, <2>0 DEF PsOne
    <3>2. SubSeq(pslog, psstart[s], n + 1) = Append(SubSeq(pslog, psstart[s], n), pslog[n + 1])
      <4>1. n <= Len(pslog) /\ n < Len(pslog) BY <1>3, <1>6
      <4>2. QED BY <1>3, <1>6, <4>1, PartGrows
    <3>3. QED BY <3>1, <3>2, <1>7
  <2>4. psat[s] \notin {"no", "receiver"} BY <1>1, <1>2 DEF PsOne
  <2>5. psscope[s] = "queue" \/ (psscope[s] = "closed" /\ psfin[s]) => psabort[s] BY <1>1 DEF PsOne
  <2>6. psstart[s] \in 1..n + 2 /\ n + 2 <= Len(pslog) + 1 BY <1>3, <1>6
  <2>7. /\ PsPicked(PsSeen(s)', pslog', psstart'[s], psnext'[s] - 1)
        /\ psnext'[s] > 0 /\ psqopen'[s] /\ s \notin pslagged' =>
             PsSeen(s)' = SubSeq(pslog', psstart'[s], psnext'[s] - 1)
    BY <1>2, <1>3, <1>12, <2>0, <2>2, <2>3
  <2>8. psnext'[s] # 0 BY <1>8
  <2>9. QED BY <1>2, <1>3, <1>8, <2>4, <2>5, <2>6, <2>7, <2>8 DEF PsOne
<1>14. OnlySlidingLags' BY <1>1, <1>2, <1>3 DEF OnlySlidingLags
<1>15. psmode \in {"bounded", "dropping"} => PsLag(s)' <= PsCapacity
  <2> SUFFICES ASSUME psmode \in {"bounded", "dropping"} PROVE PsLag(s)' <= PsCapacity OBVIOUS
  <2>1. s \in PsAlive BY <1>2, <1>5 DEF PsAlive
  <2>2. PsLag(s) <= PsCapacity BY <1>1, <2>1 DEF PsNear
  <2>3. QED BY <2>2, <1>3, <1>5, <1>6, <1>8, PubSubAssumption DEF PsLag
<1>16. QED BY <1>2, <1>9, <1>10, <1>13, <1>14, <1>15, PsLocal

\* The task offers it to the queue of the subscriber.
LEMMA PsForwardOk == ASSUME PubSubIInv, NEW s \in PsSubs, PsForward(s) PROVE PubSubIInv'
<1>1. PsTyped /\ PsNear /\ OnlySlidingLags /\ PsOne(s) BY DEF PubSubIInv
<1>2. /\ pshub' = pshub /\ psabort' = psabort /\ psscope' = psscope /\ psnext' = psnext
      /\ psfin' = psfin /\ psat' = psat /\ psqopen' = psqopen /\ psstart' = psstart
      /\ pslagged' = pslagged /\ psfwd[s] = "offer"
      /\ psq' = [psq EXCEPT ![s] = IF psqopen[s] THEN psq[s] \o psheld[s] ELSE psq[s]]
      /\ psheld' = [psheld EXCEPT ![s] = <<>>] /\ psfwd' = [psfwd EXCEPT ![s] = "recv"]
  BY <1>1 DEF PsForward, pshub, PsTyped, PubSubTypeOK
<1>3. pslog' = pslog /\ psmode' = psmode /\ Len(pslog) \in Nat /\ pslog \in Seq(PsValues)
  BY <1>1, <1>2 DEF pshub, PsTyped, PubSubTypeOK
<1>4. /\ psnext \in [PsSubs -> Nat] /\ psstart \in [PsSubs -> Nat] /\ psheld \in [PsSubs -> Seq(PsValues)]
      /\ psfwd \in [PsSubs -> {"none", "recv", "offer", "shut", "ended"}]
      /\ psq \in [PsSubs -> Seq(PsValues)]
  BY <1>1 DEF PsTyped, PubSubTypeOK
<1>5. PICK q \in Seq(PsValues), h \in Seq(PsValues) : q = psq[s] /\ h = psheld[s] BY <1>4
<1>6. PICK new \in Seq(PsValues) : new = (IF psqopen[s] THEN q \o h ELSE q)
  <2>1. q \o h \in Seq(PsValues) BY TwoParts
  <2>2. QED BY <2>1, Zenon
<1>7. psq' = [psq EXCEPT ![s] = new] BY <1>2, <1>5, <1>6, Zenon
<1>8. <<>> \in Seq(PsValues) /\ new \o <<>> = new OBVIOUS
<1>9. PsTyped'
  <2>1. /\ psq' \in [PsSubs -> Seq(PsValues)] /\ psheld' \in [PsSubs -> Seq(PsValues)]
        /\ psfwd' \in [PsSubs -> {"none", "recv", "offer", "shut", "ended"}]
    BY <1>2, <1>4, <1>7, <1>8
  <2>2. QED BY <1>1, <1>2, <2>1 DEF PsTyped, PubSubTypeOK, pshub
<1>10. PsOthers(s) BY <1>2, <1>4, <1>7 DEF PsOthers
<1>11. psq'[s] = new /\ psheld'[s] = <<>> /\ psfwd'[s] = "recv" BY <1>2, <1>4, <1>7
<1>12. PsSeen(s) = q \o h /\ PsSeen(s)' = new BY <1>5, <1>8, <1>11 DEF PsSeen
<1>13. PsOne(s)'
  <2>1. PsPicked(q \o h, pslog, psstart[s], psnext[s] - 1)
    <3>1. PsPicked(PsSeen(s), pslog, psstart[s], psnext[s] - 1) BY <1>1 DEF PsOne
    <3>2. QED BY <3>1, <1>12, Zenon
  <2>2. PsPicked(q, pslog, psstart[s], psnext[s] - 1) BY <2>1, PickedPart
  <2>3. PsPicked(new, pslog, psstart[s], psnext[s] - 1) BY <1>6, <2>1, <2>2, Zenon
  <2>4. psqopen[s] => new = PsSeen(s) BY <1>6, <1>12
  <2>5. /\ psat[s] \notin {"no", "receiver"} /\ psnext[s] # 0
        /\ (psnext[s] > 0 => psstart[s] \in 1..psnext[s] /\ psnext[s] <= Len(pslog) + 1)
        /\ (psscope[s] = "queue" \/ (psscope[s] = "closed" /\ psfin[s]) => psabort[s])
        /\ (psnext[s] > 0 /\ psqopen[s] /\ s \notin pslagged =>
             PsSeen(s) = SubSeq(pslog, psstart[s], psnext[s] - 1))
    BY <1>1, <1>2 DEF PsOne
  <2>6. QED BY <1>2, <1>3, <1>11, <1>12, <2>3, <2>4, <2>5 DEF PsOne
<1>14. OnlySlidingLags' BY <1>1, <1>2, <1>3 DEF OnlySlidingLags
<1>15. psmode \in {"bounded", "dropping"} => PsLag(s)' <= PsCapacity
  <2> SUFFICES ASSUME psmode \in {"bounded", "dropping"} PROVE PsLag(s)' <= PsCapacity OBVIOUS
  <2>1. psnext[s] \in Nat /\ psnext[s] # 0 BY <1>1, <1>2, <1>4 DEF PsOne
  <2>2. s \in PsAlive BY <1>2, <2>1 DEF PsAlive
  <2>3. QED BY <1>1, <2>2, <1>2, <1>3 DEF PsNear, PsLag
<1>16. QED BY <1>2, <1>9, <1>10, <1>13, <1>14, <1>15, PsLocal

\* It holds at the start.
LEMMA PubSubInitOk == PubSubInit => PubSubIInv
<1> SUFFICES ASSUME PubSubInit PROVE PubSubIInv OBVIOUS
<1>0. <<>> \in Seq(PsValues) /\ Range(<<>>) = {} /\ IsInjective(<<>>) /\ <<>> \o <<>> = <<>>
  BY EmptyLine
<1>1. PsMessages \in [PsPublishers -> Seq(PsValues)]
  <2>1. ASSUME NEW p \in PsPublishers PROVE PsMessages[p] \in Seq(PsValues)
    <3>1. PsMessages[p] \in Seq(Range(PsMessages[p])) BY PubSubAssumption
    <3>2. Range(PsMessages[p]) \subseteq PsValues BY DEF PsValues
    <3>3. QED BY <3>1, <3>2, SeqMonotonic
  <2>2. PsMessages = [p \in PsPublishers |-> PsMessages[p]] BY PubSubAssumption
  <2>3. QED BY <2>1, <2>2
<1>2. PsTyped BY <1>0, <1>1 DEF PubSubInit, PsTyped, PubSubTypeOK
<1>3. PsLogged BY <1>0, PubSubAssumption DEF PubSubInit, PsLogged
<1>4. PsNear BY DEF PubSubInit, PsNear, PsAlive
<1>5. OnlySlidingLags BY DEF PubSubInit, OnlySlidingLags
<1>6. ASSUME NEW s \in PsSubs PROVE PsOne(s)
  <2>1. /\ psat[s] = "no" /\ psnext[s] = 0 /\ psfwd[s] = "none" /\ psq[s] = <<>> /\ psheld[s] = <<>>
        /\ psscope[s] = "open"
    BY DEF PubSubInit
  <2>2. PsSeen(s) = <<>> BY <1>0, <2>1 DEF PsSeen
  <2>3. PsPicked(PsSeen(s), pslog, psstart[s], psnext[s] - 1) BY <2>2, PickedNone
  <2>4. QED BY <2>1, <2>3 DEF PsOne
<1>7. QED BY <1>2, <1>3, <1>4, <1>5, <1>6 DEF PubSubIInv

\* Every step keeps it.
LEMMA PubSubNextOk == PubSubIInv /\ [PubSubNext]_psvars => PubSubIInv'
<1> SUFFICES ASSUME PubSubIInv, [PubSubNext]_psvars PROVE PubSubIInv' OBVIOUS
<1>1. ASSUME NEW p \in PsPublishers, Publish(p) PROVE PubSubIInv' BY <1>1, PsPublishOk
<1>2. ASSUME NEW s \in PsSubs, PsSubscribe(s) PROVE PubSubIInv' BY <1>2, PsSubscribeOk
<1>3. ASSUME NEW s \in PsSubs, PsSubscribing(s) \/ PsCloseScope(s) \/ PsClosing(s) PROVE PubSubIInv'
  BY <1>3, PsFlagOk DEF PsSubscribing, PsClosing
<1>4. ASSUME NEW s \in PsSubs, PsForwarder(s) PROVE PubSubIInv'
  BY <1>4, PsLaggedOk, PsRecvOk, PsForwardOk, PsFlagOk DEF PsForwarder
<1>5. CASE PsShutdown \/ PsPumpEnd \/ PsPumpDone \/ UNCHANGED psvars
  <2>1. /\ psmode' = psmode /\ pslog' = pslog /\ pstodo' = pstodo /\ psleft' = psleft /\ pssub' = pssub
    BY <1>5 DEF PsShutdown, PsPumpEnd, PsPumpDone, psvars, pshub
  <2>2. /\ psat' = psat /\ psnext' = psnext
        /\ psfwd' = psfwd /\ psheld' = psheld /\ psabort' = psabort /\ psscope' = psscope
        /\ psfin' = psfin /\ psq' = psq /\ psqopen' = psqopen /\ psstart' = psstart
        /\ pslagged' = pslagged
    BY <2>1 DEF pssub
  <2>3. pstx' \in BOOLEAN /\ pspump' \in {"none", "publish", "close", "done"}
    BY <1>5 DEF PsShutdown, PsPumpEnd, PsPumpDone, psvars, pshub, PubSubIInv, PsTyped, PubSubTypeOK
  <2>4. PsTyped' BY <2>1, <2>2, <2>3 DEF PubSubIInv, PsTyped, PubSubTypeOK
  <2>5. PsLogged' /\ OnlySlidingLags' BY <2>1, <2>2 DEF PubSubIInv, PsLogged, OnlySlidingLags
  <2>6. PsNear' BY <2>1, <2>2 DEF PubSubIInv, PsNear, PsAlive, PsLag
  <2>7. \A s \in PsSubs : PsOne(s)' BY <2>1, <2>2 DEF PubSubIInv, PsOne, PsSeen
  <2>8. QED BY <2>4, <2>5, <2>6, <2>7 DEF PubSubIInv
<1>6. QED BY <1>1, <1>2, <1>3, <1>4, <1>5 DEF PubSubNext

\* It says what it was made for.
LEMMA PubSubGives == PubSubIInv => PubSubInv
<1> SUFFICES ASSUME PubSubIInv PROVE PubSubInv OBVIOUS
<1>1. SubscribersSeeAll BY DEF SubscribersSeeAll, PubSubIInv, PsOne
<1>2. ForwarderEndsWithScope BY DEF ForwarderEndsWithScope, PubSubIInv, PsOne
<1>3. SubscribersInOrder
  <2> SUFFICES ASSUME NEW s \in PsSubs
               PROVE  /\ IsInjective(PsSeen(s))
                      /\ \A i, j \in DOMAIN PsSeen(s) : i < j =>
                           \E a, b \in psstart[s]..Len(pslog) :
                              a < b /\ pslog[a] = PsSeen(s)[i] /\ pslog[b] = PsSeen(s)[j]
    BY DEF SubscribersInOrder
  <2>1. /\ psq[s] \in Seq(PsValues) /\ psheld[s] \in Seq(PsValues) /\ psnext[s] \in Nat
        /\ psstart[s] \in Nat /\ pslog \in Seq(PsValues) /\ Len(pslog) \in Nat /\ IsInjective(pslog)
    BY DEF PubSubIInv, PsTyped, PubSubTypeOK, PsLogged
  <2>2. PICK seen \in Seq(PsValues) : seen = PsSeen(s)
    <3>1. PsSeen(s) \in Seq(PsValues) BY <2>1, TwoParts DEF PsSeen
    <3>2. QED BY <3>1, Zenon
  <2>3. psnext[s] > 0 => psstart[s] \in 1..psnext[s] /\ psnext[s] <= Len(pslog) + 1
    BY DEF PubSubIInv, PsOne
  <2>4. psstart[s]..psnext[s] - 1 \subseteq psstart[s]..Len(pslog)
        /\ psstart[s]..psnext[s] - 1 \subseteq DOMAIN pslog
    BY <2>1, <2>3
  <2>5. PsPicked(seen, pslog, psstart[s], psnext[s] - 1) BY <2>2 DEF PubSubIInv, PsOne
  <2>6. ASSUME NEW i \in DOMAIN seen, NEW j \in DOMAIN seen, i < j
        PROVE  \E a, b \in psstart[s]..psnext[s] - 1 : a < b /\ pslog[a] = seen[i] /\ pslog[b] = seen[j]
    BY <2>5, <2>6 DEF PsPicked
  <2>7. ASSUME NEW i \in DOMAIN seen, NEW j \in DOMAIN seen, i < j PROVE seen[i] # seen[j]
    <3>1. PICK a \in psstart[s]..psnext[s] - 1, b \in psstart[s]..psnext[s] - 1 :
            a < b /\ pslog[a] = seen[i] /\ pslog[b] = seen[j]
      BY <2>6, <2>7
    <3>2. a \in DOMAIN pslog /\ b \in DOMAIN pslog /\ a # b BY <2>1, <2>4, <3>1
    <3>3. pslog[a] # pslog[b] BY <2>1, <3>2 DEF IsInjective
    <3>4. QED BY <3>1, <3>3
  <2>8. IsInjective(seen)
    <3> SUFFICES ASSUME NEW i \in DOMAIN seen, NEW j \in DOMAIN seen, seen[i] = seen[j] PROVE i = j
      BY DEF IsInjective
    <3>1. i \in Nat /\ j \in Nat OBVIOUS
    <3>2. ~(i < j) /\ ~(j < i) BY <2>7
    <3>3. QED BY <3>1, <3>2
  <2>9. \A i, j \in DOMAIN seen : i < j =>
          \E a, b \in psstart[s]..Len(pslog) : a < b /\ pslog[a] = seen[i] /\ pslog[b] = seen[j]
    BY <2>4, <2>6
  <2>10. QED BY <2>2, <2>8, <2>9
<1>4. QED BY <1>1, <1>2, <1>3 DEF PubSubInv, PubSubIInv, PsTyped

\* Every subscriber is given what the hub sent since it subscribed, in order, once, and
\* without a gap unless its queue was shut or it lagged; only sliding hubs lag; and a task
\* outlives its scope only if the scope was closed before subscribe registered its
\* finalizer: for any publishers, subscribers, capacity and ring (pubsub.rs, and
\* Stream::broadcast of stream.rs).
THEOREM PubSubInvariant == PubSubSpec => []PubSubInv
BY PubSubInitOk, PubSubNextOk, PubSubGives, PTL DEF PubSubSpec

(***************************************************************************)
(* Subscription refs.                                                      *)
(***************************************************************************)

\* The cell, its hub, which is unbounded and never shut down, and the subscriptions.
SrTyped ==
  /\ SubRefTypeOK
  /\ psmode = "unbounded" /\ pstx = TRUE
  /\ pslog \in Seq(PsValues)
  /\ pstodo \in [PsPublishers -> Seq(PsValues)]
  /\ psat \in [PsSubs -> {"no", "receiver", "spawned", "yes"}]
  /\ psnext \in [PsSubs -> Nat]
  /\ psfwd \in [PsSubs -> {"none", "recv", "offer", "shut", "ended"}]
  /\ psheld \in [PsSubs -> Seq(PsValues)]
  /\ psabort \in [PsSubs -> BOOLEAN]
  /\ psscope \in [PsSubs -> {"open", "closing", "queue", "closed"}]
  /\ psq \in [PsSubs -> Seq(SrValues)]
  /\ psqopen \in [PsSubs -> BOOLEAN]

\* A value is stored once, the cell holds the one stored last, and a value that is stored
\* and still to be published is the next one of its setter.
SrStored ==
  /\ IsInjective(srhist)
  /\ srval = IF Len(srhist) = 0 THEN SrInitial ELSE srhist[Len(srhist)]
  /\ \A p \in PsPublishers :
       /\ IsInjective(pstodo[p])
       /\ Range(pstodo[p]) \subseteq Range(PsMessages[p])
       /\ srset[p] => pstodo[p] # <<>>
       /\ \A v \in Range(pstodo[p]) \cap Range(srhist) : srset[p] /\ v = Head(pstodo[p])

\* A setter is between its store of v and its publish.
SrPending(v) == \E p \in PsPublishers : srset[p] /\ Head(pstodo[p]) = v

\* What s was given, is about to be given or has still to receive.
SrDue(s) == Range(psq[s]) \cup Range(psheld[s]) \cup {pslog[i] : i \in psnext[s]..Len(pslog)}

\* s read the value that was stored k-th, and what was stored since is due or pending.
SrKept(s) ==
  \E k \in 0..Len(srhist) :
     /\ srcur[s] = IF k = 0 THEN SrInitial ELSE srhist[k]
     /\ \A i \in k + 1..Len(srhist) : srhist[i] \in SrDue(s) \/ SrPending(srhist[i])

\* A subscription has its receiver, and the task its message while it offers; the task
\* ends only when it was aborted, which happens only behind a scope that was closed.
SrTask(s) ==
  /\ psat[s] # "no" => psnext[s] \in 1..Len(pslog) + 1
  /\ psfwd[s] # "shut"
  /\ psfwd[s] = "ended" => psabort[s]
  /\ psat[s] \in {"no", "receiver"} => psfwd[s] = "none"
  /\ psabort[s] => psscope[s] # "open"
  /\ psscope[s] = "queue" => psabort[s]
  /\ psfwd[s] # "offer" => psheld[s] = <<>>
  /\ srat[s] # "no" => psat[s] = "yes"

SrGiven(s) ==
  /\ srat[s] = "yes" /\ psqopen[s] => srcur[s] \in Range(psq[s])
  /\ srat[s] # "no" /\ psqopen[s] /\ psscope[s] = "open" => SrKept(s)

\* The inductive invariant.
SubRefIInv == SrTyped /\ SrStored /\ \A s \in PsSubs : SrTask(s) /\ SrGiven(s)

\* What was due stays due as long as nothing is taken away.
LEMMA SrStillKept ==
  ASSUME NEW s, SrKept(s), srhist' = srhist, srset' = srset, pstodo' = pstodo,
         srcur'[s] = srcur[s], SrDue(s) \subseteq SrDue(s)'
  PROVE  SrKept(s)'
<1>1. PICK k \in 0..Len(srhist) :
        /\ srcur[s] = IF k = 0 THEN SrInitial ELSE srhist[k]
        /\ \A i \in k + 1..Len(srhist) : srhist[i] \in SrDue(s) \/ SrPending(srhist[i])
  BY DEF SrKept
<1>2. \A v : SrPending(v) => SrPending(v)' BY DEF SrPending
<1>3. \A i \in k + 1..Len(srhist) : srhist[i] \in SrDue(s)' \/ SrPending(srhist[i])'
  BY <1>1, <1>2
<1>4. QED BY <1>1, <1>3 DEF SrKept, SrPending

\* A step of one subscription leaves the cell, the hub and the other subscriptions alone.
LEMMA SrLocal ==
  ASSUME SubRefIInv, NEW s \in PsSubs, SrTyped', pslog' = pslog, pstodo' = pstodo,
         srval' = srval, srhist' = srhist, srset' = srset, SrTask(s)', SrGiven(s)',
         \A u \in PsSubs \ {s} :
            /\ psat'[u] = psat[u] /\ psnext'[u] = psnext[u] /\ psfwd'[u] = psfwd[u]
            /\ psheld'[u] = psheld[u] /\ psabort'[u] = psabort[u] /\ psscope'[u] = psscope[u]
            /\ psq'[u] = psq[u] /\ psqopen'[u] = psqopen[u]
            /\ srat'[u] = srat[u] /\ srcur'[u] = srcur[u]
  PROVE  SubRefIInv'
<1>1. SrStored' BY DEF SubRefIInv, SrStored
<1>2. ASSUME NEW u \in PsSubs \ {s} PROVE SrTask(u)' /\ SrGiven(u)'
  <2>1. SrTask(u) /\ SrGiven(u) BY DEF SubRefIInv
  <2>2. /\ psat'[u] = psat[u] /\ psnext'[u] = psnext[u] /\ psfwd'[u] = psfwd[u]
        /\ psheld'[u] = psheld[u] /\ psabort'[u] = psabort[u] /\ psscope'[u] = psscope[u]
        /\ psq'[u] = psq[u] /\ psqopen'[u] = psqopen[u]
        /\ srat'[u] = srat[u] /\ srcur'[u] = srcur[u]
    OBVIOUS
  <2>3. SrTask(u)' BY <2>1, <2>2 DEF SrTask
  <2>4. SrDue(u)' = SrDue(u) BY <2>2 DEF SrDue
  <2>5. SrKept(u) => SrKept(u)' BY <2>2, <2>4, SrStillKept
  <2>6. SrGiven(u)' BY <2>1, <2>2, <2>5 DEF SrGiven
  <2>7. QED BY <2>3, <2>6
<1>3. QED BY <1>1, <1>2 DEF SubRefIInv

\* A setter stores its next value, which no one has stored before, and owes it to the hub.
LEMMA SrSetOk == ASSUME SubRefIInv, NEW p \in PsPublishers, SrSet(p) PROVE SubRefIInv'
<1>0. SrTyped /\ SrStored /\ \A s \in PsSubs : SrTask(s) /\ SrGiven(s) BY DEF SubRefIInv
<1>1. psvars' = psvars /\ srat' = srat /\ srcur' = srcur BY DEF SrSet
<1>2. /\ pslog' = pslog /\ pstodo' = pstodo /\ psmode' = psmode /\ pstx' = pstx /\ psat' = psat
      /\ psnext' = psnext /\ psfwd' = psfwd /\ psheld' = psheld /\ psabort' = psabort
      /\ psscope' = psscope /\ psq' = psq /\ psqopen' = psqopen
  BY <1>1 DEF psvars, pshub, pssub
<1>3. PICK t \in Seq(PsValues) : t = pstodo[p] BY <1>0 DEF SrTyped
<1>4. t # <<>> /\ ~srset[p] BY <1>3 DEF SrSet
<1>5. PICK v : v = Head(t) OBVIOUS
<1>6. v \in PsValues /\ v \in Range(t)
  <2>1. IsInjective(t) BY <1>0, <1>3 DEF SrStored
  <2>2. QED BY <2>1, <1>4, <1>5, TailOnce
<1>7. PICK h \in Seq(PsValues) : h = srhist BY <1>0 DEF SrTyped, SubRefTypeOK
<1>8. v \notin Range(h) BY <1>0, <1>3, <1>4, <1>6, <1>7 DEF SrStored
<1>9. IsInjective(h) BY <1>0, <1>7 DEF SrStored
<1>10. PICK g \in Seq(PsValues) : g = Append(h, v) BY <1>6, RangeAppend
<1>11. IsInjective(g) /\ Range(g) = Range(h) \cup {v} BY <1>6, <1>8, <1>9, <1>10, AppendOnce
<1>12. /\ Len(h) \in Nat /\ Len(g) = Len(h) + 1 /\ g[Len(g)] = v
       /\ \A i \in 1..Len(h) : g[i] = h[i]
  BY <1>6, <1>10
<1>13. srhist' = g /\ srval' = v BY <1>3, <1>5, <1>7, <1>10 DEF SrSet
<1>14. srset' = [srset EXCEPT ![p] = TRUE] BY DEF SrSet
<1>15. srset \in [PsPublishers -> BOOLEAN] BY <1>0 DEF SrTyped, SubRefTypeOK
<1>16. srset' \in [PsPublishers -> BOOLEAN] BY <1>14, <1>15, Zenon
<1>17. srset'[p] = TRUE BY <1>14, <1>15, Zenon
<1>18. \A r \in PsPublishers \ {p} : srset'[r] = srset[r] BY <1>14, <1>15
<1>19. SrTyped'
  <2>1. SubRefTypeOK' BY <1>0, <1>1, <1>6, <1>13, <1>16 DEF SrTyped, SubRefTypeOK, SrValues
  <2>2. QED BY <1>0, <1>2, <2>1 DEF SrTyped
<1>20. SrStored'
  <2>1. ASSUME NEW r \in PsPublishers
        PROVE  /\ IsInjective(pstodo[r]) /\ Range(pstodo[r]) \subseteq Range(PsMessages[r])
               /\ srset'[r] => pstodo[r] # <<>>
               /\ \A w \in Range(pstodo[r]) \cap Range(g) : srset'[r] /\ w = Head(pstodo[r])
    <3>1. /\ IsInjective(pstodo[r]) /\ Range(pstodo[r]) \subseteq Range(PsMessages[r])
          /\ srset[r] => pstodo[r] # <<>>
          /\ \A w \in Range(pstodo[r]) \cap Range(h) : srset[r] /\ w = Head(pstodo[r])
      BY <1>0, <1>7 DEF SrStored
    <3>2. CASE r = p
      <4>1. \A w \in Range(t) \cap Range(g) : w = v
        <5>1. Range(t) \cap Range(h) = {} BY <1>3, <1>4, <3>1, <3>2
        <5>2. QED BY <5>1, <1>11
      <4>2. QED BY <3>1, <3>2, <4>1, <1>3, <1>4, <1>5, <1>17
    <3>3. CASE r # p
      <4>1. Range(PsMessages[p]) \cap Range(PsMessages[r]) = {} BY <3>3, PubSubAssumption
      <4>2. Range(t) \subseteq Range(PsMessages[p]) BY <1>0, <1>3 DEF SrStored
      <4>3. v \notin Range(pstodo[r]) BY <3>1, <4>1, <4>2, <1>6
      <4>4. Range(pstodo[r]) \cap Range(g) = Range(pstodo[r]) \cap Range(h) BY <4>3, <1>11
      <4>5. srset'[r] = srset[r] BY <3>3, <1>18
      <4>6. QED BY <3>1, <4>4, <4>5
    <3>4. QED BY <3>2, <3>3
  <2>2. v = IF Len(g) = 0 THEN SrInitial ELSE g[Len(g)] BY <1>12
  <2>3. QED BY <1>2, <1>11, <1>13, <2>1, <2>2 DEF SrStored
<1>21. ASSUME NEW s \in PsSubs PROVE SrTask(s)' /\ SrGiven(s)'
  <2>1. SrTask(s) /\ SrGiven(s) BY <1>0
  <2>2. SrTask(s)' BY <2>1, <1>1, <1>2 DEF SrTask
  <2>3. SrDue(s)' = SrDue(s) BY <1>2 DEF SrDue
  <2>4. ASSUME SrKept(s) PROVE SrKept(s)'
    <3>1. PICK k \in 0..Len(h) :
            /\ srcur[s] = IF k = 0 THEN SrInitial ELSE h[k]
            /\ \A i \in k + 1..Len(h) : h[i] \in SrDue(s) \/ SrPending(h[i])
      BY <1>7, <2>4 DEF SrKept
    <3>2. \A w : SrPending(w) => SrPending(w)'
      <4> SUFFICES ASSUME NEW w, NEW r \in PsPublishers, srset[r], Head(pstodo[r]) = w
                   PROVE  srset'[r] /\ Head(pstodo[r]) = w
        BY <1>2 DEF SrPending
      <4>1. QED BY <1>17, <1>18
    <3>3. SrPending(v)' BY <1>2, <1>3, <1>5, <1>17 DEF SrPending
    <3>4. ASSUME NEW i \in k + 1..Len(g) PROVE g[i] \in SrDue(s)' \/ SrPending(g[i])'
      <4>1. CASE i = Len(g)
        <5>1. g[i] = v BY <4>1, <1>12
        <5>2. SrPending(g[i])'
          <6>1. PICK r \in PsPublishers : srset'[r] /\ Head(pstodo'[r]) = v BY <3>3 DEF SrPending
          <6>2. g[i]' = g[i] BY <1>12, <1>13, <4>1
          <6>3. QED BY <5>1, <6>1, <6>2 DEF SrPending
        <5>3. QED BY <5>2
      <4>2. CASE i # Len(g)
        <5>1. i \in k + 1..Len(h) /\ i \in 1..Len(h) BY <4>2, <1>12, <3>1
        <5>2. g[i] = h[i] BY <5>1, <1>12
        <5>3. QED BY <5>1, <5>2, <3>1, <3>2, <2>3
      <4>3. QED BY <4>1, <4>2
    <3>5. k \in 0..Len(g) /\ srcur[s] = IF k = 0 THEN SrInitial ELSE g[k]
      BY <3>1, <1>12
    <3>6. QED BY <3>4, <3>5, <1>1, <1>13 DEF SrKept
  <2>5. SrGiven(s)' BY <2>1, <2>4, <1>1, <1>2 DEF SrGiven
  <2>6. QED BY <2>2, <2>5
<1>22. QED BY <1>19, <1>20, <1>21 DEF SubRefIInv

\* What a setter publishes is sent, as long as a subscriber's scope is open, and becomes due
\* to every subscriber.
LEMMA SrPublishOk == ASSUME SubRefIInv, NEW p \in PsPublishers, SrPublish(p) PROVE SubRefIInv'
<1>0. SrTyped /\ SrStored /\ \A s \in PsSubs : SrTask(s) /\ SrGiven(s) BY DEF SubRefIInv
<1>1. /\ srset[p] /\ srval' = srval /\ srhist' = srhist /\ srat' = srat /\ srcur' = srcur
      /\ pstodo[p] # <<>> /\ psmode' = psmode /\ pstx' = pstx
      /\ pssub' = pssub
  BY DEF SrPublish, Publish
<1>2. /\ psat' = psat /\ psnext' = psnext /\ psfwd' = psfwd /\ psheld' = psheld
      /\ psabort' = psabort /\ psscope' = psscope /\ psq' = psq /\ psqopen' = psqopen
  BY <1>1 DEF pssub
<1>3. PICK t \in Seq(PsValues) : t = pstodo[p] BY <1>0 DEF SrTyped
<1>4. IsInjective(t) /\ t # <<>> BY <1>0, <1>1, <1>3 DEF SrStored
<1>5. PICK v : v = Head(t) OBVIOUS
<1>6. /\ Tail(t) \in Seq(PsValues) /\ v \in PsValues /\ v \in Range(t)
      /\ IsInjective(Tail(t)) /\ Range(Tail(t)) = Range(t) \ {v}
  BY <1>4, <1>5, TailOnce
<1>7. pstodo' = [pstodo EXCEPT ![p] = Tail(t)] BY <1>3 DEF SrPublish, Publish
<1>8. pstodo \in [PsPublishers -> Seq(PsValues)] BY <1>0 DEF SrTyped
<1>9. pstodo' \in [PsPublishers -> Seq(PsValues)] BY <1>6, <1>7, <1>8
<1>10. pstodo'[p] = Tail(t) /\ \A r \in PsPublishers \ {p} : pstodo'[r] = pstodo[r] BY <1>7, <1>8
<1>11. srset' = [srset EXCEPT ![p] = FALSE] BY DEF SrPublish
<1>12. srset \in [PsPublishers -> BOOLEAN] BY <1>0 DEF SrTyped, SubRefTypeOK
<1>13. srset' \in [PsPublishers -> BOOLEAN] BY <1>11, <1>12, Zenon
<1>14. srset'[p] = FALSE BY <1>11, <1>12, Zenon
<1>15. \A r \in PsPublishers \ {p} : srset'[r] = srset[r] BY <1>11, <1>12
<1>16. PICK log \in Seq(PsValues) : log = pslog BY <1>0 DEF SrTyped
<1>17. pslog' = log \/ pslog' = Append(log, v) BY <1>3, <1>5, <1>16 DEF SrPublish, Publish
<1>18. /\ pslog' \in Seq(PsValues) /\ Len(log) \in Nat /\ Len(pslog') \in Nat /\ Len(log) <= Len(pslog')
       /\ \A i \in 1..Len(log) : pslog'[i] = log[i]
  <2>1. CASE pslog' = log BY <2>1, <1>16
  <2>2. CASE pslog' = Append(log, v) BY <2>2, <1>6
  <2>3. QED BY <1>17, <2>1, <2>2
<1>19. SrTyped'
  <2>1. SubRefTypeOK' BY <1>0, <1>1, <1>13 DEF SrTyped, SubRefTypeOK
  <2>2. QED BY <1>0, <1>1, <1>2, <1>9, <1>18, <2>1 DEF SrTyped
<1>20. SrStored'
  <2>1. ASSUME NEW r \in PsPublishers
        PROVE  /\ IsInjective(pstodo'[r]) /\ Range(pstodo'[r]) \subseteq Range(PsMessages[r])
               /\ srset'[r] => pstodo'[r] # <<>>
               /\ \A w \in Range(pstodo'[r]) \cap Range(srhist) : srset'[r] /\ w = Head(pstodo'[r])
    <3>1. /\ IsInjective(pstodo[r]) /\ Range(pstodo[r]) \subseteq Range(PsMessages[r])
          /\ srset[r] => pstodo[r] # <<>>
          /\ \A w \in Range(pstodo[r]) \cap Range(srhist) : srset[r] /\ w = Head(pstodo[r])
      BY <1>0 DEF SrStored
    <3>2. CASE r = p
      <4>1. Range(Tail(t)) \cap Range(srhist) = {} BY <1>3, <1>5, <1>6, <3>1, <3>2
      <4>2. QED BY <3>1, <3>2, <4>1, <1>3, <1>6, <1>10, <1>14
    <3>3. CASE r # p BY <3>1, <3>3, <1>10, <1>15
    <3>4. QED BY <3>2, <3>3
  <2>2. QED BY <1>0, <1>1, <2>1 DEF SrStored
<1>21. ASSUME NEW s \in PsSubs PROVE SrTask(s)' /\ SrGiven(s)'
  <2>1. SrTask(s) /\ SrGiven(s) BY <1>0
  <2>2. SrTask(s)'
    <3>1. psat[s] # "no" => psnext[s] \in 1..Len(pslog') + 1 BY <2>1, <1>16, <1>18 DEF SrTask
    <3>2. QED BY <2>1, <3>1, <1>1, <1>2 DEF SrTask
  <2>3. ASSUME SrKept(s), srat[s] # "no", psscope[s] = "open" PROVE SrKept(s)'
    <3>1. psnext[s] \in 1..Len(log) + 1 /\ psfwd[s] \notin {"shut", "ended"} BY <2>1, <2>3, <1>16 DEF SrTask
    <3>2. s \in PsAlive BY <3>1 DEF PsAlive
    <3>3. pslog' = Append(log, v)
      <4>1. pstx /\ PsRoom /\ PsAlive # {} BY <1>0, <3>2 DEF SrTyped, PsRoom
      <4>2. QED BY <4>1, <1>3, <1>5, <1>16 DEF SrPublish, Publish
    <3>4. pslog'[Len(log) + 1] = v /\ Len(pslog') = Len(log) + 1 BY <3>3, <1>6
    <3>5. v \in SrDue(s)'
      <4>1. Len(log) + 1 \in psnext[s]..Len(pslog') BY <3>1, <3>4, <1>18
      <4>2. v \in {pslog'[i] : i \in psnext'[s]..Len(pslog')} BY <1>2, <3>4, <4>1
      <4>3. QED BY <4>2 DEF SrDue
    <3>6. SrDue(s) \subseteq SrDue(s)'
      <4>1. {log[i] : i \in psnext[s]..Len(log)} \subseteq {pslog'[i] : i \in psnext[s]..Len(pslog')}
        <5> SUFFICES ASSUME NEW i \in psnext[s]..Len(log)
                     PROVE  i \in psnext[s]..Len(pslog') /\ pslog'[i] = log[i]
          BY <3>1
        <5>1. QED BY <3>1, <1>18
      <4>2. QED BY <4>1, <1>2, <1>16 DEF SrDue
    <3>7. ASSUME NEW w, SrPending(w) PROVE w = v \/ SrPending(w)'
      <4>1. PICK r \in PsPublishers : srset[r] /\ Head(pstodo[r]) = w BY <3>7 DEF SrPending
      <4>2. CASE r = p BY <4>1, <4>2, <1>3, <1>5
      <4>3. CASE r # p BY <4>1, <4>3, <1>10, <1>15 DEF SrPending
      <4>4. QED BY <4>2, <4>3
    <3>8. PICK k \in 0..Len(srhist) :
            /\ srcur[s] = IF k = 0 THEN SrInitial ELSE srhist[k]
            /\ \A i \in k + 1..Len(srhist) : srhist[i] \in SrDue(s) \/ SrPending(srhist[i])
      BY <2>3 DEF SrKept
    <3>9. ASSUME NEW i \in k + 1..Len(srhist) PROVE (srhist[i] \in SrDue(s) \/ SrPending(srhist[i]))'
      <4>1. PICK w : w = srhist[i] OBVIOUS
      <4>2. w = srhist'[i] BY <4>1, <1>1
      <4>3. w \in SrDue(s)' \/ SrPending(w)' BY <4>1, <3>5, <3>6, <3>7, <3>8
      <4>4. SrPending(w)' => SrPending(srhist[i])' BY <4>2 DEF SrPending
      <4>5. QED BY <4>2, <4>3, <4>4
    <3>10. QED BY <3>8, <3>9, <1>1 DEF SrKept
  <2>4. SrGiven(s)' BY <2>1, <2>3, <1>1, <1>2 DEF SrGiven
  <2>5. QED BY <2>2, <2>4
<1>22. QED BY <1>19, <1>20, <1>21 DEF SubRefIInv

\* A subscriber reads the value stored last: nothing was stored after it.
LEMMA SrGetOk == ASSUME SubRefIInv, NEW s \in PsSubs, SrGet(s) PROVE SubRefIInv'
<1>0. SrTyped /\ SrStored /\ SrTask(s) /\ SrGiven(s) BY DEF SubRefIInv
<1>1. psvars' = psvars /\ srval' = srval /\ srhist' = srhist /\ srset' = srset BY DEF SrGet
<1>2. /\ pslog' = pslog /\ pstodo' = pstodo /\ psmode' = psmode /\ pstx' = pstx /\ psat' = psat
      /\ psnext' = psnext /\ psfwd' = psfwd /\ psheld' = psheld /\ psabort' = psabort
      /\ psscope' = psscope /\ psq' = psq /\ psqopen' = psqopen
  BY <1>1 DEF psvars, pshub, pssub
<1>3. srcur' = [srcur EXCEPT ![s] = srval] /\ srat' = [srat EXCEPT ![s] = "offer"] /\ psat[s] = "yes"
  BY DEF SrGet
<1>4. srcur \in [PsSubs -> SrValues] /\ srat \in [PsSubs -> {"no", "offer", "yes"}] /\ srval \in SrValues
  BY <1>0 DEF SrTyped, SubRefTypeOK
<1>5. /\ srcur' \in [PsSubs -> SrValues] /\ srat' \in [PsSubs -> {"no", "offer", "yes"}]
      /\ srcur'[s] = srval /\ srat'[s] = "offer"
      /\ \A u \in PsSubs \ {s} : srcur'[u] = srcur[u] /\ srat'[u] = srat[u]
  BY <1>3, <1>4
<1>6. SrTyped'
  <2>1. SubRefTypeOK' BY <1>0, <1>1, <1>5 DEF SrTyped, SubRefTypeOK
  <2>2. QED BY <1>0, <1>2, <2>1 DEF SrTyped
<1>7. SrTask(s)' BY <1>0, <1>2, <1>3, <1>5 DEF SrTask
<1>8. SrKept(s)'
  <2>1. PICK k : k = Len(srhist) OBVIOUS
  <2>2. k \in 0..Len(srhist) /\ k + 1..Len(srhist) = {} BY <1>0, <2>1 DEF SrTyped, SubRefTypeOK
  <2>3. srval = IF k = 0 THEN SrInitial ELSE srhist[k] BY <1>0, <2>1 DEF SrStored
  <2>4. QED BY <1>1, <1>5, <2>2, <2>3 DEF SrKept
<1>9. SrGiven(s)' BY <1>5, <1>8 DEF SrGiven
<1>10. QED BY <1>1, <1>2, <1>5, <1>6, <1>7, <1>9, SrLocal

\* What was read enters the queue behind what is there.
LEMMA SrOfferOk == ASSUME SubRefIInv, NEW s \in PsSubs, SrOffer(s) PROVE SubRefIInv'
<1>0. SrTyped /\ SrStored /\ SrTask(s) /\ SrGiven(s) BY DEF SubRefIInv
<1>1. /\ srval' = srval /\ srhist' = srhist /\ srset' = srset /\ srcur' = srcur /\ pshub' = pshub
      /\ psat' = psat /\ psnext' = psnext /\ psfwd' = psfwd /\ psheld' = psheld /\ psabort' = psabort
      /\ psscope' = psscope /\ psqopen' = psqopen
  BY DEF SrOffer
<1>2. pslog' = pslog /\ pstodo' = pstodo /\ psmode' = psmode /\ pstx' = pstx BY <1>1 DEF pshub
<1>3. PICK q \in Seq(SrValues) : q = psq[s] BY <1>0 DEF SrTyped
<1>4. PICK c \in SrValues : c = srcur[s] BY <1>0 DEF SrTyped, SubRefTypeOK
<1>5. PICK n : n = IF psqopen[s] THEN Append(q, c) ELSE q OBVIOUS
<1>6. n \in Seq(SrValues) /\ Range(q) \subseteq Range(n) /\ (psqopen[s] => c \in Range(n))
  BY <1>5, RangeAppend
<1>7. psq' = [psq EXCEPT ![s] = n] BY <1>3, <1>4, <1>5 DEF SrOffer
<1>8. psq \in [PsSubs -> Seq(SrValues)] BY <1>0 DEF SrTyped
<1>9. psq' \in [PsSubs -> Seq(SrValues)] BY <1>6, <1>7, <1>8
<1>10. psq'[s] = n /\ \A u \in PsSubs \ {s} : psq'[u] = psq[u] BY <1>7, <1>8
<1>11. srat' = [srat EXCEPT ![s] = "yes"] /\ srat[s] = "offer" BY DEF SrOffer
<1>12. srat \in [PsSubs -> {"no", "offer", "yes"}] BY <1>0 DEF SrTyped, SubRefTypeOK
<1>13. /\ srat' \in [PsSubs -> {"no", "offer", "yes"}] /\ srat'[s] = "yes"
       /\ \A u \in PsSubs \ {s} : srat'[u] = srat[u]
  BY <1>11, <1>12
<1>14. SrTyped'
  <2>1. SubRefTypeOK' BY <1>0, <1>1, <1>13 DEF SrTyped, SubRefTypeOK
  <2>2. QED BY <1>0, <1>1, <1>2, <1>9, <2>1 DEF SrTyped
<1>15. SrTask(s)' BY <1>0, <1>1, <1>2, <1>11 DEF SrTask
<1>16. SrDue(s) \subseteq SrDue(s)' BY <1>1, <1>2, <1>3, <1>6, <1>10 DEF SrDue
<1>17. SrKept(s) => SrKept(s)' BY <1>1, <1>2, <1>16, SrStillKept
<1>18. SrGiven(s)'
  <2>1. psqopen[s] => srcur[s] \in Range(n) BY <1>4, <1>6
  <2>2. psqopen[s] /\ psscope[s] = "open" => SrKept(s)' BY <1>0, <1>11, <1>17 DEF SrGiven
  <2>3. QED BY <1>1, <1>10, <2>1, <2>2 DEF SrGiven
<1>19. QED BY <1>1, <1>2, <1>10, <1>13, <1>14, <1>15, <1>18, SrLocal

\* The task receives the next message, which was due, and has it in its hand.
LEMMA SrRecvOk ==
  ASSUME SubRefIInv, NEW s \in PsSubs, PsRecv(s), UNCHANGED srown PROVE SubRefIInv'
<1>0. SrTyped /\ SrStored /\ SrTask(s) /\ SrGiven(s) BY DEF SubRefIInv
<1>1. /\ srval' = srval /\ srhist' = srhist /\ srset' = srset /\ srcur' = srcur /\ srat' = srat
      /\ pshub' = pshub /\ psat' = psat /\ psabort' = psabort
      /\ psscope' = psscope /\ psqopen' = psqopen /\ psq' = psq
  BY DEF PsRecv, srown
<1>2. pslog' = pslog /\ pstodo' = pstodo /\ psmode' = psmode /\ pstx' = pstx BY <1>1 DEF pshub
<1>3. PICK log \in Seq(PsValues) : log = pslog BY <1>0 DEF SrTyped
<1>4. PICK n \in Nat : n = psnext[s] BY <1>0 DEF SrTyped
<1>5. psfwd[s] = "recv" BY DEF PsRecv
<1>6. n \in 1..Len(log) /\ Len(log) \in Nat
  <2>1. n \in 1..Len(log) + 1 BY <1>0, <1>3, <1>4, <1>5 DEF SrTask
  <2>2. Len(log) + 1 - n \in 1..PsPlaces BY <1>3, <1>4 DEF PsRecv, PsLag
  <2>3. PsPlaces = Len(log) + 1 BY <1>0, <1>3 DEF SrTyped, PsPlaces
  <2>4. QED BY <2>1, <2>2, <2>3
<1>7. PICK held \in Seq(PsValues) : held = <<log[n]>>
  <2>1. log[n] \in PsValues BY <1>6
  <2>2. <<log[n]>> \in Seq(PsValues) BY <2>1
  <2>3. QED BY <2>2, Zenon
<1>8. log[n] \in Range(held)
  <2>1. 1 \in DOMAIN held /\ held[1] = log[n] BY <1>7
  <2>2. QED BY <2>1 DEF Range
<1>9. /\ psheld' = [psheld EXCEPT ![s] = held] /\ psnext' = [psnext EXCEPT ![s] = n + 1]
      /\ psfwd' = [psfwd EXCEPT ![s] = "offer"]
  BY <1>3, <1>4, <1>7 DEF PsRecv
<1>10. /\ psheld \in [PsSubs -> Seq(PsValues)] /\ psnext \in [PsSubs -> Nat]
       /\ psfwd \in [PsSubs -> {"none", "recv", "offer", "shut", "ended"}]
  BY <1>0 DEF SrTyped
<1>11. /\ psheld' \in [PsSubs -> Seq(PsValues)] /\ psnext' \in [PsSubs -> Nat]
       /\ psfwd' \in [PsSubs -> {"none", "recv", "offer", "shut", "ended"}]
  BY <1>9, <1>10
<1>12. /\ psheld'[s] = held /\ psnext'[s] = n + 1 /\ psfwd'[s] = "offer"
       /\ \A u \in PsSubs \ {s} : psheld'[u] = psheld[u] /\ psnext'[u] = psnext[u] /\ psfwd'[u] = psfwd[u]
  BY <1>9, <1>10
<1>13. SrTyped'
  <2>1. SubRefTypeOK' BY <1>0, <1>1 DEF SrTyped, SubRefTypeOK
  <2>2. QED BY <1>0, <1>1, <1>2, <1>11, <2>1 DEF SrTyped
<1>14. SrTask(s)' BY <1>0, <1>1, <1>2, <1>3, <1>5, <1>6, <1>12 DEF SrTask
<1>15. SrDue(s) \subseteq SrDue(s)'
  <2>1. Range(psheld[s]) = {}
    <3>1. psheld[s] = <<>> BY <1>0, <1>5 DEF SrTask
    <3>2. QED BY <3>1, EmptyLine
  <2>2. ASSUME NEW i \in n..Len(log)
        PROVE  log[i] \in Range(held) \cup {log[j] : j \in n + 1..Len(log)}
    <3>1. CASE i = n BY <3>1, <1>8
    <3>2. CASE i # n
      <4>1. i \in n + 1..Len(log) BY <3>2, <1>6
      <4>2. QED BY <4>1
    <3>3. QED BY <3>1, <3>2
  <2>3. QED BY <1>1, <1>2, <1>3, <1>4, <1>12, <2>1, <2>2 DEF SrDue
<1>16. SrKept(s) => SrKept(s)' BY <1>1, <1>2, <1>15, SrStillKept
<1>17. SrGiven(s)' BY <1>0, <1>1, <1>16 DEF SrGiven
<1>18. QED BY <1>1, <1>2, <1>12, <1>13, <1>14, <1>17, SrLocal

\* The task offers its message.
LEMMA SrForwardOk ==
  ASSUME SubRefIInv, NEW s \in PsSubs, PsForward(s), UNCHANGED srown PROVE SubRefIInv'
<1>0. SrTyped /\ SrStored /\ SrTask(s) /\ SrGiven(s) BY DEF SubRefIInv
<1>1. /\ srval' = srval /\ srhist' = srhist /\ srset' = srset /\ srcur' = srcur /\ srat' = srat
      /\ pshub' = pshub /\ psat' = psat /\ psabort' = psabort /\ psnext' = psnext
      /\ psscope' = psscope /\ psqopen' = psqopen
  BY DEF PsForward, srown
<1>2. pslog' = pslog /\ pstodo' = pstodo /\ psmode' = psmode /\ pstx' = pstx BY <1>1 DEF pshub
<1>3. PICK q \in Seq(SrValues) : q = psq[s] BY <1>0 DEF SrTyped
<1>4. PICK held \in Seq(SrValues) : held = psheld[s]
  <2>1. PsValues \subseteq SrValues BY DEF SrValues
  <2>2. psheld[s] \in Seq(PsValues) BY <1>0 DEF SrTyped
  <2>3. psheld[s] \in Seq(SrValues) BY <2>1, <2>2, SeqMonotonic
  <2>4. QED BY <2>3
<1>5. PICK n : n = IF psqopen[s] THEN q \o held ELSE q OBVIOUS
<1>6. /\ n \in Seq(SrValues) /\ Range(q) \subseteq Range(n)
      /\ psqopen[s] => Range(n) = Range(q) \cup Range(held)
  BY <1>5, TwoParts, PartsApart
<1>7. /\ psq' = [psq EXCEPT ![s] = n] /\ psheld' = [psheld EXCEPT ![s] = <<>>]
      /\ psfwd' = [psfwd EXCEPT ![s] = "recv"] /\ psfwd[s] = "offer"
  BY <1>3, <1>4, <1>5 DEF PsForward
<1>8. /\ psq \in [PsSubs -> Seq(SrValues)] /\ psheld \in [PsSubs -> Seq(PsValues)]
      /\ psfwd \in [PsSubs -> {"none", "recv", "offer", "shut", "ended"}]
  BY <1>0 DEF SrTyped
<1>9. /\ psq' \in [PsSubs -> Seq(SrValues)] /\ psheld' \in [PsSubs -> Seq(PsValues)]
      /\ psfwd' \in [PsSubs -> {"none", "recv", "offer", "shut", "ended"}]
  BY <1>6, <1>7, <1>8
<1>10. /\ psq'[s] = n /\ psheld'[s] = <<>> /\ psfwd'[s] = "recv"
       /\ \A u \in PsSubs \ {s} : psheld'[u] = psheld[u] /\ psq'[u] = psq[u] /\ psfwd'[u] = psfwd[u]
  BY <1>7, <1>8
<1>11. SrTyped'
  <2>1. SubRefTypeOK' BY <1>0, <1>1 DEF SrTyped, SubRefTypeOK
  <2>2. QED BY <1>0, <1>1, <1>2, <1>9, <2>1 DEF SrTyped
<1>12. SrTask(s)' BY <1>0, <1>1, <1>2, <1>7, <1>10 DEF SrTask
<1>13. psqopen[s] => SrDue(s) \subseteq SrDue(s)'
  BY <1>1, <1>2, <1>3, <1>4, <1>6, <1>10 DEF SrDue
<1>14. psqopen[s] /\ SrKept(s) => SrKept(s)' BY <1>1, <1>2, <1>13, SrStillKept
<1>15. SrGiven(s)' BY <1>0, <1>1, <1>3, <1>6, <1>10, <1>14 DEF SrGiven
<1>16. QED BY <1>1, <1>2, <1>10, <1>11, <1>12, <1>15, SrLocal

\* The receiver is made, before the cell is read.
LEMMA SrSubscribeOk ==
  ASSUME SubRefIInv, NEW s \in PsSubs, PsSubscribe(s), UNCHANGED srown PROVE SubRefIInv'
<1>0. SrTyped /\ SrStored /\ SrTask(s) /\ SrGiven(s) BY DEF SubRefIInv
<1>1. /\ srval' = srval /\ srhist' = srhist /\ srset' = srset /\ srcur' = srcur /\ srat' = srat
      /\ pshub' = pshub /\ psfwd' = psfwd /\ psheld' = psheld /\ psabort' = psabort
      /\ psscope' = psscope /\ psq' = psq
  BY DEF PsSubscribe, srown
<1>2. pslog' = pslog /\ pstodo' = pstodo /\ psmode' = psmode /\ pstx' = pstx BY <1>1 DEF pshub
<1>3. /\ psat' = [psat EXCEPT ![s] = "receiver"] /\ psnext' = [psnext EXCEPT ![s] = Len(pslog) + 1]
      /\ psqopen' = psqopen /\ psat[s] = "no"
  BY <1>0 DEF PsSubscribe, SrTyped
<1>4. /\ psat \in [PsSubs -> {"no", "receiver", "spawned", "yes"}] /\ psnext \in [PsSubs -> Nat]
      /\ Len(pslog) \in Nat
  BY <1>0 DEF SrTyped
<1>5. /\ psat' \in [PsSubs -> {"no", "receiver", "spawned", "yes"}] /\ psnext' \in [PsSubs -> Nat]
      /\ psat'[s] = "receiver" /\ psnext'[s] = Len(pslog) + 1
      /\ \A u \in PsSubs \ {s} : psat'[u] = psat[u] /\ psnext'[u] = psnext[u]
  BY <1>3, <1>4
<1>6. SrTyped'
  <2>1. SubRefTypeOK' BY <1>0, <1>1 DEF SrTyped, SubRefTypeOK
  <2>2. QED BY <1>0, <1>1, <1>2, <1>3, <1>5, <2>1 DEF SrTyped
<1>7. srat[s] = "no" BY <1>0, <1>3 DEF SrTask
<1>8. SrTask(s)' BY <1>0, <1>1, <1>2, <1>3, <1>4, <1>5, <1>7 DEF SrTask
<1>9. SrGiven(s)' BY <1>1, <1>7 DEF SrGiven
<1>10. QED BY <1>1, <1>2, <1>3, <1>5, <1>6, <1>8, <1>9, SrLocal

\* A subscription moves on, or its scope closes, without moving a message; the hub of a cell
\* is never shut down, so that the task neither lags nor meets its end.
LEMMA SrFlagOk ==
  ASSUME SubRefIInv, NEW s \in PsSubs, UNCHANGED srown,
         \/ PsSpawn(s) \/ PsAddFinalizer(s) \/ PsLagged(s) \/ PsClosed(s) \/ PsShutQueue(s)
         \/ PsAborted(s) \/ PsCloseScope(s) \/ PsAbort(s) \/ PsFinShut(s)
  PROVE  SubRefIInv'
<1>0. SrTyped /\ SrStored /\ SrTask(s) /\ SrGiven(s) BY DEF SubRefIInv
<1>a. ~PsClosed(s) /\ ~PsShutQueue(s) BY <1>0 DEF PsClosed, PsShutQueue, SrTyped, SrTask
<1>b. ~PsLagged(s)
  <2>1. Len(pslog) \in Nat /\ psnext[s] \in Nat /\ PsPlaces = Len(pslog) + 1
    BY <1>0 DEF SrTyped, PsPlaces
  <2>2. QED BY <2>1 DEF PsLagged, PsLag
<1>1. /\ srval' = srval /\ srhist' = srhist /\ srset' = srset /\ srcur' = srcur /\ srat' = srat
  BY DEF srown
<1>2. pshub' = pshub /\ psnext' = psnext /\ psheld' = psheld /\ psq' = psq
  BY <1>a, <1>b DEF PsSpawn, PsAddFinalizer, PsAborted, PsCloseScope, PsAbort, PsFinShut
<1>3. pslog' = pslog /\ pstodo' = pstodo /\ psmode' = psmode /\ pstx' = pstx BY <1>2 DEF pshub
<1>4. /\ psat \in [PsSubs -> {"no", "receiver", "spawned", "yes"}]
      /\ psfwd \in [PsSubs -> {"none", "recv", "offer", "shut", "ended"}]
      /\ psscope \in [PsSubs -> {"open", "closing", "queue", "closed"}]
  BY <1>0 DEF SrTyped
<1>5. psabort \in [PsSubs -> BOOLEAN] /\ psqopen \in [PsSubs -> BOOLEAN] BY <1>0 DEF SrTyped
<1>6. /\ psat' \in [PsSubs -> {"no", "receiver", "spawned", "yes"}]
      /\ psfwd' \in [PsSubs -> {"none", "recv", "offer", "shut", "ended"}]
      /\ \A u \in PsSubs \ {s} : psat'[u] = psat[u] /\ psfwd'[u] = psfwd[u]
  BY <1>4, <1>a, <1>b DEF PsSpawn, PsAddFinalizer, PsAborted, PsCloseScope, PsAbort, PsFinShut
<1>7. /\ psscope' \in [PsSubs -> {"open", "closing", "queue", "closed"}]
      /\ \A u \in PsSubs \ {s} : psscope'[u] = psscope[u]
  BY <1>4, <1>a, <1>b DEF PsSpawn, PsAddFinalizer, PsAborted, PsCloseScope, PsAbort, PsFinShut
<1>8. psabort' = psabort \/ (PsAbort(s) /\ psabort' = [psabort EXCEPT ![s] = TRUE])
  BY <1>a, <1>b DEF PsSpawn, PsAddFinalizer, PsAborted, PsCloseScope, PsAbort, PsFinShut
<1>9. psqopen' = psqopen \/ psqopen' = [psqopen EXCEPT ![s] = FALSE]
  BY <1>a, <1>b DEF PsSpawn, PsAddFinalizer, PsAborted, PsCloseScope, PsAbort, PsFinShut
<1>10. psabort' \in [PsSubs -> BOOLEAN] /\ \A u \in PsSubs \ {s} : psabort'[u] = psabort[u]
  <2>1. CASE psabort' = psabort BY <2>1, <1>5
  <2>2. CASE psabort' = [psabort EXCEPT ![s] = TRUE]
    <3>1. psabort' \in [PsSubs -> BOOLEAN] BY <2>2, <1>5, Zenon
    <3>2. \A u \in PsSubs \ {s} : psabort'[u] = psabort[u] BY <2>2, <1>5
    <3>3. QED BY <3>1, <3>2
  <2>3. QED BY <1>8, <2>1, <2>2
<1>11. psabort[s] => psabort'[s]
  <2>1. CASE psabort' = psabort BY <2>1
  <2>2. CASE psabort' = [psabort EXCEPT ![s] = TRUE]
    <3>1. psabort'[s] = TRUE BY <2>2, <1>5, Zenon
    <3>2. QED BY <3>1
  <2>3. QED BY <1>8, <2>1, <2>2
<1>12. /\ psqopen' \in [PsSubs -> BOOLEAN] /\ \A u \in PsSubs \ {s} : psqopen'[u] = psqopen[u]
       /\ psqopen'[s] => psqopen[s]
  <2>1. CASE psqopen' = psqopen BY <2>1, <1>5
  <2>2. CASE psqopen' = [psqopen EXCEPT ![s] = FALSE]
    <3>1. psqopen' \in [PsSubs -> BOOLEAN] BY <2>2, <1>5, Zenon
    <3>2. \A u \in PsSubs \ {s} : psqopen'[u] = psqopen[u] BY <2>2, <1>5
    <3>3. psqopen'[s] = FALSE BY <2>2, <1>5, Zenon
    <3>4. QED BY <3>1, <3>2, <3>3
  <2>3. QED BY <1>9, <2>1, <2>2
<1>13. SrTyped'
  <2>1. SubRefTypeOK' BY <1>0, <1>1 DEF SrTyped, SubRefTypeOK
  <2>2. QED BY <1>0, <1>2, <1>3, <1>6, <1>7, <1>10, <1>12, <2>1 DEF SrTyped
<1>14. SrTask(s)'
  <2>1. /\ psat'[s] = "no" => psat[s] = "no"
        /\ psat[s] = "yes" => psat'[s] = "yes"
        /\ psfwd'[s] # "shut" /\ (psat'[s] \in {"no", "receiver"} => psfwd'[s] = "none")
        /\ psfwd'[s] # "offer" => psheld[s] = <<>>
    <3>1. CASE PsSpawn(s) BY <3>1, <1>0, <1>4 DEF PsSpawn, SrTask
    <3>2. CASE PsAddFinalizer(s) BY <3>2, <1>0, <1>4 DEF PsAddFinalizer, SrTask
    <3>3. CASE PsAborted(s) BY <3>3, <1>0, <1>4 DEF PsAborted, SrTask
    <3>4. CASE psat' = psat /\ psfwd' = psfwd BY <3>4, <1>0, <1>4 DEF SrTask
    <3>5. QED BY <3>1, <3>2, <3>3, <3>4, <1>a, <1>b DEF PsCloseScope, PsAbort, PsFinShut
  <2>2. psfwd'[s] = "ended" => psabort[s]
    BY <1>0, <1>4, <1>a, <1>b
       DEF PsSpawn, PsAddFinalizer, PsAborted, PsCloseScope, PsAbort, PsFinShut, SrTask
  <2>3. psabort'[s] => psscope'[s] # "open"
    <3>1. CASE PsAbort(s) BY <3>1, <1>4 DEF PsAbort
    <3>2. CASE psabort' = psabort
      <4>1. psscope[s] # "open" => psscope'[s] # "open"
        BY <1>4, <1>a, <1>b DEF PsSpawn, PsAddFinalizer, PsAborted, PsCloseScope, PsAbort, PsFinShut
      <4>2. QED BY <3>2, <4>1, <1>0 DEF SrTask
    <3>3. QED BY <3>1, <3>2, <1>8
  <2>4. psscope'[s] = "queue" => psabort'[s]
    <3>1. CASE PsAbort(s)
      <4>1. psabort' = [psabort EXCEPT ![s] = TRUE] BY <3>1 DEF PsAbort
      <4>2. psabort'[s] = TRUE BY <4>1, <1>5, Zenon
      <4>3. QED BY <4>2
    <3>2. CASE ~PsAbort(s)
      <4>1. psscope'[s] = "queue" => psscope[s] = "queue"
        BY <3>2, <1>4, <1>a, <1>b DEF PsSpawn, PsAddFinalizer, PsAborted, PsCloseScope, PsFinShut
      <4>2. QED BY <4>1, <1>0, <1>11 DEF SrTask
    <3>3. QED BY <3>1, <3>2
  <2>5. /\ psat'[s] # "no" => psnext[s] \in 1..Len(pslog) + 1
        /\ srat[s] # "no" => psat'[s] = "yes"
    <3>1. psat[s] = "no" => psat'[s] = "no"
      BY <1>4, <1>a, <1>b DEF PsSpawn, PsAddFinalizer, PsAborted, PsCloseScope, PsAbort, PsFinShut
    <3>2. QED BY <1>0, <2>1, <3>1 DEF SrTask
  <2>6. psfwd'[s] = "ended" => psabort'[s] BY <2>2, <1>11
  <2>7. QED BY <2>1, <2>3, <2>4, <2>5, <2>6, <1>1, <1>2, <1>3 DEF SrTask
<1>15. SrGiven(s)'
  <2>1. SrDue(s)' = SrDue(s) BY <1>2, <1>3 DEF SrDue
  <2>2. SrKept(s) => SrKept(s)' BY <1>1, <1>3, <2>1, SrStillKept
  <2>3. psscope'[s] = "open" => psscope[s] = "open"
    BY <1>4, <1>a, <1>b DEF PsSpawn, PsAddFinalizer, PsAborted, PsCloseScope, PsAbort, PsFinShut
  <2>4. QED BY <1>0, <1>1, <1>2, <1>12, <2>2, <2>3 DEF SrGiven
<1>16. QED BY <1>1, <1>2, <1>3, <1>6, <1>7, <1>10, <1>12, <1>13, <1>14, <1>15, SrLocal

\* It holds at the start.
LEMMA SubRefInitOk == SubRefInit => SubRefIInv
<1> SUFFICES ASSUME SubRefInit PROVE SubRefIInv OBVIOUS
<1>a. PubSubInit /\ psmode = "unbounded" /\ SubRefStart BY DEF SubRefInit
<1>0. Range(<<>>) = {} /\ IsInjective(<<>>) BY EmptyLine
<1>1. pstodo = PsMessages BY <1>a DEF PubSubInit
<1>2. PsMessages \in [PsPublishers -> Seq(PsValues)]
  <2>1. ASSUME NEW p \in PsPublishers PROVE PsMessages[p] \in Seq(PsValues)
    <3>1. PsMessages[p] \in Seq(Range(PsMessages[p])) BY PubSubAssumption
    <3>2. Range(PsMessages[p]) \subseteq PsValues BY DEF PsValues
    <3>3. QED BY <3>1, <3>2, SeqMonotonic
  <2>2. PsMessages = [p \in PsPublishers |-> PsMessages[p]] BY PubSubAssumption
  <2>3. QED BY <2>1, <2>2
<1>3. SubRefTypeOK BY <1>a DEF SubRefStart, SubRefTypeOK, SrValues
<1>4. SrTyped BY <1>a, <1>1, <1>2, <1>3 DEF PubSubInit, SrTyped
<1>5. SrStored
  <2>1. srhist = <<>> /\ srval = SrInitial /\ srset = [p \in PsPublishers |-> FALSE]
    BY <1>a DEF SubRefStart
  <2>2. Len(srhist) = 0 BY <2>1
  <2>3. \A p \in PsPublishers : ~srset[p] BY <2>1
  <2>4. \A p \in PsPublishers : IsInjective(PsMessages[p]) BY PubSubAssumption
  <2>5. QED BY <1>0, <1>1, <2>1, <2>2, <2>3, <2>4 DEF SrStored
<1>6. ASSUME NEW s \in PsSubs PROVE SrTask(s) /\ SrGiven(s)
  <2>1. /\ psat[s] = "no" /\ psfwd[s] = "none" /\ psabort[s] = FALSE
        /\ psscope[s] = "open" /\ psheld[s] = <<>> /\ srat[s] = "no"
    BY <1>a DEF PubSubInit, SubRefStart
  <2>2. QED BY <2>1 DEF SrTask, SrGiven
<1>7. QED BY <1>4, <1>5, <1>6 DEF SubRefIInv

\* Every step keeps it.
LEMMA SubRefNextOk == SubRefIInv /\ [SubRefNext]_srvars => SubRefIInv'
<1> SUFFICES ASSUME SubRefIInv, [SubRefNext]_srvars PROVE SubRefIInv' OBVIOUS
<1>1. ASSUME NEW p \in PsPublishers, SrSet(p) \/ SrPublish(p) PROVE SubRefIInv'
  BY <1>1, SrSetOk, SrPublishOk
<1>2. ASSUME NEW s \in PsSubs, SrGet(s) \/ SrOffer(s) PROVE SubRefIInv' BY <1>2, SrGetOk, SrOfferOk
<1>3. ASSUME NEW s \in PsSubs, PsSubscribe(s) \/ PsRecv(s) \/ PsForward(s), UNCHANGED srown
      PROVE  SubRefIInv'
  BY <1>3, SrSubscribeOk, SrRecvOk, SrForwardOk
<1>4. ASSUME NEW s \in PsSubs, UNCHANGED srown,
             \/ PsSpawn(s) \/ PsAddFinalizer(s) \/ PsLagged(s) \/ PsClosed(s) \/ PsShutQueue(s)
             \/ PsAborted(s) \/ PsCloseScope(s) \/ PsAbort(s) \/ PsFinShut(s)
      PROVE  SubRefIInv'
  BY <1>4, SrFlagOk
<1>5. CASE UNCHANGED srvars
  <2>1. /\ pslog' = pslog /\ pstodo' = pstodo /\ psmode' = psmode /\ pstx' = pstx /\ psat' = psat
        /\ psnext' = psnext /\ psfwd' = psfwd /\ psheld' = psheld /\ psabort' = psabort
        /\ psscope' = psscope /\ psq' = psq /\ psqopen' = psqopen
    BY <1>5 DEF srvars, psvars, pshub, pssub
  <2>2. srval' = srval /\ srhist' = srhist /\ srset' = srset /\ srat' = srat /\ srcur' = srcur
    BY <1>5 DEF srvars, srown
  <2>3. SrTyped' /\ SrStored' BY <2>1, <2>2 DEF SubRefIInv, SrTyped, SubRefTypeOK, SrStored
  <2>4. ASSUME NEW s \in PsSubs PROVE SrTask(s)' /\ SrGiven(s)'
    <3>1. SrTask(s) /\ SrGiven(s) BY DEF SubRefIInv
    <3>2. SrKept(s) => SrKept(s)'
      <4>1. SrDue(s)' = SrDue(s) BY <2>1 DEF SrDue
      <4>2. QED BY <2>1, <2>2, <4>1, SrStillKept
    <3>3. QED BY <2>1, <2>2, <3>1, <3>2 DEF SrTask, SrGiven
  <2>5. QED BY <2>3, <2>4 DEF SubRefIInv
<1>6. CASE SubRefNext
  <2>1. SrSubs \subseteq PsSubs BY SubRefAssumption
  <2>2. QED BY <1>1, <1>2, <1>3, <1>4, <1>6, <2>1
            DEF SubRefNext, PsSubscribing, PsForwarder, PsClosing
<1>7. QED BY <1>5, <1>6

\* What was stored after the value that a subscriber read was given to it or is to come.
LEMMA SubRefGives == SubRefIInv => SubRefInv
<1> SUFFICES ASSUME SubRefIInv PROVE SubRefInv OBVIOUS
<1>1. SrTyped /\ SrStored /\ SubRefTypeOK BY DEF SubRefIInv, SrTyped
<1>2. ASSUME NEW s \in PsSubs, srat[s] = "yes", psqopen[s], psscope[s] = "open"
      PROVE  /\ srcur[s] \in Range(psq[s])
             /\ \A i \in SrWhen(srcur[s]) + 1..Len(srhist) :
                  \/ srhist[i] \in Range(PsSeen(s)) \cup Range(SubSeq(pslog, psnext[s], Len(pslog)))
                  \/ \E p \in PsPublishers : srset[p] /\ Head(pstodo[p]) = srhist[i]
  <2>1. SrTask(s) /\ SrGiven(s) BY DEF SubRefIInv
  <2>2. srcur[s] \in Range(psq[s]) /\ SrKept(s) BY <1>2, <2>1 DEF SrGiven
  <2>3. PICK k \in 0..Len(srhist) :
          /\ srcur[s] = IF k = 0 THEN SrInitial ELSE srhist[k]
          /\ \A i \in k + 1..Len(srhist) : srhist[i] \in SrDue(s) \/ SrPending(srhist[i])
    BY <2>2 DEF SrKept
  <2>4. SrWhen(srcur[s]) = k
    <3>1. srhist \in Seq(PsValues) BY <1>1 DEF SubRefTypeOK
    <3>2. DOMAIN srhist = 1..Len(srhist) /\ Len(srhist) \in Nat BY <3>1
    <3>3. CASE k = 0 BY <2>3, <3>3 DEF SrWhen
    <3>4. CASE k # 0
      <4>1. k \in DOMAIN srhist /\ srcur[s] = srhist[k] BY <2>3, <3>2, <3>4
      <4>2. srhist[k] \in PsValues BY <3>1, <3>2, <4>1
      <4>3. srcur[s] # SrInitial BY <4>1, <4>2, SubRefAssumption
      <4>4. \A i \in DOMAIN srhist : srhist[i] = srcur[s] => i = k
        BY <1>1, <4>1 DEF SrStored, IsInjective
      <4>5. (CHOOSE i \in DOMAIN srhist : srhist[i] = srcur[s]) = k BY <4>1, <4>4
      <4>6. QED BY <4>3, <4>5 DEF SrWhen
    <3>5. QED BY <3>3, <3>4
  <2>5. SrDue(s) = Range(PsSeen(s)) \cup Range(SubSeq(pslog, psnext[s], Len(pslog)))
    <3>1. PICK q \in Seq(SrValues) : q = psq[s] BY <1>1 DEF SrTyped
    <3>2. PICK held \in Seq(SrValues) : held = psheld[s]
      <4>1. PsValues \subseteq SrValues BY DEF SrValues
      <4>2. psheld[s] \in Seq(PsValues) BY <1>1 DEF SrTyped
      <4>3. psheld[s] \in Seq(SrValues) BY <4>1, <4>2, SeqMonotonic
      <4>4. QED BY <4>3
    <3>3. Range(q \o held) = Range(q) \cup Range(held) BY PartsApart
    <3>4. PICK log \in Seq(PsValues) : log = pslog BY <1>1 DEF SrTyped
    <3>5. PICK n \in Nat : n = psnext[s] BY <1>1 DEF SrTyped
    <3>6. n \in 1..Len(log) + 1 BY <1>2, <2>1, <3>4, <3>5 DEF SrTask
    <3>7. Range(SubSeq(log, n, Len(log))) = {log[i] : i \in n..Len(log)}
      <4>1. PICK part : part = SubSeq(log, n, Len(log)) OBVIOUS
      <4>2. /\ Len(log) \in Nat /\ DOMAIN part = 1..(Len(log) - n + 1)
            /\ \A i \in 1..(Len(log) - n + 1) : part[i] = log[n + i - 1]
        BY <3>6, <4>1
      <4>3. ASSUME NEW i \in n..Len(log) PROVE log[i] \in Range(part)
        <5>1. i - n + 1 \in DOMAIN part /\ part[i - n + 1] = log[i] BY <3>6, <4>2
        <5>2. QED BY <5>1 DEF Range
      <4>4. ASSUME NEW i \in DOMAIN part PROVE part[i] \in {log[j] : j \in n..Len(log)}
        <5>1. n + i - 1 \in n..Len(log) /\ part[i] = log[n + i - 1] BY <3>6, <4>2
        <5>2. QED BY <5>1
      <4>5. Range(part) \subseteq {log[j] : j \in n..Len(log)} BY <4>4 DEF Range
      <4>6. {log[j] : j \in n..Len(log)} \subseteq Range(part) BY <4>3
      <4>7. QED BY <4>1, <4>5, <4>6
    <3>8. QED BY <3>1, <3>2, <3>3, <3>4, <3>5, <3>7 DEF SrDue, PsSeen
  <2>6. QED BY <2>2, <2>3, <2>4, <2>5 DEF SrPending
<1>3. SubscriberMissesNothing BY <1>2 DEF SubscriberMissesNothing
<1>4. QED BY <1>1, <1>3 DEF SubRefInv

\* A subscriber of a subscription ref is given the value it read and every value stored
\* after it, whichever setters are between their store and their publish
\* (subscription_ref.rs, set, update and subscribe).
THEOREM SubRefInvariant == SubRefSpec => []SubRefInv
BY SubRefInitOk, SubRefNextOk, SubRefGives, PTL DEF SubRefSpec

(***************************************************************************)
(* One primitive beside idle ones.                                         *)
(***************************************************************************)

\* Where the queue is a stream's, it is used as a stream uses it and by nothing else: the
\* stream keeps StreamInv beside every other primitive (stream.rs over queue.rs).
THEOREM StreamOkInvariant == MCSpec => []StreamOk
<1> DEFINE Inv == focus = "stream" => StreamIInv
<1>1. MCInit => Inv BY StreamInitOk DEF MCInit
<1>2. Inv /\ [MCNext]_vars => Inv'
  <2> SUFFICES ASSUME Inv, [MCNext]_vars, focus' = "stream" PROVE StreamIInv' OBVIOUS
  <2>1. focus = "stream" BY DEF MCNext, vars
  <2>2. [StreamNext]_stvars BY <2>1 DEF MCNext, vars, stvars
  <2>3. QED BY <2>1, <2>2, StreamNextOk
<1>3. Inv => StreamOk BY StreamEndOk DEF StreamIInv, StreamInv, StreamOk
<1> HIDE DEF Inv
<1>4. QED BY <1>1, <1>2, <1>3, PTL DEF MCSpec

\* Where the queue is a channel's, it is used as a channel uses it and by nothing else: the
\* channel keeps ChannelInv beside every other primitive (channel.rs over queue.rs).
THEOREM ChannelOkInvariant == MCSpec => []ChannelOk
<1> DEFINE Inv == focus = "channel" => ChannelIInv
<1>1. MCInit => Inv BY ChannelInitOk DEF MCInit
<1>2. Inv /\ [MCNext]_vars => Inv'
  <2> SUFFICES ASSUME Inv, [MCNext]_vars, focus' = "channel" PROVE ChannelIInv' OBVIOUS
  <2>1. focus = "channel" BY DEF MCNext, vars
  <2>2. [ChannelNext]_chvars BY <2>1 DEF MCNext, vars, chvars
  <2>3. QED BY <2>1, <2>2, ChannelNextOk
<1>3. Inv => ChannelOk BY ChannelGives DEF ChannelOk
<1> HIDE DEF Inv
<1>4. QED BY <1>1, <1>2, <1>3, PTL DEF MCSpec

\* Where the hub is used by publishers and subscribers only it keeps PubSubInv, and where it
\* is that of a subscription ref it keeps SubRefInv, beside every other primitive (pubsub.rs,
\* subscription_ref.rs).
THEOREM HubOkInvariant == MCSpec => []HubOk
<1> DEFINE Inv == (focus = "pubsub" => PubSubIInv) /\ (focus = "subref" => SubRefIInv)
<1>1. MCInit => Inv BY PubSubInitOk, SubRefInitOk DEF MCInit
<1>2. Inv /\ [MCNext]_vars => Inv'
  <2> SUFFICES ASSUME Inv, [MCNext]_vars PROVE Inv' OBVIOUS
  <2>1. focus' = focus BY DEF MCNext, vars
  <2>2. CASE focus = "pubsub"
    <3>1. [PubSubNext]_psvars BY <2>2 DEF MCNext, vars
    <3>2. QED BY <2>1, <2>2, <3>1, PubSubNextOk
  <2>3. CASE focus = "subref"
    <3>1. [SubRefNext]_srvars BY <2>3 DEF MCNext, vars, srvars
    <3>2. QED BY <2>1, <2>3, <3>1, SubRefNextOk
  <2>4. QED BY <2>1, <2>2, <2>3
<1>3. Inv => HubOk BY PubSubGives, SubRefGives DEF HubOk
<1> HIDE DEF Inv
<1>4. QED BY <1>1, <1>2, <1>3, PTL DEF MCSpec
==============================================================================
