--------------------------------- MODULE Tower ---------------------------------
(***************************************************************************)
(* The EffectService of id_effect_tower with a limit on the calls in       *)
(* flight.  Clones of a service share a semaphore and a counter; each has  *)
(* a permit of its own for its next call, or a pending acquire.  Futures   *)
(* of poll_ready's caller, of call, and the clones may be dropped at any   *)
(* await.                                                                  *)
(*                                                                         *)
(* The semaphore is tokio's: a permit that is returned is assigned to the  *)
(* first waiter, who holds it until its future is polled or dropped.       *)
(***************************************************************************)
EXTENDS Naturals, Sequences, SequencesExt, FiniteSets

CONSTANTS TwClones,
          TwCalls,    \* bound: the calls that the program makes
          TwMax       \* max_in_flight

ASSUME TowerAssumption == TwMax \in Nat \ {0} /\ IsFiniteSet(TwClones \cup TwCalls)

VARIABLES twpermits,  \* Semaphore: the permits available
          twqueue,    \* Semaphore: the clones whose pending_acquire waits
          twassigned, \* the clones whose pending_acquire was given a permit
          twready,    \* the clones with a ready_permit
          twgone,     \* the clones that were dropped
          twpc,       \* where the future of each call is
          twinflight, \* ServiceLimit::in_flight
          twerrors,   \* RequestMetrics::errors
          twfailed,   \* observer: the calls whose handler failed
          twleaked    \* observer: the calls dropped while they were counted

twvars == <<twpermits, twqueue, twassigned, twready, twgone, twpc, twinflight, twerrors,
            twfailed, twleaked>>

TwPcs == {"idle", "called", "running", "record", "ending", "release", "done", "dropped"}

TowerTypeOK == /\ twpermits \in 0..TwMax
               /\ twqueue \in Seq(TwClones)
               /\ twassigned \subseteq TwClones
               /\ twready \subseteq TwClones
               /\ twgone \subseteq TwClones
               /\ twpc \in [TwCalls -> TwPcs]
               /\ twinflight \in Nat
               /\ twerrors \in Nat
               /\ twfailed \subseteq TwCalls
               /\ twleaked \subseteq TwCalls

TowerInit == /\ twpermits = TwMax
             /\ twqueue = <<>>
             /\ twassigned = {}
             /\ twready = {}
             /\ twgone = {}
             /\ twpc = [c \in TwCalls |-> "idle"]
             /\ twinflight = 0
             /\ twerrors = 0
             /\ twfailed = {}
             /\ twleaked = {}

\* A permit is dropped; the waiters are those of queue, and assigned has what
\* was given to them before.
TwGiveBack(queue, assigned) ==
  IF queue = <<>>
  THEN twpermits' = twpermits + 1 /\ twqueue' = queue /\ twassigned' = assigned
  ELSE /\ twqueue' = Tail(queue)
       /\ twassigned' = assigned \cup {Head(queue)}
       /\ UNCHANGED twpermits

(***************************************************************************)
(* poll_ready, and the end of a clone.                                     *)
(***************************************************************************)

\* try_acquire_owned succeeds.  The pending acquire is dropped, and if it had
\* been given a permit that one goes back (nobody waits, since one was free).
TwTryAcquire(s) ==
  /\ twpermits > 0
  /\ twready' = twready \cup {s}
  /\ twpermits' = IF s \in twassigned THEN twpermits ELSE twpermits - 1
  /\ twassigned' = twassigned \ {s}
  /\ UNCHANGED twqueue

\* It fails, and the pending acquire has a permit ...
TwAcquired(s) == /\ twpermits = 0
                 /\ s \in twassigned
                 /\ twassigned' = twassigned \ {s}
                 /\ twready' = twready \cup {s}
                 /\ UNCHANGED <<twpermits, twqueue>>

\* ... or one is made and polled for the first time.
TwEnqueue(s) == /\ twpermits = 0
                /\ s \notin twassigned \cup ToSet(twqueue)
                /\ twqueue' = Append(twqueue, s)
                /\ UNCHANGED <<twpermits, twassigned, twready>>

\* poll_ready of a clone that has no ready_permit.
TwPollReady(s) ==
  /\ s \notin twready \cup twgone
  /\ TwTryAcquire(s) \/ TwAcquired(s) \/ TwEnqueue(s)
  /\ UNCHANGED <<twgone, twpc, twinflight, twerrors, twfailed, twleaked>>

\* A pending acquire that is dropped leaves the queue.
TwForget(s) == \/ s \notin ToSet(twqueue) /\ UNCHANGED twqueue
               \/ \E i \in DOMAIN twqueue : twqueue[i] = s /\ twqueue' = RemoveAt(twqueue, i)

\* A clone is dropped, with its ready_permit or its pending_acquire.
TwDropClone(s) ==
  /\ s \notin twgone
  /\ twgone' = twgone \cup {s}
  /\ twready' = twready \ {s}
  /\ IF s \in twready \cup twassigned
     THEN TwGiveBack(twqueue, twassigned \ {s})
     ELSE /\ TwForget(s)
          /\ UNCHANGED <<twpermits, twassigned>>
  /\ UNCHANGED <<twpc, twinflight, twerrors, twfailed, twleaked>>

(***************************************************************************)
(* call.                                                                   *)
(***************************************************************************)

TwMove(c, from, to) == twpc[c] = from /\ twpc' = [twpc EXCEPT ![c] = to]
TwSame == UNCHANGED <<twpermits, twqueue, twassigned, twready, twgone>>

\* call takes the ready_permit of the clone into its future.  Without one it
\* panics: Tower asks for a poll_ready before each call.
TwCall(s, c) == /\ s \in twready
                /\ TwMove(c, "idle", "called")
                /\ twready' = twready \ {s}
                /\ UNCHANGED <<twpermits, twqueue, twassigned, twgone, twinflight, twerrors,
                               twfailed, twleaked>>

TwIncrement(c) == /\ TwMove(c, "called", "running")
                  /\ twinflight' = twinflight + 1
                  /\ TwSame /\ UNCHANGED <<twerrors, twfailed, twleaked>>

\* Faulty variant: an error of the handler is returned at once.
TwHandledReturns(c) ==
  /\ \/ TwMove(c, "running", "ending") /\ UNCHANGED twfailed
     \/ TwMove(c, "running", "release") /\ twfailed' = twfailed \cup {c}
  /\ TwSame /\ UNCHANGED <<twinflight, twerrors, twleaked>>

\* The effect of the handler ends, with a value or with an error.
TwHandled(c) ==
  /\ \/ TwMove(c, "running", "ending") /\ UNCHANGED twfailed
     \/ TwMove(c, "running", "record") /\ twfailed' = twfailed \cup {c}
  /\ TwSame /\ UNCHANGED <<twinflight, twerrors, twleaked>>

\* An error is counted in the metrics.
TwRecord(c) == /\ TwMove(c, "record", "ending")
               /\ twerrors' = twerrors + 1
               /\ TwSame /\ UNCHANGED <<twinflight, twfailed, twleaked>>

TwDecrement(c) == /\ TwMove(c, "ending", "release")
                  /\ twinflight' = IF twinflight = 0 THEN 0 ELSE twinflight - 1
                  /\ TwSame /\ UNCHANGED <<twerrors, twfailed, twleaked>>

\* drop(permit), and the result is returned.
TwRelease(c) == /\ TwMove(c, "release", "done")
                /\ TwGiveBack(twqueue, twassigned)
                /\ UNCHANGED <<twready, twgone, twinflight, twerrors, twfailed, twleaked>>

TwCounted == {c \in TwCalls : twpc[c] \in {"running", "record", "ending"}}

\* The future of a call is dropped at an await, or its handler panics: the
\* permit goes back, and nothing decrements the counter.
TwDropCall(c) ==
  /\ twpc[c] \in {"called", "running", "record", "ending"}
  /\ twpc' = [twpc EXCEPT ![c] = "dropped"]
  /\ twleaked' = IF c \in TwCounted THEN twleaked \cup {c} ELSE twleaked
  /\ TwGiveBack(twqueue, twassigned)
  /\ UNCHANGED <<twready, twgone, twinflight, twerrors, twfailed>>

(***************************************************************************)
(* The specification.                                                      *)
(***************************************************************************)

TwStep(c) == \/ TwIncrement(c) \/ TwHandled(c) \/ TwRecord(c) \/ TwDecrement(c)
             \/ TwRelease(c)

TowerNext == \/ \E s \in TwClones : TwPollReady(s) \/ TwDropClone(s)
             \/ \E s \in TwClones, c \in TwCalls : TwCall(s, c)
             \/ \E c \in TwCalls : TwStep(c) \/ TwDropCall(c)

TowerSpec == TowerInit /\ [][TowerNext]_twvars

(***************************************************************************)
(* Properties.                                                             *)
(***************************************************************************)

TwHolding == {c \in TwCalls : twpc[c] \in {"called", "running", "record", "ending",
                                           "release"}}

\* Every permit is available, assigned to a waiter, reserved by one clone or
\* held by one call, whatever is dropped; and nobody waits beside a free one.
TwPermitsConserved ==
  /\ twpermits + Cardinality(twassigned) + Cardinality(twready) + Cardinality(TwHolding)
       = TwMax
  /\ twassigned \cap twready = {}
  /\ ToSet(twqueue) \cap (twassigned \cup twready \cup twgone) = {}
  /\ IsInjective(twqueue)
  /\ twqueue # <<>> => twpermits = 0

\* in_flight counts the calls whose handler has been started and whose result
\* is not returned, and for good every call that was dropped meanwhile: it is
\* at most the limit only while none was.
TwCountsCalls == /\ twinflight = Cardinality(TwCounted) + Cardinality(twleaked)
                 /\ Cardinality(TwCounted) =< TwMax

\* The error metric misses only the failures whose call was dropped before.
TwErrorsCounted == /\ twerrors =< Cardinality(twfailed)
                   /\ twfailed \cap {c \in TwCalls : twpc[c] \in {"record", "dropped"}} = {}
                        => twerrors = Cardinality(twfailed)

\* What the limit of a service keeps, whatever is polled and dropped when.
TowerInv == TowerTypeOK /\ TwPermitsConserved /\ TwCountsCalls /\ TwErrorsCounted
==============================================================================
