------------------------------ MODULE Admission ------------------------------
(***************************************************************************)
(* compute/admission.rs, compute/fabric.rs and compute/fiber_pool.rs: jobs *)
(* are admitted by permits, run by a fixed set of worker threads, and give *)
(* their permit back, while the supervisor stores a new number of permits. *)
(*                                                                         *)
(* A compare-exchange loop ends in the one step in which it succeeds.  The *)
(* readings of the telemetry are any.                                      *)
(***************************************************************************)
EXTENDS Naturals, Sequences, FiniteSets

CONSTANTS AdJobs,      \* bound: the jobs, each admitted by a call of its own
          AdBlocking,  \* those that use spawn_admitted; the others use try_admit
          AdWorkers,   \* the threads of the pool
          AdInitial, AdMax,
          AdTicks,     \* bound: how often the supervisor ticks
          AdNone

ASSUME AdmissionAssumption ==
  /\ AdInitial \in Nat /\ AdMax \in Nat \ {0} /\ AdTicks \in Nat
  /\ AdBlocking \subseteq AdJobs /\ IsFiniteSet(AdJobs)
  /\ IsFiniteSet(AdWorkers) /\ AdWorkers # {}
  /\ AdJobs \cap {AdNone, "dead"} = {} /\ AdNone # "dead"

VARIABLES adpermits,   \* permits
          adjob,       \* adjob[j]: where job j is
          adqueue,     \* the channel of the pool
          adworker,    \* adworker[w]: the job w runs, AdNone, or "dead"
          adticks,
          adcredit     \* observer: permits, and jobs that had one, after the last store

advars == <<adpermits, adjob, adqueue, adworker, adticks, adcredit>>

AdPlaces == {"new", "refused", "admitted", "queued", "running", "finished", "released",
             "panicked", "dropped"}

AdmissionTypeOK ==
  /\ adpermits \in Nat /\ adcredit \in Nat /\ adticks \in 0..AdTicks
  /\ adjob \in [AdJobs -> AdPlaces]
  /\ adqueue \in Seq(AdJobs)
  /\ adworker \in [AdWorkers -> AdJobs \cup {AdNone, "dead"}]

\* AdmissionController::new.
AdmissionInit ==
  /\ adpermits = IF AdInitial < AdMax THEN AdInitial ELSE AdMax
  /\ adcredit = adpermits
  /\ adjob = [j \in AdJobs |-> "new"]
  /\ adqueue = <<>>
  /\ adworker = [w \in AdWorkers |-> AdNone]
  /\ adticks = 0

\* The jobs that hold a permit.
AdHolding == {j \in AdJobs : adjob[j] \in {"admitted", "queued", "running", "finished"}}

\* try_acquire in try_admit, and the last round of acquire_blocking.
AdAcquire(j) == /\ adjob[j] = "new" /\ adpermits > 0
                /\ adpermits' = adpermits - 1
                /\ adjob' = [adjob EXCEPT ![j] = "admitted"]
                /\ UNCHANGED <<adqueue, adworker, adticks, adcredit>>

AdRefuse(j) == /\ adjob[j] = "new" /\ j \notin AdBlocking /\ adpermits = 0
               /\ adjob' = [adjob EXCEPT ![j] = "refused"]
               /\ UNCHANGED <<adpermits, adqueue, adworker, adticks, adcredit>>

\* Each thread of the pool has a receiver of the channel, until it ends.
AdConnected == \E w \in AdWorkers : adworker[w] # "dead"

\* pool.spawn: the job is sent ...
AdSpawn(j) == /\ adjob[j] = "admitted" /\ AdConnected
              /\ adqueue' = Append(adqueue, j)
              /\ adjob' = [adjob EXCEPT ![j] = "queued"]
              /\ UNCHANGED <<adpermits, adworker, adticks, adcredit>>

\* ... or every receiver is gone: the error is ignored, the job dropped and its permit
\* kept.  Jobs that are in the channel by then stay there.
AdSendFails(j) == /\ adjob[j] = "admitted" /\ ~AdConnected
                  /\ adjob' = [adjob EXCEPT ![j] = "dropped"]
                  /\ UNCHANGED <<adpermits, adqueue, adworker, adticks, adcredit>>

\* rx.recv.
AdRecv(w) == /\ adworker[w] = AdNone /\ adqueue # <<>>
             /\ adworker' = [adworker EXCEPT ![w] = Head(adqueue)]
             /\ adjob' = [adjob EXCEPT ![Head(adqueue)] = "running"]
             /\ adqueue' = Tail(adqueue)
             /\ UNCHANGED <<adpermits, adticks, adcredit>>

\* f() returns ...
AdFinish(w) == /\ adworker[w] \in AdJobs /\ adjob[adworker[w]] = "running"
               /\ adjob' = [adjob EXCEPT ![adworker[w]] = "finished"]
               /\ UNCHANGED <<adpermits, adqueue, adworker, adticks, adcredit>>

\* ... or panics: the permit is not released, and the thread of the pool ends.
AdPanic(w) == /\ adworker[w] \in AdJobs /\ adjob[adworker[w]] = "running"
              /\ adjob' = [adjob EXCEPT ![adworker[w]] = "panicked"]
              /\ adworker' = [adworker EXCEPT ![w] = "dead"]
              /\ UNCHANGED <<adpermits, adqueue, adticks, adcredit>>

\* Faulty variant: release does not stop at max_permits.
AdReleaseOver(w) ==
  /\ adworker[w] \in AdJobs /\ adjob[adworker[w]] = "finished"
  /\ adpermits' = adpermits + 1
  /\ adjob' = [adjob EXCEPT ![adworker[w]] = "released"]
  /\ adworker' = [adworker EXCEPT ![w] = AdNone]
  /\ UNCHANGED <<adqueue, adticks, adcredit>>

AdRelease(w) == /\ adworker[w] \in AdJobs /\ adjob[adworker[w]] = "finished"
                /\ adpermits' = IF adpermits < AdMax THEN adpermits + 1 ELSE AdMax
                /\ adjob' = [adjob EXCEPT ![adworker[w]] = "released"]
                /\ adworker' = [adworker EXCEPT ![w] = AdNone]
                /\ UNCHANGED <<adqueue, adticks, adcredit>>

\* ComputeSupervisor::tick: the least number of permits is half of them, or 1 when
\* the spread bucket is empty.
AdLeast == {1, IF AdMax \div 2 > 1 THEN AdMax \div 2 ELSE 1}

\* rebalance stores a number between the least and max_permits, whoever holds some.
AdRebalance == /\ adticks < AdTicks
               /\ adticks' = adticks + 1
               /\ \E least \in AdLeast : \E desired \in least..AdMax :
                    /\ adpermits' = desired
                    /\ adcredit' = desired + Cardinality(AdHolding)
               /\ UNCHANGED <<adjob, adqueue, adworker>>

AdmissionNext ==
  \/ AdRebalance
  \/ \E j \in AdJobs : AdAcquire(j) \/ AdRefuse(j) \/ AdSpawn(j) \/ AdSendFails(j)
  \/ \E w \in AdWorkers : AdRecv(w) \/ AdFinish(w) \/ AdPanic(w) \/ AdRelease(w)

AdmissionSpec == AdmissionInit /\ [][AdmissionNext]_advars

(***************************************************************************)
(* Properties.                                                             *)
(***************************************************************************)

\* However releases and the stores of the supervisor mix, there are never more than
\* max_permits permits, and never more permits and holders than the last store left.
PermitsBounded ==
  /\ adpermits <= AdMax
  /\ adpermits + Cardinality(AdHolding) <= adcredit

\* An admitted job is in the channel or with one worker until it has ended; it is
\* dropped only when panics have ended every worker.
JobsPlaced ==
  /\ \A j \in AdJobs : adjob[j] = "queued" <=> \E i \in DOMAIN adqueue : adqueue[i] = j
  /\ \A j \in AdJobs : adjob[j] \in {"running", "finished"} =>
       Cardinality({w \in AdWorkers : adworker[w] = j}) = 1
  /\ (\E j \in AdJobs : adjob[j] = "dropped") => ~AdConnected

\* A panic costs one permit and one thread.
PanicsCostThreads ==
  Cardinality({w \in AdWorkers : adworker[w] = "dead"}) =
    Cardinality({j \in AdJobs : adjob[j] = "panicked"})

\* What admission keeps.
AdmissionInv == AdmissionTypeOK /\ PermitsBounded /\ JobsPlaced /\ PanicsCostThreads
==============================================================================
