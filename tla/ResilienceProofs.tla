-------------------------- MODULE ResilienceProofs ---------------------------
(***************************************************************************)
(* What protects a service: the circuit breaker, the rate limiter and the  *)
(* bulkhead, the limit of a Tower service and the admission of jobs.       *)
(***************************************************************************)
EXTENDS Breaker, RateLimiter, Tower, Admission, ProofLemmas

(***************************************************************************)
(* The circuit breaker.                                                    *)
(***************************************************************************)


\* What the Refs hold when the only call is at a place.
BrFits(place) ==
  CASE place \in {"cooldown", "probe"} ->
         brstate = "Open" /\ brfails = BrThreshold /\ bropened # "None"
    [] place \in {"run", "forgive", "count"} ->
         \/ brstate = "Closed" /\ brfails < BrThreshold
         \/ brstate = "HalfOpen" /\ brfails = BrThreshold
    [] place = "close" -> brfails = 0
    [] place = "look" -> brstate = "Closed" /\ brfails < BrThreshold
    [] place = "trip" -> brfails = BrThreshold
    [] place = "stamp" -> brstate = "Open" /\ brfails = BrThreshold
    [] OTHER -> TRUE

\* As long as calls have not overlapped there is at most one, and the Refs fit it.
BrAlone ==
  ~broverlap => \A c \in BrCallers : brat[c] # "idle" =>
                  /\ BrFits(brat[c])
                  /\ \A d \in BrCallers : brat[d] # "idle" => c = d

\* The inductive invariant: SequentialBreaker speaks of the states between calls,
\* BrAlone of those during one.
BreakerIInv == BreakerInv /\ BrAlone

\* The initial states satisfy it.
LEMMA BreakerInitOk == BreakerInit => BreakerIInv
<1> SUFFICES ASSUME BreakerInit PROVE BreakerIInv
  OBVIOUS
<1>1. BreakerTypeOK
  <2>1. brfails \in 0..BrThreshold BY BreakerAssumption, SMT DEF BreakerInit
  <2>2. brat \in [BrCallers -> BrPlaces] BY DEF BreakerInit, BrPlaces
  <2>3. broverlap \in BOOLEAN BY Zenon DEF BreakerInit
  <2>4. QED BY <2>1, <2>2, <2>3 DEF BreakerInit, BreakerTypeOK
<1>2. OpenHasInstant BY DEF BreakerInit, OpenHasInstant
<1>3. SequentialBreaker BY BreakerAssumption DEF BreakerInit, SequentialBreaker
<1>4. BrAlone BY DEF BreakerInit, BrAlone
<1>5. QED BY <1>1, <1>2, <1>3, <1>4 DEF BreakerIInv, BreakerInv

\* Every step of one call preserves it.
LEMMA BreakerStepOk ==
  ASSUME BreakerIInv, NEW c \in BrCallers, BrCall(c) \/ BrStep(c)
  PROVE  BreakerIInv'
<1> USE BreakerAssumption
<1> USE DEF BreakerIInv, BreakerInv, BreakerTypeOK, OpenHasInstant, SequentialBreaker, BrAlone,
            BrFits, BrPlaces, BrGo
<1>1. CASE BrCall(c) BY <1>1 DEF BrCall
<1>2. CASE BrCooldown(c) BY <1>2 DEF BrCooldown
<1>3. CASE BrProbe(c) BY <1>3 DEF BrProbe
<1>4. CASE BrRun(c) BY <1>4 DEF BrRun
<1>5. CASE BrForgive(c) BY <1>5 DEF BrForgive
<1>6. CASE BrClose(c) BY <1>6 DEF BrClose
<1>7. CASE BrCount(c) BY <1>7 DEF BrCount
<1>8. CASE BrLook(c) BY <1>8 DEF BrLook
<1>9. CASE BrTrip(c) BY <1>9 DEF BrTrip
<1>10. CASE BrStamp(c) BY <1>10 DEF BrStamp
<1>11. QED BY <1>1, <1>2, <1>3, <1>4, <1>5, <1>6, <1>7, <1>8, <1>9, <1>10 DEF BrStep

\* So does the passing of time.
LEMMA BreakerTickOk == BreakerIInv /\ BrTick => BreakerIInv'
  BY DEF BrTick, BreakerIInv, BreakerInv, BreakerTypeOK, OpenHasInstant, SequentialBreaker,
     BrAlone, BrFits, BrPlaces

\* An open breaker always has an instant to wait for or gets one, however calls
\* overlap, and the three Refs agree as long as calls do not (circuit_breaker.rs, call).
THEOREM BreakerInvariant == BreakerSpec => []BreakerInv
<1>1. BreakerIInv /\ [BreakerNext]_brvars => BreakerIInv'
  <2>1. CASE UNCHANGED brvars
    BY <2>1 DEF brvars, BreakerIInv, BreakerInv, BreakerTypeOK, OpenHasInstant,
       SequentialBreaker, BrAlone, BrFits
  <2>2. QED BY <2>1, BreakerStepOk, BreakerTickOk DEF BreakerNext
<1>2. BreakerIInv => BreakerInv BY DEF BreakerIInv
<1>3. QED BY <1>1, <1>2, BreakerInitOk, PTL DEF BreakerSpec

(***************************************************************************)
(* The rate limiter and the bulkhead.                                      *)
(***************************************************************************)

\* The calls that run under a permit.
RlRunning == {c \in RlCallers : rlat[c] = "run"}

\* No instant that was read lies ahead of the clock.
RlInstants == /\ rllast <= rlclock
              /\ \A c \in RlCallers : rlnow[c] <= rlclock

\* Unless refills overlapped there is one at a time, and what was granted and what
\* is left account for the time up to the last stamp, or, once the tokens of the
\* one refill are added, up to the instant it is about to store.
RlAccount ==
  ~rloverlap =>
    /\ \A c, d \in RlCallers : rlat[c] \in RlRefilling /\ rlat[d] \in RlRefilling => c = d
    /\ \A c \in RlCallers : rlat[c] = "add" =>
         rlgain[c] = (rlnow[c] - rllast) * RlRate /\ rlnow[c] >= rllast
    /\ \A c \in RlCallers : rlat[c] = "stamp" =>
         rltokens + rlgranted <= RlCapacity + RlRate * rlnow[c]
    /\ (\A c \in RlCallers : rlat[c] # "stamp") =>
         rltokens + rlgranted <= RlCapacity + RlRate * rllast

\* The inductive invariant.
RateIInv == RateTypeOK /\ BurstKept /\ RlInstants /\ RlAccount

\* It holds at the start.
LEMMA RateInitOk == RateInit => RateIInv
<1> SUFFICES ASSUME RateInit PROVE RateIInv OBVIOUS
<1> USE RateAssumption DEF RateInit
<1>1. RateTypeOK
  <2>1. rloverlap \in BOOLEAN OBVIOUS
  <2>2. /\ RlCapacity \in 0..RlCapacity /\ 0 \in 0..RlTicks /\ RlPermits \in 0..RlPermits
        /\ "idle" \in RlPlaces
    BY DEF RlPlaces
  <2>3. QED BY <2>1, <2>2 DEF RateTypeOK
<1>2. RlInstants BY DEF RlInstants
<1>3. RlAccount
  <2>1. rltokens + rlgranted <= RlCapacity + RlRate * rllast OBVIOUS
  <2>2. \A c \in RlCallers : rlat[c] = "idle" OBVIOUS
  <2>3. QED BY <2>1, <2>2 DEF RlAccount, RlRefilling
<1>4. {c \in RlCallers : rlat[c] = "run"} = {} OBVIOUS
<1>5. BurstKept BY <1>4, FS_EmptySet DEF BurstKept
<1>6. QED BY <1>1, <1>2, <1>3, <1>5 DEF RateIInv

\* More time allows no fewer tokens.
LEMMA RateGrows ==
  ASSUME NEW a \in Nat, NEW b \in Nat, a <= b
  PROVE  /\ RlRate * a \in Nat /\ RlRate * b \in Nat /\ RlRate * a <= RlRate * b
         /\ (b - a) * RlRate \in Nat /\ RlRate * a + (b - a) * RlRate = RlRate * b
<1>1. PICK d \in Nat : b = a + d OBVIOUS
<1>2. QED BY <1>1, RateAssumption

\* The permits that are out are those of the calls that run.
LEMMA PermitsCounted ==
  ASSUME RateTypeOK, BurstKept, NEW c \in RlCallers,
         \/ rlat[c] # "run" /\ rlat'[c] # "run" /\ rlfree' = rlfree
         \/ rlat[c] # "run" /\ rlat'[c] = "run" /\ rlfree' = rlfree - 1
         \/ rlat[c] = "run" /\ rlat'[c] # "run" /\ rlfree' = rlfree + 1,
         \A d \in RlCallers \ {c} : rlat'[d] = rlat[d],
         rltokens' <= RlCapacity
  PROVE  BurstKept' /\ (rlat[c] = "run" => rlfree' <= RlPermits)
<1>1. /\ rlfree \in Nat /\ RlPermits \in Nat /\ IsFiniteSet(RlCallers)
      /\ rlfree + Cardinality(RlRunning) = RlPermits
  BY RateAssumption DEF RateTypeOK, BurstKept, RlRunning
<1>2. /\ RlRunning \in SUBSET RlCallers /\ (c \in RlRunning <=> rlat[c] = "run") BY DEF RlRunning
<1>3. CASE rlat[c] # "run" /\ rlat'[c] # "run"
  <2>1. RlRunning' = RlRunning BY <1>3 DEF RlRunning
  <2>2. QED BY <1>1, <1>3, <2>1 DEF BurstKept, RlRunning
<1>4. CASE rlat[c] # "run" /\ rlat'[c] = "run"
  <2>1. RlRunning' = RlRunning \cup {c} BY <1>4 DEF RlRunning
  <2>2. Cardinality(RlRunning') = Cardinality(RlRunning) + 1 /\ Cardinality(RlRunning) \in Nat
    BY <1>1, <1>2, <1>4, <2>1, CountChange
  <2>3. rlfree' + Cardinality(RlRunning') = RlPermits BY <1>1, <1>4, <2>2
  <2>4. QED BY <1>4, <2>3 DEF BurstKept, RlRunning
<1>5. CASE rlat[c] = "run"
  <2>1. RlRunning' = RlRunning \ {c} BY <1>5 DEF RlRunning
  <2>2. /\ Cardinality(RlRunning') = Cardinality(RlRunning) - 1
        /\ Cardinality(RlRunning) \in Nat /\ Cardinality(RlRunning) > 0
    BY <1>1, <1>2, <1>5, <2>1, CountChange
  <2>3. rlfree' + Cardinality(RlRunning') = RlPermits /\ rlfree' <= RlPermits BY <1>1, <1>5, <2>2
  <2>4. QED BY <2>3 DEF BurstKept, RlRunning
<1>6. QED BY <1>3, <1>4, <1>5

\* The steps of one caller.
LEMMA RateCallerOk ==
  ASSUME RateIInv, NEW c \in RlCallers,
         \/ RlAcquire(c) \/ RlLast(c) \/ RlAdd(c) \/ RlStamp(c)
         \/ RlTake(c) \/ RlAdmit(c) \/ RlDone(c)
  PROVE  RateIInv'
<1> USE RateAssumption
<1>1. /\ RateTypeOK /\ BurstKept /\ RlInstants /\ RlAccount
      /\ rltokens \in Nat /\ rltokens <= RlCapacity /\ rllast \in Nat /\ rlclock \in Nat
      /\ rlnow[c] \in Nat /\ rlgain[c] \in Nat /\ rlgranted \in Nat /\ rlfree \in Nat
      /\ rlfree <= RlPermits /\ rlnow \in [RlCallers -> Nat]
  BY DEF RateIInv, RateTypeOK
<1>2. rlat' \in [RlCallers -> RlPlaces] /\ \A d \in RlCallers \ {c} : rlat'[d] = rlat[d]
  BY <1>1 DEF RateTypeOK, RlPlaces, RlGo, RlAcquire, RlLast, RlAdd, RlStamp, RlTake, RlAdmit, RlDone
<1>3. rltokens' \in 0..RlCapacity /\ rlgranted' \in Nat
  BY <1>1 DEF RlAcquire, RlLast, RlAdd, RlStamp, RlTake, RlAdmit, RlDone
<1>4. BurstKept' /\ (rlat[c] = "run" => rlfree' <= RlPermits)
  <2>1. rltokens' <= RlCapacity BY <1>3
  <2>2. \/ rlat[c] # "run" /\ rlat'[c] # "run" /\ rlfree' = rlfree
        \/ rlat[c] # "run" /\ rlat'[c] = "run" /\ rlfree' = rlfree - 1
        \/ rlat[c] = "run" /\ rlat'[c] # "run" /\ rlfree' = rlfree + 1
    BY <1>1 DEF RateTypeOK, RlGo, RlAcquire, RlLast, RlAdd, RlStamp, RlTake, RlAdmit, RlDone
  <2>3. QED BY <1>1, <1>2, <2>1, <2>2, PermitsCounted
<1>5. rlfree' \in 0..RlPermits
  BY <1>1, <1>4 DEF RlGo, RlAcquire, RlLast, RlAdd, RlStamp, RlTake, RlAdmit, RlDone
<1>6. rllast' \in 0..RlTicks /\ rlclock' = rlclock /\ rlnow' \in [RlCallers -> 0..RlTicks]
  BY <1>1 DEF RateTypeOK, RlAcquire, RlLast, RlAdd, RlStamp, RlTake, RlAdmit, RlDone
<1>7. rlgain' \in [RlCallers -> Nat]
  <2>1. CASE RlLast(c)
    <3>1. (rlnow[c] - rllast > 0) => (rlnow[c] - rllast) * RlRate \in Nat
      BY <1>1
    <3>2. QED BY <1>1, <2>1, <3>1 DEF RateTypeOK, RlLast
  <2>2. CASE ~RlLast(c)
    BY <1>1, <2>2 DEF RateTypeOK, RlAcquire, RlAdd, RlStamp, RlTake, RlAdmit, RlDone
  <2>3. QED BY <2>1, <2>2
<1>8. rloverlap' \in BOOLEAN
  BY <1>1 DEF RateTypeOK, RlAcquire, RlLast, RlAdd, RlStamp, RlTake, RlAdmit, RlDone
<1>9. RateTypeOK' BY <1>1, <1>2, <1>3, <1>5, <1>6, <1>7, <1>8 DEF RateTypeOK
<1>10. RlInstants'
  BY <1>1 DEF RlInstants, RlAcquire, RlLast, RlAdd, RlStamp, RlTake, RlAdmit, RlDone
<1>11. RlAccount'
  <2> SUFFICES ASSUME ~rloverlap' PROVE RlAccount' BY DEF RlAccount
  <2>1. ~rloverlap BY DEF RlAcquire, RlLast, RlAdd, RlStamp, RlTake, RlAdmit, RlDone
  <2>2. /\ \A d, e \in RlCallers : rlat[d] \in RlRefilling /\ rlat[e] \in RlRefilling => d = e
        /\ \A d \in RlCallers : rlat[d] = "add" =>
             rlgain[d] = (rlnow[d] - rllast) * RlRate /\ rlnow[d] >= rllast
        /\ \A d \in RlCallers : rlat[d] = "stamp" =>
             rltokens + rlgranted <= RlCapacity + RlRate * rlnow[d]
        /\ (\A d \in RlCallers : rlat[d] # "stamp") =>
             rltokens + rlgranted <= RlCapacity + RlRate * rllast
    BY <1>1, <2>1 DEF RlAccount
  <2>3. CASE RlAcquire(c) BY <1>1, <2>2, <2>3 DEF RateTypeOK, RlAccount, RlAcquire, RlGo, RlRefilling
  <2>4. CASE RlLast(c)
    BY <1>1, <2>2, <2>4 DEF RateTypeOK, RlAccount, RlLast, RlGo, RlRefilling
  <2>5. CASE RlAdd(c)
    <3>1. rlat[c] = "add" /\ \A d \in RlCallers \ {c} : rlat[d] \notin RlRefilling
      BY <2>2, <2>5 DEF RlAdd, RlGo, RlRefilling
    <3>2. rltokens + rlgranted <= RlCapacity + RlRate * rllast
      BY <2>2, <3>1 DEF RlRefilling
    <3>3. rlgain[c] = (rlnow[c] - rllast) * RlRate /\ rllast <= rlnow[c] BY <1>1, <2>2, <3>1
    <3>4. RlRate * rllast + rlgain[c] = RlRate * rlnow[c] /\ RlRate * rllast \in Nat
          /\ RlRate * rlnow[c] \in Nat
      BY <1>1, <3>3, RateGrows
    <3>5. rltokens' + rlgranted <= RlCapacity + RlRate * rlnow[c]
      BY <1>1, <2>5, <3>2, <3>4 DEF RlAdd
    <3>6. QED BY <1>1, <2>2, <2>5, <3>1, <3>5 DEF RateTypeOK, RlAccount, RlAdd, RlGo, RlRefilling
  <2>6. CASE RlStamp(c)
    BY <1>1, <2>2, <2>6 DEF RateTypeOK, RlAccount, RlStamp, RlGo, RlRefilling
  <2>7. CASE RlTake(c)
    <3>1. rltokens' + rlgranted' = rltokens + rlgranted BY <1>1, <2>7 DEF RlTake
    <3>2. QED BY <1>1, <2>2, <2>7, <3>1 DEF RateTypeOK, RlAccount, RlTake, RlGo, RlRefilling
  <2>8. CASE RlAdmit(c)
    BY <1>1, <2>2, <2>8 DEF RateTypeOK, RlAccount, RlAdmit, RlGo, RlRefilling
  <2>9. CASE RlDone(c)
    BY <1>1, <2>2, <2>9 DEF RateTypeOK, RlAccount, RlDone, RlGo, RlRefilling
  <2>10. QED BY <2>3, <2>4, <2>5, <2>6, <2>7, <2>8, <2>9
<1>12. QED BY <1>4, <1>9, <1>10, <1>11 DEF RateIInv

\* Without overlapping refills no more acquires succeed than the burst and the rate
\* allow, and the permits of the bulkhead are never lost or doubled, for any number
\* of callers, any rate, any capacity and any number of permits (rate_limiter.rs,
\* acquire and refill; bulkhead.rs, with_permit).
THEOREM RateInvariant == RateSpec => []RateInv
<1>1. RateIInv /\ [RateNext]_rlvars => RateIInv'
  <2> SUFFICES ASSUME RateIInv, [RateNext]_rlvars PROVE RateIInv' OBVIOUS
  <2>1. CASE RlTick
    <3> USE RateAssumption DEF RlTick
    <3>1. RateTypeOK' BY <2>1 DEF RateIInv, RateTypeOK
    <3>2. RlInstants' BY <2>1 DEF RateIInv, RateTypeOK, RlInstants
    <3>3. RlAccount' BY <2>1 DEF RateIInv, RlAccount
    <3>4. BurstKept' BY <2>1 DEF RateIInv, BurstKept
    <3>5. QED BY <3>1, <3>2, <3>3, <3>4 DEF RateIInv
  <2>2. CASE UNCHANGED rlvars
    BY <2>2 DEF rlvars, RateIInv, RateTypeOK, BurstKept, RlInstants, RlAccount
  <2>3. QED BY <2>1, <2>2, RateCallerOk DEF RateNext
<1>2. RateIInv => RateInv
  <2> SUFFICES ASSUME RateIInv, ~rloverlap PROVE rlgranted <= RlCapacity + RlRate * rlclock
    BY DEF RateIInv, RateInv, RateKept
  <2> USE RateAssumption
  <2>1. /\ rltokens \in Nat /\ rlgranted \in Nat /\ rlclock \in Nat /\ rllast \in Nat
        /\ rlnow \in [RlCallers -> Nat] /\ RlInstants
    BY DEF RateIInv, RateTypeOK
  <2>2. CASE \E c \in RlCallers : rlat[c] = "stamp"
    <3>1. PICK c \in RlCallers : rlat[c] = "stamp" BY <2>2
    <3>2. rltokens + rlgranted <= RlCapacity + RlRate * rlnow[c] BY <3>1 DEF RateIInv, RlAccount
    <3>3. rlnow[c] \in Nat /\ rlnow[c] <= rlclock BY <2>1 DEF RlInstants
    <3>4. QED BY <2>1, <3>2, <3>3, RateGrows
  <2>3. CASE \A c \in RlCallers : rlat[c] # "stamp"
    <3>1. rltokens + rlgranted <= RlCapacity + RlRate * rllast BY <2>3 DEF RateIInv, RlAccount
    <3>2. QED BY <2>1, <3>1, RateGrows DEF RlInstants
  <2>4. QED BY <2>2, <2>3
<1>3. QED BY <1>1, <1>2, RateInitOk, PTL DEF RateSpec

(***************************************************************************)
(* The limit of a Tower service.                                           *)
(***************************************************************************)

TwRecording == {c \in TwCalls : twpc[c] = "record"}

\* What the observers say of a call, and the errors that are not counted yet.
TwObserved ==
  /\ \A c \in twleaked : twpc[c] = "dropped"
  /\ \A c \in twfailed : twpc[c] \in {"record", "ending", "release", "done", "dropped"}
  /\ TwRecording \subseteq twfailed
  /\ twerrors + Cardinality(TwRecording) <= Cardinality(twfailed)
  /\ twfailed \cap {c \in TwCalls : twpc[c] = "dropped"} = {}
       => twerrors + Cardinality(TwRecording) = Cardinality(twfailed)

\* Permits and those who hold them, without the calls that do.
TwQueued ==
  /\ twassigned \cap twready = {}
  /\ Range(twqueue) \cap (twassigned \cup twready \cup twgone) = {}
  /\ IsInjective(twqueue)
  /\ twqueue # <<>> => twpermits = 0

TwReserved == twpermits + Cardinality(twassigned) + Cardinality(twready)

\* The inductive invariant.
TowerIInv == /\ TowerTypeOK /\ TwQueued /\ TwReserved + Cardinality(TwHolding) = TwMax
             /\ twinflight = Cardinality(TwCounted) + Cardinality(twleaked)
             /\ TwObserved

\* What is counted is finite.
LEMMA TowerFinite ==
  /\ \A A \in SUBSET TwClones : /\ IsFiniteSet(A) /\ Cardinality(A) \in Nat
       /\ \A x \in TwClones : /\ x \notin A => Cardinality(A \cup {x}) = Cardinality(A) + 1
                              /\ x \in A => Cardinality(A \ {x}) = Cardinality(A) - 1
                              /\ x \in A => Cardinality(A) > 0
  /\ \A A \in SUBSET TwCalls : /\ IsFiniteSet(A) /\ Cardinality(A) \in Nat
       /\ \A x \in TwCalls : /\ x \notin A => Cardinality(A \cup {x}) = Cardinality(A) + 1
                             /\ x \in A => Cardinality(A \ {x}) = Cardinality(A) - 1
                             /\ x \in A => Cardinality(A) > 0
<1>1. IsFiniteSet(TwClones) /\ IsFiniteSet(TwCalls)
  <2>1. IsFiniteSet(TwClones \cup TwCalls) BY TowerAssumption
  <2>2. QED BY <2>1, FS_Subset
<1>2. \A A \in SUBSET TwClones : IsFiniteSet(A) /\ Cardinality(A) \in Nat
  BY <1>1, FS_Subset, FS_CardinalityType
<1>3. \A A \in SUBSET TwCalls : IsFiniteSet(A) /\ Cardinality(A) \in Nat
  BY <1>1, FS_Subset, FS_CardinalityType
<1>4. \A A \in SUBSET TwClones, x \in TwClones :
        /\ x \notin A => Cardinality(A \cup {x}) = Cardinality(A) + 1
        /\ x \in A => Cardinality(A \ {x}) = Cardinality(A) - 1
        /\ x \in A => Cardinality(A) > 0
  BY <1>1, CountChange
<1>5. \A A \in SUBSET TwCalls, x \in TwCalls :
        /\ x \notin A => Cardinality(A \cup {x}) = Cardinality(A) + 1
        /\ x \in A => Cardinality(A \ {x}) = Cardinality(A) - 1
        /\ x \in A => Cardinality(A) > 0
  BY <1>1, CountChange
<1>6. QED BY <1>2, <1>3, <1>4, <1>5

\* It holds at the start.
LEMMA TowerInitOk == TowerInit => TowerIInv
<1> SUFFICES ASSUME TowerInit PROVE TowerIInv OBVIOUS
<1> USE DEF TowerInit
<1>1. <<>> \in Seq(TwClones) /\ DOMAIN twqueue = {} OBVIOUS
<1>2. TowerTypeOK BY <1>1, TowerAssumption DEF TowerTypeOK, TwPcs
<1>3. TwQueued
  <2>1. Range(twqueue) = {} /\ IsInjective(twqueue) BY <1>1 DEF Range, IsInjective
  <2>2. QED BY <2>1 DEF TwQueued
<1>4. TwHolding = {} /\ TwCounted = {} /\ TwRecording = {}
  BY DEF TwHolding, TwCounted, TwRecording
<1>5. Cardinality({}) = 0 BY FS_EmptySet
<1>6. TwReserved + Cardinality(TwHolding) = TwMax BY <1>4, <1>5, TowerAssumption DEF TwReserved
<1>7. TwObserved BY <1>4, <1>5 DEF TwObserved
<1>8. QED BY <1>2, <1>3, <1>4, <1>5, <1>6, <1>7 DEF TowerIInv

\* A permit that is given back is free or with the first waiter.
LEMMA TwGiveBackOk ==
  ASSUME TowerTypeOK, TwQueued, NEW A \in SUBSET TwClones, A \cap Range(twqueue) = {},
         TwGiveBack(twqueue, A)
  PROVE  /\ twpermits' \in Nat /\ twqueue' \in Seq(TwClones) /\ twassigned' \subseteq TwClones
         /\ IsInjective(twqueue') /\ Range(twqueue') \subseteq Range(twqueue)
         /\ twassigned' \subseteq A \cup Range(twqueue)
         /\ Range(twqueue') \cap twassigned' = {}
         /\ twqueue' # <<>> => twpermits' = 0
         /\ twpermits' + Cardinality(twassigned') = twpermits + Cardinality(A) + 1
<1>0. twpermits \in Nat /\ twqueue \in Seq(TwClones) /\ Cardinality(A) \in Nat
  BY TowerFinite DEF TowerTypeOK
<1>1. CASE twqueue = <<>>
  <2>1. twpermits' = twpermits + 1 /\ twqueue' = twqueue /\ twassigned' = A
    BY <1>1 DEF TwGiveBack
  <2>2. QED BY <1>0, <1>1, <2>1 DEF TwQueued
<1>2. CASE twqueue # <<>>
  <2>1. twpermits' = twpermits /\ twqueue' = Tail(twqueue) /\ twassigned' = A \cup {Head(twqueue)}
    BY <1>2 DEF TwGiveBack
  <2>2. /\ Tail(twqueue) \in Seq(TwClones) /\ Head(twqueue) \in TwClones
        /\ Head(twqueue) \in Range(twqueue) /\ IsInjective(Tail(twqueue))
        /\ Range(Tail(twqueue)) = Range(twqueue) \ {Head(twqueue)}
    BY <1>0, <1>2, TailOnce DEF TwQueued
  <2>3. Cardinality(twassigned') = Cardinality(A) + 1
    <3>1. Head(twqueue) \notin A BY <2>2
    <3>2. QED BY <2>1, <2>2, <3>1, TowerFinite
  <2>4. QED BY <1>0, <1>2, <2>1, <2>2, <2>3 DEF TwQueued
<1>3. QED BY <1>1, <1>2

\* The calls are counted alike while none moves.
LEMMA TowerCallsSame ==
  ASSUME TowerIInv, UNCHANGED <<twpc, twinflight, twerrors, twfailed, twleaked>>
  PROVE  /\ TwHolding' = TwHolding /\ TwObserved'
         /\ twinflight' = Cardinality(TwCounted') + Cardinality(twleaked')
<1>1. TwHolding' = TwHolding /\ TwCounted' = TwCounted /\ TwRecording' = TwRecording
  BY DEF TwHolding, TwCounted, TwRecording
<1>2. TwObserved' BY <1>1 DEF TowerIInv, TwObserved
<1>3. QED BY <1>1, <1>2 DEF TowerIInv

\* poll_ready.
LEMMA TwPollReadyOk ==
  ASSUME TowerIInv, NEW s \in TwClones, TwPollReady(s)
  PROVE  TowerIInv'
<1>0. /\ TowerTypeOK /\ TwQueued /\ TwReserved + Cardinality(TwHolding) = TwMax
      /\ s \notin twready \cup twgone
      /\ UNCHANGED <<twgone, twpc, twinflight, twerrors, twfailed, twleaked>>
      /\ TwTryAcquire(s) \/ TwAcquired(s) \/ TwEnqueue(s)
  BY DEF TowerIInv, TwPollReady
<1>1. /\ TwHolding' = TwHolding /\ TwObserved'
      /\ twinflight' = Cardinality(TwCounted') + Cardinality(twleaked')
  BY <1>0, TowerCallsSame
<1>2. /\ twpermits \in Nat /\ Cardinality(twassigned) \in Nat /\ Cardinality(twready) \in Nat
      /\ twassigned \in SUBSET TwClones /\ twready \in SUBSET TwClones
      /\ Cardinality(TwHolding) \in Nat /\ twqueue \in Seq(TwClones)
  BY <1>0, TowerFinite DEF TowerTypeOK, TwHolding
<1>3. Cardinality(twready \cup {s}) = Cardinality(twready) + 1 BY <1>0, <1>2, TowerFinite
<1>4. s \in twassigned => Cardinality(twassigned \ {s}) = Cardinality(twassigned) - 1
  BY <1>2, TowerFinite
<1>5. ASSUME TwReserved' = TwReserved, TwQueued', twpermits' \in Nat, twqueue' \in Seq(TwClones),
             twassigned' \subseteq TwClones, twready' \subseteq TwClones
      PROVE  TowerIInv'
  <2>1. TwReserved' + Cardinality(TwHolding') = TwMax BY <1>0, <1>1, <1>5
  <2>2. Cardinality(twassigned') \in Nat /\ Cardinality(twready') \in Nat BY <1>5, TowerFinite
  <2>3. twpermits' \in 0..TwMax
    <3>1. twpermits' + Cardinality(twassigned') + Cardinality(twready') + Cardinality(TwHolding) = TwMax
      BY <1>1, <2>1 DEF TwReserved
    <3>2. QED BY <1>2, <1>5, <2>2, <3>1, TowerAssumption
  <2>4. TowerTypeOK' BY <1>0, <1>5, <2>3 DEF TowerTypeOK
  <2>5. QED BY <1>1, <1>5, <2>1, <2>4 DEF TowerIInv
<1>6. CASE TwTryAcquire(s)
  <2>1. /\ twpermits > 0 /\ twready' = twready \cup {s} /\ twassigned' = twassigned \ {s}
        /\ twpermits' = IF s \in twassigned THEN twpermits ELSE twpermits - 1
        /\ twqueue' = twqueue /\ twqueue = <<>>
    BY <1>0, <1>2, <1>6 DEF TwTryAcquire, TwQueued
  <2>2. TwReserved' = TwReserved
    <3>1. CASE s \in twassigned BY <1>2, <1>3, <1>4, <2>1, <3>1 DEF TwReserved
    <3>2. CASE s \notin twassigned
      <4>1. twassigned' = twassigned BY <2>1, <3>2
      <4>2. twpermits' = twpermits - 1 /\ Cardinality(twready') = Cardinality(twready) + 1
        BY <1>3, <2>1, <3>2
      <4>3. QED BY <1>2, <4>1, <4>2 DEF TwReserved
    <3>3. QED BY <3>1, <3>2
  <2>3. Range(twqueue) = {} BY <1>2, <2>1, RangeOf
  <2>4. TwQueued' BY <1>0, <2>1, <2>3 DEF TwQueued
  <2>5. twpermits' \in Nat BY <1>2, <2>1
  <2>6. QED BY <1>2, <1>5, <2>1, <2>2, <2>4, <2>5
<1>7. CASE TwAcquired(s)
  <2>1. /\ twpermits' = twpermits /\ twqueue' = twqueue /\ s \in twassigned /\ twpermits = 0
        /\ twready' = twready \cup {s} /\ twassigned' = twassigned \ {s}
    BY <1>7 DEF TwAcquired
  <2>2. TwReserved' = TwReserved BY <1>2, <1>3, <1>4, <2>1 DEF TwReserved
  <2>3. TwQueued' BY <1>0, <2>1 DEF TwQueued
  <2>4. QED BY <1>2, <1>5, <2>1, <2>2, <2>3
<1>8. CASE TwEnqueue(s)
  <2>1. /\ twpermits = 0 /\ s \notin twassigned /\ s \in TwClones \ Range(twqueue)
        /\ twqueue' = Append(twqueue, s) /\ UNCHANGED <<twpermits, twassigned, twready>>
    BY <1>2, <1>8, RangeOf DEF TwEnqueue
  <2>2. /\ twqueue' \in Seq(TwClones) /\ IsInjective(twqueue')
        /\ Range(twqueue') = Range(twqueue) \cup {s}
    BY <1>0, <1>2, <2>1, AppendOnce DEF TwQueued
  <2>3. TwReserved' = TwReserved BY <2>1 DEF TwReserved
  <2>4. TwQueued' BY <1>0, <2>1, <2>2 DEF TwQueued
  <2>5. QED BY <1>2, <1>5, <2>1, <2>2, <2>3, <2>4
<1>9. QED BY <1>0, <1>6, <1>7, <1>8

\* A clone is dropped.
LEMMA TwDropCloneOk ==
  ASSUME TowerIInv, NEW s \in TwClones, TwDropClone(s)
  PROVE  TowerIInv'
<1>0. /\ TowerTypeOK /\ TwQueued /\ TwReserved + Cardinality(TwHolding) = TwMax
      /\ twgone' = twgone \cup {s} /\ twready' = twready \ {s}
      /\ UNCHANGED <<twpc, twinflight, twerrors, twfailed, twleaked>>
  BY DEF TowerIInv, TwDropClone
<1>1. /\ TwHolding' = TwHolding /\ TwObserved'
      /\ twinflight' = Cardinality(TwCounted') + Cardinality(twleaked')
  BY <1>0, TowerCallsSame
<1>2. /\ twpermits \in Nat /\ Cardinality(twassigned) \in Nat /\ Cardinality(twready) \in Nat
      /\ twassigned \in SUBSET TwClones /\ twready \in SUBSET TwClones
      /\ Cardinality(TwHolding) \in Nat /\ twqueue \in Seq(TwClones)
  BY <1>0, TowerFinite DEF TowerTypeOK, TwHolding
<1>3. ASSUME TwReserved' = TwReserved, TwQueued', twpermits' \in Nat, twqueue' \in Seq(TwClones),
             twassigned' \subseteq TwClones
      PROVE  TowerIInv'
  <2>1. TwReserved' + Cardinality(TwHolding') = TwMax BY <1>0, <1>1, <1>3
  <2>2. Cardinality(twassigned') \in Nat /\ Cardinality(twready') \in Nat
    BY <1>0, <1>2, <1>3, TowerFinite
  <2>3. twpermits' \in 0..TwMax
    <3>1. twpermits' + Cardinality(twassigned') + Cardinality(twready') + Cardinality(TwHolding) = TwMax
      BY <1>1, <2>1 DEF TwReserved
    <3>2. QED BY <1>2, <1>3, <2>2, <3>1, TowerAssumption
  <2>4. TowerTypeOK' BY <1>0, <1>3, <2>3 DEF TowerTypeOK
  <2>5. QED BY <1>1, <1>3, <2>1, <2>4 DEF TowerIInv
<1>4. CASE s \in twready \cup twassigned
  <2> DEFINE A == twassigned \ {s}
  <2>1. TwGiveBack(twqueue, A) BY <1>4 DEF TwDropClone
  <2>2. A \in SUBSET TwClones /\ A \cap Range(twqueue) = {} /\ s \notin Range(twqueue)
    BY <1>0, <1>2, <1>4 DEF TwQueued
  <2>3. Cardinality(A) + Cardinality(twready') + 1 = Cardinality(twassigned) + Cardinality(twready)
    <3>1. CASE s \in twready
      <4>1. A = twassigned BY <1>0, <3>1 DEF TwQueued
      <4>2. Cardinality(twready') = Cardinality(twready) - 1 BY <1>0, <1>2, <3>1, TowerFinite
      <4> HIDE DEF A
      <4>3. QED BY <1>2, <4>1, <4>2
    <3>2. CASE s \notin twready /\ s \in twassigned
      <4>1. twready' = twready BY <1>0, <3>2
      <4>2. Cardinality(A) = Cardinality(twassigned) - 1 BY <1>2, <3>2, TowerFinite
      <4>3. QED BY <1>2, <4>1, <4>2
    <3>3. QED BY <1>4, <3>1, <3>2
  <2>a. Cardinality(A) \in Nat /\ Cardinality(twready') \in Nat BY <1>0, <1>2, <2>2, TowerFinite
  <2> HIDE DEF A
  <2>4. /\ twpermits' \in Nat /\ twqueue' \in Seq(TwClones) /\ twassigned' \subseteq TwClones
        /\ IsInjective(twqueue') /\ Range(twqueue') \subseteq Range(twqueue)
        /\ twassigned' \subseteq A \cup Range(twqueue)
        /\ Range(twqueue') \cap twassigned' = {}
        /\ twqueue' # <<>> => twpermits' = 0
        /\ twpermits' + Cardinality(twassigned') = twpermits + Cardinality(A) + 1
    BY <1>0, <2>1, <2>2, TwGiveBackOk
  <2>5. Cardinality(twassigned') \in Nat BY <2>4, TowerFinite
  <2>6. TwReserved' = TwReserved
    <3>1. twpermits' + Cardinality(twassigned') + Cardinality(twready')
            = twpermits + Cardinality(twassigned) + Cardinality(twready)
      <4>1. /\ twpermits \in Nat /\ Cardinality(twassigned) \in Nat /\ Cardinality(twready) \in Nat
            /\ twpermits' \in Nat /\ Cardinality(twassigned') \in Nat
            /\ twpermits' + Cardinality(twassigned') = twpermits + Cardinality(A) + 1
        BY <1>2, <2>4, <2>5
      <4>2. QED BY <2>3, <2>a, <4>1
    <3>2. QED BY <3>1 DEF TwReserved
  <2>7. TwQueued' BY <1>0, <2>2, <2>4 DEF TwQueued, A
  <2>8. QED BY <1>3, <2>4, <2>6, <2>7
<1>5. CASE s \notin twready \cup twassigned
  <2>1. TwForget(s) /\ UNCHANGED <<twpermits, twassigned>> /\ twready' = twready
    BY <1>0, <1>5 DEF TwDropClone
  <2>2. twqueue' \in Seq(TwClones) /\ IsInjective(twqueue') /\ Range(twqueue') = Range(twqueue) \ {s}
    <3>1. CASE s \notin ToSet(twqueue) /\ UNCHANGED twqueue
      <4>1. s \notin Range(twqueue) BY <1>2, <3>1, RangeOf
      <4>2. QED BY <1>0, <1>2, <3>1, <4>1 DEF TwQueued
    <3>2. CASE \E i \in DOMAIN twqueue : twqueue[i] = s /\ twqueue' = RemoveAt(twqueue, i)
      BY <1>0, <1>2, <3>2, RemoveOnce DEF TwQueued
    <3>3. QED BY <2>1, <3>1, <3>2 DEF TwForget
  <2>3. TwReserved' = TwReserved BY <2>1 DEF TwReserved
  <2>4. twqueue' # <<>> => twqueue # <<>> BY <1>2, <2>2, RangeOf
  <2>5. TwQueued' BY <1>0, <2>1, <2>2, <2>4 DEF TwQueued
  <2>6. QED BY <1>2, <1>3, <2>1, <2>2, <2>3, <2>5
<1>6. QED BY <1>4, <1>5

\* A call takes the permit of its clone.
LEMMA TwCallOk ==
  ASSUME TowerIInv, NEW s \in TwClones, NEW c \in TwCalls, TwCall(s, c)
  PROVE  TowerIInv'
<1>0. /\ TowerTypeOK /\ TwQueued /\ TwReserved + Cardinality(TwHolding) = TwMax
      /\ twinflight = Cardinality(TwCounted) + Cardinality(twleaked) /\ TwObserved
      /\ s \in twready /\ twready' = twready \ {s}
      /\ twpc[c] = "idle" /\ twpc' = [twpc EXCEPT ![c] = "called"]
      /\ UNCHANGED <<twpermits, twqueue, twassigned, twgone, twinflight, twerrors,
                     twfailed, twleaked>>
  BY DEF TowerIInv, TwCall, TwMove
<1>1. /\ twpermits \in Nat /\ Cardinality(twassigned) \in Nat /\ Cardinality(twready) \in Nat
      /\ twready \in SUBSET TwClones /\ TwHolding \in SUBSET TwCalls
      /\ Cardinality(TwHolding) \in Nat
  BY <1>0, TowerFinite DEF TowerTypeOK, TwHolding
<1>2. TowerTypeOK' BY <1>0 DEF TowerTypeOK, TwPcs
<1>3. TwQueued' BY <1>0 DEF TwQueued
<1>4. twpc'[c] = "called" /\ \A d \in TwCalls \ {c} : twpc'[d] = twpc[d] BY <1>0 DEF TowerTypeOK
<1>5. TwHolding' = TwHolding \cup {c} /\ c \notin TwHolding BY <1>0, <1>4 DEF TwHolding
<1>6. TwCounted' = TwCounted /\ TwRecording' = TwRecording
  BY <1>0, <1>4 DEF TwCounted, TwRecording
<1>7. Cardinality(TwHolding') = Cardinality(TwHolding) + 1 BY <1>1, <1>5, TowerFinite
<1>8. Cardinality(twready') = Cardinality(twready) - 1 BY <1>0, <1>1, TowerFinite
<1>9. TwReserved' + Cardinality(TwHolding') = TwMax BY <1>0, <1>1, <1>7, <1>8 DEF TwReserved
<1>10. TwObserved'
  <2>1. c \notin twleaked /\ c \notin twfailed BY <1>0 DEF TwObserved
  <2>2. \A d \in twleaked' \cup twfailed' : twpc'[d] = twpc[d] BY <1>0, <1>4, <2>1 DEF TowerTypeOK
  <2>3. {d \in TwCalls : twpc'[d] = "dropped"} = {d \in TwCalls : twpc[d] = "dropped"}
    BY <1>0, <1>4
  <2>4. QED BY <1>0, <1>6, <2>2, <2>3 DEF TwObserved
<1>11. QED BY <1>0, <1>2, <1>3, <1>6, <1>9, <1>10 DEF TowerIInv

\* A call goes on, and keeps its permit.
LEMMA TwCallStepOk ==
  ASSUME TowerIInv, NEW c \in TwCalls,
         TwIncrement(c) \/ TwHandled(c) \/ TwRecord(c) \/ TwDecrement(c)
  PROVE  TowerIInv'
<1>0. /\ TowerTypeOK /\ TwQueued /\ TwReserved + Cardinality(TwHolding) = TwMax
      /\ twinflight = Cardinality(TwCounted) + Cardinality(twleaked) /\ TwObserved
      /\ UNCHANGED <<twpermits, twqueue, twassigned, twready, twgone>> /\ twleaked' = twleaked
  BY DEF TowerIInv, TwIncrement, TwHandled, TwRecord, TwDecrement, TwSame
<1>1. /\ TwCounted \in SUBSET TwCalls /\ TwRecording \in SUBSET TwCalls
      /\ twfailed \in SUBSET TwCalls /\ twleaked \in SUBSET TwCalls
      /\ Cardinality(TwCounted) \in Nat /\ Cardinality(TwRecording) \in Nat
      /\ Cardinality(twfailed) \in Nat /\ Cardinality(twleaked) \in Nat
      /\ twinflight \in Nat /\ twerrors \in Nat
  BY <1>0, TowerFinite DEF TowerTypeOK, TwCounted, TwRecording
<1>2. TwQueued' /\ TwReserved' = TwReserved BY <1>0 DEF TwQueued, TwReserved
<1>3. ASSUME NEW from \in {"called", "running", "record", "ending"},
             NEW to \in {"running", "record", "ending", "release"}, TwMove(c, from, to)
      PROVE  /\ twpc[c] = from /\ twpc'[c] = to /\ \A d \in TwCalls \ {c} : twpc'[d] = twpc[d]
             /\ twpc' \in [TwCalls -> TwPcs] /\ TwHolding' = TwHolding
             /\ {d \in TwCalls : twpc'[d] = "dropped"} = {d \in TwCalls : twpc[d] = "dropped"}
  <2>1. /\ twpc[c] = from /\ twpc'[c] = to /\ \A d \in TwCalls \ {c} : twpc'[d] = twpc[d]
        /\ twpc' \in [TwCalls -> TwPcs]
    BY <1>0, <1>3 DEF TowerTypeOK, TwMove, TwPcs
  <2>2. \A d \in TwCalls : d \in TwHolding' <=> d \in TwHolding BY <2>1 DEF TwHolding
  <2>3. TwHolding' \subseteq TwCalls /\ TwHolding \subseteq TwCalls BY DEF TwHolding
  <2>4. \A d \in TwCalls : twpc'[d] = "dropped" <=> twpc[d] = "dropped" BY <2>1
  <2>5. QED BY <2>1, <2>2, <2>3, <2>4
<1>4. ASSUME TwHolding' = TwHolding, twpc' \in [TwCalls -> TwPcs], TwObserved',
             twfailed' \subseteq TwCalls, twerrors' \in Nat, twinflight' \in Nat,
             twinflight' = Cardinality(TwCounted') + Cardinality(twleaked')
      PROVE  TowerIInv'
  <2>1. TowerTypeOK' BY <1>0, <1>4 DEF TowerTypeOK
  <2>2. QED BY <1>0, <1>2, <1>4, <2>1 DEF TowerIInv
<1>5. CASE TwIncrement(c)
  <2>1. TwMove(c, "called", "running") /\ twinflight' = twinflight + 1
        /\ UNCHANGED <<twerrors, twfailed, twleaked>>
    BY <1>5 DEF TwIncrement
  <2>2. /\ twpc[c] = "called" /\ twpc'[c] = "running"
        /\ \A d \in TwCalls \ {c} : twpc'[d] = twpc[d]
        /\ twpc' \in [TwCalls -> TwPcs] /\ TwHolding' = TwHolding
        /\ {d \in TwCalls : twpc'[d] = "dropped"} = {d \in TwCalls : twpc[d] = "dropped"}
    BY <1>3, <2>1
  <2>3. TwCounted' = TwCounted \cup {c} /\ c \notin TwCounted /\ TwRecording' = TwRecording
    BY <2>2 DEF TwCounted, TwRecording
  <2>4. Cardinality(TwCounted') = Cardinality(TwCounted) + 1 BY <1>1, <2>3, TowerFinite
  <2>5. TwObserved'
    <3>1. c \notin twleaked /\ c \notin twfailed BY <1>0, <2>2 DEF TwObserved
    <3>2. \A d \in twleaked' \cup twfailed' : twpc'[d] = twpc[d] BY <1>1, <2>1, <2>2, <3>1
    <3>3. QED BY <1>0, <2>1, <2>2, <2>3, <3>2 DEF TwObserved
  <2>6. twinflight' = Cardinality(TwCounted') + Cardinality(twleaked') BY <1>0, <1>1, <2>1, <2>4
  <2>7. QED BY <1>1, <1>4, <2>1, <2>2, <2>5, <2>6
<1>6. CASE TwHandled(c) /\ TwMove(c, "running", "ending") /\ UNCHANGED twfailed
  <2>1. UNCHANGED <<twinflight, twerrors, twleaked>> BY <1>6 DEF TwHandled
  <2>2. /\ twpc[c] = "running" /\ twpc'[c] = "ending"
        /\ \A d \in TwCalls \ {c} : twpc'[d] = twpc[d]
        /\ twpc' \in [TwCalls -> TwPcs] /\ TwHolding' = TwHolding
        /\ {d \in TwCalls : twpc'[d] = "dropped"} = {d \in TwCalls : twpc[d] = "dropped"}
    BY <1>3, <1>6
  <2>3. TwCounted' = TwCounted /\ TwRecording' = TwRecording BY <2>2 DEF TwCounted, TwRecording
  <2>4. TwObserved'
    <3>1. c \notin twleaked /\ c \notin twfailed BY <1>0, <2>2 DEF TwObserved
    <3>2. \A d \in twleaked' \cup twfailed' : twpc'[d] = twpc[d] BY <1>1, <1>6, <2>1, <2>2, <3>1
    <3>3. QED BY <1>0, <1>6, <2>1, <2>2, <2>3, <3>2 DEF TwObserved
  <2>5. QED BY <1>0, <1>1, <1>4, <1>6, <2>1, <2>2, <2>3, <2>4
<1>7. CASE TwHandled(c) /\ TwMove(c, "running", "record") /\ twfailed' = twfailed \cup {c}
  <2>1. UNCHANGED <<twinflight, twerrors, twleaked>> BY <1>7 DEF TwHandled
  <2>2. /\ twpc[c] = "running" /\ twpc'[c] = "record"
        /\ \A d \in TwCalls \ {c} : twpc'[d] = twpc[d]
        /\ twpc' \in [TwCalls -> TwPcs] /\ TwHolding' = TwHolding
        /\ {d \in TwCalls : twpc'[d] = "dropped"} = {d \in TwCalls : twpc[d] = "dropped"}
    BY <1>3, <1>7
  <2>3. TwCounted' = TwCounted /\ TwRecording' = TwRecording \cup {c} /\ c \notin TwRecording
    BY <2>2 DEF TwCounted, TwRecording
  <2>a. c \notin twleaked /\ c \notin twfailed BY <1>0, <2>2 DEF TwObserved
  <2>4. /\ Cardinality(TwRecording') = Cardinality(TwRecording) + 1
        /\ Cardinality(twfailed') = Cardinality(twfailed) + 1
    BY <1>1, <1>7, <2>3, <2>a, TowerFinite
  <2>5. TwObserved'
    <3>1. /\ \A d \in twleaked' : twpc'[d] = "dropped"
          /\ \A d \in twfailed' : twpc'[d] \in {"record", "ending", "release", "done", "dropped"}
          /\ TwRecording' \subseteq twfailed'
      BY <1>0, <1>1, <1>7, <2>1, <2>2, <2>3, <2>a DEF TwObserved
    <3>2. /\ twerrors' + Cardinality(TwRecording') <= Cardinality(twfailed')
          /\ twerrors + Cardinality(TwRecording) = Cardinality(twfailed)
               => twerrors' + Cardinality(TwRecording') = Cardinality(twfailed')
      BY <1>0, <1>1, <2>1, <2>4 DEF TwObserved
    <3>3. twfailed' \cap {d \in TwCalls : twpc'[d] = "dropped"} = {}
            => twfailed \cap {d \in TwCalls : twpc[d] = "dropped"} = {}
      BY <1>7, <2>2
    <3>4. QED BY <1>0, <3>1, <3>2, <3>3 DEF TwObserved
  <2>6. twfailed' \subseteq TwCalls BY <1>1, <1>7
  <2>7. QED BY <1>0, <1>1, <1>4, <2>1, <2>2, <2>3, <2>5, <2>6
<1>8. CASE TwRecord(c)
  <2>1. TwMove(c, "record", "ending") /\ twerrors' = twerrors + 1
        /\ UNCHANGED <<twinflight, twfailed, twleaked>>
    BY <1>8 DEF TwRecord
  <2>2. /\ twpc[c] = "record" /\ twpc'[c] = "ending"
        /\ \A d \in TwCalls \ {c} : twpc'[d] = twpc[d]
        /\ twpc' \in [TwCalls -> TwPcs] /\ TwHolding' = TwHolding
        /\ {d \in TwCalls : twpc'[d] = "dropped"} = {d \in TwCalls : twpc[d] = "dropped"}
    BY <1>3, <2>1
  <2>3. TwCounted' = TwCounted /\ TwRecording' = TwRecording \ {c} /\ c \in TwRecording
    BY <2>2 DEF TwCounted, TwRecording
  <2>4. Cardinality(TwRecording') = Cardinality(TwRecording) - 1 BY <1>1, <2>3, TowerFinite
  <2>5. TwObserved'
    <3>1. /\ \A d \in twleaked' : twpc'[d] = "dropped"
          /\ \A d \in twfailed' : twpc'[d] \in {"record", "ending", "release", "done", "dropped"}
          /\ TwRecording' \subseteq twfailed'
      BY <1>0, <1>1, <2>1, <2>2, <2>3 DEF TwObserved
    <3>2. twerrors' + Cardinality(TwRecording') = twerrors + Cardinality(TwRecording)
      BY <1>1, <2>1, <2>4
    <3>3. QED BY <1>0, <2>1, <2>2, <3>1, <3>2 DEF TwObserved
  <2>6. QED BY <1>0, <1>1, <1>4, <2>1, <2>2, <2>3, <2>5
<1>9. CASE TwDecrement(c)
  <2>1. TwMove(c, "ending", "release") /\ twinflight' = (IF twinflight = 0 THEN 0 ELSE twinflight - 1)
        /\ UNCHANGED <<twerrors, twfailed, twleaked>>
    BY <1>9 DEF TwDecrement
  <2>2. /\ twpc[c] = "ending" /\ twpc'[c] = "release"
        /\ \A d \in TwCalls \ {c} : twpc'[d] = twpc[d]
        /\ twpc' \in [TwCalls -> TwPcs] /\ TwHolding' = TwHolding
        /\ {d \in TwCalls : twpc'[d] = "dropped"} = {d \in TwCalls : twpc[d] = "dropped"}
    BY <1>3, <2>1
  <2>3. TwCounted' = TwCounted \ {c} /\ c \in TwCounted /\ TwRecording' = TwRecording
    BY <2>2 DEF TwCounted, TwRecording
  <2>4. Cardinality(TwCounted') = Cardinality(TwCounted) - 1 /\ Cardinality(TwCounted) > 0
    BY <1>1, <2>3, TowerFinite
  <2>5. TwObserved'
    <3>1. /\ \A d \in twleaked' : twpc'[d] = "dropped"
          /\ \A d \in twfailed' : twpc'[d] \in {"record", "ending", "release", "done", "dropped"}
      BY <1>0, <1>1, <2>1, <2>2 DEF TwObserved
    <3>2. QED BY <1>0, <2>1, <2>2, <2>3, <3>1 DEF TwObserved
  <2>6. twinflight' = Cardinality(TwCounted') + Cardinality(twleaked') /\ twinflight' \in Nat
    BY <1>0, <1>1, <2>1, <2>4
  <2>7. QED BY <1>1, <1>4, <2>1, <2>2, <2>5, <2>6
<1>10. QED BY <1>5, <1>6, <1>7, <1>8, <1>9 DEF TwHandled

\* A call ends, or is dropped, and gives its permit back.
LEMMA TwCallEndOk ==
  ASSUME TowerIInv, NEW c \in TwCalls, TwRelease(c) \/ TwDropCall(c)
  PROVE  TowerIInv'
<1>0. /\ TowerTypeOK /\ TwQueued /\ TwReserved + Cardinality(TwHolding) = TwMax
      /\ twinflight = Cardinality(TwCounted) + Cardinality(twleaked) /\ TwObserved
      /\ TwGiveBack(twqueue, twassigned)
      /\ UNCHANGED <<twready, twgone, twinflight, twerrors, twfailed>>
  BY DEF TowerIInv, TwRelease, TwDropCall
<1>1. /\ TwCounted \in SUBSET TwCalls /\ TwRecording \in SUBSET TwCalls
      /\ twfailed \in SUBSET TwCalls /\ twleaked \in SUBSET TwCalls /\ TwHolding \in SUBSET TwCalls
      /\ Cardinality(TwCounted) \in Nat /\ Cardinality(TwRecording) \in Nat
      /\ Cardinality(twfailed) \in Nat /\ Cardinality(twleaked) \in Nat
      /\ Cardinality(TwHolding) \in Nat
      /\ twinflight \in Nat /\ twerrors \in Nat
  BY <1>0, TowerFinite DEF TowerTypeOK, TwCounted, TwRecording, TwHolding
<1>2. /\ twpermits \in Nat /\ Cardinality(twassigned) \in Nat /\ Cardinality(twready) \in Nat
      /\ twassigned \in SUBSET TwClones /\ twready \in SUBSET TwClones
  BY <1>0, TowerFinite DEF TowerTypeOK
<1>3. /\ twpermits' \in Nat /\ twqueue' \in Seq(TwClones) /\ twassigned' \subseteq TwClones
      /\ IsInjective(twqueue') /\ Range(twqueue') \subseteq Range(twqueue)
      /\ twassigned' \subseteq twassigned \cup Range(twqueue)
      /\ Range(twqueue') \cap twassigned' = {}
      /\ twqueue' # <<>> => twpermits' = 0
      /\ twpermits' + Cardinality(twassigned') = twpermits + Cardinality(twassigned) + 1
  <2>1. twassigned \cap Range(twqueue) = {} BY <1>0 DEF TwQueued
  <2>2. QED BY <1>0, <1>2, <2>1, TwGiveBackOk
<1>4. TwQueued' BY <1>0, <1>3 DEF TwQueued
<1>5. ASSUME NEW to \in {"done", "dropped"}, twpc' = [twpc EXCEPT ![c] = to],
             twpc[c] \in {"called", "running", "record", "ending", "release"}
      PROVE  /\ twpc'[c] = to /\ \A d \in TwCalls \ {c} : twpc'[d] = twpc[d]
             /\ twpc' \in [TwCalls -> TwPcs] /\ twpermits' \in 0..TwMax
             /\ TwReserved' + Cardinality(TwHolding') = TwMax
  <2>1. /\ twpc'[c] = to /\ \A d \in TwCalls \ {c} : twpc'[d] = twpc[d]
        /\ twpc' \in [TwCalls -> TwPcs]
    BY <1>0, <1>5 DEF TowerTypeOK, TwPcs
  <2>2. TwHolding' = TwHolding \ {c} /\ c \in TwHolding BY <1>5, <2>1 DEF TwHolding
  <2>3. Cardinality(TwHolding') = Cardinality(TwHolding) - 1 /\ Cardinality(TwHolding) > 0
    BY <1>1, <2>2, TowerFinite
  <2>4. Cardinality(twassigned') \in Nat /\ Cardinality(twready') = Cardinality(twready)
    BY <1>0, <1>3, TowerFinite
  <2>5. TwReserved' = TwReserved + 1 BY <1>2, <1>3, <2>4 DEF TwReserved
  <2>6. TwReserved' + Cardinality(TwHolding') = TwMax
    BY <1>0, <1>1, <1>2, <2>3, <2>5 DEF TwReserved
  <2>7. twpermits' \in 0..TwMax
    <3>1. twpermits' + Cardinality(twassigned') + Cardinality(twready) + (Cardinality(TwHolding) - 1)
            = TwMax
      BY <2>3, <2>4, <2>6 DEF TwReserved
    <3>2. /\ Cardinality(TwHolding) \in Nat \ {0} /\ Cardinality(twready) \in Nat
          /\ twpermits' \in Nat /\ Cardinality(twassigned') \in Nat /\ TwMax \in Nat
      BY <1>1, <1>2, <1>3, <2>3, <2>4, TowerAssumption
    <3>3. QED BY <3>1, <3>2
  <2>8. QED BY <2>1, <2>6, <2>7
<1>6. CASE TwRelease(c)
  <2>1. twpc[c] = "release" /\ twpc' = [twpc EXCEPT ![c] = "done"] /\ twleaked' = twleaked
    BY <1>6 DEF TwRelease, TwMove
  <2>2. /\ twpc'[c] = "done" /\ \A d \in TwCalls \ {c} : twpc'[d] = twpc[d]
        /\ twpc' \in [TwCalls -> TwPcs] /\ twpermits' \in 0..TwMax
        /\ TwReserved' + Cardinality(TwHolding') = TwMax
    BY <1>5, <2>1
  <2>3. TwCounted' = TwCounted /\ TwRecording' = TwRecording
    BY <2>1, <2>2 DEF TwCounted, TwRecording
  <2>4. TowerTypeOK' BY <1>0, <1>3, <2>1, <2>2 DEF TowerTypeOK
  <2>5. TwObserved'
    <3>1. {d \in TwCalls : twpc'[d] = "dropped"} = {d \in TwCalls : twpc[d] = "dropped"}
      BY <2>1, <2>2
    <3>2. /\ \A d \in twleaked' : twpc'[d] = "dropped"
          /\ \A d \in twfailed' : twpc'[d] \in {"record", "ending", "release", "done", "dropped"}
      BY <1>0, <1>1, <2>1, <2>2 DEF TwObserved
    <3>3. QED BY <1>0, <2>1, <2>3, <3>1, <3>2 DEF TwObserved
  <2>6. QED BY <1>0, <1>4, <2>1, <2>2, <2>3, <2>4, <2>5 DEF TowerIInv
<1>7. CASE TwDropCall(c)
  <2>1. /\ twpc[c] \in {"called", "running", "record", "ending"}
        /\ twpc' = [twpc EXCEPT ![c] = "dropped"]
        /\ twleaked' = IF c \in TwCounted THEN twleaked \cup {c} ELSE twleaked
    BY <1>7 DEF TwDropCall
  <2>2. /\ twpc'[c] = "dropped" /\ \A d \in TwCalls \ {c} : twpc'[d] = twpc[d]
        /\ twpc' \in [TwCalls -> TwPcs] /\ twpermits' \in 0..TwMax
        /\ TwReserved' + Cardinality(TwHolding') = TwMax
    BY <1>5, <2>1
  <2>3. TwCounted' = TwCounted \ {c} /\ TwRecording' = TwRecording \ {c}
    BY <2>1, <2>2 DEF TwCounted, TwRecording
  <2>4. twleaked' \subseteq TwCalls /\ c \notin twleaked BY <1>0, <1>1, <2>1 DEF TwObserved
  <2>5. TowerTypeOK' BY <1>0, <1>3, <2>2, <2>4 DEF TowerTypeOK
  <2>6. twinflight' = Cardinality(TwCounted') + Cardinality(twleaked')
    <3>1. CASE c \in TwCounted
      <4>1. Cardinality(TwCounted') = Cardinality(TwCounted) - 1 BY <1>1, <2>3, <3>1, TowerFinite
      <4>2. Cardinality(twleaked') = Cardinality(twleaked) + 1 BY <1>1, <2>1, <2>4, <3>1, TowerFinite
      <4>3. QED BY <1>0, <1>1, <4>1, <4>2
    <3>2. CASE c \notin TwCounted
      <4>1. TwCounted' = TwCounted /\ twleaked' = twleaked BY <2>1, <2>3, <3>2
      <4>2. QED BY <1>0, <4>1
    <3>3. QED BY <3>1, <3>2
  <2>7. TwObserved'
    <3>1. /\ \A d \in twleaked' : twpc'[d] = "dropped"
          /\ \A d \in twfailed' : twpc'[d] \in {"record", "ending", "release", "done", "dropped"}
          /\ TwRecording' \subseteq twfailed'
      BY <1>0, <1>1, <2>1, <2>2, <2>3 DEF TwObserved
    <3>2. CASE c \in TwRecording
      <4>1. Cardinality(TwRecording') = Cardinality(TwRecording) - 1 BY <1>1, <2>3, <3>2, TowerFinite
      <4>2. c \in twfailed' BY <1>0, <3>2 DEF TwObserved
      <4>3. c \in {d \in TwCalls : twpc'[d] = "dropped"} BY <2>2
      <4>4. twerrors' + Cardinality(TwRecording') <= Cardinality(twfailed')
        BY <1>0, <1>1, <4>1 DEF TwObserved
      <4>5. QED BY <3>1, <4>2, <4>3, <4>4 DEF TwObserved
    <3>3. CASE c \notin TwRecording
      <4>1. TwRecording' = TwRecording BY <2>3, <3>3
      <4>2. twfailed' \cap {d \in TwCalls : twpc'[d] = "dropped"} = {}
              => twfailed \cap {d \in TwCalls : twpc[d] = "dropped"} = {}
        BY <1>0, <2>2
      <4>3. QED BY <1>0, <3>1, <4>1, <4>2 DEF TwObserved
    <3>4. QED BY <3>2, <3>3
  <2>8. QED BY <1>4, <2>2, <2>5, <2>6, <2>7 DEF TowerIInv
<1>8. QED BY <1>6, <1>7

\* However calls, clones and futures end, permits are neither lost nor made, for any
\* limit and any number of clones and calls; the counter of calls in flight and the
\* errors counted are off only by what was dropped (id_effect_tower/lib.rs).
THEOREM TowerInvariant == TowerSpec => []TowerInv
<1>1. TowerIInv /\ [TowerNext]_twvars => TowerIInv'
  <2> SUFFICES ASSUME TowerIInv, [TowerNext]_twvars PROVE TowerIInv' OBVIOUS
  <2>1. CASE UNCHANGED twvars
    <3>1. TwHolding' = TwHolding /\ TwObserved' /\ twinflight' = Cardinality(TwCounted') + Cardinality(twleaked')
      BY <2>1, TowerCallsSame DEF twvars
    <3>2. TowerTypeOK' /\ TwQueued' /\ TwReserved' = TwReserved
      BY <2>1 DEF twvars, TowerIInv, TowerTypeOK, TwQueued, TwReserved
    <3>3. QED BY <3>1, <3>2 DEF TowerIInv
  <2>2. QED BY <2>1, TwPollReadyOk, TwDropCloneOk, TwCallOk, TwCallStepOk, TwCallEndOk
          DEF TowerNext, TwStep
<1>2. TowerIInv => TowerInv
  <2> SUFFICES ASSUME TowerIInv PROVE TowerInv OBVIOUS
  <2>1. /\ TowerTypeOK /\ TwQueued /\ TwReserved + Cardinality(TwHolding) = TwMax
        /\ twinflight = Cardinality(TwCounted) + Cardinality(twleaked) /\ TwObserved
    BY DEF TowerIInv
  <2>2. ToSet(twqueue) = Range(twqueue) BY <2>1, RangeOf DEF TowerTypeOK
  <2>3. TwPermitsConserved BY <2>1, <2>2 DEF TwPermitsConserved, TwQueued, TwReserved
  <2>4. TwCountsCalls
    <3>1. IsFiniteSet(TwHolding) /\ TwCounted \subseteq TwHolding BY TowerFinite DEF TwHolding, TwCounted
    <3>2. Cardinality(TwCounted) <= Cardinality(TwHolding) BY <3>1, FS_Subset
    <3>3. /\ twpermits \in Nat /\ Cardinality(twassigned) \in Nat /\ Cardinality(twready) \in Nat
          /\ Cardinality(TwHolding) \in Nat /\ Cardinality(TwCounted) \in Nat
      BY <2>1, TowerFinite DEF TowerTypeOK, TwHolding, TwCounted
    <3>a. twpermits + Cardinality(twassigned) + Cardinality(twready) + Cardinality(TwHolding) = TwMax
      BY <2>1 DEF TwReserved
    <3>4. Cardinality(TwHolding) <= TwMax BY <3>3, <3>a, TowerAssumption
    <3>5. QED BY <2>1, <3>2, <3>3, <3>4, TowerAssumption DEF TwCountsCalls
  <2>5. TwErrorsCounted
    <3>1. /\ TwRecording \in SUBSET TwCalls /\ Cardinality(TwRecording) \in Nat
          /\ Cardinality(twfailed) \in Nat /\ twerrors \in Nat
      BY <2>1, TowerFinite DEF TowerTypeOK, TwRecording
    <3>2. twerrors <= Cardinality(twfailed) BY <2>1, <3>1 DEF TwObserved
    <3>3. ASSUME twfailed \cap {c \in TwCalls : twpc[c] \in {"record", "dropped"}} = {}
          PROVE  twerrors = Cardinality(twfailed)
      <4>1. TwRecording = {} BY <2>1, <3>3 DEF TwObserved, TwRecording
      <4>2. Cardinality(TwRecording) = 0 BY <4>1, FS_EmptySet
      <4>3. twfailed \cap {c \in TwCalls : twpc[c] = "dropped"} = {} BY <3>3
      <4>4. QED BY <2>1, <3>1, <4>2, <4>3 DEF TwObserved
    <3>4. QED BY <3>2, <3>3 DEF TwErrorsCounted
  <2>6. QED BY <2>1, <2>3, <2>4, <2>5 DEF TowerInv
<1>3. QED BY <1>1, <1>2, TowerInitOk, PTL DEF TowerSpec

(***************************************************************************)
(* Admission.                                                              *)
(***************************************************************************)

AdDead == {w \in AdWorkers : adworker[w] = "dead"}
AdPanicked == {j \in AdJobs : adjob[j] = "panicked"}

\* Where the jobs are: each queued one once in the channel, each running one with
\* one worker, and one dropped when no worker was left.
AdPlaced ==
  /\ IsInjective(adqueue)
  /\ \A j \in AdJobs : adjob[j] = "queued" <=> j \in Range(adqueue)
  /\ \A w \in AdWorkers : adworker[w] \in AdJobs => adjob[adworker[w]] \in {"running", "finished"}
  /\ \A j \in AdJobs : adjob[j] \in {"running", "finished"} =>
       \E w \in AdWorkers : adworker[w] = j
  /\ \A u, w \in AdWorkers : adworker[u] = adworker[w] /\ adworker[u] \in AdJobs => u = w
  /\ \A j \in AdJobs : adjob[j] = "dropped" => \A w \in AdWorkers : adworker[w] = "dead"

\* The inductive invariant.
AdmissionIInv == /\ AdmissionTypeOK /\ PermitsBounded /\ AdPlaced
                 /\ Cardinality(AdDead) = Cardinality(AdPanicked)

\* What is counted is finite.
LEMMA AdFinite ==
  /\ \A A \in SUBSET AdJobs : Cardinality(A) \in Nat
  /\ \A A \in SUBSET AdJobs, x \in AdJobs :
       /\ x \notin A => Cardinality(A \cup {x}) = Cardinality(A) + 1
       /\ x \in A => Cardinality(A \ {x}) = Cardinality(A) - 1
       /\ x \in A => Cardinality(A) > 0
  /\ \A A \in SUBSET AdWorkers, x \in AdWorkers :
       x \notin A => Cardinality(A \cup {x}) = Cardinality(A) + 1
<1>1. IsFiniteSet(AdJobs) /\ IsFiniteSet(AdWorkers) BY AdmissionAssumption
<1>2. \A A \in SUBSET AdJobs : Cardinality(A) \in Nat BY <1>1, FS_Subset, FS_CardinalityType
<1>3. \A A \in SUBSET AdJobs, x \in AdJobs :
       /\ x \notin A => Cardinality(A \cup {x}) = Cardinality(A) + 1
       /\ x \in A => Cardinality(A \ {x}) = Cardinality(A) - 1
       /\ x \in A => Cardinality(A) > 0
  BY <1>1, CountChange
<1>4. \A A \in SUBSET AdWorkers, x \in AdWorkers :
       x \notin A => Cardinality(A \cup {x}) = Cardinality(A) + 1
  BY <1>1, CountChange
<1>5. QED BY <1>2, <1>3, <1>4

\* It holds at the start.
LEMMA AdmissionInitOk == AdmissionInit => AdmissionIInv
<1> SUFFICES ASSUME AdmissionInit PROVE AdmissionIInv OBVIOUS
<1> USE AdmissionAssumption DEF AdmissionInit
<1>1. <<>> \in Seq(AdJobs) /\ DOMAIN adqueue = {} OBVIOUS
<1>2. adpermits \in Nat /\ adpermits <= AdMax OBVIOUS
<1>3. AdmissionTypeOK BY <1>1, <1>2 DEF AdmissionTypeOK, AdPlaces
<1>4. AdHolding = {} /\ AdDead = {} /\ AdPanicked = {} BY DEF AdHolding, AdDead, AdPanicked
<1>5. Cardinality({}) = 0 BY FS_EmptySet
<1>6. PermitsBounded BY <1>2, <1>4, <1>5 DEF PermitsBounded
<1>7. Range(adqueue) = {} /\ IsInjective(adqueue) BY <1>1 DEF Range, IsInjective
<1>8. AdPlaced BY <1>7 DEF AdPlaced
<1>9. QED BY <1>3, <1>4, <1>5, <1>6, <1>8 DEF AdmissionIInv

\* A permit is taken or refused.
LEMMA AdAdmitOk ==
  ASSUME AdmissionIInv, NEW j \in AdJobs, AdAcquire(j) \/ AdRefuse(j)
  PROVE  AdmissionIInv'
<1>0. /\ AdmissionTypeOK /\ PermitsBounded /\ AdPlaced
      /\ Cardinality(AdDead) = Cardinality(AdPanicked)
      /\ adjob[j] = "new" /\ UNCHANGED <<adqueue, adworker, adticks, adcredit>>
      /\ \/ adjob' = [adjob EXCEPT ![j] = "admitted"] /\ adpermits' = adpermits - 1 /\ adpermits > 0
         \/ adjob' = [adjob EXCEPT ![j] = "refused"] /\ adpermits' = adpermits
  BY DEF AdmissionIInv, AdAcquire, AdRefuse
<1>1. /\ adpermits \in Nat /\ adcredit \in Nat /\ AdHolding \in SUBSET AdJobs
      /\ Cardinality(AdHolding) \in Nat /\ AdMax \in Nat
  BY <1>0, AdFinite, AdmissionAssumption DEF AdmissionTypeOK, AdHolding
<1>2. adjob'[j] \in {"admitted", "refused"} /\ \A k \in AdJobs \ {j} : adjob'[k] = adjob[k]
  BY <1>0 DEF AdmissionTypeOK
<1>3. AdmissionTypeOK' BY <1>0, <1>1 DEF AdmissionTypeOK, AdPlaces
<1>4. AdPlaced' BY <1>0, <1>2 DEF AdPlaced
<1>5. AdDead' = AdDead /\ AdPanicked' = AdPanicked BY <1>0, <1>2 DEF AdDead, AdPanicked
<1>6. PermitsBounded'
  <2>1. CASE adjob'[j] = "admitted"
    <3>1. AdHolding' = AdHolding \cup {j} /\ j \notin AdHolding BY <1>0, <1>2, <2>1 DEF AdHolding
    <3>2. Cardinality(AdHolding') = Cardinality(AdHolding) + 1 BY <1>1, <3>1, AdFinite
    <3>3. adpermits' = adpermits - 1 /\ adpermits > 0 BY <1>0, <2>1 DEF AdmissionTypeOK
    <3>4. QED BY <1>0, <1>1, <3>2, <3>3 DEF PermitsBounded
  <2>2. CASE adjob'[j] = "refused"
    <3>1. AdHolding' = AdHolding BY <1>0, <1>2, <2>2 DEF AdHolding
    <3>2. adpermits' = adpermits BY <1>0, <2>2 DEF AdmissionTypeOK
    <3>3. QED BY <1>0, <3>1, <3>2 DEF PermitsBounded
  <2>3. QED BY <1>2, <2>1, <2>2
<1>7. QED BY <1>0, <1>3, <1>4, <1>5, <1>6 DEF AdmissionIInv

\* A job enters the channel of the pool.
LEMMA AdSpawnOk ==
  ASSUME AdmissionIInv, NEW j \in AdJobs, AdSpawn(j)
  PROVE  AdmissionIInv'
<1>0. /\ AdmissionTypeOK /\ PermitsBounded /\ AdPlaced
      /\ Cardinality(AdDead) = Cardinality(AdPanicked)
      /\ adjob[j] = "admitted" /\ adjob' = [adjob EXCEPT ![j] = "queued"]
      /\ adqueue' = Append(adqueue, j) /\ UNCHANGED <<adpermits, adworker, adticks, adcredit>>
  BY DEF AdmissionIInv, AdSpawn
<1>1. adjob'[j] = "queued" /\ \A k \in AdJobs \ {j} : adjob'[k] = adjob[k]
  BY <1>0 DEF AdmissionTypeOK
<1>2. adqueue' \in Seq(AdJobs) /\ IsInjective(adqueue') /\ Range(adqueue') = Range(adqueue) \cup {j}
  <2>1. adqueue \in Seq(AdJobs) /\ IsInjective(adqueue) /\ j \in AdJobs \ Range(adqueue)
    BY <1>0 DEF AdmissionTypeOK, AdPlaced
  <2>2. QED BY <1>0, <2>1, AppendOnce
<1>3. AdmissionTypeOK' BY <1>0, <1>2 DEF AdmissionTypeOK, AdPlaces
<1>4. AdPlaced' BY <1>0, <1>1, <1>2 DEF AdPlaced
<1>5. AdDead' = AdDead /\ AdPanicked' = AdPanicked /\ AdHolding' = AdHolding
  BY <1>0, <1>1 DEF AdDead, AdPanicked, AdHolding
<1>6. PermitsBounded' BY <1>0, <1>5 DEF PermitsBounded
<1>7. QED BY <1>0, <1>3, <1>4, <1>5, <1>6 DEF AdmissionIInv

\* A job that nobody can receive is dropped.
LEMMA AdSendFailsOk ==
  ASSUME AdmissionIInv, NEW j \in AdJobs, AdSendFails(j)
  PROVE  AdmissionIInv'
<1>0. /\ AdmissionTypeOK /\ PermitsBounded /\ AdPlaced
      /\ Cardinality(AdDead) = Cardinality(AdPanicked)
      /\ adjob[j] = "admitted" /\ adjob' = [adjob EXCEPT ![j] = "dropped"]
      /\ \A w \in AdWorkers : adworker[w] = "dead"
      /\ UNCHANGED <<adpermits, adqueue, adworker, adticks, adcredit>>
  BY DEF AdmissionIInv, AdSendFails, AdConnected
<1>1. adjob'[j] = "dropped" /\ \A k \in AdJobs \ {j} : adjob'[k] = adjob[k]
  BY <1>0 DEF AdmissionTypeOK
<1>2. AdmissionTypeOK' BY <1>0 DEF AdmissionTypeOK, AdPlaces
<1>3. AdPlaced' BY <1>0, <1>1 DEF AdPlaced
<1>4. AdDead' = AdDead /\ AdPanicked' = AdPanicked /\ AdHolding' = AdHolding \ {j}
  BY <1>0, <1>1 DEF AdDead, AdPanicked, AdHolding
<1>5. j \in AdHolding /\ AdHolding \in SUBSET AdJobs BY <1>0 DEF AdHolding
<1>6. Cardinality(AdHolding') = Cardinality(AdHolding) - 1 /\ Cardinality(AdHolding) \in Nat
  BY <1>4, <1>5, AdFinite
<1>7. PermitsBounded' BY <1>0, <1>6, AdmissionAssumption DEF PermitsBounded, AdmissionTypeOK
<1>8. QED BY <1>0, <1>2, <1>3, <1>4, <1>7 DEF AdmissionIInv

\* A worker takes the first job.
LEMMA AdRecvOk ==
  ASSUME AdmissionIInv, NEW w \in AdWorkers, AdRecv(w)
  PROVE  AdmissionIInv'
<1> USE AdmissionAssumption
<1> DEFINE j == Head(adqueue)
<1>0. /\ AdmissionTypeOK /\ PermitsBounded /\ AdPlaced
      /\ Cardinality(AdDead) = Cardinality(AdPanicked)
      /\ adworker[w] = AdNone /\ adqueue # <<>> /\ adqueue' = Tail(adqueue)
      /\ adworker' = [adworker EXCEPT ![w] = j] /\ adjob' = [adjob EXCEPT ![j] = "running"]
      /\ UNCHANGED <<adpermits, adticks, adcredit>>
  BY DEF AdmissionIInv, AdRecv
<1>1. /\ adqueue' \in Seq(AdJobs) /\ j \in AdJobs /\ j \in Range(adqueue)
      /\ IsInjective(adqueue') /\ Range(adqueue') = Range(adqueue) \ {j}
  <2>1. adqueue \in Seq(AdJobs) /\ IsInjective(adqueue) BY <1>0 DEF AdmissionTypeOK, AdPlaced
  <2>2. QED BY <1>0, <2>1, TailOnce
<1> HIDE DEF j
<1>2. /\ adjob'[j] = "running" /\ \A k \in AdJobs \ {j} : adjob'[k] = adjob[k]
      /\ adworker'[w] = j /\ \A u \in AdWorkers \ {w} : adworker'[u] = adworker[u]
      /\ adjob[j] = "queued"
  BY <1>0, <1>1 DEF AdmissionTypeOK, AdPlaced
<1>3. AdmissionTypeOK' BY <1>0, <1>1 DEF AdmissionTypeOK, AdPlaces
<1>4. AdPlaced'
  <2>1. \A u \in AdWorkers \ {w} : adworker[u] # j BY <1>0, <1>1, <1>2 DEF AdPlaced
  <2>2. \A k \in AdJobs : adjob'[k] = "queued" <=> k \in Range(adqueue') BY <1>0, <1>1, <1>2 DEF AdPlaced
  <2>3. \A u \in AdWorkers : adworker'[u] \in AdJobs => adjob'[adworker'[u]] \in {"running", "finished"}
    BY <1>0, <1>1, <1>2, <2>1 DEF AdPlaced
  <2>4. \A k \in AdJobs : adjob'[k] \in {"running", "finished"} => \E u \in AdWorkers : adworker'[u] = k
    <3> SUFFICES ASSUME NEW k \in AdJobs, k # j, adjob[k] \in {"running", "finished"}
                 PROVE  \E u \in AdWorkers : adworker'[u] = k
      BY <1>2
    <3>1. PICK u \in AdWorkers : adworker[u] = k BY <1>0 DEF AdPlaced
    <3>2. u # w BY <1>0, <3>1
    <3>3. QED BY <1>2, <3>1, <3>2
  <2>5. \A u, v \in AdWorkers : adworker'[u] = adworker'[v] /\ adworker'[u] \in AdJobs => u = v
    BY <1>0, <1>2, <2>1 DEF AdPlaced
  <2>6. \A k \in AdJobs : adjob'[k] # "dropped" BY <1>0, <1>2 DEF AdPlaced
  <2>7. QED BY <1>1, <2>2, <2>3, <2>4, <2>5, <2>6 DEF AdPlaced
<1>5. AdDead' = AdDead /\ AdPanicked' = AdPanicked /\ AdHolding' = AdHolding
  <2>1. j # "dead" BY <1>1
  <2>2. QED BY <1>0, <1>1, <1>2, <2>1 DEF AdDead, AdPanicked, AdHolding
<1>6. PermitsBounded' BY <1>0, <1>5 DEF PermitsBounded
<1>7. QED BY <1>0, <1>3, <1>4, <1>5, <1>6 DEF AdmissionIInv

\* A job ends, by a return or a panic, and a finished one gives its permit back.
LEMMA AdWorkOk ==
  ASSUME AdmissionIInv, NEW w \in AdWorkers, AdFinish(w) \/ AdPanic(w) \/ AdRelease(w)
  PROVE  AdmissionIInv'
<1> USE AdmissionAssumption
<1> DEFINE j == adworker[w]
<1>0. /\ AdmissionTypeOK /\ PermitsBounded /\ AdPlaced
      /\ Cardinality(AdDead) = Cardinality(AdPanicked)
      /\ j \in AdJobs /\ adjob[j] \in {"running", "finished"}
      /\ UNCHANGED <<adqueue, adticks, adcredit>>
  BY DEF AdmissionIInv, AdFinish, AdPanic, AdRelease
<1>1. /\ adpermits \in Nat /\ adcredit \in Nat /\ AdHolding \in SUBSET AdJobs /\ AdMax \in Nat
      /\ AdPanicked \in SUBSET AdJobs /\ AdDead \in SUBSET AdWorkers
      /\ Cardinality(AdHolding) \in Nat /\ adjob \in [AdJobs -> AdPlaces]
      /\ adworker \in [AdWorkers -> AdJobs \cup {AdNone, "dead"}]
  BY <1>0, AdFinite DEF AdmissionTypeOK, AdHolding, AdPanicked, AdDead
<1>2. \A u \in AdWorkers \ {w} : adworker[u] # j BY <1>0 DEF AdPlaced
<1>3. j \notin Range(adqueue) BY <1>0 DEF AdPlaced
<1>4. adworker[w] = j OBVIOUS
<1>5. CASE AdFinish(w)
  <2>1. adjob' = [adjob EXCEPT ![j] = "finished"] /\ UNCHANGED <<adpermits, adworker>>
    BY <1>5 DEF AdFinish
  <2> HIDE DEF j
  <2>2. adjob'[j] = "finished" /\ \A k \in AdJobs \ {j} : adjob'[k] = adjob[k] BY <1>0, <1>1, <2>1
  <2>3. AdmissionTypeOK' BY <1>0, <2>1 DEF AdmissionTypeOK, AdPlaces
  <2>4. AdPlaced' BY <1>0, <2>1, <2>2 DEF AdPlaced
  <2>5. AdDead' = AdDead /\ AdPanicked' = AdPanicked /\ AdHolding' = AdHolding
    BY <1>0, <2>1, <2>2 DEF AdDead, AdPanicked, AdHolding
  <2>6. PermitsBounded' BY <1>0, <2>1, <2>5 DEF PermitsBounded
  <2>7. QED BY <1>0, <2>3, <2>4, <2>5, <2>6 DEF AdmissionIInv
<1>6. ASSUME NEW to \in {"panicked", "released"}, NEW v \in {AdNone, "dead"},
             adjob' = [adjob EXCEPT ![j] = to], adworker' = [adworker EXCEPT ![w] = v]
      PROVE  /\ adjob' \in [AdJobs -> AdPlaces]
             /\ adworker' \in [AdWorkers -> AdJobs \cup {AdNone, "dead"}]
             /\ adjob'[j] = to /\ \A k \in AdJobs \ {j} : adjob'[k] = adjob[k]
             /\ adworker'[w] = v /\ \A u \in AdWorkers \ {w} : adworker'[u] = adworker[u]
             /\ AdPlaced' /\ Cardinality(AdHolding') = Cardinality(AdHolding) - 1
             /\ Cardinality(AdHolding) > 0
  <2> HIDE DEF j
  <2>1. /\ adjob' \in [AdJobs -> AdPlaces]
        /\ adworker' \in [AdWorkers -> AdJobs \cup {AdNone, "dead"}]
        /\ adjob'[j] = to /\ \A k \in AdJobs \ {j} : adjob'[k] = adjob[k]
        /\ adworker'[w] = v /\ \A u \in AdWorkers \ {w} : adworker'[u] = adworker[u]
    BY <1>0, <1>1, <1>6 DEF AdPlaces
  <2>2. AdHolding' = AdHolding \ {j} /\ j \in AdHolding BY <1>0, <2>1 DEF AdHolding
  <2>3. \A k \in AdJobs : adjob'[k] = "queued" <=> k \in Range(adqueue')
    BY <1>0, <1>3, <2>1 DEF AdPlaced
  <2>4. \A u \in AdWorkers : adworker'[u] \in AdJobs => adjob'[adworker'[u]] \in {"running", "finished"}
    BY <1>0, <1>2, <2>1 DEF AdPlaced
  <2>5. \A k \in AdJobs : adjob'[k] \in {"running", "finished"} => \E u \in AdWorkers : adworker'[u] = k
    <3> SUFFICES ASSUME NEW k \in AdJobs, k # j, adjob[k] \in {"running", "finished"}
                 PROVE  \E u \in AdWorkers : adworker'[u] = k
      BY <2>1
    <3>1. PICK u \in AdWorkers : adworker[u] = k BY <1>0 DEF AdPlaced
    <3>2. u # w BY <1>4, <3>1
    <3>3. QED BY <2>1, <3>1, <3>2
  <2>6. \A u, x \in AdWorkers : adworker'[u] = adworker'[x] /\ adworker'[u] \in AdJobs => u = x
    BY <1>0, <2>1 DEF AdPlaced
  <2>7. \A k \in AdJobs : adjob'[k] # "dropped" BY <1>0, <1>4, <2>1 DEF AdPlaced
  <2>8. AdPlaced' BY <1>0, <2>3, <2>4, <2>5, <2>6, <2>7 DEF AdPlaced
  <2>9. QED BY <1>1, <2>1, <2>2, <2>8, AdFinite
<1>7. CASE AdPanic(w)
  <2>1. /\ adjob' = [adjob EXCEPT ![j] = "panicked"] /\ adworker' = [adworker EXCEPT ![w] = "dead"]
        /\ adpermits' = adpermits
    BY <1>7 DEF AdPanic
  <2>2. /\ adjob' \in [AdJobs -> AdPlaces]
        /\ adworker' \in [AdWorkers -> AdJobs \cup {AdNone, "dead"}]
        /\ adjob'[j] = "panicked" /\ \A k \in AdJobs \ {j} : adjob'[k] = adjob[k]
        /\ adworker'[w] = "dead" /\ \A u \in AdWorkers \ {w} : adworker'[u] = adworker[u]
        /\ AdPlaced' /\ Cardinality(AdHolding') = Cardinality(AdHolding) - 1
        /\ Cardinality(AdHolding) > 0
    BY <1>6, <2>1
  <2> HIDE DEF j
  <2>3. AdDead' = AdDead \cup {w} /\ w \notin AdDead BY <1>0, <1>4, <2>2 DEF AdDead
  <2>4. AdPanicked' = AdPanicked \cup {j} /\ j \notin AdPanicked BY <1>0, <2>2 DEF AdPanicked
  <2>5. Cardinality(AdDead') = Cardinality(AdPanicked')
    <3>1. Cardinality(AdDead') = Cardinality(AdDead) + 1 BY <1>1, <2>3, AdFinite
    <3>2. Cardinality(AdPanicked') = Cardinality(AdPanicked) + 1 BY <1>0, <1>1, <2>4, AdFinite
    <3>3. QED BY <1>0, <3>1, <3>2
  <2>6. PermitsBounded' BY <1>0, <1>1, <2>1, <2>2 DEF PermitsBounded
  <2>7. AdmissionTypeOK' BY <1>0, <2>1, <2>2 DEF AdmissionTypeOK
  <2>8. QED BY <2>2, <2>5, <2>6, <2>7 DEF AdmissionIInv
<1>8. CASE AdRelease(w)
  <2>1. /\ adjob' = [adjob EXCEPT ![j] = "released"] /\ adworker' = [adworker EXCEPT ![w] = AdNone]
        /\ adpermits' = IF adpermits < AdMax THEN adpermits + 1 ELSE AdMax
    BY <1>8 DEF AdRelease
  <2>2. /\ adjob' \in [AdJobs -> AdPlaces]
        /\ adworker' \in [AdWorkers -> AdJobs \cup {AdNone, "dead"}]
        /\ adjob'[j] = "released" /\ \A k \in AdJobs \ {j} : adjob'[k] = adjob[k]
        /\ adworker'[w] = AdNone /\ \A u \in AdWorkers \ {w} : adworker'[u] = adworker[u]
        /\ AdPlaced' /\ Cardinality(AdHolding') = Cardinality(AdHolding) - 1
        /\ Cardinality(AdHolding) > 0
    BY <1>6, <2>1
  <2> HIDE DEF j
  <2>3. AdDead' = AdDead /\ AdPanicked' = AdPanicked
    BY <1>0, <1>4, <2>2 DEF AdDead, AdPanicked
  <2>4. adpermits' \in Nat /\ adpermits' <= AdMax /\ adpermits' <= adpermits + 1
    BY <1>0, <1>1, <2>1 DEF PermitsBounded
  <2>5. PermitsBounded' BY <1>0, <1>1, <2>2, <2>4 DEF PermitsBounded
  <2>6. AdmissionTypeOK' BY <1>0, <2>2, <2>4 DEF AdmissionTypeOK
  <2>7. QED BY <1>0, <2>2, <2>3, <2>5, <2>6 DEF AdmissionIInv
<1>9. QED BY <1>5, <1>7, <1>8

\* The supervisor stores a number of permits.
LEMMA AdRebalanceOk == AdmissionIInv /\ AdRebalance => AdmissionIInv'
<1> SUFFICES ASSUME AdmissionIInv, AdRebalance PROVE AdmissionIInv' OBVIOUS
<1> USE AdmissionAssumption
<1>0. /\ AdmissionTypeOK /\ PermitsBounded /\ AdPlaced
      /\ Cardinality(AdDead) = Cardinality(AdPanicked)
      /\ adticks < AdTicks /\ adticks' = adticks + 1 /\ UNCHANGED <<adjob, adqueue, adworker>>
  BY DEF AdmissionIInv, AdRebalance
<1>1. AdHolding' = AdHolding /\ AdDead' = AdDead /\ AdPanicked' = AdPanicked /\ AdPlaced'
  BY <1>0 DEF AdHolding, AdDead, AdPanicked, AdPlaced
<1>2. Cardinality(AdHolding) \in Nat BY AdFinite DEF AdHolding
<1>a. PICK least \in AdLeast : \E desired \in least..AdMax :
        adpermits' = desired /\ adcredit' = desired + Cardinality(AdHolding)
  BY DEF AdRebalance
<1>3. PICK desired \in least..AdMax :
        adpermits' = desired /\ adcredit' = desired + Cardinality(AdHolding)
  BY <1>a
<1>4. desired \in Nat /\ desired <= AdMax
  <2>1. AdMax \div 2 \in Int OBVIOUS
  <2>2. least \in Nat BY <2>1 DEF AdLeast
  <2>3. QED BY <2>2
<1>5. PermitsBounded' BY <1>1, <1>2, <1>3, <1>4 DEF PermitsBounded
<1>6. adcredit' \in Nat /\ adticks' \in 0..AdTicks BY <1>0, <1>2, <1>3, <1>4 DEF AdmissionTypeOK
<1>7. AdmissionTypeOK' BY <1>0, <1>3, <1>4, <1>6 DEF AdmissionTypeOK
<1>8. QED BY <1>0, <1>1, <1>5, <1>7 DEF AdmissionIInv

\* Permits stay within max_permits and within what the last store of the supervisor
\* left; an admitted job is in one place until it has ended, or was dropped after
\* panics had ended every worker; and a panic costs one permit and one thread, for any
\* number of jobs and workers (compute/admission.rs, fabric.rs, fiber_pool.rs).
THEOREM AdmissionInvariant == AdmissionSpec => []AdmissionInv
<1>1. AdmissionIInv /\ [AdmissionNext]_advars => AdmissionIInv'
  <2> SUFFICES ASSUME AdmissionIInv, [AdmissionNext]_advars PROVE AdmissionIInv' OBVIOUS
  <2>1. CASE UNCHANGED advars
    <3>1. AdHolding' = AdHolding /\ AdDead' = AdDead /\ AdPanicked' = AdPanicked
      BY <2>1 DEF advars, AdHolding, AdDead, AdPanicked
    <3>2. QED BY <2>1, <3>1 DEF advars, AdmissionIInv, AdmissionTypeOK, PermitsBounded, AdPlaced
  <2>2. QED BY <2>1, AdAdmitOk, AdSpawnOk, AdSendFailsOk, AdRecvOk, AdWorkOk, AdRebalanceOk
           DEF AdmissionNext
<1>2. AdmissionIInv => AdmissionInv
  <2> SUFFICES ASSUME AdmissionIInv PROVE AdmissionInv OBVIOUS
  <2>1. AdmissionTypeOK /\ PermitsBounded /\ AdPlaced BY DEF AdmissionIInv
  <2>2. \A j \in AdJobs : adjob[j] = "queued" <=> \E i \in DOMAIN adqueue : adqueue[i] = j
    BY <2>1 DEF AdPlaced, Range
  <2>3. ASSUME NEW j \in AdJobs, adjob[j] \in {"running", "finished"}
        PROVE  Cardinality({w \in AdWorkers : adworker[w] = j}) = 1
    <3>1. PICK w \in AdWorkers : adworker[w] = j BY <2>1, <2>3 DEF AdPlaced
    <3>2. {u \in AdWorkers : adworker[u] = j} = {w} BY <2>1, <2>3, <3>1 DEF AdPlaced
    <3>3. QED BY <3>2, FS_Singleton
  <2>4. PanicsCostThreads BY DEF AdmissionIInv, PanicsCostThreads, AdDead, AdPanicked
  <2>5. (\E j \in AdJobs : adjob[j] = "dropped") => ~AdConnected
    BY <2>1 DEF AdPlaced, AdConnected
  <2>6. QED BY <2>1, <2>2, <2>3, <2>4, <2>5 DEF AdmissionInv, JobsPlaced
<1>3. QED BY <1>1, <1>2, AdmissionInitOk, PTL DEF AdmissionSpec
==============================================================================
