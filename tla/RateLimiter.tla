----------------------------- MODULE RateLimiter -----------------------------
(***************************************************************************)
(* id_effect_resilience/rate_limiter.rs: acquire and refill, with every    *)
(* access to a Ref and to the clock a step of its own, beside the permits  *)
(* of bulkhead.rs, which an acquired call runs under.                      *)
(*                                                                         *)
(* Time is a number of ticks and the rate a number of tokens in a tick.    *)
(***************************************************************************)
EXTENDS Integers, FiniteSets

CONSTANTS RlCallers,
          RlRate,
          RlCapacity,
          RlTicks,     \* bound: how long the limiter is watched
          RlPermits    \* max_concurrent of the bulkhead

ASSUME RateAssumption == /\ RlRate \in Nat /\ RlCapacity \in Nat /\ RlTicks \in Nat
                         /\ RlPermits \in Nat
                         /\ IsFiniteSet(RlCallers)

VARIABLES rltokens, rllast,
          rlclock,    \* the time
          rlat,       \* rlat[c]: where the call of c is
          rlnow,      \* rlnow[c]: the local now
          rlgain,     \* rlgain[c]: the tokens for the time elapsed
          rlgranted,  \* history: how many acquires returned Ok
          rlfree,     \* permits of the bulkhead's semaphore
          rloverlap   \* observer: two refills have overlapped

rlvars == <<rltokens, rllast, rlclock, rlat, rlnow, rlgain, rlgranted, rlfree, rloverlap>>

RlPlaces == {"idle", "last", "add", "stamp", "take", "admit", "run"}

RateTypeOK == /\ rltokens \in 0..RlCapacity
              /\ rllast \in 0..RlTicks /\ rlclock \in 0..RlTicks
              /\ rlat \in [RlCallers -> RlPlaces]
              /\ rlnow \in [RlCallers -> 0..RlTicks]
              /\ rlgain \in [RlCallers -> Nat]
              /\ rlgranted \in Nat
              /\ rlfree \in 0..RlPermits
              /\ rloverlap \in BOOLEAN

RateInit == /\ rltokens = RlCapacity
            /\ rllast = 0 /\ rlclock = 0
            /\ rlat = [c \in RlCallers |-> "idle"]
            /\ rlnow = [c \in RlCallers |-> 0]
            /\ rlgain = [c \in RlCallers |-> 0]
            /\ rlgranted = 0
            /\ rlfree = RlPermits
            /\ rloverlap = FALSE

RlGo(c, from, to) == rlat[c] = from /\ rlat' = [rlat EXCEPT ![c] = to]
RlRefilling == {"last", "add", "stamp"}

\* Instant::now()
RlAcquire(c) == /\ RlGo(c, "idle", "last")
                /\ rlnow' = [rlnow EXCEPT ![c] = rlclock]
                /\ rloverlap' = (rloverlap \/ \E d \in RlCallers \ {c} : rlat[d] \in RlRefilling)
                /\ UNCHANGED <<rltokens, rllast, rlclock, rlgain, rlgranted, rlfree>>

\* last_refill.get(); duration_since is zero for an instant that is not earlier.
RlLast(c) == LET elapsed == rlnow[c] - rllast IN
             /\ RlGo(c, "last", IF elapsed > 0 THEN "add" ELSE "take")
             /\ rlgain' = [rlgain EXCEPT ![c] = IF elapsed > 0 THEN elapsed * RlRate ELSE 0]
             /\ UNCHANGED <<rltokens, rllast, rlclock, rlnow, rlgranted, rlfree, rloverlap>>

RlAdd(c) == LET all == rltokens + rlgain[c] IN
            /\ RlGo(c, "add", "stamp")
            /\ rltokens' = IF all > RlCapacity THEN RlCapacity ELSE all
            /\ UNCHANGED <<rllast, rlclock, rlnow, rlgain, rlgranted, rlfree, rloverlap>>

\* Faulty variant: the refill is not stamped.
RlStampNot(c) == /\ RlGo(c, "stamp", "take")
                 /\ UNCHANGED <<rltokens, rllast, rlclock, rlnow, rlgain, rlgranted, rlfree,
                                rloverlap>>

RlStamp(c) == /\ RlGo(c, "stamp", "take")
              /\ rllast' = rlnow[c]
              /\ UNCHANGED <<rltokens, rlclock, rlnow, rlgain, rlgranted, rlfree, rloverlap>>

\* tokens.modify; a caller without a token fails with RateLimitError.
RlTake(c) == /\ RlGo(c, "take", IF rltokens >= 1 THEN "admit" ELSE "idle")
             /\ rltokens' = IF rltokens >= 1 THEN rltokens - 1 ELSE rltokens
             /\ rlgranted' = IF rltokens >= 1 THEN rlgranted + 1 ELSE rlgranted
             /\ UNCHANGED <<rllast, rlclock, rlnow, rlgain, rlfree, rloverlap>>

\* Bulkhead::with_permit: try_acquire or BulkheadError.
RlAdmit(c) == /\ RlGo(c, "admit", IF rlfree > 0 THEN "run" ELSE "idle")
              /\ rlfree' = IF rlfree > 0 THEN rlfree - 1 ELSE rlfree
              /\ UNCHANGED <<rltokens, rllast, rlclock, rlnow, rlgain, rlgranted, rloverlap>>

\* The effect has run, whatever its result: the permit is dropped.
RlDone(c) == /\ RlGo(c, "run", "idle")
             /\ rlfree' = rlfree + 1
             /\ UNCHANGED <<rltokens, rllast, rlclock, rlnow, rlgain, rlgranted, rloverlap>>

RlTick == /\ rlclock < RlTicks
          /\ rlclock' = rlclock + 1
          /\ UNCHANGED <<rltokens, rllast, rlat, rlnow, rlgain, rlgranted, rlfree, rloverlap>>

RateNext == \/ RlTick
            \/ \E c \in RlCallers : \/ RlAcquire(c) \/ RlLast(c) \/ RlAdd(c) \/ RlStamp(c)
                                    \/ RlTake(c) \/ RlAdmit(c) \/ RlDone(c)

RateSpec == RateInit /\ [][RateNext]_rlvars

(***************************************************************************)
(* Properties.                                                             *)
(***************************************************************************)

\* As long as no two refills overlap, no more acquires succeed than the initial
\* burst and the rate allow for the time that has passed.  Overlapping refills
\* may count the same time twice.
RateKept == ~rloverlap => rlgranted <= RlCapacity + RlRate * rlclock

\* Nor are there ever more than capacity tokens to be had, and permits out of
\* the bulkhead are in the hands of calls that run.
BurstKept == /\ rltokens <= RlCapacity
             /\ rlfree + Cardinality({c \in RlCallers : rlat[c] = "run"}) = RlPermits

\* What callers of a limiter and a bulkhead keep.
RateInv == RateTypeOK /\ RateKept /\ BurstKept
==============================================================================
