------------------------------- MODULE Breaker -------------------------------
(***************************************************************************)
(* id_effect_resilience/circuit_breaker.rs: call, with every access to one *)
(* of the three Refs a step of its own.                                    *)
(*                                                                         *)
(* The clock is abstracted to whether reset_after has passed since the     *)
(* instant stored in opened_at.  The failure counter saturates at the      *)
(* threshold, the only value it is compared with, so that callers may call *)
(* for ever.                                                               *)
(***************************************************************************)
EXTENDS Naturals, FiniteSets

CONSTANTS BrCallers,
          BrThreshold  \* failure_threshold

ASSUME BreakerAssumption == BrThreshold \in Nat \ {0}

VARIABLES brstate,    \* state: "Closed", "Open" or "HalfOpen"
          brfails,    \* failures
          bropened,   \* opened_at: "None", "recent", or "past" when reset_after is over
          brat,       \* brat[c]: where the call of c is
          broverlap   \* observer: two calls have overlapped

brvars == <<brstate, brfails, bropened, brat, broverlap>>

BrPlaces == {"idle", "cooldown", "probe", "run", "forgive", "close", "count", "look",
             "trip", "stamp"}

BreakerTypeOK ==
  /\ brstate \in {"Closed", "Open", "HalfOpen"}
  /\ brfails \in 0..BrThreshold
  /\ bropened \in {"None", "recent", "past"}
  /\ brat \in [BrCallers -> BrPlaces]
  /\ broverlap \in BOOLEAN

BreakerInit == /\ brstate = "Closed" /\ brfails = 0 /\ bropened = "None"
               /\ brat = [c \in BrCallers |-> "idle"]
               /\ broverlap = FALSE

BrGo(c, from, to) == brat[c] = from /\ brat' = [brat EXCEPT ![c] = to]

\* state.get(), and the match on it.
BrCall(c) == /\ BrGo(c, "idle", IF brstate = "Open" THEN "cooldown" ELSE "run")
             /\ broverlap' = (broverlap \/ \E d \in BrCallers \ {c} : brat[d] # "idle")
             /\ UNCHANGED <<brstate, brfails, bropened>>

\* opened_at.get(): reject unless reset_after has passed.
BrCooldown(c) == /\ BrGo(c, "cooldown", IF bropened = "past" THEN "probe" ELSE "idle")
                 /\ UNCHANGED <<brstate, brfails, bropened, broverlap>>

BrProbe(c) == /\ BrGo(c, "probe", "run")
              /\ brstate' = "HalfOpen"
              /\ UNCHANGED <<brfails, bropened, broverlap>>

\* The effect returns Ok or Err.
BrRun(c) == /\ \E next \in {"forgive", "count"} : BrGo(c, "run", next)
            /\ UNCHANGED <<brstate, brfails, bropened, broverlap>>

\* Ok: failures.set(0), then state.set(Closed).
BrForgive(c) == /\ BrGo(c, "forgive", "close")
                /\ brfails' = 0
                /\ UNCHANGED <<brstate, bropened, broverlap>>

BrClose(c) == /\ BrGo(c, "close", "idle")
              /\ brstate' = "Closed"
              /\ UNCHANGED <<brfails, bropened, broverlap>>

\* Faulty variant: one failure too many before the breaker trips.
BrCountLate(c) == /\ BrGo(c, "count", IF brfails = BrThreshold THEN "trip" ELSE "look")
                  /\ brfails' = IF brfails = BrThreshold THEN brfails ELSE brfails + 1
                  /\ UNCHANGED <<brstate, bropened, broverlap>>

\* Err: failures.update_and_get(n + 1), compared with the threshold.
BrCount(c) == /\ BrGo(c, "count", IF brfails + 1 >= BrThreshold THEN "trip" ELSE "look")
              /\ brfails' = IF brfails = BrThreshold THEN brfails ELSE brfails + 1
              /\ UNCHANGED <<brstate, bropened, broverlap>>

\* Below the threshold only a half-open breaker is opened again.
BrLook(c) == /\ BrGo(c, "look", IF brstate = "HalfOpen" THEN "trip" ELSE "idle")
             /\ UNCHANGED <<brstate, brfails, bropened, broverlap>>

\* state.set(Open), then opened_at.set(now).
BrTrip(c) == /\ BrGo(c, "trip", "stamp")
             /\ brstate' = "Open"
             /\ UNCHANGED <<brfails, bropened, broverlap>>

\* Faulty variant: a breaker that was opened before keeps its old instant, and
\* one that was not gets none.
BrStampNot(c) == /\ BrGo(c, "stamp", "idle")
                 /\ UNCHANGED <<brstate, brfails, bropened, broverlap>>

BrStamp(c) == /\ BrGo(c, "stamp", "idle")
              /\ bropened' = "recent"
              /\ UNCHANGED <<brstate, brfails, broverlap>>

\* reset_after passes.
BrTick == /\ bropened = "recent"
          /\ bropened' = "past"
          /\ UNCHANGED <<brstate, brfails, brat, broverlap>>

BrStep(c) == \/ BrCooldown(c) \/ BrProbe(c) \/ BrRun(c) \/ BrForgive(c) \/ BrClose(c)
             \/ BrCount(c) \/ BrLook(c) \/ BrTrip(c) \/ BrStamp(c)

BreakerNext == BrTick \/ \E c \in BrCallers : BrCall(c) \/ BrStep(c)

\* Calls return, new calls are made, and time passes.
BreakerFairness == /\ \A c \in BrCallers : WF_brvars(BrCall(c) \/ BrStep(c))
                   /\ WF_brvars(BrTick)

BreakerSpec == BreakerInit /\ [][BreakerNext]_brvars /\ BreakerFairness

(***************************************************************************)
(* Properties.                                                             *)
(***************************************************************************)

\* An open breaker has an instant to wait for, or a call is about to store it:
\* without one every later call would be rejected.
OpenHasInstant ==
  brstate = "Open" /\ bropened = "None" => \E c \in BrCallers : brat[c] = "stamp"

\* As long as calls have not overlapped the three Refs agree between calls: a
\* closed breaker has failures below the threshold, the others have reached it,
\* and half-open is only the state during a probe.
SequentialBreaker ==
  ~broverlap /\ (\A c \in BrCallers : brat[c] = "idle") =>
     \/ brstate = "Closed" /\ brfails < BrThreshold
     \/ brstate = "Open" /\ brfails = BrThreshold /\ bropened # "None"

\* What calls keep, overlapping or not.
BreakerInv == BreakerTypeOK /\ OpenHasInstant /\ SequentialBreaker

\* However calls overlap, an open breaker lets a call through again.
BreakerRecovers == brstate = "Open" ~> brstate # "Open"
==============================================================================
