------------------------------ MODULE Schedule ------------------------------
(***************************************************************************)
(* scheduling/schedule.rs: Schedule::next on the tree of a schedule, and   *)
(* the loops of repeat_with_clock_and_interrupt and its retry twin.  The   *)
(* loops without a token are the behaviours in which nobody cancels.       *)
(*                                                                         *)
(* A schedule is a record with an op, its number n, its duration d, and    *)
(* its parts a and b.  The predicates of recurs_while and recurs_until are *)
(* attempt < n and its negation; map adds n to a delay and contramap adds  *)
(* n to the attempt.                                                       *)
(***************************************************************************)
EXTENDS Naturals, Sequences, FiniteSetsExt

CONSTANTS ScTrees,   \* the schedules tried
          ScMax,     \* the longest delay that next computes, u64::MAX nanoseconds
          ScRuns     \* bound: the number of runs of the effect

ASSUME ScheduleAssumption == ScMax \in Nat /\ ScRuns \in Nat \ {0}

VARIABLES sckind,    \* "repeat" or "retry"
          sctree,    \* the schedule as it was given
          scnow,     \* the schedule as next has left it
          scattempt,
          scdelay,   \* the delay of the decision taken last
          scat,      \* where the loop is; "Ok" and "Err" are results
          sctoken,   \* the token has been cancelled
          scslept,   \* history: the delays slept
          sclate,    \* observer: runs begun after the cancellation
          scspent    \* observer: next has answered None

scvars == <<sckind, sctree, scnow, scattempt, scdelay, scat, sctoken, scslept, sclate, scspent>>

ScheduleTypeOK ==
  /\ sckind \in {"repeat", "retry"}
  /\ sctree \in ScTrees
  /\ scattempt \in 0..ScRuns /\ scdelay \in Nat /\ scslept \in Seq(Nat)
  /\ scat \in {"make", "next", "check", "sleep", "Ok", "Err"}
  /\ sctoken \in BOOLEAN /\ scspent \in BOOLEAN /\ sclate \in Nat

(***************************************************************************)
(* Schedule::next.                                                         *)
(***************************************************************************)

\* None is a decision without a delay that counts.
ScNone(s) == [goes |-> FALSE, delay |-> 0, after |-> s]
ScSome(delay, s) == [goes |-> TRUE, delay |-> delay, after |-> s]

ScRecurs(s) == IF s.n = 0 THEN ScNone(s) ELSE ScSome(0, [s EXCEPT !.n = @ - 1])

\* Faulty variant: the step is not counted.
ScExponentialFlat(s) == ScSome(Min({s.d * 2 ^ s.n, ScMax}), s)

ScExponential(s) == ScSome(Min({s.d * 2 ^ s.n, ScMax}), [s EXCEPT !.n = @ + 1])

\* jitter_80_120, which is nine tenths.
ScJitter(delay) == Min({(delay * 9) \div 10, ScMax})

\* Both parts are asked, whatever the first answers.
ScCompose(s, da, db) ==
  LET after == [s EXCEPT !.a = da.after, !.b = db.after]
  IN  IF da.goes /\ db.goes THEN ScSome(Max({da.delay, db.delay}), after) ELSE ScNone(after)

\* What a part answers, as the answer of the whole.
ScWrap(s, da, delay) == [goes |-> da.goes, delay |-> delay, after |-> [s EXCEPT !.a = da.after]]

RECURSIVE ScNext(_, _)

\* Compose and Jittered ask their parts with the default input, attempt 0.
ScNext(s, attempt) ==
  CASE s.op = "Recurs"         -> ScRecurs(s)
    [] s.op = "Spaced"         -> ScSome(s.d, s)
    [] s.op = "Exponential"    -> ScExponential(s)
    [] s.op = "Compose"        -> ScCompose(s, ScNext(s.a, 0), ScNext(s.b, 0))
    [] s.op = "Jittered"       -> LET da == ScNext(s.a, 0) IN ScWrap(s, da, ScJitter(da.delay))
    [] s.op = "RecursWhile"    -> IF attempt < s.n THEN ScSome(0, s) ELSE ScNone(s)
    [] s.op = "RecursUntil"    -> IF ~(attempt < s.n) THEN ScNone(s) ELSE ScSome(0, s)
    [] s.op = "MapDelay"       -> LET da == ScNext(s.a, attempt) IN ScWrap(s, da, da.delay + s.n)
    [] s.op = "ContramapInput" -> LET da == ScNext(s.a, attempt + s.n) IN ScWrap(s, da, da.delay)

(***************************************************************************)
(* repeat and retry.                                                       *)
(***************************************************************************)

ScheduleInit ==
  /\ sckind \in {"repeat", "retry"} /\ sctree \in ScTrees
  /\ scnow = sctree /\ scattempt = 0 /\ scdelay = 0
  /\ scat = "make" /\ sctoken = FALSE
  /\ scslept = <<>> /\ sclate = 0 /\ scspent = FALSE

\* make().run(r) ends.  repeat goes on after a success, retry after an error.
ScMade(ok) ==
  /\ scat = "make"
  /\ scat' = CASE ok /\ sckind = "repeat"  -> "next"
               [] ok /\ sckind = "retry"   -> "Ok"
               [] ~ok /\ sckind = "repeat" -> "Err"
               [] OTHER                    -> "check"
  /\ UNCHANGED <<sckind, sctree, scnow, scattempt, scdelay, sctoken, scslept, sclate, scspent>>

\* next_sleep: repeat asks before it looks at the token, retry after.
ScAsk ==
  LET decision == ScNext(scnow, scattempt)
  IN  /\ scat = "next"
      /\ scnow' = decision.after
      /\ scdelay' = decision.delay
      /\ scspent' = ~decision.goes
      /\ scat' = CASE decision.goes /\ sckind = "repeat" -> "check"
                   [] decision.goes /\ sckind = "retry"  -> "sleep"
                   [] sckind = "repeat"                  -> "Ok"
                   [] OTHER                              -> "Err"
      /\ UNCHANGED <<sckind, sctree, scattempt, sctoken, scslept, sclate>>

\* check_interrupt(&token).
ScCheck ==
  /\ scat = "check"
  /\ scat' = CASE sctoken /\ sckind = "repeat" -> "Ok"
               [] sctoken                      -> "Err"
               [] sckind = "repeat"            -> "sleep"
               [] OTHER                        -> "next"
  /\ UNCHANGED <<sckind, sctree, scnow, scattempt, scdelay, sctoken, scslept, sclate, scspent>>

\* The sleep is over and the effect is made and run again.
ScWake ==
  /\ scat = "sleep" /\ scattempt + 1 < ScRuns
  /\ scat' = "make"
  /\ scattempt' = scattempt + 1
  /\ scslept' = Append(scslept, scdelay)
  /\ sclate' = IF sctoken THEN sclate + 1 ELSE sclate
  /\ UNCHANGED <<sckind, sctree, scnow, scdelay, sctoken, scspent>>

\* Another thread cancels the token.
ScCancel == /\ ~sctoken
            /\ sctoken' = TRUE
            /\ UNCHANGED <<sckind, sctree, scnow, scattempt, scdelay, scat, scslept, sclate, scspent>>

ScheduleNext == \/ \E ok \in BOOLEAN : ScMade(ok)
                \/ ScAsk \/ ScCheck \/ ScWake \/ ScCancel

ScheduleSpec == ScheduleInit /\ [][ScheduleNext]_scvars

(***************************************************************************)
(* Properties.                                                             *)
(***************************************************************************)

RECURSIVE ScGoes(_, _, _), ScDelayOf(_, _), ScAsks(_), ScBlind(_)

\* Reference, from what the comments of the variants say: whether a fresh schedule
\* still goes on at its k-th question, counted from 0, asked with attempt i, every
\* predicate in it being asked with the input of that step; and the delay it answers.
ScGoes(s, k, i) ==
  CASE s.op = "Recurs"                     -> k < s.n
    [] s.op \in {"Spaced", "Exponential"}  -> TRUE
    [] s.op = "Compose"                    -> ScGoes(s.a, k, i) /\ ScGoes(s.b, k, i)
    [] s.op \in {"Jittered", "MapDelay"}   -> ScGoes(s.a, k, i)
    [] s.op \in {"RecursWhile", "RecursUntil"} -> i < s.n
    [] s.op = "ContramapInput"             -> ScGoes(s.a, k, i + s.n)

ScDelayOf(s, k) ==
  CASE s.op \in {"Recurs", "RecursWhile", "RecursUntil"} -> 0
    [] s.op = "Spaced"         -> s.d
    [] s.op = "Exponential"    -> Min({s.d * 2 ^ k, ScMax})
    [] s.op = "Compose"        -> Max({ScDelayOf(s.a, k), ScDelayOf(s.b, k)})
    [] s.op = "Jittered"       -> (ScDelayOf(s.a, k) * 9) \div 10
    [] s.op = "MapDelay"       -> ScDelayOf(s.a, k) + s.n
    [] s.op = "ContramapInput" -> ScDelayOf(s.a, k)

\* There is a predicate in s; and one that next does not show the step's input, since
\* a Compose or a Jittered is above it.
ScAsks(s) ==
  CASE s.op \in {"RecursWhile", "RecursUntil"}              -> TRUE
    [] s.op \in {"Recurs", "Spaced", "Exponential"}         -> FALSE
    [] s.op \in {"Jittered", "MapDelay", "ContramapInput"}  -> ScAsks(s.a)
    [] s.op = "Compose"                                     -> ScAsks(s.a) \/ ScAsks(s.b)

ScBlind(s) == CASE s.op \in {"Compose", "Jittered"}          -> ScAsks(s)
                [] s.op \in {"MapDelay", "ContramapInput"}   -> ScBlind(s.a)
                [] OTHER                                     -> FALSE

\* However next and the loop share the state of the schedule, the k-th sleep is the
\* one that the schedule as given has at k, and the loop stops exactly when that
\* schedule stops, unless it has a predicate under a Compose or a Jittered; and a
\* cancellation lets at most one more run begin: the one whose check came before it
\* (schedule.rs, next, repeat_with_clock_and_interrupt and its retry twin).
ScheduleInv ==
  LET n == Len(scslept)
  IN  /\ ScheduleTypeOK
      /\ \A k \in 1..n : scslept[k] = ScDelayOf(sctree, k - 1)
      /\ scat = "sleep" => scdelay = ScDelayOf(sctree, n)
      /\ ~ScBlind(sctree) => /\ \A k \in 1..n : ScGoes(sctree, k - 1, k - 1)
                             /\ scspent => ~ScGoes(sctree, n, n)
                             /\ scat = "sleep" => ScGoes(sctree, n, n)
      /\ scat = "Ok" /\ sckind = "repeat" => scspent \/ sctoken
      /\ sclate <= 1

\* What the comments say of recurs_while and compose: the predicate holds on the input
\* of each step, and a composition goes on while both parts do.  next asks the parts of
\* Compose and Jittered with the default input instead.
PredicatesSeeSteps == \A k \in 1..Len(scslept) : ScGoes(sctree, k - 1, k - 1)
==============================================================================
