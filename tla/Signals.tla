------------------------------- MODULE Signals -------------------------------
(***************************************************************************)
(* One-shot signals of coordination/: a Latch, the await_shutdown of Queue *)
(* and PubSub, and a Deferred.  They differ in what a waiter does between  *)
(* its look at the value and its sleep, and in what a second setter does.  *)
(*                                                                         *)
(* External: a tokio Notified is woken by the calls of notify_waiters made *)
(* after it was created, and changed() of a watch receiver returns when    *)
(* the version is not the one the receiver has seen.  Both are a counter   *)
(* here and the value of it that the waiter remembers.                     *)
(***************************************************************************)
EXTENDS Naturals, FiniteSets

CONSTANTS SgKinds,    \* subset of {"latch", "shutdown", "deferred"}
          SgWaiters,
          SgSetters,
          NoExit

ASSUME SignalAssumption == /\ SgKinds \subseteq {"latch", "shutdown", "deferred"}
                           /\ NoExit \notin SgSetters
                           /\ IsFiniteSet(SgSetters)

VARIABLES sgkind,
          sgval,    \* whose value is stored, or NoExit
          sgver,    \* how often the waiters have been notified
          sgset,    \* sgset[t]: how far the call of setter t has got
          sgfirst,  \* the setters that were told that they were first
          sgforced, \* observer: unsafe_done has overwritten a value
          sgat,     \* sgat[w]: where waiter w is
          sgseen,   \* sgseen[w]: the notification that w has seen last
          sgres,    \* sgres[w]: what the wait returned
          sglate    \* observer: waiters overtaken between their look and their sleep

sgvars == <<sgkind, sgval, sgver, sgset, sgfirst, sgforced, sgat, sgseen, sgres, sglate>>

SignalTypeOK ==
  /\ sgkind \in SgKinds
  /\ sgval \in SgSetters \cup {NoExit}
  /\ sgver \in 0..Cardinality(SgSetters)
  /\ sgset \in [SgSetters -> {"no", "notify", "yes"}]
  /\ sgfirst \subseteq SgSetters
  /\ sgforced \in BOOLEAN
  /\ sgat \in [SgWaiters -> {"idle", "look", "gap", "asleep", "done"}]
  /\ sgseen \in [SgWaiters -> 0..Cardinality(SgSetters)]
  /\ sgres \in [SgWaiters -> SgSetters \cup {NoExit}]
  /\ sglate \subseteq SgWaiters

SignalInit ==
  /\ sgkind \in SgKinds
  /\ sgval = NoExit /\ sgver = 0
  /\ sgset = [t \in SgSetters |-> "no"]
  /\ sgfirst = {} /\ sgforced = FALSE
  /\ sgat = [w \in SgWaiters |-> "idle"]
  /\ sgseen = [w \in SgWaiters |-> 0]
  /\ sgres = [w \in SgWaiters |-> NoExit]
  /\ sglate = {}

sgwait == <<sgat, sgseen, sgres, sglate>>

(***************************************************************************)
(* Setting.                                                                *)
(***************************************************************************)

\* Latch::open: the swap; the second caller does nothing.
SgOpen(t) == /\ sgkind = "latch" /\ sgset[t] = "no"
             /\ sgset' = [sgset EXCEPT ![t] = IF sgval = NoExit THEN "notify" ELSE "yes"]
             /\ sgval' = IF sgval = NoExit THEN t ELSE sgval
             /\ UNCHANGED <<sgkind, sgver, sgfirst, sgforced, sgwait>>

\* notify_waiters(): it overtakes the waiters that have looked and not slept yet.
SgNotify(t) == /\ sgset[t] = "notify"
               /\ sgset' = [sgset EXCEPT ![t] = "yes"]
               /\ sgver' = sgver + 1
               /\ sglate' = sglate \cup {w \in SgWaiters : sgat[w] = "gap"}
               /\ UNCHANGED <<sgkind, sgval, sgfirst, sgforced, sgat, sgseen, sgres>>

\* shutdown: send_replace(true) by every caller.
SgShutdown(t) == /\ sgkind = "shutdown" /\ sgset[t] = "no"
                 /\ sgset' = [sgset EXCEPT ![t] = "yes"]
                 /\ sgval' = t
                 /\ sgver' = sgver + 1
                 /\ sglate' = sglate \cup {w \in SgWaiters : sgat[w] = "gap"}
                 /\ UNCHANGED <<sgkind, sgfirst, sgforced, sgat, sgseen, sgres>>

\* Faulty variant: the slot is not checked.
SgCompleteAlways(t) ==
  /\ sgkind = "deferred" /\ sgset[t] = "no"
  /\ sgset' = [sgset EXCEPT ![t] = "yes"]
  /\ sgval' = t /\ sgver' = sgver + 1
  /\ sgfirst' = sgfirst \cup {t}
  /\ UNCHANGED <<sgkind, sgforced, sgwait>>

\* succeed, fail, fail_cause, interrupt, complete, try_succeed, try_fail_cause:
\* send_if_modified, which does something only if the slot is empty.
SgComplete(t) ==
  /\ sgkind = "deferred" /\ sgset[t] = "no"
  /\ sgset' = [sgset EXCEPT ![t] = "yes"]
  /\ IF sgval = NoExit
     THEN sgval' = t /\ sgver' = sgver + 1 /\ sgfirst' = sgfirst \cup {t}
     ELSE UNCHANGED <<sgval, sgver, sgfirst>>
  /\ UNCHANGED <<sgkind, sgforced, sgwait>>

\* unsafe_done.
SgForce(t) == /\ sgkind = "deferred" /\ sgset[t] = "no"
              /\ sgset' = [sgset EXCEPT ![t] = "yes"]
              /\ sgval' = t /\ sgver' = sgver + 1
              /\ sgforced' = TRUE
              /\ UNCHANGED <<sgkind, sgfirst, sgwait>>

(***************************************************************************)
(* Waiting.                                                                *)
(***************************************************************************)

\* The receiver of a Deferred is a clone of the one made with it, which has
\* seen nothing.
SgWait(w) == /\ sgat[w] = "idle"
             /\ sgat' = [sgat EXCEPT ![w] = "look"]
             /\ UNCHANGED <<sgkind, sgval, sgver, sgset, sgfirst, sgforced, sgseen, sgres, sglate>>

\* Faulty variant: the receiver of a Deferred is made after the look.
SgLookGap(w) == /\ sgat[w] = "look"
                /\ IF sgval # NoExit
                   THEN /\ sgat' = [sgat EXCEPT ![w] = "done"]
                        /\ sgres' = [sgres EXCEPT ![w] = sgval]
                   ELSE sgat' = [sgat EXCEPT ![w] = "gap"] /\ UNCHANGED sgres
                /\ UNCHANGED <<sgkind, sgval, sgver, sgset, sgfirst, sgforced, sgseen, sglate>>

SgLook(w) == /\ sgat[w] = "look"
             /\ IF sgval # NoExit
                THEN /\ sgat' = [sgat EXCEPT ![w] = "done"]
                     /\ sgres' = [sgres EXCEPT ![w] = sgval]
                ELSE /\ sgat' = [sgat EXCEPT ![w] = IF sgkind = "deferred" THEN "asleep" ELSE "gap"]
                     /\ UNCHANGED sgres
             /\ UNCHANGED <<sgkind, sgval, sgver, sgset, sgfirst, sgforced, sgseen, sglate>>

\* notified() or subscribe(): what has been notified so far counts as seen.
SgSubscribe(w) == /\ sgat[w] = "gap"
                  /\ sgat' = [sgat EXCEPT ![w] = "asleep"]
                  /\ sgseen' = [sgseen EXCEPT ![w] = sgver]
                  /\ UNCHANGED <<sgkind, sgval, sgver, sgset, sgfirst, sgforced, sgres, sglate>>

\* A Latch and a Deferred look again; await_shutdown returns.
SgWake(w) == /\ sgat[w] = "asleep" /\ sgver # sgseen[w]
             /\ sgseen' = [sgseen EXCEPT ![w] = sgver]
             /\ sgat' = [sgat EXCEPT ![w] = IF sgkind = "shutdown" THEN "done" ELSE "look"]
             /\ sgres' = [sgres EXCEPT ![w] = IF sgkind = "shutdown" THEN sgval ELSE @]
             /\ UNCHANGED <<sgkind, sgval, sgver, sgset, sgfirst, sgforced, sglate>>

(***************************************************************************)
(* The specification.                                                      *)
(***************************************************************************)

SgWaiting(w) == SgLook(w) \/ SgSubscribe(w) \/ SgWake(w)

SignalNext ==
  \/ \E t \in SgSetters : \/ SgOpen(t) \/ SgNotify(t) \/ SgShutdown(t)
                          \/ SgComplete(t) \/ SgForce(t)
  \/ \E w \in SgWaiters : SgWait(w) \/ SgWaiting(w)

\* Tasks inside a call go on.
SignalFairness == /\ \A t \in SgSetters : WF_sgvars(SgNotify(t))
                  /\ \A w \in SgWaiters : WF_sgvars(SgWaiting(w))

SignalSpec == SignalInit /\ [][SignalNext]_sgvars /\ SignalFairness

(***************************************************************************)
(* Properties.                                                             *)
(***************************************************************************)

\* At most one completion is told that it was first, and unless unsafe_done was
\* used every waiter gets that completion's exit.
FirstCompletionWins ==
  sgkind = "deferred" =>
     /\ Cardinality(sgfirst) <= 1
     /\ ~sgforced => \A w \in SgWaiters : sgat[w] = "done" => sgfirst = {sgres[w]}

\* A waiter stays asleep beside a value that is set only if a notification is
\* still to come or came between its look and its sleep; a waiter of a Deferred
\* never does.
SleepersNotified ==
  \A w \in SgWaiters : sgat[w] = "asleep" /\ sgval # NoExit /\ sgseen[w] = sgver =>
     /\ sgkind # "deferred"
     /\ w \in sglate \/ \E t \in SgSetters : sgset[t] = "notify"

\* What waiters and setters of a signal keep.
SignalInv == SignalTypeOK /\ FirstCompletionWins /\ SleepersNotified

\* Once the value is set every waiter returns, but for those that were overtaken.
SignalReleases ==
  \A w \in SgWaiters :
     sgval # NoExit /\ sgat[w] # "idle" ~> sgat[w] = "done" \/ w \in sglate
==============================================================================
