------------------------------- MODULE Fibers -------------------------------
(***************************************************************************)
(* concurrency/fiber_handle.rs: handles over a Deferred, the handles that  *)
(* map, zip and or_else derive with a task of their own, scoped and        *)
(* fiber_all.  The Deferred is the atomic one that Signals establishes:    *)
(* the first completion stays and every waiter returns it.  Of the scope,  *)
(* the check and the registration of add_finalizer are apart, as there a   *)
(* close may come between them.                                            *)
(***************************************************************************)
EXTENDS Naturals, Sequences

CONSTANTS FbBase,     \* handles made by pending; a driver completes them
          FbDerived,  \* handles made by a combinator
          FbShape,    \* FbShape[h]: the combinator of h and its inputs
          FbScoped,   \* the base handles on which scoped is called
          FbJoined    \* the sequence of handles given to fiber_all

ASSUME FibersAssumption ==
  /\ FbBase \cap FbDerived = {}
  /\ FbScoped \subseteq FbBase
  /\ FbShape \in [FbDerived -> [op : {"map", "zip", "or_else"}, a : FbBase \cup FbDerived,
                                b : FbBase \cup FbDerived]]
  /\ FbJoined \in Seq(FbBase \cup FbDerived)

FbHandles == FbBase \cup FbDerived

VARIABLES fbexit,    \* fbexit[h]: the exit in the Deferred of h
          fbended,   \* the derived handles whose task has ended
          fbdriven,  \* observer: those of them that the task completed
          fbopen,    \* the scope is open
          fbfins,    \* the handles whose finalizer is registered in the scope
          fbat,      \* fbat[h]: where the scoped call on h is
          fbmissed,  \* observer: handles registered after the close
          fbidx,     \* fiber_all: the number of handles it has joined
          fball      \* the exit of fiber_all

fbvars == <<fbexit, fbended, fbdriven, fbopen, fbfins, fbat, fbmissed, fbidx, fball>>

\* A value is the base handles it comes from, a cause the handle it arose in.
FbNone == [tag |-> "none", from |-> <<>>]
FbOk(from) == [tag |-> "ok", from |-> from]
FbFail(h) == [tag |-> "fail", from |-> <<h>>]
FbInterrupt(h) == [tag |-> "interrupt", from |-> <<h>>]
FbExits == [tag : {"none", "ok", "fail", "interrupt"}, from : Seq(FbHandles)]

FibersTypeOK ==
  /\ fbexit \in [FbHandles -> FbExits]
  /\ fbended \subseteq FbDerived /\ fbdriven \subseteq fbended
  /\ fbopen \in BOOLEAN /\ fbfins \subseteq FbScoped /\ fbmissed \subseteq FbScoped
  /\ fbat \in [FbScoped -> {"idle", "add", "wait", "done"}]
  /\ fbidx \in 0..Len(FbJoined) /\ fball \in FbExits

FibersInit == /\ fbexit = [h \in FbHandles |-> FbNone]
              /\ fbended = {} /\ fbdriven = {} /\ fbopen = TRUE /\ fbfins = {}
              /\ fbat = [h \in FbScoped |-> "idle"] /\ fbmissed = {}
              /\ fbidx = 0 /\ fball = FbNone

FbDone(h) == fbexit[h] # FbNone

(***************************************************************************)
(* Completions.                                                            *)
(***************************************************************************)

\* Faulty variant: the Deferred takes the last completion.
FbCompleteLast(h, exit) == fbexit' = [fbexit EXCEPT ![h] = exit]

\* send_if_modified on the Deferred of h.
FbComplete(h, exit) == fbexit' = IF FbDone(h) THEN fbexit ELSE [fbexit EXCEPT ![h] = exit]

\* mark_completed.
FbMark(h, exit) == /\ FbComplete(h, exit)
                   /\ UNCHANGED <<fbended, fbdriven, fbopen, fbfins, fbat, fbmissed, fbidx, fball>>

\* interrupt, interrupt_fork and each step of interrupt_all.
FbInterrupted(h) == /\ FbComplete(h, FbInterrupt(h))
                    /\ UNCHANGED <<fbended, fbdriven, fbopen, fbfins, fbat, fbmissed, fbidx, fball>>

\* The end of the task of a derived handle: it is too late if the handle was interrupted.
FbTaskEnds(h, exit) == /\ h \notin fbended
                       /\ fbended' = fbended \cup {h}
                       /\ FbComplete(h, exit)
                       /\ fbdriven' = IF FbDone(h) THEN fbdriven ELSE fbdriven \cup {h}
                       /\ UNCHANGED <<fbopen, fbfins, fbat, fbmissed, fbidx, fball>>

\* Both, and the cause of the first argument if both failed.
FbBoth(x, y) == IF x.tag = "ok" /\ y.tag = "ok" THEN FbOk(x.from \o y.from)
                ELSE IF x.tag # "ok" THEN x ELSE y

FbMap(h) == /\ FbShape[h].op = "map" /\ FbDone(FbShape[h].a)
            /\ FbTaskEnds(h, fbexit[FbShape[h].a])

\* join!: both inputs are waited for, also when one of them has failed.
FbZip(h) == /\ FbShape[h].op = "zip" /\ FbDone(FbShape[h].a) /\ FbDone(FbShape[h].b)
            /\ FbTaskEnds(h, FbBoth(fbexit[FbShape[h].a], fbexit[FbShape[h].b]))

\* select!: any input that is done.
FbOrElse(h) == /\ FbShape[h].op = "or_else"
               /\ \E i \in {FbShape[h].a, FbShape[h].b} : FbDone(i) /\ FbTaskEnds(h, fbexit[i])

FbTask(h) == FbMap(h) \/ FbZip(h) \/ FbOrElse(h)

(***************************************************************************)
(* scoped and fiber_all.                                                   *)
(***************************************************************************)

\* Faulty variant: the refusal of a closed scope is ignored.
FbScopedCallUnchecked(h) ==
  /\ fbat[h] = "idle"
  /\ fbat' = [fbat EXCEPT ![h] = IF fbopen THEN "add" ELSE "wait"]
  /\ UNCHANGED <<fbexit, fbended, fbdriven, fbopen, fbfins, fbmissed, fbidx, fball>>

\* add_finalizer finds the scope open, or the handle is interrupted at once.
FbScopedCall(h) ==
  /\ fbat[h] = "idle"
  /\ IF fbopen
     THEN fbat' = [fbat EXCEPT ![h] = "add"] /\ UNCHANGED fbexit
     ELSE fbat' = [fbat EXCEPT ![h] = "wait"] /\ FbComplete(h, FbInterrupt(h))
  /\ UNCHANGED <<fbended, fbdriven, fbopen, fbfins, fbmissed, fbidx, fball>>

\* The finalizer is registered, too late if the scope was closed meanwhile.
FbRegister(h) ==
  /\ fbat[h] = "add"
  /\ fbat' = [fbat EXCEPT ![h] = "wait"]
  /\ IF fbopen THEN fbfins' = fbfins \cup {h} /\ UNCHANGED fbmissed
               ELSE fbmissed' = fbmissed \cup {h} /\ UNCHANGED fbfins
  /\ UNCHANGED <<fbexit, fbended, fbdriven, fbopen, fbidx, fball>>

FbScopedReturns(h) == /\ fbat[h] = "wait" /\ FbDone(h)
                      /\ fbat' = [fbat EXCEPT ![h] = "done"]
                      /\ UNCHANGED <<fbexit, fbended, fbdriven, fbopen, fbfins, fbmissed, fbidx, fball>>

\* The scope is closed; each of its finalizers interrupts a handle.
FbClose == /\ fbopen
           /\ fbopen' = FALSE
           /\ UNCHANGED <<fbexit, fbended, fbdriven, fbfins, fbat, fbmissed, fbidx, fball>>

FbFinalize(h) == /\ ~fbopen /\ h \in fbfins
                 /\ fbfins' = fbfins \ {h}
                 /\ FbComplete(h, FbInterrupt(h))
                 /\ UNCHANGED <<fbended, fbdriven, fbopen, fbat, fbmissed, fbidx, fball>>

\* fiber_all joins the next handle, and returns after the last or at a failure.
FbJoin ==
  /\ fball = FbNone /\ fbidx < Len(FbJoined) /\ FbDone(FbJoined[fbidx + 1])
  /\ LET exit == fbexit[FbJoined[fbidx + 1]]
     IN  IF exit.tag = "ok"
         THEN /\ fbidx' = fbidx + 1
              /\ fball' = IF fbidx' = Len(FbJoined) THEN FbOk(FbJoined) ELSE FbNone
         ELSE fball' = exit /\ UNCHANGED fbidx
  /\ UNCHANGED <<fbexit, fbended, fbdriven, fbopen, fbfins, fbat, fbmissed>>

(***************************************************************************)
(* The specification.                                                      *)
(***************************************************************************)

FbScopedStep(h) == FbRegister(h) \/ FbScopedReturns(h) \/ FbFinalize(h)

FibersNext ==
  \/ \E h \in FbBase : FbMark(h, FbOk(<<h>>)) \/ FbMark(h, FbFail(h))
  \/ \E h \in FbHandles : FbInterrupted(h)
  \/ \E h \in FbDerived : FbTask(h)
  \/ \E h \in FbScoped : FbScopedCall(h) \/ FbScopedStep(h)
  \/ FbClose \/ FbJoin

\* Spawned tasks are polled, a waiting call goes on, a close runs its finalizers.
FibersFairness == /\ \A h \in FbDerived : WF_fbvars(FbTask(h))
                  /\ \A h \in FbScoped : WF_fbvars(FbScopedStep(h))
                  /\ WF_fbvars(FbJoin)

FibersSpec == FibersInit /\ [][FibersNext]_fbvars /\ FibersFairness

(***************************************************************************)
(* Properties.                                                             *)
(***************************************************************************)

\* What its combinator makes of the inputs of h as they are now.
FbExpected(h) ==
  LET x == fbexit[FbShape[h].a]
      y == fbexit[FbShape[h].b]
  IN  CASE FbShape[h].op = "map"     -> {x}
        [] FbShape[h].op = "zip"     -> {FbBoth(x, y)}
        [] FbShape[h].op = "or_else" -> {x, y}

\* A derived handle that its task completed agrees with the inputs for ever after,
\* whatever was interrupted in the meantime; a success names inputs that all
\* succeeded; and fiber_all reports the first failure in the order of its list, even
\* if a later handle failed earlier (fiber_handle.rs, map, zip, or_else, fiber_all).
FibersInv ==
  /\ FibersTypeOK
  /\ \A h \in fbdriven : fbexit[h] \in FbExpected(h) \ {FbNone}
  /\ \A h \in FbHandles : fbexit[h].tag = "ok" =>
       \A i \in 1..Len(fbexit[h].from) : fbexit[fbexit[h].from[i]].tag = "ok"
  /\ \A i \in 1..fbidx : fbexit[FbJoined[i]].tag = "ok"
  /\ fball.tag \in {"fail", "interrupt"} => fball = fbexit[FbJoined[fbidx + 1]]

\* Once every driver has finished no derived handle is left pending, and once its
\* scope is closed a scoped call returns, but for a finalizer that was registered
\* after the close (fiber_handle.rs, the spawned tasks and scoped).
HandlesSettle ==
  /\ (\A h \in FbBase : FbDone(h)) ~> (\A h \in FbDerived : FbDone(h))
  /\ \A h \in FbScoped :
       ~fbopen /\ fbat[h] # "idle" ~> fbat[h] = "done" \/ h \in fbmissed
==============================================================================
