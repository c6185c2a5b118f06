----------------------------- MODULE Supervisor -----------------------------
(***************************************************************************)
(* concurrency/supervisor.rs: Supervisor::attach and detached on the scope *)
(* tree, the supervised loop with its five policies, and a thread that     *)
(* closes the scope meanwhile.                                             *)
(*                                                                         *)
(* The scope operations are the steps of Scope.tla for one parent and one  *)
(* child.  A schedule is any sequence of "sleep" and "stop".  The loop     *)
(* holds the token only: once the handles of the supervisor are dropped    *)
(* the parent's Weak reference to the child leads nowhere.  The program    *)
(* registers nothing else with the child scope, so the drain has no other  *)
(* finalizer to lose (Scope.tla has the general case).                     *)
(***************************************************************************)
EXTENDS Naturals

CONSTANTS SvKinds,     \* of {"attach", "detached"}
          SvPolicies,  \* of {"Terminate", "Escalate", "Ignore", "Restart", "RestartWithLimit"}
          SvLimit      \* limit of RestartWithLimit

ASSUME SupervisorAssumption == SvLimit \in Nat

VARIABLES svkind, svpolicy,
          svat,        \* where the supervised thread is
          svcloser,    \* where the thread is that closes the scope
          svparent,    \* the parent scope is closed
          svlinked,    \* the child is in the children of the parent
          svheld,      \* some handle of the supervisor, and so of the child scope, is alive
          svgone,      \* history: the close found the child in the list, but no handle of it
          svchild,     \* the child scope is "open", "closed", or closed and "drained"
          svfin,       \* the finalizer: "none", "stored", "refused", "late" or "ran"
          svtoken,     \* the token is cancelled
          svrestarts,  \* restarts_used
          svagg,       \* how many causes are in aggregated
          svfailed,    \* history: failed runs, at most SvLimit + 1 are counted
          svafter,     \* history: runs begun after the cancellation, at most 2 are counted
          svout        \* the result, with the number of causes in it

svscope == <<svparent, svlinked, svgone, svheld, svchild, svfin, svtoken>>
svloop == <<svrestarts, svagg, svfailed, svafter, svout>>
svvars == <<svkind, svpolicy, svat, svcloser, svscope, svloop>>

SvResults == [tag : {"none", "Ok", "Recover", "Interrupt", "Fail"}, causes : 0..SvLimit + 1]
SvResult(tag, causes) == [tag |-> tag, causes |-> causes]

SupervisorTypeOK ==
  /\ svkind \in SvKinds /\ svpolicy \in SvPolicies
  /\ svat \in {"fork", "linked", "closing", "check", "store", "top", "start", "run",
              "sleep", "done"}
  /\ svcloser \in {"idle", "copy", "child", "drain", "done"}
  /\ svchild \in {"open", "closed", "drained"}
  /\ svfin \in {"none", "stored", "refused", "late", "ran"}
  /\ {svparent, svlinked, svgone, svheld, svtoken} \subseteq BOOLEAN
  /\ svrestarts \in 0..SvLimit /\ svagg \in 0..SvLimit + 1
  /\ svfailed \in 0..SvLimit + 1 /\ svafter \in 0..2
  /\ svout \in SvResults

SupervisorInit ==
  /\ svkind \in SvKinds /\ svpolicy \in SvPolicies
  /\ svat = IF svkind = "attach" THEN "fork" ELSE "check"
  /\ svcloser = "idle"
  /\ svparent = FALSE /\ svlinked = FALSE /\ svgone = FALSE /\ svheld = TRUE
  /\ svchild = "open" /\ svfin = "none" /\ svtoken = FALSE
  /\ svrestarts = 0 /\ svagg = 0 /\ svfailed = 0 /\ svafter = 0
  /\ svout = SvResult("none", 0)

(***************************************************************************)
(* attach: fork, then add_finalizer, whose refusal is ignored.             *)
(***************************************************************************)
SvGo(from, to) == svat = from /\ svat' = to

SvFork == /\ SvGo("fork", "linked")
          /\ svlinked' = TRUE
          /\ UNCHANGED <<svkind, svpolicy, svcloser, svparent, svgone, svheld, svchild, svfin,
                         svtoken, svloop>>

\* The parent may have been closed before it had this child.
SvLinked ==
  /\ IF svparent /\ svchild = "open"
     THEN SvGo("linked", "closing") /\ svchild' = "closed"
     ELSE SvGo("linked", "check") /\ UNCHANGED svchild
  /\ UNCHANGED <<svkind, svpolicy, svcloser, svparent, svlinked, svgone, svheld, svfin, svtoken,
                 svloop>>

\* Run the finalizer if there is one, which cancels the token.
SvDrain == /\ svchild' = "drained"
           /\ svfin' = IF svfin = "stored" THEN "ran" ELSE svfin
           /\ svtoken' = (svtoken \/ svfin = "stored")
           /\ UNCHANGED <<svkind, svpolicy, svparent, svlinked, svgone, svheld, svloop>>

SvClosing == SvGo("closing", "check") /\ SvDrain /\ UNCHANGED svcloser

\* is_closed() of the child asks the parent too.
SvIsClosed == svchild # "open" \/ svparent

SvCheck == /\ IF SvIsClosed
              THEN SvGo("check", "top") /\ svfin' = "refused"
              ELSE SvGo("check", "store") /\ UNCHANGED svfin
           /\ UNCHANGED <<svkind, svpolicy, svcloser, svparent, svlinked, svgone, svheld, svchild,
                          svtoken, svloop>>

SvStore == /\ SvGo("store", "top")
           /\ svfin' = IF svchild = "drained" THEN "late" ELSE "stored"
           /\ UNCHANGED <<svkind, svpolicy, svcloser, svparent, svlinked, svgone, svheld, svchild,
                          svtoken, svloop>>

(***************************************************************************)
(* The supervised loop.                                                    *)
(***************************************************************************)
SvReturn(result) == svat' = "done" /\ svout' = result

\* Faulty variant: the token is only looked at before the first run.
SvTopOnce == /\ svat = "top"
             /\ IF svtoken /\ svfailed = 0
                THEN SvReturn(SvResult("Interrupt", 0))
                ELSE svat' = "start" /\ UNCHANGED svout
             /\ UNCHANGED <<svkind, svpolicy, svcloser, svscope, svrestarts, svagg, svfailed,
                            svafter>>

\* token.is_cancelled().
SvTop == /\ svat = "top"
         /\ IF svtoken THEN SvReturn(SvResult("Interrupt", 0))
            ELSE svat' = "start" /\ UNCHANGED svout
         /\ UNCHANGED <<svkind, svpolicy, svcloser, svscope, svrestarts, svagg, svfailed,
                        svafter>>

\* make().run(r).
SvStart == /\ SvGo("start", "run")
           /\ svafter' = IF svtoken /\ svafter < 2 THEN svafter + 1 ELSE svafter
           /\ UNCHANGED <<svkind, svpolicy, svcloser, svscope, svrestarts, svagg, svfailed,
                          svout>>

SvSucceeds == /\ svat = "run"
              /\ SvReturn(SvResult("Ok", 0))
              /\ UNCHANGED <<svkind, svpolicy, svcloser, svscope, svrestarts, svagg, svfailed,
                             svafter>>

\* Cause::then(aggregated, cause).
SvThen == svagg + 1

\* One failed run: the policy decides; next_sleep is Some or None.
SvFails ==
  /\ svat = "run"
  /\ svfailed' = IF svfailed <= SvLimit THEN svfailed + 1 ELSE svfailed
  /\ \/ /\ svpolicy \in {"Terminate", "Escalate"}
        /\ SvReturn(SvResult("Fail", 1)) /\ UNCHANGED svagg
     \/ /\ svpolicy = "Ignore"
        /\ SvReturn(SvResult("Recover", 0)) /\ UNCHANGED svagg
     \/ /\ svpolicy = "Restart"
        /\ \/ SvReturn(SvResult("Fail", 1))
           \/ svat' = "sleep" /\ UNCHANGED svout
        /\ UNCHANGED svagg
     \/ /\ svpolicy = "RestartWithLimit"
        /\ IF svrestarts >= SvLimit
           THEN SvReturn(SvResult("Fail", SvThen)) /\ UNCHANGED svagg
           ELSE /\ svagg' = SvThen
                /\ \/ SvReturn(SvResult("Fail", svagg'))
                   \/ svat' = "sleep" /\ UNCHANGED svout
  /\ UNCHANGED <<svkind, svpolicy, svcloser, svscope, svrestarts, svafter>>

\* The sleep ends, and the loop begins again.
SvSleep == /\ SvGo("sleep", "top")
           /\ svrestarts' = IF svpolicy = "RestartWithLimit" THEN svrestarts + 1 ELSE svrestarts
           /\ UNCHANGED <<svkind, svpolicy, svcloser, svscope, svagg, svfailed, svafter, svout>>

(***************************************************************************)
(* The other threads.                                                      *)
(***************************************************************************)
SvStep(from, to) == svcloser = from /\ svcloser' = to

\* close on the parent, or on the scope of a detached supervisor.
SvClose ==
  /\ IF svkind = "attach"
     THEN SvStep("idle", "copy") /\ svparent' = TRUE /\ UNCHANGED svchild
     ELSE SvStep("idle", "drain") /\ svheld /\ svchild' = "closed" /\ UNCHANGED svparent
  /\ UNCHANGED <<svkind, svpolicy, svat, svlinked, svgone, svheld, svfin, svtoken, svloop>>

\* The copy of the children, where Weak::upgrade needs a living handle.
SvCopy == /\ SvStep("copy", IF svlinked /\ svheld THEN "child" ELSE "done")
          /\ svgone' = (svlinked /\ ~svheld)
          /\ UNCHANGED <<svkind, svpolicy, svat, svparent, svlinked, svheld, svchild, svfin,
                         svtoken, svloop>>

\* Faulty variant: the child is marked closed, and its finalizers are left alone.
SvMarkChild == /\ SvStep("child", "done")
               /\ svchild' = IF svchild = "open" THEN "closed" ELSE svchild
               /\ UNCHANGED <<svkind, svpolicy, svat, svparent, svlinked, svgone, svheld, svfin,
                              svtoken, svloop>>

SvCloseChild == /\ SvStep("child", IF svchild = "open" THEN "drain" ELSE "done")
                /\ svchild' = IF svchild = "open" THEN "closed" ELSE svchild
                /\ UNCHANGED <<svkind, svpolicy, svat, svparent, svlinked, svgone, svheld, svfin,
                               svtoken, svloop>>

SvCloserDrain == SvStep("drain", "done") /\ SvDrain /\ UNCHANGED svat

\* token().cancel() by hand.
SvCancel == /\ ~svtoken /\ svat \in {"top", "start", "run", "sleep"}
            /\ svtoken' = TRUE
            /\ UNCHANGED <<svkind, svpolicy, svat, svcloser, svparent, svlinked, svgone, svheld,
                           svchild, svfin, svloop>>

\* The last handle of the supervisor is dropped while its loop runs.
SvDrop == /\ svheld /\ svat \in {"top", "start", "run", "sleep"}
          /\ svheld' = FALSE
          /\ UNCHANGED <<svkind, svpolicy, svat, svcloser, svparent, svlinked, svgone, svchild,
                         svfin, svtoken, svloop>>

SvAttach == SvFork \/ SvLinked \/ SvClosing \/ SvCheck \/ SvStore
SvLoop == SvTop \/ SvStart \/ SvSucceeds \/ SvFails \/ SvSleep
SvClosers == SvCopy \/ SvCloseChild \/ SvCloserDrain

SupervisorNext == SvAttach \/ SvLoop \/ SvClose \/ SvClosers \/ SvCancel \/ SvDrop

\* The threads run, the child effect returns and sleeps end.
SupervisorFairness == WF_svvars(SvAttach \/ SvLoop) /\ WF_svvars(SvClosers)

SupervisorSpec == SupervisorInit /\ [][SupervisorNext]_svvars /\ SupervisorFairness

(***************************************************************************)
(* Properties.                                                             *)
(***************************************************************************)

\* RestartWithLimit runs the child at most limit + 1 times, and its failure carries
\* the causes of all failed runs, whichever way the loop was left.
LimitKept ==
  svpolicy = "RestartWithLimit" /\ svout.tag = "Fail" =>
     svout.causes = svfailed /\ (svrestarts = svfailed - 1)

\* A close that has returned has run the finalizer that was registered when it began,
\* and so has cancelled the token, if it found a handle of the child.  The finalizer
\* of a scope that is still open has not run.
TokenFollowsScope ==
  /\ svchild = "drained" => svfin # "stored"
  /\ svcloser = "done" /\ ~svgone => svfin # "stored"
  /\ svfin = "ran" => svtoken /\ svchild = "drained"

\* A run that follows a cancellation had already passed the check: there is at most
\* one, however often the policy restarts.
OneRunAfterCancel == svafter <= 1

\* What the supervisor keeps.
SupervisorInv == SupervisorTypeOK /\ LimitKept /\ TokenFollowsScope /\ OneRunAfterCancel

\* Closing the parent ends the loop, unless attach had not registered its finalizer
\* when the close set its flag, or every handle of the supervisor had been dropped
\* when the close looked for the child.
CloseStopsLoop ==
  svparent ~> svat = "done" \/ svfin \in {"refused", "late"} \/ svgone

\* What supervisor.rs says without these exceptions: once the parent is closed, the
\* token of a supervisor that was attached to it is cancelled.
CloseCancelsToken ==
  svcloser = "done" /\ svat \in {"top", "start", "run", "sleep"} => svtoken
==============================================================================
