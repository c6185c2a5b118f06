----------------------------- MODULE MCServices -----------------------------
(***************************************************************************)
(* The services built on the core, side by side: every behaviour is one of *)
(* a single service, named by focus, beside idle ones.                     *)
(***************************************************************************)
EXTENDS Breaker, RateLimiter, Jobs, Outbox, Workflow, EventStore, Supervisor, Admission,
        Saga, Pool, TLC

CONSTANTS jb1, jb2, jb3, id1, id2, q0, q1, q2, ea, eb, wr1, wr2, wr3, st1, st2, s1, s2, s3, k1, k2

VARIABLE focus

vars == <<focus, brvars, rlvars, jbvars, obvars, wfvars, esvars, svvars, advars, savars,
          plvars>>

MCIds == jb1 :> id1 @@ jb2 :> id1 @@ jb3 :> id2
MCTable == ea :> (q0 :> q1 @@ q1 :> q2) @@ eb :> (q0 :> q2 @@ q2 :> q0)
MCStream == wr1 :> st1 @@ wr2 :> st1 @@ wr3 :> st2
MCCount == wr1 :> 2 @@ wr2 :> 2 @@ wr3 :> 1

\* Three scopes on the one permit of a pool, and one or two keys.
MCScopes == {s1, s2, s3}
MCRequests == {(s3 :> k) @@ [s \in MCScopes |-> k1] : k \in {k1, k2}}

Services == {"breaker", "rate", "jobs", "outbox", "workflow", "events", "supervisor",
             "admission", "saga", "pool"}

\* A service that is not in focus has one state.
Pick(service, idle) == focus = service \/ idle

MCInit ==
  /\ focus \in Services
  /\ BreakerInit /\ RateInit /\ JobsInit /\ OutboxInit /\ AdmissionInit /\ SagaInit
  /\ WorkflowInit /\ Pick("workflow", wfbackend = "sqlite")
  /\ EventStoreInit /\ Pick("events", eskind = "memory")
  /\ PoolInit /\ Pick("pool", plkey = [s \in MCScopes |-> k1])
  /\ SupervisorInit /\ Pick("supervisor", svkind = "attach" /\ svpolicy = "Ignore")

MCNext ==
  /\ UNCHANGED focus
  /\ IF focus = "breaker"    THEN BreakerNext    ELSE UNCHANGED brvars
  /\ IF focus = "rate"       THEN RateNext       ELSE UNCHANGED rlvars
  /\ IF focus = "jobs"       THEN JobsNext       ELSE UNCHANGED jbvars
  /\ IF focus = "outbox"     THEN OutboxNext     ELSE UNCHANGED obvars
  /\ IF focus = "workflow"   THEN WorkflowNext   ELSE UNCHANGED wfvars
  /\ IF focus = "events"     THEN EventStoreNext ELSE UNCHANGED esvars
  /\ IF focus = "supervisor" THEN SupervisorNext ELSE UNCHANGED svvars
  /\ IF focus = "admission"  THEN AdmissionNext  ELSE UNCHANGED advars
  /\ IF focus = "saga"       THEN SagaNext       ELSE UNCHANGED savars
  /\ IF focus = "pool"       THEN PoolNext       ELSE UNCHANGED plvars

\* The fairness of the service that runs; the idle ones do nothing.
MCFairness ==
  /\ \A c \in BrCallers : WF_brvars(focus = "breaker" /\ (BrCall(c) \/ BrStep(c)))
  /\ WF_brvars(focus = "breaker" /\ BrTick)
  /\ \A r \in ObRelays : WF_obvars(focus = "outbox" /\ ObRelay(r))
  /\ WF_svvars(focus = "supervisor" /\ (SvAttach \/ SvLoop))
  /\ WF_svvars(focus = "supervisor" /\ SvClosers)
  /\ \A s \in PlScopes : /\ WF_plvars(focus = "pool" /\ PlStep(s))
                         /\ WF_plvars(focus = "pool" /\ PlClose(s))

MCSpec == MCInit /\ [][MCNext]_vars /\ MCFairness
==============================================================================
