-------------------------------- MODULE Jobs --------------------------------
(***************************************************************************)
(* id_effect_jobs/runner.rs: the MemoryJobRunner and drain_jobs, called    *)
(* from several threads.  A job has the id its producer gave it, and two   *)
(* jobs may have the same one.  A handler returns, fails or panics.        *)
(***************************************************************************)
EXTENDS Naturals, Sequences, FiniteSets, SequencesExt

CONSTANTS JbJobs,      \* bound: the jobs that are enqueued
          JbIds,
          JbId,        \* JbId[j]: the id of j
          JbWorkers,   \* threads that call drain_jobs
          JbLimit,     \* the limit they pass
          JbDrains,    \* bound: how often a worker drains
          NoJob

ASSUME JobsAssumption == /\ JbId \in [JbJobs -> JbIds]
                         /\ JbLimit \in Nat \ {0} /\ JbDrains \in Nat
                         /\ NoJob \notin JbJobs

VARIABLES jbqueue,     \* the VecDeque of pending jobs
          jbrunning,   \* jbrunning[id]: the running record with this id, or NoJob
          jbnew,       \* jobs not enqueued yet
          jbat,        \* jbat[w]: where worker w is
          jbhas,       \* jbhas[w]: the job w has dequeued
          jbcount,     \* jbcount[w]: what is left of the limit
          jbdrains,    \* jbdrains[w]: drains that w has begun
          jbran,       \* history: how often the handler was run for a job
          jbdone,      \* history: jobs removed by complete or fail
          jblost,      \* history: jobs whose drain ended with a panic or NotFound
          jbbumped     \* history: jobs whose running record was replaced

jbvars == <<jbqueue, jbrunning, jbnew, jbat, jbhas, jbcount, jbdrains, jbran, jbdone,
            jblost, jbbumped>>

JobsTypeOK ==
  /\ jbqueue \in Seq(JbJobs)
  /\ jbrunning \in [JbIds -> JbJobs \cup {NoJob}]
  /\ jbnew \subseteq JbJobs /\ jbdone \subseteq JbJobs
  /\ jblost \subseteq JbJobs /\ jbbumped \subseteq JbJobs
  /\ jbat \in [JbWorkers -> {"idle", "dequeue", "handle", "settle"}]
  /\ jbhas \in [JbWorkers -> JbJobs \cup {NoJob}]
  /\ jbcount \in [JbWorkers -> 0..JbLimit]
  /\ jbdrains \in [JbWorkers -> 0..JbDrains]
  /\ jbran \in [JbJobs -> Nat]

JobsInit ==
  /\ jbqueue = <<>>
  /\ jbrunning = [i \in JbIds |-> NoJob]
  /\ jbnew = JbJobs
  /\ jbat = [w \in JbWorkers |-> "idle"]
  /\ jbhas = [w \in JbWorkers |-> NoJob]
  /\ jbcount = [w \in JbWorkers |-> 0]
  /\ jbdrains = [w \in JbWorkers |-> 0]
  /\ jbran = [j \in JbJobs |-> 0]
  /\ jbdone = {} /\ jblost = {} /\ jbbumped = {}

\* enqueue does not look whether the id is in use.
Enqueue(j) == /\ j \in jbnew
              /\ jbnew' = jbnew \ {j}
              /\ jbqueue' = Append(jbqueue, j)
              /\ UNCHANGED <<jbrunning, jbat, jbhas, jbcount, jbdrains, jbran, jbdone,
                             jblost, jbbumped>>

Drain(w) == /\ jbat[w] = "idle" /\ jbdrains[w] < JbDrains
            /\ jbat' = [jbat EXCEPT ![w] = "dequeue"]
            /\ jbcount' = [jbcount EXCEPT ![w] = JbLimit]
            /\ jbdrains' = [jbdrains EXCEPT ![w] = @ + 1]
            /\ UNCHANGED <<jbqueue, jbrunning, jbnew, jbhas, jbran, jbdone, jblost, jbbumped>>

\* Faulty variant: the job is taken without being removed.
DequeuePeek(w) ==
  /\ jbat[w] = "dequeue" /\ jbcount[w] > 0 /\ jbqueue # <<>>
  /\ LET j == Head(jbqueue) IN
     /\ jbhas' = [jbhas EXCEPT ![w] = j]
     /\ jbrunning' = [jbrunning EXCEPT ![JbId[j]] = j]
     /\ jbbumped' = jbbumped
  /\ jbat' = [jbat EXCEPT ![w] = "handle"]
  /\ UNCHANGED <<jbqueue, jbnew, jbcount, jbdrains, jbran, jbdone, jblost>>

\* pop_front and, under the same lock, insert into the running map, where the
\* record replaces one with the same id.
Dequeue(w) ==
  /\ jbat[w] = "dequeue" /\ jbcount[w] > 0 /\ jbqueue # <<>>
  /\ LET j == Head(jbqueue) IN
     /\ jbqueue' = Tail(jbqueue)
     /\ jbhas' = [jbhas EXCEPT ![w] = j]
     /\ jbrunning' = [jbrunning EXCEPT ![JbId[j]] = j]
     /\ jbbumped' = jbbumped \cup ({jbrunning[JbId[j]]} \ {NoJob})
  /\ jbat' = [jbat EXCEPT ![w] = "handle"]
  /\ UNCHANGED <<jbnew, jbcount, jbdrains, jbran, jbdone, jblost>>

\* The queue is empty, or limit jobs have been processed.
DrainEnds(w) == /\ jbat[w] = "dequeue" /\ (jbcount[w] = 0 \/ jbqueue = <<>>)
                /\ jbat' = [jbat EXCEPT ![w] = "idle"]
                /\ UNCHANGED <<jbqueue, jbrunning, jbnew, jbhas, jbcount, jbdrains, jbran,
                               jbdone, jblost, jbbumped>>

\* The handler returns Ok or Err ...
Handle(w) == /\ jbat[w] = "handle"
             /\ jbran' = [jbran EXCEPT ![jbhas[w]] = @ + 1]
             /\ jbat' = [jbat EXCEPT ![w] = "settle"]
             /\ UNCHANGED <<jbqueue, jbrunning, jbnew, jbhas, jbcount, jbdrains, jbdone,
                            jblost, jbbumped>>

\* ... or panics, which unwinds drain_jobs.
HandlerPanics(w) == /\ jbat[w] = "handle"
                    /\ jbran' = [jbran EXCEPT ![jbhas[w]] = @ + 1]
                    /\ jblost' = jblost \cup {jbhas[w]}
                    /\ jbhas' = [jbhas EXCEPT ![w] = NoJob]
                    /\ jbat' = [jbat EXCEPT ![w] = "idle"]
                    /\ UNCHANGED <<jbqueue, jbrunning, jbnew, jbcount, jbdrains, jbdone,
                                   jbbumped>>

\* complete or fail: remove the record with this id; NotFound ends the drain.
Settle(w) ==
  LET i == JbId[jbhas[w]]
      r == jbrunning[i]
  IN  /\ jbat[w] = "settle"
      /\ jbrunning' = [jbrunning EXCEPT ![i] = NoJob]
      /\ jbhas' = [jbhas EXCEPT ![w] = NoJob]
      /\ IF r # NoJob
         THEN /\ jbdone' = jbdone \cup {r}
              /\ jbat' = [jbat EXCEPT ![w] = "dequeue"]
              /\ jbcount' = [jbcount EXCEPT ![w] = @ - 1]
              /\ UNCHANGED jblost
         ELSE /\ jblost' = jblost \cup {jbhas[w]}
              /\ jbat' = [jbat EXCEPT ![w] = "idle"]
              /\ UNCHANGED <<jbdone, jbcount>>
      /\ UNCHANGED <<jbqueue, jbnew, jbdrains, jbran, jbbumped>>

JbWork(w) == \/ Dequeue(w) \/ DrainEnds(w) \/ Handle(w) \/ HandlerPanics(w) \/ Settle(w)

JobsNext == \/ \E j \in JbJobs : Enqueue(j)
            \/ \E w \in JbWorkers : Drain(w) \/ JbWork(w)

JobsSpec == JobsInit /\ [][JobsNext]_jbvars

(***************************************************************************)
(* Properties.                                                             *)
(***************************************************************************)

JbHeld == {jbhas[w] : w \in JbWorkers} \ {NoJob}
JbRunning == {jbrunning[i] : i \in JbIds} \ {NoJob}

\* No job is handled twice, and none gets lost before it is handled: an enqueued
\* job is pending, or in the hands of one worker, or has been handled.
HandledOnce ==
  /\ IsInjective(jbqueue)
  /\ \A u, w \in JbWorkers : jbhas[u] = jbhas[w] /\ jbhas[u] # NoJob => u = w
  /\ \A j \in JbJobs :
       /\ jbran[j] <= 1
       /\ jbran[j] = 0 => j \in jbnew \cup Range(jbqueue) \cup JbHeld

\* A record leaves the running map through its own worker, unless two jobs have
\* the same id.  The record of a job that was abandoned stays there.
RunningMatches ==
  \A j \in JbJobs : (\A k \in JbJobs \ {j} : JbId[k] # JbId[j]) =>
     (j \in JbRunning <=> j \in JbHeld \cup jblost)

\* Records are replaced, and settle the wrong job, only between equal ids.
OnlyEqualIdsCollide ==
  \A j \in jbbumped : \E k \in JbJobs \ {j} : JbId[k] = JbId[j]

\* What workers that drain one queue keep.
JobsInv == JobsTypeOK /\ HandledOnce /\ RunningMatches /\ OnlyEqualIdsCollide
==============================================================================
