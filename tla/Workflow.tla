------------------------------ MODULE Workflow ------------------------------
(***************************************************************************)
(* A state machine kept in a durable journal: register_fsm, step_durable   *)
(* and restore_state of id_effect_fsm/workflow.rs over run_step_typed of   *)
(* id_effect_workflow, with the SQLite journal (sqlite_log.rs) or the      *)
(* PostgreSQL one (duroxide_journal.rs).  Workers crash anywhere, lose     *)
(* their machine and start again; the journal stays.                       *)
(*                                                                         *)
(* External: an IMMEDIATE transaction of SQLite excludes all others; in    *)
(* PostgreSQL, SELECT ... FOR UPDATE locks nothing when there is no row,   *)
(* and a second INSERT of the same key fails.                              *)
(***************************************************************************)
EXTENDS Naturals, FiniteSets, Functions

CONSTANTS WfBackends,  \* subset of {"sqlite", "postgres"}
          WfWorkers,
          WfStates, WfStart, WfEvents,
          WfTable,     \* WfTable[e]: the transitions of event e, a partial function
          WfSteps,     \* bound: journal entries
          WfCrashes,   \* bound: crashes
          NoWorker

ASSUME WorkflowAssumption ==
  /\ WfBackends \subseteq {"sqlite", "postgres"}
  /\ WfStart \in WfStates
  /\ \A e \in WfEvents : DOMAIN WfTable[e] \subseteq WfStates
                         /\ \A x \in DOMAIN WfTable[e] : WfTable[e][x] \in WfStates
  /\ WfSteps \in Nat /\ WfCrashes \in Nat
  /\ NoWorker \notin WfWorkers

VARIABLES wfbackend,
          wfreg,      \* the workflow is registered
          wflog,      \* completed_steps: wflog[seq] is the state of the snapshot
          wflock,     \* SQLite: the worker in a transaction
          wfat,       \* wfat[w]: where worker w is
          wfmem,      \* wfmem[w]: the state of its machine
          wfseq,      \* wfseq[w]: the seq of the step it is running
          wfnew,      \* wfnew[w]: the state that the step would store
          wfran,      \* history: how often the step of a seq was computed
          wfgiven,    \* history: the snapshots <<seq, state>> handed to workers
          wfskipped,  \* history: events whose step found another worker's snapshot
          wfcrashes,  \* crashes so far
          wfshared    \* observer: two workers have been at work together

wfvars == <<wfbackend, wfreg, wflog, wflock, wfat, wfmem, wfseq, wfnew, wfran, wfgiven,
            wfskipped, wfcrashes, wfshared>>

WfSeqs == 0..WfSteps
WfPlaces == {"new", "count", "load", "ready", "begin", "look", "compute", "insert"}

WorkflowTypeOK ==
  /\ wfbackend \in WfBackends
  /\ wfreg \in BOOLEAN
  /\ DOMAIN wflog \subseteq WfSeqs /\ Range(wflog) \subseteq WfStates
  /\ wflock \in WfWorkers \cup {NoWorker}
  /\ wfat \in [WfWorkers -> WfPlaces]
  /\ wfmem \in [WfWorkers -> WfStates]
  /\ wfseq \in [WfWorkers -> WfSeqs]
  /\ wfnew \in [WfWorkers -> WfStates]
  /\ wfran \in [WfSeqs -> Nat]
  /\ wfgiven \subseteq WfSeqs \X WfStates
  /\ wfskipped \in Nat
  /\ wfcrashes \in 0..WfCrashes
  /\ wfshared \in BOOLEAN

WorkflowInit ==
  /\ wfbackend \in WfBackends
  /\ wfreg = FALSE
  /\ wflog = [n \in {} |-> WfStart]
  /\ wflock = NoWorker
  /\ wfat = [w \in WfWorkers |-> "new"]
  /\ wfmem = [w \in WfWorkers |-> WfStart]
  /\ wfseq = [w \in WfWorkers |-> 0]
  /\ wfnew = wfmem
  /\ wfran = [n \in WfSeqs |-> 0]
  /\ wfgiven = {} /\ wfskipped = 0 /\ wfcrashes = 0
  /\ wfshared = FALSE

wfhist == <<wfran, wfgiven, wfskipped>>
WfGo(w, from, to) == wfat[w] = from /\ wfat' = [wfat EXCEPT ![w] = to]
WfCount == Cardinality(DOMAIN wflog)

(***************************************************************************)
(* register_fsm and restore_state.                                         *)
(***************************************************************************)

\* A worker that starts registers the workflow, or restores it if it exists.
WfRegister(w) ==
  /\ WfGo(w, "new", IF wfreg THEN "count" ELSE "begin")
  /\ wfreg' = TRUE
  /\ wfseq' = [wfseq EXCEPT ![w] = 0]
  /\ wfnew' = [wfnew EXCEPT ![w] = WfStart]
  /\ wfshared' = (wfshared \/ \E u \in WfWorkers \ {w} : wfat[u] # "new")
  /\ UNCHANGED <<wfbackend, wflog, wflock, wfmem, wfhist, wfcrashes>>

\* completed_step_count; an empty journal is UnknownWorkflow.
WfRestore(w) == /\ WfGo(w, "count", IF WfCount = 0 THEN "new" ELSE "load")
                /\ wfseq' = [wfseq EXCEPT ![w] = IF WfCount = 0 THEN 0 ELSE WfCount - 1]
                /\ UNCHANGED <<wfbackend, wfreg, wflog, wflock, wfmem, wfnew, wfhist, wfcrashes,
                               wfshared>>

\* completed_json of the latest seq, and set_state.
WfLoad(w) == /\ WfGo(w, "load", "ready")
             /\ wfmem' = [wfmem EXCEPT ![w] = wflog[wfseq[w]]]
             /\ wfgiven' = wfgiven \cup {<<wfseq[w], wflog[wfseq[w]]>>}
             /\ UNCHANGED <<wfbackend, wfreg, wflog, wflock, wfseq, wfnew, wfran, wfskipped,
                            wfcrashes, wfshared>>

(***************************************************************************)
(* step_durable and run_step_typed.                                        *)
(***************************************************************************)

\* The next seq is the number of steps in the journal, the next state that of
\* the machine in memory; an event without a transition changes nothing.
WfStep(w, e) == /\ wfmem[w] \in DOMAIN WfTable[e] /\ WfCount \in 1..WfSteps
                /\ WfGo(w, "ready", "begin")
                /\ wfseq' = [wfseq EXCEPT ![w] = WfCount]
                /\ wfnew' = [wfnew EXCEPT ![w] = WfTable[e][wfmem[w]]]
                /\ UNCHANGED <<wfbackend, wfreg, wflog, wflock, wfmem, wfhist, wfcrashes,
                               wfshared>>

WfBegin(w) == /\ WfGo(w, "begin", "look")
              /\ IF wfbackend = "sqlite" THEN wflock = NoWorker /\ wflock' = w
                                         ELSE UNCHANGED wflock
              /\ UNCHANGED <<wfbackend, wfreg, wflog, wfmem, wfseq, wfnew, wfhist, wfcrashes,
                             wfshared>>

\* The busy timeout of SQLite: the step fails.
WfBusy(w) == /\ wfbackend = "sqlite" /\ wflock # NoWorker
             /\ WfGo(w, "begin", IF wfseq[w] = 0 THEN "new" ELSE "ready")
             /\ UNCHANGED <<wfbackend, wfreg, wflog, wflock, wfmem, wfseq, wfnew, wfhist,
                            wfcrashes, wfshared>>

\* The transaction ends.
WfUnlock(w) == wflock' = IF wflock = w THEN NoWorker ELSE wflock

\* SELECT: a step that is in the journal returns what is stored there, and the
\* machine takes it over.
WfLook(w) ==
  /\ wfat[w] = "look"
  /\ IF wfseq[w] \in DOMAIN wflog
     THEN /\ wfat' = [wfat EXCEPT ![w] = "ready"]
          /\ wfmem' = [wfmem EXCEPT ![w] = wflog[wfseq[w]]]
          /\ wfgiven' = wfgiven \cup {<<wfseq[w], wflog[wfseq[w]]>>}
          /\ wfskipped' = IF wfseq[w] = 0 THEN wfskipped ELSE wfskipped + 1
          /\ WfUnlock(w)
     ELSE /\ wfat' = [wfat EXCEPT ![w] = "compute"]
          /\ UNCHANGED <<wfmem, wfgiven, wfskipped, wflock>>
  /\ UNCHANGED <<wfbackend, wfreg, wflog, wfseq, wfnew, wfran, wfcrashes, wfshared>>

WfCompute(w) == /\ WfGo(w, "compute", "insert")
                /\ wfran' = [wfran EXCEPT ![wfseq[w]] = @ + 1]
                /\ UNCHANGED <<wfbackend, wfreg, wflog, wflock, wfmem, wfseq, wfnew, wfgiven,
                               wfskipped, wfcrashes, wfshared>>

\* Faulty variant: an INSERT that does nothing on a conflict counts as done.
WfInsertIgnored(w) ==
  /\ WfGo(w, "insert", "ready")
  /\ wflog' = IF wfseq[w] \in DOMAIN wflog THEN wflog
              ELSE [n \in DOMAIN wflog \cup {wfseq[w]} |-> IF n = wfseq[w] THEN wfnew[w] ELSE wflog[n]]
  /\ wfmem' = [wfmem EXCEPT ![w] = wfnew[w]]
  /\ wfgiven' = wfgiven \cup {<<wfseq[w], wfnew[w]>>}
  /\ WfUnlock(w)
  /\ UNCHANGED <<wfbackend, wfreg, wfseq, wfnew, wfran, wfskipped, wfcrashes, wfshared>>

\* INSERT and COMMIT, or the error for a key that another worker has inserted.
WfInsert(w) ==
  /\ wfat[w] = "insert"
  /\ IF wfseq[w] \in DOMAIN wflog
     THEN /\ wfat' = [wfat EXCEPT ![w] = IF wfseq[w] = 0 THEN "new" ELSE "ready"]
          /\ UNCHANGED <<wflog, wfmem, wfgiven>>
     ELSE /\ wfat' = [wfat EXCEPT ![w] = "ready"]
          /\ wflog' = [n \in DOMAIN wflog \cup {wfseq[w]} |->
                         IF n = wfseq[w] THEN wfnew[w] ELSE wflog[n]]
          /\ wfmem' = [wfmem EXCEPT ![w] = wfnew[w]]
          /\ wfgiven' = wfgiven \cup {<<wfseq[w], wfnew[w]>>}
  /\ WfUnlock(w)
  /\ UNCHANGED <<wfbackend, wfreg, wfseq, wfnew, wfran, wfskipped, wfcrashes, wfshared>>

\* The process dies: an open transaction is rolled back, the machine is gone.
WfCrash(w) == /\ wfat[w] # "new" /\ wfcrashes < WfCrashes
              /\ wfat' = [wfat EXCEPT ![w] = "new"]
              /\ wfmem' = [wfmem EXCEPT ![w] = WfStart]
              /\ wfcrashes' = wfcrashes + 1
              /\ WfUnlock(w)
              /\ UNCHANGED <<wfbackend, wfreg, wflog, wfseq, wfnew, wfhist, wfshared>>

WorkflowNext ==
  \E w \in WfWorkers : \/ WfRegister(w) \/ WfRestore(w) \/ WfLoad(w)
                       \/ \E e \in WfEvents : WfStep(w, e)
                       \/ WfBegin(w) \/ WfBusy(w) \/ WfLook(w) \/ WfCompute(w) \/ WfInsert(w)
                       \/ WfCrash(w)

WorkflowSpec == WorkflowInit /\ [][WorkflowNext]_wfvars

(***************************************************************************)
(* Properties.                                                             *)
(***************************************************************************)

\* The journal has no gap, so that its length is the next seq and its last
\* entry is the one that restore_state reads.
JournalDense == DOMAIN wflog = {n \in WfSeqs : n < WfCount}

\* No worker ever works with a snapshot that the journal does not hold, crashes
\* and races for the same seq included.
SnapshotsAgree == \A g \in wfgiven : g[1] \in DOMAIN wflog /\ wflog[g[1]] = g[2]

\* As long as one worker is at work at a time, with any crashes between its
\* steps, the journal is a path of the table and no event is skipped.
JournalIsPath ==
  ~wfshared =>
     /\ wfskipped = 0
     /\ \A n \in DOMAIN wflog : n > 0 =>
          \E e \in WfEvents : wflog[n-1] \in DOMAIN WfTable[e]
                              /\ wflog[n] = WfTable[e][wflog[n-1]]

\* SQLite computes a step again only after a crash.
ComputedOnce == wfbackend = "sqlite" => \A n \in WfSeqs : wfran[n] <= 1 + wfcrashes

\* A registered workflow with an empty journal is being initialised, or a crash
\* or an error hit its first worker in between.
RegisteredHasStart ==
  wfreg /\ wflog = <<>> =>
     \/ wfcrashes > 0
     \/ \E w \in WfWorkers : wfseq[w] = 0 /\ wfat[w] \in {"begin", "look", "compute", "insert"}

\* What workers on one journal keep.
WorkflowInv == /\ WorkflowTypeOK /\ JournalDense /\ SnapshotsAgree /\ JournalIsPath
               /\ ComputedOnce /\ RegisteredHasStart
==============================================================================
