------------------------------- MODULE MCBasics -------------------------------
(***************************************************************************)
(* Programs over transactional structures, and scopes: every behaviour is  *)
(* one of a single part, named by focus, beside an idle one.               *)
(***************************************************************************)
EXTENDS StmPrograms, MCScope

CONSTANTS t1, t2, t3

VARIABLE focus

\* A producer and two workers over the queues 1 and 4, the semaphore 2 and the map 3.
\* A worker takes an element, takes the only permit and registers itself in one
\* transaction, and undoes that in another; the producer's third offer may find the
\* queue full.
MCWorker(k) ==
  << << [op |-> "take", ref |-> 1],
        [op |-> "acquire", ref |-> 2],
        [op |-> "set", ref |-> 3, key |-> k, val |-> k] >>,
     << [op |-> "release", ref |-> 2],
        [op |-> "delete", ref |-> 3, key |-> k],
        [op |-> "offer", ref |-> 4, val |-> k] >> >>
MCProducer ==
  << << [op |-> "get", ref |-> 3, key |-> 1],
        [op |-> "offer", ref |-> 1, val |-> 1] >>,
     << [op |-> "offer", ref |-> 1, val |-> 2] >>,
     << [op |-> "offer", ref |-> 1, val |-> 3] >> >>
MCPrograms == t1 :> MCProducer @@ t2 :> MCWorker(1) @@ t3 :> MCWorker(2)
MCCalls == [t \in Threads |-> Len(MCPrograms[t])]
MCOps == [t \in Threads |-> 3]
MCContents == Seq(Nat)
MCStart == 1 :> <<>> @@ 2 :> <<1>> @@ 3 :> <<0, 0>> @@ 4 :> <<>>

MCInit == focus \in {"stm", "scope"} /\ PInit /\ ScopeInit

MCNext == /\ UNCHANGED focus
          /\ \/ focus = "stm" /\ PNext /\ UNCHANGED scopevars
             \/ focus = "scope" /\ ScopeNext /\ UNCHANGED pvars

\* The fairness of the part that runs; the idle one does nothing.
MCSpec == /\ MCInit /\ [][MCNext]_<<focus, pvars, scopevars>>
          /\ \A t \in Threads : WF_pvars(focus = "stm" /\ Step(t))
          /\ \A t \in Callers : WF_scopevars(focus = "scope" /\ Continue(t))

\* AllCallsReturn, where the programs run: commit retries until it succeeds
\* (stm/mod.rs), and no call of it is retried for ever.
ProgramsReturn == focus = "stm" => AllCallsReturn
==============================================================================
