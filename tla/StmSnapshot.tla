----------------------------- MODULE StmSnapshot -----------------------------
(***************************************************************************)
(* Stm with a memory: for every attempt, all the stores that existed while *)
(* it ran.  With it one can say that a body saw one store and not a        *)
(* mixture of two.                                                         *)
(***************************************************************************)
EXTENDS Stm, TLC

CONSTANTS t1, t2

Zeros == [r \in TRefs |-> 0]

VARIABLE stores   \* stores[t]: the values Mem had during the attempt of t

hvars == <<vars, stores>>

Once == t1 :> 1 @@ t2 :> 1
TwoOps == t1 :> 2 @@ t2 :> 2

HInit == Init /\ stores = [t \in Threads |-> {Mem}]

\* Nothing has been read yet, so the attempt may still count as starting now.
Fresh(t) == seen[t] = Empty

Record == stores' = [t \in Threads |->
                       IF Fresh(t)' THEN {Mem'} ELSE stores[t] \cup {Mem'}]

HNext == Next /\ Record

HSpec == HInit /\ [][HNext]_hvars /\ Fairness

\* "No torn reads": when a body gives up with an error, the values it decided
\* on were in the cells together at some moment of the attempt.
NoTornReads ==
  [][\A t \in Threads : BodyFail(t) => \E m \in stores[t] : Agrees(seen[t], m)]_hvars
==============================================================================
