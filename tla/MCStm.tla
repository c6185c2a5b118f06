-------------------------------- MODULE MCStm --------------------------------
(* Stm on two threads and two cells, so that a commit of one thread can be   *)
(* half applied while the other runs its body, validates or waits.           *)
EXTENDS Stm, TLC

CONSTANTS t1, t2

Zeros == [r \in TRefs |-> 0]

\* t2 can change a cell and change it back while one attempt of t1 runs.
Calls == t1 :> 1 @@ t2 :> 2
Ops == t1 :> 2 @@ t2 :> 2
==============================================================================
