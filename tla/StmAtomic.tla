------------------------------ MODULE StmAtomic ------------------------------
(***************************************************************************)
(* What software transactional memory promises its users: a transaction   *)
(* takes effect in one indivisible step.  At that step every value its     *)
(* body observed is the current value of the cell, and all of its writes   *)
(* happen.  A transaction that fails has no effect at all.  Stm, the       *)
(* detailed module, is shown to implement this specification.              *)
(***************************************************************************)
EXTENDS StmValues

VARIABLES mem,      \* mem[r]: the value of cell r
          result    \* result[t]: what the current call of t has come to

avars == <<mem, result>>

AInit == /\ mem = InitVal
         /\ result = [t \in Threads |-> Idle]

\* t calls commit(stm).
ABegin(t) == /\ result[t] = Idle
             /\ result' = [result EXCEPT ![t] = Running]
             /\ UNCHANGED mem

\* The whole transaction of t, in one step.
ACommit(t) ==
  /\ result[t] = Running
  /\ result'[t].status = "committed"
  /\ \E rs, ws \in PartialStore :
       /\ result' = [result EXCEPT ![t] = Committed(rs, ws)]
       /\ Agrees(rs, mem)
       /\ mem' = Overlay(mem, ws)

\* commit returns Ok to the caller.
AReturn(t) == /\ result[t].status = "committed"
              /\ result' = [result EXCEPT ![t] = Idle]
              /\ UNCHANGED mem

\* The body of t ended in Outcome::Fail: commit returns Err, nothing written.
AFail(t) == /\ result[t] = Running
            /\ result' = [result EXCEPT ![t] = Idle]
            /\ UNCHANGED mem

ANext == \E t \in Threads : ABegin(t) \/ ACommit(t) \/ AReturn(t) \/ AFail(t)

ASpec == AInit /\ [][ANext]_avars
==============================================================================
