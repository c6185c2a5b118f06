----------------------------- MODULE StmPrograms -----------------------------
(***************************************************************************)
(* Programs over the transactional structures of stm/mod.rs: TQueue, TMap  *)
(* and TSemaphore, each one TRef, composed with flat_map into transactions *)
(* that commit runs (module Stm).  A structure operation reads its cell,   *)
(* computes the next contents and writes them back, or asks for a Retry.   *)
(*                                                                         *)
(* Cell contents are tuples of numbers: a queue is the tuple of its        *)
(* elements, a semaphore <<permits>>, a map the tuple of the values of its *)
(* keys with Absent for a key that is not there.                           *)
(***************************************************************************)
EXTENDS Stm, Sequences, FiniteSets

CONSTANTS Program, \* Program[t]: the calls of t, each the operations of a body
          Queues,  \* the cells that are TQueues
          Cap,     \* QueueState::cap of the queues
          Sem,     \* the cell of the TSemaphore
          Map      \* the cell of the TMap

Absent == 0

(***************************************************************************)
(* The programs.                                                           *)
(***************************************************************************)

\* The operations of the i-th body of t.
OpsIn(t, i) == {Program[t][i][j] : j \in 1..Len(Program[t][i])}

Changes(o) == o.op # "get"

\* An operation is applied to a structure that has it.
WellFormed(o) ==
  \/ o.op = "offer" /\ o.ref \in Queues /\ o.val \in Nat
  \/ o.op = "take" /\ o.ref \in Queues
  \/ o.op \in {"acquire", "release"} /\ o.ref = Sem
  \/ o.op = "get" /\ o.ref = Map
  \/ o.op = "set" /\ o.ref = Map /\ o.key \in DOMAIN InitVal[Map] /\ o.val \in Nat \ {Absent}
  \/ o.op = "delete" /\ o.ref = Map /\ o.key \in DOMAIN InitVal[Map]

\* A body takes a permit, or gives one back.
Enters(t, i) == \E o \in OpsIn(t, i) : o.op = "acquire"
Leaves(t, i) == \E o \in OpsIn(t, i) : o.op = "release"

\* t has a permit after its first n calls.
Inside(t, n) == \E i \in 1..n : Enters(t, i) /\ \A l \in (i + 1)..n : ~Leaves(t, l)

\* Bodies change a structure at most once.  Who takes a permit registers itself
\* under a key of its own in the same body, and has it until it gives the permit
\* back and deletes the key in one body.
ASSUME ProgramsAssumption ==
  /\ Vals = Seq(Nat)
  /\ Queues \subseteq TRefs
  /\ {Sem, Map} \subseteq TRefs \ Queues /\ Sem # Map
  /\ Cap \in Nat
  /\ \A q \in Queues : InitVal[q] = <<>>
  /\ Len(InitVal[Sem]) = 1
  /\ \A k \in DOMAIN InitVal[Map] : InitVal[Map][k] = Absent
  /\ \A t \in Threads : \A i \in 1..MaxTxns[t] :
        /\ Len(Program[t][i]) \in Nat
        /\ \A o \in OpsIn(t, i) : WellFormed(o)
        /\ \A j, l \in 1..Len(Program[t][i]) :
              LET o == Program[t][i][j]
                  p == Program[t][i][l]
              IN  Changes(o) /\ Changes(p) /\ o.ref = p.ref => j = l
        /\ Enters(t, i) <=> \E o \in OpsIn(t, i) : o.op = "set"
        /\ Leaves(t, i) <=> \E o \in OpsIn(t, i) : o.op = "delete"
        /\ Enters(t, i) => ~Inside(t, i - 1)
        /\ Leaves(t, i) => Inside(t, i - 1)
  /\ \A t, u \in Threads : \A i \in 1..MaxTxns[t], l \in 1..MaxTxns[u] :
        \A o \in OpsIn(t, i), p \in OpsIn(u, l) :
           {o.op, p.op} \subseteq {"set", "delete"} => (o.key = p.key <=> t = u)

VARIABLES at,      \* at[t]: the operation the body of t is at
          offered, \* observer: the elements put into each queue, in commit order
          taken    \* observer: the elements taken from each queue

pvars == <<vars, at, offered, taken>>

(***************************************************************************)
(* What an operation makes of the contents c of its cell.                  *)
(***************************************************************************)

Write(c) == [kind |-> "write", next |-> c]
Keep == [kind |-> "keep"]
Retry == [kind |-> "retry"]

Offer(c, x) == IF Len(c) >= Cap THEN Keep ELSE Write(Append(c, x))
Take(c) == IF c = <<>> THEN Retry ELSE Write(Tail(c))
Acquire(c) == IF c[1] = 0 THEN Retry ELSE Write(<<c[1] - 1>>)
Release(c) == Write(<<c[1] + 1>>)
Get(c, k) == Keep
Set(c, k, x) == Write([c EXCEPT ![k] = x])
Delete(c, k) == Write([c EXCEPT ![k] = Absent])

Outcome(o, c) == CASE o.op = "offer"   -> Offer(c, o.val)
                   [] o.op = "take"    -> Take(c)
                   [] o.op = "acquire" -> Acquire(c)
                   [] o.op = "release" -> Release(c)
                   [] o.op = "get"     -> Get(c, o.key)
                   [] o.op = "set"     -> Set(c, o.key, o.val)
                   [] o.op = "delete"  -> Delete(c, o.key)

\* What read_stm returns in the current attempt of t.
Current(t, r) == IF shadow[t][r] # NoVal THEN shadow[t][r] ELSE data[r]

Body(t) == Program[t][runs[t]]

PInit == /\ Init
         /\ at = [t \in Threads |-> 1]
         /\ offered = [q \in Queues |-> InitVal[q]]
         /\ taken = [q \in Queues |-> <<>>]

Restart(t) == at' = [at EXCEPT ![t] = 1]

PBegin(t) == Begin(t) /\ Restart(t) /\ UNCHANGED <<offered, taken>>

\* One operation of the body (flat_map goes on to the next one).
Operation(t) ==
  /\ pc[t] = "body"
  /\ at[t] =< Len(Body(t))
  /\ LET o == Body(t)[at[t]]
         out == Outcome(o, Current(t, o.ref))
     IN \/ /\ out.kind = "write"
           /\ UpdateStm(t, o.ref, out.next)
           /\ at' = [at EXCEPT ![t] = @ + 1]
        \/ /\ out.kind = "keep"
           /\ ReadStm(t, o.ref) \/ (shadow[t][o.ref] # NoVal /\ UNCHANGED vars)
           /\ at' = [at EXCEPT ![t] = @ + 1]
        \/ /\ out.kind = "retry"
           /\ BodyRetry(t)
           /\ Restart(t)
  /\ UNCHANGED <<offered, taken>>

PBodyDone(t) == /\ BodyDone(t)
                /\ at[t] > Len(Body(t))
                /\ UNCHANGED <<at, offered, taken>>

PTryCommit(t) ==
  \/ /\ TakeLock(t) \/ (\E r \in TRefs : ValidateOk(t, r) \/ ApplyWrite(t, r)) \/ Return(t)
     /\ UNCHANGED <<at, offered, taken>>
  \/ /\ Conflict(t)
     /\ Restart(t)
     /\ UNCHANGED <<offered, taken>>

\* The transaction takes effect.  The observer compares the contents of each
\* queue before and after: a body of these programs uses a queue at most once.
PValidated(t) ==
  /\ Validated(t)
  /\ offered' = [q \in Queues |->
       IF writes[t][q] # NoVal /\ Len(writes[t][q]) > Len(data[q])
       THEN Append(offered[q], writes[t][q][Len(writes[t][q])])
       ELSE offered[q]]
  /\ taken' = [q \in Queues |->
       IF writes[t][q] # NoVal /\ Len(writes[t][q]) < Len(data[q])
       THEN Append(taken[q], seen[t][q][1])
       ELSE taken[q]]
  /\ UNCHANGED at

Step(t) == PBegin(t) \/ Operation(t) \/ PBodyDone(t) \/ PTryCommit(t) \/ PValidated(t)

PNext == \/ \E t \in Threads : Step(t)
         \/ Terminated /\ UNCHANGED <<at, offered, taken>>

\* The operating system schedules every thread, again and again; std::sync::Mutex
\* promises no more than that the lock is free when it is released.
PSpec == PInit /\ [][PNext]_pvars /\ \A t \in Threads : WF_pvars(Step(t))

\* No element is lost, duplicated or reordered: what was taken from a queue,
\* followed by what it holds, is what was offered, in commit order; and a
\* bounded queue never holds more than its capacity.
QueuesAreFifo ==
  \A q \in Queues : /\ offered[q] = taken[q] \o Mem[q]
                    /\ Len(Mem[q]) =< Cap

\* The keys that are in the map.
Registered == {k \in DOMAIN Mem[Map] : Mem[Map][k] # Absent}

\* A transaction over three structures is all or nothing: every permit that is
\* out is registered in the map by the transaction that took it.
PermitsMatchMap == Mem[Sem][1] + Cardinality(Registered) = InitVal[Sem][1]

\* What the structures built on cells keep when transactions span several of them.
ProgramsInv == QueuesAreFifo /\ PermitsMatchMap

\* Stm::retry waits and does not lose the wake-up, and no thread is overtaken
\* for ever: every call of commit returns although takers and acquirers start
\* before there is anything to take.
AllCallsReturn == <>(\A t \in Threads : pc[t] = "idle" /\ runs[t] = MaxTxns[t])
==============================================================================
