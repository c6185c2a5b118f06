--------------------------------- MODULE Stm ---------------------------------
(***************************************************************************)
(* The optimistic transactions of id_effect::stm (stm/mod.rs).             *)
(*                                                                         *)
(* Every thread repeatedly calls commit(stm).  The body runs without the   *)
(* commit lock: it reads live cells one at a time, remembers the version   *)
(* of each cell it touched, and defers its writes.  try_commit takes the   *)
(* global lock, re-checks the versions one by one and, if none moved,      *)
(* applies the writes one by one in address order.  A body that is not     *)
(* the lock holder may read live cells between any two of these steps.     *)
(*                                                                         *)
(* The body is any sequence of TRef operations ended by Done, Fail or      *)
(* Retry; TQueue, TMap and TSemaphore are bodies of this kind over one     *)
(* cell.  A transaction log entry (Txn) is four partial functions on       *)
(* cells: shadow, readVer (validated + read_validators, which the code     *)
(* always extends together), writes (commit_writes), and the observer's    *)
(* variable seen, the values the body took from live cells.                *)
(***************************************************************************)
EXTENDS Integers, StmValues

CONSTANTS NoThread, \* the commit lock is free
          MaxTxns,  \* bound: how many times each thread calls commit
          MaxOps    \* bound: the operations in the body of each thread

NoVer == -1         \* the cell is not in Txn::validated

ASSUME StmAssumption == /\ TRefs \subseteq Nat    \* a cell is its address
                        /\ NoVal \notin Vals
                        /\ InitVal \in [TRefs -> Vals]
                        /\ NoThread \notin Threads
                        /\ MaxTxns \in [Threads -> Nat]
                        /\ MaxOps \in [Threads -> Nat]

VARIABLES data,     \* Inner::data
          ver,      \* Inner::ver
          lock,     \* holder of STM_COMMIT_LOCK
          pc,       \* where each thread is in commit / try_commit
          shadow,   \* Txn::shadow
          readVer,  \* Txn::validated with the version each validator captured
          writes,   \* Txn::commit_writes
          toCheck,  \* the read_validators the loop in try_commit has not run
          leftOf,   \* TRUE while the left branch of an or_else runs
          ops,      \* operations of the current attempt so far
          runs,     \* how often commit was called
          seen,     \* observer: live value the body took from each cell
          result    \* observer: what the call has come to, see StmAtomic

log == <<shadow, readVer, writes, seen>>
vars == <<data, ver, lock, pc, shadow, readVer, writes, toCheck, leftOf, ops,
          runs, seen, result>>

NoVers == [r \in TRefs |-> NoVer]

PCs == {"idle", "body", "lock", "validate", "apply"}

TypeOK ==
  /\ data \in [TRefs -> Vals]
  /\ ver \in [TRefs -> Nat]
  /\ lock \in Threads \cup {NoThread}
  /\ pc \in [Threads -> PCs]
  /\ shadow \in [Threads -> PartialStore]
  /\ readVer \in [Threads -> [TRefs -> Nat \cup {NoVer}]]
  /\ writes \in [Threads -> PartialStore]
  /\ toCheck \in [Threads -> SUBSET TRefs]
  /\ leftOf \in [Threads -> BOOLEAN]
  /\ ops \in [Threads -> Nat]
  /\ runs \in [Threads -> Nat]
  /\ seen \in [Threads -> PartialStore]
  /\ result \in [Threads -> Results]

Init ==
  /\ data = InitVal
  /\ ver = [r \in TRefs |-> 0]
  /\ lock = NoThread
  /\ pc = [t \in Threads |-> "idle"]
  /\ shadow = [t \in Threads |-> Empty]
  /\ readVer = [t \in Threads |-> NoVers]
  /\ writes = [t \in Threads |-> Empty]
  /\ toCheck = [t \in Threads |-> {}]
  /\ leftOf = [t \in Threads |-> FALSE]
  /\ ops = [t \in Threads |-> 0]
  /\ runs = [t \in Threads |-> 0]
  /\ seen = [t \in Threads |-> Empty]
  /\ result = [t \in Threads |-> Idle]

(***************************************************************************)
(* The transaction body.                                                   *)
(***************************************************************************)

\* Faulty variant: a new attempt keeps the validators of the one before.
NewTxnKeepsChecks(t) ==
  /\ shadow' = [shadow EXCEPT ![t] = Empty]
  /\ writes' = [writes EXCEPT ![t] = Empty]
  /\ seen' = [seen EXCEPT ![t] = Empty]
  /\ leftOf' = [leftOf EXCEPT ![t] = FALSE]
  /\ ops' = [ops EXCEPT ![t] = 0]
  /\ UNCHANGED readVer

\* Txn::new(): every attempt starts from an empty log.  Also what is left when
\* commit returns and drops the log.
NewTxn(t) == /\ shadow' = [shadow EXCEPT ![t] = Empty]
             /\ readVer' = [readVer EXCEPT ![t] = NoVers]
             /\ writes' = [writes EXCEPT ![t] = Empty]
             /\ seen' = [seen EXCEPT ![t] = Empty]
             /\ leftOf' = [leftOf EXCEPT ![t] = FALSE]
             /\ ops' = [ops EXCEPT ![t] = 0]

\* The body goes on with one more operation.
Operate(t) == /\ pc[t] = "body"
              /\ ops[t] < MaxOps[t]
              /\ ops' = [ops EXCEPT ![t] = @ + 1]

\* commit(stm) is called.
Begin(t) == /\ pc[t] = "idle"
            /\ runs[t] < MaxTxns[t]
            /\ runs' = [runs EXCEPT ![t] = @ + 1]
            /\ pc' = [pc EXCEPT ![t] = "body"]
            /\ result' = [result EXCEPT ![t] = Running]
            /\ NewTxn(t)
            /\ UNCHANGED <<data, ver, lock, toCheck>>

\* The validator for r captures the live version, once per attempt.
EnsureValidated(t, r) ==
  readVer' = [readVer EXCEPT ![t][r] = IF @ = NoVer THEN ver[r] ELSE @]

\* TRef::read_stm of a cell without a shadow: the live value and version (both
\* under the cell's mutex) and a shadow copy.  A shadowed cell is read from the
\* shadow, which changes nothing.
ReadStm(t, r) ==
  /\ Operate(t)
  /\ shadow[t][r] = NoVal
  /\ EnsureValidated(t, r)
  /\ shadow' = [shadow EXCEPT ![t][r] = data[r]]
  /\ seen' = [seen EXCEPT ![t][r] = data[r]]
  /\ UNCHANGED <<data, ver, lock, pc, writes, toCheck, leftOf, runs, result>>

\* TRef::write_stm: a blind write still validates the version of its cell.
WriteStm(t, r, v) ==
  /\ Operate(t)
  /\ EnsureValidated(t, r)
  /\ shadow' = [shadow EXCEPT ![t][r] = v]
  /\ writes' = [writes EXCEPT ![t][r] = v]
  /\ UNCHANGED <<data, ver, lock, pc, toCheck, leftOf, runs, seen, result>>

\* TRef::update_stm and TRef::modify_stm: read_stm, then write_stm of what f
\* makes of the value read.  f is any function on values, so v is any value.
UpdateStm(t, r, v) ==
  /\ Operate(t)
  /\ EnsureValidated(t, r)
  /\ shadow' = [shadow EXCEPT ![t][r] = v]
  /\ seen' = [seen EXCEPT ![t][r] = IF shadow[t][r] = NoVal THEN data[r] ELSE @]
  /\ writes' = [writes EXCEPT ![t][r] = v]
  /\ UNCHANGED <<data, ver, lock, pc, toCheck, leftOf, runs, result>>

\* Stm::or_else starts its left branch.
OrElse(t) == /\ Operate(t)
             /\ ~leftOf[t]
             /\ leftOf' = [leftOf EXCEPT ![t] = TRUE]
             /\ UNCHANGED <<data, ver, lock, pc, log, toCheck, runs, result>>

\* Faulty variant: the log of a left branch that retried is thrown away, the
\* checks on what it read included.
LeftEndsForgets(t) ==
  /\ pc[t] = "body"
  /\ leftOf[t]
  /\ leftOf' = [leftOf EXCEPT ![t] = FALSE]
  /\ shadow' = [shadow EXCEPT ![t] = Empty]
  /\ readVer' = [readVer EXCEPT ![t] = NoVers]
  /\ writes' = [writes EXCEPT ![t] = Empty]
  /\ UNCHANGED <<data, ver, lock, pc, seen, toCheck, ops, runs, result>>

\* The left branch ended.  If it retried, or_else runs the right branch on the
\* same log, so what the left branch read and wrote stays in it.
LeftEnds(t) == /\ pc[t] = "body"
               /\ leftOf[t]
               /\ leftOf' = [leftOf EXCEPT ![t] = FALSE]
               /\ UNCHANGED <<data, ver, lock, pc, log, toCheck, ops, runs, result>>

\* Outcome::Retry reaches commit: yield and start over.
BodyRetry(t) == /\ pc[t] = "body"
                /\ ~leftOf[t]
                /\ NewTxn(t)
                /\ UNCHANGED <<data, ver, lock, pc, toCheck, runs, result>>

\* Outcome::Fail reaches commit: the error is returned; try_commit is not
\* called, so nothing the body read is validated.
BodyFail(t) ==
  /\ pc[t] = "body"
  /\ pc' = [pc EXCEPT ![t] = "idle"]
  /\ result' = [result EXCEPT ![t] = Idle]
  /\ NewTxn(t)
  /\ UNCHANGED <<data, ver, lock, toCheck, runs>>

\* Outcome::Done reaches commit, which calls try_commit.
BodyDone(t) == /\ pc[t] = "body"
               /\ pc' = [pc EXCEPT ![t] = "lock"]
               /\ leftOf' = [leftOf EXCEPT ![t] = FALSE]
               /\ ops' = [ops EXCEPT ![t] = 0]
               /\ UNCHANGED <<data, ver, lock, log, toCheck, runs, result>>

(***************************************************************************)
(* try_commit.                                                             *)
(***************************************************************************)

TakeLock(t) == /\ pc[t] = "lock"
               /\ lock = NoThread
               /\ lock' = t
               /\ pc' = [pc EXCEPT ![t] = "validate"]
               /\ toCheck' = [toCheck EXCEPT ![t] =
                                {r \in TRefs : readVer[t][r] # NoVer}]
               /\ UNCHANGED <<data, ver, log, leftOf, ops, runs, result>>

\* Faulty variant: a validator accepts a version one ahead of its own.
ValidateAlmost(t, r) ==
  /\ pc[t] = "validate"
  /\ r \in toCheck[t]
  /\ ver[r] =< readVer[t][r] + 1
  /\ toCheck' = [toCheck EXCEPT ![t] = @ \ {r}]
  /\ UNCHANGED <<data, ver, lock, pc, log, leftOf, ops, runs, result>>

\* One validator ran and found the version it captured.
ValidateOk(t, r) == /\ pc[t] = "validate"
                    /\ r \in toCheck[t]
                    /\ ver[r] = readVer[t][r]
                    /\ toCheck' = [toCheck EXCEPT ![t] = @ \ {r}]
                    /\ UNCHANGED <<data, ver, lock, pc, log, leftOf, ops, runs, result>>

\* One validator found another version: Err(()), the guard is dropped, commit
\* yields and starts a new attempt.
Conflict(t) == /\ pc[t] = "validate"
               /\ \E r \in toCheck[t] : ver[r] # readVer[t][r]
               /\ lock' = NoThread
               /\ pc' = [pc EXCEPT ![t] = "body"]
               /\ toCheck' = [toCheck EXCEPT ![t] = {}]
               /\ NewTxn(t)
               /\ UNCHANGED <<data, ver, runs, result>>

\* All validators passed: the point at which the transaction takes effect.
Validated(t) == /\ pc[t] = "validate"
                /\ toCheck[t] = {}
                /\ pc' = [pc EXCEPT ![t] = "apply"]
                /\ result' = [result EXCEPT ![t] = Committed(seen[t], writes[t])]
                /\ UNCHANGED <<data, ver, lock, log, toCheck, leftOf, ops, runs>>

\* The writes that remain, in the order of ids.sort_unstable().
Pending(t) == {r \in TRefs : writes[t][r] # NoVal}

\* Faulty variant: a write does not bump the version of its cell.
ApplyWriteUnversioned(t, r) ==
  /\ pc[t] = "apply"
  /\ r \in Pending(t)
  /\ \A q \in Pending(t) : r =< q
  /\ data' = [data EXCEPT ![r] = writes[t][r]]
  /\ writes' = [writes EXCEPT ![t][r] = NoVal]
  /\ UNCHANGED <<ver, lock, pc, shadow, readVer, toCheck, leftOf, ops, runs, seen,
                 result>>

\* One deferred write: store the value and bump the version, under the mutex
\* of the cell.
ApplyWrite(t, r) == /\ pc[t] = "apply"
                    /\ r \in Pending(t)
                    /\ \A q \in Pending(t) : r =< q
                    /\ data' = [data EXCEPT ![r] = writes[t][r]]
                    /\ ver' = [ver EXCEPT ![r] = @ + 1]
                    /\ writes' = [writes EXCEPT ![t][r] = NoVal]
                    /\ UNCHANGED <<lock, pc, shadow, readVer, toCheck, leftOf,
                                   ops, runs, seen, result>>

\* Ok(()): the guard is dropped and commit returns the value of the body.
Return(t) == /\ pc[t] = "apply"
             /\ Pending(t) = {}
             /\ lock' = NoThread
             /\ pc' = [pc EXCEPT ![t] = "idle"]
             /\ result' = [result EXCEPT ![t] = Idle]
             /\ NewTxn(t)
             /\ UNCHANGED <<data, ver, toCheck, runs>>

(***************************************************************************)
(* The specification.                                                      *)
(***************************************************************************)

BodyStep(t) == \/ \E r \in TRefs : ReadStm(t, r)
               \/ \E r \in TRefs, v \in Vals : WriteStm(t, r, v)
               \/ \E r \in TRefs, v \in Vals : UpdateStm(t, r, v)
               \/ OrElse(t)
               \/ LeftEnds(t)

BodyEnd(t) == BodyRetry(t) \/ BodyFail(t) \/ BodyDone(t)

TryCommit(t) == \/ TakeLock(t)
                \/ \E r \in TRefs : ValidateOk(t, r)
                \/ Conflict(t)
                \/ Validated(t)
                \/ \E r \in TRefs : ApplyWrite(t, r)
                \/ Return(t)

\* Every thread made all its calls.
Terminated == /\ \A t \in Threads : pc[t] = "idle" /\ runs[t] = MaxTxns[t]
              /\ UNCHANGED vars

Next == \/ \E t \in Threads : Begin(t) \/ BodyStep(t) \/ BodyEnd(t) \/ TryCommit(t)
        \/ Terminated

\* The operating system runs every thread that can run; nothing is assumed
\* about how the bodies choose between their outcomes.
Fairness == \A t \in Threads : WF_vars(TryCommit(t))

Spec == Init /\ [][Next]_vars /\ Fairness

(***************************************************************************)
(* What the specification implements, and its other properties.            *)
(***************************************************************************)

\* The store as other transactions will find it: once a transaction is
\* validated, its remaining writes count as done.
Mem == [r \in TRefs |->
          IF lock # NoThread /\ pc[lock] = "apply" /\ writes[lock][r] # NoVal
          THEN writes[lock][r]
          ELSE data[r]]

Atomic == INSTANCE StmAtomic WITH mem <- Mem, result <- result

\* Transactions are serializable: although bodies interleave with half-applied
\* commits, every transaction that commit returns Ok for behaves as if body,
\* validation and writes had happened in one step (stm/mod.rs, try_commit).
Serializable == Atomic!ASpec

\* The lock is held exactly while try_commit validates or applies.
LockInv == \A t \in Threads : pc[t] \in {"validate", "apply"} <=> lock = t

\* A cell has a shadow value exactly when it has a validator, and only cells
\* with a validator are read or written.
LogInv ==
  \A t \in Threads, r \in TRefs :
     /\ shadow[t][r] # NoVal <=> readVer[t][r] # NoVer
     /\ seen[t][r] # NoVal => readVer[t][r] # NoVer
     /\ writes[t][r] # NoVal => readVer[t][r] # NoVer

\* A version identifies a value: while the version a validator captured is
\* still the version of the cell, the value read is still in the cell.
VersionInv ==
  \A t \in Threads, r \in TRefs :
     pc[t] \in {"body", "lock", "validate"} =>
        /\ readVer[t][r] =< ver[r]
        /\ readVer[t][r] = ver[r] /\ seen[t][r] # NoVal => seen[t][r] = data[r]

\* What the validators established stays established until the lock is
\* released, so a transaction never applies writes computed from old values.
ValidatedInv ==
  \A t \in Threads : pc[t] = "validate" =>
     \A r \in TRefs \ toCheck[t] :
        readVer[t][r] # NoVer => readVer[t][r] = ver[r]

\* The observer's record of a call follows the call.
ResultInv ==
  \A t \in Threads :
     /\ pc[t] = "idle" => result[t] = Idle
     /\ pc[t] \in {"body", "lock", "validate"} => result[t] = Running
     /\ pc[t] = "apply" => result[t].status = "committed"

\* The inductive invariant: a commit takes effect atomically because versions
\* move only under the lock, and a validated version vouches for its value.
StmInv == TypeOK /\ LockInv /\ LogInv /\ VersionInv /\ ValidatedInv /\ ResultInv

==============================================================================
