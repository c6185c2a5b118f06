------------------------------ MODULE StmProofs ------------------------------
(***************************************************************************)
(* Proofs about Stm for any number of threads, cells, values and calls:    *)
(* StmInv is an invariant, and every transaction for which commit returns  *)
(* Ok is atomic (Stm implements StmAtomic); and about StmPrograms: what    *)
(* the structures that are built on cells keep.                            *)
(***************************************************************************)
EXTENDS StmPrograms, ProofLemmas

\* NoVer is not a version a cell can have.
LEMMA NoVerNotNat == NoVer \notin Nat /\ NoVer \in Int
  BY DEF NoVer

\* An empty log entry is a partial store with nothing in it.
LEMMA EmptyStore == /\ Empty \in PartialStore
                    /\ \A r \in TRefs : Empty[r] = NoVal
  BY DEF Empty, PartialStore

\* The observer's records of a call are results.
LEMMA ResultTypes == /\ Idle \in Results
                     /\ Running \in Results
                     /\ \A rs, ws \in PartialStore : Committed(rs, ws) \in Results
                     /\ Idle # Running
                     /\ \A rs, ws : /\ Committed(rs, ws).status = "committed"
                                    /\ Committed(rs, ws).reads = rs
                                    /\ Committed(rs, ws).writes = ws
  BY EmptyStore DEF Idle, Running, Committed, Results

\* The initial states satisfy the invariant.
LEMMA InitInv == Init => StmInv
<1> SUFFICES ASSUME Init PROVE StmInv
  OBVIOUS
<1> USE StmAssumption, EmptyStore, NoVerNotNat
<1>1. TypeOK
  BY ResultTypes DEF Init, TypeOK, PCs, NoVers
<1>2. LockInv
  BY DEF Init, LockInv
<1>3. LogInv
  BY DEF Init, LogInv, NoVers
<1>4. VersionInv /\ ValidatedInv /\ ResultInv
  BY DEF Init, VersionInv, ValidatedInv, ResultInv
<1> QED BY <1>1, <1>2, <1>3, <1>4 DEF StmInv

\* A new log is well formed and empty: what every start of an attempt needs.
LEMMA NewTxnInv ==
  ASSUME TypeOK, LogInv, NEW t \in Threads, NewTxn(t)
  PROVE  /\ shadow' \in [Threads -> PartialStore]
         /\ readVer' \in [Threads -> [TRefs -> Nat \cup {NoVer}]]
         /\ writes' \in [Threads -> PartialStore]
         /\ seen' \in [Threads -> PartialStore]
         /\ leftOf' \in [Threads -> BOOLEAN]
         /\ ops' \in [Threads -> Nat]
         /\ LogInv'
         /\ \A r \in TRefs : readVer'[t][r] = NoVer /\ seen'[t][r] = NoVal
         /\ \A u \in Threads \ {t} : /\ readVer'[u] = readVer[u]
                                     /\ seen'[u] = seen[u]
                                     /\ writes'[u] = writes[u]
  BY EmptyStore, NoVerNotNat DEF NewTxn, TypeOK, LogInv, NoVers

\* Every step of the body preserves the invariant.
LEMMA BodyInv ==
  ASSUME StmInv, NEW t \in Threads, BodyStep(t)
  PROVE  StmInv'
<1> USE StmAssumption, NoVerNotNat
<1> USE DEF StmInv
<1>1. ASSUME NEW r \in TRefs, ReadStm(t, r) PROVE StmInv'
  <2> USE <1>1 DEF ReadStm, Operate, EnsureValidated
  <2>1. TypeOK'
    BY DEF TypeOK, PartialStore
  <2>2. LockInv' /\ ResultInv'
    BY DEF LockInv, ResultInv
  <2>3. LogInv'
    BY DEF LogInv, TypeOK, PartialStore
  <2>4. VersionInv'
    BY DEF VersionInv, TypeOK, PartialStore, LogInv
  <2>5. ValidatedInv'
    BY DEF ValidatedInv, TypeOK
  <2> QED BY <2>1, <2>2, <2>3, <2>4, <2>5
<1>2. ASSUME NEW r \in TRefs, NEW v \in Vals, WriteStm(t, r, v) PROVE StmInv'
  <2> USE <1>2 DEF WriteStm, Operate, EnsureValidated
  <2>1. TypeOK'
    BY DEF TypeOK, PartialStore
  <2>2. LockInv' /\ ResultInv'
    BY DEF LockInv, ResultInv
  <2>3. LogInv'
    BY DEF LogInv, TypeOK, PartialStore
  <2>4. VersionInv'
    BY DEF VersionInv, TypeOK, PartialStore, LogInv
  <2>5. ValidatedInv'
    BY DEF ValidatedInv, TypeOK
  <2> QED BY <2>1, <2>2, <2>3, <2>4, <2>5
<1>3. ASSUME NEW r \in TRefs, NEW v \in Vals, UpdateStm(t, r, v) PROVE StmInv'
  <2> USE <1>3 DEF UpdateStm, Operate, EnsureValidated
  <2>1. TypeOK'
    BY DEF TypeOK, PartialStore
  <2>2. LockInv' /\ ResultInv'
    BY DEF LockInv, ResultInv
  <2>3. LogInv'
    BY DEF LogInv, TypeOK, PartialStore
  <2>4. VersionInv'
    BY DEF VersionInv, TypeOK, PartialStore, LogInv
  <2>5. ValidatedInv'
    BY DEF ValidatedInv, TypeOK
  <2> QED BY <2>1, <2>2, <2>3, <2>4, <2>5
<1>4. CASE OrElse(t) \/ LeftEnds(t)
  <2>1. /\ leftOf' \in [Threads -> BOOLEAN]
        /\ ops' \in [Threads -> Nat]
        /\ UNCHANGED <<data, ver, lock, pc, shadow, readVer, writes, toCheck,
                       runs, seen, result>>
    <3>1. CASE OrElse(t)
      BY <3>1 DEF OrElse, Operate, log, TypeOK
    <3>2. CASE LeftEnds(t)
      BY <3>2 DEF LeftEnds, log, TypeOK
    <3> QED BY <1>4, <3>1, <3>2
  <2>2. TypeOK'
    BY <2>1 DEF TypeOK
  <2>3. LockInv' /\ LogInv' /\ VersionInv' /\ ValidatedInv' /\ ResultInv'
    BY <2>1 DEF LockInv, ResultInv, LogInv, VersionInv, ValidatedInv
  <2> QED BY <2>2, <2>3
<1> QED BY <1>1, <1>2, <1>3, <1>4 DEF BodyStep

\* Starting a call and every way a body can end preserve the invariant.
LEMMA BodyEndsInv ==
  ASSUME StmInv, NEW t \in Threads, Begin(t) \/ BodyEnd(t)
  PROVE  StmInv'
<1> USE StmAssumption, NoVerNotNat, ResultTypes
<1> USE DEF StmInv
<1>1. CASE Begin(t) \/ BodyRetry(t) \/ BodyFail(t)
  <2>1. NewTxn(t)
    BY <1>1 DEF Begin, BodyRetry, BodyFail
  <2>2. /\ UNCHANGED <<data, ver, lock, toCheck>>
        /\ runs' \in [Threads -> Nat]
        /\ result' \in [Threads -> Results]
        /\ pc' \in [Threads -> PCs]
        /\ pc[t] \in {"idle", "body"} /\ pc'[t] \in {"idle", "body"}
        /\ pc'[t] = "body" => result'[t] = Running
        /\ pc'[t] = "idle" => result'[t] = Idle
        /\ \A u \in Threads \ {t} : pc'[u] = pc[u] /\ result'[u] = result[u]
    <3>1. CASE Begin(t)
      BY <3>1 DEF Begin, TypeOK, PCs
    <3>2. CASE BodyRetry(t)
      BY <3>2 DEF BodyRetry, TypeOK, PCs, ResultInv
    <3>3. CASE BodyFail(t)
      BY <3>3 DEF BodyFail, TypeOK, PCs
    <3> QED BY <1>1, <3>1, <3>2, <3>3
  <2>3. TypeOK'
    BY <2>1, <2>2, NewTxnInv DEF TypeOK
  <2>4. LockInv' /\ ResultInv'
    BY <2>2 DEF LockInv, ResultInv
  <2>5. LogInv' /\ \A u \in Threads, r \in TRefs :
                       IF u = t
                       THEN readVer'[u][r] = NoVer /\ seen'[u][r] = NoVal
                       ELSE readVer'[u] = readVer[u] /\ seen'[u] = seen[u]
    BY <2>1, NewTxnInv
  <2>6. VersionInv'
    <3> SUFFICES ASSUME NEW u \in Threads, NEW r \in TRefs,
                        pc'[u] \in {"body", "lock", "validate"}
                 PROVE  /\ readVer'[u][r] =< ver[r]
                        /\ readVer'[u][r] = ver[r] /\ seen'[u][r] # NoVal
                           => seen'[u][r] = data[r]
      BY <2>2 DEF VersionInv
    <3>1. CASE u = t
      <4>1. readVer'[u][r] = -1 /\ seen'[u][r] = NoVal
        BY <3>1, <2>5 DEF NoVer
      <4>2. ver[r] \in Nat
        BY DEF TypeOK
      <4> QED BY <4>1, <4>2
    <3>2. CASE u # t
      <4>1. readVer'[u] = readVer[u] /\ seen'[u] = seen[u]
        BY <3>2, <2>5
      <4>2. pc[u] \in {"body", "lock", "validate"}
        BY <3>2, <2>2
      <4> QED BY <4>1, <4>2 DEF VersionInv
    <3> QED BY <3>1, <3>2
  <2>7. ValidatedInv'
    <3> SUFFICES ASSUME NEW u \in Threads, pc'[u] = "validate",
                        NEW r \in TRefs \ toCheck[u], readVer'[u][r] # NoVer
                 PROVE  readVer'[u][r] = ver[r]
      BY <2>2 DEF ValidatedInv
    <3>1. u # t
      BY <2>2
    <3>2. readVer'[u] = readVer[u] /\ pc[u] = "validate"
      BY <2>2, <2>5, <3>1
    <3> QED BY <3>2 DEF ValidatedInv
  <2> QED BY <2>3, <2>4, <2>5, <2>6, <2>7
<1>2. CASE BodyDone(t)
  <2> USE <1>2 DEF BodyDone, log
  <2>1. TypeOK'
    BY DEF TypeOK, PCs
  <2>2. LockInv' /\ ResultInv'
    BY DEF LockInv, ResultInv, TypeOK
  <2>3. LogInv' /\ VersionInv' /\ ValidatedInv'
    BY DEF LogInv, VersionInv, ValidatedInv, TypeOK
  <2> QED BY <2>1, <2>2, <2>3
<1> QED BY <1>1, <1>2 DEF BodyEnd

\* Every step of try_commit preserves the invariant.  ApplyWrite is the one
\* step that changes live cells: it bumps the version with the value, and no
\* other thread can be validating or applying.
LEMMA TryCommitInv ==
  ASSUME StmInv, NEW t \in Threads, TryCommit(t)
  PROVE  StmInv'
<1> USE StmAssumption, NoVerNotNat, ResultTypes
<1> USE DEF StmInv
<1>1. CASE TakeLock(t)
  <2> USE <1>1 DEF TakeLock, log
  <2>1. TypeOK'
    BY DEF TypeOK, PCs
  <2>2. LockInv' /\ ResultInv'
    BY DEF LockInv, ResultInv, TypeOK
  <2>3. LogInv' /\ VersionInv'
    BY DEF LogInv, VersionInv, TypeOK
  <2>4. ValidatedInv'
    BY DEF ValidatedInv, TypeOK
  <2> QED BY <2>1, <2>2, <2>3, <2>4
<1>2. ASSUME NEW r \in TRefs, ValidateOk(t, r) PROVE StmInv'
  <2> USE <1>2 DEF ValidateOk, log
  <2>1. TypeOK'
    BY DEF TypeOK
  <2>2. LockInv' /\ ResultInv' /\ LogInv' /\ VersionInv'
    BY DEF LockInv, ResultInv, LogInv, VersionInv
  <2>3. ValidatedInv'
    <3> SUFFICES ASSUME NEW u \in Threads, pc[u] = "validate",
                        NEW q \in TRefs \ toCheck'[u], readVer[u][q] # NoVer
                 PROVE  readVer[u][q] = ver[q]
      BY DEF ValidatedInv
    <3>1. CASE u = t /\ q = r
      BY <3>1
    <3>2. CASE q \notin toCheck[u]
      BY <3>2 DEF ValidatedInv
    <3> QED BY <3>1, <3>2 DEF TypeOK
  <2> QED BY <2>1, <2>2, <2>3
<1>3. CASE Conflict(t)
  <2>1. NewTxn(t)
    BY <1>3 DEF Conflict
  <2>2. /\ UNCHANGED <<data, ver, runs, result>>
        /\ lock' = NoThread
        /\ pc' = [pc EXCEPT ![t] = "body"]
        /\ toCheck' = [toCheck EXCEPT ![t] = {}]
        /\ pc[t] = "validate"
    BY <1>3 DEF Conflict
  <2>3. TypeOK'
    BY <2>1, <2>2, NewTxnInv DEF TypeOK, PCs
  <2>4. LockInv' /\ ResultInv'
    BY <2>2 DEF LockInv, ResultInv, TypeOK
  <2>5. LogInv' /\ VersionInv'
    BY <2>1, <2>2, NewTxnInv DEF VersionInv, TypeOK
  <2>6. ValidatedInv'
    BY <2>1, <2>2, NewTxnInv DEF ValidatedInv, TypeOK
  <2> QED BY <2>3, <2>4, <2>5, <2>6
<1>4. CASE Validated(t)
  <2> USE <1>4 DEF Validated, log
  <2>1. TypeOK'
    BY DEF TypeOK, PCs
  <2>2. LockInv' /\ ResultInv'
    BY DEF LockInv, ResultInv, TypeOK
  <2>3. LogInv' /\ VersionInv' /\ ValidatedInv'
    BY DEF LogInv, VersionInv, ValidatedInv, TypeOK
  <2> QED BY <2>1, <2>2, <2>3
<1>5. ASSUME NEW r \in TRefs, ApplyWrite(t, r) PROVE StmInv'
  <2> USE <1>5 DEF ApplyWrite, Pending
  <2>1. TypeOK'
    BY DEF TypeOK, PartialStore
  <2>2. LockInv' /\ ResultInv'
    BY DEF LockInv, ResultInv
  <2>3. LogInv'
    BY DEF LogInv, TypeOK, PartialStore
  <2>4. VersionInv'
    <3> SUFFICES ASSUME NEW u \in Threads, NEW q \in TRefs,
                        pc[u] \in {"body", "lock", "validate"}
                 PROVE  /\ readVer[u][q] =< ver'[q]
                        /\ readVer[u][q] = ver'[q] /\ seen[u][q] # NoVal
                           => seen[u][q] = data'[q]
      BY DEF VersionInv
    <3>1. readVer[u][q] \in Int /\ ver[q] \in Int /\ readVer[u][q] =< ver[q]
      BY DEF VersionInv, TypeOK
    <3>2. CASE q = r
      <4>1. ver'[q] = ver[q] + 1
        BY <3>2 DEF TypeOK
      <4> QED BY <3>1, <4>1
    <3>3. CASE q # r
      <4>1. ver'[q] = ver[q] /\ data'[q] = data[q]
        BY <3>3 DEF TypeOK
      <4> QED BY <4>1 DEF VersionInv
    <3> QED BY <3>2, <3>3
  <2>5. ValidatedInv'
    BY DEF ValidatedInv, LockInv, TypeOK
  <2> QED BY <2>1, <2>2, <2>3, <2>4, <2>5
<1>6. CASE Return(t)
  <2>1. NewTxn(t)
    BY <1>6 DEF Return
  <2>2. /\ UNCHANGED <<data, ver, toCheck, runs>>
        /\ lock' = NoThread
        /\ pc' = [pc EXCEPT ![t] = "idle"]
        /\ result' = [result EXCEPT ![t] = Idle]
        /\ pc[t] = "apply"
    BY <1>6 DEF Return
  <2>3. TypeOK'
    BY <2>1, <2>2, NewTxnInv DEF TypeOK, PCs
  <2>4. LockInv' /\ ResultInv'
    BY <2>2 DEF LockInv, ResultInv, TypeOK
  <2>5. LogInv' /\ VersionInv'
    BY <2>1, <2>2, NewTxnInv DEF VersionInv, TypeOK
  <2>6. ValidatedInv'
    BY <2>1, <2>2, NewTxnInv DEF ValidatedInv, TypeOK
  <2> QED BY <2>3, <2>4, <2>5, <2>6
<1> QED BY <1>1, <1>2, <1>3, <1>4, <1>5, <1>6 DEF TryCommit

\* StmInv is inductive.
LEMMA StepInv == StmInv /\ [Next]_vars => StmInv'
<1> SUFFICES ASSUME StmInv, [Next]_vars PROVE StmInv'
  OBVIOUS
<1>1. ASSUME UNCHANGED vars PROVE StmInv'
  BY <1>1 DEF vars, StmInv, TypeOK, LockInv, LogInv, VersionInv, ValidatedInv,
              ResultInv
<1>2. ASSUME NEW t \in Threads,
             Begin(t) \/ BodyStep(t) \/ BodyEnd(t) \/ TryCommit(t)
      PROVE StmInv'
  BY <1>2, BodyInv, BodyEndsInv, TryCommitInv
<1> QED BY <1>1, <1>2 DEF Next, Terminated

\* The commit lock, the logs, the versions and the results always fit
\* together as StmInv says; in particular every variable has its type.
THEOREM StmInvariant == Spec => []StmInv
  BY InitInv, StepInv, PTL DEF Spec

(***************************************************************************)
(* Stm implements StmAtomic.                                               *)
(***************************************************************************)

\* Outside an application of writes, the abstract store is the live one.
LEMMA MemIsData ==
  /\ StmInv /\ (\A t \in Threads : pc[t] # "apply") => Mem = data
  /\ StmInv' /\ (\A t \in Threads : pc'[t] # "apply") => Mem' = data'
  BY StmAssumption DEF Mem, StmInv, TypeOK

\* While t applies its writes, the abstract store already has all of them.
LEMMA MemIsOverlay ==
  ASSUME NEW t \in Threads
  PROVE  /\ StmInv /\ pc[t] = "apply" => Mem = Overlay(data, writes[t])
         /\ StmInv' /\ pc'[t] = "apply" => Mem' = Overlay(data', writes'[t])
<1>1. StmInv /\ pc[t] = "apply" => lock = t
  BY DEF StmInv, LockInv
<1>2. StmInv' /\ pc'[t] = "apply" => lock' = t
  BY DEF StmInv, LockInv
<1> QED BY <1>1, <1>2, StmAssumption DEF Mem, Overlay, StmInv, TypeOK

\* An initial state is an initial state of the abstract specification.
LEMMA RefinesInit == Init => Atomic!AInit
  BY StmAssumption DEF Init, Mem, Atomic!AInit, Idle, Atomic!Idle, Empty, Atomic!Empty

\* A step that leaves the cells and the lock alone, and the writes of a thread
\* that is applying them, does not change the abstract store.
LEMMA MemUnchanged ==
  ASSUME StmInv, StmInv', data' = data, lock' = lock,
         \A u \in Threads : /\ pc'[u] = "apply" <=> pc[u] = "apply"
                            /\ pc[u] = "apply" => writes'[u] = writes[u]
  PROVE  Mem' = Mem
  BY StmAssumption DEF Mem, StmInv, TypeOK

\* A step of a body, or the start or the end of one, changes at most whether
\* the call is running.
LEMMA RefinesBody ==
  ASSUME StmInv, StmInv', NEW t \in Threads, Begin(t) \/ BodyStep(t) \/ BodyEnd(t)
  PROVE  Atomic!ANext \/ UNCHANGED Atomic!avars
<1> USE DEF StmInv
<1>1. CASE Begin(t) \/ BodyRetry(t) \/ BodyFail(t)
  <2>1. /\ data' = data /\ lock' = lock
        /\ pc[t] \in {"idle", "body"} /\ pc'[t] \in {"idle", "body"}
        /\ \A u \in Threads \ {t} : pc'[u] = pc[u] /\ writes'[u] = writes[u]
    BY <1>1 DEF Begin, BodyRetry, BodyFail, NewTxn, TypeOK
  <2>2. Mem' = Mem
    BY <2>1, MemUnchanged
  <2>3. CASE Begin(t)
    <3>1. Atomic!ABegin(t)
      BY <2>2, <2>3 DEF Begin, ResultInv, Atomic!ABegin, Idle, Atomic!Idle, Running,
                        Atomic!Running, Empty, Atomic!Empty
    <3> QED BY <3>1 DEF Atomic!ANext
  <2>4. CASE BodyRetry(t)
    BY <2>2, <2>4 DEF BodyRetry, Atomic!avars
  <2>5. CASE BodyFail(t)
    <3>1. Atomic!AFail(t)
      BY <2>2, <2>5 DEF BodyFail, ResultInv, Atomic!AFail, Idle, Atomic!Idle, Running,
                        Atomic!Running, Empty, Atomic!Empty
    <3> QED BY <3>1 DEF Atomic!ANext
  <2> QED BY <1>1, <2>3, <2>4, <2>5
<1>2. CASE BodyStep(t) \/ BodyDone(t)
  <2>1. /\ UNCHANGED <<data, lock, result>>
        /\ pc[t] = "body" /\ pc'[t] \in {"body", "lock"}
        /\ \A u \in Threads \ {t} : pc'[u] = pc[u] /\ writes'[u] = writes[u]
    <3>1. CASE BodyDone(t)
      BY <3>1 DEF BodyDone, TypeOK, log
    <3>2. CASE BodyStep(t)
      BY <3>2 DEF BodyStep, ReadStm, WriteStm, UpdateStm, OrElse, LeftEnds, Operate,
                  TypeOK, log
    <3> QED BY <1>2, <3>1, <3>2
  <2>2. Mem' = Mem
    BY <2>1, MemUnchanged
  <2> QED BY <2>1, <2>2 DEF Atomic!avars
<1> QED BY <1>1, <1>2 DEF BodyEnd

\* Passing the last validator is the transaction; the other steps of
\* try_commit are invisible, or return to the caller.
LEMMA RefinesTryCommit ==
  ASSUME StmInv, StmInv', NEW t \in Threads, TryCommit(t)
  PROVE  Atomic!ANext \/ UNCHANGED Atomic!avars
<1> USE StmAssumption
<1> USE DEF StmInv
<1>1. CASE TakeLock(t) \/ Conflict(t)
  <2>1. /\ data' = data /\ result' = result
        /\ \A u \in Threads : pc[u] # "apply" /\ pc'[u] # "apply"
    BY <1>1 DEF TakeLock, Conflict, LockInv, TypeOK
  <2>2. Mem' = Mem
    BY <2>1, MemIsData
  <2> QED BY <2>1, <2>2 DEF Atomic!avars
<1>2. ASSUME NEW r \in TRefs, ValidateOk(t, r)
      PROVE  UNCHANGED Atomic!avars
  <2>1. UNCHANGED <<data, lock, pc, writes, result>>
    BY <1>2 DEF ValidateOk, log
  <2>2. Mem' = Mem
    BY <2>1, MemUnchanged
  <2> QED BY <2>1, <2>2 DEF Atomic!avars
<1>3. CASE Validated(t)
  <2> USE <1>3 DEF Validated, log
  <2>1. Mem = data
    BY MemIsData DEF LockInv
  <2>2. pc'[t] = "apply" /\ writes' = writes /\ data' = data
    BY DEF TypeOK
  <2>3. Mem' = Overlay(data, writes[t])
    BY <2>2, MemIsOverlay
  <2>4. Agrees(seen[t], data)
    <3> SUFFICES ASSUME NEW r \in TRefs, seen[t][r] # NoVal
                 PROVE  seen[t][r] = data[r]
      BY DEF Agrees
    <3>1. readVer[t][r] # NoVer
      BY DEF LogInv
    <3>2. readVer[t][r] = ver[r]
      BY <3>1 DEF ValidatedInv
    <3> QED BY <3>2 DEF VersionInv
  <2>5. seen[t] \in PartialStore /\ writes[t] \in PartialStore
    BY DEF TypeOK
  <2>6. Atomic!ACommit(t)
    <3>1. result[t] = Atomic!Running
      BY DEF ResultInv, Running, Atomic!Running, Empty, Atomic!Empty
    <3>2. /\ result' = [result EXCEPT ![t] = Atomic!Committed(seen[t], writes[t])]
          /\ result'[t].status = "committed"
      BY DEF TypeOK, Committed, Atomic!Committed
    <3>3. /\ Atomic!Agrees(seen[t], Mem)
          /\ Mem' = Atomic!Overlay(Mem, writes[t])
      BY <2>1, <2>3, <2>4 DEF Agrees, Atomic!Agrees, Overlay, Atomic!Overlay
    <3>4. /\ seen[t] \in Atomic!PartialStore
          /\ writes[t] \in Atomic!PartialStore
      BY <2>5 DEF PartialStore, Atomic!PartialStore
    <3> HIDE <1>3 DEF Validated
    <3> QED BY <3>1, <3>2, <3>3, <3>4 DEF Atomic!ACommit
  <2> QED BY <2>6 DEF Atomic!ANext
<1>4. ASSUME NEW r \in TRefs, ApplyWrite(t, r)
      PROVE  UNCHANGED Atomic!avars
  <2> USE <1>4 DEF ApplyWrite, Pending
  <2>1. Mem = Overlay(data, writes[t]) /\ Mem' = Overlay(data', writes'[t])
    BY MemIsOverlay
  <2>2. Overlay(data', writes'[t]) = Overlay(data, writes[t])
    BY DEF Overlay, TypeOK, PartialStore
  <2> QED BY <2>1, <2>2 DEF Atomic!avars
<1>5. CASE Return(t)
  <2>1. Mem = data
    <3>1. Mem = Overlay(data, writes[t])
      BY <1>5, MemIsOverlay DEF Return
    <3>2. \A r \in TRefs : writes[t][r] = NoVal
      BY <1>5 DEF Return, Pending
    <3>3. data \in [TRefs -> Vals]
      BY DEF TypeOK
    <3> QED BY <3>1, <3>2, <3>3 DEF Overlay
  <2>2. data' = data /\ \A u \in Threads : pc'[u] # "apply"
    BY <1>5 DEF Return, LockInv, TypeOK
  <2>3. Mem' = data
    BY <2>2, MemIsData
  <2>4. Atomic!AReturn(t)
    BY <1>5, <2>1, <2>3 DEF Return, ResultInv, Atomic!AReturn, Idle, Atomic!Idle,
                            Empty, Atomic!Empty
  <2> QED BY <2>4 DEF Atomic!ANext
<1> QED BY <1>1, <1>2, <1>3, <1>4, <1>5 DEF TryCommit

\* Every step of Stm is a step of StmAtomic or leaves its state alone.
LEMMA RefinesStep ==
  StmInv /\ StmInv' /\ [Next]_vars => [Atomic!ANext]_(Atomic!avars)
<1> SUFFICES ASSUME StmInv, StmInv', [Next]_vars
             PROVE  Atomic!ANext \/ UNCHANGED Atomic!avars
  OBVIOUS
<1>1. ASSUME UNCHANGED vars PROVE UNCHANGED Atomic!avars
  BY <1>1 DEF vars, Mem, Atomic!avars
<1> QED BY <1>1, RefinesBody, RefinesTryCommit DEF Next, Terminated

\* Transactions are serializable: a transaction for which commit returns Ok
\* reads, checks and writes as if in one step, whatever bodies and commits of
\* other threads it interleaves with.
THEOREM StmSerializable == Spec => Serializable
<1>1. Init => Atomic!AInit
  BY RefinesInit
<1>2. Spec => []StmInv
  BY StmInvariant
<1>3. StmInv /\ StmInv' /\ [Next]_vars => [Atomic!ANext]_(Atomic!avars)
  BY RefinesStep
<1> QED BY <1>1, <1>2, <1>3, PTL DEF Spec, Serializable, Atomic!ASpec

(***************************************************************************)
(* Programs over queues, a semaphore and a map.                            *)
(***************************************************************************)

\* Contents that structure r can have.
Fits(r, c) == /\ c \in Seq(Nat)
              /\ r = Sem => Len(c) = 1
              /\ r = Map => DOMAIN c = DOMAIN InitVal[Map]

\* Calls are calls of the program, and cells and logs hold what their structures can have.
ProgramsTyped ==
  /\ at \in [Threads -> Nat \ {0}]
  /\ offered \in [Queues -> Seq(Nat)] /\ taken \in [Queues -> Seq(Nat)]
  /\ \A t \in Threads : runs[t] =< MaxTxns[t] /\ (pc[t] # "idle" => runs[t] # 0)
  /\ \A r \in TRefs : Fits(r, data[r])
  /\ \A t \in Threads, r \in TRefs :
        /\ seen[t][r] # NoVal => Fits(r, seen[t][r])
        /\ shadow[t][r] # NoVal => Fits(r, shadow[t][r])
        /\ writes[t][r] # NoVal => Fits(r, writes[t][r])

\* Operation o, applied to c, made w the contents to be written, or nothing.
Made(o, c, w) ==
  /\ c # NoVal
  /\ \/ Outcome(o, c).kind = "write" /\ w = Outcome(o, c).next
     \/ Outcome(o, c).kind = "keep" /\ w = NoVal

\* The log of an attempt is what the operations so far made of what they saw.
LogMade(t) ==
  /\ at[t] =< Len(Body(t)) + 1
  /\ \A r \in TRefs :
        /\ shadow[t][r] = IF writes[t][r] # NoVal THEN writes[t][r] ELSE seen[t][r]
        /\ writes[t][r] # NoVal =>
             \E j \in 1..(at[t] - 1) : Body(t)[j].ref = r /\ Changes(Body(t)[j])
  /\ \A j \in 1..(at[t] - 1) :
        LET o == Body(t)[j]
        IN  Changes(o) => Made(o, seen[t][o.ref], writes[t][o.ref])

LogsMade ==
  \A t \in Threads : /\ pc[t] \in {"body", "lock", "validate"} => LogMade(t)
                     /\ pc[t] \in {"lock", "validate"} => at[t] = Len(Body(t)) + 1

\* The calls of t that have taken effect, and the key of t.
Effective(t) == IF pc[t] \in {"idle", "apply"} THEN runs[t] ELSE runs[t] - 1
KeyOf(t, k) == \E i \in 1..MaxTxns[t] : \E o \in OpsIn(t, i) :
                  o.op \in {"set", "delete"} /\ o.key = k

\* A key is there exactly while its thread has a permit.
KeysThere ==
  \A k \in DOMAIN InitVal[Map] :
     Mem[Map][k] # Absent <=> \E t \in Threads : KeyOf(t, k) /\ Inside(t, Effective(t))

\* The inductive invariant of the programs.
StoreMade == (\A r \in TRefs : Fits(r, Mem[r])) /\ KeysThere /\ ProgramsInv
ProgramsIInv == StmInv /\ ProgramsTyped /\ LogsMade /\ StoreMade

\* The programs' constants.
LEMMA ProgramsConstants ==
  /\ Queues \subseteq TRefs /\ Sem \in TRefs \ Queues /\ Map \in TRefs \ Queues /\ Sem # Map
  /\ Cap \in Nat /\ NoVal \notin Seq(Nat) /\ InitVal \in [TRefs -> Seq(Nat)]
  /\ MaxTxns \in [Threads -> Nat]
BY StmAssumption, ProgramsAssumption

\* Structures stay what they are: what an operation writes fits, and is no NoVal.
LEMMA OutcomeFits ==
  ASSUME NEW o, WellFormed(o), NEW c, Fits(o.ref, c)
  PROVE  /\ Outcome(o, c).kind \in {"write", "keep", "retry"}
         /\ Outcome(o, c).kind = "write" => Fits(o.ref, Outcome(o, c).next)
         /\ ~Changes(o) => Outcome(o, c).kind = "keep"
<1> USE ProgramsConstants DEF Fits, Write, Keep, Retry, Changes
<1>1. CASE o.op = "offer"
  <2>1. Outcome(o, c) = Offer(c, o.val) BY <1>1 DEF Outcome
  <2>2. o.val \in Nat /\ o.ref \in Queues BY <1>1 DEF WellFormed
  <2>3. QED BY <1>1, <2>1, <2>2 DEF Offer
<1>2. CASE o.op = "take"
  <2>1. Outcome(o, c) = Take(c) BY <1>2 DEF Outcome
  <2>2. o.ref \in Queues BY <1>2 DEF WellFormed
  <2>3. c # <<>> => Tail(c) \in Seq(Nat) OBVIOUS
  <2>4. QED BY <1>2, <2>1, <2>2, <2>3 DEF Take
<1>3. CASE o.op = "acquire"
  <2>1. Outcome(o, c) = Acquire(c) BY <1>3 DEF Outcome
  <2>2. o.ref = Sem /\ c[1] \in Nat BY <1>3 DEF WellFormed
  <2>3. c[1] # 0 => c[1] - 1 \in Nat BY <2>2
  <2>4. QED BY <1>3, <2>1, <2>2, <2>3 DEF Acquire
<1>4. CASE o.op = "release"
  <2>1. Outcome(o, c) = Release(c) BY <1>4 DEF Outcome
  <2>2. o.ref = Sem /\ c[1] \in Nat BY <1>4 DEF WellFormed
  <2>3. QED BY <1>4, <2>1, <2>2 DEF Release
<1>5. CASE o.op = "get"
  <2>1. Outcome(o, c) = Get(c, o.key) BY <1>5 DEF Outcome
  <2>2. QED BY <1>5, <2>1 DEF Get
<1>6. CASE o.op = "set"
  <2>1. Outcome(o, c) = Set(c, o.key, o.val) BY <1>6 DEF Outcome
  <2>2. o.ref = Map /\ o.key \in DOMAIN c /\ o.val \in Nat BY <1>6 DEF WellFormed
  <2>3. [c EXCEPT ![o.key] = o.val] \in Seq(Nat) BY <2>2
  <2>4. QED BY <1>6, <2>1, <2>2, <2>3 DEF Set
<1>7. CASE o.op = "delete"
  <2>1. Outcome(o, c) = Delete(c, o.key) BY <1>7 DEF Outcome
  <2>2. o.ref = Map /\ o.key \in DOMAIN c BY <1>7 DEF WellFormed
  <2>3. [c EXCEPT ![o.key] = Absent] \in Seq(Nat) BY <2>2 DEF Absent
  <2>4. QED BY <1>7, <2>1, <2>2, <2>3 DEF Delete
<1>8. QED BY <1>1, <1>2, <1>3, <1>4, <1>5, <1>6, <1>7 DEF WellFormed

\* The body of a call that has begun.
LEMMA BodyOf ==
  ASSUME ProgramsIInv, NEW t \in Threads, pc[t] # "idle"
  PROVE  /\ runs[t] \in 1..MaxTxns[t] /\ Len(Body(t)) \in Nat
         /\ OpsIn(t, runs[t]) = {Body(t)[j] : j \in 1..Len(Body(t))}
         /\ \A j \in 1..Len(Body(t)) : WellFormed(Body(t)[j]) /\ Body(t)[j].ref \in TRefs
         /\ \A j, l \in 1..Len(Body(t)) :
               /\ Changes(Body(t)[j]) /\ Changes(Body(t)[l])
               /\ Body(t)[j].ref = Body(t)[l].ref
               => j = l
<1>1. runs[t] \in 1..MaxTxns[t]
  BY ProgramsConstants DEF ProgramsIInv, ProgramsTyped, StmInv, TypeOK
<1>2. OpsIn(t, runs[t]) = {Body(t)[j] : j \in 1..Len(Body(t))} BY DEF OpsIn, Body
<1>3. /\ Len(Body(t)) \in Nat /\ \A o \in OpsIn(t, runs[t]) : WellFormed(o)
      /\ \A j, l \in 1..Len(Body(t)) :
            /\ Changes(Body(t)[j]) /\ Changes(Body(t)[l])
            /\ Body(t)[j].ref = Body(t)[l].ref
            => j = l
  BY <1>1, ProgramsAssumption DEF Body
<1>4. \A j \in 1..Len(Body(t)) : WellFormed(Body(t)[j]) BY <1>2, <1>3
<1>5. \A j \in 1..Len(Body(t)) : Body(t)[j].ref \in TRefs
  BY <1>4, ProgramsConstants DEF WellFormed
<1>6. QED BY <1>1, <1>2, <1>3, <1>4, <1>5

\* What read_stm returns in a body fits.
LEMMA CurrentFits ==
  ASSUME ProgramsIInv, NEW t \in Threads, NEW r \in TRefs
  PROVE  Fits(r, Current(t, r))
BY DEF ProgramsIInv, ProgramsTyped, Current

\* The operation that a body is at.
LEMMA OperationAt ==
  ASSUME ProgramsIInv, NEW t \in Threads, Operation(t)
  PROVE  \E o :
           /\ o = Body(t)[at[t]] /\ at[t] \in 1..Len(Body(t)) /\ WellFormed(o) /\ o.ref \in TRefs
           /\ pc[t] = "body" /\ UNCHANGED <<offered, taken>>
           /\ LET out == Outcome(o, Current(t, o.ref))
              IN  \/ /\ out.kind = "write" /\ Changes(o)
                     /\ out.next \in Vals /\ out.next # NoVal /\ Fits(o.ref, out.next)
                     /\ UpdateStm(t, o.ref, out.next)
                     /\ at' = [at EXCEPT ![t] = @ + 1]
                  \/ /\ out.kind = "keep"
                     /\ ReadStm(t, o.ref) \/ (shadow[t][o.ref] # NoVal /\ UNCHANGED vars)
                     /\ at' = [at EXCEPT ![t] = @ + 1]
                  \/ BodyRetry(t) /\ Restart(t)
<1>1. pc[t] = "body" /\ at[t] =< Len(Body(t)) BY DEF Operation
<1>2. at[t] \in 1..Len(Body(t)) BY <1>1, BodyOf DEF ProgramsIInv, ProgramsTyped
<1>3. PICK o : o = Body(t)[at[t]] OBVIOUS
<1>4. WellFormed(o) /\ o.ref \in TRefs BY <1>1, <1>2, <1>3, BodyOf
<1>5. PICK out : out = Outcome(o, Current(t, o.ref)) OBVIOUS
<1>6. /\ UNCHANGED <<offered, taken>>
      /\ \/ /\ out.kind = "write"
            /\ UpdateStm(t, o.ref, out.next)
            /\ at' = [at EXCEPT ![t] = @ + 1]
         \/ /\ out.kind = "keep"
            /\ ReadStm(t, o.ref) \/ (shadow[t][o.ref] # NoVal /\ UNCHANGED vars)
            /\ at' = [at EXCEPT ![t] = @ + 1]
         \/ BodyRetry(t) /\ Restart(t)
  BY <1>3, <1>5 DEF Operation
<1>7. out.kind = "write" => Fits(o.ref, out.next) /\ Changes(o)
  <2>1. Fits(o.ref, Current(t, o.ref)) BY <1>4, CurrentFits
  <2>2. QED BY <1>4, <1>5, <2>1, OutcomeFits
<1>8. out.kind = "write" => out.next \in Vals /\ out.next # NoVal
  BY <1>7, ProgramsConstants, ProgramsAssumption DEF Fits
<1>9. QED BY <1>1, <1>2, <1>3, <1>4, <1>5, <1>6, <1>7, <1>8

\* The programs take the steps of Stm.
LEMMA ProgramsStep == ProgramsIInv /\ [PNext]_pvars => [Next]_vars
<1> SUFFICES ASSUME ProgramsIInv, PNext PROVE [Next]_vars BY DEF pvars
<1>1. ASSUME NEW t \in Threads, Operation(t) PROVE [Next]_vars
  <2>1. \/ \E r \in TRefs : ReadStm(t, r)
        \/ \E r \in TRefs, v \in Vals : UpdateStm(t, r, v)
        \/ BodyRetry(t) \/ UNCHANGED vars
    BY <1>1, OperationAt
  <2>2. QED BY <2>1 DEF Next, BodyStep, BodyEnd
<1>2. ASSUME NEW t \in Threads, PBegin(t) \/ PBodyDone(t) \/ PTryCommit(t) \/ PValidated(t)
      PROVE  [Next]_vars
  BY <1>2 DEF PBegin, PBodyDone, PTryCommit, PValidated, Next, BodyEnd, TryCommit
<1>3. QED BY <1>1, <1>2 DEF PNext, Step, Next

\* Only passing the last validator changes the abstract store.
LEMMA MemSame ==
  ASSUME StmInv, StmInv', NEW t \in Threads,
         \/ Begin(t) \/ BodyStep(t) \/ BodyEnd(t) \/ TakeLock(t) \/ Conflict(t)
         \/ (\E r \in TRefs : ValidateOk(t, r) \/ ApplyWrite(t, r)) \/ Return(t)
         \/ UNCHANGED vars
  PROVE  Mem' = Mem
<1> USE StmAssumption
<1> USE DEF StmInv
<1>1. CASE Begin(t) \/ BodyEnd(t) \/ BodyStep(t)
  <2>1. CASE Begin(t) \/ BodyRetry(t) \/ BodyFail(t)
    <3>1. /\ data' = data /\ lock' = lock
          /\ pc[t] \in {"idle", "body"} /\ pc'[t] \in {"idle", "body"}
          /\ \A u \in Threads \ {t} : pc'[u] = pc[u] /\ writes'[u] = writes[u]
      BY <2>1 DEF Begin, BodyRetry, BodyFail, NewTxn, TypeOK
    <3>2. QED BY <3>1, MemUnchanged
  <2>2. CASE BodyDone(t)
    <3>1. /\ data' = data /\ lock' = lock /\ writes' = writes
          /\ pc[t] = "body" /\ pc'[t] = "lock" /\ \A u \in Threads \ {t} : pc'[u] = pc[u]
      BY <2>2 DEF BodyDone, TypeOK, log
    <3>2. QED BY <3>1, MemUnchanged
  <2>3. CASE BodyStep(t)
    <3>1. /\ data' = data /\ lock' = lock /\ pc' = pc /\ pc[t] = "body"
          /\ \A u \in Threads \ {t} : writes'[u] = writes[u]
      BY <2>3 DEF BodyStep, ReadStm, WriteStm, UpdateStm, OrElse, LeftEnds, Operate, TypeOK, log
    <3>2. QED BY <3>1, MemUnchanged
  <2>4. QED BY <1>1, <2>1, <2>2, <2>3 DEF BodyEnd
<1>2. CASE TakeLock(t) \/ Conflict(t)
  <2>1. data' = data /\ \A u \in Threads : pc[u] # "apply" /\ pc'[u] # "apply"
    BY <1>2 DEF TakeLock, Conflict, LockInv, TypeOK
  <2>2. QED BY <2>1, MemIsData
<1>3. ASSUME NEW r \in TRefs, ValidateOk(t, r) PROVE Mem' = Mem
  <2>1. UNCHANGED <<data, lock, pc, writes>> BY <1>3 DEF ValidateOk, log
  <2>2. QED BY <2>1, MemUnchanged
<1>4. ASSUME NEW r \in TRefs, ApplyWrite(t, r) PROVE Mem' = Mem
  <2> USE <1>4 DEF ApplyWrite, Pending
  <2>1. Mem = Overlay(data, writes[t]) /\ Mem' = Overlay(data', writes'[t]) BY MemIsOverlay
  <2>2. Overlay(data', writes'[t]) = Overlay(data, writes[t]) BY DEF Overlay, TypeOK, PartialStore
  <2>3. QED BY <2>1, <2>2
<1>5. CASE Return(t)
  <2>1. Mem = Overlay(data, writes[t]) BY <1>5, MemIsOverlay DEF Return
  <2>2. \A r \in TRefs : writes[t][r] = NoVal BY <1>5 DEF Return, Pending
  <2>3. data \in [TRefs -> Vals] BY DEF TypeOK
  <2>4. Mem = data BY <2>1, <2>2, <2>3 DEF Overlay
  <2>5. data' = data /\ \A u \in Threads : pc'[u] # "apply" BY <1>5 DEF Return, LockInv, TypeOK
  <2>6. QED BY <2>4, <2>5, MemIsData
<1>6. CASE UNCHANGED vars BY <1>6 DEF vars, Mem
<1>7. QED BY <1>1, <1>2, <1>3, <1>4, <1>5, <1>6

\* A transaction that passes its last validator saw the store as it is, and its writes
\* take effect.
LEMMA MemCommits ==
  ASSUME StmInv, StmInv', NEW t \in Threads, Validated(t)
  PROVE  /\ Mem = data /\ Mem' = Overlay(Mem, writes[t]) /\ Agrees(seen[t], Mem)
<1> USE StmAssumption DEF StmInv, Validated, log
<1>1. Mem = data BY MemIsData DEF LockInv
<1>2. pc'[t] = "apply" /\ writes' = writes /\ data' = data BY DEF TypeOK
<1>3. Mem' = Overlay(data, writes[t]) BY <1>2, MemIsOverlay
<1>4. ASSUME NEW r \in TRefs, seen[t][r] # NoVal PROVE seen[t][r] = data[r]
  <2>1. readVer[t][r] # NoVer BY <1>4 DEF LogInv
  <2>2. readVer[t][r] = ver[r] BY <2>1 DEF ValidatedInv
  <2>3. QED BY <1>4, <2>2 DEF VersionInv
<1>5. QED BY <1>1, <1>3, <1>4 DEF Agrees

\* It holds at the start.
LEMMA ProgramsInitOk == PInit => ProgramsIInv
<1> SUFFICES ASSUME PInit PROVE ProgramsIInv OBVIOUS
<1> USE ProgramsConstants
<1>1. StmInv BY InitInv DEF PInit
<1>2. /\ \A r \in TRefs : InitVal[r] \in Seq(Nat)
      /\ Len(InitVal[Sem]) = 1 /\ \A q \in Queues : InitVal[q] = <<>>
      /\ \A k \in DOMAIN InitVal[Map] : InitVal[Map][k] = Absent
  BY ProgramsAssumption
<1>3. \A r \in TRefs : Fits(r, InitVal[r]) BY <1>2 DEF Fits
<1>4. /\ data = InitVal /\ lock = NoThread
      /\ \A t \in Threads : pc[t] = "idle" /\ runs[t] = 0
      /\ \A t \in Threads, r \in TRefs :
            seen[t][r] = NoVal /\ shadow[t][r] = NoVal /\ writes[t][r] = NoVal
  BY EmptyStore DEF PInit, Init
<1>5. ProgramsTyped
  BY <1>2, <1>3, <1>4 DEF PInit, ProgramsTyped
<1>6. LogsMade BY <1>4 DEF LogsMade
<1>7. Mem = InitVal BY <1>4 DEF Mem
<1>8. KeysThere
  <2>1. \A t \in Threads : Effective(t) = 0 BY <1>4 DEF Effective
  <2>2. 1..0 = {} OBVIOUS
  <2>3. \A t \in Threads : ~Inside(t, Effective(t)) BY <2>1, <2>2, Zenon DEF Inside
  <2>4. QED BY <1>2, <1>7, <2>3 DEF KeysThere
<1>9. QueuesAreFifo
  <2>1. \A q \in Queues : offered[q] = <<>> /\ taken[q] = <<>> /\ Mem[q] = <<>>
    BY <1>2, <1>7 DEF PInit
  <2>2. <<>> \o <<>> = <<>> /\ Len(<<>>) = 0 BY EmptyLine
  <2>3. 0 =< Cap OBVIOUS
  <2>4. ASSUME NEW q \in Queues PROVE offered[q] = taken[q] \o Mem[q] /\ Len(Mem[q]) =< Cap
    BY <2>1, <2>2, <2>3, Zenon
  <2>5. QED BY <2>4 DEF QueuesAreFifo
<1>10. PermitsMatchMap
  <2>1. Registered = {} BY <1>2, <1>7 DEF Registered
  <2>2. Cardinality(Registered) = 0 BY <2>1, FS_EmptySet
  <2>3. Mem[Sem] \in Seq(Nat) /\ Len(Mem[Sem]) = 1 BY <1>2, <1>7
  <2>4. Mem[Sem][1] \in Nat BY <2>3
  <2>5. QED BY <1>7, <2>2, <2>4 DEF PermitsMatchMap
<1>11. QED BY <1>1, <1>3, <1>5, <1>6, <1>7, <1>8, <1>9, <1>10 DEF ProgramsIInv, StoreMade, ProgramsInv

\* Thread u is left alone.
LeftAlone(u) == /\ pc'[u] = pc[u] /\ at'[u] = at[u] /\ runs'[u] = runs[u]
                /\ shadow'[u] = shadow[u] /\ seen'[u] = seen[u] /\ writes'[u] = writes[u]

\* A step of one thread that is not the one at which its transaction takes effect.
LEMMA ProgramsKeep ==
  ASSUME ProgramsIInv, StmInv', NEW t \in Threads, \A u \in Threads \ {t} : LeftAlone(u),
         at' \in [Threads -> Nat \ {0}], UNCHANGED <<offered, taken>>,
         runs'[t] =< MaxTxns[t], pc'[t] # "idle" => runs'[t] # 0,
         \A r \in TRefs : /\ Fits(r, data'[r])
                          /\ seen'[t][r] # NoVal => Fits(r, seen'[t][r])
                          /\ shadow'[t][r] # NoVal => Fits(r, shadow'[t][r])
                          /\ writes'[t][r] # NoVal => Fits(r, writes'[t][r]),
         pc'[t] \in {"body", "lock", "validate"} => LogMade(t)',
         pc'[t] \in {"lock", "validate"} => at'[t] = Len(Body(t)') + 1,
         Mem' = Mem, Effective(t)' = Effective(t)
  PROVE  ProgramsIInv'
<1> USE DEF LeftAlone
<1>1. ProgramsTyped'
  <2>1. offered' \in [Queues -> Seq(Nat)] /\ taken' \in [Queues -> Seq(Nat)]
    BY DEF ProgramsIInv, ProgramsTyped
  <2>2. ASSUME NEW u \in Threads
        PROVE  /\ runs'[u] =< MaxTxns[u] /\ (pc'[u] # "idle" => runs'[u] # 0)
               /\ \A r \in TRefs : /\ seen'[u][r] # NoVal => Fits(r, seen'[u][r])
                                   /\ shadow'[u][r] # NoVal => Fits(r, shadow'[u][r])
                                   /\ writes'[u][r] # NoVal => Fits(r, writes'[u][r])
    <3>1. CASE u = t BY <3>1
    <3>2. CASE u # t BY <3>2 DEF ProgramsIInv, ProgramsTyped
    <3>3. QED BY <3>1, <3>2
  <2>3. QED BY <2>1, <2>2 DEF ProgramsTyped, Fits
<1>2. LogsMade'
  <2>1. ASSUME NEW u \in Threads \ {t}
        PROVE  /\ pc'[u] \in {"body", "lock", "validate"} => LogMade(u)'
               /\ pc'[u] \in {"lock", "validate"} => at'[u] = Len(Body(u)') + 1
    <3>1. LeftAlone(u) OBVIOUS
    <3>2. Body(u)' = Body(u) BY <3>1 DEF Body
    <3>3. LogMade(u) => LogMade(u)' BY <3>1, <3>2 DEF LogMade
    <3>4. QED BY <3>1, <3>2, <3>3 DEF ProgramsIInv, LogsMade
  <2>2. QED BY <2>1 DEF LogsMade
<1>3. StoreMade'
  <2>1. \A u \in Threads : Effective(u)' = Effective(u) BY DEF Effective
  <2>2. KeysThere' BY <2>1 DEF ProgramsIInv, StoreMade, KeysThere, KeyOf, Inside
  <2>3. ProgramsInv'
    BY DEF ProgramsIInv, StoreMade, ProgramsInv, QueuesAreFifo, PermitsMatchMap, Registered
  <2>4. \A r \in TRefs : Fits(r, Mem'[r]) BY DEF ProgramsIInv, StoreMade
  <2>5. QED BY <2>2, <2>3, <2>4 DEF StoreMade, Fits
<1>4. QED BY <1>1, <1>2, <1>3 DEF ProgramsIInv

\* A new attempt has an empty log.
LEMMA NewAttempt ==
  ASSUME ProgramsIInv, NEW t \in Threads, NewTxn(t)
  PROVE  /\ \A r \in TRefs : seen'[t][r] = NoVal /\ shadow'[t][r] = NoVal /\ writes'[t][r] = NoVal
         /\ \A u \in Threads \ {t} :
               shadow'[u] = shadow[u] /\ seen'[u] = seen[u] /\ writes'[u] = writes[u]
         /\ runs'[t] \in 1..MaxTxns[t] /\ at'[t] = 1 => LogMade(t)'
<1>1. /\ shadow'[t] = Empty /\ writes'[t] = Empty /\ seen'[t] = Empty
      /\ \A u \in Threads \ {t} :
            shadow'[u] = shadow[u] /\ seen'[u] = seen[u] /\ writes'[u] = writes[u]
  BY DEF NewTxn, ProgramsIInv, StmInv, TypeOK
<1>2. \A r \in TRefs : seen'[t][r] = NoVal /\ shadow'[t][r] = NoVal /\ writes'[t][r] = NoVal
  BY <1>1, EmptyStore
<1>3. ASSUME runs'[t] \in 1..MaxTxns[t], at'[t] = 1 PROVE LogMade(t)'
  <2>1. Len(Body(t)') \in Nat BY <1>3, ProgramsAssumption DEF Body
  <2>2. 1..(at'[t] - 1) = {} BY <1>3
  <2>3. at'[t] =< Len(Body(t)') + 1 BY <1>3, <2>1
  <2>4. QED BY <1>2, <2>2, <2>3 DEF LogMade
<1>4. QED BY <1>1, <1>2, <1>3

\* commit is called.
LEMMA PBeginOk == ASSUME ProgramsIInv, StmInv', NEW t \in Threads, PBegin(t) PROVE ProgramsIInv'
<1>1. /\ Begin(t) /\ Restart(t) /\ UNCHANGED <<offered, taken>> BY DEF PBegin
<1>2. /\ at \in [Threads -> Nat \ {0}] /\ runs \in [Threads -> Nat] /\ pc \in [Threads -> PCs]
      /\ MaxTxns \in [Threads -> Nat] /\ \A r \in TRefs : Fits(r, data[r])
  BY ProgramsConstants DEF ProgramsIInv, ProgramsTyped, StmInv, TypeOK
<1>3. /\ pc[t] = "idle" /\ runs[t] < MaxTxns[t] /\ NewTxn(t) /\ data' = data
      /\ pc' = [pc EXCEPT ![t] = "body"] /\ runs' = [runs EXCEPT ![t] = @ + 1]
      /\ at' = [at EXCEPT ![t] = 1]
  BY <1>1 DEF Begin, Restart
<1>4. runs'[t] \in 1..MaxTxns[t] /\ runs'[t] = runs[t] + 1 /\ pc'[t] = "body" /\ at'[t] = 1
  BY <1>2, <1>3
<1>5. \A u \in Threads \ {t} : LeftAlone(u) BY <1>2, <1>3, NewAttempt DEF LeftAlone
<1>6. at' \in [Threads -> Nat \ {0}] BY <1>2, <1>3
<1>7. Effective(t)' = Effective(t) BY <1>2, <1>3, <1>4 DEF Effective
<1>8. Mem' = Mem BY <1>1, MemSame DEF ProgramsIInv
<1>9. LogMade(t)' BY <1>3, <1>4, NewAttempt
<1>10. \A r \in TRefs : /\ Fits(r, data'[r]) /\ seen'[t][r] = NoVal
                        /\ shadow'[t][r] = NoVal /\ writes'[t][r] = NoVal
  BY <1>2, <1>3, NewAttempt
<1>11. QED BY <1>1, <1>4, <1>5, <1>6, <1>7, <1>8, <1>9, <1>10, ProgramsKeep

\* An attempt is given up and the body starts over, or commit returns.
LEMMA PStartOverOk ==
  ASSUME ProgramsIInv, StmInv', NEW t \in Threads, UNCHANGED <<offered, taken>>,
         \/ (BodyRetry(t) \/ Conflict(t)) /\ Restart(t)
         \/ Return(t) /\ at' = at
  PROVE  ProgramsIInv'
<1>1. /\ at \in [Threads -> Nat \ {0}] /\ runs \in [Threads -> Nat] /\ pc \in [Threads -> PCs]
      /\ runs[t] =< MaxTxns[t] /\ (pc[t] # "idle" => runs[t] # 0)
      /\ \A r \in TRefs : Fits(r, data[r])
  BY DEF ProgramsIInv, ProgramsTyped, StmInv, TypeOK
<1>2. /\ NewTxn(t) /\ data' = data /\ runs' = runs /\ pc[t] # "idle"
      /\ \A u \in Threads \ {t} : pc'[u] = pc[u]
      /\ \/ pc'[t] = "body" /\ pc[t] \in {"body", "validate"} /\ at' = [at EXCEPT ![t] = 1]
         \/ pc'[t] = "idle" /\ pc[t] = "apply" /\ at' = at
  BY <1>1 DEF BodyRetry, Conflict, Return, Restart
<1>3. \A u \in Threads \ {t} : LeftAlone(u) BY <1>1, <1>2, NewAttempt DEF LeftAlone
<1>4. at' \in [Threads -> Nat \ {0}] BY <1>1, <1>2
<1>5. Effective(t)' = Effective(t) BY <1>2 DEF Effective
<1>6. Mem' = Mem BY MemSame DEF ProgramsIInv, BodyEnd
<1>7. runs'[t] \in 1..MaxTxns[t] BY <1>2, BodyOf
<1>8. pc'[t] = "body" => LogMade(t)'
  <2>1. pc'[t] = "body" => at'[t] = 1 BY <1>1, <1>2
  <2>2. QED BY <1>2, <1>7, <2>1, NewAttempt
<1>9. \A r \in TRefs : /\ Fits(r, data'[r]) /\ seen'[t][r] = NoVal
                       /\ shadow'[t][r] = NoVal /\ writes'[t][r] = NoVal
  BY <1>1, <1>2, NewAttempt
<1>10. pc'[t] \in {"body", "idle"} /\ runs'[t] =< MaxTxns[t] /\ runs'[t] # 0 BY <1>1, <1>2
<1>11. QED BY <1>3, <1>4, <1>5, <1>6, <1>8, <1>9, <1>10, ProgramsKeep

\* try_commit is called, takes the lock and runs a validator.
LEMMA PCommitOk ==
  ASSUME ProgramsIInv, StmInv', NEW t \in Threads, UNCHANGED <<at, offered, taken>>,
         \/ BodyDone(t) /\ at[t] > Len(Body(t))
         \/ TakeLock(t) \/ \E r \in TRefs : ValidateOk(t, r)
  PROVE  ProgramsIInv'
<1>1. /\ at \in [Threads -> Nat \ {0}] /\ runs \in [Threads -> Nat] /\ pc \in [Threads -> PCs]
      /\ runs[t] =< MaxTxns[t] /\ (pc[t] # "idle" => runs[t] # 0)
      /\ \A r \in TRefs : /\ Fits(r, data[r])
                          /\ seen[t][r] # NoVal => Fits(r, seen[t][r])
                          /\ shadow[t][r] # NoVal => Fits(r, shadow[t][r])
                          /\ writes[t][r] # NoVal => Fits(r, writes[t][r])
  BY DEF ProgramsIInv, ProgramsTyped, StmInv, TypeOK
<1>2. /\ data' = data /\ shadow' = shadow /\ seen' = seen /\ writes' = writes /\ runs' = runs
      /\ \A u \in Threads \ {t} : pc'[u] = pc[u]
      /\ pc[t] \in {"body", "lock", "validate"} /\ pc'[t] \in {"lock", "validate"}
      /\ pc[t] = "body" => at[t] > Len(Body(t))
  BY <1>1 DEF BodyDone, TakeLock, ValidateOk, log
<1>3. \A u \in Threads \ {t} : LeftAlone(u) BY <1>2 DEF LeftAlone
<1>4. Effective(t)' = Effective(t) BY <1>2 DEF Effective
<1>5. Mem' = Mem BY MemSame DEF ProgramsIInv, BodyEnd
<1>6. LogMade(t) BY <1>2 DEF ProgramsIInv, LogsMade
<1>7. Body(t)' = Body(t) BY <1>2 DEF Body
<1>8. LogMade(t)' BY <1>2, <1>6, <1>7 DEF LogMade
<1>9. at'[t] = Len(Body(t)') + 1
  <2>1. Len(Body(t)) \in Nat BY <1>2, BodyOf
  <2>2. pc[t] = "body" => at[t] = Len(Body(t)) + 1 BY <1>1, <1>2, <1>6, <2>1 DEF LogMade
  <2>3. pc[t] # "body" => at[t] = Len(Body(t)) + 1 BY <1>2 DEF ProgramsIInv, LogsMade
  <2>4. QED BY <1>7, <2>2, <2>3
<1>10. \A r \in TRefs : /\ Fits(r, data'[r])
                        /\ seen'[t][r] # NoVal => Fits(r, seen'[t][r])
                        /\ shadow'[t][r] # NoVal => Fits(r, shadow'[t][r])
                        /\ writes'[t][r] # NoVal => Fits(r, writes'[t][r])
  BY <1>1, <1>2
<1>11. at' \in [Threads -> Nat \ {0}] /\ runs'[t] =< MaxTxns[t] /\ runs'[t] # 0 BY <1>1, <1>2
<1>12. QED BY <1>3, <1>4, <1>5, <1>8, <1>9, <1>10, <1>11, ProgramsKeep

\* A write is applied.
LEMMA PApplyOk ==
  ASSUME ProgramsIInv, StmInv', NEW t \in Threads, UNCHANGED <<at, offered, taken>>,
         NEW r \in TRefs, ApplyWrite(t, r)
  PROVE  ProgramsIInv'
<1>1. /\ at \in [Threads -> Nat \ {0}] /\ runs \in [Threads -> Nat] /\ pc \in [Threads -> PCs]
      /\ runs[t] =< MaxTxns[t] /\ (pc[t] # "idle" => runs[t] # 0)
      /\ data \in [TRefs -> Vals] /\ writes \in [Threads -> PartialStore]
      /\ \A q \in TRefs : /\ Fits(q, data[q])
                          /\ seen[t][q] # NoVal => Fits(q, seen[t][q])
                          /\ shadow[t][q] # NoVal => Fits(q, shadow[t][q])
                          /\ writes[t][q] # NoVal => Fits(q, writes[t][q])
  BY DEF ProgramsIInv, ProgramsTyped, StmInv, TypeOK
<1>2. /\ shadow' = shadow /\ seen' = seen /\ runs' = runs /\ pc' = pc /\ pc[t] = "apply"
      /\ data' = [data EXCEPT ![r] = writes[t][r]] /\ writes[t][r] # NoVal
      /\ writes' = [writes EXCEPT ![t][r] = NoVal]
  BY DEF ApplyWrite, Pending
<1>3. \A u \in Threads \ {t} : LeftAlone(u) BY <1>1, <1>2 DEF LeftAlone
<1>4. Effective(t)' = Effective(t) BY <1>2 DEF Effective
<1>5. Mem' = Mem BY MemSame DEF ProgramsIInv
<1>6. \A q \in TRefs : data'[q] = IF q = r THEN writes[t][r] ELSE data[q] BY <1>1, <1>2
<1>7. \A q \in TRefs : writes'[t][q] = IF q = r THEN NoVal ELSE writes[t][q]
  BY <1>1, <1>2 DEF PartialStore
<1>8. \A q \in TRefs : /\ Fits(q, data'[q])
                       /\ seen'[t][q] # NoVal => Fits(q, seen'[t][q])
                       /\ shadow'[t][q] # NoVal => Fits(q, shadow'[t][q])
                       /\ writes'[t][q] # NoVal => Fits(q, writes'[t][q])
  BY <1>1, <1>2, <1>6, <1>7
<1>9. /\ at' \in [Threads -> Nat \ {0}] /\ runs'[t] =< MaxTxns[t] /\ runs'[t] # 0
      /\ pc'[t] = "apply"
  BY <1>1, <1>2
<1>10. QED BY <1>3, <1>4, <1>5, <1>8, <1>9, ProgramsKeep

\* An operation of a body extends the log.
LEMMA LogExtends ==
  ASSUME ProgramsIInv, NEW t \in Threads, pc[t] = "body", NEW o, o = Body(t)[at[t]],
         at[t] \in 1..Len(Body(t)), o.ref \in TRefs, runs'[t] = runs[t], at'[t] = at[t] + 1,
         \A q \in TRefs \ {o.ref} : /\ seen'[t][q] = seen[t][q]
                                    /\ shadow'[t][q] = shadow[t][q] /\ writes'[t][q] = writes[t][q],
         \/ seen'[t][o.ref] = seen[t][o.ref] /\ writes'[t][o.ref] = writes[t][o.ref]
         \/ \A j \in 1..(at[t] - 1) : Changes(Body(t)[j]) => Body(t)[j].ref # o.ref,
         shadow'[t][o.ref] = IF writes'[t][o.ref] # NoVal THEN writes'[t][o.ref]
                             ELSE seen'[t][o.ref],
         writes'[t][o.ref] # NoVal => writes[t][o.ref] # NoVal \/ Changes(o),
         Changes(o) => Made(o, seen'[t][o.ref], writes'[t][o.ref])
  PROVE  LogMade(t)'
<1>1. LogMade(t) BY DEF ProgramsIInv, LogsMade
<1>2. Body(t)' = Body(t) BY DEF Body
<1>3. Len(Body(t)) \in Nat /\ \A j \in 1..Len(Body(t)) : Body(t)[j].ref \in TRefs BY BodyOf
<1>4. PICK n \in Nat \ {0} : n = at[t] BY <1>3
<1>5. at'[t] - 1 = n /\ at'[t] =< Len(Body(t)') + 1 BY <1>2, <1>3, <1>4
<1>6. \A j \in 1..n : j = n \/ j \in 1..(n - 1) BY <1>4
<1>7. 1..(n - 1) \subseteq 1..n /\ n \in 1..n BY <1>4
<1>8. ASSUME NEW r \in TRefs
      PROVE  /\ shadow'[t][r] = IF writes'[t][r] # NoVal THEN writes'[t][r] ELSE seen'[t][r]
             /\ writes'[t][r] # NoVal =>
                  \E j \in 1..n : Body(t)[j].ref = r /\ Changes(Body(t)[j])
  <2>1. writes[t][r] # NoVal => \E j \in 1..n : Body(t)[j].ref = r /\ Changes(Body(t)[j])
    BY <1>1, <1>4, <1>7 DEF LogMade
  <2>2. CASE r = o.ref BY <1>4, <1>7, <2>1, <2>2
  <2>3. CASE r # o.ref BY <1>1, <2>1, <2>3 DEF LogMade
  <2>4. QED BY <2>2, <2>3
<1>9. ASSUME NEW j \in 1..n, Changes(Body(t)[j])
      PROVE  Made(Body(t)[j], seen'[t][Body(t)[j].ref], writes'[t][Body(t)[j].ref])
  <2>1. CASE j = n BY <1>4, <1>9, <2>1
  <2>2. CASE j \in 1..(n - 1)
    <3>1. Made(Body(t)[j], seen[t][Body(t)[j].ref], writes[t][Body(t)[j].ref])
      BY <1>1, <1>4, <1>9, <2>2 DEF LogMade
    <3>2. j \in 1..Len(Body(t)) BY <1>3, <1>4, <2>2
    <3>3. Body(t)[j].ref \in TRefs BY <1>3, <3>2
    <3>4. CASE Body(t)[j].ref # o.ref
      <4>1. /\ seen'[t][Body(t)[j].ref] = seen[t][Body(t)[j].ref]
            /\ writes'[t][Body(t)[j].ref] = writes[t][Body(t)[j].ref]
        BY <3>3, <3>4
      <4>2. QED BY <3>1, <4>1
    <3>5. CASE Body(t)[j].ref = o.ref
      <4>1. seen'[t][o.ref] = seen[t][o.ref] /\ writes'[t][o.ref] = writes[t][o.ref]
        BY <1>4, <1>9, <2>2, <3>5
      <4>2. QED BY <3>1, <3>5, <4>1
    <3>6. QED BY <3>4, <3>5
  <2>3. QED BY <1>6, <2>1, <2>2
<1>10. QED BY <1>2, <1>5, <1>8, <1>9 DEF LogMade

\* The first change of a structure in a body finds what was seen, or nothing.
LEMMA FirstChange ==
  ASSUME ProgramsIInv, NEW t \in Threads, pc[t] = "body", NEW o, o = Body(t)[at[t]],
         at[t] \in 1..Len(Body(t)), o.ref \in TRefs, Changes(o) \/ shadow[t][o.ref] = NoVal
  PROVE  /\ \A j \in 1..(at[t] - 1) : Changes(Body(t)[j]) => Body(t)[j].ref # o.ref
         /\ writes[t][o.ref] = NoVal /\ shadow[t][o.ref] = seen[t][o.ref]
<1>1. LogMade(t) BY DEF ProgramsIInv, LogsMade
<1>2. Len(Body(t)) \in Nat BY BodyOf
<1>3. PICK n \in Nat \ {0} : n = at[t] BY <1>2
<1>4. ASSUME NEW j \in 1..(n - 1), Changes(Body(t)[j]), Body(t)[j].ref = o.ref PROVE FALSE
  <2>1. j \in 1..Len(Body(t)) /\ j # n /\ n \in 1..Len(Body(t)) BY <1>2, <1>3
  <2>2. ~Changes(o) BY <1>3, <1>4, <2>1, BodyOf
  <2>3. seen[t][o.ref] # NoVal BY <1>1, <1>3, <1>4 DEF LogMade, Made
  <2>4. shadow[t][o.ref] # NoVal BY <1>1, <2>3 DEF LogMade
  <2>5. QED BY <2>2, <2>4
<1>5. writes[t][o.ref] = NoVal BY <1>1, <1>3, <1>4 DEF LogMade
<1>6. shadow[t][o.ref] = seen[t][o.ref] BY <1>1, <1>5 DEF LogMade
<1>7. QED BY <1>3, <1>4, <1>5, <1>6

\* An operation of a body.
LEMMA OperationOk ==
  ASSUME ProgramsIInv, StmInv', NEW t \in Threads, Operation(t)
  PROVE  ProgramsIInv'
<1>1. PICK o :
        /\ o = Body(t)[at[t]] /\ at[t] \in 1..Len(Body(t)) /\ WellFormed(o) /\ o.ref \in TRefs
        /\ pc[t] = "body" /\ UNCHANGED <<offered, taken>>
        /\ LET out == Outcome(o, Current(t, o.ref))
           IN  \/ /\ out.kind = "write" /\ Changes(o)
                  /\ out.next \in Vals /\ out.next # NoVal /\ Fits(o.ref, out.next)
                  /\ UpdateStm(t, o.ref, out.next)
                  /\ at' = [at EXCEPT ![t] = @ + 1]
               \/ /\ out.kind = "keep"
                  /\ ReadStm(t, o.ref) \/ (shadow[t][o.ref] # NoVal /\ UNCHANGED vars)
                  /\ at' = [at EXCEPT ![t] = @ + 1]
               \/ BodyRetry(t) /\ Restart(t)
  BY OperationAt
<1>2. CASE BodyRetry(t) /\ Restart(t) BY <1>1, <1>2, PStartOverOk
<1> DEFINE r == o.ref
           c == Current(t, r)
           next == Outcome(o, c).next
<1>3. /\ at \in [Threads -> Nat \ {0}] /\ pc \in [Threads -> PCs]
      /\ runs[t] =< MaxTxns[t] /\ runs[t] # 0
      /\ seen \in [Threads -> PartialStore] /\ shadow \in [Threads -> PartialStore]
      /\ writes \in [Threads -> PartialStore]
      /\ \A q \in TRefs : /\ Fits(q, data[q])
                          /\ seen[t][q] # NoVal => Fits(q, seen[t][q])
                          /\ shadow[t][q] # NoVal => Fits(q, shadow[t][q])
                          /\ writes[t][q] # NoVal => Fits(q, writes[t][q])
  BY <1>1 DEF ProgramsIInv, ProgramsTyped, StmInv, TypeOK
<1>4. data[r] # NoVal /\ c = IF shadow[t][r] # NoVal THEN shadow[t][r] ELSE data[r]
  BY <1>1, <1>3, ProgramsConstants DEF Fits, Current
<1>5. ASSUME at' = [at EXCEPT ![t] = @ + 1], UNCHANGED <<data, runs, pc>>, Mem' = Mem,
             \A u \in Threads \ {t} :
                shadow'[u] = shadow[u] /\ seen'[u] = seen[u] /\ writes'[u] = writes[u],
             \A q \in TRefs : /\ seen'[t][q] # NoVal => Fits(q, seen'[t][q])
                              /\ shadow'[t][q] # NoVal => Fits(q, shadow'[t][q])
                              /\ writes'[t][q] # NoVal => Fits(q, writes'[t][q]),
             LogMade(t)'
      PROVE  ProgramsIInv'
  <2>1. at' \in [Threads -> Nat \ {0}] BY <1>3, <1>5
  <2>2. \A u \in Threads \ {t} : LeftAlone(u) BY <1>3, <1>5 DEF LeftAlone
  <2>3. Effective(t)' = Effective(t) BY <1>5 DEF Effective
  <2>4. pc'[t] = "body" /\ runs'[t] =< MaxTxns[t] /\ runs'[t] # 0 BY <1>1, <1>3, <1>5
  <2>5. \A q \in TRefs : Fits(q, data'[q]) BY <1>3, <1>5
  <2>6. QED BY <1>1, <1>5, <2>1, <2>2, <2>3, <2>4, <2>5, ProgramsKeep
<1>6. CASE /\ Outcome(o, c).kind = "write" /\ Changes(o) /\ next \in Vals
           /\ next # NoVal /\ Fits(r, next)
           /\ UpdateStm(t, r, next) /\ at' = [at EXCEPT ![t] = @ + 1]
  <2>1. /\ shadow' = [shadow EXCEPT ![t][r] = next] /\ writes' = [writes EXCEPT ![t][r] = next]
        /\ seen' = [seen EXCEPT ![t][r] = IF shadow[t][r] = NoVal THEN data[r] ELSE @]
        /\ UNCHANGED <<data, runs, pc>>
    BY <1>6 DEF UpdateStm
  <2>2. Mem' = Mem BY <1>1, <1>6, MemSame DEF ProgramsIInv, BodyStep
  <2>3. /\ \A j \in 1..(at[t] - 1) : Changes(Body(t)[j]) => Body(t)[j].ref # r
        /\ writes[t][r] = NoVal /\ shadow[t][r] = seen[t][r]
    BY <1>1, <1>6, FirstChange
  <2>4. /\ shadow'[t][r] = next /\ writes'[t][r] = next
        /\ seen'[t][r] = IF shadow[t][r] = NoVal THEN data[r] ELSE seen[t][r]
        /\ \A q \in TRefs \ {r} : /\ seen'[t][q] = seen[t][q]
                                  /\ shadow'[t][q] = shadow[t][q] /\ writes'[t][q] = writes[t][q]
    <3>1. r \in TRefs BY <1>1
    <3> HIDE DEF r, next
    <3>2. QED BY <1>3, <2>1, <3>1 DEF PartialStore
  <2>5. seen'[t][r] = c BY <1>4, <2>3, <2>4
  <2>6. Made(o, seen'[t][r], writes'[t][r]) BY <1>4, <1>6, <2>4, <2>5 DEF Made
  <2>7. at'[t] = at[t] + 1 /\ runs'[t] = runs[t] BY <1>3, <1>6, <2>1
  <2>8. LogMade(t)'
    <3> HIDE DEF next, c
    <3>1. QED BY <1>1, <1>6, <2>3, <2>4, <2>6, <2>7, LogExtends
  <2>9. \A u \in Threads \ {t} :
           shadow'[u] = shadow[u] /\ seen'[u] = seen[u] /\ writes'[u] = writes[u]
    BY <1>3, <2>1
  <2>10. ASSUME NEW q \in TRefs
         PROVE  /\ seen'[t][q] # NoVal => Fits(q, seen'[t][q])
                /\ shadow'[t][q] # NoVal => Fits(q, shadow'[t][q])
                /\ writes'[t][q] # NoVal => Fits(q, writes'[t][q])
    <3> HIDE DEF next, c
    <3>1. CASE q = r BY <1>3, <1>6, <2>4, <3>1
    <3>2. CASE q # r BY <1>3, <2>4, <3>2
    <3>3. QED BY <3>1, <3>2
  <2>11. QED BY <1>5, <1>6, <2>1, <2>2, <2>8, <2>9, <2>10
<1>7. CASE Outcome(o, c).kind = "keep" /\ ReadStm(t, r) /\ at' = [at EXCEPT ![t] = @ + 1]
  <2>1. /\ shadow' = [shadow EXCEPT ![t][r] = data[r]] /\ seen' = [seen EXCEPT ![t][r] = data[r]]
        /\ writes' = writes /\ UNCHANGED <<data, runs, pc>> /\ shadow[t][r] = NoVal
    BY <1>7 DEF ReadStm
  <2>2. Mem' = Mem BY <1>1, <1>7, MemSame DEF ProgramsIInv, BodyStep
  <2>3. /\ \A j \in 1..(at[t] - 1) : Changes(Body(t)[j]) => Body(t)[j].ref # r
        /\ writes[t][r] = NoVal
    BY <1>1, <2>1, FirstChange
  <2>4. /\ shadow'[t][r] = data[r] /\ writes'[t][r] = NoVal /\ seen'[t][r] = data[r]
        /\ \A q \in TRefs \ {r} : /\ seen'[t][q] = seen[t][q]
                                  /\ shadow'[t][q] = shadow[t][q] /\ writes'[t][q] = writes[t][q]
    <3>1. r \in TRefs BY <1>1
    <3> HIDE DEF r
    <3>2. QED BY <1>3, <2>1, <2>3, <3>1 DEF PartialStore
  <2>5. seen'[t][r] = c BY <1>4, <2>1, <2>4
  <2>6. Made(o, seen'[t][r], writes'[t][r]) BY <1>4, <1>7, <2>4, <2>5 DEF Made
  <2>7. at'[t] = at[t] + 1 /\ runs'[t] = runs[t] BY <1>3, <1>7, <2>1
  <2>8. LogMade(t)'
    <3> HIDE DEF c
    <3>1. QED BY <1>1, <2>3, <2>4, <2>6, <2>7, LogExtends
  <2>9. \A u \in Threads \ {t} :
           shadow'[u] = shadow[u] /\ seen'[u] = seen[u] /\ writes'[u] = writes[u]
    BY <1>3, <2>1
  <2>10. ASSUME NEW q \in TRefs
         PROVE  /\ seen'[t][q] # NoVal => Fits(q, seen'[t][q])
                /\ shadow'[t][q] # NoVal => Fits(q, shadow'[t][q])
                /\ writes'[t][q] # NoVal => Fits(q, writes'[t][q])
    <3>1. CASE q = r BY <1>3, <2>4, <3>1
    <3>2. CASE q # r BY <1>3, <2>4, <3>2
    <3>3. QED BY <3>1, <3>2
  <2>11. QED BY <1>5, <1>7, <2>1, <2>2, <2>8, <2>9, <2>10
<1>8. CASE /\ Outcome(o, c).kind = "keep" /\ shadow[t][r] # NoVal /\ UNCHANGED vars
           /\ at' = [at EXCEPT ![t] = @ + 1]
  <2>1. UNCHANGED <<data, runs, pc>> /\ shadow' = shadow /\ seen' = seen /\ writes' = writes
    BY <1>8 DEF vars
  <2>2. Mem' = Mem BY <1>8, MemSame DEF ProgramsIInv
  <2>3. LogMade(t) BY <1>1 DEF ProgramsIInv, LogsMade
  <2>4. shadow[t][r] = IF writes[t][r] # NoVal THEN writes[t][r] ELSE seen[t][r]
    BY <1>1, <2>3 DEF LogMade
  <2>5. Changes(o) => writes[t][r] = NoVal /\ shadow[t][r] = seen[t][r] BY <1>1, FirstChange
  <2>6. Changes(o) => Made(o, seen'[t][r], writes'[t][r])
    BY <1>4, <1>8, <2>1, <2>5 DEF Made
  <2>7. at'[t] = at[t] + 1 /\ runs'[t] = runs[t] BY <1>3, <1>8, <2>1
  <2>8. LogMade(t)' BY <1>1, <2>1, <2>4, <2>6, <2>7, LogExtends
  <2>9. QED BY <1>3, <1>5, <1>8, <2>1, <2>2, <2>8
<1>9. QED BY <1>1, <1>2, <1>6, <1>7, <1>8

\* A transaction that takes effect has applied the operations of its body to the store.
LEMMA BodyApplied ==
  ASSUME ProgramsIInv, StmInv', NEW t \in Threads, Validated(t)
  PROVE  /\ Mem = data
         /\ \A r \in TRefs : writes[t][r] = NoVal => Mem'[r] = Mem[r]
         /\ \A r \in TRefs : writes[t][r] # NoVal =>
               /\ Mem'[r] = writes[t][r]
               /\ \E o \in OpsIn(t, runs[t]) : o.ref = r /\ Changes(o)
         /\ \A o \in OpsIn(t, runs[t]) :
               /\ WellFormed(o) /\ o.ref \in TRefs
               /\ Changes(o) => /\ Made(o, Mem[o.ref], writes[t][o.ref])
                                /\ seen[t][o.ref] = Mem[o.ref]
<1>1. Mem = data /\ Mem' = Overlay(Mem, writes[t]) /\ Agrees(seen[t], Mem)
  BY MemCommits DEF ProgramsIInv
<1>2. LogMade(t) /\ at[t] = Len(Body(t)) + 1 /\ pc[t] # "idle"
  BY DEF Validated, ProgramsIInv, LogsMade
<1>3. /\ Len(Body(t)) \in Nat /\ OpsIn(t, runs[t]) = {Body(t)[j] : j \in 1..Len(Body(t))}
      /\ \A j \in 1..Len(Body(t)) : WellFormed(Body(t)[j]) /\ Body(t)[j].ref \in TRefs
  BY <1>2, BodyOf
<1>4. at[t] - 1 = Len(Body(t)) BY <1>2, <1>3
<1>5. \A r \in TRefs : Mem'[r] = IF writes[t][r] = NoVal THEN Mem[r] ELSE writes[t][r]
  BY <1>1 DEF Overlay
<1>6. ASSUME NEW r \in TRefs, writes[t][r] # NoVal
      PROVE  \E o \in OpsIn(t, runs[t]) : o.ref = r /\ Changes(o)
  BY <1>2, <1>3, <1>4, <1>6 DEF LogMade
<1>7. ASSUME NEW j \in 1..Len(Body(t)), Changes(Body(t)[j])
      PROVE  /\ Made(Body(t)[j], Mem[Body(t)[j].ref], writes[t][Body(t)[j].ref])
             /\ seen[t][Body(t)[j].ref] = Mem[Body(t)[j].ref]
  <2>1. Made(Body(t)[j], seen[t][Body(t)[j].ref], writes[t][Body(t)[j].ref])
    BY <1>2, <1>4, <1>7 DEF LogMade
  <2>2. seen[t][Body(t)[j].ref] = Mem[Body(t)[j].ref]
    BY <1>1, <1>3, <2>1 DEF Made, Agrees
  <2>3. QED BY <2>1, <2>2
<1>8. QED BY <1>1, <1>3, <1>5, <1>6, <1>7

\* Queues stay first in, first out when a transaction takes effect.
LEMMA FifoKept ==
  ASSUME ProgramsIInv, StmInv', NEW t \in Threads, PValidated(t)
  PROVE  QueuesAreFifo' /\ offered' \in [Queues -> Seq(Nat)] /\ taken' \in [Queues -> Seq(Nat)]
<1>1. Validated(t) BY DEF PValidated
<1>2. Mem = data BY <1>1, BodyApplied
<1>3. /\ offered \in [Queues -> Seq(Nat)] /\ taken \in [Queues -> Seq(Nat)]
      /\ Queues \subseteq TRefs /\ Cap \in Nat
  BY ProgramsConstants DEF ProgramsIInv, ProgramsTyped
<1>4. ASSUME NEW q \in Queues
      PROVE  /\ offered'[q] = taken'[q] \o Mem'[q] /\ Len(Mem'[q]) =< Cap
             /\ offered'[q] \in Seq(Nat) /\ taken'[q] \in Seq(Nat)
  <2>1. /\ offered[q] = taken[q] \o Mem[q] /\ Len(Mem[q]) =< Cap
        /\ offered[q] \in Seq(Nat) /\ taken[q] \in Seq(Nat) /\ Mem[q] \in Seq(Nat) /\ q \in TRefs
    BY <1>3 DEF ProgramsIInv, StoreMade, ProgramsInv, QueuesAreFifo, Fits
  <2>2. /\ offered'[q] = IF writes[t][q] # NoVal /\ Len(writes[t][q]) > Len(Mem[q])
                         THEN Append(offered[q], writes[t][q][Len(writes[t][q])])
                         ELSE offered[q]
        /\ taken'[q] = IF writes[t][q] # NoVal /\ Len(writes[t][q]) < Len(Mem[q])
                       THEN Append(taken[q], seen[t][q][1])
                       ELSE taken[q]
    BY <1>2 DEF PValidated
  <2>3. CASE writes[t][q] = NoVal
    <3>1. Mem'[q] = Mem[q] BY <1>1, <2>1, <2>3, BodyApplied
    <3>2. offered'[q] = offered[q] /\ taken'[q] = taken[q] BY <2>2, <2>3
    <3>3. QED BY <2>1, <3>1, <3>2, Zenon
  <2>4. CASE writes[t][q] # NoVal
    <3>1. Mem'[q] = writes[t][q] BY <1>1, <2>1, <2>4, BodyApplied
    <3>2. PICK o \in OpsIn(t, runs[t]) : o.ref = q /\ Changes(o) BY <1>1, <2>1, <2>4, BodyApplied
    <3>3. WellFormed(o) /\ Made(o, Mem[q], writes[t][q]) /\ seen[t][q] = Mem[q]
      BY <1>1, <3>2, BodyApplied
    <3>4. Outcome(o, Mem[q]).kind = "write" /\ writes[t][q] = Outcome(o, Mem[q]).next
      BY <2>4, <3>3 DEF Made
    <3>5. PICK m \in Seq(Nat) : m = Mem[q] BY <2>1
    <3>6. PICK g \in Seq(Nat) : g = taken[q] BY <2>1
    <3>7. CASE o.op = "offer"
      <4>1. Outcome(o, m) = Offer(m, o.val) BY <3>7 DEF Outcome
      <4>2. o.val \in Nat BY <3>3, <3>7 DEF WellFormed
      <4>3. ~(Len(m) >= Cap) /\ writes[t][q] = Append(m, o.val)
        BY <3>4, <3>5, <4>1 DEF Offer, Keep, Write
      <4>4. /\ Len(Append(m, o.val)) = Len(m) + 1 /\ Len(m) \in Nat
            /\ Append(m, o.val)[Len(m) + 1] = o.val
        BY <4>2
      <4>5. offered'[q] = Append(offered[q], o.val) /\ taken'[q] = g
        BY <2>2, <2>4, <3>5, <3>6, <4>3, <4>4
      <4>6. g \o Append(m, o.val) = Append(g \o m, o.val) BY <4>2, PartsMove
      <4>7. offered'[q] = taken'[q] \o Mem'[q]
        BY <2>1, <3>1, <3>5, <3>6, <4>3, <4>5, <4>6, Zenon
      <4>8. Len(Mem'[q]) =< Cap BY <1>3, <3>1, <4>3, <4>4
      <4>9. offered'[q] \in Seq(Nat) /\ taken'[q] \in Seq(Nat) BY <2>1, <4>2, <4>5
      <4>10. QED BY <4>7, <4>8, <4>9
    <3>8. CASE o.op = "take"
      <4>1. Outcome(o, m) = Take(m) BY <3>8 DEF Outcome
      <4>2. m # <<>> /\ writes[t][q] = Tail(m) BY <3>4, <3>5, <4>1 DEF Take, Retry, Write
      <4>3. Len(Tail(m)) = Len(m) - 1 /\ Len(m) \in Nat /\ m[1] = Head(m) /\ Head(m) \in Nat
        BY <4>2
      <4>4. offered'[q] = offered[q] /\ taken'[q] = Append(g, Head(m))
        BY <2>2, <2>4, <3>3, <3>5, <3>6, <4>2, <4>3
      <4>5. Append(g, Head(m)) \o Tail(m) = g \o m BY <4>2, PartsMove
      <4>6. offered'[q] = taken'[q] \o Mem'[q]
        BY <2>1, <3>1, <3>5, <3>6, <4>2, <4>4, <4>5, Zenon
      <4>7. Len(Mem'[q]) =< Cap BY <1>3, <2>1, <3>1, <3>5, <4>2, <4>3
      <4>8. offered'[q] \in Seq(Nat) /\ taken'[q] \in Seq(Nat) BY <2>1, <4>3, <4>4
      <4>9. QED BY <4>6, <4>7, <4>8
    <3>9. QED BY <3>2, <3>3, <3>7, <3>8, ProgramsConstants DEF WellFormed, Changes
  <2>5. QED BY <2>3, <2>4
<1>5. offered' = [q \in Queues |-> offered'[q]] /\ taken' = [q \in Queues |-> taken'[q]]
  BY DEF PValidated
<1>6. QED BY <1>4, <1>5 DEF QueuesAreFifo

\* Who has a permit after the next call.
LEMMA InsideNext ==
  ASSUME NEW t \in Threads, NEW n \in 1..MaxTxns[t]
  PROVE  /\ Enters(t, n) => ~Leaves(t, n) /\ ~Inside(t, n - 1) /\ Inside(t, n)
         /\ Leaves(t, n) => Inside(t, n - 1) /\ ~Inside(t, n)
         /\ ~Enters(t, n) /\ ~Leaves(t, n) => (Inside(t, n) <=> Inside(t, n - 1))
<1>1. n \in Nat \ {0} BY ProgramsConstants
<1>2. (Enters(t, n) => ~Inside(t, n - 1)) /\ (Leaves(t, n) => Inside(t, n - 1))
  BY ProgramsAssumption
<1>3. Enters(t, n) => Inside(t, n)
  <2>1. n \in 1..n /\ (n + 1)..n = {} BY <1>1
  <2>2. QED BY <2>1 DEF Inside
<1>4. ASSUME Leaves(t, n), Inside(t, n) PROVE FALSE
  <2>1. PICK i \in 1..n : Enters(t, i) /\ \A l \in (i + 1)..n : ~Leaves(t, l) BY <1>4 DEF Inside
  <2>2. i # n BY <1>2, <1>4, <2>1
  <2>3. n \in (i + 1)..n BY <1>1, <2>2
  <2>4. QED BY <1>4, <2>1, <2>3
<1>5. ASSUME ~Enters(t, n), ~Leaves(t, n) PROVE Inside(t, n) <=> Inside(t, n - 1)
  <2>1. ASSUME Inside(t, n) PROVE Inside(t, n - 1)
    <3>1. PICK i \in 1..n : Enters(t, i) /\ \A l \in (i + 1)..n : ~Leaves(t, l) BY <2>1 DEF Inside
    <3>2. i \in 1..(n - 1) BY <1>1, <1>5, <3>1
    <3>3. (i + 1)..(n - 1) \subseteq (i + 1)..n BY <1>1
    <3>4. QED BY <3>1, <3>2, <3>3 DEF Inside
  <2>2. ASSUME Inside(t, n - 1) PROVE Inside(t, n)
    <3>1. PICK i \in 1..(n - 1) : Enters(t, i) /\ \A l \in (i + 1)..(n - 1) : ~Leaves(t, l)
      BY <2>2 DEF Inside
    <3>2. i \in 1..n /\ \A l \in (i + 1)..n : l = n \/ l \in (i + 1)..(n - 1) BY <1>1
    <3>3. QED BY <1>5, <3>1, <3>2 DEF Inside
  <2>3. QED BY <2>1, <2>2
<1>6. QED BY <1>2, <1>3, <1>4, <1>5

\* Permits and keys change together when a transaction takes effect.
LEMMA PermitsKept ==
  ASSUME ProgramsIInv, StmInv', NEW t \in Threads, Validated(t)
  PROVE  PermitsMatchMap' /\ KeysThere'
<1> DEFINE n == runs[t]
<1>1. /\ n \in 1..MaxTxns[t] /\ n \in Nat /\ Effective(t) = n - 1 /\ Effective(t)' = n
      /\ \A u \in Threads \ {t} : Effective(u)' = Effective(u)
  <2>1. /\ pc[t] = "validate" /\ pc' = [pc EXCEPT ![t] = "apply"] /\ runs' = runs
        /\ pc \in [Threads -> PCs] /\ runs \in [Threads -> Nat]
    BY DEF Validated, ProgramsIInv, StmInv, TypeOK
  <2>2. QED BY <2>1, BodyOf DEF Effective
<1>2. /\ KeysThere /\ Fits(Sem, Mem[Sem]) /\ Fits(Map, Mem[Map])
      /\ Mem[Sem][1] + Cardinality(Registered) = InitVal[Sem][1]
      /\ Sem \in TRefs \ Queues /\ Map \in TRefs \ Queues /\ Sem # Map
  BY ProgramsConstants DEF ProgramsIInv, StoreMade, ProgramsInv, PermitsMatchMap
<1>3. /\ DOMAIN Mem[Map] = DOMAIN InitVal[Map] /\ Mem[Map] \in Seq(Nat)
      /\ Mem[Sem] \in Seq(Nat) /\ Len(Mem[Sem]) = 1
  BY <1>2 DEF Fits
<1>4. Mem[Sem][1] \in Nat BY <1>3
<1>5. IsFiniteSet(DOMAIN InitVal[Map])
  <2>1. DOMAIN InitVal[Map] = 1..Len(Mem[Map]) /\ Len(Mem[Map]) \in Nat BY <1>3
  <2>2. QED BY <2>1, FS_Interval
<1>6. Registered \subseteq DOMAIN InitVal[Map] BY <1>3 DEF Registered
<1>7. ASSUME NEW k, NEW u \in Threads, NEW o \in OpsIn(t, n), o.op \in {"set", "delete"}, o.key = k
      PROVE  KeyOf(t, k) /\ (KeyOf(u, k) => u = t)
  BY <1>1, <1>7, ProgramsAssumption DEF KeyOf
<1>8. ASSUME NEW k, NEW o \in OpsIn(t, n), o.op \in {"set", "delete"}, KeyOf(t, k)
      PROVE  o.key = k
  BY <1>1, <1>8, ProgramsAssumption DEF KeyOf
<1>9. /\ Enters(t, n) <=> \E o \in OpsIn(t, n) : o.op = "set"
      /\ Leaves(t, n) <=> \E o \in OpsIn(t, n) : o.op = "delete"
  BY <1>1, ProgramsAssumption
<1>10. CASE ~Enters(t, n) /\ ~Leaves(t, n)
  <2>1. \A o \in OpsIn(t, n) : Changes(o) => o.ref \in Queues
    <3>1. \A o \in OpsIn(t, n) : o.op \notin {"acquire", "release", "set", "delete"}
      BY <1>9, <1>10 DEF Enters, Leaves
    <3>2. QED BY <3>1, BodyApplied DEF WellFormed, Changes
  <2>2. writes[t][Sem] = NoVal /\ writes[t][Map] = NoVal BY <1>2, <2>1, BodyApplied
  <2>3. Mem'[Sem] = Mem[Sem] /\ Mem'[Map] = Mem[Map] BY <1>2, <2>2, BodyApplied
  <2>4. PermitsMatchMap' BY <1>2, <2>3 DEF PermitsMatchMap, Registered
  <2>5. \A u \in Threads : Inside(u, Effective(u)') <=> Inside(u, Effective(u))
    BY <1>1, <1>10, InsideNext
  <2>6. KeysThere' BY <1>2, <2>3, <2>5 DEF KeysThere, KeyOf, Inside
  <2>7. QED BY <2>4, <2>6
<1>11. CASE Enters(t, n)
  <2>1. ~Inside(t, n - 1) /\ Inside(t, n) BY <1>1, <1>11, InsideNext
  <2>2. PICK a \in OpsIn(t, n) : a.op = "acquire" BY <1>11 DEF Enters
  <2>3. PICK o \in OpsIn(t, n) : o.op = "set" BY <1>9, <1>11
  <2>4. /\ a.ref = Sem /\ Made(a, Mem[Sem], writes[t][Sem])
        /\ o.ref = Map /\ Made(o, Mem[Map], writes[t][Map])
        /\ o.key \in DOMAIN InitVal[Map] /\ o.val \in Nat \ {Absent}
    BY <2>2, <2>3, BodyApplied DEF WellFormed, Changes
  <2>5. Mem[Sem][1] # 0 /\ writes[t][Sem] = <<Mem[Sem][1] - 1>>
    <3>1. Outcome(a, Mem[Sem]) = Acquire(Mem[Sem]) BY <2>2 DEF Outcome
    <3>2. QED BY <2>4, <3>1 DEF Made, Acquire, Retry, Write
  <2>6. writes[t][Map] = [Mem[Map] EXCEPT ![o.key] = o.val]
    <3>1. Outcome(o, Mem[Map]) = Set(Mem[Map], o.key, o.val) BY <2>3 DEF Outcome
    <3>2. QED BY <2>4, <3>1 DEF Made, Set, Write
  <2>7. Mem'[Sem] = <<Mem[Sem][1] - 1>> /\ Mem'[Map] = [Mem[Map] EXCEPT ![o.key] = o.val]
    <3>1. <<Mem[Sem][1] - 1>> \in Seq(Nat) BY <1>4, <2>5
    <3>2. [Mem[Map] EXCEPT ![o.key] = o.val] \in Seq(Nat) BY <1>3, <2>4
    <3>3. writes[t][Sem] # NoVal /\ writes[t][Map] # NoVal
      BY <2>5, <2>6, <3>1, <3>2, ProgramsConstants
    <3>4. QED BY <1>2, <2>5, <2>6, <3>3, BodyApplied
  <2>8. Mem[Map][o.key] = Absent
    <3>1. ~\E u \in Threads : KeyOf(u, o.key) /\ Inside(u, Effective(u))
      BY <1>1, <1>7, <2>1, <2>3
    <3>2. QED BY <1>2, <2>4, <3>1 DEF KeysThere
  <2>9. Registered' = Registered \cup {o.key} /\ o.key \notin Registered
    BY <1>3, <2>4, <2>7, <2>8 DEF Registered
  <2>10. Cardinality(Registered') = Cardinality(Registered) + 1 /\ Cardinality(Registered) \in Nat
    <3>1. IsFiniteSet(Registered) BY <1>5, <1>6, FS_Subset
    <3>2. QED BY <2>9, <3>1, FS_AddElement, FS_CardinalityType
  <2>11. PermitsMatchMap'
    <3>1. Mem'[Sem][1] = Mem[Sem][1] - 1 BY <2>7
    <3>2. QED BY <1>2, <1>4, <2>10, <3>1 DEF PermitsMatchMap
  <2>12. ASSUME NEW k \in DOMAIN InitVal[Map]
         PROVE  Mem'[Map][k] # Absent
                  <=> \E u \in Threads : KeyOf(u, k) /\ Inside(u, Effective(u)')
    <3>1. CASE k = o.key
      <4>1. Mem'[Map][k] = o.val BY <1>3, <2>7, <3>1
      <4>2. KeyOf(t, k) BY <1>7, <2>3, <3>1
      <4>3. QED BY <1>1, <2>1, <2>4, <4>1, <4>2
    <3>2. CASE k # o.key
      <4>1. Mem'[Map][k] = Mem[Map][k] BY <1>3, <2>7, <3>2
      <4>2. ~KeyOf(t, k) BY <1>8, <2>3, <3>2
      <4>3. QED BY <1>1, <1>2, <4>1, <4>2 DEF KeysThere
    <3>3. QED BY <3>1, <3>2
  <2>13. KeysThere' BY <2>12 DEF KeysThere, KeyOf, Inside
  <2>14. QED BY <2>11, <2>13
<1>12. CASE Leaves(t, n)
  <2>1. Inside(t, n - 1) /\ ~Inside(t, n) BY <1>1, <1>12, InsideNext
  <2>2. PICK a \in OpsIn(t, n) : a.op = "release" BY <1>12 DEF Leaves
  <2>3. PICK o \in OpsIn(t, n) : o.op = "delete" BY <1>9, <1>12
  <2>4. /\ a.ref = Sem /\ Made(a, Mem[Sem], writes[t][Sem])
        /\ o.ref = Map /\ Made(o, Mem[Map], writes[t][Map]) /\ o.key \in DOMAIN InitVal[Map]
    BY <2>2, <2>3, BodyApplied DEF WellFormed, Changes
  <2>5. writes[t][Sem] = <<Mem[Sem][1] + 1>>
    <3>1. Outcome(a, Mem[Sem]) = Release(Mem[Sem]) BY <2>2 DEF Outcome
    <3>2. QED BY <2>4, <3>1 DEF Made, Release, Write
  <2>6. writes[t][Map] = [Mem[Map] EXCEPT ![o.key] = Absent]
    <3>1. Outcome(o, Mem[Map]) = Delete(Mem[Map], o.key) BY <2>3 DEF Outcome
    <3>2. QED BY <2>4, <3>1 DEF Made, Delete, Write
  <2>7. Mem'[Sem] = <<Mem[Sem][1] + 1>> /\ Mem'[Map] = [Mem[Map] EXCEPT ![o.key] = Absent]
    <3>1. <<Mem[Sem][1] + 1>> \in Seq(Nat) BY <1>4
    <3>2. [Mem[Map] EXCEPT ![o.key] = Absent] \in Seq(Nat) BY <1>3, <2>4 DEF Absent
    <3>3. writes[t][Sem] # NoVal /\ writes[t][Map] # NoVal
      BY <2>5, <2>6, <3>1, <3>2, ProgramsConstants
    <3>4. QED BY <1>2, <2>5, <2>6, <3>3, BodyApplied
  <2>8. Mem[Map][o.key] # Absent
    <3>1. KeyOf(t, o.key) BY <1>7, <2>3
    <3>2. QED BY <1>1, <1>2, <2>1, <2>4, <3>1 DEF KeysThere
  <2>9. Registered' = Registered \ {o.key} /\ o.key \in Registered
    BY <1>3, <2>4, <2>7, <2>8 DEF Registered
  <2>10. Cardinality(Registered') = Cardinality(Registered) - 1 /\ Cardinality(Registered) \in Nat
    <3>1. IsFiniteSet(Registered) BY <1>5, <1>6, FS_Subset
    <3>2. QED BY <2>9, <3>1, FS_RemoveElement, FS_CardinalityType
  <2>11. PermitsMatchMap'
    <3>1. Mem'[Sem][1] = Mem[Sem][1] + 1 BY <2>7
    <3>2. QED BY <1>2, <1>4, <2>10, <3>1 DEF PermitsMatchMap
  <2>12. ASSUME NEW k \in DOMAIN InitVal[Map]
         PROVE  Mem'[Map][k] # Absent
                  <=> \E u \in Threads : KeyOf(u, k) /\ Inside(u, Effective(u)')
    <3>1. CASE k = o.key
      <4>1. Mem'[Map][k] = Absent BY <1>3, <2>7, <3>1
      <4>2. \A u \in Threads : KeyOf(u, k) => u = t BY <1>7, <2>3, <3>1
      <4>3. QED BY <1>1, <2>1, <4>1, <4>2
    <3>2. CASE k # o.key
      <4>1. Mem'[Map][k] = Mem[Map][k] BY <1>3, <2>7, <3>2
      <4>2. ~KeyOf(t, k) BY <1>8, <2>3, <3>2
      <4>3. QED BY <1>1, <1>2, <4>1, <4>2 DEF KeysThere
    <3>3. QED BY <3>1, <3>2
  <2>13. KeysThere' BY <2>12 DEF KeysThere, KeyOf, Inside
  <2>14. QED BY <2>11, <2>13
<1>13. QED BY <1>10, <1>11, <1>12

\* The transaction takes effect.
LEMMA PValidatedOk ==
  ASSUME ProgramsIInv, StmInv', NEW t \in Threads, PValidated(t)
  PROVE  ProgramsIInv'
<1>1. Validated(t) /\ at' = at BY DEF PValidated
<1>2. /\ pc[t] = "validate" /\ pc' = [pc EXCEPT ![t] = "apply"] /\ runs' = runs /\ data' = data
      /\ seen' = seen /\ shadow' = shadow /\ writes' = writes /\ pc \in [Threads -> PCs]
  BY <1>1 DEF Validated, log, ProgramsIInv, StmInv, TypeOK
<1>3. ProgramsTyped'
  <2>1. offered' \in [Queues -> Seq(Nat)] /\ taken' \in [Queues -> Seq(Nat)] BY FifoKept
  <2>2. \A u \in Threads : pc'[u] # "idle" => pc[u] # "idle" BY <1>2
  <2>3. QED BY <1>1, <1>2, <2>1, <2>2 DEF ProgramsIInv, ProgramsTyped, Fits
<1>4. LogsMade'
  <2>1. ASSUME NEW u \in Threads
        PROVE  /\ pc'[u] \in {"body", "lock", "validate"} => LogMade(u)'
               /\ pc'[u] \in {"lock", "validate"} => at'[u] = Len(Body(u)') + 1
    <3>1. CASE u = t BY <1>2, <3>1
    <3>2. CASE u # t
      <4>1. pc'[u] = pc[u] BY <1>2, <3>2
      <4>2. Body(u)' = Body(u) BY <1>2 DEF Body
      <4>3. LogMade(u) => LogMade(u)' BY <1>1, <1>2, <4>2 DEF LogMade
      <4>4. QED BY <1>1, <4>1, <4>2, <4>3 DEF ProgramsIInv, LogsMade
    <3>3. QED BY <3>1, <3>2
  <2>2. QED BY <2>1 DEF LogsMade
<1>5. \A r \in TRefs : Fits(r, Mem'[r])
  BY <1>1, BodyApplied DEF ProgramsIInv, StoreMade, ProgramsTyped
<1>6. StoreMade' BY <1>1, <1>5, FifoKept, PermitsKept DEF StoreMade, ProgramsInv, Fits
<1>7. QED BY <1>3, <1>4, <1>6 DEF ProgramsIInv

\* Every step keeps it.
LEMMA ProgramsNextOk == ProgramsIInv /\ [PNext]_pvars => ProgramsIInv'
<1> SUFFICES ASSUME ProgramsIInv, [PNext]_pvars PROVE ProgramsIInv' OBVIOUS
<1>1. StmInv' BY ProgramsStep, StepInv DEF ProgramsIInv
<1>2. CASE UNCHANGED pvars
  <2>1. UNCHANGED <<data, lock, pc, runs, seen, shadow, writes, at, offered, taken>>
    BY <1>2 DEF pvars, vars
  <2>2. Mem' = Mem BY <2>1 DEF Mem
  <2>3. \A t \in Threads : LogMade(t) => LogMade(t)' BY <2>1 DEF LogMade, Body
  <2>4. LogsMade' BY <2>1, <2>3 DEF ProgramsIInv, LogsMade, Body
  <2>5. ProgramsTyped' BY <2>1 DEF ProgramsIInv, ProgramsTyped, Fits
  <2>6. \A t \in Threads : Effective(t)' = Effective(t) BY <2>1 DEF Effective
  <2>7. KeysThere' BY <2>2, <2>6 DEF ProgramsIInv, StoreMade, KeysThere, KeyOf, Inside
  <2>8. StoreMade'
    BY <2>1, <2>2, <2>7 DEF ProgramsIInv, StoreMade, ProgramsInv, QueuesAreFifo, PermitsMatchMap,
                            Registered, Fits
  <2>9. QED BY <1>1, <2>4, <2>5, <2>8 DEF ProgramsIInv
<1>3. ASSUME NEW t \in Threads, Step(t) PROVE ProgramsIInv'
  <2>1. CASE PTryCommit(t)
    BY <1>1, <2>1, PStartOverOk, PCommitOk, PApplyOk DEF PTryCommit
  <2>2. CASE PBodyDone(t) BY <1>1, <2>2, PCommitOk DEF PBodyDone
  <2>3. QED BY <1>1, <1>3, <2>1, <2>2, PBeginOk, OperationOk, PValidatedOk DEF Step
<1>4. QED BY <1>2, <1>3 DEF PNext, Terminated, pvars

\* Transactions that span several structures are all or nothing: queues stay first in, first
\* out and bounded, and permits and keys change together, for any number of threads, calls,
\* queues, elements, permits and keys (stm/mod.rs, TQueue, TSemaphore and TMap over commit).
THEOREM ProgramsInvariant == PSpec => []ProgramsInv
<1>1. ProgramsIInv => ProgramsInv BY DEF ProgramsIInv, StoreMade
<1>2. QED BY <1>1, ProgramsInitOk, ProgramsNextOk, PTL DEF PSpec
==============================================================================
