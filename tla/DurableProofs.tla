---------------------------- MODULE DurableProofs ----------------------------
(***************************************************************************)
(* What survives a failure: SQL transactions, the workflow journal, the    *)
(* job runner, sagas and the outbox.                                       *)
(***************************************************************************)
EXTENDS SqlTransaction, Workflow, Jobs, Saga, Outbox, ProofLemmas

(***************************************************************************)
(* SQL transactions.                                                       *)
(***************************************************************************)

\* Each connection is in the pool or with one call.
SqShared ==
  /\ \A i \in SqCalls : sqconn[i] \notin sqfree
  /\ \A c \in SqConns \ sqfree : \E i \in SqCalls : sqconn[i] = c
  /\ \A i, j \in SqCalls : i # j /\ sqconn[i] = sqconn[j] => sqconn[i] = SqNone

\* A call has a connection from begin until its transaction is finished or dropped,
\* and what it finished is noted once.
SqFinished ==
  /\ \A i \in SqCalls :
       /\ sqconn[i] # SqNone => sqat[i] \in {"body", "commit", "rollback"} /\ i \notin sqfin
       /\ sqat[i] \in {"body", "commit", "rollback"} /\ i \notin sqfin => sqconn[i] # SqNone
       /\ sqat[i] = "Ok" => <<i, "COMMIT">> \in sqended
       /\ sqat[i] = "idle" => i \notin sqfin
  /\ \A e \in sqended : e[1] \in sqfin
  /\ \A e, f \in sqended : e[1] = f[1] => e = f

\* As long as no transaction was left open, no statement is pending in one.
SqPending ==
  /\ sqopen \cap sqfree \subseteq sqleft
  /\ sqleft = {} => \A c \in SqConns : sqpend[c] = {}

\* The statements executed so far.
SqExecuted == {w \in SqStatements : w[2] <= sqsent[w[1]]}

\* The inductive invariant.
SqlIInv == /\ SqlTypeOK /\ SqShared /\ SqFinished /\ SqPending
           /\ sqleft = {} => sqdurable = SqExecuted

\* It holds at the start.
LEMMA SqlInitOk == SqlInit => SqlIInv
<1> SUFFICES ASSUME SqlInit PROVE SqlIInv OBVIOUS
<1> USE SqlAssumption DEF SqlInit
<1>1. SqlTypeOK BY DEF SqlTypeOK
<1>2. SqShared /\ SqFinished /\ SqPending BY DEF SqShared, SqFinished, SqPending
<1>3. sqdurable = SqExecuted
  <2>1. \A w \in SqStatements : w[1] \in SqCalls /\ w[2] \in 1..SqWrites BY DEF SqStatements
  <2>2. \A w \in SqStatements : sqsent[w[1]] = 0 BY <2>1
  <2>3. QED BY <2>1, <2>2 DEF SqExecuted
<1>4. QED BY <1>1, <1>2, <1>3 DEF SqlIInv

\* A connection goes back to the pool, or there was none to go back.
SqGivesBack(i) == /\ sqconn' = [sqconn EXCEPT ![i] = SqNone]
                  /\ sqfree' = sqfree \cup ({sqconn[i]} \ {SqNone})

\* Then connections are still in one place.
LEMMA GivenBack ==
  ASSUME SqlTypeOK, SqShared, NEW i \in SqCalls, SqGivesBack(i)
  PROVE  /\ SqShared' /\ sqfree' \subseteq SqConns /\ sqconn' \in [SqCalls -> SqConns \cup {SqNone}]
         /\ sqconn'[i] = SqNone /\ \A j \in SqCalls \ {i} : sqconn'[j] = sqconn[j]
<1>1. /\ sqconn' \in [SqCalls -> SqConns \cup {SqNone}] /\ sqfree' \subseteq SqConns
      /\ sqconn'[i] = SqNone /\ \A j \in SqCalls \ {i} : sqconn'[j] = sqconn[j]
  BY DEF SqlTypeOK, SqGivesBack
<1>2. \A j \in SqCalls : sqconn'[j] \notin sqfree'
  BY <1>1, SqlAssumption DEF SqlTypeOK, SqShared, SqGivesBack
<1>3. \A c \in SqConns \ sqfree' : \E j \in SqCalls : sqconn'[j] = c
  BY <1>1, SqlAssumption DEF SqlTypeOK, SqShared, SqGivesBack
<1>4. \A k, j \in SqCalls : k # j /\ sqconn'[k] = sqconn'[j] => sqconn'[k] = SqNone
  BY <1>1 DEF SqShared
<1>5. QED BY <1>1, <1>2, <1>3, <1>4 DEF SqShared

\* COMMIT or ROLLBACK, wherever it is called from.
LEMMA FinishOk ==
  ASSUME SqlIInv, NEW i \in SqCalls, NEW how \in {"COMMIT", "ROLLBACK"},
         sqat[i] \in {"body", "commit", "rollback"},
         SqFinish(i, how) \/ SqFinishFails(i, how)
  PROVE  /\ SqGivesBack(i) /\ sqconn[i] \in SqConns
         /\ sqopen' \subseteq SqConns /\ sqleft' \subseteq SqConns
         /\ sqpend' \in [SqConns -> SUBSET SqStatements] /\ sqdurable' \subseteq SqStatements
         /\ sqfin' = sqfin \cup {i} /\ sqsent' = sqsent
         /\ SqPending' /\ (sqleft' = {} => sqdurable' = SqExecuted')
<1> USE SqlAssumption
<1>1. /\ SqlTypeOK /\ SqShared /\ SqFinished /\ SqPending /\ i \notin sqfin /\ sqconn[i] # SqNone
      /\ sqconn[i] \in SqConns /\ sqfin' = sqfin \cup {i} /\ sqsent' = sqsent
  BY DEF SqlIInv, SqlTypeOK, SqFinished, SqFinish, SqFinishFails
<1>2. SqGivesBack(i) BY <1>1 DEF SqGivesBack, SqFinish, SqFinishFails
<1>3. sqopen' \subseteq SqConns /\ sqleft' \subseteq SqConns
  BY <1>1 DEF SqlTypeOK, SqFinish, SqFinishFails
<1>4. sqpend' \in [SqConns -> SUBSET SqStatements]
  BY <1>1 DEF SqlTypeOK, SqFinish, SqFinishFails
<1>5. sqdurable' \subseteq SqStatements BY <1>1 DEF SqlTypeOK, SqFinish, SqFinishFails
<1>6. SqPending'
  <2>1. CASE SqFinish(i, how) BY <1>1, <2>1 DEF SqlTypeOK, SqPending, SqFinish
  <2>2. CASE SqFinishFails(i, how) BY <1>1, <2>2 DEF SqlTypeOK, SqPending, SqFinishFails
  <2>3. QED BY <2>1, <2>2
<1>7. sqleft' = {} => sqdurable' = SqExecuted'
  <2>1. CASE SqFinish(i, how)
    <3>1. SqExecuted' = SqExecuted BY <1>1 DEF SqExecuted
    <3>2. sqleft' = sqleft /\ (sqleft = {} => sqdurable' = sqdurable)
      BY <1>1, <2>1 DEF SqPending, SqFinish
    <3>3. QED BY <3>1, <3>2 DEF SqlIInv
  <2>2. CASE SqFinishFails(i, how) BY <2>2 DEF SqFinishFails
  <2>3. QED BY <2>1, <2>2
<1>8. QED BY <1>1, <1>2, <1>3, <1>4, <1>5, <1>6, <1>7

\* The steps of one call.
LEMMA SqlStepOk ==
  ASSUME SqlIInv, SqlNext
  PROVE  SqlIInv'
<1> USE SqlAssumption
<1>0. SqlTypeOK /\ SqShared /\ SqFinished /\ SqPending /\ (sqleft = {} => sqdurable = SqExecuted)
  BY DEF SqlIInv
<1>1. ASSUME NEW i \in SqCalls, NEW c \in SqConns, SqBegin(i, c) PROVE SqlIInv'
  <2>1. SqlTypeOK' BY <1>0, <1>1 DEF SqlTypeOK, SqBegin, SqGo
  <2>2. SqShared'
    <3>1. /\ sqconn'[i] = c /\ \A j \in SqCalls \ {i} : sqconn'[j] = sqconn[j]
          /\ sqfree' = sqfree \ {c} /\ c \in sqfree /\ sqconn[i] = SqNone
      BY <1>0, <1>1 DEF SqlTypeOK, SqFinished, SqBegin, SqGo
    <3>2. \A j \in SqCalls : sqconn'[j] \notin sqfree' BY <1>0, <3>1 DEF SqShared
    <3>3. \A d \in SqConns \ sqfree' : \E j \in SqCalls : sqconn'[j] = d BY <1>0, <3>1 DEF SqShared
    <3>4. \A k, j \in SqCalls : k # j /\ sqconn'[k] = sqconn'[j] => sqconn'[k] = SqNone
      BY <1>0, <3>1 DEF SqShared
    <3>5. QED BY <3>2, <3>3, <3>4 DEF SqShared
  <2>3. SqFinished' BY <1>0, <1>1 DEF SqlTypeOK, SqFinished, SqBegin, SqGo
  <2>4. SqPending' BY <1>0, <1>1 DEF SqlTypeOK, SqPending, SqBegin
  <2>5. QED BY <1>0, <1>1, <2>1, <2>2, <2>3, <2>4 DEF SqlIInv, SqBegin, SqExecuted
<1>2. ASSUME NEW i \in SqCalls, NEW c \in SqConns, SqExecute(i, c) PROVE SqlIInv'
  <2> DEFINE w == <<i, sqsent[i] + 1>>
  <2>1. /\ sqsent[i] \in Nat /\ sqsent[i] < SqWrites /\ sqsent' = [sqsent EXCEPT ![i] = @ + 1]
        /\ UNCHANGED <<sqat, sqfree, sqconn, sqfin, sqopen, sqended, sqleft>> /\ c \in sqfree
        /\ \/ c \in sqopen /\ sqpend' = [sqpend EXCEPT ![c] = @ \cup {w}] /\ UNCHANGED sqdurable
           \/ c \notin sqopen /\ sqdurable' = sqdurable \cup {w} /\ UNCHANGED sqpend
    BY <1>0, <1>2 DEF SqlTypeOK, SqExecute
  <2>2. w \in SqStatements BY <2>1 DEF SqStatements
  <2>3. SqExecuted' = SqExecuted \cup {w}
    <3>1. \A v \in SqStatements : /\ v = <<v[1], v[2]>> /\ v[1] \in SqCalls /\ v[2] \in Nat
                                  /\ sqsent[v[1]] \in Nat
      BY <1>0 DEF SqStatements, SqlTypeOK
    <3>2. \A v \in SqStatements :
             v[2] <= sqsent'[v[1]] <=> v[2] <= sqsent[v[1]] \/ (v[1] = i /\ v[2] = sqsent[i] + 1)
      BY <1>0, <2>1, <3>1 DEF SqlTypeOK
    <3>3. \A v \in SqStatements : v[1] = i /\ v[2] = sqsent[i] + 1 <=> v = w BY <3>1
    <3>4. QED BY <2>2, <3>2, <3>3 DEF SqExecuted
  <2> HIDE DEF w
  <2>4. SqlTypeOK'
    <3>1. sqsent' \in [SqCalls -> 0..SqWrites] BY <1>0, <2>1 DEF SqlTypeOK
    <3>2. sqpend' \in [SqConns -> SUBSET SqStatements] /\ sqdurable' \subseteq SqStatements
      BY <1>0, <2>1, <2>2 DEF SqlTypeOK
    <3>3. QED BY <1>0, <2>1, <3>1, <3>2 DEF SqlTypeOK
  <2>5. SqShared' /\ SqFinished' BY <1>0, <2>1 DEF SqShared, SqFinished
  <2>6. sqleft = {} => c \notin sqopen BY <1>0, <2>1 DEF SqPending
  <2>7. SqPending' BY <1>0, <2>1, <2>6 DEF SqPending
  <2>8. QED BY <1>0, <2>1, <2>3, <2>4, <2>5, <2>6, <2>7 DEF SqlIInv
<1>3. ASSUME NEW i \in SqCalls, SqBeginFails(i) PROVE SqlIInv'
  <2>1. SqlTypeOK' BY <1>0, <1>3 DEF SqlTypeOK, SqBeginFails, SqGo
  <2>2. SqFinished' BY <1>0, <1>3 DEF SqlTypeOK, SqFinished, SqBeginFails, SqGo
  <2>3. QED BY <1>0, <1>3, <2>1, <2>2 DEF SqlIInv, SqBeginFails, SqShared, SqPending, SqExecuted
<1>4. ASSUME NEW i \in SqCalls, NEW ok \in BOOLEAN, SqBody(i, ok) PROVE SqlIInv'
  <2>1. SqlTypeOK' BY <1>0, <1>4 DEF SqlTypeOK, SqBody, SqGo
  <2>2. SqFinished' BY <1>0, <1>4 DEF SqlTypeOK, SqFinished, SqBody, SqGo
  <2>3. QED BY <1>0, <1>4, <2>1, <2>2 DEF SqlIInv, SqBody, SqShared, SqPending, SqExecuted
<1>5. ASSUME NEW i \in SqCalls, NEW how \in {"COMMIT", "ROLLBACK"}, NEW to \in {"body", "Ok", "Err"},
             sqat[i] \in {"body", "commit", "rollback"},
             \/ to = "body" /\ UNCHANGED sqat
             \/ to # "body" /\ sqat' = [sqat EXCEPT ![i] = to],
             \/ SqFinish(i, how) /\ (to = "Ok" => how = "COMMIT")
             \/ SqFinishFails(i, how) /\ to # "Ok"
      PROVE  SqlIInv'
  <2>1. /\ SqGivesBack(i) /\ sqconn[i] \in SqConns
        /\ sqopen' \subseteq SqConns /\ sqleft' \subseteq SqConns
        /\ sqpend' \in [SqConns -> SUBSET SqStatements] /\ sqdurable' \subseteq SqStatements
        /\ sqfin' = sqfin \cup {i} /\ sqsent' = sqsent
        /\ SqPending' /\ (sqleft' = {} => sqdurable' = SqExecuted')
    BY <1>5, FinishOk
  <2>2. /\ SqShared' /\ sqfree' \subseteq SqConns /\ sqconn' \in [SqCalls -> SqConns \cup {SqNone}]
        /\ sqconn'[i] = SqNone /\ \A j \in SqCalls \ {i} : sqconn'[j] = sqconn[j]
    BY <1>0, <2>1, GivenBack
  <2>3. /\ sqat' \in [SqCalls -> {"idle", "body", "commit", "rollback", "Ok", "Err", "dropped"}]
        /\ \A j \in SqCalls \ {i} : sqat'[j] = sqat[j]
        /\ (sqat'[i] = "Ok" => to = "Ok") /\ sqat'[i] # "idle"
    BY <1>0, <1>5 DEF SqlTypeOK
  <2>4. /\ sqended' \subseteq sqended \cup {<<i, how>>} /\ sqended \subseteq sqended'
        /\ to = "Ok" => <<i, "COMMIT">> \in sqended' /\ i \notin sqfin
    BY <1>5 DEF SqFinish, SqFinishFails
  <2>5. SqlTypeOK'
    <3>1. sqended' \subseteq SqCalls \X {"COMMIT", "ROLLBACK"} BY <1>0, <2>4 DEF SqlTypeOK
    <3>2. QED BY <1>0, <2>1, <2>2, <2>3, <3>1 DEF SqlTypeOK
  <2>6. SqFinished'
    <3>1. i \notin sqfin BY <1>5 DEF SqFinish, SqFinishFails
    <3>2. \A e \in sqended : e[1] # i BY <1>0, <3>1 DEF SqFinished
    <3>3. \A e \in sqended' : e \in sqended \/ e = <<i, how>> BY <2>4
    <3>4. /\ \A e \in sqended' : e[1] \in sqfin'
          /\ \A e, f \in sqended' : e[1] = f[1] => e = f
      BY <1>0, <2>1, <3>2, <3>3 DEF SqFinished
    <3>5. ASSUME NEW j \in SqCalls
          PROVE  /\ sqconn'[j] # SqNone => sqat'[j] \in {"body", "commit", "rollback"} /\ j \notin sqfin'
                 /\ sqat'[j] \in {"body", "commit", "rollback"} /\ j \notin sqfin' => sqconn'[j] # SqNone
                 /\ sqat'[j] = "Ok" => <<j, "COMMIT">> \in sqended'
                 /\ sqat'[j] = "idle" => j \notin sqfin'
      <4>1. CASE j = i BY <4>1, <2>1, <2>2, <2>3, <2>4
      <4>2. CASE j # i BY <4>2, <1>0, <2>1, <2>2, <2>3, <2>4 DEF SqFinished
      <4>3. QED BY <4>1, <4>2
    <3>6. QED BY <3>4, <3>5 DEF SqFinished
  <2>7. QED BY <2>1, <2>2, <2>5, <2>6 DEF SqlIInv
<1>6. ASSUME NEW i \in SqCalls, SqRefused(i), NEW from \in {"commit", "rollback"}, SqGo(i, from, "Err")
      PROVE  SqlIInv'
  <2>1. SqlTypeOK' BY <1>0, <1>6 DEF SqlTypeOK, SqRefused, SqGo
  <2>2. SqFinished' BY <1>0, <1>6 DEF SqlTypeOK, SqFinished, SqRefused, SqGo
  <2>3. QED BY <1>0, <1>6, <2>1, <2>2 DEF SqlIInv, SqRefused, SqShared, SqPending, SqExecuted
<1>7. ASSUME NEW i \in SqCalls, SqDrop(i) PROVE SqlIInv'
  <2>1. SqGivesBack(i) BY <1>7 DEF SqDrop, SqGivesBack
  <2>2. /\ SqShared' /\ sqfree' \subseteq SqConns /\ sqconn' \in [SqCalls -> SqConns \cup {SqNone}]
        /\ sqconn'[i] = SqNone /\ \A j \in SqCalls \ {i} : sqconn'[j] = sqconn[j]
    BY <1>0, <2>1, GivenBack
  <2>3. sqopen' \subseteq SqConns /\ sqleft' \subseteq SqConns /\ sqconn[i] \in SqConns \cup {SqNone}
    BY <1>0, <1>7 DEF SqlTypeOK, SqDrop
  <2>4. sqpend' \in [SqConns -> SUBSET SqStatements] BY <1>0, <1>7 DEF SqlTypeOK, SqDrop
  <2>5. sqdurable' \subseteq SqStatements BY <1>0, <1>7 DEF SqlTypeOK, SqDrop
  <2>6. sqat' \in [SqCalls -> {"idle", "body", "commit", "rollback", "Ok", "Err", "dropped"}]
    BY <1>0, <1>7 DEF SqlTypeOK, SqDrop
  <2>7. SqlTypeOK' BY <1>0, <1>7, <2>2, <2>3, <2>4, <2>5, <2>6 DEF SqlTypeOK, SqDrop
  <2>8. SqFinished' BY <1>0, <1>7, <2>2 DEF SqlTypeOK, SqFinished, SqDrop
  <2>9. SqPending' /\ (sqleft' = {} => sqdurable' = SqExecuted')
    <3>1. CASE sqconn[i] = SqNone
      <4>1. UNCHANGED <<sqfree, sqleft, sqopen, sqpend, sqdurable, sqsent>>
        BY <1>0, <1>7, <3>1 DEF SqDrop, SqlTypeOK
      <4>2. QED BY <1>0, <4>1 DEF SqPending, SqExecuted
    <3>2. CASE sqconn[i] # SqNone
      <4>1. sqconn[i] \in sqleft' /\ sqleft' = sqleft \cup {sqconn[i]} /\ sqfree' = sqfree \cup {sqconn[i]}
            /\ sqopen' \subseteq sqopen
        BY <1>7, <3>2 DEF SqDrop
      <4>2. QED BY <1>0, <4>1 DEF SqPending
    <3>3. QED BY <3>1, <3>2
  <2>10. QED BY <2>2, <2>7, <2>8, <2>9 DEF SqlIInv
<1>8. ASSUME NEW i \in SqCalls, SqCommit(i) PROVE SqlIInv'
  BY <1>5, <1>6, <1>8 DEF SqCommit, SqGo
<1>9. ASSUME NEW i \in SqCalls, SqRollback(i) PROVE SqlIInv'
  BY <1>5, <1>6, <1>9 DEF SqRollback, SqGo
<1>10. ASSUME NEW i \in SqCalls, NEW how \in {"COMMIT", "ROLLBACK"}, SqBodyEnds(i, how) PROVE SqlIInv'
  BY <1>5, <1>10 DEF SqBodyEnds
<1>11. ASSUME NEW i \in SqCalls, NEW c \in SqConns, SqBeginLost(i, c) PROVE SqlIInv'
  <2>1. SqlTypeOK' BY <1>0, <1>11 DEF SqlTypeOK, SqBeginLost, SqGo
  <2>2. SqFinished' BY <1>0, <1>11 DEF SqlTypeOK, SqFinished, SqBeginLost, SqGo
  <2>3. SqPending' /\ sqleft' # {} BY <1>0, <1>11 DEF SqlTypeOK, SqPending, SqBeginLost
  <2>4. SqShared' BY <1>0, <1>11 DEF SqShared, SqBeginLost
  <2>5. QED BY <2>1, <2>2, <2>3, <2>4 DEF SqlIInv
<1>12. QED BY <1>1, <1>2, <1>3, <1>4, <1>7, <1>8, <1>9, <1>10, <1>11 DEF SqlNext

\* Each connection has one place, each transaction one end, and a statement is durable
\* as soon as it is executed, whether its body fails or not, for any number of calls,
\* connections and statements (transaction.rs, with_transaction; id_effect_sql_pg,
\* take_conn and execute).
THEOREM SqlInvariant == SqlSpec => []SqlInv
<1>1. SqlIInv /\ [SqlNext]_sqvars => SqlIInv'
  <2> SUFFICES ASSUME SqlIInv, [SqlNext]_sqvars PROVE SqlIInv' OBVIOUS
  <2>1. CASE UNCHANGED sqvars
    BY <2>1 DEF sqvars, SqlIInv, SqlTypeOK, SqShared, SqFinished, SqPending, SqExecuted
  <2>2. QED BY <2>1, SqlStepOk
<1>2. SqlIInv => SqlInv
  <2> SUFFICES ASSUME SqlIInv PROVE SqlInv OBVIOUS
  <2>1. SqHeld \cap sqfree = {} /\ SqHeld \cup sqfree = SqConns
    BY SqlAssumption DEF SqHeld, SqlIInv, SqlTypeOK, SqShared
  <2>2. ASSUME NEW i \in SqCalls PROVE Cardinality({e \in sqended : e[1] = i}) <= 1
    <3>1. \A e, f \in {e \in sqended : e[1] = i} : e = f BY DEF SqlIInv, SqFinished
    <3>2. QED BY <3>1, AtMostOne
  <2>3. \A i \in SqCalls : sqat[i] \in {"Ok", "Err"} => sqconn[i] = SqNone
    BY DEF SqlIInv, SqFinished
  <2>4. QED BY <2>1, <2>2, <2>3 DEF SqlIInv, SqlInv, SqShared, SqFinished, SqPending, SqExecuted
<1>3. QED BY <1>1, <1>2, SqlInitOk, PTL DEF SqlSpec

(***************************************************************************)
(* The durable workflow journal.                                           *)
(***************************************************************************)

WfWorking == {"begin", "look", "compute", "insert"}
WfHolding == {"look", "compute", "insert"}

\* The journal has no gap, and no worker is ahead of it.
WfDense == /\ WfCount \in 0..WfSteps + 1
           /\ DOMAIN wflog = 0..WfCount - 1
           /\ \A w \in WfWorkers : /\ wfat[w] \in WfWorking => wfseq[w] <= WfCount
                                   /\ wfat[w] = "load" => wfseq[w] < WfCount

\* SQLite: the one worker in a transaction holds the lock, computes only what the
\* journal lacks, and every computation that is not stored was cut off by a crash.
WfLocked ==
  wfbackend = "sqlite" =>
     /\ \A w \in WfWorkers : wflock = w <=> wfat[w] \in WfHolding
     /\ \A w \in WfWorkers : wfat[w] \in {"compute", "insert"} => wfseq[w] \notin DOMAIN wflog
     /\ \A n \in WfSeqs : wfran[n] <= 1 + wfcrashes
     /\ \A n \in WfSeqs :
          n \notin DOMAIN wflog /\ (\A w \in WfWorkers : wfat[w] = "insert" => wfseq[w] # n)
            => wfran[n] <= wfcrashes

\* The transition that leads from the end of the journal to the state x.
WfNextState(x) ==
  WfCount > 0 => \E e \in WfEvents : /\ wflog[WfCount - 1] \in DOMAIN WfTable[e]
                                     /\ x = WfTable[e][wflog[WfCount - 1]]

\* A worker that is alone is at the end of the journal.
WfAlone ==
  ~wfshared =>
     /\ wfskipped = 0
     /\ \A u, w \in WfWorkers : wfat[u] # "new" /\ wfat[w] # "new" => u = w
     /\ \A n \in DOMAIN wflog : n > 0 =>
          \E e \in WfEvents : wflog[n-1] \in DOMAIN WfTable[e]
                              /\ wflog[n] = WfTable[e][wflog[n-1]]
     /\ \A w \in WfWorkers :
          /\ wfat[w] = "load" => wfseq[w] = WfCount - 1
          /\ wfat[w] = "ready" => WfCount > 0
          /\ wfat[w] \in WfWorking => wfseq[w] = WfCount /\ WfNextState(wfnew[w])
          /\ wfat[w] \in WfWorking \cup {"ready"} /\ WfCount > 0 => wfmem[w] = wflog[WfCount - 1]

\* A registered workflow gets its first entry unless a crash comes between.
WfStarted ==
  /\ ~wfreg => WfCount = 0 /\ \A w \in WfWorkers : wfat[w] = "new"
  /\ wfreg /\ WfCount = 0 =>
       \/ wfcrashes > 0
       \/ \E w \in WfWorkers : wfseq[w] = 0 /\ wfat[w] \in WfWorking

\* The inductive invariant.
WorkflowIInv == /\ WorkflowTypeOK /\ WfDense /\ SnapshotsAgree /\ WfLocked /\ WfAlone /\ WfStarted

\* The number of entries of a journal without gaps.
LEMMA DenseCount ==
  ASSUME NEW k \in Nat
  PROVE  IsFiniteSet(0..k - 1) /\ Cardinality(0..k - 1) = k
<1>1. 0 \in Int /\ k - 1 \in Int OBVIOUS
<1>2. IsFiniteSet(0..k - 1) /\ Cardinality(0..k - 1) = IF 0 > k - 1 THEN 0 ELSE (k - 1) - 0 + 1
  BY <1>1, FS_Interval
<1>3. QED BY <1>2

\* It holds at the start.
LEMMA WorkflowInitOk == WorkflowInit => WorkflowIInv
<1> SUFFICES ASSUME WorkflowInit PROVE WorkflowIInv OBVIOUS
<1> USE WorkflowAssumption DEF WorkflowInit, WfSeqs, WfPlaces
<1>1. DOMAIN wflog = {} /\ WfCount = 0 BY FS_EmptySet DEF WfCount
<1>2. WorkflowTypeOK
  <2>1. wfreg \in BOOLEAN /\ wfshared \in BOOLEAN OBVIOUS
  <2>2. Range(wflog) = {} BY <1>1 DEF Range
  <2>3. 0 \in 0..WfSteps /\ 0 \in 0..WfCrashes OBVIOUS
  <2>4. wfmem \in [WfWorkers -> WfStates] /\ wfnew \in [WfWorkers -> WfStates] OBVIOUS
  <2>5. QED BY <1>1, <2>1, <2>2, <2>3, <2>4 DEF WorkflowTypeOK
<1>3. WfDense BY <1>1 DEF WfDense, WfWorking
<1>4. SnapshotsAgree BY DEF SnapshotsAgree
<1>5. WfLocked BY <1>1 DEF WfLocked, WfHolding
<1>6. WfAlone BY <1>1 DEF WfAlone, WfWorking
<1>7. WfStarted BY <1>1 DEF WfStarted
<1>8. QED BY <1>2, <1>3, <1>4, <1>5, <1>6, <1>7 DEF WorkflowIInv

\* Registration and restoration.
LEMMA WorkflowRestoreOk ==
  ASSUME WorkflowIInv, NEW w \in WfWorkers, WfRegister(w) \/ WfRestore(w) \/ WfLoad(w)
  PROVE  WorkflowIInv'
<1> USE WorkflowAssumption DEF wfhist, WfGo
<1>0. /\ WorkflowTypeOK /\ WfDense /\ SnapshotsAgree /\ WfLocked /\ WfAlone /\ WfStarted
      /\ WfCount \in Nat
  BY DEF WorkflowIInv, WfDense
<1>1. UNCHANGED <<wfbackend, wflog, wflock, wfnew, wfran, wfskipped, wfcrashes>> \/ WfRegister(w)
  BY DEF WfRestore, WfLoad
<1>2. UNCHANGED <<wflog, wfbackend, wflock, wfran, wfskipped, wfcrashes>> /\ WfCount' = WfCount
  BY DEF WfRegister, WfRestore, WfLoad, WfCount
<1>3. CASE WfRegister(w)
  <2>1. WorkflowTypeOK'
    <3>1. wfshared' \in BOOLEAN /\ wfreg' \in BOOLEAN BY <1>0, <1>3 DEF WfRegister, WorkflowTypeOK
    <3>2. wfat' \in [WfWorkers -> WfPlaces] BY <1>0, <1>3 DEF WfRegister, WorkflowTypeOK, WfPlaces
    <3>3. wfseq' \in [WfWorkers -> WfSeqs] /\ wfnew' \in [WfWorkers -> WfStates]
      BY <1>0, <1>3 DEF WfRegister, WorkflowTypeOK, WfSeqs
    <3>4. QED BY <1>0, <1>3, <3>1, <3>2, <3>3 DEF WfRegister, WorkflowTypeOK
  <2>2. WfDense' BY <1>0, <1>2, <1>3 DEF WorkflowTypeOK, WfDense, WfRegister, WfWorking
  <2>3. SnapshotsAgree' BY <1>0, <1>3 DEF WfRegister, SnapshotsAgree
  <2>4. WfLocked' BY <1>0, <1>2, <1>3 DEF WorkflowTypeOK, WfLocked, WfRegister, WfHolding
  <2>5. WfAlone'
    <3> SUFFICES ASSUME ~wfshared' PROVE WfAlone' BY DEF WfAlone
    <3>1. ~wfshared /\ \A u \in WfWorkers \ {w} : wfat[u] = "new" BY <1>3 DEF WfRegister
    <3>2. \A u \in WfWorkers \ {w} : wfat'[u] = "new" BY <1>0, <1>3, <3>1 DEF WfRegister, WorkflowTypeOK
    <3>3. CASE wfreg
      <4>1. wfat'[w] = "count" BY <1>0, <1>3, <3>3 DEF WfRegister, WorkflowTypeOK
      <4>2. QED BY <1>0, <1>2, <3>1, <3>2, <4>1 DEF WfAlone, WfWorking
    <3>4. CASE ~wfreg
      <4>1. wfat'[w] = "begin" /\ wfseq'[w] = 0 /\ WfCount = 0
        BY <1>0, <1>3, <3>4 DEF WfRegister, WorkflowTypeOK, WfStarted
      <4>2. QED BY <1>0, <1>2, <3>1, <3>2, <4>1 DEF WfAlone, WfWorking, WfNextState
    <3>5. QED BY <3>3, <3>4
  <2>6. WfStarted'
    <3>1. CASE wfreg BY <1>0, <1>2, <1>3, <3>1 DEF WorkflowTypeOK, WfStarted, WfRegister, WfWorking
    <3>2. CASE ~wfreg
      <4>1. wfat'[w] = "begin" /\ wfseq'[w] = 0 /\ wfreg'
        BY <1>0, <1>3, <3>2 DEF WfRegister, WorkflowTypeOK
      <4>2. QED BY <4>1 DEF WfStarted, WfWorking
    <3>3. QED BY <3>1, <3>2
  <2>7. QED BY <2>1, <2>2, <2>3, <2>4, <2>5, <2>6 DEF WorkflowIInv
<1>4. CASE WfRestore(w)
  <2>1. WorkflowTypeOK'
    <3>1. wfat' \in [WfWorkers -> WfPlaces] BY <1>0, <1>4 DEF WfRestore, WorkflowTypeOK, WfPlaces
    <3>2. wfseq' \in [WfWorkers -> WfSeqs]
      BY <1>0, <1>4 DEF WfRestore, WorkflowTypeOK, WfSeqs, WfDense
    <3>3. QED BY <1>0, <1>4, <3>1, <3>2 DEF WfRestore, WorkflowTypeOK
  <2>2. WfDense' BY <1>0, <1>2, <1>4 DEF WorkflowTypeOK, WfDense, WfRestore, WfWorking
  <2>3. SnapshotsAgree' BY <1>0, <1>4 DEF WfRestore, SnapshotsAgree
  <2>4. WfLocked' BY <1>0, <1>2, <1>4 DEF WorkflowTypeOK, WfLocked, WfRestore, WfHolding
  <2>5. WfAlone' BY <1>0, <1>2, <1>4 DEF WorkflowTypeOK, WfAlone, WfNextState, WfRestore, WfWorking
  <2>6. WfStarted' BY <1>0, <1>2, <1>4 DEF WorkflowTypeOK, WfStarted, WfRestore, WfWorking
  <2>7. QED BY <2>1, <2>2, <2>3, <2>4, <2>5, <2>6 DEF WorkflowIInv
<1>5. CASE WfLoad(w)
  <2>0. wfseq[w] \in DOMAIN wflog /\ wflog[wfseq[w]] \in WfStates /\ wfseq[w] \in WfSeqs
    <3>1. wfseq[w] \in Nat /\ wfseq[w] < WfCount /\ wfseq[w] \in WfSeqs
      BY <1>0, <1>5 DEF WorkflowTypeOK, WfSeqs, WfDense, WfLoad
    <3>2. wfseq[w] \in DOMAIN wflog BY <1>0, <3>1 DEF WfDense
    <3>3. QED BY <1>0, <3>1, <3>2 DEF WorkflowTypeOK, Range
  <2>1. WorkflowTypeOK'
    <3>1. wfat' \in [WfWorkers -> WfPlaces] BY <1>0, <1>5 DEF WfLoad, WorkflowTypeOK, WfPlaces
    <3>2. wfmem' \in [WfWorkers -> WfStates] /\ wfgiven' \subseteq WfSeqs \X WfStates
      BY <1>0, <1>5, <2>0 DEF WfLoad, WorkflowTypeOK
    <3>3. QED BY <1>0, <1>5, <3>1, <3>2 DEF WfLoad, WorkflowTypeOK
  <2>2. WfDense' BY <1>0, <1>2, <1>5 DEF WorkflowTypeOK, WfDense, WfLoad, WfWorking
  <2>3. SnapshotsAgree' BY <1>0, <1>5, <2>0 DEF WfLoad, SnapshotsAgree
  <2>4. WfLocked' BY <1>0, <1>2, <1>5 DEF WorkflowTypeOK, WfLocked, WfLoad, WfHolding
  <2>5. WfAlone' BY <1>0, <1>2, <1>5, <2>0 DEF WorkflowTypeOK, WfAlone, WfNextState, WfDense, WfLoad, WfWorking
  <2>6. WfStarted' BY <1>0, <1>2, <1>5 DEF WorkflowTypeOK, WfStarted, WfLoad, WfWorking
  <2>7. QED BY <2>1, <2>2, <2>3, <2>4, <2>5, <2>6 DEF WorkflowIInv
<1>6. QED BY <1>3, <1>4, <1>5

\* A step of the machine up to its place in the journal.
LEMMA WorkflowStepOk ==
  ASSUME WorkflowIInv, NEW w \in WfWorkers,
         \/ \E e \in WfEvents : WfStep(w, e)
         \/ WfBegin(w) \/ WfBusy(w) \/ WfCompute(w)
  PROVE  WorkflowIInv'
<1> USE WorkflowAssumption DEF wfhist, WfGo
<1>0. /\ WorkflowTypeOK /\ WfDense /\ SnapshotsAgree /\ WfLocked /\ WfAlone /\ WfStarted
      /\ WfCount \in Nat
  BY DEF WorkflowIInv, WfDense
<1>1. /\ UNCHANGED <<wfbackend, wfreg, wflog, wfmem, wfgiven, wfskipped, wfcrashes, wfshared>>
      /\ WfCount' = WfCount
  BY DEF WfStep, WfBegin, WfBusy, WfCompute, WfCount
<1>2. SnapshotsAgree' BY <1>0, <1>1 DEF SnapshotsAgree
<1>3. ASSUME NEW e \in WfEvents, WfStep(w, e) PROVE WorkflowIInv'
  <2>1. WorkflowTypeOK'
    <3>1. wfat' \in [WfWorkers -> WfPlaces] BY <1>0, <1>3 DEF WfStep, WorkflowTypeOK, WfPlaces
    <3>2. wfseq' \in [WfWorkers -> WfSeqs] BY <1>0, <1>3 DEF WfStep, WorkflowTypeOK, WfSeqs
    <3>3. wfnew' \in [WfWorkers -> WfStates] BY <1>0, <1>3 DEF WfStep, WorkflowTypeOK
    <3>4. QED BY <1>0, <1>3, <3>1, <3>2, <3>3 DEF WfStep, WorkflowTypeOK
  <2>2. WfDense' BY <1>0, <1>1, <1>3 DEF WorkflowTypeOK, WfDense, WfStep, WfWorking
  <2>3. WfLocked' BY <1>0, <1>1, <1>3 DEF WorkflowTypeOK, WfLocked, WfStep, WfHolding
  <2>4. WfAlone' BY <1>0, <1>1, <1>3 DEF WorkflowTypeOK, WfAlone, WfNextState, WfStep, WfWorking
  <2>5. WfStarted' BY <1>0, <1>1, <1>3 DEF WorkflowTypeOK, WfStarted, WfStep, WfWorking
  <2>6. QED BY <1>2, <2>1, <2>2, <2>3, <2>4, <2>5 DEF WorkflowIInv
<1>4. CASE WfBegin(w)
  <2>1. WorkflowTypeOK'
    <3>1. wfat' \in [WfWorkers -> WfPlaces] BY <1>0, <1>4 DEF WfBegin, WorkflowTypeOK, WfPlaces
    <3>2. wflock' \in WfWorkers \cup {NoWorker} BY <1>0, <1>4 DEF WfBegin, WorkflowTypeOK
    <3>3. QED BY <1>0, <1>4, <3>1, <3>2 DEF WfBegin, WorkflowTypeOK
  <2>2. WfDense' BY <1>0, <1>1, <1>4 DEF WorkflowTypeOK, WfDense, WfBegin, WfWorking
  <2>3. WfLocked' BY <1>0, <1>1, <1>4 DEF WorkflowTypeOK, WfLocked, WfBegin, WfHolding
  <2>4. WfAlone' BY <1>0, <1>1, <1>4 DEF WorkflowTypeOK, WfAlone, WfNextState, WfBegin, WfWorking
  <2>5. WfStarted' BY <1>0, <1>1, <1>4 DEF WorkflowTypeOK, WfStarted, WfBegin, WfWorking
  <2>6. QED BY <1>2, <2>1, <2>2, <2>3, <2>4, <2>5 DEF WorkflowIInv
<1>5. CASE WfBusy(w)
  <2>0. PICK u \in WfWorkers : u # w /\ wfat[u] \in WfHolding
    BY <1>0, <1>5 DEF WorkflowTypeOK, WfLocked, WfBusy, WfHolding
  <2>1. WorkflowTypeOK'
    <3>1. wfat' \in [WfWorkers -> WfPlaces] BY <1>0, <1>5 DEF WfBusy, WorkflowTypeOK, WfPlaces
    <3>2. QED BY <1>0, <1>5, <3>1 DEF WfBusy, WorkflowTypeOK
  <2>2. WfDense' BY <1>0, <1>1, <1>5 DEF WorkflowTypeOK, WfDense, WfBusy, WfWorking
  <2>3. WfLocked' BY <1>0, <1>1, <1>5 DEF WorkflowTypeOK, WfLocked, WfBusy, WfHolding
  <2>4. WfAlone' BY <1>0, <1>1, <1>5, <2>0 DEF WfAlone, WfBusy, WfHolding
  <2>5. WfStarted'
    <3>1. wfat'[u] = wfat[u] /\ wfseq' = wfseq BY <1>0, <1>5, <2>0 DEF WfBusy, WorkflowTypeOK
    <3>2. WfCount = 0 => wfseq[u] = 0
      BY <1>0, <2>0 DEF WfDense, WorkflowTypeOK, WfSeqs, WfWorking, WfHolding
    <3>3. wfreg BY <1>0, <2>0 DEF WfStarted, WfHolding
    <3>4. QED BY <1>1, <2>0, <3>1, <3>2, <3>3 DEF WfStarted, WfWorking, WfHolding
  <2>6. QED BY <1>2, <2>1, <2>2, <2>3, <2>4, <2>5 DEF WorkflowIInv
<1>6. CASE WfCompute(w)
  <2>1. WorkflowTypeOK'
    <3>1. wfat' \in [WfWorkers -> WfPlaces] BY <1>0, <1>6 DEF WfCompute, WorkflowTypeOK, WfPlaces
    <3>2. wfran' \in [WfSeqs -> Nat] BY <1>0, <1>6 DEF WfCompute, WorkflowTypeOK
    <3>3. QED BY <1>0, <1>6, <3>1, <3>2 DEF WfCompute, WorkflowTypeOK
  <2>2. WfDense' BY <1>0, <1>1, <1>6 DEF WorkflowTypeOK, WfDense, WfCompute, WfWorking
  <2>3. WfLocked'
    <3> SUFFICES ASSUME wfbackend = "sqlite" PROVE WfLocked' BY <1>1 DEF WfLocked
    <3>1. /\ wfat[w] = "compute" /\ wflock = w /\ wflock' = wflock /\ wfseq' = wfseq
          /\ wfat'[w] = "insert" /\ \A u \in WfWorkers \ {w} : wfat'[u] = wfat[u]
          /\ wfseq[w] \notin DOMAIN wflog /\ wfseq[w] \in WfSeqs /\ wfcrashes \in Nat
          /\ wfran \in [WfSeqs -> Nat] /\ wfran' = [wfran EXCEPT ![wfseq[w]] = @ + 1]
      BY <1>0, <1>6 DEF WorkflowTypeOK, WfCompute, WfLocked, WfHolding
    <3>2. \A u \in WfWorkers : wfat[u] = "insert" => FALSE
      BY <1>0, <3>1 DEF WfLocked, WfHolding
    <3>3. wfran[wfseq[w]] <= wfcrashes BY <1>0, <3>1, <3>2 DEF WfLocked
    <3>4. \A n \in WfSeqs : n # wfseq[w] => wfran'[n] = wfran[n] BY <3>1
    <3>5. wfran'[wfseq[w]] <= 1 + wfcrashes BY <3>1, <3>3
    <3>6. /\ \A u \in WfWorkers : wflock' = u <=> wfat'[u] \in WfHolding
          /\ \A u \in WfWorkers : wfat'[u] \in {"compute", "insert"} => wfseq'[u] \notin DOMAIN wflog
      BY <1>0, <3>1 DEF WfLocked, WfHolding
    <3>7. \A n \in WfSeqs : wfran'[n] <= 1 + wfcrashes BY <1>0, <3>4, <3>5 DEF WfLocked
    <3>8. ASSUME NEW n \in WfSeqs, n \notin DOMAIN wflog,
                 \A u \in WfWorkers : wfat'[u] = "insert" => wfseq'[u] # n
          PROVE  wfran'[n] <= wfcrashes
      <4>1. n # wfseq[w] BY <3>1, <3>8
      <4>2. QED BY <1>0, <3>2, <3>4, <3>8, <4>1 DEF WfLocked
    <3>9. QED BY <1>1, <3>6, <3>7, <3>8 DEF WfLocked
  <2>4. WfAlone' BY <1>0, <1>1, <1>6 DEF WorkflowTypeOK, WfAlone, WfNextState, WfCompute, WfWorking
  <2>5. WfStarted' BY <1>0, <1>1, <1>6 DEF WorkflowTypeOK, WfStarted, WfCompute, WfWorking
  <2>6. QED BY <1>2, <2>1, <2>2, <2>3, <2>4, <2>5 DEF WorkflowIInv
<1>7. QED BY <1>3, <1>4, <1>5, <1>6

\* The end of the transaction releases the lock, and only the lock of w.
LEMMA UnlockOk ==
  ASSUME WorkflowIInv, NEW w \in WfWorkers, WfUnlock(w),
         wfat'[w] \notin WfHolding, \A u \in WfWorkers \ {w} : wfat'[u] = wfat[u]
  PROVE  /\ wflock' \in WfWorkers \cup {NoWorker}
         /\ wfbackend = "sqlite" => \A u \in WfWorkers : wflock' = u <=> wfat'[u] \in WfHolding
BY WorkflowAssumption DEF WorkflowIInv, WorkflowTypeOK, WfLocked, WfUnlock

\* SELECT finds the step, or not.
LEMMA WorkflowLookOk ==
  ASSUME WorkflowIInv, NEW w \in WfWorkers, WfLook(w)
  PROVE  WorkflowIInv'
<1> USE WorkflowAssumption
<1>0. /\ WorkflowTypeOK /\ WfDense /\ SnapshotsAgree /\ WfLocked /\ WfAlone /\ WfStarted
      /\ WfCount \in Nat /\ wfat[w] = "look" /\ wfseq[w] \in WfSeqs
      /\ UNCHANGED <<wfbackend, wfreg, wflog, wfseq, wfnew, wfran, wfcrashes, wfshared>>
      /\ WfCount' = WfCount
  BY DEF WorkflowIInv, WfDense, WfLook, WfCount, WorkflowTypeOK
<1>1. CASE wfseq[w] \notin DOMAIN wflog
  <2> USE DEF WfLook
  <2>0. UNCHANGED <<wfmem, wfgiven, wfskipped, wflock>> /\ wfat' = [wfat EXCEPT ![w] = "compute"]
    BY <1>1
  <2> HIDE DEF WfLook
  <2>1. WorkflowTypeOK' BY <1>0, <2>0 DEF WorkflowTypeOK, WfPlaces
  <2>2. WfDense' BY <1>0, <2>0 DEF WorkflowTypeOK, WfDense, WfWorking
  <2>3. SnapshotsAgree' BY <1>0, <2>0 DEF SnapshotsAgree
  <2>4. WfLocked' BY <1>0, <1>1, <2>0 DEF WorkflowTypeOK, WfLocked, WfHolding
  <2>5. WfAlone' BY <1>0, <2>0 DEF WorkflowTypeOK, WfAlone, WfNextState, WfWorking
  <2>6. WfStarted' BY <1>0, <2>0 DEF WorkflowTypeOK, WfStarted, WfWorking
  <2>7. QED BY <2>1, <2>2, <2>3, <2>4, <2>5, <2>6 DEF WorkflowIInv
<1>2. CASE wfseq[w] \in DOMAIN wflog
  <2>0. /\ wfat' = [wfat EXCEPT ![w] = "ready"] /\ wfmem' = [wfmem EXCEPT ![w] = wflog[wfseq[w]]]
        /\ wfgiven' = wfgiven \cup {<<wfseq[w], wflog[wfseq[w]]>>}
        /\ wfskipped' = IF wfseq[w] = 0 THEN wfskipped ELSE wfskipped + 1
        /\ WfUnlock(w) /\ wflog[wfseq[w]] \in WfStates
    BY <1>0, <1>2 DEF WfLook, WorkflowTypeOK, Range
  <2>a. /\ wfat'[w] = "ready" /\ wfat' \in [WfWorkers -> WfPlaces]
        /\ \A u \in WfWorkers \ {w} : wfat'[u] = wfat[u]
    BY <1>0, <2>0 DEF WorkflowTypeOK, WfPlaces
  <2>b. /\ wflock' \in WfWorkers \cup {NoWorker}
        /\ wfbackend = "sqlite" => \A u \in WfWorkers : wflock' = u <=> wfat'[u] \in WfHolding
    BY <2>0, <2>a, UnlockOk DEF WfHolding
  <2>1. WorkflowTypeOK'
    <3>1. wfmem' \in [WfWorkers -> WfStates] /\ wfgiven' \subseteq WfSeqs \X WfStates
      BY <1>0, <2>0 DEF WorkflowTypeOK
    <3>2. wfskipped' \in Nat BY <1>0, <2>0 DEF WorkflowTypeOK
    <3>3. QED BY <1>0, <2>a, <2>b, <3>1, <3>2 DEF WorkflowTypeOK
  <2>2. WfDense' BY <1>0, <2>a DEF WfDense, WfWorking
  <2>3. SnapshotsAgree' BY <1>0, <1>2, <2>0 DEF SnapshotsAgree
  <2>4. WfLocked' BY <1>0, <2>a, <2>b DEF WfLocked
  <2>5. WfAlone'
    <3> SUFFICES ASSUME ~wfshared PROVE FALSE BY <1>0 DEF WfAlone
    <3>1. wfseq[w] = WfCount BY <1>0 DEF WfAlone, WfWorking
    <3>2. QED BY <1>0, <1>2, <3>1 DEF WfDense
  <2>6. WfStarted' BY <1>0, <1>2, <2>a DEF WfStarted, WfDense
  <2>7. QED BY <2>1, <2>2, <2>3, <2>4, <2>5, <2>6 DEF WorkflowIInv
<1>3. QED BY <1>1, <1>2

\* INSERT fails on a key that exists, or adds one entry to the end.
LEMMA WorkflowInsertOk ==
  ASSUME WorkflowIInv, NEW w \in WfWorkers, WfInsert(w)
  PROVE  WorkflowIInv'
<1> USE WorkflowAssumption
<1>0. /\ WorkflowTypeOK /\ WfDense /\ SnapshotsAgree /\ WfLocked /\ WfAlone /\ WfStarted
      /\ WfCount \in Nat /\ wfat[w] = "insert" /\ wfseq[w] \in WfSeqs /\ WfUnlock(w)
      /\ UNCHANGED <<wfbackend, wfreg, wfseq, wfnew, wfran, wfskipped, wfcrashes, wfshared>>
  BY DEF WorkflowIInv, WfDense, WfInsert, WorkflowTypeOK
<1>a. /\ wfat'[w] \in {"new", "ready"} /\ wfat' \in [WfWorkers -> WfPlaces]
      /\ \A u \in WfWorkers \ {w} : wfat'[u] = wfat[u]
  BY <1>0 DEF WorkflowTypeOK, WfPlaces, WfInsert
<1>b. /\ wflock' \in WfWorkers \cup {NoWorker}
      /\ wfbackend = "sqlite" => \A u \in WfWorkers : wflock' = u <=> wfat'[u] \in WfHolding
  BY <1>0, <1>a, UnlockOk DEF WfHolding
<1>1. CASE wfseq[w] \in DOMAIN wflog
  <2>0. UNCHANGED <<wflog, wfmem, wfgiven>> /\ WfCount' = WfCount /\ wfbackend # "sqlite"
    BY <1>0, <1>1 DEF WfInsert, WfCount, WfLocked
  <2>1. WorkflowTypeOK' BY <1>0, <1>a, <1>b, <2>0 DEF WorkflowTypeOK
  <2>2. WfDense' BY <1>0, <1>a, <2>0 DEF WfDense, WfWorking
  <2>3. SnapshotsAgree' BY <1>0, <2>0 DEF SnapshotsAgree
  <2>4. WfLocked' BY <1>0, <2>0 DEF WfLocked
  <2>5. WfAlone'
    <3> SUFFICES ASSUME ~wfshared PROVE FALSE BY <1>0 DEF WfAlone
    <3>1. wfseq[w] = WfCount BY <1>0 DEF WfAlone, WfWorking
    <3>2. QED BY <1>0, <1>1, <3>1 DEF WfDense
  <2>6. WfStarted' BY <1>0, <1>1, <1>a, <2>0 DEF WfStarted, WfDense
  <2>7. QED BY <2>1, <2>2, <2>3, <2>4, <2>5, <2>6 DEF WorkflowIInv
<1>2. CASE wfseq[w] \notin DOMAIN wflog
  <2> DEFINE k == WfCount
             x == wfnew[w]
  <2>1. wfseq[w] = k /\ k \in Nat /\ k <= WfSteps /\ x \in WfStates
    BY <1>0, <1>2 DEF WfDense, WorkflowTypeOK, WfSeqs, WfWorking
  <2>2. /\ wfat'[w] = "ready" /\ wfmem' = [wfmem EXCEPT ![w] = x] /\ wfgiven' = wfgiven \cup {<<k, x>>}
        /\ wflog' = [n \in DOMAIN wflog \cup {k} |-> IF n = k THEN x ELSE wflog[n]]
    BY <1>0, <1>2, <2>1 DEF WfInsert, WorkflowTypeOK
  <2>3. /\ DOMAIN wflog = 0..k - 1 /\ DOMAIN wflog' = 0..(k + 1) - 1 /\ wflog'[k] = x
        /\ \A n \in DOMAIN wflog : wflog'[n] = wflog[n]
    BY <1>0, <2>1, <2>2 DEF WfDense
  <2>4. WfCount' = k + 1 /\ k + 1 \in Nat
    <3>1. k + 1 \in Nat BY <2>1
    <3>2. Cardinality(0..(k + 1) - 1) = k + 1 BY <3>1, DenseCount
    <3>3. QED BY <2>3, <3>1, <3>2 DEF WfCount
  <2> HIDE DEF k, x
  <2>5. WorkflowTypeOK'
    <3>1. wfmem' \in [WfWorkers -> WfStates] /\ wfgiven' \subseteq WfSeqs \X WfStates
      BY <1>0, <2>1, <2>2 DEF WorkflowTypeOK
    <3>2. DOMAIN wflog' \subseteq WfSeqs BY <2>1, <2>3 DEF WfSeqs
    <3>3. \A n \in DOMAIN wflog' : n = k \/ n \in DOMAIN wflog BY <2>1, <2>3
    <3>4. \A n \in DOMAIN wflog : wflog[n] \in WfStates BY <1>0 DEF WorkflowTypeOK, Range
    <3>5. Range(wflog') \subseteq WfStates BY <2>1, <2>3, <3>3, <3>4 DEF Range
    <3>6. QED BY <1>0, <1>a, <1>b, <3>1, <3>2, <3>5 DEF WorkflowTypeOK
  <2>6. WfDense'
    <3>1. \A u \in WfWorkers : wfseq[u] \in Nat BY <1>0 DEF WorkflowTypeOK, WfSeqs
    <3>2. ASSUME NEW u \in WfWorkers
          PROVE  /\ wfat'[u] \in WfWorking => wfseq'[u] <= WfCount'
                 /\ wfat'[u] = "load" => wfseq'[u] < WfCount'
      <4>1. CASE u = w BY <2>2, <4>1 DEF WfWorking
      <4>2. CASE u # w
        <5>1. wfat'[u] = wfat[u] /\ wfseq'[u] = wfseq[u] BY <1>0, <1>a, <4>2
        <5>2. (wfat[u] \in WfWorking => wfseq[u] <= k) /\ (wfat[u] = "load" => wfseq[u] < k)
          BY <1>0 DEF WfDense, k
        <5>3. QED BY <2>1, <2>4, <3>1, <5>1, <5>2
      <4>3. QED BY <4>1, <4>2
    <3>3. WfCount' \in 0..WfSteps + 1 BY <2>1, <2>4
    <3>4. DOMAIN wflog' = 0..WfCount' - 1 BY <2>3, <2>4
    <3>5. QED BY <3>2, <3>3, <3>4 DEF WfDense
  <2>7. SnapshotsAgree'
    <3>1. k \in DOMAIN wflog' /\ DOMAIN wflog \subseteq DOMAIN wflog' BY <2>1, <2>3
    <3>2. QED BY <1>0, <2>2, <2>3, <3>1 DEF SnapshotsAgree
  <2>8. WfLocked'
    <3> SUFFICES ASSUME wfbackend = "sqlite" PROVE WfLocked' BY <1>0 DEF WfLocked
    <3>1. \A u \in WfWorkers : wfat[u] \in WfHolding => u = w BY <1>0 DEF WfLocked, WfHolding
    <3>2. \A u \in WfWorkers : wfat'[u] \notin {"compute", "insert"}
      BY <1>a, <3>1 DEF WfHolding
    <3>3. ASSUME NEW n \in WfSeqs, n \notin DOMAIN wflog' PROVE wfran[n] <= wfcrashes
      <4>1. n \notin DOMAIN wflog /\ n # k BY <2>1, <2>3, <3>3
      <4>2. \A u \in WfWorkers : wfat[u] = "insert" => wfseq[u] # n
        BY <2>1, <3>1, <4>1 DEF WfHolding
      <4>3. QED BY <1>0, <4>1, <4>2 DEF WfLocked
    <3>4. QED BY <1>0, <1>b, <3>2, <3>3 DEF WfLocked
  <2>9. WfAlone'
    <3> SUFFICES ASSUME ~wfshared PROVE WfAlone' BY <1>0 DEF WfAlone
    <3>1. \A u \in WfWorkers \ {w} : wfat[u] = "new" /\ wfat'[u] = "new"
      BY <1>0, <1>a DEF WfAlone
    <3>2. wfskipped' = 0 BY <1>0 DEF WfAlone
    <3>3. ASSUME NEW n \in DOMAIN wflog', n > 0
          PROVE  \E e \in WfEvents : wflog'[n-1] \in DOMAIN WfTable[e]
                                     /\ wflog'[n] = WfTable[e][wflog'[n-1]]
      <4>0. n \in Nat /\ n - 1 \in DOMAIN wflog /\ wflog'[n-1] = wflog[n-1] /\ (n = k \/ n \in DOMAIN wflog)
        BY <2>1, <2>3, <3>3
      <4>1. CASE n = k
        <5>1. WfNextState(x) /\ k > 0 BY <1>0, <3>3, <4>1 DEF WfAlone, WfWorking, x
        <5>2. \E e \in WfEvents : wflog[k - 1] \in DOMAIN WfTable[e] /\ x = WfTable[e][wflog[k - 1]]
          BY <5>1 DEF WfNextState, k
        <5>3. QED BY <2>3, <4>0, <4>1, <5>2
      <4>2. CASE n \in DOMAIN wflog
        <5>1. wflog'[n] = wflog[n] BY <2>3, <4>2
        <5>2. \E e \in WfEvents : wflog[n-1] \in DOMAIN WfTable[e] /\ wflog[n] = WfTable[e][wflog[n-1]]
          BY <1>0, <3>3, <4>2 DEF WfAlone
        <5>3. QED BY <4>0, <5>1, <5>2
      <4>3. QED BY <4>0, <4>1, <4>2
    <3>4. wfmem'[w] = wflog'[WfCount' - 1] /\ WfCount' > 0
      BY <1>0, <2>1, <2>2, <2>3, <2>4 DEF WorkflowTypeOK
    <3>5. QED BY <2>2, <3>1, <3>2, <3>3, <3>4 DEF WfAlone, WfWorking
  <2>10. WfStarted'
    <3>1. wfreg /\ WfCount' # 0 BY <1>0, <2>1, <2>4 DEF WfStarted
    <3>2. QED BY <1>0, <3>1 DEF WfStarted
  <2>11. QED BY <2>5, <2>6, <2>7, <2>8, <2>9, <2>10 DEF WorkflowIInv
<1>3. QED BY <1>1, <1>2

\* A crash.
LEMMA WorkflowCrashOk ==
  ASSUME WorkflowIInv, NEW w \in WfWorkers, WfCrash(w)
  PROVE  WorkflowIInv'
<1> USE WorkflowAssumption DEF wfhist
<1>0. /\ WorkflowTypeOK /\ WfDense /\ SnapshotsAgree /\ WfLocked /\ WfAlone /\ WfStarted
      /\ WfUnlock(w) /\ wfcrashes \in Nat /\ wfcrashes' = wfcrashes + 1 /\ wfcrashes' \in 0..WfCrashes
      /\ UNCHANGED <<wfbackend, wfreg, wflog, wfseq, wfnew, wfran, wfgiven, wfskipped, wfshared>>
      /\ WfCount' = WfCount
  BY DEF WorkflowIInv, WfCrash, WorkflowTypeOK, WfCount
<1>1. /\ wfat'[w] = "new" /\ wfat' \in [WfWorkers -> WfPlaces]
      /\ \A u \in WfWorkers \ {w} : wfat'[u] = wfat[u] /\ wfmem'[u] = wfmem[u]
      /\ wfmem' \in [WfWorkers -> WfStates]
  BY <1>0 DEF WorkflowTypeOK, WfPlaces, WfCrash
<1>2. /\ wflock' \in WfWorkers \cup {NoWorker}
      /\ wfbackend = "sqlite" => \A u \in WfWorkers : wflock' = u <=> wfat'[u] \in WfHolding
  BY <1>0, <1>1, UnlockOk DEF WfHolding
<1>3. WorkflowTypeOK' BY <1>0, <1>1, <1>2 DEF WorkflowTypeOK
<1>4. WfDense' BY <1>0, <1>1 DEF WfDense, WfWorking
<1>5. SnapshotsAgree' BY <1>0 DEF SnapshotsAgree
<1>6. WfLocked'
  <2> SUFFICES ASSUME wfbackend = "sqlite" PROVE WfLocked' BY <1>0 DEF WfLocked
  <2>1. \A n \in WfSeqs : wfran[n] \in Nat /\ wfran[n] <= 1 + wfcrashes
    BY <1>0 DEF WfLocked, WorkflowTypeOK
  <2>2. \A n \in WfSeqs : wfran[n] <= wfcrashes' /\ wfran[n] <= 1 + wfcrashes' BY <1>0, <2>1
  <2>3. QED BY <1>0, <1>1, <1>2, <2>2 DEF WfLocked
<1>7. WfAlone' BY <1>0, <1>1 DEF WfAlone, WfNextState, WfWorking
<1>8. WfStarted' BY <1>0, <1>1 DEF WfStarted
<1>9. QED BY <1>3, <1>4, <1>5, <1>6, <1>7, <1>8 DEF WorkflowIInv

\* The journal has no gap and agrees with what every worker was given; of one worker at
\* a time it is a path of the table; SQLite computes a step again only after a crash:
\* for any number of workers, any table and any number of steps and crashes
\* (id_effect_fsm/workflow.rs, sqlite_log.rs, duroxide_journal.rs).
THEOREM WorkflowInvariant == WorkflowSpec => []WorkflowInv
<1>1. WorkflowIInv /\ [WorkflowNext]_wfvars => WorkflowIInv'
  <2> SUFFICES ASSUME WorkflowIInv, [WorkflowNext]_wfvars PROVE WorkflowIInv' OBVIOUS
  <2>1. CASE UNCHANGED wfvars
    BY <2>1 DEF wfvars, WorkflowIInv, WorkflowTypeOK, WfDense, SnapshotsAgree, WfLocked, WfAlone,
       WfStarted, WfNextState, WfCount
  <2>2. QED BY <2>1, WorkflowRestoreOk, WorkflowStepOk, WorkflowLookOk, WorkflowInsertOk,
               WorkflowCrashOk DEF WorkflowNext
<1>2. WorkflowIInv => WorkflowInv
  <2> SUFFICES ASSUME WorkflowIInv PROVE WorkflowInv OBVIOUS
  <2>1. JournalDense BY WorkflowAssumption DEF WorkflowIInv, WfDense, JournalDense, WfSeqs
  <2>2. JournalIsPath BY DEF WorkflowIInv, WfAlone, JournalIsPath
  <2>3. ComputedOnce BY DEF WorkflowIInv, WfLocked, ComputedOnce
  <2>4. RegisteredHasStart
    <3>1. wflog = <<>> => WfCount = 0
      <4>1. wflog = <<>> => DOMAIN wflog = {} OBVIOUS
      <4>2. QED BY <4>1, FS_EmptySet DEF WfCount
    <3>2. QED BY <3>1 DEF WorkflowIInv, WfStarted, RegisteredHasStart, WfWorking
  <2>5. QED BY <2>1, <2>2, <2>3, <2>4 DEF WorkflowIInv, WorkflowInv
<1>3. QED BY <1>1, <1>2, WorkflowInitOk, PTL DEF WorkflowSpec

(***************************************************************************)
(* Job runners.                                                            *)
(***************************************************************************)

\* Where a job is: new, queued, in the hands of one worker, or behind it.
JbPlaces ==
  /\ IsInjective(jbqueue)
  /\ jbnew \cap Range(jbqueue) = {}
  /\ \A w \in JbWorkers : jbhas[w] # NoJob <=> jbat[w] \in {"handle", "settle"}
  /\ \A w \in JbWorkers : jbat[w] \in {"handle", "settle"} => jbcount[w] > 0
  /\ \A w \in JbWorkers : jbhas[w] \notin jbnew \cup Range(jbqueue)
  /\ \A u, w \in JbWorkers : jbhas[u] = jbhas[w] /\ jbhas[u] # NoJob => u = w

\* What has been handled.
JbHandled ==
  /\ \A j \in jbnew \cup Range(jbqueue) : jbran[j] = 0
  /\ \A w \in JbWorkers : /\ jbat[w] = "handle" => jbran[jbhas[w]] = 0
                          /\ jbat[w] = "settle" => jbran[jbhas[w]] # 0
  /\ \A j \in JbJobs : jbran[j] <= 1
  /\ \A j \in JbJobs : jbran[j] = 0 =>
       j \in jbnew \cup Range(jbqueue) \/ \E w \in JbWorkers : jbhas[w] = j

JbUnique(j) == \A k \in JbJobs \ {j} : JbId[k] # JbId[j]

\* What is in the running map, under its own id.
JbRecords ==
  /\ \A i \in JbIds : jbrunning[i] # NoJob => JbId[jbrunning[i]] = i
  /\ \A j \in jbnew \cup Range(jbqueue) : j \notin jblost /\ jbrunning[JbId[j]] # j
  /\ \A w \in JbWorkers : jbhas[w] \notin jblost
  /\ \A j \in JbJobs : JbUnique(j) =>
       (jbrunning[JbId[j]] = j <=> j \in jblost \/ \E w \in JbWorkers : jbhas[w] = j)

\* The inductive invariant.
JobsIInv == JobsTypeOK /\ JbPlaces /\ JbHandled /\ JbRecords /\ OnlyEqualIdsCollide

\* It holds at the start.
LEMMA JobsInitOk == JobsInit => JobsIInv
<1> SUFFICES ASSUME JobsInit PROVE JobsIInv OBVIOUS
<1> USE JobsAssumption DEF JobsInit
<1>0. <<>> \in Seq(JbJobs) /\ DOMAIN jbqueue = {} OBVIOUS
<1>1. Range(jbqueue) = {} /\ IsInjective(jbqueue) BY <1>0 DEF Range, IsInjective
<1>2. JobsTypeOK BY <1>0 DEF JobsTypeOK
<1>3. JbPlaces BY <1>1 DEF JbPlaces
<1>4. JbHandled BY <1>1 DEF JbHandled
<1>5. JbRecords BY <1>1 DEF JbRecords
<1>6. QED BY <1>2, <1>3, <1>4, <1>5 DEF JobsIInv, OnlyEqualIdsCollide

\* A job is enqueued.
LEMMA EnqueueOk ==
  ASSUME JobsIInv, NEW j \in JbJobs, Enqueue(j)
  PROVE  JobsIInv'
<1> USE JobsAssumption
<1>0. /\ JobsTypeOK /\ JbPlaces /\ JbHandled /\ JbRecords /\ OnlyEqualIdsCollide
      /\ j \in jbnew /\ jbnew' = jbnew \ {j} /\ jbqueue' = Append(jbqueue, j)
      /\ UNCHANGED <<jbrunning, jbat, jbhas, jbcount, jbdrains, jbran, jbdone, jblost, jbbumped>>
  BY DEF JobsIInv, Enqueue
<1>1. jbqueue' \in Seq(JbJobs) /\ IsInjective(jbqueue') /\ Range(jbqueue') = Range(jbqueue) \cup {j}
  <2>1. jbqueue \in Seq(JbJobs) /\ IsInjective(jbqueue) /\ j \in JbJobs \ Range(jbqueue)
    BY <1>0 DEF JobsTypeOK, JbPlaces
  <2>2. QED BY <1>0, <2>1, AppendOnce
<1>2. jbnew' \cup Range(jbqueue') = jbnew \cup Range(jbqueue) /\ jbnew' \cap Range(jbqueue') = {}
  BY <1>0, <1>1 DEF JbPlaces
<1>3. JobsTypeOK' BY <1>0, <1>1 DEF JobsTypeOK
<1>4. JbPlaces' BY <1>0, <1>1, <1>2 DEF JbPlaces
<1>5. JbHandled' BY <1>0, <1>2 DEF JbHandled
<1>6. JbRecords' BY <1>0, <1>2 DEF JbRecords
<1>7. OnlyEqualIdsCollide' BY <1>0 DEF OnlyEqualIdsCollide
<1>8. QED BY <1>3, <1>4, <1>5, <1>6, <1>7 DEF JobsIInv

\* A drain begins, and ends.
LEMMA DrainOk ==
  ASSUME JobsIInv, NEW w \in JbWorkers, Drain(w) \/ DrainEnds(w)
  PROVE  JobsIInv'
<1> USE JobsAssumption
<1>0. /\ JobsTypeOK /\ JbPlaces /\ JbHandled /\ JbRecords /\ OnlyEqualIdsCollide
      /\ jbat[w] \in {"idle", "dequeue"} /\ jbat'[w] \in {"idle", "dequeue"}
      /\ \A u \in JbWorkers \ {w} : jbat'[u] = jbat[u]
      /\ jbat' \in [JbWorkers -> {"idle", "dequeue", "handle", "settle"}]
      /\ UNCHANGED <<jbqueue, jbrunning, jbnew, jbhas, jbran, jbdone, jblost, jbbumped>>
  BY DEF JobsIInv, JobsTypeOK, Drain, DrainEnds
<1>1. jbcount' \in [JbWorkers -> 0..JbLimit] /\ jbdrains' \in [JbWorkers -> 0..JbDrains]
  <2>1. CASE Drain(w)
    <3>1. jbdrains[w] + 1 \in 0..JbDrains BY <1>0, <2>1 DEF JobsTypeOK, Drain
    <3>2. QED BY <1>0, <2>1, <3>1 DEF JobsTypeOK, Drain
  <2>2. CASE DrainEnds(w) BY <1>0, <2>2 DEF JobsTypeOK, DrainEnds
  <2>3. QED BY <2>1, <2>2
<1>2. JobsTypeOK' BY <1>0, <1>1 DEF JobsTypeOK
<1>3. JbPlaces'
  <2>1. \A u \in JbWorkers : jbat'[u] \in {"handle", "settle"} => jbcount'[u] = jbcount[u]
    BY <1>0 DEF JobsTypeOK, Drain, DrainEnds
  <2>2. QED BY <1>0, <2>1 DEF JbPlaces
<1>4. JbHandled' BY <1>0 DEF JbHandled
<1>5. JbRecords' BY <1>0 DEF JbRecords
<1>6. QED BY <1>0, <1>2, <1>3, <1>4, <1>5 DEF JobsIInv, OnlyEqualIdsCollide

\* The first job is taken and recorded as running.
LEMMA DequeueOk ==
  ASSUME JobsIInv, NEW w \in JbWorkers, Dequeue(w)
  PROVE  JobsIInv'
<1> USE JobsAssumption
<1> DEFINE j == Head(jbqueue)
<1>0. /\ JobsTypeOK /\ JbPlaces /\ JbHandled /\ JbRecords /\ OnlyEqualIdsCollide
      /\ jbqueue # <<>> /\ jbqueue \in Seq(JbJobs) /\ IsInjective(jbqueue)
  BY DEF JobsIInv, JobsTypeOK, JbPlaces, Dequeue
<1>1. /\ Tail(jbqueue) \in Seq(JbJobs) /\ j \in JbJobs /\ j \in Range(jbqueue)
      /\ IsInjective(Tail(jbqueue)) /\ Range(Tail(jbqueue)) = Range(jbqueue) \ {j}
  BY <1>0, TailOnce
<1>2. /\ jbqueue' = Tail(jbqueue) /\ jbhas' = [jbhas EXCEPT ![w] = j]
      /\ jbrunning' = [jbrunning EXCEPT ![JbId[j]] = j]
      /\ jbbumped' = jbbumped \cup ({jbrunning[JbId[j]]} \ {NoJob})
      /\ jbat' = [jbat EXCEPT ![w] = "handle"] /\ jbat[w] = "dequeue"
      /\ UNCHANGED <<jbnew, jbcount, jbdrains, jbran, jbdone, jblost>>
  BY DEF Dequeue
<1> HIDE DEF j
<1>3. /\ jbqueue' \in Seq(JbJobs) /\ IsInjective(jbqueue') /\ Range(jbqueue') = Range(jbqueue) \ {j}
  BY <1>1, <1>2
<1>4. /\ jbhas'[w] = j /\ jbat'[w] = "handle" /\ jbrunning'[JbId[j]] = j
      /\ \A u \in JbWorkers \ {w} : jbhas'[u] = jbhas[u] /\ jbat'[u] = jbat[u]
      /\ \A i \in JbIds \ {JbId[j]} : jbrunning'[i] = jbrunning[i]
      /\ jbhas[w] = NoJob /\ j \notin jbnew /\ JbId[j] \in JbIds
      /\ \A u \in JbWorkers : jbhas[u] # j
  BY <1>0, <1>1, <1>2 DEF JobsTypeOK, JbPlaces
<1>5. JobsTypeOK' BY <1>0, <1>1, <1>2, <1>4 DEF JobsTypeOK
<1>6. JbPlaces'
  <2>1. jbnew' \cap Range(jbqueue') = {} BY <1>0, <1>2, <1>3 DEF JbPlaces
  <2>2. \A u \in JbWorkers : jbhas'[u] # NoJob <=> jbat'[u] \in {"handle", "settle"}
    BY <1>0, <1>1, <1>4 DEF JbPlaces
  <2>3. \A u \in JbWorkers : jbhas'[u] \notin jbnew' \cup Range(jbqueue')
    BY <1>0, <1>2, <1>3, <1>4 DEF JbPlaces
  <2>4. \A u, v \in JbWorkers : jbhas'[u] = jbhas'[v] /\ jbhas'[u] # NoJob => u = v
    BY <1>0, <1>4 DEF JbPlaces
  <2>5. \A u \in JbWorkers : jbat'[u] \in {"handle", "settle"} => jbcount'[u] > 0
    <3>1. jbcount[w] > 0 /\ jbcount' = jbcount BY <1>2 DEF Dequeue
    <3>2. QED BY <1>0, <1>4, <3>1 DEF JbPlaces
  <2>6. QED BY <1>3, <2>1, <2>2, <2>3, <2>4, <2>5 DEF JbPlaces
<1>7. JbHandled'
  <2>1. /\ \A k \in jbnew' \cup Range(jbqueue') : jbran'[k] = 0
        /\ \A u \in JbWorkers : /\ jbat'[u] = "handle" => jbran'[jbhas'[u]] = 0
                                /\ jbat'[u] = "settle" => jbran'[jbhas'[u]] # 0
        /\ \A k \in JbJobs : jbran'[k] <= 1
    BY <1>0, <1>1, <1>2, <1>3, <1>4 DEF JbHandled
  <2>2. \A k \in JbJobs : jbran'[k] = 0 =>
          k \in jbnew' \cup Range(jbqueue') \/ \E u \in JbWorkers : jbhas'[u] = k
    <3> SUFFICES ASSUME NEW k \in JbJobs, jbran[k] = 0, k # j
                 PROVE  k \in jbnew \cup Range(jbqueue) \/ \E u \in JbWorkers : jbhas'[u] = k
      BY <1>2, <1>3, <1>4
    <3>1. k \in jbnew \cup Range(jbqueue) \/ \E u \in JbWorkers : jbhas[u] = k BY <1>0 DEF JbHandled
    <3>2. QED BY <1>4, <3>1
  <2>3. QED BY <2>1, <2>2 DEF JbHandled
<1>8. JbRecords'
  <2>1. \A i \in JbIds : jbrunning'[i] # NoJob => JbId[jbrunning'[i]] = i
    BY <1>0, <1>4 DEF JbRecords
  <2>2. \A k \in jbnew' \cup Range(jbqueue') : k \notin jblost' /\ jbrunning'[JbId[k]] # k
    BY <1>0, <1>1, <1>2, <1>3, <1>4 DEF JbRecords
  <2>3. \A u \in JbWorkers : jbhas'[u] \notin jblost' BY <1>0, <1>1, <1>2, <1>4 DEF JbRecords
  <2>4. ASSUME NEW k \in JbJobs, JbUnique(k)
        PROVE  jbrunning'[JbId[k]] = k <=> k \in jblost' \/ \E u \in JbWorkers : jbhas'[u] = k
    <3>1. CASE k = j BY <1>4, <3>1
    <3>2. CASE k # j
      <4>1. JbId[k] # JbId[j] /\ JbId[k] \in JbIds BY <1>1, <2>4, <3>2 DEF JbUnique
      <4>2. jbrunning'[JbId[k]] = jbrunning[JbId[k]] BY <1>4, <4>1
      <4>3. (\E u \in JbWorkers : jbhas'[u] = k) <=> (\E u \in JbWorkers : jbhas[u] = k)
        BY <1>4, <3>2
      <4>4. QED BY <1>0, <1>2, <2>4, <4>2, <4>3 DEF JbRecords
    <3>3. QED BY <3>1, <3>2
  <2>5. QED BY <2>1, <2>2, <2>3, <2>4 DEF JbRecords
<1>9. OnlyEqualIdsCollide'
  <2>1. ASSUME jbrunning[JbId[j]] # NoJob
        PROVE  jbrunning[JbId[j]] # j /\ JbId[jbrunning[JbId[j]]] = JbId[j]
    BY <1>0, <1>1, <1>4, <2>1 DEF JbRecords
  <2>2. QED BY <1>0, <1>1, <1>2, <2>1 DEF OnlyEqualIdsCollide
<1>10. QED BY <1>5, <1>6, <1>7, <1>8, <1>9 DEF JobsIInv

\* The handler runs, to its end or to a panic.
LEMMA HandleOk ==
  ASSUME JobsIInv, NEW w \in JbWorkers, Handle(w) \/ HandlerPanics(w)
  PROVE  JobsIInv'
<1> USE JobsAssumption
<1> DEFINE j == jbhas[w]
<1>0. /\ JobsTypeOK /\ JbPlaces /\ JbHandled /\ JbRecords /\ OnlyEqualIdsCollide
      /\ jbat[w] = "handle" /\ jbran' = [jbran EXCEPT ![j] = @ + 1]
      /\ UNCHANGED <<jbqueue, jbrunning, jbnew, jbcount, jbdrains, jbdone, jbbumped>>
  BY DEF JobsIInv, Handle, HandlerPanics
<1>1. j \in JbJobs /\ j # NoJob /\ j \notin jbnew \cup Range(jbqueue) /\ jbran[j] = 0
  <2>1. j # NoJob /\ j \notin jbnew \cup Range(jbqueue) BY <1>0 DEF JbPlaces
  <2>2. j \in JbJobs BY <1>0, <2>1 DEF JobsTypeOK
  <2>3. QED BY <1>0, <2>1, <2>2 DEF JbHandled
<1>2. /\ \/ jbat'[w] = "settle" /\ jbhas'[w] = j /\ jblost' = jblost
         \/ jbat'[w] = "idle" /\ jbhas'[w] = NoJob /\ jblost' = jblost \cup {j}
      /\ \A u \in JbWorkers \ {w} : jbhas'[u] = jbhas[u] /\ jbat'[u] = jbat[u]
  BY <1>0 DEF JobsTypeOK, Handle, HandlerPanics
<1>3. JobsTypeOK'
  <2>1. jbat' \in [JbWorkers -> {"idle", "dequeue", "handle", "settle"}]
    BY <1>0 DEF JobsTypeOK, Handle, HandlerPanics
  <2>2. jbhas' \in [JbWorkers -> JbJobs \cup {NoJob}] BY <1>0 DEF JobsTypeOK, Handle, HandlerPanics
  <2>3. jbran' \in [JbJobs -> Nat] /\ jblost' \subseteq JbJobs BY <1>0, <1>1, <1>2 DEF JobsTypeOK
  <2>4. QED BY <1>0, <2>1, <2>2, <2>3 DEF JobsTypeOK
<1> HIDE DEF j
<1>a. \A u \in JbWorkers \ {w} : jbhas[u] # j
  BY <1>0, <1>1 DEF JbPlaces, j
<1>b. jbhas[w] = j BY DEF j
<1>4. JbPlaces'
  <2>1. \A u \in JbWorkers : jbhas'[u] # NoJob <=> jbat'[u] \in {"handle", "settle"}
    BY <1>0, <1>1, <1>2 DEF JbPlaces
  <2>2. \A u \in JbWorkers : jbhas'[u] \in {jbhas[u], NoJob} BY <1>2 DEF j
  <2>3. NoJob \notin jbnew \cup Range(jbqueue)
    <3>1. Range(jbqueue) \subseteq JbJobs
      <4>1. \A i \in DOMAIN jbqueue : jbqueue[i] \in JbJobs BY <1>0 DEF JobsTypeOK
      <4>2. QED BY <4>1 DEF Range
    <3>2. QED BY <1>0, <3>1 DEF JobsTypeOK
  <2>4. QED BY <1>0, <2>1, <2>2, <2>3 DEF JbPlaces
<1>5. JbHandled'
  <2>1. jbran'[j] = 1 /\ \A k \in JbJobs \ {j} : jbran'[k] = jbran[k] BY <1>0, <1>1 DEF JobsTypeOK
  <2>2. jbnew \cup Range(jbqueue) \subseteq JbJobs
    <3>1. \A i \in DOMAIN jbqueue : jbqueue[i] \in JbJobs BY <1>0 DEF JobsTypeOK
    <3>2. QED BY <1>0, <3>1 DEF Range, JobsTypeOK
  <2>3. \A k \in jbnew' \cup Range(jbqueue') : jbran'[k] = 0 BY <1>0, <1>1, <2>1, <2>2 DEF JbHandled
  <2>4. ASSUME NEW u \in JbWorkers
        PROVE  /\ jbat'[u] = "handle" => jbran'[jbhas'[u]] = 0
               /\ jbat'[u] = "settle" => jbran'[jbhas'[u]] # 0
    <3>1. CASE u = w BY <1>2, <2>1, <3>1
    <3>2. CASE u # w /\ jbat[u] \in {"handle", "settle"}
      <4>1. jbat'[u] = jbat[u] /\ jbhas'[u] = jbhas[u] /\ jbhas[u] # j BY <1>2, <1>a, <3>2
      <4>2. jbhas[u] \in JbJobs BY <1>0, <3>2 DEF JbPlaces, JobsTypeOK
      <4>3. jbran'[jbhas'[u]] = jbran[jbhas[u]] BY <2>1, <4>1, <4>2
      <4>4. QED BY <1>0, <4>1, <4>3 DEF JbHandled
    <3>3. CASE u # w /\ jbat[u] \notin {"handle", "settle"} BY <1>2, <3>3
    <3>4. QED BY <3>1, <3>2, <3>3
  <2>5. \A k \in JbJobs : jbran'[k] <= 1 BY <1>0, <2>1 DEF JbHandled
  <2>6. \A k \in JbJobs : jbran'[k] = 0 =>
          k \in jbnew' \cup Range(jbqueue') \/ \E u \in JbWorkers : jbhas'[u] = k
    <3> SUFFICES ASSUME NEW k \in JbJobs, jbran[k] = 0, k # j
                 PROVE  k \in jbnew \cup Range(jbqueue) \/ \E u \in JbWorkers : jbhas'[u] = k
      BY <1>0, <2>1
    <3>1. k \in jbnew \cup Range(jbqueue) \/ \E u \in JbWorkers : jbhas[u] = k BY <1>0 DEF JbHandled
    <3>2. QED BY <1>2, <1>b, <3>1
  <2>7. QED BY <2>3, <2>4, <2>5, <2>6 DEF JbHandled
<1>6. JbRecords'
  <2>1. \A k \in jbnew' \cup Range(jbqueue') : k \notin jblost' /\ jbrunning'[JbId[k]] # k
    BY <1>0, <1>1, <1>2 DEF JbRecords
  <2>2. \A u \in JbWorkers : jbhas'[u] \notin jblost'
    <3>1. NoJob \notin jblost /\ j # NoJob BY <1>0, <1>1 DEF JobsTypeOK
    <3>2. QED BY <1>0, <1>2, <1>a, <1>b, <3>1 DEF JbRecords
  <2>3. ASSUME NEW k \in JbJobs
        PROVE  (k \in jblost' \/ \E u \in JbWorkers : jbhas'[u] = k) <=>
               (k \in jblost \/ \E u \in JbWorkers : jbhas[u] = k)
    <3>1. CASE k = j BY <1>2, <1>b, <3>1
    <3>2. CASE k # j BY <1>1, <1>2, <1>b, <3>2
    <3>3. QED BY <3>1, <3>2
  <2>4. QED BY <1>0, <2>1, <2>2, <2>3 DEF JbRecords
<1>7. OnlyEqualIdsCollide' BY <1>0 DEF OnlyEqualIdsCollide
<1>8. QED BY <1>3, <1>4, <1>5, <1>6, <1>7 DEF JobsIInv

\* complete or fail removes the record under the id.
LEMMA SettleOk ==
  ASSUME JobsIInv, NEW w \in JbWorkers, Settle(w)
  PROVE  JobsIInv'
<1> USE JobsAssumption
<1> DEFINE j == jbhas[w]
           i == JbId[j]
<1>0. /\ JobsTypeOK /\ JbPlaces /\ JbHandled /\ JbRecords /\ OnlyEqualIdsCollide
      /\ jbat[w] = "settle" /\ jbrunning' = [jbrunning EXCEPT ![i] = NoJob]
      /\ jbhas' = [jbhas EXCEPT ![w] = NoJob]
      /\ UNCHANGED <<jbqueue, jbnew, jbdrains, jbran, jbbumped>>
  BY DEF JobsIInv, Settle
<1>1. j \in JbJobs /\ j # NoJob /\ j \notin jbnew \cup Range(jbqueue) /\ j \notin jblost /\ i \in JbIds
  BY <1>0 DEF JobsTypeOK, JbPlaces, JbRecords
<1>d. \/ /\ jbrunning[i] # NoJob /\ jblost' = jblost /\ jbdone' = jbdone \cup {jbrunning[i]}
         /\ jbat' = [jbat EXCEPT ![w] = "dequeue"] /\ jbcount' = [jbcount EXCEPT ![w] = @ - 1]
      \/ /\ jbrunning[i] = NoJob /\ jblost' = jblost \cup {j} /\ jbdone' = jbdone
         /\ jbat' = [jbat EXCEPT ![w] = "idle"] /\ jbcount' = jbcount
  BY DEF Settle
<1> HIDE DEF i
<1>2. /\ jbat' \in [JbWorkers -> {"idle", "dequeue", "handle", "settle"}]
      /\ jbat'[w] \in {"idle", "dequeue"} /\ jbhas'[w] = NoJob
      /\ \A u \in JbWorkers \ {w} : jbhas'[u] = jbhas[u] /\ jbat'[u] = jbat[u]
      /\ jbrunning'[i] = NoJob /\ \A k \in JbIds \ {i} : jbrunning'[k] = jbrunning[k]
      /\ \/ jbrunning[i] # NoJob /\ jblost' = jblost
         \/ jbrunning[i] = NoJob /\ jblost' = jblost \cup {j}
  <2>1. /\ jbat' \in [JbWorkers -> {"idle", "dequeue", "handle", "settle"}]
        /\ jbat'[w] \in {"idle", "dequeue"} /\ \A u \in JbWorkers \ {w} : jbat'[u] = jbat[u]
    BY <1>0, <1>d DEF JobsTypeOK
  <2>2. /\ jbhas'[w] = NoJob /\ \A u \in JbWorkers \ {w} : jbhas'[u] = jbhas[u]
        /\ jbrunning'[i] = NoJob /\ \A k \in JbIds \ {i} : jbrunning'[k] = jbrunning[k]
    BY <1>0, <1>1 DEF JobsTypeOK
  <2>3. QED BY <1>d, <2>1, <2>2
<1>3. JobsTypeOK'
  <2>1. jbcount' \in [JbWorkers -> 0..JbLimit]
    <3>1. CASE jbcount' = jbcount BY <1>0, <3>1 DEF JobsTypeOK
    <3>2. CASE jbcount' = [jbcount EXCEPT ![w] = @ - 1] /\ jbrunning[i] # NoJob
      <4>1. jbcount[w] > 0 BY <1>0 DEF JbPlaces
      <4>2. jbcount[w] - 1 \in 0..JbLimit BY <1>0, <4>1 DEF JobsTypeOK
      <4>3. QED BY <1>0, <3>2, <4>2 DEF JobsTypeOK
    <3>3. QED BY <1>d, <3>1, <3>2
  <2>2. jbdone' \subseteq JbJobs BY <1>0, <1>1, <1>d DEF JobsTypeOK
  <2>3. jbrunning' \in [JbIds -> JbJobs \cup {NoJob}] /\ jbhas' \in [JbWorkers -> JbJobs \cup {NoJob}]
    BY <1>0 DEF JobsTypeOK
  <2>4. jblost' \subseteq JbJobs BY <1>0, <1>1, <1>2 DEF JobsTypeOK
  <2>5. QED BY <1>0, <1>2, <2>1, <2>2, <2>3, <2>4 DEF JobsTypeOK
<1>a. \A u \in JbWorkers \ {w} : jbhas[u] # j BY <1>0, <1>1 DEF JbPlaces
<1>b. jbhas[w] = j /\ i = JbId[j] BY DEF i
<1>c. jbnew \cup Range(jbqueue) \subseteq JbJobs
  <2>1. \A n \in DOMAIN jbqueue : jbqueue[n] \in JbJobs BY <1>0 DEF JobsTypeOK
  <2>2. QED BY <1>0, <2>1 DEF Range, JobsTypeOK
<1> HIDE DEF j
<1>4. JbPlaces'
  <2>1. \A u \in JbWorkers : jbhas'[u] # NoJob <=> jbat'[u] \in {"handle", "settle"}
    BY <1>0, <1>2 DEF JbPlaces
  <2>2. \A u \in JbWorkers : jbhas'[u] \in {jbhas[u], NoJob} BY <1>2
  <2>3. \A u \in JbWorkers : jbat'[u] \in {"handle", "settle"} => jbcount'[u] > 0
    <3>1. \A u \in JbWorkers \ {w} : jbcount'[u] = jbcount[u] BY <1>0, <1>d DEF JobsTypeOK
    <3>2. QED BY <1>0, <1>2, <3>1 DEF JbPlaces
  <2>4. QED BY <1>0, <1>c, <2>1, <2>2, <2>3 DEF JbPlaces
<1>5. JbHandled'
  <2>1. jbran[j] # 0 BY <1>0, <1>b DEF JbHandled
  <2>2. /\ \A k \in jbnew' \cup Range(jbqueue') : jbran'[k] = 0
        /\ \A k \in JbJobs : jbran'[k] <= 1
    BY <1>0 DEF JbHandled
  <2>3. \A u \in JbWorkers : /\ jbat'[u] = "handle" => jbran'[jbhas'[u]] = 0
                             /\ jbat'[u] = "settle" => jbran'[jbhas'[u]] # 0
    BY <1>0, <1>2 DEF JbHandled
  <2>4. ASSUME NEW k \in JbJobs, jbran[k] = 0
        PROVE  k \in jbnew \cup Range(jbqueue) \/ \E u \in JbWorkers : jbhas'[u] = k
    <3>1. k # j BY <2>1, <2>4
    <3>2. k \in jbnew \cup Range(jbqueue) \/ \E u \in JbWorkers : jbhas[u] = k
      BY <1>0, <2>4 DEF JbHandled
    <3>3. QED BY <1>2, <1>b, <3>1, <3>2
  <2>5. QED BY <1>0, <2>2, <2>3, <2>4 DEF JbHandled
<1>6. JbRecords'
  <2>1. \A k \in JbIds : jbrunning'[k] # NoJob => JbId[jbrunning'[k]] = k BY <1>0, <1>2 DEF JbRecords
  <2>2. \A k \in jbnew' \cup Range(jbqueue') : k \notin jblost' /\ jbrunning'[JbId[k]] # k
    <3> SUFFICES ASSUME NEW k \in jbnew \cup Range(jbqueue)
                 PROVE  k \notin jblost' /\ jbrunning'[JbId[k]] # k
      BY <1>0
    <3>1. k \in JbJobs /\ k # NoJob /\ JbId[k] \in JbIds /\ k # j BY <1>1, <1>c
    <3>2. QED BY <1>0, <1>2, <3>1 DEF JbRecords
  <2>3. \A u \in JbWorkers : jbhas'[u] \notin jblost'
    <3>1. NoJob \notin jblost /\ j # NoJob BY <1>0, <1>1 DEF JobsTypeOK
    <3>2. QED BY <1>0, <1>2, <1>a, <3>1 DEF JbRecords
  <2>4. ASSUME NEW k \in JbJobs, JbUnique(k)
        PROVE  jbrunning'[JbId[k]] = k <=> k \in jblost' \/ \E u \in JbWorkers : jbhas'[u] = k
    <3>0. JbId[k] \in JbIds /\ k # NoJob
          /\ (jbrunning[JbId[k]] = k <=> k \in jblost \/ \E u \in JbWorkers : jbhas[u] = k)
      BY <1>0, <2>4 DEF JbRecords
    <3>1. CASE k = j
      <4>1. jbrunning[i] = j BY <1>b, <3>0, <3>1
      <4>2. jblost' = jblost BY <1>1, <1>2, <4>1
      <4>3. \A u \in JbWorkers : jbhas'[u] # j BY <1>1, <1>2, <1>a
      <4>4. QED BY <1>1, <1>2, <1>b, <3>1, <4>2, <4>3
    <3>2. CASE k # j
      <4>1. JbId[k] # i BY <1>1, <1>b, <2>4, <3>2 DEF JbUnique
      <4>2. jbrunning'[JbId[k]] = jbrunning[JbId[k]] BY <1>2, <3>0, <4>1
      <4>3. (\E u \in JbWorkers : jbhas'[u] = k) <=> (\E u \in JbWorkers : jbhas[u] = k)
        BY <1>2, <1>b, <3>0, <3>2
      <4>4. QED BY <1>2, <3>0, <3>2, <4>2, <4>3
    <3>3. QED BY <3>1, <3>2
  <2>5. QED BY <2>1, <2>2, <2>3, <2>4 DEF JbRecords
<1>7. OnlyEqualIdsCollide' BY <1>0 DEF OnlyEqualIdsCollide
<1>8. QED BY <1>3, <1>4, <1>5, <1>6, <1>7 DEF JobsIInv

\* No job is handled twice or lost before it is handled, and records are replaced
\* only between equal ids, for any number of jobs, ids and workers (runner.rs,
\* MemoryJobRunner and drain_jobs).
THEOREM JobsInvariant == JobsSpec => []JobsInv
<1>1. JobsIInv /\ [JobsNext]_jbvars => JobsIInv'
  <2> SUFFICES ASSUME JobsIInv, [JobsNext]_jbvars PROVE JobsIInv' OBVIOUS
  <2>1. CASE UNCHANGED jbvars
    BY <2>1 DEF jbvars, JobsIInv, JobsTypeOK, JbPlaces, JbHandled, JbRecords, OnlyEqualIdsCollide
  <2>2. QED BY <2>1, EnqueueOk, DrainOk, DequeueOk, HandleOk, SettleOk DEF JobsNext, JbWork
<1>2. JobsIInv => JobsInv
  <2> SUFFICES ASSUME JobsIInv PROVE JobsInv OBVIOUS
  <2>1. \A j \in JbJobs : j \in JbHeld <=> \E w \in JbWorkers : jbhas[w] = j
    BY JobsAssumption DEF JbHeld
  <2>2. HandledOnce BY <2>1 DEF JobsIInv, JbPlaces, JbHandled, HandledOnce
  <2>3. \A j \in JbJobs : j \in JbRunning <=> jbrunning[JbId[j]] = j
    BY JobsAssumption DEF JobsIInv, JbRecords, JbRunning
  <2>4. RunningMatches BY <2>1, <2>3 DEF JobsIInv, JbRecords, JbUnique, RunningMatches
  <2>5. QED BY <2>2, <2>4 DEF JobsIInv, JobsInv
<1>3. QED BY <1>1, <1>2, JobsInitOk, PTL DEF JobsSpec

(***************************************************************************)
(* Sagas.                                                                  *)
(***************************************************************************)

\* The steps that were done, and what is left to undo: the others have been.
SaProgress ==
  /\ Len(sadone) = saidx - 1 /\ Len(sadone) <= Len(saeffects)
  /\ \A i \in 1..Len(sadone) : sadone[i] = i /\ saeffects[i] = SaEffect("do", i)
  /\ Len(satodo) <= Len(sadone)
  /\ \A i \in 1..Len(satodo) : satodo[i] = Len(satodo) + 1 - i
  /\ saout \in {"Forward", "Ok"} => satodo = <<>> /\ Len(saeffects) = Len(sadone)
  /\ saout = "Ok" => Len(sadone) = SaLen
  /\ saout \notin {"Forward", "Ok"} => SaUndone(Len(satodo))
  /\ saout = "CompensateError" => satodo # <<>> /\ Head(satodo) \in SaCompensated
  /\ saout = "ForwardError" => satodo = <<>>

\* The inductive invariant.
SagaIInv == SagaTypeOK /\ SaProgress

\* It holds at the start.
LEMMA SagaInitOk == SagaInit => SagaIInv
<1> SUFFICES ASSUME SagaInit PROVE SagaIInv OBVIOUS
<1>1. SagaTypeOK BY SagaAssumption DEF SagaInit, SagaTypeOK
<1>2. SaProgress BY DEF SagaInit, SaProgress
<1>3. QED BY <1>1, <1>2 DEF SagaIInv

\* A step is done, or was the last.
LEMMA SaForwardOk == SagaIInv /\ (SaForward \/ SaReturn) => SagaIInv'
<1> SUFFICES ASSUME SagaIInv, SaForward \/ SaReturn PROVE SagaIInv' OBVIOUS
<1> USE SagaAssumption
<1>0. /\ SagaTypeOK /\ SaProgress /\ saidx \in Nat /\ sadone \in Seq(1..SaLen)
      /\ saeffects \in Seq([kind : {"do", "undo"}, step : 1..SaLen])
      /\ saout = "Forward" /\ satodo = <<>> /\ Len(saeffects) = Len(sadone) /\ satodo' = satodo
      /\ Len(sadone) = saidx - 1
  BY DEF SagaIInv, SaForward, SaReturn, SagaTypeOK, SaProgress
<1>1. CASE SaForward
  <2>1. /\ sadone' = Append(sadone, saidx) /\ saeffects' = Append(saeffects, SaEffect("do", saidx))
        /\ saidx' = saidx + 1 /\ saout' = saout /\ saidx \in 1..SaLen
    BY <1>0, <1>1 DEF SaForward, SagaTypeOK
  <2>2. SaEffect("do", saidx) \in [kind : {"do", "undo"}, step : 1..SaLen] BY <2>1 DEF SaEffect
  <2>3. SagaTypeOK' BY <1>0, <2>1, <2>2 DEF SagaTypeOK
  <2>4. /\ Len(sadone') = Len(sadone) + 1 /\ Len(saeffects') = Len(saeffects) + 1
        /\ \A i \in 1..Len(sadone) : sadone'[i] = sadone[i] /\ saeffects'[i] = saeffects[i]
        /\ sadone'[saidx] = saidx /\ saeffects'[saidx] = SaEffect("do", saidx)
    BY <1>0, <2>1, <2>2
  <2>5. \A i \in 1..Len(sadone') : sadone'[i] = i /\ saeffects'[i] = SaEffect("do", i)
    <3> SUFFICES ASSUME NEW i \in 1..Len(sadone')
                 PROVE  sadone'[i] = i /\ saeffects'[i] = SaEffect("do", i)
      OBVIOUS
    <3>1. CASE i = saidx BY <2>4, <3>1
    <3>2. CASE i # saidx
      <4>1. i \in 1..Len(sadone) BY <1>0, <2>4, <3>2
      <4>2. QED BY <1>0, <2>4, <4>1 DEF SaProgress
    <3>3. QED BY <3>1, <3>2
  <2>6. Len(sadone') \in Nat /\ Len(sadone) \in Nat BY <1>0, <2>4
  <2>7. SaProgress' BY <1>0, <2>1, <2>4, <2>5, <2>6 DEF SaProgress
  <2>8. QED BY <2>3, <2>7 DEF SagaIInv
<1>2. CASE SaReturn
  <2>1. saout' = "Ok" /\ saidx > SaLen /\ UNCHANGED <<saidx, sadone, saeffects>> BY <1>2 DEF SaReturn
  <2>2. SagaTypeOK' BY <1>0, <2>1 DEF SagaTypeOK
  <2>3. Len(sadone) = SaLen BY <1>0, <2>1 DEF SagaTypeOK
  <2>4. SaProgress' BY <1>0, <2>1, <2>3 DEF SaProgress
  <2>5. QED BY <2>2, <2>4 DEF SagaIInv
<1>3. QED BY <1>1, <1>2

\* A step fails: all that was done is to be undone, in reverse.
LEMMA SaFailsOk == SagaIInv /\ SaForwardFails => SagaIInv'
<1> SUFFICES ASSUME SagaIInv, SaForwardFails PROVE SagaIInv' OBVIOUS
<1> USE SagaAssumption
<1>0. /\ SagaTypeOK /\ SaProgress /\ sadone \in Seq(1..SaLen)
      /\ saout = "Forward" /\ saout' = "Compensating" /\ Len(saeffects) = Len(sadone)
      /\ satodo' = Reverse(sadone) /\ UNCHANGED <<saidx, sadone, saeffects>>
      /\ Len(sadone) \in Nat
  BY DEF SagaIInv, SaForwardFails, SagaTypeOK, SaProgress
<1>1. satodo' = [i \in 1..Len(sadone) |-> sadone[(Len(sadone) - i) + 1]] BY <1>0 DEF Reverse
<1>2. \A i \in 1..Len(sadone) : (Len(sadone) - i) + 1 \in 1..Len(sadone) BY <1>0
<1>3. \A i \in 1..Len(sadone) : sadone[(Len(sadone) - i) + 1] \in 1..SaLen BY <1>0, <1>2
<1>4. satodo' \in Seq(1..SaLen) /\ Len(satodo') = Len(sadone) BY <1>0, <1>1, <1>3
<1>5. \A i \in 1..Len(sadone) : satodo'[i] = Len(sadone) + 1 - i
  <2> SUFFICES ASSUME NEW i \in 1..Len(sadone) PROVE satodo'[i] = Len(sadone) + 1 - i OBVIOUS
  <2> DEFINE n == (Len(sadone) - i) + 1
  <2>1. satodo'[i] = sadone[n] BY <1>1
  <2>2. n \in 1..Len(sadone) /\ n = Len(sadone) + 1 - i BY <1>0
  <2> HIDE DEF n
  <2>3. sadone[n] = n BY <1>0, <2>2 DEF SaProgress
  <2>4. QED BY <2>1, <2>2, <2>3
<1>6. SaUndone(Len(satodo))'
  <2>1. Len(sadone') + 1..Len(saeffects') = {} BY <1>0
  <2>2. Len(satodo') + 1..Len(sadone') = {} BY <1>0, <1>4
  <2>3. QED BY <2>1, <2>2 DEF SaUndone
<1>7. SagaTypeOK' BY <1>0, <1>4 DEF SagaTypeOK
<1>8. SaProgress' BY <1>0, <1>4, <1>5, <1>6 DEF SaProgress
<1>9. QED BY <1>7, <1>8 DEF SagaIInv

\* The next compensation runs, or the step has none.
LEMMA SaCompensateOk == SagaIInv /\ SaCompensate => SagaIInv'
<1> SUFFICES ASSUME SagaIInv, SaCompensate PROVE SagaIInv' OBVIOUS
<1> USE SagaAssumption
<1> DEFINE n == Len(satodo)
           Effects == [kind : {"do", "undo"}, step : 1..SaLen]
<1>0. /\ SagaTypeOK /\ SaProgress /\ sadone \in Seq(1..SaLen) /\ satodo \in Seq(1..SaLen)
      /\ saeffects \in Seq(Effects) /\ satodo # <<>> /\ satodo' = Tail(satodo)
      /\ saout = "Compensating" /\ UNCHANGED <<saidx, sadone, saout>>
  BY DEF SagaIInv, SaCompensate, SagaTypeOK
<1>1. /\ n \in Nat \ {0} /\ Head(satodo) = n /\ n <= Len(sadone) /\ Len(sadone) \in Nat
      /\ Len(satodo') = n - 1 /\ \A i \in 1..(n - 1) : satodo'[i] = satodo[i + 1]
      /\ Len(saeffects) \in Nat /\ Len(sadone) <= Len(saeffects) /\ n \in 1..SaLen
      /\ satodo' \in Seq(1..SaLen)
  <2>1. /\ n \in Nat \ {0} /\ Head(satodo) = satodo[1] /\ Len(satodo') = n - 1
        /\ satodo' \in Seq(1..SaLen) /\ Head(satodo) \in 1..SaLen
        /\ \A i \in 1..(n - 1) : satodo'[i] = satodo[i + 1]
    BY <1>0
  <2>2. Len(sadone) \in Nat /\ Len(saeffects) \in Nat BY <1>0
  <2>3. Head(satodo) = n
    <3>1. satodo[1] = n + 1 - 1 BY <1>0, <2>1 DEF SaProgress
    <3>2. QED BY <2>1, <3>1
  <2>4. n <= Len(sadone) /\ Len(sadone) <= Len(saeffects) BY <1>0 DEF SaProgress
  <2>5. QED BY <2>1, <2>2, <2>3, <2>4
<1>2. \A i \in 1..Len(satodo') : satodo'[i] = Len(satodo') + 1 - i
  <2> SUFFICES ASSUME NEW i \in 1..(n - 1) PROVE satodo'[i] = n - i BY <1>1
  <2>1. i + 1 \in 1..n BY <1>1
  <2>2. satodo[i + 1] = n + 1 - (i + 1) BY <1>0, <2>1 DEF SaProgress
  <2>3. QED BY <1>1, <2>2
<1>3. saeffects' = IF n \in SaCompensated THEN Append(saeffects, SaEffect("undo", n)) ELSE saeffects
  BY <1>1 DEF SaCompensate
<1>u. SaUndone(n) BY <1>0 DEF SaProgress
<1> HIDE DEF n, Effects
<1>e. \A e \in Effects : e.kind \in {"do", "undo"} /\ e.step \in 1..SaLen BY DEF Effects
<1>4. SaUndone(Len(satodo))' /\ saeffects' \in Seq(Effects) /\ Len(saeffects') >= Len(saeffects)
      /\ \A i \in 1..Len(saeffects) : saeffects'[i] = saeffects[i]
  <2>a. n - 1 + 1 = n /\ n - 1 \in Nat /\ n..Len(sadone) = {n} \cup (n + 1..Len(sadone)) BY <1>1
  <2>1. CASE n \notin SaCompensated
    <3>1. saeffects' = saeffects BY <1>3, <2>1
    <3>2. SaCompensated \cap (n..Len(sadone)) = SaCompensated \cap (n + 1..Len(sadone))
      BY <2>1, <2>a
    <3>3. SaUndone(Len(satodo))' BY <1>0, <1>1, <1>u, <2>a, <3>1, <3>2 DEF SaUndone
    <3>4. QED BY <1>0, <1>1, <3>1, <3>3
  <2>2. CASE n \in SaCompensated
    <3> DEFINE e == SaEffect("undo", n)
               m == Len(saeffects) + 1
               old == Len(sadone) + 1..Len(saeffects)
    <3>1. saeffects' = Append(saeffects, e) /\ e \in Effects /\ e.kind = "undo" /\ e.step = n
      BY <1>1, <1>3, <2>2 DEF SaEffect, Effects
    <3> HIDE DEF e
    <3>2. /\ saeffects' \in Seq(Effects) /\ Len(saeffects') = m /\ saeffects'[m] = e
          /\ \A i \in 1..Len(saeffects) : saeffects'[i] = saeffects[i]
      BY <1>0, <3>1
    <3>3. /\ Len(sadone) + 1..Len(saeffects') = old \cup {m} /\ \A i \in old : i < m
          /\ \A i \in old : saeffects'[i] = saeffects[i]
      BY <1>1, <3>2
    <3>4. /\ \A i \in old : saeffects[i].kind = "undo"
          /\ {saeffects[i].step : i \in old} = SaCompensated \cap (n + 1..Len(sadone))
          /\ \A i, j \in old : i < j => saeffects[i].step > saeffects[j].step
      BY <1>u DEF SaUndone
    <3>5. \A i \in old : saeffects[i].step > n
      <4> SUFFICES ASSUME NEW i \in old PROVE saeffects[i].step > n OBVIOUS
      <4>1. saeffects[i].step \in n + 1..Len(sadone) BY <3>4
      <4>2. QED BY <1>1, <4>1
    <3> HIDE DEF old
    <3>6. \A i \in old \cup {m} : saeffects'[i].kind = "undo" BY <3>1, <3>2, <3>3, <3>4
    <3>7. {saeffects'[i].step : i \in old \cup {m}} = SaCompensated \cap (n..Len(sadone))
      <4>1. {saeffects'[i].step : i \in old \cup {m}} = {saeffects[i].step : i \in old} \cup {n}
        BY <3>1, <3>2, <3>3
      <4>2. SaCompensated \cap (n..Len(sadone)) = (SaCompensated \cap (n + 1..Len(sadone))) \cup {n}
        BY <2>2, <2>a
      <4>3. QED BY <3>4, <4>1, <4>2
    <3>8. ASSUME NEW i \in old \cup {m}, NEW j \in old \cup {m}, i < j
          PROVE  saeffects'[i].step > saeffects'[j].step
      <4>1. i \in Nat /\ j \in Nat /\ m \in Nat BY <1>1 DEF old
      <4>2. i # m BY <3>3, <3>8, <4>1
      <4>3. CASE j = m BY <3>1, <3>2, <3>3, <3>5, <4>2, <4>3
      <4>4. CASE j # m BY <3>3, <3>4, <3>8, <4>2, <4>4
      <4>5. QED BY <4>3, <4>4
    <3>9. SaUndone(Len(satodo))' BY <1>0, <1>1, <2>a, <3>3, <3>6, <3>7, <3>8 DEF SaUndone
    <3>10. QED BY <1>1, <3>2, <3>9
  <2>3. QED BY <2>1, <2>2
<1>5. SagaTypeOK' BY <1>0, <1>1, <1>4 DEF SagaTypeOK, Effects
<1>6. SaProgress'
  <2>1. \A i \in 1..Len(sadone') : sadone'[i] = i /\ saeffects'[i] = SaEffect("do", i)
    <3>1. 1..Len(sadone) \subseteq 1..Len(saeffects) BY <1>1
    <3>2. \A i \in 1..Len(sadone) : saeffects'[i] = saeffects[i] BY <1>4, <3>1
    <3>3. \A i \in 1..Len(sadone) : sadone[i] = i /\ saeffects[i] = SaEffect("do", i)
      BY <1>0 DEF SaProgress
    <3>4. QED BY <1>0, <3>2, <3>3
  <2>2. Len(saeffects') \in Nat /\ Len(sadone') <= Len(saeffects') BY <1>0, <1>1, <1>4
  <2>3. QED BY <1>0, <1>1, <1>2, <1>4, <2>1, <2>2 DEF SaProgress
<1>7. QED BY <1>5, <1>6 DEF SagaIInv

\* The saga ends with an error.
LEMMA SaEndOk == SagaIInv /\ (SaCompensateFails \/ SaAllUndone) => SagaIInv'
<1> SUFFICES ASSUME SagaIInv, SaCompensateFails \/ SaAllUndone PROVE SagaIInv' OBVIOUS
<1>0. /\ SagaTypeOK /\ SaProgress /\ saout = "Compensating"
      /\ UNCHANGED <<saidx, sadone, satodo, saeffects>>
      /\ \/ saout' = "CompensateError" /\ satodo # <<>> /\ Head(satodo) \in SaCompensated
         \/ saout' = "ForwardError" /\ satodo = <<>>
  BY DEF SagaIInv, SaCompensateFails, SaAllUndone
<1>1. SagaTypeOK' BY <1>0 DEF SagaTypeOK
<1>2. SaUndone(Len(satodo))' BY <1>0 DEF SaProgress, SaUndone
<1>3. SaProgress' BY <1>0, <1>2 DEF SaProgress
<1>4. QED BY <1>1, <1>3 DEF SagaIInv

\* Whatever step or compensation fails, what was done is undone in reverse, each step
\* once, for sagas of any length (id_effect_fsm/saga.rs, run and compensate_indices).
THEOREM SagaInvariant == SagaSpec => []SagaInv
<1>1. SagaIInv /\ [SagaNext]_savars => SagaIInv'
  <2> SUFFICES ASSUME SagaIInv, [SagaNext]_savars PROVE SagaIInv' OBVIOUS
  <2>1. CASE UNCHANGED savars
    <3>1. SaUndone(Len(satodo))' <=> SaUndone(Len(satodo)) BY <2>1 DEF savars, SaUndone
    <3>2. QED BY <2>1, <3>1 DEF savars, SagaIInv, SagaTypeOK, SaProgress
  <2>2. QED BY <2>1, SaForwardOk, SaFailsOk, SaCompensateOk, SaEndOk DEF SagaNext
<1>2. SagaIInv => SagaInv
  <2> SUFFICES ASSUME SagaIInv PROVE SagaInv OBVIOUS
  <2>1. SagaTypeOK /\ SaProgress BY DEF SagaIInv
  <2>2. Len(sadone) \in Nat /\ Len(satodo) \in 0..Len(sadone) BY <2>1 DEF SagaTypeOK, SaProgress
  <2>3. \E from \in 0..Len(sadone) : SaUndone(from)
    <3>1. CASE saout \in {"Forward", "Ok"}
      <4>1. SaUndone(Len(sadone))
        <5>1. Len(sadone) + 1..Len(saeffects) = {} /\ Len(sadone) + 1..Len(sadone) = {}
          BY <2>1, <2>2, <3>1 DEF SaProgress
        <5>2. QED BY <5>1 DEF SaUndone
      <4>2. QED BY <2>2, <4>1
    <3>2. CASE saout \notin {"Forward", "Ok"} BY <2>1, <2>2, <3>2 DEF SaProgress
    <3>3. QED BY <3>1, <3>2
  <2>4. saout = "ForwardError" => SaUndone(0) BY <2>1 DEF SaProgress
  <2>5. ASSUME saout = "CompensateError"
        PROVE  \E failed \in SaCompensated \cap (1..Len(sadone)) : SaUndone(failed)
    <3>1. SaUndone(Len(satodo)) /\ satodo # <<>> /\ Head(satodo) \in SaCompensated
      BY <2>1, <2>5 DEF SaProgress
    <3>2. Len(satodo) # 0 /\ Head(satodo) = satodo[1] BY <2>1, <3>1 DEF SagaTypeOK
    <3>3. Head(satodo) = Len(satodo) BY <2>1, <2>2, <3>2 DEF SaProgress
    <3>4. QED BY <2>2, <3>1, <3>2, <3>3
  <2>6. QED BY <2>1, <2>3, <2>4, <2>5 DEF SaProgress, SagaInv
<1>3. QED BY <1>1, <1>2, SagaInitOk, PTL DEF SagaSpec

(***************************************************************************)
(* The outbox.                                                             *)
(***************************************************************************)

\* What a relay holds is in the table, once, and it has published its ids.
ObHeld ==
  \A r \in ObRelays :
     /\ IsInjective(obbatch[r]) /\ Range(obbatch[r]) \subseteq obrows
     /\ obids[r] \subseteq obrows \cap Range(obsent) /\ obids[r] \cap Range(obbatch[r]) = {}
     /\ obat[r] = "idle" => obbatch[r] = <<>>

\* What was held or published was fetched, from the table.
ObFetched ==
  \A x \in ObRows : /\ obsaw[x] \subseteq obrows
                    /\ obsaw[x] = {} => /\ x \notin Range(obsent)
                                        /\ \A r \in ObRelays : x \notin Range(obbatch[r])

\* An older row that was there when a row was first fetched is published, or in the same
\* batch and ahead of it.
ObAhead ==
  \A r \in ObRelays : \A j \in 1..Len(obbatch[r]) : \A x \in obsaw[obbatch[r][j]] :
     x < obbatch[r][j] => x \in Range(obsent) \/ \E i \in 1..j - 1 : obbatch[r][i] = x

\* The relays that hold x published, and those that will publish it.
ObDone(x) == {r \in ObRelays : obat[r] = "publish" /\ x \in obids[r]}
ObDue(x) == {r \in ObRelays : x \in Range(obbatch[r])}

\* Each publication of x is of a relay that has not marked it, or undone by a fault; once
\* x is marked only those that had fetched it publish it again.
ObCounted ==
  \A x \in ObRows :
     /\ x \notin obmarked => Cardinality(ObTimes(x)) <= Cardinality(ObDone(x)) + obfaults
     /\ x \in obmarked =>
          Cardinality(ObTimes(x)) + Cardinality(ObDue(x)) <= Cardinality(ObRelays) + obfaults

\* The inductive invariant.
OutboxIInv == /\ OutboxTypeOK /\ ObHeld /\ obmarked \subseteq Range(obsent) /\ ObFetched
              /\ ObAhead /\ FirstSentInOrder /\ ObCounted

\* What a fetch returns: unmarked rows, once each, none ahead of an older unmarked one.
LEMMA ObFetchGets ==
  ASSUME NEW rows \in SUBSET ObRows, NEW batch,
         NEW all \in ObByTime(rows), NEW k \in 0..Len(all), batch = SubSeq(all, 1, k)
  PROVE  /\ batch \in Seq(ObRows) /\ IsInjective(batch) /\ Range(batch) \subseteq rows
         /\ \A j \in 1..Len(batch) : \A x \in rows :
              x < batch[j] => \E i \in 1..j - 1 : batch[i] = x
<1>1. IsFiniteSet(rows) BY OutboxAssumption, FS_Subset
<1>2. all \in SetToSeqs(rows) /\ \A i, j \in DOMAIN all : i < j => all[i] < all[j] BY DEF ObByTime
<1>3. all \in Seq(ObRows) /\ IsInjective(all) /\ Range(all) = rows BY <1>1, <1>2, SeqsOnce
<1>4. /\ batch \in Seq(ObRows) /\ Len(batch) = k /\ k \in Nat /\ k <= Len(all) /\ Len(all) \in Nat
      /\ DOMAIN batch = 1..k /\ DOMAIN all = 1..Len(all)
      /\ \A i \in 1..k : batch[i] = all[i]
  BY <1>3
<1>5. IsInjective(batch) BY <1>3, <1>4 DEF IsInjective
<1>6. Range(batch) \subseteq rows BY <1>3, <1>4 DEF Range
<1>7. ASSUME NEW j \in 1..Len(batch), NEW x \in rows, x < batch[j]
      PROVE  \E i \in 1..j - 1 : batch[i] = x
  <2>1. PICK i \in DOMAIN all : all[i] = x BY <1>3 DEF Range
  <2>2. all[i] < all[j] /\ j \in DOMAIN all BY <2>1, <1>4, <1>7
  <2>3. all[i] \in Nat /\ all[j] \in Nat
    <3>1. \A m \in 1..Len(all) : all[m] \in ObRows BY <1>3
    <3>2. ObRows \subseteq Nat BY OutboxAssumption
    <3>3. QED BY <3>1, <3>2, <2>1, <2>2, <1>4
  <2>4. ~(j < i) BY <1>2, <2>1, <2>2, <2>3
  <2>5. i # j BY <2>2, <2>3
  <2>6. i \in 1..j - 1 BY <2>1, <2>2, <2>4, <2>5, <1>4
  <2>7. batch[i] = x BY <2>6, <2>1, <1>4
  <2>8. QED BY <2>6, <2>7
<1>8. QED BY <1>4, <1>5, <1>6, <1>7

\* What a relay fetches: unmarked rows, each once, and the older ones before it.
LEMMA ObBatch ==
  ASSUME obrows \in SUBSET ObRows, NEW batch \in FetchUnpublished
  PROVE  /\ batch \in Seq(ObRows) /\ IsInjective(batch) /\ Range(batch) \subseteq obrows \ obmarked
         /\ \A j \in 1..Len(batch) : \A x \in obrows \ obmarked :
              x < batch[j] => \E i \in 1..j - 1 : batch[i] = x
<1>1. PICK all \in ObByTime(obrows \ obmarked) :
        batch = SubSeq(all, 1, IF Len(all) < ObLimit THEN Len(all) ELSE ObLimit)
  BY DEF FetchUnpublished
<1>2. obrows \ obmarked \in SUBSET ObRows /\ IsFiniteSet(obrows \ obmarked)
  BY OutboxAssumption, FS_Subset
<1>3. Len(all) \in Nat
  <2>1. all \in SetToSeqs(obrows \ obmarked) BY <1>1 DEF ObByTime
  <2>2. QED BY <1>2, <2>1, SeqsOnce
<1>4. (IF Len(all) < ObLimit THEN Len(all) ELSE ObLimit) \in 0..Len(all)
  BY <1>3, OutboxAssumption
<1>5. PICK k \in 0..Len(all) : batch = SubSeq(all, 1, k) BY <1>1, <1>4, Zenon
<1>6. QED BY <1>1, <1>2, <1>5, ObFetchGets

\* The places of the rows published when one is added.
LEMMA ObTimesAdd ==
  ASSUME obsent \in Seq(ObRows), NEW h \in ObRows, obsent' = Append(obsent, h), NEW x \in ObRows
  PROVE  /\ ObTimes(x)' = IF x = h THEN ObTimes(x) \cup {Len(obsent) + 1} ELSE ObTimes(x)
         /\ Len(obsent) + 1 \notin ObTimes(x)
         /\ IsFiniteSet(ObTimes(x)) /\ ObTimes(x) \subseteq 1..Len(obsent) /\ Len(obsent) \in Nat
<1>1. /\ Len(obsent) \in Nat /\ DOMAIN obsent = 1..Len(obsent)
      /\ DOMAIN obsent' = 1..Len(obsent) + 1 /\ obsent'[Len(obsent) + 1] = h
      /\ \A i \in 1..Len(obsent) : obsent'[i] = obsent[i]
  OBVIOUS
<1>2. ObTimes(x) \subseteq 1..Len(obsent) BY <1>1 DEF ObTimes
<1>3. IsFiniteSet(ObTimes(x))
  <2>1. IsFiniteSet(1..Len(obsent)) BY <1>1, FS_Interval
  <2>2. QED BY <1>2, <2>1, FS_Subset
<1>4. \A i \in 1..Len(obsent) + 1 : i \in 1..Len(obsent) \/ i = Len(obsent) + 1 BY <1>1
<1>5. Len(obsent) + 1 \notin ObTimes(x) BY <1>1, <1>2
<1>6. ObTimes(x)' = IF x = h THEN ObTimes(x) \cup {Len(obsent) + 1} ELSE ObTimes(x)
  BY <1>1, <1>4 DEF ObTimes
<1>7. QED BY <1>1, <1>2, <1>3, <1>5, <1>6

\* Fetching, for the relay's own part.
LEMMA ObFetchKeeps ==
  ASSUME OutboxIInv, NEW r \in ObRelays, ObFetch(r)
  PROVE  OutboxIInv'
<1>0. /\ OutboxTypeOK /\ ObHeld /\ obmarked \subseteq Range(obsent) /\ ObFetched
      /\ ObAhead /\ FirstSentInOrder /\ ObCounted
  BY DEF OutboxIInv
<1>1. PICK batch \in FetchUnpublished :
        /\ obat[r] = "idle" /\ obat' = [obat EXCEPT ![r] = "publish"]
        /\ obbatch' = [obbatch EXCEPT ![r] = batch]
        /\ obids' = [obids EXCEPT ![r] = {}]
        /\ obsaw' = [x \in ObRows |-> IF x \in Range(batch) /\ obsaw[x] = {}
                                      THEN obrows ELSE obsaw[x]]
        /\ UNCHANGED <<obrows, obmarked, obsent, obfaults>>
  BY DEF ObFetch
<1>2. /\ batch \in Seq(ObRows) /\ IsInjective(batch) /\ Range(batch) \subseteq obrows \ obmarked
      /\ \A j \in 1..Len(batch) : \A x \in obrows \ obmarked :
           x < batch[j] => \E i \in 1..j - 1 : batch[i] = x
  BY <1>0, ObBatch DEF OutboxTypeOK
<1>3. OutboxTypeOK' BY <1>0, <1>1, <1>2 DEF OutboxTypeOK
<1>4. obbatch[r] = <<>> /\ Range(obbatch[r]) = {} BY <1>0, <1>1, EmptyLine DEF ObHeld
<1>5. \A s \in ObRelays : /\ s # r => obbatch'[s] = obbatch[s] /\ obids'[s] = obids[s] /\ obat'[s] = obat[s]
                          /\ s = r => obbatch'[s] = batch /\ obids'[s] = {} /\ obat'[s] = "publish"
  BY <1>0, <1>1 DEF OutboxTypeOK
<1>6. ObHeld'
  <2> SUFFICES ASSUME NEW s \in ObRelays
               PROVE  /\ IsInjective(obbatch'[s]) /\ Range(obbatch'[s]) \subseteq obrows
                      /\ obids'[s] \subseteq obrows \cap Range(obsent)
                      /\ obids'[s] \cap Range(obbatch'[s]) = {}
                      /\ obat'[s] = "idle" => obbatch'[s] = <<>>
    BY <1>1 DEF ObHeld
  <2>1. CASE s = r BY <2>1, <1>2, <1>5
  <2>2. CASE s # r BY <2>2, <1>0, <1>5 DEF ObHeld
  <2>3. QED BY <2>1, <2>2
<1>7. \A x \in ObRows : /\ obsaw[x] # {} => obsaw'[x] = obsaw[x]
                        /\ obsaw'[x] \subseteq obrows
                        /\ obsaw'[x] = {} => obsaw[x] = {} /\ x \notin Range(batch)
  BY <1>0, <1>1, <1>2 DEF ObFetched
<1>8. ObFetched'
  <2> SUFFICES ASSUME NEW x \in ObRows, obsaw'[x] = {}, NEW s \in ObRelays
               PROVE  x \notin Range(obsent) /\ x \notin Range(obbatch'[s])
    <3>1. \A x \in ObRows : obsaw'[x] = {} => x \notin Range(obsent) BY <1>0, <1>7 DEF ObFetched
    <3>2. QED BY <1>1, <1>7, <3>1 DEF ObFetched
  <2>1. obsaw[x] = {} /\ x \notin Range(batch) BY <1>7
  <2>2. x \notin Range(obsent) /\ x \notin Range(obbatch[s]) BY <1>0, <2>1 DEF ObFetched
  <2>3. QED BY <2>1, <2>2, <1>5
<1>9. ObAhead'
  <2> SUFFICES ASSUME NEW s \in ObRelays, NEW j \in 1..Len(obbatch'[s]),
                      NEW x \in obsaw'[obbatch'[s][j]], x < obbatch'[s][j]
               PROVE  x \in Range(obsent') \/ \E i \in 1..j - 1 : obbatch'[s][i] = x
    BY DEF ObAhead
  <2>0. obsent' = obsent BY <1>1
  <2>1. CASE s = r
    <3>1. obbatch'[s] = batch BY <2>1, <1>5
    <3>2. batch[j] \in ObRows BY <1>2, <3>1
    <3>3. x \in obrows /\ x < batch[j] /\ j \in 1..Len(batch) BY <1>7, <3>1, <3>2
    <3>4. x \in obmarked => x \in Range(obsent) BY <1>0
    <3>5. QED BY <2>0, <3>1, <3>3, <3>4, <1>2
  <2>2. CASE s # r
    <3>1. obbatch'[s] = obbatch[s] BY <2>2, <1>5
    <3>2. PICK b \in Seq(ObRows) : b = obbatch[s] BY <1>0 DEF OutboxTypeOK
    <3>3. b[j] \in ObRows /\ b[j] \in Range(b) BY <3>1, <3>2 DEF Range
    <3>4. obsaw[b[j]] # {} BY <1>0, <3>2, <3>3 DEF ObFetched
    <3>5. x \in obsaw[b[j]] /\ x < b[j] /\ j \in 1..Len(b) BY <3>1, <3>2, <3>3, <3>4, <1>7
    <3>6. QED BY <1>0, <2>0, <3>1, <3>2, <3>5 DEF ObAhead
  <2>3. QED BY <2>1, <2>2
<1>10. \A x \in ObRows : ObTimes(x)' = ObTimes(x) BY <1>1 DEF ObTimes
<1>11. FirstSentInOrder'
  <2> SUFFICES ASSUME NEW x \in ObRows, NEW y \in ObRows, x < y, x \in obsaw'[y], ObTimes(y) # {}
               PROVE  \E i \in ObTimes(x) : \A k \in ObTimes(y) : i < k
    BY <1>10 DEF FirstSentInOrder
  <2>1. y \in Range(obsent) BY DEF ObTimes, Range
  <2>2. obsaw[y] # {} BY <1>0, <2>1 DEF ObFetched
  <2>3. x \in obsaw[y] BY <2>2, <1>7
  <2>4. QED BY <1>0, <2>3 DEF FirstSentInOrder
<1>12. ObCounted'
  <2> SUFFICES ASSUME NEW x \in ObRows
               PROVE  /\ x \notin obmarked => ObDone(x)' = ObDone(x)
                      /\ x \in obmarked => ObDue(x)' = ObDue(x)
    BY <1>0, <1>1, <1>10 DEF ObCounted
  <2>1. \A s \in ObRelays : (obat'[s] = "publish" /\ x \in obids'[s]) <=> (obat[s] = "publish" /\ x \in obids[s])
    BY <1>1, <1>5
  <2>2. ObDone(x)' = ObDone(x) BY <2>1 DEF ObDone
  <2>3. ASSUME x \in obmarked
        PROVE  \A s \in ObRelays : x \in Range(obbatch'[s]) <=> x \in Range(obbatch[s])
    BY <2>3, <1>2, <1>4, <1>5
  <2>4. x \in obmarked => ObDue(x)' = ObDue(x) BY <2>3 DEF ObDue
  <2>5. QED BY <2>2, <2>4
<1>13. obmarked' \subseteq Range(obsent') BY <1>0, <1>1
<1>14. QED BY <1>3, <1>6, <1>8, <1>9, <1>11, <1>12, <1>13 DEF OutboxIInv

\* Publishing the first row of a batch.
LEMMA ObPublishKeeps ==
  ASSUME OutboxIInv, NEW r \in ObRelays, ObPublish(r)
  PROVE  OutboxIInv'
<1>0. /\ OutboxTypeOK /\ ObHeld /\ obmarked \subseteq Range(obsent) /\ ObFetched
      /\ ObAhead /\ FirstSentInOrder /\ ObCounted
  BY DEF OutboxIInv
<1>1. PICK b \in Seq(ObRows) : b = obbatch[r] BY <1>0 DEF OutboxTypeOK
<1>2. b # <<>> /\ IsInjective(b) /\ Range(b) \subseteq obrows /\ obat[r] = "publish"
      /\ obids[r] \cap Range(b) = {}
  BY <1>0, <1>1 DEF ObHeld, ObPublish
<1>3. PICK h \in ObRows : h = Head(b) BY <1>2
<1>4. /\ Tail(b) \in Seq(ObRows) /\ h \in Range(b)
      /\ IsInjective(Tail(b)) /\ Range(Tail(b)) = Range(b) \ {h}
  BY <1>2, <1>3, TailOnce
<1>5. /\ obsent' = Append(obsent, h) /\ obids' = [obids EXCEPT ![r] = @ \cup {h}]
      /\ obbatch' = [obbatch EXCEPT ![r] = Tail(b)]
      /\ obrows' = obrows /\ obmarked' = obmarked /\ obat' = obat /\ obsaw' = obsaw
      /\ obfaults' = obfaults
  BY <1>0, <1>1, <1>3 DEF ObPublish, OutboxTypeOK
<1>6. \A s \in ObRelays : /\ s # r => obbatch'[s] = obbatch[s] /\ obids'[s] = obids[s]
                          /\ s = r => obbatch'[s] = Tail(b) /\ obids'[s] = obids[s] \cup {h}
  BY <1>0, <1>5 DEF OutboxTypeOK
<1>7. obsent \in Seq(ObRows) /\ obsent' \in Seq(ObRows) /\ Range(obsent') = Range(obsent) \cup {h}
  BY <1>0, <1>5, RangeAppend DEF OutboxTypeOK
<1>8. OutboxTypeOK' BY <1>0, <1>4, <1>5, <1>7 DEF OutboxTypeOK
<1>9. ObHeld'
  <2> SUFFICES ASSUME NEW s \in ObRelays
               PROVE  /\ IsInjective(obbatch'[s]) /\ Range(obbatch'[s]) \subseteq obrows'
                      /\ obids'[s] \subseteq obrows' \cap Range(obsent')
                      /\ obids'[s] \cap Range(obbatch'[s]) = {}
                      /\ obat'[s] = "idle" => obbatch'[s] = <<>>
    BY DEF ObHeld
  <2>0. /\ obids[s] \subseteq obrows \cap Range(obsent)
        /\ IsInjective(obbatch[s]) /\ Range(obbatch[s]) \subseteq obrows
        /\ obids[s] \cap Range(obbatch[s]) = {}
        /\ obat[s] = "idle" => obbatch[s] = <<>>
    BY <1>0 DEF ObHeld
  <2>1. CASE s = r BY <2>0, <2>1, <1>2, <1>4, <1>5, <1>6, <1>7
  <2>2. CASE s # r BY <2>0, <2>2, <1>5, <1>6, <1>7
  <2>3. QED BY <2>1, <2>2
<1>10. ObFetched'
  <2> SUFFICES ASSUME NEW x \in ObRows
               PROVE  /\ obsaw'[x] \subseteq obrows'
                      /\ obsaw'[x] = {} => /\ x \notin Range(obsent')
                                           /\ \A s \in ObRelays : x \notin Range(obbatch'[s])
    BY DEF ObFetched
  <2>1. /\ obsaw[x] \subseteq obrows
        /\ obsaw[x] = {} => /\ x \notin Range(obsent) /\ x \notin Range(b)
                            /\ \A s \in ObRelays : x \notin Range(obbatch[s])
    BY <1>0, <1>1 DEF ObFetched
  <2>2. obsaw[x] = {} => x # h BY <2>1, <1>4
  <2>3. obsaw[x] = {} => \A s \in ObRelays : x \notin Range(obbatch'[s]) BY <2>1, <1>4, <1>6
  <2>4. QED BY <2>1, <2>2, <2>3, <1>5, <1>7
<1>11. /\ Len(b) \in Nat \ {0} /\ h = b[1] /\ Len(Tail(b)) = Len(b) - 1
       /\ \A j \in 1..Len(Tail(b)) : Tail(b)[j] = b[j + 1] /\ j + 1 \in 1..Len(b)
  BY <1>2, <1>3
<1>12. ObAhead'
  <2> SUFFICES ASSUME NEW s \in ObRelays, NEW j \in 1..Len(obbatch'[s]),
                      NEW x \in obsaw'[obbatch'[s][j]], x < obbatch'[s][j]
               PROVE  x \in Range(obsent') \/ \E i \in 1..j - 1 : obbatch'[s][i] = x
    BY DEF ObAhead
  <2>1. CASE s = r
    <3>1. obbatch'[s] = Tail(b) /\ j \in 1..Len(Tail(b)) BY <2>1, <1>6
    <3>2. j + 1 \in 1..Len(b) /\ x \in obsaw[b[j + 1]] /\ x < b[j + 1] /\ j \in Nat
      BY <3>1, <1>5, <1>11
    <3>3. x \in Range(obsent) \/ \E i \in 1..(j + 1) - 1 : b[i] = x BY <1>0, <1>1, <3>2 DEF ObAhead
    <3>4. CASE x \in Range(obsent) BY <3>4, <1>7
    <3>5. ASSUME NEW i \in 1..(j + 1) - 1, b[i] = x
          PROVE  x \in Range(obsent') \/ \E k \in 1..j - 1 : obbatch'[s][k] = x
      <4>1. CASE i = 1 BY <4>1, <3>5, <1>7, <1>11
      <4>2. CASE i # 1
        <5>1. i - 1 \in 1..j - 1 /\ i - 1 \in 1..Len(Tail(b)) /\ (i - 1) + 1 = i
          BY <4>2, <3>1, <3>2, <1>11
        <5>2. Tail(b)[i - 1] = x BY <5>1, <3>5, <1>11
        <5>3. QED BY <5>1, <5>2, <3>1
      <4>3. QED BY <4>1, <4>2
    <3>6. QED BY <3>3, <3>4, <3>5
  <2>2. CASE s # r
    <3>1. obbatch'[s] = obbatch[s] BY <2>2, <1>6
    <3>2. j \in 1..Len(obbatch[s]) /\ x \in obsaw[obbatch[s][j]] /\ x < obbatch[s][j]
      BY <3>1, <1>5
    <3>3. QED BY <1>0, <1>7, <3>1, <3>2 DEF ObAhead
  <2>3. QED BY <2>1, <2>2
<1>13. \A x \in ObRows :
         /\ ObTimes(x)' = IF x = h THEN ObTimes(x) \cup {Len(obsent) + 1} ELSE ObTimes(x)
         /\ Len(obsent) + 1 \notin ObTimes(x)
         /\ IsFiniteSet(ObTimes(x)) /\ ObTimes(x) \subseteq 1..Len(obsent) /\ Len(obsent) \in Nat
  BY <1>5, <1>7, ObTimesAdd
<1>14. FirstSentInOrder'
  <2> SUFFICES ASSUME NEW x \in ObRows, NEW y \in ObRows, x < y, x \in obsaw'[y], ObTimes(y)' # {}
               PROVE  \E i \in ObTimes(x)' : \A k \in ObTimes(y)' : i < k
    BY DEF FirstSentInOrder
  <2>0. x \in obsaw[y] BY <1>5
  <2>1. CASE ObTimes(y) # {}
    <3>1. PICK i \in ObTimes(x) : \A k \in ObTimes(y) : i < k BY <2>0, <2>1, <1>0 DEF FirstSentInOrder
    <3>2. i \in 1..Len(obsent) /\ i \in ObTimes(x)' BY <3>1, <1>13
    <3>3. \A k \in ObTimes(y)' : k \in ObTimes(y) \/ k = Len(obsent) + 1 BY <1>13
    <3>4. i < Len(obsent) + 1 BY <3>2, <1>13
    <3>5. QED BY <3>1, <3>2, <3>3, <3>4
  <2>2. CASE ObTimes(y) = {}
    <3>1. y = h /\ \A k \in ObTimes(y)' : k = Len(obsent) + 1 BY <2>2, <1>13
    <3>2. x \in Range(obsent)
      <4>1. 1 \in 1..Len(b) /\ x \in obsaw[b[1]] /\ x < b[1] BY <1>11, <2>0, <3>1
      <4>2. x \in Range(obsent) \/ \E i \in 1..1 - 1 : b[i] = x BY <4>1, <1>0, <1>1 DEF ObAhead
      <4>3. QED BY <4>2
    <3>3. PICK i \in ObTimes(x) : TRUE BY <3>2 DEF ObTimes, Range
    <3>4. i \in 1..Len(obsent) /\ i \in ObTimes(x)' BY <3>3, <1>13
    <3>5. i < Len(obsent) + 1 BY <3>4, <1>13
    <3>6. QED BY <3>1, <3>4, <3>5
  <2>3. QED BY <2>1, <2>2
<1>15. ObCounted'
  <2>0. IsFiniteSet(ObRelays) BY OutboxAssumption
  <2> SUFFICES ASSUME NEW x \in ObRows
               PROVE  /\ x \notin obmarked' =>
                           Cardinality(ObTimes(x)') <= Cardinality(ObDone(x)') + obfaults'
                      /\ x \in obmarked' =>
                           Cardinality(ObTimes(x)') + Cardinality(ObDue(x)')
                              <= Cardinality(ObRelays) + obfaults'
    BY DEF ObCounted
  <2>1. /\ x \notin obmarked => Cardinality(ObTimes(x)) <= Cardinality(ObDone(x)) + obfaults
        /\ x \in obmarked =>
             Cardinality(ObTimes(x)) + Cardinality(ObDue(x)) <= Cardinality(ObRelays) + obfaults
    BY <1>0 DEF ObCounted
  <2>2. CASE x # h
    <3>1. ObTimes(x)' = ObTimes(x) BY <2>2, <1>13
    <3>2. ObDone(x)' = ObDone(x) BY <2>2, <1>5, <1>6 DEF ObDone
    <3>3. \A s \in ObRelays : x \in Range(obbatch'[s]) <=> x \in Range(obbatch[s])
      BY <2>2, <1>1, <1>4, <1>6
    <3>4. ObDue(x)' = ObDue(x) BY <3>3 DEF ObDue
    <3>5. QED BY <3>1, <3>2, <3>4, <2>1, <1>5
  <2>3. CASE x = h
    <3>1. PICK T : T = ObTimes(x) OBVIOUS
    <3>2. ObTimes(x)' = T \cup {Len(obsent) + 1} /\ Len(obsent) + 1 \notin T /\ IsFiniteSet(T)
      BY <3>1, <2>3, <1>13
    <3>3. Cardinality(ObTimes(x)') = Cardinality(T) + 1 /\ Cardinality(T) \in Nat
      BY <3>2, FS_AddElement, FS_CardinalityType
    <3>4. PICK D \in SUBSET ObRelays : D = ObDone(x) BY DEF ObDone
    <3>5. r \notin D /\ ObDone(x)' = D \cup {r}
      <4>1. r \notin D BY <3>4, <2>3, <1>2, <1>4 DEF ObDone
      <4>2. \A s \in ObRelays : (obat'[s] = "publish" /\ x \in obids'[s])
                                  <=> ((obat[s] = "publish" /\ x \in obids[s]) \/ s = r)
        BY <1>2, <1>5, <1>6, <2>3
      <4>3. QED BY <4>1, <4>2, <3>4 DEF ObDone
    <3>a. Cardinality(D \cup {r}) = Cardinality(D) + 1 /\ Cardinality(D) \in Nat
      BY <3>5, <2>0, CountChange
    <3>6. Cardinality(ObDone(x)') = Cardinality(D) + 1 /\ Cardinality(D) \in Nat
      BY <3>5, <3>a, Zenon
    <3>7. PICK E \in SUBSET ObRelays : E = ObDue(x) BY DEF ObDue
    <3>8. r \in E /\ ObDue(x)' = E \ {r}
      <4>1. r \in E BY <3>7, <2>3, <1>1, <1>4 DEF ObDue
      <4>2. \A s \in ObRelays : x \in Range(obbatch'[s]) <=> (x \in Range(obbatch[s]) /\ s # r)
        BY <1>4, <1>6, <2>3
      <4>3. QED BY <4>1, <4>2, <3>7 DEF ObDue
    <3>9. Cardinality(ObDue(x)') = Cardinality(E) - 1 /\ Cardinality(E) \in Nat
      BY <3>8, <2>0, CountChange
    <3>10. Cardinality(ObRelays) \in Nat /\ obfaults \in Nat
      BY <2>0, FS_CardinalityType, <1>0 DEF OutboxTypeOK
    <3>11. /\ x \notin obmarked => Cardinality(T) <= Cardinality(D) + obfaults
           /\ x \in obmarked => Cardinality(T) + Cardinality(E) <= Cardinality(ObRelays) + obfaults
      BY <2>1, <3>1, <3>4, <3>7, Zenon
    <3>12. QED BY <3>3, <3>6, <3>9, <3>10, <3>11, <1>5
  <2>4. QED BY <2>2, <2>3
<1>16. obmarked' \subseteq Range(obsent') BY <1>0, <1>5, <1>7
<1>17. QED BY <1>8, <1>9, <1>10, <1>12, <1>14, <1>15, <1>16 DEF OutboxIInv

\* A relay that stops, by a fault or because it has marked its batch.
LEMMA ObStopKeeps ==
  ASSUME OutboxIInv, NEW r \in ObRelays, ObFault(r) \/ ObMark(r)
  PROVE  OutboxIInv'
<1>0. /\ OutboxTypeOK /\ ObHeld /\ obmarked \subseteq Range(obsent) /\ ObFetched
      /\ ObAhead /\ FirstSentInOrder /\ ObCounted
  BY DEF OutboxIInv
<1>1. PICK ids \in SUBSET ObRows : ids = obids[r] BY <1>0 DEF OutboxTypeOK
<1>2. ids \subseteq obrows \cap Range(obsent) BY <1>0, <1>1 DEF ObHeld
<1>3. /\ obrows' = obrows /\ obsent' = obsent /\ obsaw' = obsaw
      /\ obat' = [obat EXCEPT ![r] = "idle"] /\ obat[r] = "publish"
      /\ \/ /\ obmarked' = obmarked /\ obfaults' = obfaults + 1 /\ obfaults < ObFaults
            /\ obbatch' = [obbatch EXCEPT ![r] = <<>>] /\ obids' = [obids EXCEPT ![r] = {}]
         \/ /\ obmarked' = obmarked \cup ids /\ obfaults' = obfaults
            /\ obbatch' = obbatch /\ obids' = obids /\ obbatch[r] = <<>>
  BY <1>1 DEF ObFault, ObMark
<1>4. \A s \in ObRelays : /\ s # r => obbatch'[s] = obbatch[s] /\ obids'[s] = obids[s] /\ obat'[s] = obat[s]
                          /\ s = r => obbatch'[s] = <<>> /\ obat'[s] = "idle"
                          /\ obids'[s] \subseteq obids[s]
  BY <1>0, <1>3 DEF OutboxTypeOK
<1>5. <<>> \in Seq(ObRows) OBVIOUS
<1>6. OutboxTypeOK'
  <2>1. obat' \in [ObRelays -> {"idle", "publish"}] /\ obfaults' \in 0..ObFaults
    BY <1>0, <1>3, OutboxAssumption DEF OutboxTypeOK
  <2>2. obbatch' \in [ObRelays -> Seq(ObRows)] /\ obids' \in [ObRelays -> SUBSET ObRows]
    BY <1>0, <1>3, <1>5 DEF OutboxTypeOK
  <2>3. obmarked' \subseteq obrows' BY <1>0, <1>2, <1>3 DEF OutboxTypeOK
  <2>4. QED BY <1>0, <1>3, <2>1, <2>2, <2>3 DEF OutboxTypeOK
<1>7. ObHeld'
  <2> SUFFICES ASSUME NEW s \in ObRelays
               PROVE  /\ IsInjective(obbatch'[s]) /\ Range(obbatch'[s]) \subseteq obrows'
                      /\ obids'[s] \subseteq obrows' \cap Range(obsent')
                      /\ obids'[s] \cap Range(obbatch'[s]) = {}
                      /\ obat'[s] = "idle" => obbatch'[s] = <<>>
    BY DEF ObHeld
  <2>0. /\ obids[s] \subseteq obrows \cap Range(obsent)
        /\ IsInjective(obbatch[s]) /\ Range(obbatch[s]) \subseteq obrows
        /\ obids[s] \cap Range(obbatch[s]) = {}
        /\ obat[s] = "idle" => obbatch[s] = <<>>
    BY <1>0 DEF ObHeld
  <2>1. CASE s = r BY <2>0, <2>1, <1>3, <1>4, EmptyLine
  <2>2. CASE s # r BY <2>0, <2>2, <1>3, <1>4
  <2>3. QED BY <2>1, <2>2
<1>8. \A s \in ObRelays : obbatch'[s] = obbatch[s] \/ obbatch'[s] = <<>> BY <1>4
<1>9. ObFetched' BY <1>0, <1>3, <1>8, EmptyLine DEF ObFetched
<1>10. ObAhead'
  <2> SUFFICES ASSUME NEW s \in ObRelays, NEW j \in 1..Len(obbatch'[s]),
                      NEW x \in obsaw'[obbatch'[s][j]], x < obbatch'[s][j]
               PROVE  x \in Range(obsent') \/ \E i \in 1..j - 1 : obbatch'[s][i] = x
    BY DEF ObAhead
  <2>1. obbatch'[s] = obbatch[s]
    <3>1. 1..Len(<<>>) = {} OBVIOUS
    <3>2. QED BY <3>1, <1>8
  <2>2. j \in 1..Len(obbatch[s]) /\ x \in obsaw[obbatch[s][j]] /\ x < obbatch[s][j] BY <2>1, <1>3
  <2>3. QED BY <1>0, <1>3, <2>1, <2>2 DEF ObAhead
<1>11. \A x \in ObRows : ObTimes(x)' = ObTimes(x) BY <1>3 DEF ObTimes
<1>12. FirstSentInOrder' BY <1>0, <1>3, <1>11 DEF FirstSentInOrder
<1>13. obmarked' \subseteq Range(obsent') BY <1>0, <1>2, <1>3
<1>14. ObCounted'
  <2>0. IsFiniteSet(ObRelays) BY OutboxAssumption
  <2> SUFFICES ASSUME NEW x \in ObRows
               PROVE  /\ x \notin obmarked' =>
                           Cardinality(ObTimes(x)') <= Cardinality(ObDone(x)') + obfaults'
                      /\ x \in obmarked' =>
                           Cardinality(ObTimes(x)') + Cardinality(ObDue(x)')
                              <= Cardinality(ObRelays) + obfaults'
    BY DEF ObCounted
  <2>1. PICK n : n = Cardinality(ObTimes(x)) OBVIOUS
  <2>2. n \in Nat /\ Cardinality(ObTimes(x)') = n
    <3>1. ObTimes(x) \subseteq 1..Len(obsent) /\ Len(obsent) \in Nat BY <1>0 DEF ObTimes, OutboxTypeOK
    <3>2. IsFiniteSet(1..Len(obsent)) BY <3>1, FS_Interval
    <3>3. IsFiniteSet(ObTimes(x)) BY <3>1, <3>2, FS_Subset
    <3>4. Cardinality(ObTimes(x)) \in Nat BY <3>3, FS_CardinalityType
    <3>5. ObTimes(x)' = ObTimes(x) BY <1>11
    <3>6. QED BY <3>4, <3>5, <2>1, Zenon
  <2>3. PICK D \in SUBSET ObRelays : D = ObDone(x) BY DEF ObDone
  <2>4. PICK E \in SUBSET ObRelays : E = ObDue(x) BY DEF ObDue
  <2>5. PICK D1 \in SUBSET ObRelays : D1 = ObDone(x)' BY DEF ObDone
  <2>6. PICK E1 \in SUBSET ObRelays : E1 = ObDue(x)' BY DEF ObDue
  <2>7. /\ x \notin obmarked => n <= Cardinality(D) + obfaults
        /\ x \in obmarked => n + Cardinality(E) <= Cardinality(ObRelays) + obfaults
    <3>1. /\ x \notin obmarked => Cardinality(ObTimes(x)) <= Cardinality(ObDone(x)) + obfaults
          /\ x \in obmarked => Cardinality(ObTimes(x)) + Cardinality(ObDue(x))
                                 <= Cardinality(ObRelays) + obfaults
      BY <1>0 DEF ObCounted
    <3>2. QED BY <3>1, <2>1, <2>3, <2>4, Zenon
  <2>8. D1 = D \ {r}
    <3>1. \A s \in ObRelays : (obat'[s] = "publish" /\ x \in obids'[s])
                                <=> (s # r /\ obat[s] = "publish" /\ x \in obids[s])
      BY <1>4
    <3>2. QED BY <3>1, <2>3, <2>5 DEF ObDone
  <2>9. E1 \subseteq E
    <3>1. \A s \in ObRelays : x \in Range(obbatch'[s]) => x \in Range(obbatch[s]) BY <1>8, EmptyLine
    <3>2. QED BY <3>1, <2>4, <2>6 DEF ObDue
  <2>10. D \cap E = {} BY <1>0, <2>3, <2>4 DEF ObDone, ObDue, ObHeld
  <2>11. /\ Cardinality(D) \in Nat /\ Cardinality(E) \in Nat /\ Cardinality(E1) \in Nat
         /\ Cardinality(ObRelays) \in Nat /\ Cardinality(E1) <= Cardinality(E)
         /\ IsFiniteSet(D) /\ IsFiniteSet(E)
    BY <2>0, <2>9, FS_Subset, FS_CardinalityType
  <2>12. /\ r \notin D => Cardinality(D1) = Cardinality(D)
         /\ r \in D => Cardinality(D1) = Cardinality(D) - 1
    <3>1. r \notin D => D1 = D BY <2>8
    <3>2. r \in D => Cardinality(D \ {r}) = Cardinality(D) - 1 BY <2>11, FS_RemoveElement
    <3>3. QED BY <3>1, <3>2, <2>8
  <2>13. Cardinality(D) + Cardinality(E) <= Cardinality(ObRelays)
    <3>1. Cardinality(D \cup E) = Cardinality(D) + Cardinality(E)
      <4>1. Cardinality(D \cup E) = Cardinality(D) + Cardinality(E) - Cardinality(D \cap E)
        BY <2>11, FS_Union
      <4>2. Cardinality(D \cap E) = 0 BY <2>10, FS_EmptySet
      <4>3. QED BY <4>1, <4>2, <2>11
    <3>2. Cardinality(D \cup E) <= Cardinality(ObRelays) BY <2>0, FS_Subset
    <3>3. QED BY <3>1, <3>2
  <2>14. obfaults \in Nat BY <1>0 DEF OutboxTypeOK
  <2>15. /\ x \notin obmarked' => n <= Cardinality(D1) + obfaults'
         /\ x \in obmarked' => n + Cardinality(E1) <= Cardinality(ObRelays) + obfaults'
    <3>1. CASE obmarked' = obmarked /\ obfaults' = obfaults + 1
      BY <3>1, <2>2, <2>7, <2>11, <2>12, <2>14
    <3>2. CASE obmarked' = obmarked \cup ids /\ obfaults' = obfaults
      <4>1. x \notin obmarked' => r \notin D BY <3>2, <1>1, <2>3 DEF ObDone
      <4>2. QED BY <3>2, <4>1, <2>2, <2>7, <2>11, <2>12, <2>13, <2>14
    <3>3. QED BY <1>3, <3>1, <3>2
  <2>16. QED BY <2>2, <2>5, <2>6, <2>15, Zenon
<1>15. QED BY <1>6, <1>7, <1>9, <1>10, <1>12, <1>13, <1>14 DEF OutboxIInv

\* Relays publish before they mark, in the order of creation, and repeat a row only as
\* often as there are other relays and faults.
THEOREM OutboxInvariant == OutboxSpec => []OutboxInv
<1>1. OutboxInit => OutboxIInv
  <2> SUFFICES ASSUME OutboxInit PROVE OutboxIInv OBVIOUS
  <2> USE DEF OutboxInit
  <2>0. <<>> \in Seq(ObRows) /\ Range(<<>>) = {} /\ IsInjective(<<>>) BY EmptyLine
  <2>1. OutboxTypeOK BY <2>0, OutboxAssumption DEF OutboxTypeOK
  <2>2. ObHeld BY <2>0 DEF ObHeld
  <2>3. ObFetched BY <2>0 DEF ObFetched
  <2>4. 1..Len(<<>>) = {} OBVIOUS
  <2>5. ObAhead BY <2>4 DEF ObAhead
  <2>6. \A x \in ObRows : ObTimes(x) = {} BY DEF ObTimes
  <2>7. FirstSentInOrder BY <2>6 DEF FirstSentInOrder
  <2>8. ObCounted
    <3> SUFFICES ASSUME NEW x \in ObRows
                 PROVE  Cardinality(ObTimes(x)) <= Cardinality(ObDone(x)) + obfaults
      BY DEF ObCounted
    <3>1. ObDone(x) = {} /\ ObTimes(x) = {} BY <2>6 DEF ObDone
    <3>2. Cardinality({}) = 0 BY FS_EmptySet
    <3>3. QED BY <3>1, <3>2
  <2>9. QED BY <2>1, <2>2, <2>3, <2>5, <2>7, <2>8 DEF OutboxIInv
<1>2. OutboxIInv /\ [OutboxNext]_obvars => OutboxIInv'
  <2> SUFFICES ASSUME OutboxIInv, [OutboxNext]_obvars PROVE OutboxIInv' OBVIOUS
  <2>1. ASSUME \/ UNCHANGED obvars
               \/ \E x \in ObRows : ObInsert(x)
        PROVE  OutboxIInv'
    <3>1. /\ UNCHANGED <<obmarked, obat, obbatch, obids, obsent, obsaw, obfaults>>
          /\ obrows \subseteq obrows' /\ obrows' \subseteq ObRows
      BY <2>1 DEF obvars, ObInsert, OutboxIInv, OutboxTypeOK
    <3>2. OutboxTypeOK' BY <3>1 DEF OutboxIInv, OutboxTypeOK
    <3>3. ObHeld' BY <3>1 DEF OutboxIInv, ObHeld
    <3>4. ObFetched' BY <3>1 DEF OutboxIInv, ObFetched
    <3>5. ObAhead' BY <3>1 DEF OutboxIInv, ObAhead
    <3>6. \A x \in ObRows : ObTimes(x)' = ObTimes(x) /\ ObDone(x)' = ObDone(x) /\ ObDue(x)' = ObDue(x)
      BY <3>1 DEF ObTimes, ObDone, ObDue
    <3>7. FirstSentInOrder' BY <3>1, <3>6 DEF OutboxIInv, FirstSentInOrder
    <3>8. ObCounted' BY <3>1, <3>6 DEF OutboxIInv, ObCounted
    <3>9. obmarked' \subseteq Range(obsent') BY <3>1 DEF OutboxIInv
    <3>10. QED BY <3>2, <3>3, <3>4, <3>5, <3>7, <3>8, <3>9 DEF OutboxIInv
  <2>2. ASSUME NEW r \in ObRelays, ObFetch(r) PROVE OutboxIInv' BY <2>2, ObFetchKeeps
  <2>3. ASSUME NEW r \in ObRelays, ObPublish(r) PROVE OutboxIInv' BY <2>3, ObPublishKeeps
  <2>4. ASSUME NEW r \in ObRelays, ObFault(r) \/ ObMark(r) PROVE OutboxIInv' BY <2>4, ObStopKeeps
  <2>5. QED BY <2>1, <2>2, <2>3, <2>4 DEF OutboxNext, ObRelay
<1>3. OutboxIInv => OutboxInv
  <2> SUFFICES ASSUME OutboxIInv PROVE OutboxInv OBVIOUS
  <2>1. MarkedWasSent BY DEF MarkedWasSent, ObTimes, OutboxIInv, Range
  <2>2. RepeatsExplained
    <3> SUFFICES ASSUME NEW x \in ObRows
                 PROVE  Cardinality(ObTimes(x)) <= Cardinality(ObRelays) + obfaults
      BY DEF RepeatsExplained
    <3>1. /\ x \notin obmarked => Cardinality(ObTimes(x)) <= Cardinality(ObDone(x)) + obfaults
          /\ x \in obmarked =>
               Cardinality(ObTimes(x)) + Cardinality(ObDue(x)) <= Cardinality(ObRelays) + obfaults
      BY DEF OutboxIInv, ObCounted
    <3>2. ObDone(x) \subseteq ObRelays /\ ObDue(x) \subseteq ObRelays BY DEF ObDone, ObDue
    <3>3. /\ Cardinality(ObDone(x)) \in Nat /\ Cardinality(ObDue(x)) \in Nat
          /\ Cardinality(ObDone(x)) <= Cardinality(ObRelays) /\ Cardinality(ObRelays) \in Nat
      BY <3>2, OutboxAssumption, FS_Subset, FS_CardinalityType
    <3>4. ObTimes(x) \subseteq 1..Len(obsent) /\ Len(obsent) \in Nat
      BY DEF ObTimes, OutboxIInv, OutboxTypeOK
    <3>5. IsFiniteSet(1..Len(obsent)) BY <3>4, FS_Interval
    <3>6. Cardinality(ObTimes(x)) \in Nat BY <3>4, <3>5, FS_Subset, FS_CardinalityType
    <3>7. obfaults \in Nat BY DEF OutboxIInv, OutboxTypeOK
    <3>8. QED BY <3>1, <3>3, <3>6, <3>7
  <2>3. QED BY <2>1, <2>2 DEF OutboxIInv, OutboxInv
<1>4. QED BY <1>1, <1>2, <1>3, PTL DEF OutboxSpec
==============================================================================
