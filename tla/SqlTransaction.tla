--------------------------- MODULE SqlTransaction ---------------------------
(***************************************************************************)
(* id_effect_sql/transaction.rs: with_transaction, over the PostgreSQL     *)
(* client of id_effect_sql_pg, by concurrent callers on one pool.          *)
(*                                                                         *)
(* External: the sqlx pool and the database.  BEGIN on a connection whose  *)
(* transaction is open leaves it open; a statement is durable at once on a *)
(* connection without one; a connection that is dropped goes back to the   *)
(* pool, and its open transaction may be reset then or stay open.          *)
(***************************************************************************)
EXTENDS Naturals, FiniteSets

CONSTANTS SqCalls,   \* calls of with_transaction
          SqConns,   \* the connections of the pool
          SqNone,    \* no connection
          SqWrites   \* bound: the number of statements of one body

ASSUME SqlAssumption == SqNone \notin SqConns /\ SqWrites \in Nat

VARIABLES sqat,      \* sqat[i]: where call i is; "Ok" and "Err" are results
          sqfree,    \* the connections in the pool
          sqconn,    \* sqconn[i]: PgSqlTransactionInner::conn
          sqfin,     \* the calls whose transaction has finished set
          sqopen,    \* the connections with an open transaction
          sqpend,    \* sqpend[c]: the statements in the open transaction of c
          sqdurable, \* the statements that are durable
          sqsent,    \* sqsent[i]: the number of statements executed
          sqended,   \* history: <<i, how>> for every COMMIT and ROLLBACK that succeeded
          sqleft     \* observer: connections given back without the end of their transaction

sqvars == <<sqat, sqfree, sqconn, sqfin, sqopen, sqpend, sqdurable, sqsent, sqended, sqleft>>

SqStatements == SqCalls \X (1..SqWrites)

SqlTypeOK ==
  /\ sqat \in [SqCalls -> {"idle", "body", "commit", "rollback", "Ok", "Err", "dropped"}]
  /\ sqfree \subseteq SqConns /\ sqopen \subseteq SqConns /\ sqleft \subseteq SqConns
  /\ sqconn \in [SqCalls -> SqConns \cup {SqNone}]
  /\ sqfin \subseteq SqCalls
  /\ sqpend \in [SqConns -> SUBSET SqStatements] /\ sqdurable \subseteq SqStatements
  /\ sqsent \in [SqCalls -> 0..SqWrites]
  /\ sqended \subseteq SqCalls \X {"COMMIT", "ROLLBACK"}

SqlInit == /\ sqat = [i \in SqCalls |-> "idle"]
           /\ sqfree = SqConns /\ sqconn = [i \in SqCalls |-> SqNone]
           /\ sqfin = {} /\ sqopen = {} /\ sqpend = [c \in SqConns |-> {}]
           /\ sqdurable = {} /\ sqsent = [i \in SqCalls |-> 0]
           /\ sqended = {} /\ sqleft = {}

SqGo(i, from, to) == sqat[i] = from /\ sqat' = [sqat EXCEPT ![i] = to]

\* begin: a connection of the pool, and BEGIN on it.
SqBegin(i, c) ==
  /\ SqGo(i, "idle", "body") /\ c \in sqfree
  /\ sqfree' = sqfree \ {c}
  /\ sqconn' = [sqconn EXCEPT ![i] = c]
  /\ sqopen' = sqopen \cup {c}
  /\ UNCHANGED <<sqfin, sqpend, sqdurable, sqsent, sqended, sqleft>>

\* No connection within the pool's timeout, or BEGIN is refused.
SqBeginFails(i) == /\ SqGo(i, "idle", "Err")
                   /\ UNCHANGED <<sqfree, sqconn, sqfin, sqopen, sqpend, sqdurable, sqsent, sqended, sqleft>>

\* BEGIN reaches the database but its answer does not reach begin, which fails or is
\* dropped: the connection goes back to the pool with the transaction that it opened.
SqBeginLost(i, c) ==
  /\ SqGo(i, "idle", "Err") \/ SqGo(i, "idle", "dropped")
  /\ c \in sqfree
  /\ sqopen' = sqopen \cup {c} /\ sqleft' = sqleft \cup {c}
  /\ UNCHANGED <<sqfree, sqconn, sqfin, sqpend, sqdurable, sqsent, sqended>>

\* The body executes a statement.  A SqlTransaction can only commit and roll back, so
\* it goes through the client, that is to any connection of the pool.
SqExecute(i, c) ==
  LET statement == <<i, sqsent[i] + 1>>
  IN  /\ sqat[i] = "body" /\ c \in sqfree /\ sqsent[i] < SqWrites
      /\ sqsent' = [sqsent EXCEPT ![i] = @ + 1]
      /\ IF c \in sqopen
         THEN sqpend' = [sqpend EXCEPT ![c] = @ \cup {statement}] /\ UNCHANGED sqdurable
         ELSE sqdurable' = sqdurable \cup {statement} /\ UNCHANGED sqpend
      /\ UNCHANGED <<sqat, sqfree, sqconn, sqfin, sqopen, sqended, sqleft>>

\* Faulty variant: an error returns at once.
SqBodyReturnsErr(i, ok) ==
  /\ sqat[i] = "body"
  /\ IF ok THEN SqGo(i, "body", "commit") /\ UNCHANGED <<sqfree, sqconn>>
     ELSE /\ SqGo(i, "body", "Err")
          /\ sqfree' = sqfree \cup ({sqconn[i]} \ {SqNone})
          /\ sqconn' = [sqconn EXCEPT ![i] = SqNone]
  /\ UNCHANGED <<sqfin, sqopen, sqpend, sqdurable, sqsent, sqended, sqleft>>

\* The body ends; an error of its own, or of a statement, leads to rollback.
SqBody(i, ok) == /\ SqGo(i, "body", IF ok THEN "commit" ELSE "rollback")
                 /\ UNCHANGED <<sqfree, sqconn, sqfin, sqopen, sqpend, sqdurable, sqsent, sqended, sqleft>>

\* take_conn, COMMIT or ROLLBACK on it, and its return to the pool.
SqFinish(i, how) ==
  LET c == sqconn[i]
  IN  /\ i \notin sqfin
      /\ sqfin' = sqfin \cup {i}
      /\ sqconn' = [sqconn EXCEPT ![i] = SqNone] /\ sqfree' = sqfree \cup {c}
      /\ sqopen' = sqopen \ {c} /\ sqpend' = [sqpend EXCEPT ![c] = {}]
      /\ sqdurable' = IF how = "COMMIT" THEN sqdurable \cup sqpend[c] ELSE sqdurable
      /\ sqended' = sqended \cup {<<i, how>>}
      /\ UNCHANGED <<sqsent, sqleft>>

\* The same with an error of the statement: whether the transaction is still open,
\* was given up, or was ended although the answer got lost, is not known.
SqFinishFails(i, how) ==
  LET c == sqconn[i]
  IN  /\ i \notin sqfin
      /\ sqfin' = sqfin \cup {i}
      /\ sqconn' = [sqconn EXCEPT ![i] = SqNone] /\ sqfree' = sqfree \cup {c}
      /\ sqleft' = sqleft \cup {c}
      /\ \/ UNCHANGED <<sqopen, sqpend, sqdurable>>
         \/ /\ sqopen' = sqopen \ {c} /\ sqpend' = [sqpend EXCEPT ![c] = {}]
            /\ \/ UNCHANGED sqdurable
               \/ how = "COMMIT" /\ sqdurable' = sqdurable \cup sqpend[c]
      /\ UNCHANGED <<sqsent, sqended>>

\* "transaction already finished".
SqRefused(i) == /\ i \in sqfin
                /\ UNCHANGED <<sqfree, sqconn, sqfin, sqopen, sqpend, sqdurable, sqsent, sqended, sqleft>>

\* The body ends its own transaction through its handle, and goes on.
SqBodyEnds(i, how) == /\ sqat[i] = "body" /\ UNCHANGED sqat
                      /\ SqFinish(i, how) \/ SqFinishFails(i, how)

\* tx.commit()?
SqCommit(i) == \/ SqGo(i, "commit", "Ok") /\ SqFinish(i, "COMMIT")
               \/ SqGo(i, "commit", "Err") /\ (SqFinishFails(i, "COMMIT") \/ SqRefused(i))

\* let _ = tx.rollback().
SqRollback(i) == /\ SqGo(i, "rollback", "Err")
                 /\ SqFinish(i, "ROLLBACK") \/ SqFinishFails(i, "ROLLBACK") \/ SqRefused(i)

\* The future is dropped, and with it the connection if it still holds one; a COMMIT
\* that was under way may have its effect.
SqDrop(i) ==
  LET c == sqconn[i]
  IN  /\ sqat[i] \in {"body", "commit", "rollback"}
      /\ sqat' = [sqat EXCEPT ![i] = "dropped"]
      /\ sqconn' = [sqconn EXCEPT ![i] = SqNone] /\ sqfree' = sqfree \cup ({c} \ {SqNone})
      /\ sqleft' = sqleft \cup ({c} \ {SqNone})
      /\ \/ UNCHANGED <<sqopen, sqpend, sqdurable>>
         \/ /\ c \in sqopen
            /\ sqopen' = sqopen \ {c} /\ sqpend' = [sqpend EXCEPT ![c] = {}]
            /\ \/ UNCHANGED sqdurable
               \/ sqat[i] = "commit" /\ sqdurable' = sqdurable \cup sqpend[c]
      /\ UNCHANGED <<sqfin, sqsent, sqended>>

SqlNext ==
  \E i \in SqCalls : \/ \E c \in SqConns : SqBegin(i, c) \/ SqBeginLost(i, c) \/ SqExecute(i, c)
                     \/ SqBeginFails(i) \/ SqCommit(i) \/ SqRollback(i) \/ SqDrop(i)
                     \/ \E ok \in BOOLEAN : SqBody(i, ok)
                     \/ \E how \in {"COMMIT", "ROLLBACK"} : SqBodyEnds(i, how)

SqlSpec == SqlInit /\ [][SqlNext]_sqvars

(***************************************************************************)
(* Properties.                                                             *)
(***************************************************************************)

SqHeld == {sqconn[i] : i \in SqCalls} \ {SqNone}

\* Each connection is in the pool or with one call; a transaction is ended at most
\* once, and by COMMIT if the call returned Ok; a connection in the pool has an open
\* transaction only if a future was dropped or a BEGIN, COMMIT or ROLLBACK failed, and
\* as long as that has not happened every statement is durable as soon as it is
\* executed, also those of bodies that fail (transaction.rs, with_transaction;
\* id_effect_sql_pg, take_conn and execute).
SqlInv ==
  /\ SqlTypeOK
  /\ SqHeld \cap sqfree = {} /\ SqHeld \cup sqfree = SqConns
  /\ \A i, j \in SqCalls : i # j /\ sqconn[i] = sqconn[j] => sqconn[i] = SqNone
  /\ \A i \in SqCalls : /\ Cardinality({e \in sqended : e[1] = i}) <= 1
                        /\ sqat[i] = "Ok" => <<i, "COMMIT">> \in sqended
                        /\ sqat[i] \in {"Ok", "Err"} => sqconn[i] = SqNone
  /\ sqopen \cap sqfree \subseteq sqleft
  /\ sqleft = {} => sqdurable = {w \in SqStatements : w[2] <= sqsent[w[1]]}

\* What with_transaction says: the body runs inside the transaction, and a failure
\* rolls it back, so of a call that returned an error without a COMMIT no statement
\* is durable.  The code does not keep it: see SqExecute.
FailureLeavesNothing ==
  \A i \in SqCalls : sqat[i] = "Err" /\ <<i, "COMMIT">> \notin sqended =>
     \A w \in sqdurable : w[1] # i
==============================================================================
