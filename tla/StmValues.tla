------------------------------ MODULE StmValues ------------------------------
(***************************************************************************)
(* The constants and the values that the detailed and the abstract         *)
(* specification of software transactional memory share.                   *)
(***************************************************************************)
CONSTANTS Threads,  \* the threads that run commit(stm)
          TRefs,    \* the transactional cells
          Vals,     \* the values a cell may hold
          NoVal,    \* "no value": the cell was not read / not written
          InitVal   \* InitVal[r]: the value TRef::make was given for r

\* A read set or a write set of a transaction: NoVal where it has no entry.
PartialStore == [TRefs -> Vals \cup {NoVal}]

Empty == [r \in TRefs |-> NoVal]

\* The store m after the writes ws.
Overlay(m, ws) == [r \in TRefs |-> IF ws[r] = NoVal THEN m[r] ELSE ws[r]]

\* Every value in the read set rs is the value the store m holds.
Agrees(rs, m) == \A r \in TRefs : rs[r] # NoVal => rs[r] = m[r]

\* What the current call of commit has come to.
Idle == [status |-> "idle", reads |-> Empty, writes |-> Empty]
Running == [status |-> "running", reads |-> Empty, writes |-> Empty]
Committed(rs, ws) == [status |-> "committed", reads |-> rs, writes |-> ws]

Results == [status : {"idle", "running", "committed"},
            reads : PartialStore, writes : PartialStore]
==============================================================================
