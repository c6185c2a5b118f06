\* Two threads, two cells, two values, bodies of two operations.
CONSTANTS
  t1 = t1
  t2 = t2
  Threads = {t1, t2}
  TRefs = {1, 2}
  Vals = {0, 1}
  InitVal <- Zeros
  NoVal = NoVal
  NoThread = NoThread
  MaxTxns <- Calls
  MaxOps <- Ops
SPECIFICATION Spec
INVARIANTS StmInv
PROPERTIES Serializable
