\* A reader of two cells that may fail, and a writer of two cells.
CONSTANTS
  t1 = t1
  t2 = t2
  Threads = {t1, t2}
  TRefs = {1, 2}
  Vals = {0, 1}
  InitVal <- Zeros
  NoVal = NoVal
  NoThread = NoThread
  MaxTxns <- Once
  MaxOps <- TwoOps
SPECIFICATION HSpec
PROPERTIES NoTornReads
