CONSTANTS
  t1 = t1
  t2 = t2
  t3 = t3
  Threads = {t1, t2, t3}
  TRefs = {1, 2, 3, 4}
  Vals <- MCContents
  InitVal <- MCStart
  NoVal = NoVal
  NoThread = NoThread
  MaxTxns <- MCCalls
  MaxOps <- MCOps
  Program <- MCPrograms
  Queues = {1, 4}
  Cap = 2
  Sem = 2
  Map = 3
  root1 = root1
  fork1 = fork1
  root2 = root2
  f1 = f1
  f2 = f2
  Callers = {c1, c2}
  Scopes = {root1, fork1, root2}
  Roots = {root1, root2}
  Fins = {f1, f2}
  Homes <- HomesOf
  Forks <- ForksOf
  Extends <- ExtendsOf
  NoScope = NoScope
SPECIFICATION MCSpec
INVARIANTS ProgramsInv ScopeInv
PROPERTIES ProgramsReturn CloseReachesDescendants
