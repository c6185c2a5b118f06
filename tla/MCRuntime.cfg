CONSTANTS
  k1 = k1
  k2 = k2
  k3 = k3
  w1 = w1
  w2 = w2
  CaThreads = {t1, t2}
  CaTokens <- MCTokens
  CaRoot = k1
  CaDropped = {k2}
  CaBirths <- MCBirths
  CaTasks = {w1, w2}
  CaWaitsFor <- MCWaitsFor
  ScTrees <- MCTrees
  ScMax = 20
  ScRuns = 5
  fi1 = fi1
  fi2 = fi2
  fi3 = fi3
  fi4 = fi4
  fi5 = fi5
  FbBase = {fi1, fi2}
  FbDerived = {fi3, fi4, fi5}
  FbShape <- MCShape
  FbScoped = {fi1}
  FbJoined <- MCJoined
  f1 = f1
  FrTasks = {w1, w2}
  FrFibers = {f1, f2}
  FrOn <- MCOn
  FrValues = {v0, v1}
  FrInitial = v0
  FrEmpty = FrEmpty
  FrOps = 4
  CpCount = 3
  CpGraphs <- MCGraphs
  CpNeeds = {{}, {0}}
  SqCalls = {w1, w2}
  SqConns = {d1, d2}
  SqNone = SqNone
  SqWrites = 1
  TwClones = {s1, s2, s3}
  TwCalls = {w1, w2}
  TwMax = 2
SPECIFICATION MCSpec
INVARIANTS CancelInv ScheduleInv FibersInv FiberRefInv CapabilityInv SqlInv TowerInv
PROPERTIES CancellationArrives HandlesSettle
CHECK_DEADLOCK FALSE
