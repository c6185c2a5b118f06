CONSTANTS
  g1 = g1
  g2 = g2
  g3 = g3
  g4 = g4
  k1 = k1
  k2 = k2
  Fibers <- MCFibers
  Keys = {k1, k2}
  Requests <- MCRequests
  Invalidators = {g3, g4}
  Capacity = 1
  NoFiber = NoFiber
SPECIFICATION Spec
INVARIANTS CacheInv
PROPERTIES EveryCallReturns
