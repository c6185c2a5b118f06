CONSTANTS
  a1 = a1
  a2 = a2
  a3 = a3
  pr1 = pr1
  pr2 = pr2
  co1 = co1
  co2 = co2
  m0 = m0
  m1 = m1
  m2 = m2
  pu1 = pu1
  pu2 = pu2
  QProducers = {pr1, pr2}
  QConsumers = {co1, co2}
  QKinds = {"bounded", "dropping", "unbounded", "sliding"}
  QCapacity = 1
  QOffers <- MCOffers
  QDemands <- MCDemands
  QCalls = 1
  ChModes = {"queue", "fold", "stream"}
  ChFan <- MCFan
  ChChunks <- MCChunks
  ChReads <- MCReads
  ChKinds = {"bounded"}
  StPolicies = {"BoundedBlock", "DropNewest", "DropOldest", "Fail"}
  StEnds = {a2}
  StFails = {a3}
  StReader = co1
  PsModes = {"bounded", "sliding", "unbounded", "broadcast"}
  PsCapacity = 1
  PsRing = 1
  PsSubs = {su1, su2}
  PsPublishers = {pu1, pu2}
  PsMessages <- MCMessages
  PsClosable = {su1}
  SrInitial = m0
  SrSubs = {su1}
  SgKinds = {"latch", "shutdown", "deferred"}
  SgWaiters = {wa1, wa2}
  SgSetters = {se1, se2}
  NoExit = NoExit
SPECIFICATION MCSpec
INVARIANTS QueueInv ChannelOk StreamOk HubOk SignalInv
PROPERTIES ShutdownReleases StreamEnds PubSubDelivers SignalReleases
CHECK_DEADLOCK FALSE
