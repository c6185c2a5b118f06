CONSTANTS
  BrCallers = {ca1, ca2, ca3}
  BrThreshold = 2
  RlCallers = {ca1, ca2}
  RlRate = 1
  RlCapacity = 2
  RlTicks = 2
  RlPermits = 1
  jb1 = jb1
  jb2 = jb2
  jb3 = jb3
  id1 = id1
  id2 = id2
  JbJobs = {jb1, jb2, jb3}
  JbIds = {id1, id2}
  JbId <- MCIds
  JbWorkers = {th1, th2}
  JbLimit = 2
  JbDrains = 2
  NoJob = NoJob
  ObRows = {1, 2, 3}
  ObRelays = {re1, re2}
  ObLimit = 2
  ObFaults = 1
  q0 = q0
  q1 = q1
  q2 = q2
  ea = ea
  eb = eb
  WfBackends = {"sqlite", "postgres"}
  WfWorkers = {th1, th2}
  WfStates = {q0, q1, q2}
  WfStart = q0
  WfEvents = {ea, eb}
  WfTable <- MCTable
  WfSteps = 2
  WfCrashes = 1
  NoWorker = NoWorker
  wr1 = wr1
  wr2 = wr2
  wr3 = wr3
  st1 = st1
  st2 = st2
  EsKinds = {"memory", "file", "sql"}
  EsStreams = {st1, st2}
  EsWriters = {wr1, wr2, wr3}
  EsStream <- MCStream
  EsCount <- MCCount
  SvKinds = {"attach", "detached"}
  SvPolicies = {"Terminate", "Escalate", "Ignore", "Restart", "RestartWithLimit"}
  SvLimit = 2
  AdJobs = {jb1, jb2, jb3}
  AdBlocking = {jb1, jb2}
  AdWorkers = {th1, th2}
  AdInitial = 2
  AdMax = 2
  AdTicks = 1
  AdNone = AdNone
  SaLen = 4
  SaCompensated = {1, 2, 4}
  s1 = s1
  s2 = s2
  s3 = s3
  k1 = k1
  k2 = k2
  PlScopes <- MCScopes
  PlKeys = {k1, k2}
  PlRequests <- MCRequests
  PlRacing = {s1}
  PlCapacity = 1
  PlNoItem = PlNoItem
SPECIFICATION MCSpec
INVARIANTS BreakerInv RateInv JobsInv OutboxInv WorkflowInv EventStoreInv SupervisorInv AdmissionInv SagaInv PoolInv
PROPERTIES BreakerRecovers EveryRowRelayed CloseStopsLoop EveryGetReturns
CHECK_DEADLOCK FALSE
