CONSTANTS
  SqCalls = {w1}
  SqConns = {d1, d2}
  SqNone = SqNone
  SqWrites = 1
SPECIFICATION SqlSpec
INVARIANTS FailureLeavesNothing
CHECK_DEADLOCK FALSE
