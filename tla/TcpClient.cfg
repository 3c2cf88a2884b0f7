SPECIFICATION ClientSpec
CONSTANTS
  Callers = {c1}
  MaxRequests = 4
  MaxTimeouts = 2
INVARIANTS
  AnswerLag
  NoDeadlockWithoutTimeout
PROPERTIES CallReturns
CHECK_DEADLOCK FALSE
