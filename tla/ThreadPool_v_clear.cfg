SPECIFICATION FairSpec
CONSTANTS
  MaxThreads = 2
  MaxTasks = 2
  MaxCalls = 2
PROPERTY
  ClearThreadPoolReturns
CHECK_DEADLOCK FALSE
