SPECIFICATION FairSpec
CONSTANTS
  MaxThreads = 3
  MaxTasks = 3
  MaxCalls = 3
PROPERTIES
  SyncRunReturns
  ReturnMeansDone
CHECK_DEADLOCK FALSE
