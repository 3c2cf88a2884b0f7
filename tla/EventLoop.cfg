SPECIFICATION FairSpec
CONSTANTS
  Producers = {p1, p2, p3}
  MaxTasks = 2
  MayFail = TRUE
INVARIANTS
  TypeOK
  NoLostWakeup
  WakeupExact
PROPERTIES
  ExecutesInOrder
  ImplementsExecutor
  FinalizeReturns
CHECK_DEADLOCK FALSE
