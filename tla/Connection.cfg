SPECIFICATION Spec
CONSTANTS
  Requests = {1, 2}
  Senders = {s1}
  HeaderLen = 2
  BodyLens = {2, 3}
  MaxBodyLen = 2
  QueueLen = 1
  Capacity = 2
  MaxRecvCount = 3
  MaxIntr = 1
INVARIANTS FramesExact NoHalfSent RequestsFreedOnce
PROPERTIES SendReturns
CHECK_DEADLOCK FALSE
