SPECIFICATION Spec
CONSTANTS
  Producers = {p1, p2}
  Consumers = {c1, c2}
  Size = 4
  MaxItems = 2
SYMMETRY Symmetric
INVARIANTS ExactlyOnce NoFreeNodeInUse TailInQueue
CHECK_DEADLOCK FALSE
