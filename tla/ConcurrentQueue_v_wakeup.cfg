SPECIFICATION Spec
CONSTANTS
  Producers = {p1}
  Consumers = {c1}
  Nodes = {n1, n2, n3}
  Null = Null
  MaxItems = 1
INVARIANT
  WaiterIsSignalled
CHECK_DEADLOCK FALSE
