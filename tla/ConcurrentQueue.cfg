SPECIFICATION Spec
CONSTANTS
  Producers = {p1, p2}
  Consumers = {c1, c2}
  Nodes = {n1, n2, n3, n4}
  Null = Null
  MaxItems = 2
INVARIANTS
  FifoExact
  NodesExact
SYMMETRY Symmetry
CHECK_DEADLOCK FALSE
