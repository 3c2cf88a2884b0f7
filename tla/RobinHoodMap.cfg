SPECIFICATION Spec
CONSTANTS
  Keys = {1, 2, 3, 4, 5}
  Values = {10, 20}
  MaxHash = 2
  Capacities = {1, 2, 3, 4}
  MaxCapacity = 12
  EraseAnywhere = FALSE
INVARIANTS
  FindMatches
  TableExact
