SPECIFICATION Spec
CONSTANTS
  Keys = {1, 2, 3, 4, 5}
  Values = {10}
  MaxHash = 3
  Capacities = {8}
  MaxCapacity = 8
  EraseAnywhere = TRUE
INVARIANT
  FindMatches
