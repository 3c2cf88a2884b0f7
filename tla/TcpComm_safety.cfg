SPECIFICATION Spec
CONSTANTS
  Users = {u1, u2}
  Urls = {d1}
  Peers = {p1}
  Ports = {s1, s2}
  Conns = {k1, k2, k3}
  MaxCalls = 3
  MaxTasks = 1
INVARIANTS LocksProtect ReferencesLive
CHECK_DEADLOCK FALSE
