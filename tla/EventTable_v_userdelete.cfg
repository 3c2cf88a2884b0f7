SPECIFICATION TableSpec
CONSTANTS
  Fds = {f1, f2}
  Users = {u}
  MaxEvents = 3
  CtlMayFail = FALSE
INVARIANTS
  BatchLive
CHECK_DEADLOCK FALSE
