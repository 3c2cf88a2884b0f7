SPECIFICATION TableSpec
CONSTANTS
  Fds = {f1, f2, f3}
  Users = {u}
  MaxEvents = 4
  CtlMayFail = TRUE
INVARIANTS
  PointersLive
  EventsAccounted
PROPERTY
  NoStaleHandler
CHECK_DEADLOCK FALSE
