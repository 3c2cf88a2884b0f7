SPECIFICATION Spec
CONSTANTS
  Streams = {0}
  UserStreams = {7}
  AlignSize = 1
  UnitSize = 3
  DeviceMem = 3
  SizeT = 16
  EnableVmm = FALSE
  PageSize = 1
  PhysMem = 0
  VirtualMem = 0
  Sizes = {1, 2}
  Persistence = {FALSE}
  SizeLists <- NoLists
  MaxTask = 1
  WaitIds = 2
  MaxEventSize = 3
  MaxEagerDrift = 0
  FreePartWithEvents = TRUE
  StatResets = FALSE
INVARIANTS EventsProtect
