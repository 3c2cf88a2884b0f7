SPECIFICATION Spec
CONSTANTS
  Streams = {0}
  UserStreams = {7, 8}
  AlignSize = 1
  UnitSize = 2
  DeviceMem = 12
  SizeT = 16
  EnableVmm = TRUE
  PageSize = 2
  PhysMem = 4
  VirtualMem = 12
  Sizes = {2, 3}
  Persistence = {FALSE}
  SizeLists <- NoLists
  MaxTask = 1
  WaitIds = 2
  MaxEventSize = 4
  MaxEagerDrift = 4
  FreePartWithEvents = FALSE
  StatResets = FALSE
INVARIANT PairsAreLive
