SPECIFICATION Spec
CONSTANTS
  Streams = {0}
  UserStreams = {}
  AlignSize = 1
  UnitSize = 2
  DeviceMem = 4
  SizeT = 16
  EnableVmm = FALSE
  PageSize = 1
  PhysMem = 0
  VirtualMem = 0
  Sizes = {1, 2}
  Persistence = {FALSE, TRUE}
  SizeLists <- AlignedLists
  MaxTask = 1
  WaitIds = 2
  MaxEventSize = 0
  MaxEagerDrift = 0
  FreePartWithEvents = FALSE
  StatResets = TRUE
INVARIANTS BlockComposedOfBufs NoAdjacentFree IndexesExact SizesExact
PROPERTIES ExpandOnlyWhenNeeded
