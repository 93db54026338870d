CONSTANTS
  t2 = t2
  t3 = t3
  t4 = t4
  t5 = t5
  NoTimer = NoTimer
  Timers <- MCTimers
  IrqNr <- MCIrqNr
  Sources <- MCSources
  Shared <- MCShared
  MaxIrq = 3
  p1 = p1
  p2 = p2
  p3 = p3
  p4 = p4
  Ptrs <- MCPtrs
  HushIndex <- MCHushIndex
  Depth = 3
  SizesOf = {1, 2}
  MaxAllocs = 4
  MallocLen = 256
  GlobalLen = 9
  DmaLen = 256
  FreeLen = 16384
  ParamsSize = 6
  ParamsCount = 2
  TagOffset = 256
  LayoutInputs <- MCLayoutInputs
  TagInputs <- MCTagInputs
SPECIFICATION Spec
INVARIANTS TypeOK HandlerInPlace RecordsTrue LayoutRight TagsRight
PROPERTY InterruptsServed
CHECK_DEADLOCK FALSE
