CONSTANTS
  Start = 36
  End = 164
  PageSize = 32
  MaxSmall = 40
  LargeWidth = 16
  TrimThreshold = 96
  W32 = 1024
  Requests = {12, 511}
  Alignments = {16, 32}
  None = None
SPECIFICATION Spec
INVARIANTS
  UsableSize
