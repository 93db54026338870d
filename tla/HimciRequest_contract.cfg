CONSTANTS
  Retry = 2
  Counts = {1, 2, 3, 5}
  DmaBuffer = 2
  MaxDes = 2
  None = None
SPECIFICATION Spec
INVARIANTS
  RealLength
