CONSTANTS
  BlockSize = 2
  NBlocks = 5
  StepBlks = 2
  W32 = 64
  ErrCodes = {1, 3}
  Slots = {1, 2}
  Ranges <- MCRanges
  Offsets <- MCOffsets
  Lengths <- MCLengths
SPECIFICATION Spec
INVARIANTS
  RealLength
