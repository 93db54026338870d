CONSTANTS
  SymbolTables <- MCSymbolTables
  MaxAddr = 11
  Wrap = 50
  Hz = 3
  Piece = 3
  Asked = {1, 2, 3, 4, 7}
  MaxGap = 3
  MaxSpent = 60
  MinPart = 2
  Occurs <- MCOccurs
  MaxPv = 2
  Size = 11
  Base = 1
  PartInputs <- MCPartInputs
  MergeInputs <- MCMergeInputs
SPECIFICATION Spec
INVARIANTS TypeOK FindsInner FindsTail DelayHolds PartsRight MergeRight
PROPERTY AlgorithmsEnd
CHECK_DEADLOCK FALSE
