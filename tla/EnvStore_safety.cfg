CONSTANTS
  a = a
  b = b
  c = c
  short = short
  long = long
  None = None
  Keys <- MCKeys
  Values <- MCValues
  ValLen <- MCValLen
  DefaultItems <- MCDefaultItems
  Size = 12
  FlashBlocks = 2
SPECIFICATION Spec
INVARIANTS
  TypeOK
  BufferInShape
PROPERTY
  KeepsPromise
