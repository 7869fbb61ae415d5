\* Words of 8 bits, every kind of call.
SPECIFICATION Spec
CONSTANTS
  Bits = 8
  MinAligned = 4
  DoubleSize = 2
  Base = 16
  Limit = 120
  Sizes = {0, 1, 3, 13, 86, 128, 255}
  AlignedSizes = {0, 3, 13}
  Alignments = {0, 2, 3, 8}
  VPage = 16
  PathMax = 20
  Growing = FALSE
  MaxBlocks = 3
INVARIANTS
  BlocksHaveRoom
  BlocksDisjoint
  BlocksAligned
\* A program may stop allocating at any time.
CHECK_DEADLOCK FALSE
