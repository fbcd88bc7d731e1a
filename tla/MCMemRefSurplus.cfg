CONSTANTS
  BitWidths = {4, 8, 16}
  StaticExtents = {1, 2, 3}
  MaxRank = 2
  DynVals = {0, 1, 2, 3}
  VectorLength <- MCVectorLength
  SimdUnrolls = {1, 3}
  Alignments <- MCAlignments
  DefaultAllocAlign = 16
  SurplusSyms = 1
SPECIFICATION Spec
INVARIANT SymbolMismatchAborts
CHECK_DEADLOCK FALSE
