CONSTANTS
  IntWidths <- MCIntWidths
  UIntWidths <- MCUIntWidths
  FloatWidths <- MCFloatWidths
  IdxW = 3
  VecFlags = {FALSE}
  FloatVals <- MCFloatVals
  ConstVals <- MCConstVals
  NumArgs = 1
  MaxVals = 3
  AbsKinds <- MCAbsKindsAll
SPECIFICATION Spec
INVARIANT ArithOnlySignless
CHECK_DEADLOCK FALSE
