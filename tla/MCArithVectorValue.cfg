CONSTANTS
  IntWidths <- MCIntWidths
  UIntWidths <- MCUIntWidths
  FloatWidths <- MCFloatWidths
  IdxW = 3
  VecFlags = {FALSE, TRUE}
  FloatVals <- MCFloatVals
  ConstVals <- MCConstVals
  NumArgs = 1
  MaxVals = 3
  AbsKinds <- MCAbsKindsNoUnsigned
SPECIFICATION Spec
INVARIANT ValueMatchesReference
CHECK_DEADLOCK FALSE
