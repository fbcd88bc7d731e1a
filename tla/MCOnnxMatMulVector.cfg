CONSTANTS
  NumArgs = 2
  NumOps = 1
  OpKinds = {"MatMul", "Gemm", "FullGemm"}
  StaticDims = {1, 2}
  MaxRank = 2
  Elems = {"f32", "i64"}
  ResultElem = "f32"
  ArgTypes <- MCVectorArgs
  Admissible <- MCAnyProgram
SPECIFICATION Spec
INVARIANT NoCrash
CHECK_DEADLOCK FALSE
