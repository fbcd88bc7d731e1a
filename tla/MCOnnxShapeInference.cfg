CONSTANTS
  NumArgs = 2
  NumOps = 3
  OpKinds = {"Unary", "Variadic", "MatMul", "Gemm", "FullGemm", "Reshape"}
  StaticDims = {1, 2}
  MaxRank = 2
  Elems = {"f32", "i64"}
  ResultElem = "f32"
  ArgTypes <- MCMatrixArgs
  Admissible <- MCWellFormed
SPECIFICATION Spec
INVARIANT TypeOK
PROPERTY ContractSpec
CHECK_DEADLOCK FALSE
