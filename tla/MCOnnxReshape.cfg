CONSTANTS
  NumArgs = 2
  NumOps = 1
  OpKinds = {"Reshape"}
  StaticDims = {1, 2}
  MaxRank = 2
  Elems = {"f32", "i64"}
  ResultElem = "f32"
  ArgTypes <- MCReshapeArgs
  Admissible <- MCReshapeDataShape
SPECIFICATION Spec
PROPERTY ContractSpec
CHECK_DEADLOCK FALSE
