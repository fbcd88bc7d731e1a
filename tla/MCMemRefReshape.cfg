CONSTANTS
  StaticExtents = {2, 3}
  DynVals = {0, 2}
  MaxRank = 3
  MaxVals = 4
  SubViewAllowed <- MCIdentitySubView
SPECIFICATION Spec
INVARIANTS TypeOK TypeMatchesRuntime SameElements
CHECK_DEADLOCK FALSE
