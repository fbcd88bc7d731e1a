CONSTANTS
  MachineVLs = {1, 2, 4, 8}
  MaxN = 16
SPECIFICATION Spec
INVARIANTS
  TypeOK
  GroupConserved
PROPERTIES
  AbstractSpec
CHECK_DEADLOCK FALSE
