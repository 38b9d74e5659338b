SPECIFICATION Spec
CONSTANTS
  MaxVals = 7
  MaxObjs = 3
  MaxSize = 2
  Numbers = 2
VIEW Renumbered
INVARIANTS
  StoreAgrees
  CountsExact
  FreedOnlyBySelfAssignment
CHECK_DEADLOCK FALSE
