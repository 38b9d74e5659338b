SPECIFICATION Spec
CONSTANTS
  Cells = {"literal", "computed"}
  Computed = {"computed"}
  Rows = 2
  MaxStmts = 2
  MaxObjs = 3
  MaxCalls = 7
  MaxBroken = 2
INVARIANTS
  WritesAsMeant
  RowsInTurn
  ReleasedOnce
CHECK_DEADLOCK FALSE
