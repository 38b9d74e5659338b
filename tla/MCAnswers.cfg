SPECIFICATION Spec
CONSTANTS
  Width = 4
  Sites <- AllSites
  OperandsOf <- AllOperands
  Rounds = 2
INVARIANTS
  AnswersFit
  ArgumentsSuffice
  FoldsAsRun
CHECK_DEADLOCK FALSE
