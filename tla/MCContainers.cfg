SPECIFICATION Spec
CONSTANTS
  Kinds <- AllKinds
  Orders <- AllOrders
  Elements = {0, 1, 2}
  MaxSize = 3
  MaxHeap = 5
INVARIANTS
  OnlyBrokenRulesLose
  GivesWhatIsMeant
  StaysInOrder
CHECK_DEADLOCK FALSE
