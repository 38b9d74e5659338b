CONSTANTS
  f = f
  g = g
  Global = Global
  Func <- TwoFuncs
  NThreads = 0
  Programs <- CrossingPrograms
SPECIFICATION Spec
INVARIANT AssertionsHold
CHECK_DEADLOCK FALSE
