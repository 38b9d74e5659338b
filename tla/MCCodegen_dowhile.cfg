CONSTANTS
  f = f
  g = g
  Global = Global
  Func <- TwoFuncs
  NThreads = 0
  Scripts <- DoWhileScripts
  Programs <- CompiledDoWhiles
SPECIFICATION CheckSpec
INVARIANT FollowsSource
CHECK_DEADLOCK FALSE
