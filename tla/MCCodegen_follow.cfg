CONSTANTS
  f = f
  g = g
  Global = Global
  Func <- TwoFuncs
  NThreads = 0
  Scripts <- PassingScripts
  Programs <- CompiledScripts
SPECIFICATION CheckSpec
INVARIANT FollowsSource
PROPERTY KeepsShowing
CHECK_DEADLOCK FALSE
