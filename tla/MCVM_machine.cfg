CONSTANTS
  f = f
  g = g
  Global = Global
  Func <- TwoFuncs
  NThreads = 2
  Programs <- SoundPrograms
SPECIFICATION FairSpec
INVARIANTS
  TypeOK
  MutualExclusion
  OwnerIsInside
  FrameMatchesCode
  HandlersAreLive
  CallbacksBalanced
  EndsClean
  NoFailure
  RoundsLeaveNothing
PROPERTIES
  EveryThreadEnds
  RoundsEnd
CHECK_DEADLOCK FALSE
