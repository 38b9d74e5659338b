CONSTANTS
  Objects <- Objects3
  HasEntry <- Entries
  NIds = 3
  MaxStarts = 3
  Scripts <- AllScripts
SPECIFICATION FairSpec
INVARIANTS
  
  WaitMeansEnded
  IdsInTurn
PROPERTY SoundScriptsEnd
CHECK_DEADLOCK FALSE
