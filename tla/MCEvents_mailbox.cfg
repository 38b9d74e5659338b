CONSTANTS
  main = main
  worker = worker
  click = click
  press = press
  foo = foo
  bar = bar
  argA = argA
  argB = argB
  noarg = noarg
  NoArgs = noarg
  User <- Users
  Main = main
  Event <- Events
  Action <- Actions
  Arg <- Args
  Key <- Keys
  Val <- Vals
  Calls <- CallsMade
  Scripts <- EmitScripts
SPECIFICATION FairSpec
INVARIANTS
  TypeOK
  
  QueuesInStep
  NothingLost
PROPERTIES
  FinalizeCompletes
  IsMailbox
  DeliversAll
  EveryCallReturns
CHECK_DEADLOCK FALSE
