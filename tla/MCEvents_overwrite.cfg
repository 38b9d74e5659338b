CONSTANTS
  main = main
  worker = worker
  click = click
  press = press
  foo = foo
  bar = bar
  argA = argA
  argB = argB
  noarg = noarg
  NoArgs = noarg
  User <- Users
  Main = main
  Event <- Events
  Action <- Actions
  Arg <- Args
  Key <- Keys
  Val <- Vals
  Calls <- CallsMade
  Scripts <- OverwritingScripts
SPECIFICATION Spec
PROPERTY SetRunsItsOwn
CHECK_DEADLOCK FALSE
