SPECIFICATION Spec
CONSTANTS
  Programs <- MCPrograms
  ModuleNames <- MCModuleNames
  SubModules <- MCSubModules
  MaxFrames = 4
  MaxEnvironments = 5
  MaxValues = 3
INVARIANTS
  NamesResolve
  ReachesMaker
  EachHolderCounts
