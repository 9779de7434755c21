SPECIFICATION CompileSpec
CONSTANTS
  Modules = {1, 2, 3, 4}
  Entry = 2
  Files = {1, 2, 3, 4}
  Missing = Missing
  Outside = Outside
  Manifest = Manifest
  MaxImports = 2
  Projects <- MCProjects
  Sources <- MCSources
CHECK_DEADLOCK FALSE
INVARIANTS CompleteOrder LeastOrder WitnessIsCycle DiscoveryIsFaithful CompiledOnMerit
PROPERTIES EveryCompilationEnds
