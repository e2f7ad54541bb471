SPECIFICATION XcodeFairSpec
CONSTANTS
  f1 = f1
  f2 = f2
  f3 = f3
  Files <- AllFiles
  Targets <- TargetNames
  Projects <- ProjectsThere
  PoolSize = 2
  SourceTrees <- Trees
  IntermediateTrees <- Intermediates
  LocalizedDirs <- Localized
  Extension <- Extensions
  Unprefixed <- Prefixed
CHECK_DEADLOCK FALSE
INVARIANTS LoadsOnce FlatOrdered CyclesFound CompileAfterActions ActionsAfterDependencies LinksComplete AllBuilds BuildNeverStuck ReferencesFollowPaths ObjectsDoSteps RefusedForAReason
PROPERTIES LoadingSpec GypEnds
