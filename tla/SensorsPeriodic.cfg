SPECIFICATION SmFairSpec
CONSTANTS
  Main = main
  Rx = btrx
  WorkQueue = sysworkq
  NoThread = none
  Periodic = TRUE
  Climates <- MCClimates
  Pressures <- MCPressures
  Gases <- MCGases
  MayFail <- MCAll
PROPERTY SamplingContinues
INVARIANTS SmTypeOK MutexDiscipline GasReadingsValid SamplingFollowsClient ReadIsFresh
