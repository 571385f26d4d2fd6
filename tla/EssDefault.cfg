SPECIFICATION EssSpec
CONSTANTS
  Main = main
  Rx = btrx
  WorkQueue = sysworkq
  NoThread = none
  Periodic = FALSE
  Climates <- MCClimates
  Pressures <- MCPressures
  Gases <- MCTwoGases
  MayFail <- MCTemphumAir
  Subscribable <- MCHumidityPressureCo2
INVARIANTS ConnectCompensationFresh EssCurrent NoChangeUnannounced
