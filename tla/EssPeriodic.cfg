SPECIFICATION EssSpec
CONSTANTS
  Main = main
  Rx = btrx
  WorkQueue = sysworkq
  NoThread = none
  Periodic = TRUE
  Climates <- MCHumid
  Pressures <- MCPressure
  Gases <- MCGases
  MayFail <- MCNone
  Subscribable <- MCNone
INVARIANTS EssTypeOK NoGasBeforeReady
