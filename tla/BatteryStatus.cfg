SPECIFICATION Spec
CONSTANTS
  Main = main
  Rx = btrx
  WorkQueue = sysworkq
  Periodic = FALSE
  MaxEdges = 3
  MaxFaults = 0
  Levels <- MCLevels
INVARIANT ChargeStatePublished
