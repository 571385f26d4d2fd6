SPECIFICATION FairSpec
CONSTANTS
  Main = main
  Rx = btrx
  WorkQueue = sysworkq
  Periodic = TRUE
  MaxEdges = 2
  MaxFaults = 1
  Levels <- MCLevels
PROPERTIES PollStops ChargingRepaired
INVARIANTS TypeOK DerivedConsistent ChargeLevelPublished PollAlive NestingBounded
