SPECIFICATION Spec
CONSTANTS
  Main = main
  WorkQueue = sysworkq
  Connectors = {btrx}
  Readers = {btrx}
  NoThread = none
  ConditioningTime = 3
  WakeDelay = 2
  LockTimeout = 1
  MaxCacheAge = 2
  Co2Readings <- MCCo2Readings
  TvocReadings <- MCTvocReadings
INVARIANT QuiescentMode
