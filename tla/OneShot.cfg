SPECIFICATION FairSpec
CONSTANTS
  Rx = rx
  WorkQueue = work_queue
  NoThread = none
  TriggerThread = work_queue
INVARIANTS OneShotTypeOK   LpsDisarmed
PROPERTIES LpsMeasures EveryReadReturns
