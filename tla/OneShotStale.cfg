SPECIFICATION Spec
CONSTANTS
  Rx = rx
  WorkQueue = work_queue
  NoThread = none
  TriggerThread = work_queue
INVARIANT HtsSampleIsOwn
