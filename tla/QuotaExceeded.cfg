SPECIFICATION Spec
CONSTANTS
  N = 2
  Loads <- OneWorker
  MaxConcurrent = 1
  MaxQueued = 0
INVARIANT QuotaHolds
CHECK_DEADLOCK FALSE
