SPECIFICATION FairSpec
CONSTANTS
  N = 2
  Loads <- OneWorker
  MaxConcurrent = 1
  MaxQueued = 0
PROPERTY QueuedStarts
CHECK_DEADLOCK FALSE
