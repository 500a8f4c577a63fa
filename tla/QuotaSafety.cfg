SPECIFICATION Spec
CONSTANTS
  N = 3
  Loads <- OneWorkerOrMore
  MaxConcurrent = 1
  MaxQueued = 1
INVARIANTS TypeOK QuotaHoldsAsListed
CHECK_DEADLOCK FALSE
