SPECIFICATION FairSpec
CONSTANTS
  Specs <- TwoSpecs
  APIAccess = TRUE
  MaxGeneration = 2
  MaxLag = 1
  MaxDisruptions = 1
  Disruptions = {"call", "answer", "restart", "drift", "namespace", "delete"}
INVARIANTS TypeOK ReadyIsBacked
PROPERTIES EventuallyIsolated
CHECK_DEADLOCK FALSE
