SPECIFICATION Spec
CONSTANTS
  MaxDisruptions = 1
  MaxOtherPushes = 1
  Disruptions = {"push"}
  ApprovalRequired = FALSE
  PromotionModes = {"direct-commit"}
  PullRequestAPI = TRUE
  Generic = FALSE
  FailOnDegraded = FALSE
  RollbackOf = FALSE
INVARIANT CommitsOnce
CHECK_DEADLOCK FALSE
