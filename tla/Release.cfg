SPECIFICATION FairSpec
CONSTANTS
  MaxDisruptions = 2
  MaxOtherPushes = 1
  Disruptions = {"references", "policy", "git", "push", "pull", "provider", "notify", "restart"}
  ApprovalRequired = TRUE
  PromotionModes = {"direct-commit", "pull-request"}
  PullRequestAPI = TRUE
  Generic = FALSE
  FailOnDegraded = TRUE
  RollbackOf = TRUE
INVARIANTS TypeOK PushOnlyAfterApproval RejectedNeverDeployed ProgressIsBacked
PROPERTIES CheckpointIsFinal EventuallySettles RejectionPrevails
CHECK_DEADLOCK FALSE
