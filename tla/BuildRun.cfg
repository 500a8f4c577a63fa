SPECIFICATION FairSpec
CONSTANTS
  MaxDisruptions = 1
  Disruptions = {"references", "tag", "policy", "quota", "executor", "notify", "cancel", "job", "release", "restart"}
  GitOpsEnabled = TRUE
  BuildEnabled = FALSE
  ImagePrefixed = FALSE
INVARIANT TypeOK
INVARIANT SucceededOnlyAfterCompletion
INVARIANT ReleaseOnlyAfterCompletion
INVARIANT JobsReplaceDeletedJobs
PROPERTY CancelNeverReplacesOutcome
PROPERTY EventuallySettles
PROPERTY ReleaseFollowsSuccess
CHECK_DEADLOCK FALSE
