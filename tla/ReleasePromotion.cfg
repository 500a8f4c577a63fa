SPECIFICATION Spec
CONSTANTS
  BuildRuns <- Layouts
  Environments <- TwoEnvironments
  Trees <- InitialTrees
  Digests = {"rebuilt"}
  Modes = {"direct-commit", "pull-request"}
  MaxReleases = 3
  MaxDisruptions = 1
  Disruptions = {"git", "answer", "restart", "rebuild", "delete", "environment"}
INVARIANTS TypeOK CommitRendersImage UpdateIsIdempotent SameImagePromoted
PROPERTIES DeliversAdmitted OneTargetChanges
CHECK_DEADLOCK FALSE
