SPECIFICATION Spec
CONSTANTS
  BuildRuns <- Unfiltered
  Environments <- TwoEnvironments
  Trees <- InitialTrees
  Digests = {"rebuilt"}
  Modes = {"direct-commit", "pull-request"}
  MaxReleases = 2
  MaxDisruptions = 0
  Disruptions = {"git", "answer", "restart", "rebuild", "delete", "environment"}
PROPERTY OneTargetChanges
CHECK_DEADLOCK FALSE
