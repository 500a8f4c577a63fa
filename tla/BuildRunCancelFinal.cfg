SPECIFICATION Spec
CONSTANTS
  MaxDisruptions = 1
  Disruptions = {"cancel"}
  GitOpsEnabled = TRUE
  BuildEnabled = TRUE
  ImagePrefixed = FALSE
PROPERTY CancelledIsFinal
CHECK_DEADLOCK FALSE
