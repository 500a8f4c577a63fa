------------------------ MODULE MCBuildRunLifecycle ------------------------
(***************************************************************************)
(* Instances of BuildRunLifecycle for TLC, and what the documentation says *)
(* of a BuildRun where the code does otherwise.                            *)
(***************************************************************************)
EXTENDS BuildRunLifecycle

\* docs/api/v1alpha1.md: "Terminal BuildRun phases are `Succeeded`, `Failed` and
\* `Cancelled`", and the tests of the domain package want a transition out of
\* one refused; here for the outcome of a cancellation.
CancelledIsFinal == [][run.phase = "Cancelled" => run'.phase = "Cancelled"]_vars
=============================================================================
