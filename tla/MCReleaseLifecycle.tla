------------------------- MODULE MCReleaseLifecycle -------------------------
(***************************************************************************)
(* Instances of ReleaseLifecycle for TLC, and what the documentation says  *)
(* of a Release where the code does otherwise.                             *)
(***************************************************************************)
EXTENDS ReleaseLifecycle

\* docs/concepts/release.md: the controller "records a Git commit exactly once",
\* here without a crash, with a cache that lags and another user's push.
CommitsOnce == Cardinality(ours) <= 1
=============================================================================
