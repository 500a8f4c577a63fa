------------------------- MODULE MCProjectIsolation -------------------------
(***************************************************************************)
(* An instance of ProjectIsolation for TLC: an edit changes the account,   *)
(* the policy, the Pod Security level and who creates the namespace.       *)
(***************************************************************************)
EXTENDS ProjectIsolation

TwoSpecs ==
  {[namespace |-> "one", account |-> "a", createNamespace |-> TRUE, level |-> "restricted",
    mode |-> "defaultDeny"],
   [namespace |-> "one", account |-> "b", createNamespace |-> FALSE, level |-> "none",
    mode |-> "egressAllowList"]}
=============================================================================
