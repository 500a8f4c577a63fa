--------------------------- MODULE BuildRunStatus ---------------------------
(***************************************************************************)
(* The BuildRun status and the phase transitions the domain package        *)
(* accepts (internal/domain/status.go).  A status is abstracted to the     *)
(* fields other components decide on:                                      *)
(*   phase   status.phase; "Unset" is the empty string of a BuildRun that  *)
(*           nobody has reconciled yet;                                    *)
(*   jobRef  whether status.jobRef names the runner Job;                   *)
(*   image   what status.image says of the build result:                   *)
(*             "none"    the field is nil,                                 *)
(*             "tag"     the repository of the spec and the resolved tag,  *)
(*             "pushed"  the repository and digest the runner pushed,      *)
(*             "respec"  the digest the runner pushed under the repository *)
(*                       of the spec, where it was not pushed.             *)
(* Conditions, timestamps, messages and the failure reason are left out:   *)
(* no component branches on them.                                          *)
(***************************************************************************)

Phases == {"Unset", "Pending", "Queued", "Running", "Succeeded", "Failed", "Cancelled"}

Images == {"none", "tag", "pushed", "respec"}

Statuses == [phase : Phases, jobRef : BOOLEAN, image : Images]

NewStatus == [phase |-> "Unset", jobRef |-> FALSE, image |-> "none"]

WithPhase(status, phase) == [status EXCEPT !.phase = phase]

\* setRunRefStatus records the Job together with the phase.
WithJob(status, phase) == [status EXCEPT !.phase = phase, !.jobRef = TRUE]

IsTerminal(phase) == phase \in {"Succeeded", "Failed", "Cancelled"}

AllowedTransitions(from) ==
  CASE from = "Unset"   -> {"Pending", "Queued", "Running", "Succeeded", "Failed"}
    [] from = "Pending" -> {"Queued", "Running", "Succeeded", "Cancelled", "Failed"}
    [] from = "Queued"  -> {"Running", "Succeeded", "Cancelled", "Failed"}
    [] from = "Running" -> {"Succeeded", "Failed", "Cancelled"}
    [] OTHER            -> {}

ValidTransition(from, to) == from = to \/ to \in AllowedTransitions(from)
=============================================================================
