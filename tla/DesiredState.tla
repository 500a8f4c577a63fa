---------------------------- MODULE DesiredState ----------------------------
(***************************************************************************)
(* What a GitOps repository promises the environments it describes: each   *)
(* deployment target runs the image desired for it, and the desired image  *)
(* of a target changes only by the delivery of a Release that was admitted *)
(* for this target, to the image of this Release.  A delivery changes no   *)
(* other target, and may come late, more than once or never.               *)
(***************************************************************************)

VARIABLES
  desired,   \* for each target the image references its manifests hold
  admitted   \* the pairs of target and image reference admitted so far

Init == admitted = {}

Admit ==
  /\ \E order \in admitted' : admitted' = admitted \cup {order}
  /\ UNCHANGED desired

Deliver ==
  /\ \E order \in admitted : desired' = [desired EXCEPT ![order.target] = {order.image}]
  /\ UNCHANGED admitted

Next == Admit \/ Deliver

Spec == Init /\ [][Next]_<<desired, admitted>>
=============================================================================
