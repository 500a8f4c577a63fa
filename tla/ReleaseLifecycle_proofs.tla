---------------------- MODULE ReleaseLifecycle_proofs ----------------------
(***************************************************************************)
(* The safety properties of ReleaseLifecycle hold for every number of      *)
(* disruptions and of pushes, and for every setting of the Release.        *)
(*                                                                         *)
(* Inv is inductive.  It adds to the properties what a stale copy may      *)
(* still be trusted with: what any copy says of the commit, the checkpoint *)
(* and the pull request (Sound), what the reconcile in progress knows at   *)
(* each of its steps (StepFacts, Asking), how the approval travels from    *)
(* the Release through the cache to the reconcile (ApprovalFirst,          *)
(* CopyIsApproved), and that a promotion the cache has seen started cannot *)
(* be decided any more (Undecidable, SyncIsApproved).                      *)
(***************************************************************************)
EXTENDS ReleaseLifecycle, TLAPS

\* The phases in which the API still decides, those past the merge and those
\* past the commit.
OpenPhases == {"Unset", "AwaitingApproval"}
SyncedPhases == {"WaitingForSync"} \cup DonePhases
PastCommit == {"GitOpsChangeCommitted"} \cup SyncedPhases

\* What a copy of the Release says is so, however old the copy.
Sound(c) ==
  /\ c.commit # 0 => c.commit = rel.checkpoint
  /\ c.checkpoint # 0 => c.checkpoint = rel.checkpoint
  /\ c.phase \in PastCommit => c.commit # 0
  /\ c.phase \in OpenPhases => c.commit = 0 /\ c.checkpoint = 0
  /\ c.pr => pull # "none"
  /\ ByPullRequest(c) /\ c.phase \in SyncedPhases => pull = "merged"

\* The approval reaches the cache after the Release; without it in the cache
\* nothing has started.
ApprovalFirst ==
  /\ ~ApprovalRequired => rel.approval = "none"
  /\ rel.approval = "none" => informer.approval = "none"
  /\ ApprovalRequired /\ informer.approval = "none" =>
       /\ rel.phase \notin StartedPhases
       /\ informer.phase \notin StartedPhases
       /\ rel.checkpoint = 0
       /\ ours = {}

\* Once the cache has seen the promotion started, approve and reject refuse.
Undecidable ==
  informer.phase \in StartedPhases =>
    /\ rel.phase \notin OpenPhases
    /\ informer.approval = "approved" => rel.approval = "approved"

\* The API server, the cache, the requests in flight and Git.
StoredIsSound ==
  /\ Sound(rel)
  /\ Sound(informer)
  /\ \A c \in rejecting : Sound(c) /\ c.phase = "FailedApproval"
  /\ current => informer = rel
  /\ rel.checkpoint # 0 => rel.checkpoint \in carrying
  /\ pull # "none" => branch # 0
  /\ ApprovalFirst
  /\ Undecidable
  /\ RejectedNeverDeployed

\* What the reconcile knows at each step.
StepFacts ==
  /\ ctl.copy.phase = "Unset" => ctl.step = "idle"
  /\ ctl.step \in {"clone", "push", "checkpoint"} =>
       ctl.copy.phase = "PreparingGitOpsChange" /\ rel.phase \notin OpenPhases
  /\ ctl.step = "checkpoint" => ctl.commit \in carrying
  /\ ctl.step = "persist" /\ ctl.next = "clone" => ctl.copy.phase = "PreparingGitOpsChange"
  /\ ctl.step = "persist" /\ ctl.next = "deploy" => ctl.copy.phase = "WaitingForSync"
  /\ ctl.step = "deploy" => ctl.copy.phase = "WaitingForSync"
  /\ ctl.step \in {"open", "read", "persistPull", "deploy"} =>
       ctl.copy.commit # 0 /\ ctl.copy.phase \in StartedPhases \ DonePhases
  /\ ctl.step = "open" => ctl.next \in {"commit", "read"}
  /\ ctl.step \in {"read", "persistPull"} => ctl.copy.pr
  /\ ctl.step = "persistPull" /\ ctl.next = "merged" => pull = "merged"

\* A reconcile that asks for the approval overwrites no promotion.
Asking ==
  ctl.copy.phase = "AwaitingApproval" =>
    /\ ApprovalRequired
    /\ rel.phase \notin StartedPhases
    /\ informer.phase \notin StartedPhases
    /\ rel.checkpoint = 0

\* The reconcile has its approval from the cache, and promotes nothing without it.
CopyIsApproved ==
  /\ informer.approval = "none" => ctl.copy.approval = "none"
  /\ ApprovalRequired /\ ctl.copy.phase \in StartedPhases => ctl.copy.approval = "approved"

\* The reconcile is on its way to the deployment.
Syncing ==
  \/ ctl.step \in {"read", "deploy"}
  \/ ctl.step = "open" /\ ctl.next = "read"
  \/ ctl.step = "persistPull" /\ ctl.next # "commit"
  \/ ctl.step \in {"persist", "notify"} /\ ctl.copy.phase \in SyncedPhases

\* Nobody can take the approval back from a Release that is being deployed.
SyncIsApproved ==
  ApprovalRequired /\ Syncing => rel.approval = "approved" /\ rel.phase \notin OpenPhases

\* The reconcile in progress, which works on a copy that may be stale.
ReconcileIsSound ==
  /\ Sound(ctl.copy)
  /\ StepFacts
  /\ Asking
  /\ CopyIsApproved
  /\ SyncIsApproved

Inv ==
  /\ TypeOK
  /\ StoredIsSound
  /\ ReconcileIsSound

-----------------------------------------------------------------------------

\* What the operators that build a copy of the Release return.
LEMMA CopyTypes ==
  /\ \A mode \in {"direct-commit", "pull-request"} : NewRelease(mode) \in Releases
  /\ Idle \in Ctls
  /\ \A c \in Releases, p \in Phases : At(c, p) \in Releases
  /\ \A c \in Releases : WithCommit(c) \in Releases
  /\ \A c \in Releases : ctl.commit \in Nat => Checkpointed(c) \in Releases
<1>1. \A mode \in {"direct-commit", "pull-request"} : NewRelease(mode) \in Releases
  BY DEF NewRelease, Releases, Phases
<1>2. Idle \in Ctls
  BY <1>1 DEF Idle, Ctls, Steps, Nexts
<1>3. \A c \in Releases, p \in Phases : At(c, p) \in Releases
  BY DEF At, Releases
<1>4. \A c \in Releases : WithCommit(c) \in Releases
  BY DEF WithCommit, Releases
<1>5. \A c \in Releases : ctl.commit \in Nat => Checkpointed(c) \in Releases
  BY DEF Checkpointed, Releases
<1> QED
  BY <1>1, <1>2, <1>3, <1>4, <1>5

\* Which fields these operators change.
LEMMA CopyFields ==
  ASSUME NEW c \in Releases
  PROVE  /\ \A p : /\ At(c, p).phase = p
                   /\ At(c, p).commit = c.commit /\ At(c, p).checkpoint = c.checkpoint
                   /\ At(c, p).pr = c.pr /\ At(c, p).mode = c.mode
                   /\ At(c, p).approval = c.approval
         /\ WithCommit(c).phase = c.phase /\ WithCommit(c).checkpoint = c.checkpoint
         /\ WithCommit(c).pr = c.pr /\ WithCommit(c).mode = c.mode
         /\ WithCommit(c).approval = c.approval
         /\ WithCommit(c).commit = IF c.commit = 0 THEN c.checkpoint ELSE c.commit
         /\ Checkpointed(c).phase = c.phase /\ Checkpointed(c).pr = c.pr
         /\ Checkpointed(c).mode = c.mode /\ Checkpointed(c).approval = c.approval
         /\ Checkpointed(c).commit = ctl.commit /\ Checkpointed(c).checkpoint = ctl.commit
BY DEF At, WithCommit, Checkpointed, Releases

\* A step of the reconcile is typed when its parts are.
LEMMA ThenTypes ==
  ASSUME ctl \in Ctls, NEW step \in Steps, NEW copy \in Releases, NEW next \in Nexts,
         Then(step, copy, next)
  PROVE  /\ ctl' \in Ctls /\ ctl'.step = step /\ ctl'.copy = copy /\ ctl'.next = next
         /\ ctl'.commit = ctl.commit
BY DEF Then, Ctls

\* A status write keeps the spec and the annotation of the stored Release.
LEMMA WrittenFields ==
  ASSUME rel \in Releases, NEW copy \in Releases, WriteStatus(copy)
  PROVE  /\ rel' \in Releases
         /\ rel'.phase = copy.phase /\ rel'.commit = copy.commit
         /\ rel'.pr = copy.pr /\ rel'.mode = copy.mode
         /\ rel'.approval = rel.approval /\ rel'.checkpoint = rel.checkpoint
         /\ current' = FALSE \/ (rel' = rel /\ current' = current)
BY DEF WriteStatus, Releases

\* Where the reconcile goes with a Release that passed the checks.
LEMMA PromoteOutcome ==
  ASSUME ctl \in Ctls, NEW c \in Releases, Promote(c)
  PROVE  /\ ctl' \in Ctls
         /\ ctl'.copy.approval = c.approval
         /\ ctl'.copy.commit = c.commit /\ ctl'.copy.checkpoint = c.checkpoint
         /\ ctl'.copy.pr = c.pr /\ ctl'.copy.mode = c.mode
         /\ \/ /\ c.commit = 0 /\ c.phase = "PreparingGitOpsChange"
               /\ ctl'.step = "clone" /\ ctl'.copy.phase = c.phase
            \/ /\ c.commit = 0
               /\ ctl'.step = "persist" /\ ctl'.next = "clone"
               /\ ctl'.copy.phase = "PreparingGitOpsChange"
            \/ /\ c.commit # 0 /\ c.phase \in {"Unset", "PreparingGitOpsChange"}
               /\ ctl'.step = "open" /\ ctl'.next = "commit" /\ ctl'.copy.phase = c.phase
            \/ /\ c.commit # 0 /\ c.phase \in {"Unset", "PreparingGitOpsChange"}
               /\ ctl'.step = "persist" /\ ctl'.next = "requeue"
               /\ ctl'.copy.phase = "GitOpsChangeCommitted"
            \/ /\ c.commit # 0 /\ c.phase = "WaitingForSync" /\ ~ByPullRequest(c)
               /\ ctl'.step = "deploy" /\ ctl'.copy.phase = c.phase
            \/ /\ c.commit # 0 /\ c.phase \notin {"Unset", "PreparingGitOpsChange"}
               /\ ~ByPullRequest(c)
               /\ ctl'.step = "persist" /\ ctl'.next = "deploy"
               /\ ctl'.copy.phase = "WaitingForSync"
            \/ /\ c.commit # 0 /\ c.phase \notin {"Unset", "PreparingGitOpsChange"}
               /\ c.pr /\ ctl'.step = "read" /\ ctl'.copy.phase = c.phase
            \/ /\ c.commit # 0 /\ c.phase \notin {"Unset", "PreparingGitOpsChange"}
               /\ ctl'.step = "open" /\ ctl'.next = "read" /\ ctl'.copy.phase = c.phase
<1> USE DEF Steps, Nexts
<1> DEFINE prepared == [c EXCEPT !.phase = "PreparingGitOpsChange", !.started = TRUE]
<1>0. /\ prepared \in Releases /\ prepared.phase = "PreparingGitOpsChange"
      /\ prepared.commit = c.commit /\ prepared.checkpoint = c.checkpoint
      /\ prepared.pr = c.pr /\ prepared.mode = c.mode /\ prepared.approval = c.approval
  BY DEF Releases, Phases, StartedPhases
<1>1. \A p \in {"GitOpsChangeCommitted", "WaitingForSync"} : At(c, p) \in Releases
  BY CopyTypes DEF Phases, StartedPhases
<1> HIDE DEF prepared
<1>2. CASE c.commit = 0
  <2>1. CASE c.phase = "PreparingGitOpsChange"
    <3>1. Then("clone", c, "idle")
      BY <1>2, <2>1 DEF Promote, Prepare
    <3> QED
      BY <1>2, <2>1, <3>1, ThenTypes
  <2>2. CASE c.phase # "PreparingGitOpsChange"
    <3>1. Then("persist", prepared, "clone")
      BY <1>2, <2>2 DEF Promote, Prepare, prepared
    <3> QED
      BY <1>0, <1>2, <3>1, ThenTypes
  <2> QED
    BY <2>1, <2>2
<1>3. CASE c.commit # 0 /\ c.phase \in {"Unset", "PreparingGitOpsChange"}
  <2>1. CASE ByPullRequest(c) /\ ~c.pr
    <3>1. Then("open", c, "commit")
      BY <1>3, <2>1 DEF Promote, Committed
    <3> QED
      BY <1>3, <3>1, ThenTypes
  <2>2. CASE ~(ByPullRequest(c) /\ ~c.pr)
    <3>1. Then("persist", At(c, "GitOpsChangeCommitted"), "requeue")
      BY <1>3, <2>2 DEF Promote, Committed
    <3> QED
      BY <1>1, <1>3, <3>1, ThenTypes, CopyFields
  <2> QED
    BY <2>1, <2>2
<1>4. CASE c.commit # 0 /\ c.phase \notin {"Unset", "PreparingGitOpsChange"} /\ ~ByPullRequest(c)
  <2>1. CASE c.phase = "WaitingForSync"
    <3>1. Then("deploy", c, "idle")
      BY <1>4, <2>1 DEF Promote, AwaitSync
    <3> QED
      BY <1>4, <2>1, <3>1, ThenTypes
  <2>2. CASE c.phase # "WaitingForSync"
    <3>1. Then("persist", At(c, "WaitingForSync"), "deploy")
      BY <1>4, <2>2 DEF Promote, AwaitSync
    <3> QED
      BY <1>1, <1>4, <3>1, ThenTypes, CopyFields
  <2> QED
    BY <2>1, <2>2
<1>5. CASE c.commit # 0 /\ c.phase \notin {"Unset", "PreparingGitOpsChange"} /\ ByPullRequest(c)
  <2>1. CASE c.pr
    <3>1. Then("read", c, "idle")
      BY <1>5, <2>1 DEF Promote
    <3> QED
      BY <1>5, <2>1, <3>1, ThenTypes
  <2>2. CASE ~c.pr
    <3>1. Then("open", c, "read")
      BY <1>5, <2>2 DEF Promote
    <3> QED
      BY <1>5, <3>1, ThenTypes
  <2> QED
    BY <2>1, <2>2
<1> QED
  BY <1>2, <1>3, <1>4, <1>5

LEMMA InitInv == Init => Inv
<1> SUFFICES ASSUME Init PROVE Inv
  OBVIOUS
<1> USE DEF Init
<1>1. PICK mode \in {"direct-commit", "pull-request"} : rel = NewRelease(mode)
  BY ConstantsAssumption
<1>2. rel \in Releases /\ informer \in Releases /\ ctl \in Ctls
  BY <1>1, CopyTypes
<1>3. budget \in 0 .. MaxDisruptions
  BY ConstantsAssumption
<1>4. provider \in [has : SUBSET (1 .. commits), health : Healths]
  BY DEF Healths
<1>5. /\ commits \in Nat /\ branch \in 0 .. commits /\ tip \in target
      /\ carrying \subseteq 1 .. commits /\ ours \subseteq 1 .. commits
      /\ target \subseteq 1 .. commits
  BY SMT
<1>5a. /\ rejecting \subseteq Releases /\ pull \in {"none", "open", "merged", "closed"}
       /\ current \in BOOLEAN /\ dirty \in BOOLEAN /\ refs \in BOOLEAN /\ late \in BOOLEAN
  BY Zenon
<1>6. TypeOK
  BY <1>2, <1>3, <1>4, <1>5, <1>5a, Zenon DEF TypeOK
<1>7. /\ rel.phase = "Unset" /\ rel.commit = 0 /\ rel.checkpoint = 0 /\ ~rel.pr
      /\ rel.approval = "none"
  BY <1>1 DEF NewRelease
<1>8. Sound(rel)
  BY <1>7 DEF Sound, PastCommit, SyncedPhases, DonePhases
<1>9. StoredIsSound
  BY <1>7, <1>8 DEF StoredIsSound, ApprovalFirst, Undecidable, RejectedNeverDeployed,
    StartedPhases, DonePhases
<1>10. /\ ctl.step = "idle" /\ ctl.copy.phase = "Unset" /\ ctl.copy.commit = 0
       /\ ctl.copy.checkpoint = 0 /\ ~ctl.copy.pr /\ ctl.copy.approval = "none"
  BY DEF Idle, NewRelease
<1>11. ReconcileIsSound
  BY <1>10 DEF ReconcileIsSound, Sound, StepFacts, Asking, CopyIsApproved, SyncIsApproved,
    Syncing, PastCommit, SyncedPhases, StartedPhases, DonePhases
<1> QED
  BY <1>6, <1>9, <1>11 DEF Inv

-----------------------------------------------------------------------------
(***************************************************************************)
(* The ways a step leaves the reconcile.                                   *)
(***************************************************************************)

\* A reconcile that has ended knows nothing that could be wrong.
LEMMA IdleIsSound == ctl' = Idle => ctl' \in Ctls /\ ReconcileIsSound'
<1> SUFFICES ASSUME ctl' = Idle PROVE ctl' \in Ctls /\ ReconcileIsSound'
  OBVIOUS
<1>1. /\ ctl'.step = "idle" /\ ctl'.copy.phase = "Unset" /\ ctl'.copy.commit = 0
      /\ ctl'.copy.checkpoint = 0 /\ ~ctl'.copy.pr /\ ctl'.copy.approval = "none"
  BY DEF Idle, NewRelease
<1>2. ReconcileIsSound'
  BY <1>1 DEF ReconcileIsSound, Sound, StepFacts, Asking, CopyIsApproved, SyncIsApproved,
    Syncing, PastCommit, SyncedPhases, StartedPhases, DonePhases
<1> QED
  BY <1>2, CopyTypes

\* A failure may be reported for any sound copy.
LEMMA FailIsSound ==
  ASSUME ctl \in Ctls, NEW c \in Releases, NEW p \in FailedPhases, Fail(c, p),
         Sound(c)', informer'.approval = "none" => c.approval = "none"
  PROVE  ctl' \in Ctls /\ ReconcileIsSound'
<1>1. At(c, p) \in Releases
  BY CopyTypes DEF Phases
<1>2. /\ ctl' \in Ctls /\ ctl'.step = "persist" /\ ctl'.next = "notify"
      /\ ctl'.copy = At(c, p)
  BY <1>1, ThenTypes DEF Fail, Steps, Nexts
<1>3. /\ ctl'.copy.phase \in FailedPhases
      /\ ctl'.copy.commit = c.commit /\ ctl'.copy.checkpoint = c.checkpoint
      /\ ctl'.copy.pr = c.pr /\ ctl'.copy.mode = c.mode /\ ctl'.copy.approval = c.approval
  BY <1>2, CopyFields
<1>4. /\ ctl'.copy.phase \notin StartedPhases /\ ctl'.copy.phase \notin SyncedPhases
      /\ ctl'.copy.phase \notin OpenPhases /\ ctl'.copy.phase \notin PastCommit
  BY <1>3 DEF FailedPhases, StartedPhases, SyncedPhases, OpenPhases, PastCommit, DonePhases
<1>5. Sound(ctl.copy)'
  BY <1>3, <1>4 DEF Sound
<1>6. StepFacts' /\ Asking' /\ CopyIsApproved' /\ SyncIsApproved'
  BY <1>2, <1>3, <1>4 DEF StepFacts, Asking, CopyIsApproved, SyncIsApproved, Syncing, OpenPhases
<1> QED
  BY <1>2, <1>5, <1>6 DEF ReconcileIsSound

\* Steps of the reconcile that store nothing.
LEMMA StoredKept ==
  ASSUME StoredIsSound, UNCHANGED <<rel, informer, current, rejecting, carrying, ours, pull, branch>>
  PROVE  StoredIsSound'
BY DEF StoredIsSound, Sound, ByPullRequest, ApprovalFirst, Undecidable, RejectedNeverDeployed

\* Steps of others that store nothing.
LEMMA ReconcileKept ==
  ASSUME ReconcileIsSound, UNCHANGED <<rel, informer, ctl, carrying, pull>>
  PROVE  ReconcileIsSound'
BY DEF ReconcileIsSound, Sound, ByPullRequest, StepFacts, Asking, CopyIsApproved,
  SyncIsApproved, Syncing

\* The types of what a step of the reconcile does not touch.
LEMMA ReconcileTyping ==
  ASSUME TypeOK, ctl' \in Ctls, rel' \in Releases, current' \in BOOLEAN, dirty' \in BOOLEAN,
         budget' \in 0 .. MaxDisruptions, pull' \in {"none", "open", "merged", "closed"},
         UNCHANGED <<informer, rejecting, gitVars, provider, refs, late>>
  PROVE  TypeOK'
BY DEF TypeOK, gitVars

\* A disruption is paid for from the budget.
LEMMA DisruptTypes ==
  ASSUME budget \in 0 .. MaxDisruptions, NEW kind, Disrupt(kind)
  PROVE  budget' \in 0 .. MaxDisruptions
BY ConstantsAssumption DEF Disrupt

-----------------------------------------------------------------------------
(***************************************************************************)
(* The reconcile's steps.                                                  *)
(***************************************************************************)

\* The cached copy passed every check: what Promote makes of it is sound.
LEMMA PromoteIsSound ==
  ASSUME Inv, UNCHANGED <<rel, informer, carrying, pull>>,
         ~Terminal(informer.phase), ~Rejected(informer), ~NeedsApproval(informer),
         Promote(WithCommit(informer))
  PROVE  ctl' \in Ctls /\ ReconcileIsSound'
<1> DEFINE c == WithCommit(informer)
<1>1. ctl \in Ctls /\ informer \in Releases /\ rel \in Releases
  BY DEF Inv, TypeOK
<1>2. /\ c \in Releases /\ c.phase = informer.phase /\ c.checkpoint = informer.checkpoint
      /\ c.pr = informer.pr /\ c.mode = informer.mode /\ c.approval = informer.approval
      /\ c.commit = IF informer.commit = 0 THEN informer.checkpoint ELSE informer.commit
  BY <1>1, CopyTypes, CopyFields
<1> HIDE DEF c
<1>3. Sound(informer)
  BY DEF Inv, StoredIsSound
<1>4. Sound(c)
  BY <1>2, <1>3 DEF Sound, ByPullRequest
<1>5. /\ c.phase \in OpenPhases \cup {"PreparingGitOpsChange", "GitOpsChangeCommitted", "WaitingForSync"}
      /\ c.commit # 0 => c.phase \in StartedPhases
  BY <1>1, <1>2, <1>4 DEF Terminal, Releases, Phases, StartedPhases, DonePhases, FailedPhases,
    OpenPhases, Sound
<1>6. /\ ApprovalRequired => c.approval = "approved"
      /\ informer.approval = "none" => c.approval = "none"
  BY <1>1, <1>2 DEF NeedsApproval, Releases
<1>7. c.phase \in StartedPhases =>
        /\ rel.phase \notin OpenPhases
        /\ ApprovalRequired => rel.approval = "approved"
  BY <1>2, <1>6 DEF Inv, StoredIsSound, Undecidable
<1>8. Promote(c)
  BY DEF c
<1>9. /\ ctl' \in Ctls
      /\ ctl'.copy.approval = c.approval
      /\ ctl'.copy.commit = c.commit /\ ctl'.copy.checkpoint = c.checkpoint
      /\ ctl'.copy.pr = c.pr /\ ctl'.copy.mode = c.mode
  BY <1>1, <1>2, <1>8, PromoteOutcome
<1> USE DEF StartedPhases, DonePhases, OpenPhases, SyncedPhases, PastCommit
<1>10. Sound(ctl.copy)'
  BY <1>1, <1>2, <1>4, <1>5, <1>8, <1>9, PromoteOutcome DEF Sound, ByPullRequest
<1>11. StepFacts'
  BY <1>1, <1>2, <1>5, <1>7, <1>8, <1>9, PromoteOutcome DEF StepFacts
<1>12. Asking'
  BY <1>1, <1>2, <1>5, <1>8, PromoteOutcome DEF Asking
<1>13. CopyIsApproved'
  BY <1>6, <1>9 DEF CopyIsApproved
<1>14. SyncIsApproved'
  BY <1>1, <1>2, <1>5, <1>7, <1>8, PromoteOutcome DEF SyncIsApproved, Syncing
<1> QED
  BY <1>9, <1>10, <1>11, <1>12, <1>13, <1>14 DEF ReconcileIsSound

\* The checks of a reconcile decide on a copy that may be stale.
LEMMA BeginInv == Inv /\ (Begin \/ PolicyDenied) => Inv'
<1> SUFFICES ASSUME Inv, Begin \/ PolicyDenied PROVE Inv'
  OBVIOUS
<1> USE DEF FailedPhases
<1>1. UNCHANGED <<rel, informer, current, rejecting, gitVars, pull, provider, refs, late>>
  BY DEF Begin, PolicyDenied
<1>2. UNCHANGED <<carrying, ours, branch>>
  BY <1>1 DEF gitVars
<1>3. ctl \in Ctls /\ informer \in Releases /\ rel \in Releases
  BY DEF Inv, TypeOK
<1>4. StoredIsSound'
  BY <1>1, <1>2, StoredKept DEF Inv
<1>5. Sound(informer)'
  BY <1>1, <1>4 DEF StoredIsSound
<1>6. ASSUME NEW p \in FailedPhases, Fail(informer, p)
      PROVE  ctl' \in Ctls /\ ReconcileIsSound'
  <2>1. Sound(informer)' /\ informer' = informer
    BY <1>1, <1>5
  <2> QED
    BY <1>3, <1>5, <1>6, <2>1, FailIsSound
<1>7. ASSUME ~Rejected(informer), NeedsApproval(informer), AwaitApproval(informer),
             ~Terminal(informer.phase)
      PROVE  ctl' \in Ctls /\ ReconcileIsSound'
  <2>1. CASE ctl' = Idle
    BY <2>1, IdleIsSound
  <2>2. CASE Then("persist", At(informer, "AwaitingApproval"), "notify")
    <3>1. At(informer, "AwaitingApproval") \in Releases
      BY <1>3, CopyTypes DEF Phases
    <3>2. /\ ctl' \in Ctls /\ ctl'.step = "persist" /\ ctl'.next = "notify"
          /\ ctl'.copy = At(informer, "AwaitingApproval")
      BY <1>3, <2>2, <3>1, ThenTypes DEF Steps, Nexts
    <3>3. /\ ctl'.copy.phase = "AwaitingApproval"
          /\ ctl'.copy.commit = informer.commit /\ ctl'.copy.checkpoint = informer.checkpoint
          /\ ctl'.copy.pr = informer.pr /\ ctl'.copy.approval = informer.approval
      BY <1>3, <3>2, CopyFields
    <3>4. ApprovalRequired /\ informer.approval = "none"
      BY <1>3, <1>7 DEF Rejected, NeedsApproval, Releases
    <3>5. /\ rel.phase \notin StartedPhases /\ informer.phase \notin StartedPhases
          /\ rel.checkpoint = 0
      BY <3>4 DEF Inv, StoredIsSound, ApprovalFirst
    <3>6. informer.commit = 0 /\ informer.checkpoint = 0
      BY <3>5 DEF Inv, StoredIsSound, Sound
    <3>7. Sound(ctl.copy)'
      BY <1>1, <1>5, <3>3, <3>6 DEF Sound, PastCommit, SyncedPhases, DonePhases
    <3>8. StepFacts' /\ Asking' /\ CopyIsApproved' /\ SyncIsApproved'
      BY <1>1, <3>2, <3>3, <3>4, <3>5 DEF StepFacts, Asking, CopyIsApproved, SyncIsApproved,
        Syncing, SyncedPhases, StartedPhases, DonePhases
    <3> QED
      BY <3>2, <3>7, <3>8 DEF ReconcileIsSound
  <2> QED
    BY <1>7, <2>1, <2>2 DEF AwaitApproval
<1>8. ctl' \in Ctls /\ ReconcileIsSound'
  <2>1. CASE PolicyDenied
    BY <1>6, <2>1 DEF PolicyDenied
  <2>2. CASE Begin
    <3>1. CASE Terminal(informer.phase)
      BY <2>2, <3>1, IdleIsSound DEF Begin
    <3>2. CASE ~Terminal(informer.phase) /\ Rejected(informer)
      BY <1>6, <2>2, <3>2 DEF Begin
    <3>3. CASE ~Terminal(informer.phase) /\ ~Rejected(informer) /\ ~refs
      BY <1>6, <2>2, <3>3 DEF Begin
    <3>4. CASE ~Terminal(informer.phase) /\ ~Rejected(informer) /\ refs /\ NeedsApproval(informer)
      BY <1>7, <2>2, <3>4 DEF Begin
    <3>5. CASE ~Terminal(informer.phase) /\ ~Rejected(informer) /\ refs /\ ~NeedsApproval(informer)
      <4>1. CASE informer.started /\ late
        BY <1>6, <2>2, <3>5, <4>1 DEF Begin
      <4>2. CASE ~(informer.started /\ late)
        BY <1>1, <1>2, <2>2, <3>5, <4>2, PromoteIsSound DEF Begin
      <4> QED
        BY <4>1, <4>2
    <3> QED
      BY <3>1, <3>2, <3>3, <3>4, <3>5
  <2> QED
    BY <2>1, <2>2
<1>9. dirty' \in BOOLEAN /\ budget' \in 0 .. MaxDisruptions
  BY DisruptTypes DEF Begin, PolicyDenied, Inv, TypeOK
<1>10. TypeOK'
  BY <1>1, <1>8, <1>9, ReconcileTyping DEF Inv, TypeOK
<1> QED
  BY <1>4, <1>8, <1>10 DEF Inv

\* The controller's status writes, of whatever copy a reconcile holds when it
\* writes.
LEMMA WriteIsSound ==
  ASSUME Inv, ctl.step \in {"persist", "notify", "persistPull"}, WriteStatus(ctl.copy),
         UNCHANGED <<informer, rejecting, carrying, ours, pull, branch>>
  PROVE  /\ StoredIsSound' /\ rel' \in Releases /\ current' \in BOOLEAN
         /\ rel'.phase = ctl.copy.phase /\ rel'.approval = rel.approval
         /\ rel'.checkpoint = rel.checkpoint
<1> DEFINE c == ctl.copy
<1>1. rel \in Releases /\ c \in Releases /\ current \in BOOLEAN
  BY DEF Inv, TypeOK, Ctls
<1>2. /\ rel' \in Releases
      /\ rel'.phase = c.phase /\ rel'.commit = c.commit
      /\ rel'.pr = c.pr /\ rel'.mode = c.mode
      /\ rel'.approval = rel.approval /\ rel'.checkpoint = rel.checkpoint
      /\ current' = FALSE \/ (rel' = rel /\ current' = current)
  BY <1>1, WrittenFields
<1>3. Sound(c) /\ Sound(informer)
  BY DEF Inv, StoredIsSound, ReconcileIsSound
<1>4. c.phase \in OpenPhases => rel.checkpoint = 0 /\ informer.phase \notin StartedPhases
  BY DEF Inv, ReconcileIsSound, StepFacts, Asking, OpenPhases
<1>5. ApprovalRequired /\ c.phase \in StartedPhases => informer.approval # "none"
  BY DEF Inv, ReconcileIsSound, CopyIsApproved
<1>6. c.phase \in DonePhases => rel.approval # "rejected"
  BY <1>1 DEF Inv, ReconcileIsSound, StoredIsSound, ApprovalFirst, StepFacts, SyncIsApproved,
    Syncing, SyncedPhases
<1> HIDE DEF c
<1>7. Sound(rel)'
  BY <1>2, <1>3, <1>4 DEF Sound, ByPullRequest
<1>8. Sound(informer)'
  BY <1>2, <1>3 DEF Sound, ByPullRequest
<1>9. \A d \in rejecting' : Sound(d)' /\ d.phase = "FailedApproval"
  BY <1>2 DEF Inv, StoredIsSound, Sound, ByPullRequest
<1>10. current' => (informer = rel)'
  BY <1>2 DEF Inv, StoredIsSound
<1>11. ApprovalFirst'
  BY <1>2, <1>5 DEF Inv, StoredIsSound, ApprovalFirst
<1>12. Undecidable'
  BY <1>2, <1>4 DEF Inv, StoredIsSound, Undecidable
<1>13. RejectedNeverDeployed'
  BY <1>2, <1>6 DEF RejectedNeverDeployed
<1>14. (rel.checkpoint # 0 => rel.checkpoint \in carrying)' /\ (pull # "none" => branch # 0)'
  BY <1>2 DEF Inv, StoredIsSound
<1>15. StoredIsSound'
  BY <1>7, <1>8, <1>9, <1>10, <1>11, <1>12, <1>13, <1>14 DEF StoredIsSound
<1>16. current' \in BOOLEAN
  BY <1>1, <1>2
<1> QED
  BY <1>2, <1>15, <1>16 DEF c

LEMMA PersistInv == Inv /\ Persist => Inv'
<1> SUFFICES ASSUME Inv, Persist PROVE Inv'
  OBVIOUS
<1>1. /\ UNCHANGED <<informer, rejecting, gitVars, pull, provider, refs, late, budget>>
      /\ ctl.step = "persist"
  BY DEF Persist
<1>2. UNCHANGED <<carrying, ours, branch>>
  BY <1>1 DEF gitVars
<1>3. ctl \in Ctls /\ ctl.copy \in Releases /\ rel \in Releases /\ dirty \in BOOLEAN
  BY DEF Inv, TypeOK, Ctls
<1>4. CASE ~current /\ Requeue /\ UNCHANGED <<rel, current>>
  <2>1. StoredIsSound'
    BY <1>1, <1>2, <1>4, StoredKept DEF Inv
  <2>2. ctl' \in Ctls /\ ReconcileIsSound'
    BY <1>4, IdleIsSound DEF Requeue
  <2>3. TypeOK'
    BY <1>1, <1>4, <2>2, ReconcileTyping DEF Inv, TypeOK, Requeue
  <2> QED
    BY <2>1, <2>2, <2>3 DEF Inv
<1>5. CASE WriteStatus(ctl.copy) /\ Continue
  <2>1. /\ StoredIsSound' /\ rel' \in Releases /\ current' \in BOOLEAN
        /\ rel'.phase = ctl.copy.phase /\ rel'.approval = rel.approval
        /\ rel'.checkpoint = rel.checkpoint
    BY <1>1, <1>2, <1>5, WriteIsSound
  <2>2. ctl' \in Ctls /\ ReconcileIsSound' /\ dirty' \in BOOLEAN
    <3>1. CASE Requeue
      BY <3>1, IdleIsSound DEF Requeue
    <3>2. CASE ctl.next \in {"notify", "clone", "deploy"} /\ Then(ctl.next, ctl.copy, "idle")
      <4>1. /\ ctl' \in Ctls /\ ctl'.step = ctl.next /\ ctl'.copy = ctl.copy
            /\ ctl'.next = "idle"
        BY <1>3, <3>2, ThenTypes DEF Steps, Nexts
      <4>2. Sound(ctl.copy)'
        BY <1>1, <2>1, <4>1 DEF Inv, ReconcileIsSound, Sound, ByPullRequest
      <4>3. ctl'.step = "deploy" => ctl.copy.phase = "WaitingForSync" /\ ctl.copy.commit # 0
        BY <1>1, <4>1 DEF Inv, ReconcileIsSound, StepFacts, Sound, PastCommit, SyncedPhases
      <4>4. StepFacts'
        BY <1>1, <2>1, <3>2, <4>1, <4>3 DEF Inv, ReconcileIsSound, StepFacts, StartedPhases,
          DonePhases, OpenPhases
      <4>5. Asking' /\ CopyIsApproved'
        BY <1>1, <2>1, <4>1 DEF Inv, ReconcileIsSound, Asking, CopyIsApproved, StartedPhases,
          DonePhases
      <4>6. SyncIsApproved'
        BY <1>1, <2>1, <3>2, <4>1, <4>3 DEF Inv, ReconcileIsSound, SyncIsApproved, Syncing,
          SyncedPhases, OpenPhases, DonePhases
      <4>7. dirty' \in BOOLEAN
        BY <1>3, <1>5, <3>2 DEF Continue, Requeue
      <4> QED
        BY <4>1, <4>2, <4>4, <4>5, <4>6, <4>7 DEF ReconcileIsSound
    <3> QED
      BY <1>5, <3>1, <3>2 DEF Continue
  <2>3. TypeOK'
    BY <1>1, <2>1, <2>2, ReconcileTyping DEF Inv, TypeOK
  <2> QED
    BY <2>1, <2>2, <2>3 DEF Inv
<1> QED
  BY <1>4, <1>5 DEF Persist

LEMMA NotifyInv == Inv /\ Notify => Inv'
<1> SUFFICES ASSUME Inv, Notify PROVE Inv'
  OBVIOUS
<1>1. /\ UNCHANGED <<informer, rejecting, gitVars, pull, provider, refs, late, dirty>>
      /\ ctl.step = "notify" /\ ctl' = Idle
  BY DEF Notify
<1>2. UNCHANGED <<carrying, ours, branch>>
  BY <1>1 DEF gitVars
<1>3. ctl' \in Ctls /\ ReconcileIsSound'
  BY <1>1, IdleIsSound
<1>4. StoredIsSound' /\ rel' \in Releases /\ current' \in BOOLEAN
  <2>1. CASE UNCHANGED <<rel, current>>
    BY <1>1, <1>2, <2>1, StoredKept DEF Inv, TypeOK
  <2>2. CASE WriteStatus(ctl.copy)
    BY <1>1, <1>2, <2>2, WriteIsSound
  <2> QED
    BY <2>1, <2>2 DEF Notify
<1>5. budget' \in 0 .. MaxDisruptions
  BY DisruptTypes DEF Notify, DeliveryFails, Inv, TypeOK
<1>6. TypeOK'
  BY <1>1, <1>3, <1>4, <1>5, ReconcileTyping DEF Inv, TypeOK
<1> QED
  BY <1>3, <1>4, <1>6 DEF Inv

\* The reconcile gives up with the copy it holds.
LEMMA GivesUp ==
  ASSUME Inv, NEW p \in FailedPhases, Fail(ctl.copy, p), UNCHANGED <<rel, informer, pull>>
  PROVE  ctl' \in Ctls /\ ReconcileIsSound'
<1>1. ctl \in Ctls /\ ctl.copy \in Releases
  BY DEF Inv, TypeOK, Ctls
<1>2. PICK c \in Releases : c = ctl.copy
  BY <1>1
<1>3. Sound(c)
  BY <1>2 DEF Inv, ReconcileIsSound
<1>4. Sound(c)'
  BY <1>3 DEF Sound, ByPullRequest
<1>5. informer'.approval = "none" => c.approval = "none"
  BY <1>2 DEF Inv, ReconcileIsSound, CopyIsApproved
<1>6. Fail(c, p)
  BY <1>2
<1> QED
  BY <1>1, <1>4, <1>5, <1>6, FailIsSound

\* UpdateImage hands a commit to the next step.
LEMMA GotCommitIsSound ==
  ASSUME Inv, ctl.step \in {"clone", "push"}, NEW step \in {"push", "checkpoint"},
         NEW commit \in Nat, GotCommit(step, commit), UNCHANGED <<rel, informer, pull>>,
         step = "checkpoint" => commit \in carrying'
  PROVE  ctl' \in Ctls /\ ReconcileIsSound'
<1>1. ctl \in Ctls /\ ctl.copy \in Releases
  BY DEF Inv, TypeOK, Ctls
<1>2. /\ ctl' \in Ctls /\ ctl'.step = step /\ ctl'.copy = ctl.copy /\ ctl'.commit = commit
      /\ ctl'.next = "idle"
  BY <1>1 DEF GotCommit, Ctls, Steps, Nexts
<1>3. ctl.copy.phase = "PreparingGitOpsChange" /\ rel.phase \notin OpenPhases
  BY DEF Inv, ReconcileIsSound, StepFacts
<1>4. Sound(ctl.copy)'
  BY <1>2 DEF Inv, ReconcileIsSound, Sound, ByPullRequest
<1>5. StepFacts' /\ Asking' /\ SyncIsApproved'
  BY <1>2, <1>3 DEF StepFacts, Asking, SyncIsApproved, Syncing
<1>6. CopyIsApproved'
  BY <1>2 DEF Inv, ReconcileIsSound, CopyIsApproved
<1> QED
  BY <1>2, <1>4, <1>5, <1>6 DEF ReconcileIsSound

LEMMA CloneInv == Inv /\ Clone => Inv'
<1> SUFFICES ASSUME Inv, Clone PROVE Inv'
  OBVIOUS
<1>1. /\ UNCHANGED <<rel, informer, current, dirty, rejecting, gitVars, pull, provider,
                     refs, late>>
      /\ ctl.step = "clone"
  BY DEF Clone
<1>2. UNCHANGED <<carrying, ours, branch>>
  BY <1>1 DEF gitVars
<1>3. StoredIsSound'
  BY <1>1, <1>2, StoredKept DEF Inv
<1>4. tip \in Nat
  BY DEF Inv, TypeOK
<1>5. ctl' \in Ctls /\ ReconcileIsSound'
  <2>1. CASE GotCommit("push", tip)
    BY <1>1, <1>4, <2>1, GotCommitIsSound
  <2>2. CASE ~ImageDiffers /\ GotCommit("checkpoint", tip)
    BY <1>1, <1>2, <1>4, <2>2, GotCommitIsSound DEF ImageDiffers
  <2>3. ASSUME NEW operation \in {"clone", "parse", "update", "commit"},
               Fail(ctl.copy, gitFailure(operation))
        PROVE  ctl' \in Ctls /\ ReconcileIsSound'
    <3>1. gitFailure(operation) \in FailedPhases
      BY DEF gitFailure, FailedPhases
    <3> QED
      BY <1>1, <2>3, <3>1, GivesUp
  <2> QED
    BY <2>1, <2>2, <2>3 DEF Clone
<1>6. budget' \in 0 .. MaxDisruptions
  BY DisruptTypes DEF Clone, Inv, TypeOK
<1>7. TypeOK'
  BY <1>1, <1>5, <1>6, ReconcileTyping DEF Inv, TypeOK
<1> QED
  BY <1>3, <1>5, <1>7 DEF Inv

\* A push adds one commit to Git, which holds the image.
LEMMA PushCommitTypes ==
  ASSUME TypeOK, PushCommit
  PROVE  /\ commits' \in Nat /\ carrying' \subseteq 1 .. commits' /\ ours' \subseteq 1 .. commits'
         /\ target' \subseteq 1 .. commits' /\ tip' \in target' /\ branch' \in 0 .. commits'
         /\ provider \in [has : SUBSET (1 .. commits'), health : Healths]
         /\ carrying \subseteq carrying' /\ commits + 1 \in carrying'
         /\ branch # 0 => branch' # 0
<1>1. commits' = commits + 1 /\ commits \in Nat
  BY DEF TypeOK, PushCommit
<1>2. \A i \in 1 .. commits : i \in 1 .. commits'
  BY <1>1
<1>3. commits + 1 \in 1 .. commits' /\ commits' \in Nat
  BY <1>1
<1>4. /\ carrying' \subseteq 1 .. commits' /\ ours' \subseteq 1 .. commits'
      /\ carrying \subseteq carrying' /\ commits + 1 \in carrying'
  BY <1>2, <1>3 DEF TypeOK, PushCommit
<1>5. target' \subseteq 1 .. commits' /\ tip' \in target'
  <2>1. target \subseteq 1 .. commits'
    BY <1>2 DEF TypeOK
  <2>2. \/ target' = target /\ tip' = tip
        \/ target' = target \cup {commits + 1} /\ tip' = commits + 1
    BY DEF PushCommit
  <2>3. tip \in target
    BY DEF TypeOK
  <2> QED
    BY <1>3, <2>1, <2>2, <2>3
<1>6. branch' \in 0 .. commits' /\ (branch # 0 => branch' # 0)
  BY <1>1 DEF TypeOK, PushCommit
<1>7. provider \in [has : SUBSET (1 .. commits'), health : Healths]
  BY <1>2 DEF TypeOK
<1> QED
  BY <1>3, <1>4, <1>5, <1>6, <1>7

LEMMA PushInv == Inv /\ Push => Inv'
<1> SUFFICES ASSUME Inv, Push PROVE Inv'
  OBVIOUS
<1>1. /\ UNCHANGED <<rel, informer, current, dirty, rejecting, pull, provider, refs, late>>
      /\ ctl.step = "push"
  BY DEF Push
<1>2. PushCommit \/ UNCHANGED gitVars
  BY DEF Push
<1>3. ApprovalRequired => informer.approval # "none"
  BY <1>1 DEF Inv, ReconcileIsSound, StepFacts, CopyIsApproved, StartedPhases
<1>4. /\ carrying \subseteq carrying' /\ (branch # 0 => branch' # 0)
  BY <1>2, PushCommitTypes DEF gitVars, Inv
<1>5. StoredIsSound'
  BY <1>1, <1>3, <1>4 DEF Inv, StoredIsSound, Sound, ByPullRequest, ApprovalFirst, Undecidable,
    RejectedNeverDeployed
<1>6. gitFailure("push") \in FailedPhases
  BY DEF gitFailure, FailedPhases
<1>7. ctl' \in Ctls /\ ReconcileIsSound'
  <2>1. CASE PushCommit /\ GotCommit("checkpoint", commits + 1)
    <3>1. commits + 1 \in Nat /\ commits + 1 \in carrying'
      BY <2>1, PushCommitTypes DEF Inv, TypeOK
    <3> QED
      BY <1>1, <2>1, <3>1, GotCommitIsSound
  <2>2. CASE Fail(ctl.copy, gitFailure("push"))
    BY <1>1, <1>6, <2>2, GivesUp
  <2> QED
    BY <2>1, <2>2 DEF Push
<1>8. budget' \in 0 .. MaxDisruptions
  BY DisruptTypes DEF Push, Inv, TypeOK
<1>9. TypeOK'
  <2>1. CASE PushCommit
    BY <1>1, <1>7, <1>8, <2>1, PushCommitTypes DEF Inv, TypeOK
  <2>2. CASE UNCHANGED gitVars
    BY <1>1, <1>7, <1>8, <2>2, ReconcileTyping DEF Inv, TypeOK
  <2> QED
    BY <1>2, <2>1, <2>2
<1> QED
  BY <1>5, <1>7, <1>9 DEF Inv

\* markGitOpsChangeCommitted, for a copy that has its commit.
LEMMA CommittedIsSound ==
  ASSUME ctl \in Ctls, NEW c \in Releases, Committed(c), Sound(c)', c.commit # 0,
         c.phase \in StartedPhases \ DonePhases,
         informer'.approval = "none" => c.approval = "none",
         ApprovalRequired => c.approval = "approved"
  PROVE  ctl' \in Ctls /\ ReconcileIsSound'
<1>1. /\ ctl' \in Ctls
      /\ ctl'.copy.approval = c.approval
      /\ ctl'.copy.commit = c.commit /\ ctl'.copy.checkpoint = c.checkpoint
      /\ ctl'.copy.pr = c.pr /\ ctl'.copy.mode = c.mode
      /\ \/ /\ ctl'.step = "open" /\ ctl'.next = "commit" /\ ctl'.copy.phase = c.phase
         \/ /\ ctl'.step = "persist" /\ ctl'.next = "requeue"
            /\ ctl'.copy.phase = "GitOpsChangeCommitted"
  <2> USE DEF Steps, Nexts
  <2>1. CASE Then("open", c, "commit")
    BY <2>1, ThenTypes
  <2>2. CASE Then("persist", At(c, "GitOpsChangeCommitted"), "requeue")
    <3>1. At(c, "GitOpsChangeCommitted") \in Releases
      BY CopyTypes DEF Phases, StartedPhases
    <3> QED
      BY <2>2, <3>1, ThenTypes, CopyFields
  <2> QED
    BY <2>1, <2>2 DEF Committed
<1> USE DEF StartedPhases, DonePhases, OpenPhases, SyncedPhases, PastCommit
<1>2. Sound(ctl.copy)'
  BY <1>1 DEF Sound, ByPullRequest
<1>3. StepFacts' /\ Asking' /\ CopyIsApproved'
  BY <1>1 DEF StepFacts, Asking, CopyIsApproved
<1>4. SyncIsApproved'
  BY <1>1 DEF SyncIsApproved, Syncing
<1> QED
  BY <1>1, <1>2, <1>3, <1>4 DEF ReconcileIsSound

\* The checkpoint of a commit is stored once, and never over another one.
LEMMA CheckpointInv == Inv /\ Checkpoint => Inv'
<1> SUFFICES ASSUME Inv, Checkpoint PROVE Inv'
  OBVIOUS
<1>1. /\ UNCHANGED <<informer, rejecting, gitVars, pull, provider, refs, late, budget>>
      /\ ctl.step = "checkpoint"
  BY DEF Checkpoint
<1>2. UNCHANGED <<carrying, ours, branch>>
  BY <1>1 DEF gitVars
<1>3. /\ ctl \in Ctls /\ ctl.copy \in Releases /\ ctl.commit \in Nat
      /\ rel \in Releases /\ dirty \in BOOLEAN /\ current \in BOOLEAN
  BY DEF Inv, TypeOK, Ctls
<1>4. /\ ctl.copy.phase = "PreparingGitOpsChange" /\ rel.phase \notin OpenPhases
      /\ ctl.commit \in carrying /\ ctl.commit # 0
      /\ ApprovalRequired => ctl.copy.approval = "approved" /\ informer.approval # "none"
      /\ informer.approval = "none" => ctl.copy.approval = "none"
      /\ Sound(ctl.copy)
  BY <1>1 DEF Inv, TypeOK, ReconcileIsSound, StepFacts, CopyIsApproved, StartedPhases
<1>5. PICK c \in Releases : c = Checkpointed(ctl.copy)
  BY <1>3, CopyTypes
<1>6. /\ c.phase = "PreparingGitOpsChange" /\ c.pr = ctl.copy.pr
      /\ c.mode = ctl.copy.mode /\ c.approval = ctl.copy.approval
      /\ c.commit = ctl.commit /\ c.checkpoint = ctl.commit
  BY <1>3, <1>4, <1>5, CopyFields
<1>7. ASSUME rel'.checkpoint = ctl.commit, Committed(Checkpointed(ctl.copy))
      PROVE  ctl' \in Ctls /\ ReconcileIsSound'
  <2>1. Sound(c)'
    BY <1>1, <1>4, <1>6, <1>7 DEF Sound, ByPullRequest, OpenPhases, PastCommit, SyncedPhases,
      DonePhases
  <2>2. Committed(c)
    BY <1>5, <1>7
  <2> QED
    BY <1>1, <1>3, <1>4, <1>6, <2>1, <2>2, CommittedIsSound DEF StartedPhases, DonePhases
<1>8. CASE KeepsCheckpoint /\ UNCHANGED <<rel, current>>
  <2>1. StoredIsSound'
    BY <1>1, <1>2, <1>8, StoredKept DEF Inv
  <2>2. ctl' \in Ctls /\ ReconcileIsSound' /\ dirty' \in BOOLEAN
    <3>1. CASE informer.checkpoint = ctl.commit
      <4>1. rel'.checkpoint = ctl.commit
        BY <1>4, <1>8, <3>1 DEF Inv, StoredIsSound, Sound
      <4> QED
        BY <1>3, <1>7, <1>8, <3>1, <4>1 DEF Checkpoint
    <3>2. CASE Requeue
      BY <3>2, IdleIsSound DEF Requeue
    <3> QED
      BY <1>8, <3>1, <3>2 DEF Checkpoint
  <2>3. TypeOK'
    BY <1>1, <1>8, <2>2, ReconcileTyping DEF Inv, TypeOK
  <2> QED
    BY <2>1, <2>2, <2>3 DEF Inv
<1>9. CASE ~KeepsCheckpoint /\ ~current /\ Requeue /\ UNCHANGED <<rel, current>>
  <2>1. StoredIsSound'
    BY <1>1, <1>2, <1>9, StoredKept DEF Inv
  <2>2. ctl' \in Ctls /\ ReconcileIsSound'
    BY <1>9, IdleIsSound DEF Requeue
  <2>3. TypeOK'
    BY <1>1, <1>9, <2>2, ReconcileTyping DEF Inv, TypeOK, Requeue
  <2> QED
    BY <2>1, <2>2, <2>3 DEF Inv
<1>10. CASE /\ ~KeepsCheckpoint
            /\ current
            /\ rel' = [rel EXCEPT !.checkpoint = ctl.commit]
            /\ current' = FALSE
            /\ Committed(Checkpointed(ctl.copy))
            /\ UNCHANGED dirty
  <2>1. /\ rel' \in Releases /\ rel'.phase = rel.phase /\ rel'.commit = rel.commit
        /\ rel'.pr = rel.pr /\ rel'.mode = rel.mode /\ rel'.approval = rel.approval
        /\ rel'.checkpoint = ctl.commit
    BY <1>3, <1>10 DEF Releases
  <2>2. informer = rel /\ rel.checkpoint = 0
    BY <1>10 DEF Inv, StoredIsSound, KeepsCheckpoint
  <2>3. ctl' \in Ctls /\ ReconcileIsSound'
    BY <1>7, <1>10, <2>1
  <2>4. Sound(rel)' /\ Sound(informer)'
    BY <1>1, <1>4, <2>1, <2>2 DEF Inv, StoredIsSound, Sound, ByPullRequest
  <2>5. \A d \in rejecting' : Sound(d)' /\ d.phase = "FailedApproval"
    BY <1>1, <2>2 DEF Inv, StoredIsSound, Sound, ByPullRequest
  <2>6. ApprovalFirst' /\ Undecidable' /\ RejectedNeverDeployed'
    BY <1>1, <1>4, <2>1 DEF Inv, StoredIsSound, ApprovalFirst, Undecidable, RejectedNeverDeployed
  <2>7. StoredIsSound'
    BY <1>1, <1>2, <1>4, <1>10, <2>1, <2>4, <2>5, <2>6 DEF Inv, StoredIsSound
  <2>8. TypeOK'
    BY <1>1, <1>3, <1>10, <2>1, <2>3, ReconcileTyping DEF Inv, TypeOK
  <2> QED
    BY <2>3, <2>7, <2>8 DEF Inv
<1> QED
  BY <1>8, <1>9, <1>10 DEF Checkpoint

\* A pull request that was merged is not opened again.
LEMMA OpenPullRequestInv == Inv /\ OpenPullRequest => Inv'
<1> SUFFICES ASSUME Inv, OpenPullRequest PROVE Inv'
  OBVIOUS
<1>1. /\ UNCHANGED <<rel, informer, current, dirty, rejecting, gitVars, provider, refs, late>>
      /\ ctl.step = "open"
  BY DEF OpenPullRequest
<1>2. UNCHANGED <<carrying, ours, branch>>
  BY <1>1 DEF gitVars
<1>3. budget' \in 0 .. MaxDisruptions
  BY DisruptTypes DEF OpenPullRequest, Inv, TypeOK
<1>4. CASE Fail(ctl.copy, "FailedProviderStatus") /\ UNCHANGED pull
  <2>1. StoredIsSound'
    BY <1>1, <1>2, <1>4, StoredKept DEF Inv
  <2>2. ctl' \in Ctls /\ ReconcileIsSound'
    BY <1>1, <1>4, GivesUp DEF FailedPhases
  <2>3. TypeOK'
    BY <1>1, <1>3, <1>4, <2>2, ReconcileTyping DEF Inv, TypeOK
  <2> QED
    BY <2>1, <2>2, <2>3 DEF Inv
<1>5. CASE /\ PullRequestAccepted
           /\ pull' = IF pull \in {"none", "closed"} THEN "open" ELSE pull
           /\ Then("persistPull", [ctl.copy EXCEPT !.pr = TRUE], ctl.next)
  <2>1. /\ pull' \in {"none", "open", "merged", "closed"} /\ pull' # "none"
        /\ pull = "merged" => pull' = "merged"
    BY <1>5 DEF Inv, TypeOK
  <2>2. ctl \in Ctls /\ ctl.copy \in Releases /\ ctl.next \in Nexts
    BY DEF Inv, TypeOK, Ctls
  <2> DEFINE c == [ctl.copy EXCEPT !.pr = TRUE]
  <2>3. /\ c \in Releases /\ c.pr /\ c.phase = ctl.copy.phase /\ c.commit = ctl.copy.commit
        /\ c.checkpoint = ctl.copy.checkpoint /\ c.mode = ctl.copy.mode
        /\ c.approval = ctl.copy.approval
    BY <2>2 DEF Releases
  <2> HIDE DEF c
  <2>4. /\ ctl' \in Ctls /\ ctl'.step = "persistPull" /\ ctl'.copy = c /\ ctl'.next = ctl.next
    BY <1>5, <2>2, <2>3, ThenTypes DEF Steps, c
  <2>5. Sound(ctl.copy)'
    BY <1>1, <2>1, <2>3, <2>4 DEF Inv, ReconcileIsSound, Sound, ByPullRequest
  <2>6. StepFacts' /\ Asking' /\ CopyIsApproved' /\ SyncIsApproved'
    BY <1>1, <2>3, <2>4 DEF Inv, ReconcileIsSound, StepFacts, Asking, CopyIsApproved,
      SyncIsApproved, Syncing, StartedPhases, DonePhases
  <2>7. StoredIsSound'
    BY <1>1, <1>2, <1>5, <2>1 DEF Inv, StoredIsSound, Sound, ByPullRequest, ApprovalFirst,
      Undecidable, RejectedNeverDeployed, PullRequestAccepted
  <2>8. TypeOK'
    BY <1>1, <1>3, <2>1, <2>4, ReconcileTyping DEF Inv, TypeOK
  <2> QED
    BY <2>4, <2>5, <2>6, <2>7, <2>8 DEF Inv, ReconcileIsSound
<1> QED
  BY <1>4, <1>5 DEF OpenPullRequest

LEMMA ReadPullRequestInv == Inv /\ ReadPullRequest => Inv'
<1> SUFFICES ASSUME Inv, ReadPullRequest PROVE Inv'
  OBVIOUS
<1>1. /\ UNCHANGED <<rel, informer, current, dirty, rejecting, gitVars, pull, provider,
                     refs, late>>
      /\ ctl.step = "read"
  BY DEF ReadPullRequest
<1>2. UNCHANGED <<carrying, ours, branch>>
  BY <1>1 DEF gitVars
<1>3. StoredIsSound'
  BY <1>1, <1>2, StoredKept DEF Inv
<1>4. ctl' \in Ctls /\ ReconcileIsSound'
  <2>1. CASE Fail(ctl.copy, "FailedProviderStatus")
    BY <1>1, <2>1, GivesUp DEF FailedPhases
  <2>2. CASE Then("persistPull", ctl.copy, PullReady)
    <3>1. pull \in {"open", "merged", "closed"}
      BY <1>1 DEF Inv, TypeOK, ReconcileIsSound, StepFacts, Sound
    <3>2. ctl \in Ctls /\ ctl.copy \in Releases
      BY DEF Inv, TypeOK, Ctls
    <3>3. /\ ctl' \in Ctls /\ ctl'.step = "persistPull" /\ ctl'.copy = ctl.copy
          /\ ctl'.next = pull
      BY <2>2, <3>1, <3>2, ThenTypes DEF Steps, Nexts, PullReady
    <3>4. Sound(ctl.copy)'
      BY <1>1, <3>3 DEF Inv, ReconcileIsSound, Sound, ByPullRequest
    <3>5. StepFacts' /\ Asking' /\ CopyIsApproved' /\ SyncIsApproved'
      BY <1>1, <3>3 DEF Inv, ReconcileIsSound, StepFacts, Asking, CopyIsApproved,
        SyncIsApproved, Syncing, StartedPhases, DonePhases
    <3> QED
      BY <3>3, <3>4, <3>5 DEF ReconcileIsSound
  <2> QED
    BY <2>1, <2>2 DEF ReadPullRequest
<1>5. budget' \in 0 .. MaxDisruptions
  BY DisruptTypes DEF ReadPullRequest, Inv, TypeOK
<1>6. TypeOK'
  BY <1>1, <1>4, <1>5, ReconcileTyping DEF Inv, TypeOK
<1> QED
  BY <1>3, <1>4, <1>6 DEF Inv

\* markWaitingForSync, for a copy whose change is on the deployment branch.
LEMMA AwaitSyncIsSound ==
  ASSUME ctl \in Ctls, NEW c \in Releases, AwaitSync(c), Sound(c)', c.commit # 0,
         ByPullRequest(c) => pull' = "merged",
         informer'.approval = "none" => c.approval = "none",
         ApprovalRequired => c.approval = "approved" /\ rel'.approval = "approved",
         rel'.phase \notin OpenPhases
  PROVE  ctl' \in Ctls /\ ReconcileIsSound'
<1>1. /\ ctl' \in Ctls
      /\ ctl'.copy.approval = c.approval
      /\ ctl'.copy.commit = c.commit /\ ctl'.copy.checkpoint = c.checkpoint
      /\ ctl'.copy.pr = c.pr /\ ctl'.copy.mode = c.mode
      /\ ctl'.copy.phase = "WaitingForSync"
      /\ ctl'.step = "deploy" \/ (ctl'.step = "persist" /\ ctl'.next = "deploy")
  <2> USE DEF Steps, Nexts
  <2>1. CASE c.phase = "WaitingForSync" /\ Then("deploy", c, "idle")
    BY <2>1, ThenTypes
  <2>2. CASE Then("persist", At(c, "WaitingForSync"), "deploy")
    <3>1. At(c, "WaitingForSync") \in Releases
      BY CopyTypes DEF Phases, StartedPhases
    <3> QED
      BY <2>2, <3>1, ThenTypes, CopyFields
  <2> QED
    BY <2>1, <2>2 DEF AwaitSync
<1> USE DEF StartedPhases, DonePhases, SyncedPhases, PastCommit
<1>2. Sound(ctl.copy)'
  BY <1>1 DEF Sound, ByPullRequest, OpenPhases
<1>3. StepFacts' /\ Asking' /\ CopyIsApproved'
  BY <1>1 DEF StepFacts, Asking, CopyIsApproved
<1>4. SyncIsApproved'
  BY <1>1 DEF SyncIsApproved, Syncing
<1> QED
  BY <1>1, <1>2, <1>3, <1>4 DEF ReconcileIsSound

LEMMA PersistPullInv == Inv /\ PersistPull => Inv'
<1> SUFFICES ASSUME Inv, PersistPull PROVE Inv'
  OBVIOUS
<1>1. /\ UNCHANGED <<informer, rejecting, gitVars, pull, provider, refs, late, budget>>
      /\ ctl.step = "persistPull"
  BY DEF PersistPull
<1>2. UNCHANGED <<carrying, ours, branch>>
  BY <1>1 DEF gitVars
<1>3. PICK c \in Releases : c = ctl.copy
  BY DEF Inv, TypeOK, Ctls
<1>4. /\ ctl \in Ctls /\ ctl.next \in Nexts /\ rel \in Releases /\ dirty \in BOOLEAN
      /\ Sound(c) /\ c.commit # 0 /\ c.phase \in StartedPhases \ DonePhases /\ c.pr
      /\ informer.approval = "none" => c.approval = "none"
      /\ ApprovalRequired => c.approval = "approved"
      /\ ctl.next = "merged" => pull = "merged"
      /\ ApprovalRequired /\ ctl.next # "commit" => rel.approval = "approved"
  BY <1>1, <1>3 DEF Inv, TypeOK, Ctls, ReconcileIsSound, StepFacts, CopyIsApproved,
    SyncIsApproved, Syncing
<1>5. CASE ~current /\ Fail(ctl.copy, "FailedProviderStatus") /\ UNCHANGED <<rel, current, dirty>>
  <2>1. StoredIsSound'
    BY <1>1, <1>2, <1>5, StoredKept DEF Inv
  <2>2. ctl' \in Ctls /\ ReconcileIsSound'
    BY <1>1, <1>5, GivesUp DEF FailedPhases
  <2>3. TypeOK'
    BY <1>1, <1>5, <2>2, ReconcileTyping DEF Inv, TypeOK
  <2> QED
    BY <2>1, <2>2, <2>3 DEF Inv
<1>6. CASE WriteStatus(ctl.copy) /\ AfterPull
  <2>1. /\ StoredIsSound' /\ rel' \in Releases /\ current' \in BOOLEAN
        /\ rel'.phase = c.phase /\ rel'.approval = rel.approval
        /\ rel'.checkpoint = rel.checkpoint
    BY <1>1, <1>2, <1>3, <1>6, WriteIsSound
  <2>2. Sound(c)'
    BY <1>1, <1>4, <2>1 DEF Sound, ByPullRequest
  <2>3. rel'.phase \notin OpenPhases
    BY <1>4, <2>1 DEF OpenPhases, StartedPhases, DonePhases
  <2>4. ctl' \in Ctls /\ ReconcileIsSound' /\ dirty' \in BOOLEAN
    <3>1. CASE ctl.next = "commit"
      <4>1. Committed(c) /\ UNCHANGED dirty
        BY <1>3, <1>6, <3>1 DEF AfterPull
      <4> QED
        BY <1>1, <1>4, <2>2, <4>1, CommittedIsSound
    <3>2. CASE ctl.next = "read"
      <4>1. Then("read", c, "idle") /\ UNCHANGED dirty
        BY <1>3, <1>6, <3>2 DEF AfterPull
      <4>2. /\ ctl' \in Ctls /\ ctl'.step = "read" /\ ctl'.copy = c
        BY <1>4, <4>1, ThenTypes DEF Steps, Nexts
      <4>3. StepFacts' /\ Asking' /\ CopyIsApproved' /\ SyncIsApproved'
        BY <1>1, <1>4, <2>1, <2>3, <3>2, <4>2 DEF StepFacts, Asking, CopyIsApproved, SyncIsApproved,
          Syncing, StartedPhases, DonePhases
      <4>4. Sound(ctl.copy)'
        BY <2>2, <4>2 DEF Sound, ByPullRequest
      <4> QED
        BY <1>4, <4>1, <4>2, <4>3, <4>4 DEF ReconcileIsSound
    <3>3. CASE ctl.next = "merged"
      <4>1. AwaitSync(c) /\ UNCHANGED dirty
        BY <1>3, <1>6, <3>3 DEF AfterPull
      <4> QED
        BY <1>1, <1>4, <2>1, <2>2, <2>3, <3>3, <4>1, AwaitSyncIsSound
    <3>4. CASE ctl.next = "closed"
      <4>1. Fail(c, "FailedApproval") /\ UNCHANGED dirty
        BY <1>3, <1>6, <3>4 DEF AfterPull
      <4> QED
        BY <1>1, <1>4, <2>2, <4>1, FailIsSound DEF FailedPhases
    <3>5. CASE Requeue
      BY <3>5, IdleIsSound DEF Requeue
    <3> QED
      BY <1>6, <3>1, <3>2, <3>3, <3>4, <3>5 DEF AfterPull
  <2>5. TypeOK'
    BY <1>1, <2>1, <2>4, ReconcileTyping DEF Inv, TypeOK
  <2> QED
    BY <2>1, <2>4, <2>5 DEF Inv
<1> QED
  BY <1>5, <1>6 DEF PersistPull

LEMMA ReadDeploymentInv == Inv /\ ReadDeployment => Inv'
<1> SUFFICES ASSUME Inv, ReadDeployment PROVE Inv'
  OBVIOUS
<1>1. /\ UNCHANGED <<rel, informer, current, dirty, rejecting, gitVars, pull, provider,
                     refs, late>>
      /\ ctl.step = "deploy"
  BY DEF ReadDeployment
<1>2. UNCHANGED <<carrying, ours, branch>>
  BY <1>1 DEF gitVars
<1>3. StoredIsSound'
  BY <1>1, <1>2, StoredKept DEF Inv
<1>4. ctl \in Ctls /\ ctl.copy \in Releases
  BY DEF Inv, TypeOK, Ctls
<1>5. /\ ctl.copy.phase = "WaitingForSync" /\ ctl.copy.commit # 0
      /\ Sound(ctl.copy) /\ CopyIsApproved
      /\ ApprovalRequired => rel.approval = "approved" /\ rel.phase \notin OpenPhases
  BY <1>1 DEF Inv, ReconcileIsSound, StepFacts, SyncIsApproved, Syncing
<1>6. ctl' \in Ctls /\ ReconcileIsSound'
  <2>1. CASE Fail(ctl.copy, "FailedProviderStatus")
    BY <1>1, <2>1, GivesUp DEF FailedPhases
  <2>2. ASSUME NEW p \in SyncedPhases, NEW next \in {"notify", "requeue"}, NEW copy \in Releases,
               Then("persist", copy, next), copy = At(ctl.copy, p)
        PROVE  ctl' \in Ctls /\ ReconcileIsSound'
    <3>1. /\ ctl' \in Ctls /\ ctl'.step = "persist" /\ ctl'.next = next /\ ctl'.copy = copy
      BY <1>4, <2>2, ThenTypes DEF Steps, Nexts
    <3>2. /\ ctl'.copy.phase = p /\ ctl'.copy.commit = ctl.copy.commit
          /\ ctl'.copy.checkpoint = ctl.copy.checkpoint /\ ctl'.copy.pr = ctl.copy.pr
          /\ ctl'.copy.mode = ctl.copy.mode /\ ctl'.copy.approval = ctl.copy.approval
      BY <1>4, <2>2, <3>1, CopyFields
    <3> USE DEF StartedPhases, DonePhases, SyncedPhases
    <3>3. Sound(ctl.copy)'
      BY <1>1, <1>5, <3>2 DEF Sound, ByPullRequest, OpenPhases
    <3>4. StepFacts' /\ Asking' /\ CopyIsApproved' /\ SyncIsApproved'
      BY <1>1, <1>5, <3>1, <3>2 DEF StepFacts, Asking, CopyIsApproved, SyncIsApproved, Syncing
    <3> QED
      BY <3>1, <3>3, <3>4 DEF ReconcileIsSound
  <2>3. At(ctl.copy, "WaitingForSync") = ctl.copy
    BY <1>4, <1>5 DEF At, Releases
  <2>4. CASE Then("persist", ctl.copy, "requeue")
    BY <1>4, <2>2, <2>3, <2>4 DEF SyncedPhases
  <2>5. CASE Deployed(ctl.copy)
    <3>1. \A p \in DonePhases : At(ctl.copy, p) \in Releases
      BY <1>4, CopyTypes DEF Phases, StartedPhases
    <3>2. PICK p \in DonePhases : Then("persist", At(ctl.copy, p), "notify")
      BY <2>5 DEF Deployed, DonePhases
    <3> QED
      BY <2>2, <3>1, <3>2 DEF SyncedPhases
  <2> QED
    BY <2>1, <2>4, <2>5 DEF ReadDeployment, StatusUnavailable
<1>7. budget' \in 0 .. MaxDisruptions
  BY DisruptTypes DEF ReadDeployment, Inv, TypeOK
<1>8. TypeOK'
  BY <1>1, <1>6, <1>7, ReconcileTyping DEF Inv, TypeOK
<1> QED
  BY <1>3, <1>6, <1>8 DEF Inv

-----------------------------------------------------------------------------
(***************************************************************************)
(* The steps of the others.                                                *)
(***************************************************************************)

LEMMA ControllerRestartInv == Inv /\ ControllerRestart => Inv'
<1> SUFFICES ASSUME Inv, ControllerRestart PROVE Inv'
  OBVIOUS
<1>1. /\ ctl' = Idle /\ dirty' = TRUE /\ informer' = rel /\ current' = TRUE
      /\ UNCHANGED <<rel, rejecting, gitVars, pull, provider, refs, late>>
  BY DEF ControllerRestart
<1>2. ctl' \in Ctls /\ ReconcileIsSound'
  BY <1>1, IdleIsSound
<1>3. StoredIsSound'
  BY <1>1 DEF Inv, StoredIsSound, Sound, ByPullRequest, ApprovalFirst, Undecidable,
    RejectedNeverDeployed, gitVars, StartedPhases, OpenPhases, DonePhases
<1>4. budget' \in 0 .. MaxDisruptions
  BY DisruptTypes DEF ControllerRestart, Inv, TypeOK
<1>5. TypeOK'
  BY <1>1, <1>2, <1>4 DEF Inv, TypeOK, gitVars
<1> QED
  BY <1>2, <1>3, <1>5 DEF Inv

\* The cache catches up under a reconcile that goes on with its older copy.
LEMMA SyncReleaseInv == Inv /\ SyncRelease => Inv'
<1> SUFFICES ASSUME Inv, SyncRelease PROVE Inv'
  OBVIOUS
<1>1. /\ informer' = rel /\ current' = TRUE /\ dirty' = TRUE
      /\ UNCHANGED <<rel, ctl, rejecting, gitVars, pull, provider, refs, late, budget>>
  BY DEF SyncRelease
<1>2. StoredIsSound'
  BY <1>1 DEF Inv, StoredIsSound, Sound, ByPullRequest, ApprovalFirst, Undecidable,
    RejectedNeverDeployed, gitVars, StartedPhases, OpenPhases, DonePhases
<1>3. Sound(ctl.copy)' /\ StepFacts' /\ Asking' /\ SyncIsApproved'
  BY <1>1 DEF Inv, ReconcileIsSound, Sound, ByPullRequest, StepFacts, Asking, SyncIsApproved,
    Syncing, gitVars
<1>4. CopyIsApproved'
  BY <1>1 DEF Inv, StoredIsSound, ApprovalFirst, ReconcileIsSound, CopyIsApproved
<1>5. TypeOK'
  BY <1>1 DEF Inv, TypeOK, gitVars
<1> QED
  BY <1>2, <1>3, <1>4, <1>5 DEF Inv, ReconcileIsSound

\* A decision of the API changes the approval of a Release in an open phase.
LEMMA DecideInv == Inv /\ (Approve \/ Reject) => Inv'
<1> SUFFICES ASSUME Inv, Approve \/ Reject PROVE Inv'
  OBVIOUS
<1>1. /\ UNCHANGED <<informer, ctl, dirty, gitVars, pull, provider, refs, late, budget>>
      /\ current' = FALSE /\ ApprovalRequired /\ Decidable
  BY DEF Approve, Reject
<1>2. /\ rel \in Releases /\ ctl \in Ctls
  BY DEF Inv, TypeOK
<1>3. /\ rel' \in Releases /\ rel'.phase = rel.phase /\ rel'.commit = rel.commit
      /\ rel'.pr = rel.pr /\ rel'.mode = rel.mode /\ rel'.checkpoint = rel.checkpoint
      /\ rel'.approval \in {"approved", "rejected"}
  BY <1>2 DEF Approve, Reject, Releases
<1>4. rel.phase \in OpenPhases
  BY <1>1, <1>2 DEF Decidable, Releases, Phases, OpenPhases
<1>5. rejecting' \subseteq Releases /\ \A d \in rejecting' : Sound(d)' /\ d.phase = "FailedApproval"
  <2>1. CASE Approve
    BY <1>1, <1>3, <2>1 DEF Approve, Inv, TypeOK, StoredIsSound, Sound, ByPullRequest
  <2>2. CASE Reject
    <3>1. rejecting' = {At(rel', "FailedApproval")}
      BY <2>2 DEF Reject
    <3>2. At(rel', "FailedApproval") \in Releases
      BY <1>3, CopyTypes DEF Phases, FailedPhases
    <3>3. /\ At(rel', "FailedApproval").phase = "FailedApproval"
          /\ At(rel', "FailedApproval").commit = rel.commit
          /\ At(rel', "FailedApproval").checkpoint = rel.checkpoint
          /\ At(rel', "FailedApproval").pr = rel.pr
      BY <1>3, CopyFields
    <3>4. PICK d : d = At(rel', "FailedApproval")
      OBVIOUS
    <3>5. Sound(d)' /\ d.phase = "FailedApproval"
      BY <1>1, <1>3, <3>3, <3>4 DEF Inv, StoredIsSound, Sound, PastCommit, SyncedPhases,
        DonePhases, OpenPhases
    <3> QED
      BY <3>1, <3>2, <3>4, <3>5
  <2> QED
    BY <2>1, <2>2
<1>6. Sound(rel)' /\ Sound(informer)'
  BY <1>1, <1>3 DEF Inv, StoredIsSound, Sound, ByPullRequest
<1>7. ApprovalFirst' /\ Undecidable' /\ RejectedNeverDeployed'
  BY <1>1, <1>3, <1>4 DEF Inv, StoredIsSound, ApprovalFirst, Undecidable, RejectedNeverDeployed,
    gitVars, OpenPhases, DonePhases, StartedPhases
<1>8. StoredIsSound'
  BY <1>1, <1>3, <1>5, <1>6, <1>7 DEF Inv, StoredIsSound, gitVars
<1>9. ReconcileIsSound'
  BY <1>1, <1>3, <1>4 DEF Inv, ReconcileIsSound, Sound, ByPullRequest, StepFacts, Asking,
    CopyIsApproved, SyncIsApproved, Syncing, gitVars
<1>10. TypeOK'
  BY <1>1, <1>3, <1>5 DEF Inv, TypeOK, gitVars
<1> QED
  BY <1>8, <1>9, <1>10 DEF Inv

\* The status of a rejection is stored whatever the controller stored meanwhile.
LEMMA RejectStatusInv == Inv /\ RejectStatus => Inv'
<1> SUFFICES ASSUME Inv, RejectStatus PROVE Inv'
  OBVIOUS
<1>1. /\ UNCHANGED <<informer, ctl, dirty, gitVars, pull, provider, refs, late, budget>>
      /\ rejecting' = {}
  BY DEF RejectStatus
<1>2. UNCHANGED <<carrying, ours, branch>>
  BY <1>1 DEF gitVars
<1>3. CASE UNCHANGED <<rel, current>>
  <2>1. StoredIsSound'
    BY <1>1, <1>2, <1>3 DEF Inv, StoredIsSound, Sound, ByPullRequest, ApprovalFirst, Undecidable,
      RejectedNeverDeployed
  <2>2. ReconcileIsSound'
    BY <1>1, <1>2, <1>3, ReconcileKept DEF Inv
  <2>3. TypeOK'
    BY <1>1, <1>3 DEF Inv, TypeOK, gitVars
  <2> QED
    BY <2>1, <2>2, <2>3 DEF Inv
<1>4. ASSUME NEW d \in rejecting, WriteStatus(d) PROVE Inv'
  <2>1. /\ rel \in Releases /\ d \in Releases /\ current \in BOOLEAN
        /\ Sound(d) /\ d.phase = "FailedApproval"
    BY DEF Inv, TypeOK, StoredIsSound
  <2>2. /\ rel' \in Releases
        /\ rel'.phase = "FailedApproval" /\ rel'.commit = d.commit
        /\ rel'.pr = d.pr /\ rel'.mode = d.mode
        /\ rel'.approval = rel.approval /\ rel'.checkpoint = rel.checkpoint
        /\ current' = FALSE \/ (rel' = rel /\ current' = current)
    BY <1>4, <2>1, WrittenFields
  <2>3. /\ rel'.phase \notin StartedPhases /\ rel'.phase \notin SyncedPhases
        /\ rel'.phase \notin OpenPhases /\ rel'.phase \notin PastCommit
        /\ rel'.phase \notin DonePhases
    BY <2>2 DEF FailedPhases, StartedPhases, SyncedPhases, OpenPhases, PastCommit, DonePhases
  <2>4. Sound(rel)' /\ Sound(informer)'
    BY <1>1, <2>1, <2>2, <2>3 DEF Inv, StoredIsSound, Sound, ByPullRequest
  <2>5. ApprovalFirst' /\ Undecidable' /\ RejectedNeverDeployed'
    BY <1>1, <1>2, <2>2, <2>3 DEF Inv, StoredIsSound, ApprovalFirst, Undecidable,
      RejectedNeverDeployed
  <2>6. StoredIsSound'
    BY <1>1, <1>2, <2>2, <2>4, <2>5 DEF Inv, StoredIsSound
  <2>7. ReconcileIsSound'
    BY <1>1, <1>2, <2>2, <2>3 DEF Inv, ReconcileIsSound, Sound, ByPullRequest, StepFacts, Asking,
      CopyIsApproved, SyncIsApproved, Syncing
  <2>8. current' \in BOOLEAN
    BY <2>1, <2>2
  <2>9. TypeOK'
    BY <1>1, <2>2, <2>8 DEF Inv, TypeOK, gitVars
  <2> QED
    BY <2>6, <2>7, <2>9 DEF Inv
<1> QED
  BY <1>3, <1>4 DEF RejectStatus

LEMMA OtherPushInv == Inv /\ OtherPush => Inv'
<1> SUFFICES ASSUME Inv, OtherPush PROVE Inv'
  OBVIOUS
<1>1. /\ UNCHANGED <<rel, informer, current, ctl, dirty, rejecting, ours, branch, pull, provider,
                     refs, late>>
      /\ commits' = commits + 1 /\ tip' = commits + 1 /\ target' = target \cup {commits + 1}
      /\ carrying' = carrying \/ carrying' = carrying \cup {commits + 1}
  BY DEF OtherPush
<1>2. carrying \subseteq carrying'
  BY <1>1
<1>3. StoredIsSound'
  BY <1>1, <1>2 DEF Inv, StoredIsSound, Sound, ByPullRequest, ApprovalFirst, Undecidable,
    RejectedNeverDeployed
<1>4. ReconcileIsSound'
  BY <1>1, <1>2 DEF Inv, ReconcileIsSound, Sound, ByPullRequest, StepFacts, Asking,
    CopyIsApproved, SyncIsApproved, Syncing
<1>5. commits \in Nat /\ commits' \in Nat /\ commits + 1 \in 1 .. commits'
  BY <1>1 DEF Inv, TypeOK
<1>6. \A i \in 1 .. commits : i \in 1 .. commits'
  BY <1>1, <1>5
<1>7. /\ carrying' \subseteq 1 .. commits' /\ ours' \subseteq 1 .. commits'
      /\ target' \subseteq 1 .. commits' /\ tip' \in target'
  BY <1>1, <1>5, <1>6 DEF Inv, TypeOK
<1>8. branch' \in 0 .. commits'
  BY <1>1, <1>5 DEF Inv, TypeOK
<1>9. provider' \in [has : SUBSET (1 .. commits'), health : Healths]
  BY <1>1, <1>6 DEF Inv, TypeOK
<1>10. budget' \in 0 .. MaxDisruptions
  BY DisruptTypes DEF OtherPush, Inv, TypeOK
<1>11. TypeOK'
  BY <1>1, <1>5, <1>7, <1>8, <1>9, <1>10 DEF Inv, TypeOK
<1> QED
  BY <1>3, <1>4, <1>11 DEF Inv

\* Only an open pull request is merged or closed, so no copy relied on it yet.
LEMMA ReviewInv == Inv /\ ReviewPullRequest => Inv'
<1> SUFFICES ASSUME Inv, ReviewPullRequest PROVE Inv'
  OBVIOUS
<1>1. /\ UNCHANGED <<rel, informer, current, ctl, dirty, rejecting, commits, carrying, ours,
                     branch, provider, refs, late, budget>>
      /\ pull = "open" /\ pull' \in {"merged", "closed"}
      /\ \/ target' = target \cup {branch} /\ tip' = branch
         \/ UNCHANGED <<target, tip>>
  BY DEF ReviewPullRequest
<1>2. StoredIsSound'
  BY <1>1 DEF Inv, StoredIsSound, Sound, ByPullRequest, ApprovalFirst, Undecidable,
    RejectedNeverDeployed
<1>3. ReconcileIsSound'
  BY <1>1 DEF Inv, ReconcileIsSound, Sound, ByPullRequest, StepFacts, Asking,
    CopyIsApproved, SyncIsApproved, Syncing
<1>4. commits \in Nat /\ branch \in 1 .. commits
  BY <1>1 DEF Inv, TypeOK, StoredIsSound
<1>5. target' \subseteq 1 .. commits /\ tip' \in target'
  BY <1>1, <1>4 DEF Inv, TypeOK
<1>6. TypeOK'
  BY <1>1, <1>5 DEF Inv, TypeOK
<1> QED
  BY <1>2, <1>3, <1>6 DEF Inv

\* The GitOps provider, the clock and the owners of the references change
\* nothing that a promise is about.
LEMMA SurroundingsInv == Inv /\ (ProviderSync \/ TimeoutElapses \/ ReferencesDeleted) => Inv'
<1> SUFFICES ASSUME Inv, ProviderSync \/ TimeoutElapses \/ ReferencesDeleted PROVE Inv'
  OBVIOUS
<1>1. UNCHANGED <<rel, informer, current, ctl, dirty, rejecting, gitVars, pull>>
  BY DEF ProviderSync, TimeoutElapses, ReferencesDeleted
<1>2. UNCHANGED <<carrying, ours, branch>>
  BY <1>1 DEF gitVars
<1>3. StoredIsSound' /\ ReconcileIsSound'
  BY <1>1, <1>2, StoredKept, ReconcileKept DEF Inv
<1>4. budget' \in 0 .. MaxDisruptions
  BY DisruptTypes DEF ProviderSync, TimeoutElapses, ReferencesDeleted, Inv, TypeOK
<1>5. provider' \in [has : SUBSET (1 .. commits), health : Healths]
  BY DEF ProviderSync, TimeoutElapses, ReferencesDeleted, Inv, TypeOK, Healths
<1>6. refs' \in BOOLEAN /\ late' \in BOOLEAN
  BY DEF ProviderSync, TimeoutElapses, ReferencesDeleted, Inv, TypeOK
<1>7. TypeOK'
  BY <1>1, <1>4, <1>5, <1>6 DEF Inv, TypeOK, gitVars
<1> QED
  BY <1>3, <1>7 DEF Inv

LEMMA StutterInv == Inv /\ UNCHANGED vars => Inv'
<1> SUFFICES ASSUME Inv, UNCHANGED vars PROVE Inv'
  OBVIOUS
<1>1. UNCHANGED <<rel, informer, current, ctl, dirty, rejecting, gitVars, pull, provider, refs,
                  late, budget>>
  BY DEF vars
<1>2. UNCHANGED <<carrying, ours, branch>>
  BY <1>1 DEF gitVars
<1>3. StoredIsSound' /\ ReconcileIsSound'
  BY <1>1, <1>2, StoredKept, ReconcileKept DEF Inv
<1>4. TypeOK'
  BY <1>1 DEF Inv, TypeOK, gitVars
<1> QED
  BY <1>3, <1>4 DEF Inv

LEMMA NextInv == Inv /\ [Next]_vars => Inv'
BY BeginInv, PersistInv, NotifyInv, CloneInv, PushInv, CheckpointInv, OpenPullRequestInv,
  ReadPullRequestInv, PersistPullInv, ReadDeploymentInv, ControllerRestartInv, SyncReleaseInv,
  DecideInv, RejectStatusInv, OtherPushInv, ReviewInv, SurroundingsInv, StutterInv
  DEF Next, Reconcile

-----------------------------------------------------------------------------

\* Inv holds in every reachable state of a Release.
THEOREM Invariance == Spec => []Inv
<1>1. Init => Inv
  BY InitInv
<1>2. Inv /\ [Next]_vars => Inv'
  BY NextInv
<1> QED
  BY <1>1, <1>2, PTL DEF Spec

\* The state of the Release, the reconcile and Git keeps its type.
THEOREM TypeCorrect == Spec => []TypeOK
<1>1. Inv => TypeOK
  BY DEF Inv
<1> QED
  BY <1>1, Invariance, PTL

\* Pushing needs an approval the cache has seen, and the cache never runs ahead
\* of the API server.
THEOREM ApprovalBeforePush == Spec => []PushOnlyAfterApproval
<1>1. Inv => PushOnlyAfterApproval
  BY DEF Inv, StoredIsSound, ApprovalFirst, PushOnlyAfterApproval
<1> QED
  BY <1>1, Invariance, PTL

\* No rejected Release is reported Deployed or RolledBack, whichever of the
\* reject handler and the reconcile stores its status last.
THEOREM RejectionHolds == Spec => []RejectedNeverDeployed
<1>1. Inv => RejectedNeverDeployed
  BY DEF Inv, StoredIsSound
<1> QED
  BY <1>1, Invariance, PTL

\* A Release past the commit has a checkpointed commit with its image, and one
\* past the sync of a pull request a merged pull request.
THEOREM PhasesAreBacked == Spec => []ProgressIsBacked
<1>1. Inv => ProgressIsBacked
  BY DEF Inv, StoredIsSound, Sound, ProgressIsBacked, CommitIsCheckpointed, SyncOnlyAfterMerge,
    PastCommit, SyncedPhases, StartedPhases, DonePhases
<1> QED
  BY <1>1, Invariance, PTL

\* A checkpoint that is stored is never replaced: persistGitCommitCheckpoint
\* decides on the cache, but writes only when the cache is current.
THEOREM CheckpointNeverReplaced == Spec => CheckpointIsFinal
<1>1. Inv /\ [Next]_vars => [rel.checkpoint # 0 => rel'.checkpoint = rel.checkpoint]_vars
  <2> SUFFICES ASSUME Inv, [Next]_vars, rel.checkpoint # 0
               PROVE  rel'.checkpoint = rel.checkpoint
    OBVIOUS
  <2>1. rel \in Releases /\ ctl.copy \in Releases /\ rejecting \subseteq Releases
    BY DEF Inv, TypeOK, Ctls
  <2>2. \A c \in Releases : WriteStatus(c) => rel'.checkpoint = rel.checkpoint
    BY <2>1, WrittenFields
  <2>3. CASE Checkpoint
    BY <2>3 DEF Checkpoint, KeepsCheckpoint, Inv, StoredIsSound
  <2>4. CASE Persist \/ Notify \/ PersistPull
    BY <2>1, <2>2, <2>4 DEF Persist, Notify, PersistPull
  <2>5. CASE RejectStatus
    BY <2>1, <2>2, <2>5 DEF RejectStatus
  <2>6. CASE Approve \/ Reject
    BY <2>1, <2>6 DEF Approve, Reject, Releases
  <2>7. CASE UNCHANGED rel
    BY <2>7
  <2> QED
    BY <2>3, <2>4, <2>5, <2>6, <2>7 DEF Next, Reconcile, vars, Begin, PolicyDenied, Clone, Push,
      OpenPullRequest, ReadPullRequest, ReadDeployment, ControllerRestart, SyncRelease, OtherPush,
      ReviewPullRequest, ProviderSync, TimeoutElapses, ReferencesDeleted
<1> QED
  BY <1>1, Invariance, PTL DEF Spec, CheckpointIsFinal

=============================================================================
