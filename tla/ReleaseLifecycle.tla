-------------------------- MODULE ReleaseLifecycle --------------------------
(***************************************************************************)
(* One Release and everything that acts on it:                             *)
(*                                                                         *)
(*   - the Release controller (internal/controller/release_controller.go): *)
(*     cached read, approval, Git commit, checkpoint, pull request, sync;  *)
(*   - the API's approve and reject handlers (internal/api/server.go);     *)
(*   - the GitOps repository (internal/gitops/provider.go), where others   *)
(*     push too, the pull request, and Argo CD or Flux.                    *)
(*                                                                         *)
(* Mode and approval are spec, the checkpoint an annotation, all the other *)
(* fields of a Release are status.  A status write replaces all the status *)
(* by the writer's copy.  The controller reads through its cache also when *)
(* it writes, so its writes go through only while the cache is current;    *)
(* the API reads the API server.  A handler that reads, checks and updates *)
(* under the resourceVersion is one step: if anything was stored between   *)
(* its read and its write, the write is refused and nothing has happened.  *)
(***************************************************************************)
EXTENDS Naturals, FiniteSets

CONSTANTS
  MaxDisruptions,    \* bound on the number of disruptive events
  MaxOtherPushes,    \* bound on the pushes of others among them
  Disruptions,       \* the kinds of disruptive event that may happen
  ApprovalRequired,  \* spec.approval.required
  PromotionModes,    \* the values spec.promotionMode may have
  PullRequestAPI,    \* an API client of the Git host is configured
  Generic,           \* environment.spec.gitOps.provider is generic
  FailOnDegraded,    \* environment.spec.policy.failOnDegraded
  RollbackOf         \* spec.rollbackOf is set

DisruptionKinds ==
  {"references", "policy", "git", "push", "pull", "provider", "notify", "restart"}

ASSUME ConstantsAssumption ==
  /\ {MaxDisruptions, MaxOtherPushes} \subseteq Nat
  /\ Disruptions \subseteq DisruptionKinds
  /\ ApprovalRequired \in BOOLEAN
  /\ PromotionModes \subseteq {"direct-commit", "pull-request"}
  /\ {PullRequestAPI, Generic, FailOnDegraded} \subseteq BOOLEAN
  /\ RollbackOf \in BOOLEAN

VARIABLES
  rel,        \* the Release stored in the API server
  informer,   \* the controller's cached copy
  current,    \* the cached copy has the stored resourceVersion
  ctl,        \* the reconcile in progress
  dirty,      \* the Release's key is in the controller's work queue
  rejecting,  \* the status a reject request has still to store, if any
  commits,    \* number of commits pushed to the repository so far
  carrying,   \* the commits whose tree holds the Release's image
  ours,       \* history: the commits the controller pushed for the Release
  target,     \* the commits on the deployment branch
  tip,        \* the head of the deployment branch
  branch,     \* the head of the promotion branch, 0 if there is none
  pull,       \* the pull request
  provider,   \* what Argo CD or Flux has synced and says of it
  refs,       \* BuildRun and Environment exist
  late,       \* the deployment timeout has elapsed
  budget      \* disruptive events still allowed

gitVars == <<commits, carrying, ours, target, tip, branch>>
vars == <<rel, informer, current, ctl, dirty, rejecting, gitVars, pull,
          provider, refs, late, budget>>

FailedPhases ==
  {"FailedValidation", "FailedApproval", "FailedGitClone", "FailedGitCommit",
   "FailedGitPush", "FailedProviderStatus", "TimedOut"}
DonePhases == {"Deployed", "RolledBack"}
StartedPhases ==
  {"PreparingGitOpsChange", "GitOpsChangeCommitted", "WaitingForSync"} \cup DonePhases
Phases == {"Unset", "AwaitingApproval"} \cup StartedPhases \cup FailedPhases

\* A commit is known by its number; 0 stands for the empty string.
Releases ==
  [phase : Phases, commit : Nat, started : BOOLEAN, pr : BOOLEAN,
   mode : {"direct-commit", "pull-request"},
   approval : {"none", "approved", "rejected"}, checkpoint : Nat]

NewRelease(mode) ==
  [phase |-> "Unset", commit |-> 0, started |-> FALSE, pr |-> FALSE,
   mode |-> mode, approval |-> "none", checkpoint |-> 0]

Steps == {"idle", "persist", "persistPull", "clone", "push", "checkpoint",
          "open", "read", "deploy", "notify"}
Nexts == {"idle", "notify", "clone", "requeue", "deploy", "commit", "read",
          "merged", "closed", "open"}
Ctls == [step : Steps, copy : Releases, next : Nexts, commit : Nat]
Idle == [step |-> "idle", copy |-> NewRelease("direct-commit"), next |-> "idle",
         commit |-> 0]

Healths == {"Healthy", "Progressing", "Degraded", "OutOfSync"}

\* The types of the variables.
TypeOK ==
  /\ rel \in Releases
  /\ informer \in Releases
  /\ current \in BOOLEAN
  /\ ctl \in Ctls
  /\ dirty \in BOOLEAN
  /\ rejecting \subseteq Releases
  /\ commits \in Nat
  /\ carrying \subseteq 1 .. commits
  /\ ours \subseteq 1 .. commits
  /\ target \subseteq 1 .. commits
  /\ tip \in target
  /\ branch \in 0 .. commits
  /\ pull \in {"none", "open", "merged", "closed"}
  /\ provider \in [has : SUBSET (1 .. commits), health : Healths]
  /\ refs \in BOOLEAN
  /\ late \in BOOLEAN
  /\ budget \in 0 .. MaxDisruptions

\* The deployment branch has a commit, which may hold the image already.
Init ==
  /\ \E mode \in PromotionModes : rel = NewRelease(mode)
  /\ informer = rel
  /\ current = TRUE
  /\ ctl = Idle
  /\ dirty = TRUE
  /\ rejecting = {}
  /\ commits = 1
  /\ carrying \in {{}, {1}}
  /\ ours = {}
  /\ target = {1}
  /\ tip = 1
  /\ branch = 0
  /\ pull = "none"
  /\ provider = [has |-> {1}, health |-> "Healthy"]
  /\ refs = TRUE
  /\ late = FALSE
  /\ budget = MaxDisruptions

Disrupt(kind) ==
  /\ kind \in Disruptions
  /\ budget > 0
  /\ budget' = budget - 1

Terminal(phase) == phase \in DonePhases \cup FailedPhases

\* UpdateStatusWithRetry with a current object: status only.  A write that
\* leaves the modelled fields alone may be a no-op in the API server.
WriteStatus(copy) ==
  /\ rel' = [copy EXCEPT !.approval = rel.approval, !.checkpoint = rel.checkpoint]
  /\ \/ current' = FALSE
     \/ rel' = rel /\ UNCHANGED current

(***************************************************************************)
(* The controller's reconcile.                                             *)
(***************************************************************************)

Then(step, copy, next) ==
  ctl' = [step |-> step, copy |-> copy, next |-> next, commit |-> ctl.commit]

Requeue == ctl' = Idle /\ dirty' = TRUE

At(copy, phase) == [copy EXCEPT !.phase = phase]

ByPullRequest(copy) == copy.mode = "pull-request"

\* Mutant of Fail: the phase of a failed BuildRun.
FailAsBuildRun(copy, phase) == Then("persist", At(copy, "Failed"), "notify")

\* markFailed and markPolicyDenied: store the phase, then notify.
Fail(copy, phase) == Then("persist", At(copy, phase), "notify")

\* commit is status.gitCommit or, if that is empty, the checkpoint.
WithCommit(copy) ==
  [copy EXCEPT !.commit = IF @ = 0 THEN copy.checkpoint ELSE @]

\* markPreparingGitOpsChange, unless the phase says it was done.
Prepare(copy) ==
  IF copy.phase = "PreparingGitOpsChange" THEN Then("clone", copy, "idle")
  ELSE Then("persist", [copy EXCEPT !.phase = "PreparingGitOpsChange", !.started = TRUE],
            "clone")

\* markGitOpsChangeCommitted, after the pull request exists where one is needed.
Committed(copy) ==
  IF ByPullRequest(copy) /\ ~copy.pr THEN Then("open", copy, "commit")
  ELSE Then("persist", At(copy, "GitOpsChangeCommitted"), "requeue")

\* markWaitingForSync, unless the phase says it was done.
AwaitSync(copy) ==
  IF copy.phase = "WaitingForSync" THEN Then("deploy", copy, "idle")
  ELSE Then("persist", At(copy, "WaitingForSync"), "deploy")

\* The part of reconcile that follows the checks, by commit and phase.
Promote(copy) ==
  IF copy.commit = 0 THEN Prepare(copy)
  ELSE IF copy.phase \in {"Unset", "PreparingGitOpsChange"} THEN Committed(copy)
  ELSE IF ~ByPullRequest(copy) THEN AwaitSync(copy)
  ELSE IF copy.pr THEN Then("read", copy, "idle")
  ELSE Then("open", copy, "read")

\* Mutant of NeedsApproval: the approval is not asked for.
NeedsNoApproval(copy) == FALSE

NeedsApproval(copy) == ApprovalRequired /\ copy.approval # "approved"

\* markAwaitingApproval, unless the phase says it was done.
AwaitApproval(copy) ==
  IF copy.phase = "AwaitingApproval" THEN ctl' = Idle
  ELSE Then("persist", At(copy, "AwaitingApproval"), "notify")

\* Mutant of Rejected: a rejection is left to the API.
RejectedIgnored(copy) == FALSE

Rejected(copy) == copy.approval = "rejected"

\* The worker takes the key: Get from the cache, then the checks in order.
Begin ==
  /\ ctl.step = "idle"
  /\ dirty
  /\ dirty' = FALSE
  /\ IF Terminal(informer.phase) THEN ctl' = Idle
     ELSE IF Rejected(informer) THEN Fail(informer, "FailedApproval")
     ELSE IF ~refs THEN Fail(informer, "FailedValidation")
     ELSE IF NeedsApproval(informer)
       THEN AwaitApproval(informer)
     ELSE IF informer.started /\ late THEN Fail(informer, "TimedOut")
     ELSE Promote(WithCommit(informer))
  /\ UNCHANGED <<rel, informer, current, rejecting, gitVars, pull, provider,
                 refs, late, budget>>

\* EvaluateRelease denies the Release, once it needs no approval any more.
PolicyDenied ==
  /\ ctl.step = "idle"
  /\ dirty
  /\ ~Terminal(informer.phase)
  /\ ~Rejected(informer)
  /\ refs
  /\ ~NeedsApproval(informer)
  /\ Disrupt("policy")
  /\ dirty' = FALSE
  /\ Fail(informer, "FailedValidation")
  /\ UNCHANGED <<rel, informer, current, rejecting, gitVars, pull, provider,
                 refs, late>>

\* Mutant of Continue: RequeueAfter is forgotten.
ContinueOnce ==
  /\ IF ctl.next \in {"notify", "clone", "deploy"} THEN Then(ctl.next, ctl.copy, "idle")
     ELSE ctl' = Idle
  /\ UNCHANGED dirty

\* What follows a status write that went through.
Continue ==
  CASE ctl.next \in {"notify", "clone", "deploy"} ->
         Then(ctl.next, ctl.copy, "idle") /\ UNCHANGED dirty
    [] OTHER -> Requeue

\* updateReleaseStatus: every attempt of the retry reads the cache.
Persist ==
  /\ ctl.step = "persist"
  /\ \/ current /\ WriteStatus(ctl.copy) /\ Continue
     \/ ~current /\ Requeue /\ UNCHANGED <<rel, current>>
  /\ UNCHANGED <<informer, rejecting, gitVars, pull, provider, refs, late, budget>>

\* KubernetesDispatcher.Notify: the Project or its Secret cannot be read, names
\* no endpoint or an unknown provider, or the endpoint fails.
DeliveryFails == Disrupt("notify")

\* notifyRelease: a delivery that fails stores the copy once more, errors of
\* that write ignored.
Notify ==
  /\ ctl.step = "notify"
  /\ ctl' = Idle
  /\ \/ UNCHANGED <<rel, current, budget>>
     \/ DeliveryFails /\ current /\ WriteStatus(ctl.copy)
  /\ UNCHANGED <<informer, dirty, rejecting, gitVars, pull, provider, refs, late>>

(***************************************************************************)
(* UpdateImage and the checkpoint.                                         *)
(***************************************************************************)

GotCommit(step, commit) ==
  ctl' = [step |-> step, copy |-> ctl.copy, next |-> "idle", commit |-> commit]

\* The phase for the operation of Git that failed.
gitFailure(operation) ==
  CASE operation = "clone" -> "FailedGitClone"
    [] operation = "push"  -> "FailedGitPush"
    [] OTHER               -> "FailedGitCommit"

\* updateImageFilesConfigured reports whether it changed a file.
ImageDiffers == tip \notin carrying

\* Clone and check out the deployment branch; without a change its head is the
\* answer and nothing is pushed.
Clone ==
  /\ ctl.step = "clone"
  /\ \/ /\ ImageDiffers
        /\ GotCommit("push", tip)
        /\ UNCHANGED budget
     \/ /\ ~ImageDiffers
        /\ GotCommit("checkpoint", tip)
        /\ UNCHANGED budget
     \/ /\ Disrupt("git")
        /\ \E operation \in {"clone", "parse", "update", "commit"} :
             Fail(ctl.copy, gitFailure(operation))
  /\ UNCHANGED <<rel, informer, current, dirty, rejecting, gitVars, pull,
                 provider, refs, late>>

\* The remote takes a commit made on top of its head, or of a branch it lacks.
\* A promotion branch starts at the deployment branch, which holds the older
\* promotion branch if that was merged before the clone.
FastForward ==
  IF ByPullRequest(ctl.copy) THEN branch = 0 \/ (branch \in target /\ branch <= ctl.commit)
  ELSE ctl.commit = tip

PushCommit ==
  /\ commits' = commits + 1
  /\ carrying' = carrying \cup {commits + 1}
  /\ ours' = ours \cup {commits + 1}
  /\ IF ByPullRequest(ctl.copy)
     THEN branch' = commits + 1 /\ UNCHANGED <<target, tip>>
     ELSE target' = target \cup {commits + 1} /\ tip' = commits + 1 /\ UNCHANGED branch

\* Mutant of Push: a refused push is not noticed.
PushUnchecked ==
  /\ ctl.step = "push"
  /\ GotCommit("checkpoint", commits + 1)
  /\ PushCommit \/ UNCHANGED gitVars
  /\ UNCHANGED <<rel, informer, current, dirty, rejecting, pull, provider, refs,
                 late, budget>>

\* git push without force.  Its answer may be lost after the remote took it.
Push ==
  /\ ctl.step = "push"
  /\ \/ FastForward /\ PushCommit /\ GotCommit("checkpoint", commits + 1) /\ UNCHANGED budget
     \/ ~FastForward /\ Fail(ctl.copy, gitFailure("push")) /\ UNCHANGED <<gitVars, budget>>
     \/ /\ Disrupt("git")
        /\ Fail(ctl.copy, gitFailure("push"))
        /\ UNCHANGED gitVars \/ (FastForward /\ PushCommit)
  /\ UNCHANGED <<rel, informer, current, dirty, rejecting, pull, provider, refs, late>>

Checkpointed(copy) == [copy EXCEPT !.checkpoint = ctl.commit, !.commit = ctl.commit]

\* Mutant of KeepsCheckpoint: the last commit wins.
ReplacesCheckpoint == FALSE

\* A checkpoint in the cached object is never replaced.
KeepsCheckpoint == informer.checkpoint # 0

\* persistGitCommitCheckpoint: another commit's checkpoint is an error.
Checkpoint ==
  /\ ctl.step = "checkpoint"
  /\ \/ /\ KeepsCheckpoint
        /\ IF informer.checkpoint = ctl.commit
           THEN Committed(Checkpointed(ctl.copy)) /\ UNCHANGED dirty
           ELSE Requeue
        /\ UNCHANGED <<rel, current>>
     \/ /\ ~KeepsCheckpoint
        /\ current
        /\ rel' = [rel EXCEPT !.checkpoint = ctl.commit]
        /\ current' = FALSE
        /\ Committed(Checkpointed(ctl.copy))
        /\ UNCHANGED dirty
     \/ /\ ~KeepsCheckpoint
        /\ ~current
        /\ Requeue
        /\ UNCHANGED <<rel, current>>
  /\ UNCHANGED <<informer, rejecting, gitVars, pull, provider, refs, late, budget>>

(***************************************************************************)
(* Pull requests.                                                          *)
(***************************************************************************)

\* PullRequestProviderForRepository: the providers of GitHub and GitLab ask their
\* API client, others and those without a client fail.  The client refuses a
\* request without a promotion branch.
PullRequestAccepted == PullRequestAPI /\ branch # 0

\* ensurePullRequest calls the provider and records the reference.
OpenPullRequest ==
  /\ ctl.step = "open"
  /\ \/ /\ PullRequestAccepted
        /\ pull' = IF pull \in {"none", "closed"} THEN "open" ELSE pull
        /\ Then("persistPull", [ctl.copy EXCEPT !.pr = TRUE], ctl.next)
        /\ UNCHANGED budget
     \/ /\ ~PullRequestAccepted
        /\ Fail(ctl.copy, "FailedProviderStatus")
        /\ UNCHANGED <<pull, budget>>
     \/ /\ Disrupt("pull")
        /\ Fail(ctl.copy, "FailedProviderStatus")
        /\ UNCHANGED pull
  /\ UNCHANGED <<rel, informer, current, dirty, rejecting, gitVars, provider,
                 refs, late>>

\* Mutant of PullReady: every pull request is ready.
PullAlwaysReady == "merged"

\* What syncPullRequestStatus reads; "none" is never read with a reference.
PullReady == pull

ReadPullRequest ==
  /\ ctl.step = "read"
  /\ \/ /\ Then("persistPull", ctl.copy, PullReady)
        /\ UNCHANGED budget
     \/ /\ Disrupt("pull")
        /\ Fail(ctl.copy, "FailedProviderStatus")
  /\ UNCHANGED <<rel, informer, current, dirty, rejecting, gitVars, pull,
                 provider, refs, late>>

AfterPull ==
  CASE ctl.next = "commit" -> Committed(ctl.copy) /\ UNCHANGED dirty
    [] ctl.next = "read"   -> Then("read", ctl.copy, "idle") /\ UNCHANGED dirty
    [] ctl.next = "merged" -> AwaitSync(ctl.copy) /\ UNCHANGED dirty
    [] ctl.next = "closed" -> Fail(ctl.copy, "FailedApproval") /\ UNCHANGED dirty
    [] OTHER               -> Requeue

\* The status write of both: its error counts as an error of the provider.
PersistPull ==
  /\ ctl.step = "persistPull"
  /\ \/ current /\ WriteStatus(ctl.copy) /\ AfterPull
     \/ ~current /\ Fail(ctl.copy, "FailedProviderStatus") /\ UNCHANGED <<rel, current, dirty>>
  /\ UNCHANGED <<informer, rejecting, gitVars, pull, provider, refs, late, budget>>

(***************************************************************************)
(* The deployment.                                                         *)
(***************************************************************************)

\* markDeployed
Deployed(copy) ==
  Then("persist", At(copy, IF RollbackOf THEN "RolledBack" ELSE "Deployed"), "notify")

\* ReadDeploymentStatus without a status: a CRD or a resource that is missing is
\* looked at again, another error is final.
StatusUnavailable ==
  \/ Then("persist", ctl.copy, "requeue")
  \/ Fail(ctl.copy, "FailedProviderStatus")

\* syncProviderStatus.  Synced and Healthy is enough, whatever the revision.
ReadDeployment ==
  /\ ctl.step = "deploy"
  /\ \/ /\ Generic \/ provider.health = "Healthy"
        /\ Deployed(ctl.copy)
        /\ UNCHANGED budget
     \/ /\ ~Generic
        /\ provider.health = "Degraded"
        /\ FailOnDegraded
        /\ Fail(ctl.copy, "FailedProviderStatus")
        /\ UNCHANGED budget
     \/ /\ ~Generic
        /\ provider.health # "Healthy"
        /\ ~(provider.health = "Degraded" /\ FailOnDegraded)
        /\ Then("persist", ctl.copy, "requeue")
        /\ UNCHANGED budget
     \/ /\ ~Generic
        /\ Disrupt("provider")
        /\ StatusUnavailable
  /\ UNCHANGED <<rel, informer, current, dirty, rejecting, gitVars, pull,
                 provider, refs, late>>

ControllerRestart ==
  /\ Disrupt("restart")
  /\ ctl' = Idle
  /\ dirty' = TRUE
  /\ informer' = rel
  /\ current' = TRUE
  /\ UNCHANGED <<rel, rejecting, gitVars, pull, provider, refs, late>>

SyncRelease ==
  /\ ~current
  /\ informer' = rel
  /\ current' = TRUE
  /\ dirty' = TRUE
  /\ UNCHANGED <<rel, ctl, rejecting, gitVars, pull, provider, refs, late, budget>>

(***************************************************************************)
(* The API's approve and reject handlers.                                  *)
(***************************************************************************)

\* Mutant of Decidable: a promotion that has started is not noticed.
DecidableAnytime == rel.approval # "rejected" /\ rel.phase \notin FailedPhases

\* Neither releasePromotionStarted nor rejected nor releasePhaseFailed.
Decidable ==
  /\ rel.phase \notin StartedPhases
  /\ rel.approval # "rejected"
  /\ rel.phase \notin FailedPhases

\* A second approval, which renews the time stamp only, is left out.
Approve ==
  /\ ApprovalRequired
  /\ Decidable
  /\ rel.approval = "none"
  /\ rel' = [rel EXCEPT !.approval = "approved"]
  /\ current' = FALSE
  /\ UNCHANGED <<informer, ctl, dirty, rejecting, gitVars, pull, provider, refs,
                 late, budget>>

\* rejectRelease stores the rejection in the spec first ...
Reject ==
  /\ ApprovalRequired
  /\ Decidable
  /\ rel' = [rel EXCEPT !.approval = "rejected"]
  /\ current' = FALSE
  /\ rejecting' = {At(rel', "FailedApproval")}
  /\ UNCHANGED <<informer, ctl, dirty, gitVars, pull, provider, refs, late, budget>>

\* ... and then its copy of the status, unless the request dies in between.
RejectStatus ==
  /\ \E copy \in rejecting :
       WriteStatus(copy) \/ UNCHANGED <<rel, current>>
  /\ rejecting' = {}
  /\ UNCHANGED <<informer, ctl, dirty, gitVars, pull, provider, refs, late, budget>>

(***************************************************************************)
(* The repository, the pull request, the GitOps provider and the clock.    *)
(***************************************************************************)

\* Another Release or a user pushes, with or without this Release's image.
OtherPush ==
  /\ Disrupt("push")
  /\ Cardinality((1 .. commits) \ ours) <= MaxOtherPushes
  /\ commits' = commits + 1
  /\ tip' = commits + 1
  /\ target' = target \cup {commits + 1}
  /\ \/ carrying' = carrying
     \/ tip \in carrying /\ carrying' = carrying \cup {commits + 1}
  /\ UNCHANGED <<rel, informer, current, ctl, dirty, rejecting, ours, branch,
                 pull, provider, refs, late>>

ReviewPullRequest ==
  /\ pull = "open"
  /\ \/ pull' = "merged" /\ target' = target \cup {branch} /\ tip' = branch
     \/ pull' = "closed" /\ UNCHANGED <<target, tip>>
  /\ UNCHANGED <<rel, informer, current, ctl, dirty, rejecting, commits,
                 carrying, ours, branch, provider, refs, late, budget>>

\* The provider polls: it notices a new head, applies it, reports its health.
ProviderSync ==
  /\ \/ provider.has # target /\ provider' = [provider EXCEPT !.health = "OutOfSync"]
     \/ provider.has # target /\ provider' = [has |-> target, health |-> "Progressing"]
     \/ /\ provider.health # "OutOfSync"
        /\ \E health \in {"Healthy", "Degraded"} : provider' = [provider EXCEPT !.health = health]
  /\ UNCHANGED <<rel, informer, current, ctl, dirty, rejecting, gitVars, pull,
                 refs, late, budget>>

TimeoutElapses ==
  /\ rel.started
  /\ ~late
  /\ late' = TRUE
  /\ UNCHANGED <<rel, informer, current, ctl, dirty, rejecting, gitVars, pull,
                 provider, refs, budget>>

ReferencesDeleted ==
  /\ refs
  /\ Disrupt("references")
  /\ refs' = FALSE
  /\ UNCHANGED <<rel, informer, current, ctl, dirty, rejecting, gitVars, pull,
                 provider, late>>

(***************************************************************************)
(* The specification.                                                      *)
(***************************************************************************)

Reconcile ==
  \/ Begin \/ PolicyDenied \/ Persist \/ Notify \/ Clone \/ Push \/ Checkpoint
  \/ OpenPullRequest \/ ReadPullRequest \/ PersistPull \/ ReadDeployment

Next ==
  \/ Reconcile \/ ControllerRestart \/ SyncRelease
  \/ Approve \/ Reject \/ RejectStatus
  \/ OtherPush \/ ReviewPullRequest \/ ProviderSync
  \/ TimeoutElapses \/ ReferencesDeleted

Spec == Init /\ [][Next]_vars

\* The worker, the watch and the clock go on; people and providers need not.
Fairness ==
  /\ WF_vars(Reconcile)
  /\ WF_vars(SyncRelease)
  /\ WF_vars(TimeoutElapses)

FairSpec == Spec /\ Fairness

(***************************************************************************)
(* What the controller and the API guarantee together.                     *)
(***************************************************************************)

\* The controller pushes for a Release that needs approval only after someone
\* approved it, however stale its cache is.
PushOnlyAfterApproval ==
  ApprovalRequired /\ ours # {} => rel.approval # "none"

\* A rejection that the API accepted wins over a promotion in flight: the
\* Release may have pushed, but it is never reported Deployed or RolledBack.
RejectedNeverDeployed == rel.approval = "rejected" => rel.phase \notin DonePhases

\* status.gitCommit and the checkpoint agree, and name a pushed commit that
\* holds the image; no phase past the commit lacks it.
CommitIsCheckpointed ==
  /\ rel.commit # 0 => rel.commit = rel.checkpoint
  /\ rel.checkpoint # 0 => rel.checkpoint \in carrying
  /\ rel.phase \in StartedPhases \ {"PreparingGitOpsChange"} => rel.commit # 0

\* persistGitCommitCheckpoint refuses to replace a checkpoint.
CheckpointIsFinal == [][rel.checkpoint # 0 => rel'.checkpoint = rel.checkpoint]_vars

\* In pull-request mode nothing is waited for or deployed before the merge.
SyncOnlyAfterMerge ==
  ByPullRequest(rel) /\ rel.phase \in {"WaitingForSync"} \cup DonePhases => pull = "merged"

\* What the phase of a Release promises is in Git: the commit, the checkpoint and,
\* with a pull request, the merge, however stale the copy a reconcile worked on.
ProgressIsBacked == CommitIsCheckpointed /\ SyncOnlyAfterMerge

\* The deployment timeout and the requeues bring every Release to an end, or
\* leave it to the approver.
EventuallySettles ==
  <>[](Terminal(rel.phase) \/ (rel.phase = "AwaitingApproval" /\ rel.approval = "none"))

\* A rejected Release ends in a failed phase and stays there.
RejectionPrevails == rel.approval = "rejected" ~> [](rel.phase \in FailedPhases)
=============================================================================
