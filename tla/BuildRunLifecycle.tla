------------------------- MODULE BuildRunLifecycle -------------------------
(***************************************************************************)
(* One BuildRun and everything that writes its status concurrently:        *)
(*                                                                         *)
(*   - the BuildRun controller (internal/controller/buildrun_controller.go)*)
(*     which reads the object from an informer cache, acts, and writes the *)
(*     status back from its in-memory copy;                                *)
(*   - the runner pods (internal/runner/runner.go), one per Job created,   *)
(*     which read the BuildRun once and then overwrite the whole status    *)
(*     after every stage;                                                  *)
(*   - the API's cancel handler (internal/api/build_actions.go), which     *)
(*     deletes the Job and then writes Cancelled under optimistic locking; *)
(*   - Kubernetes: the Job controller, garbage collection of pods, the two *)
(*     informers, and a user who deletes Jobs, Releases and references.    *)
(*                                                                         *)
(* kube.UpdateStatusWithRetry replaces the stored status by the caller's   *)
(* copy whatever was stored meanwhile; Status().Update succeeds only while *)
(* the caller's resourceVersion is the stored one.  Resource versions are  *)
(* abstracted to the set fresh of the holders of a copy that carries the   *)
(* current version.                                                        *)
(***************************************************************************)
EXTENDS Naturals, FiniteSets, BuildRunStatus

CONSTANTS
  MaxDisruptions,  \* bound on the number of disruptive events of a behaviour
  Disruptions,     \* the kinds of disruptive event that may happen
  GitOpsEnabled,   \* spec.gitOps.enabled
  BuildEnabled,    \* template.spec.build.enabled
  ImagePrefixed    \* the registry resolves the image to another repository

DisruptionKinds ==
  {"references", "tag", "policy", "quota", "executor", "notify",
   "cancel", "job", "release", "restart"}

ASSUME ConstantsAssumption ==
  /\ MaxDisruptions \in Nat
  /\ Disruptions \subseteq DisruptionKinds
  /\ GitOpsEnabled \in BOOLEAN
  /\ BuildEnabled \in BOOLEAN
  /\ ImagePrefixed \in BOOLEAN

VARIABLES
  run,        \* the BuildRun status stored in the API server
  fresh,      \* who is about to use a copy with the stored resourceVersion
  informer,   \* the controller's cached copy of the status
  job,        \* the runner Job in the API server
  jobCache,   \* the controller's cached copy of the Job
  created,    \* number of Jobs created so far
  pods,       \* the runner pod of each Job: its stage and its copy of run
  ctl,        \* the reconcile in progress: step, copy, what follows a write
  dirty,      \* the BuildRun's key is in the controller's work queue
  cancel,     \* the step of the cancel request in progress
  release,    \* the image of the Release made for the BuildRun, or "none"
  refs,       \* Project, Repository and PipelineTemplate exist
  completed,  \* history: Jobs whose runner ran the whole pipeline
  deleted,    \* history: Jobs that were deleted
  budget      \* disruptive events still allowed

vars == <<run, fresh, informer, job, jobCache, created, pods, ctl, dirty,
          cancel, release, refs, completed, deleted, budget>>

Holders == {"informer", "ctl", "cancel"}

\* Every deletion of a Job is a disruption, and only a deleted Job is replaced.
JobIds == 1 .. (MaxDisruptions + 1)

JobStates == {"absent", "pending", "active", "succeeded", "failed"}
NoJob == [id |-> 0, state |-> "absent"]
Jobs == [id : 0 .. (MaxDisruptions + 1), state : JobStates]

LiveStages == {"scheduled", "loaded", "started", "built"}
Stages == LiveStages \cup {"none", "exited0", "exited1", "killed"}

Pods == [JobIds -> [stage : Stages, copy : Statuses]]

Ctls == [step : {"idle", "tag", "decide", "read", "persist", "notify", "release"},
         copy : Statuses, next : {"idle", "notify", "requeue"}]
Idle == [step |-> "idle", copy |-> NewStatus, next |-> "idle"]

CancelSteps == {"idle", "delete", "write"}

\* The types of the variables.
TypeOK ==
  /\ run \in Statuses
  /\ fresh \subseteq Holders
  /\ informer \in Statuses
  /\ job \in Jobs
  /\ jobCache \in Jobs
  /\ created \in 0 .. (MaxDisruptions + 1)
  /\ pods \in Pods
  /\ ctl \in Ctls
  /\ dirty \in BOOLEAN
  /\ cancel \in CancelSteps
  /\ release \in Images
  /\ refs \in BOOLEAN
  /\ completed \subseteq JobIds
  /\ deleted \subseteq JobIds
  /\ budget \in 0 .. MaxDisruptions

Init ==
  /\ run = NewStatus
  /\ fresh = {"informer"}
  /\ informer = NewStatus
  /\ job = NoJob
  /\ jobCache = NoJob
  /\ created = 0
  /\ pods = [i \in JobIds |-> [stage |-> "none", copy |-> NewStatus]]
  /\ ctl = Idle
  /\ dirty = TRUE
  /\ cancel = "idle"
  /\ release = "none"
  /\ refs = TRUE
  /\ completed = {}
  /\ deleted = {}
  /\ budget = MaxDisruptions

Disrupt(kind) ==
  /\ kind \in Disruptions
  /\ budget > 0
  /\ budget' = budget - 1

(***************************************************************************)
(* Writes of the status.  A write that leaves the modelled fields alone    *)
(* may still change a timestamp or a condition, and with it the version.   *)
(***************************************************************************)

\* kube.UpdateStatusWithRetry, once its retries have found a current object.
Overwrite(status) ==
  /\ run' = status
  /\ \/ fresh' = {}
     \/ status = run /\ fresh' = fresh

\* Mutant of UpdateAs: the resourceVersion is not checked.
UpdateUnchecked(holder, status) == run' = status /\ fresh' = {}

\* client.Status().Update by a holder whose resourceVersion is current.
UpdateAs(holder, status) == holder \in fresh /\ run' = status /\ fresh' = {}

(***************************************************************************)
(* The controller's reconcile.                                             *)
(***************************************************************************)

Then(step, copy, next) == ctl' = [step |-> step, copy |-> copy, next |-> next]

\* Reconcile returned an error or RequeueAfter: the key is queued again.
Requeue == ctl' = Idle /\ dirty' = TRUE

\* Mutant of Failed: a phase no other component knows.
FailedAsError(status) == WithPhase(status, "Error")

Failed(status) == WithPhase(status, "Failed")

\* ensureImageTag compares status.image with the repository of the spec.
NeedsImageTag(status) ==
  status.image = "none" \/ (ImagePrefixed /\ status.image = "pushed")

WithImageTag(status) ==
  [status EXCEPT !.image = IF @ = "none" THEN "tag" ELSE "respec"]

\* The worker takes the key: Get from the cache, then loadReferences.
\* markReferenceError fails the BuildRun whatever its phase.
Begin ==
  /\ ctl.step = "idle"
  /\ dirty
  /\ dirty' = FALSE
  /\ IF ~refs THEN Then("persist", Failed(informer), "idle")
     ELSE IF NeedsImageTag(informer) THEN Then("tag", informer, "idle")
     ELSE Then("decide", informer, "idle")
  /\ fresh' = IF "informer" \in fresh /\ refs /\ NeedsImageTag(informer)
              THEN fresh \cup {"ctl"} ELSE fresh
  /\ UNCHANGED <<run, informer, job, jobCache, created, pods, cancel, release,
                 refs, completed, deleted, budget>>

\* ensureImageTag writes the resolved image, or fails on a conflict.
EnsureImageTag ==
  /\ ctl.step = "tag"
  /\ \/ /\ UpdateAs("ctl", WithImageTag(ctl.copy))
        /\ Then("decide", WithImageTag(ctl.copy), "idle")
        /\ UNCHANGED dirty
     \/ /\ "ctl" \notin fresh
        /\ Requeue
        /\ UNCHANGED <<run, fresh>>
  /\ UNCHANGED <<informer, job, jobCache, created, pods, cancel, release, refs,
                 completed, deleted, budget>>

\* The tag template of the Project does not resolve: markImageTagError.
ImageTagError ==
  /\ ctl.step = "idle"
  /\ dirty
  /\ refs
  /\ Disrupt("tag")
  /\ IF ValidTransition(informer.phase, "Failed")
     THEN Then("persist", Failed(informer), "idle") /\ dirty' = FALSE
     ELSE Requeue
  /\ UNCHANGED <<run, fresh, informer, job, jobCache, created, pods, cancel,
                 release, refs, completed, deleted>>

\* Mutant of ReleaseIfSucceeded: any outcome is released.
ReleaseAnyOutcome == Then("release", ctl.copy, "idle")

ReleaseIfSucceeded ==
  IF ctl.copy.phase = "Succeeded" THEN Then("release", ctl.copy, "idle") ELSE ctl' = Idle

\* Mutant of ReconcileTerminal: a terminal BuildRun is left alone.
TerminalLeftAlone ==
  /\ ctl.step = "decide"
  /\ IsTerminal(ctl.copy.phase)
  /\ ctl' = Idle
  /\ UNCHANGED <<run, fresh, informer, job, jobCache, created, pods, dirty,
                 cancel, release, refs, completed, deleted, budget>>

\* A terminal BuildRun gets no Job; a successful one has its Release ensured.
ReconcileTerminal ==
  /\ ctl.step = "decide"
  /\ IsTerminal(ctl.copy.phase)
  /\ ReleaseIfSucceeded
  /\ UNCHANGED <<run, fresh, informer, job, jobCache, created, pods, dirty,
                 cancel, release, refs, completed, deleted, budget>>

\* markPolicyDenied: the policy rejects the Project, Repository or template.
PolicyDenied ==
  /\ ctl.step = "decide"
  /\ ~IsTerminal(ctl.copy.phase)
  /\ Disrupt("policy")
  /\ Then("persist", Failed(ctl.copy), "notify")
  /\ UNCHANGED <<run, fresh, informer, job, jobCache, created, pods, dirty,
                 cancel, release, refs, completed, deleted>>

\* evaluateProjectQuota finds no slot: markQuotaExceeded, or markQuotaQueued
\* with a timed requeue.  A BuildRun with a JobRef is not subject to the quota.
QuotaReached ==
  /\ ctl.step = "decide"
  /\ ~IsTerminal(ctl.copy.phase)
  /\ ~ctl.copy.jobRef
  /\ Disrupt("quota")
  /\ \/ Then("persist", Failed(ctl.copy), "idle")
     \/ Then("persist", WithPhase(ctl.copy, "Queued"), "requeue")
  /\ UNCHANGED <<run, fresh, informer, job, jobCache, created, pods, dirty,
                 cancel, release, refs, completed, deleted>>

\* executorFor or the checks of EnsureRun fail: markExecutorError.
ExecutorError ==
  /\ ctl.step = "decide"
  /\ ~IsTerminal(ctl.copy.phase)
  /\ Disrupt("executor")
  /\ Then("persist", Failed(ctl.copy), "notify")
  /\ UNCHANGED <<run, fresh, informer, job, jobCache, created, pods, dirty,
                 cancel, release, refs, completed, deleted>>

\* Mutant of JobMissing: the API server does not refuse a second Job, as with
\* names that are not derived from the BuildRun.
JobNotCached == jobCache = NoJob

\* The cache holds no Job, and the API server does not answer AlreadyExists.
JobMissing == jobCache = NoJob /\ job = NoJob

\* EnsureRun creates the Job unless it exists.  A BuildRun that had no phase is then marked Queued.
EnsureRun ==
  /\ ctl.step = "decide"
  /\ ~IsTerminal(ctl.copy.phase)
  /\ IF JobMissing
     THEN /\ created' = created + 1
          /\ job' = [id |-> created + 1, state |-> "pending"]
     ELSE UNCHANGED <<created, job>>
  /\ IF ctl.copy.phase \in {"Unset", "Pending"}
     THEN Then("persist", WithJob(ctl.copy, "Queued"), "idle")
     ELSE Then("read", ctl.copy, "idle")
  /\ UNCHANGED <<run, fresh, informer, jobCache, pods, dirty, cancel, release,
                 refs, completed, deleted, budget>>

\* Mutant of RunPhase: a Job that has started counts as done.
RunPhaseEager(state) ==
  IF state \in {"active", "succeeded"} THEN "Succeeded" ELSE "Failed"

RunPhase(state) ==
  CASE state = "succeeded" -> "Succeeded"
    [] state = "failed"    -> "Failed"
    [] OTHER               -> "Running"

\* ReadRunStatus reads the Job from the cache and syncStatusFromRun derives
\* the phase.  A Job the cache does not hold yet is an executor error; a Job
\* without a pod changes nothing.
ReadRunStatus ==
  /\ ctl.step = "read"
  /\ LET phase == RunPhase(jobCache.state)
     IN  \/ /\ jobCache.state = "absent"
            /\ Then("persist", Failed(ctl.copy), "notify")
         \/ /\ jobCache.state = "pending"
            /\ ctl' = Idle
         \/ /\ jobCache.state \in {"active", "succeeded", "failed"}
            /\ Then("persist", WithJob(ctl.copy, phase),
                    IF phase = ctl.copy.phase THEN "idle" ELSE "notify")
  /\ UNCHANGED <<run, fresh, informer, job, jobCache, created, pods, dirty,
                 cancel, release, refs, completed, deleted, budget>>

\* updateBuildRunStatus: every attempt of the retry reads the cache, so it
\* goes through only when the cache has caught up with the stored object.
Persist ==
  /\ ctl.step = "persist"
  /\ \/ /\ "informer" \in fresh
        /\ Overwrite(ctl.copy)
        /\ IF ctl.next = "notify" THEN Then("notify", ctl.copy, "idle") ELSE ctl' = Idle
        /\ dirty' = (dirty \/ ctl.next = "requeue")
     \/ /\ "informer" \notin fresh
        /\ Requeue
        /\ UNCHANGED <<run, fresh>>
  /\ UNCHANGED <<informer, job, jobCache, created, pods, cancel, release, refs,
                 completed, deleted, budget>>

\* notifyBuildRun: a delivery that fails stores the copy once more, errors of
\* that write ignored.
Notify ==
  /\ ctl.step = "notify"
  /\ ReleaseIfSucceeded
  /\ \/ UNCHANGED <<run, fresh, budget>>
     \/ Disrupt("notify") /\ "informer" \in fresh /\ Overwrite(ctl.copy)
  /\ UNCHANGED <<informer, job, jobCache, created, pods, dirty, cancel,
                 release, refs, completed, deleted>>

\* ensureRelease: get or create the Release; its creation is an event.
EnsureRelease ==
  /\ ctl.step = "release"
  /\ ctl' = Idle
  /\ IF GitOpsEnabled /\ release = "none"
     THEN release' = ctl.copy.image /\ dirty' = TRUE
     ELSE UNCHANGED <<release, dirty>>
  /\ UNCHANGED <<run, fresh, informer, job, jobCache, created, pods, cancel,
                 refs, completed, deleted, budget>>

\* The controller process restarts: the reconcile is lost, the caches are
\* listed again and every key is queued.
ControllerRestart ==
  /\ Disrupt("restart")
  /\ ctl' = Idle
  /\ dirty' = TRUE
  /\ informer' = run
  /\ fresh' = (fresh \ {"ctl"}) \cup {"informer"}
  /\ jobCache' = job
  /\ UNCHANGED <<run, job, created, pods, cancel, release, refs, completed,
                 deleted>>

(***************************************************************************)
(* The informers: each cached copy catches up and queues the key.          *)
(***************************************************************************)

SyncBuildRun ==
  /\ "informer" \notin fresh
  /\ informer' = run
  /\ fresh' = fresh \cup {"informer"}
  /\ dirty' = TRUE
  /\ UNCHANGED <<run, job, jobCache, created, pods, ctl, cancel, release, refs,
                 completed, deleted, budget>>

\* Mutant of SyncJob: the controller does not watch the Jobs it owns.
JobNotWatched ==
  /\ jobCache # job
  /\ jobCache' = job
  /\ UNCHANGED <<run, fresh, informer, job, created, pods, ctl, dirty, cancel,
                 release, refs, completed, deleted, budget>>

SyncJob ==
  /\ jobCache # job
  /\ jobCache' = job
  /\ dirty' = TRUE
  /\ UNCHANGED <<run, fresh, informer, job, created, pods, ctl, cancel,
                 release, refs, completed, deleted, budget>>

(***************************************************************************)
(* The Job controller and the runner pods.                                 *)
(***************************************************************************)

SetPod(i, stage, copy) == pods' = [pods EXCEPT ![i] = [stage |-> stage, copy |-> copy]]

\* The Job controller creates the pod of a new Job.
JobStart ==
  /\ job.state = "pending"
  /\ job' = [job EXCEPT !.state = "active"]
  /\ SetPod(job.id, "scheduled", NewStatus)
  /\ UNCHANGED <<run, fresh, informer, jobCache, created, ctl, dirty, cancel,
                 release, refs, completed, deleted, budget>>

\* backoffLimit is 0 and restartPolicy Never: one pod decides the Job.
JobFinish ==
  /\ job.state = "active"
  /\ \/ pods[job.id].stage = "exited0" /\ job' = [job EXCEPT !.state = "succeeded"]
     \/ pods[job.id].stage = "exited1" /\ job' = [job EXCEPT !.state = "failed"]
  /\ UNCHANGED <<run, fresh, informer, jobCache, created, pods, ctl, dirty,
                 cancel, release, refs, completed, deleted, budget>>

\* Run reads the BuildRun: the copy all its later writes are made of.
RunnerLoad(i) ==
  /\ pods[i].stage = "scheduled"
  /\ SetPod(i, "loaded", run)
  /\ UNCHANGED <<run, fresh, informer, job, jobCache, created, ctl, dirty,
                 cancel, release, refs, completed, deleted, budget>>

\* MarkBuildRunStarted checks the copy; a terminal copy ends the runner.
RunnerStart(i) ==
  /\ pods[i].stage = "loaded"
  /\ LET status == WithPhase(pods[i].copy, "Running")
     IN  IF ValidTransition(pods[i].copy.phase, "Running")
         THEN Overwrite(status) /\ SetPod(i, "started", status)
         ELSE SetPod(i, "exited1", NewStatus) /\ UNCHANGED <<run, fresh>>
  /\ UNCHANGED <<informer, job, jobCache, created, ctl, dirty, cancel, release,
                 refs, completed, deleted, budget>>

BuildResult(copy) == [copy EXCEPT !.image = IF BuildEnabled THEN "pushed" ELSE "tag"]

\* Clone, cache, steps, image build and supply-chain hooks: the status is
\* stored after each of them, in the end with the build result.
RunnerBuild(i) ==
  /\ pods[i].stage = "started"
  /\ LET status == IF BuildEnabled THEN BuildResult(pods[i].copy) ELSE pods[i].copy
     IN  Overwrite(status) /\ SetPod(i, "built", status)
  /\ UNCHANGED <<informer, job, jobCache, created, ctl, dirty, cancel, release,
                 refs, completed, deleted, budget>>

\* MarkBuildRunSucceeded with the build result is the runner's last write; the
\* process exits with 0 unless the pod is lost first.
RunnerSucceed(i) ==
  /\ pods[i].stage = "built"
  /\ Overwrite(WithPhase(BuildResult(pods[i].copy), "Succeeded"))
  /\ \E exit \in {"exited0", "exited1"} : SetPod(i, exit, NewStatus)
  /\ completed' = completed \cup {i}
  /\ UNCHANGED <<informer, job, jobCache, created, ctl, dirty, cancel, release,
                 refs, deleted, budget>>

\* fail: MarkBuildRunFailed on the copy, stored if the transition is valid.
RunnerFail(i) ==
  /\ pods[i].stage \in {"loaded", "started", "built"}
  /\ IF ValidTransition(pods[i].copy.phase, "Failed")
     THEN Overwrite(Failed(pods[i].copy))
     ELSE UNCHANGED <<run, fresh>>
  /\ SetPod(i, "exited1", NewStatus)
  /\ UNCHANGED <<informer, job, jobCache, created, ctl, dirty, cancel, release,
                 refs, completed, deleted, budget>>

\* Eviction, out of memory or activeDeadlineSeconds end the pod of a Job.
PodLost(i) ==
  /\ pods[i].stage \in LiveStages
  /\ job.id = i
  /\ SetPod(i, "exited1", NewStatus)
  /\ UNCHANGED <<run, fresh, informer, job, jobCache, created, ctl, dirty,
                 cancel, release, refs, completed, deleted, budget>>

\* Background propagation: the pod of a deleted Job is killed some time later.
PodKilled(i) ==
  /\ pods[i].stage \in LiveStages
  /\ job.id # i
  /\ SetPod(i, "killed", NewStatus)
  /\ UNCHANGED <<run, fresh, informer, job, jobCache, created, ctl, dirty,
                 cancel, release, refs, completed, deleted, budget>>

RunnerStep(i) ==
  \/ RunnerLoad(i) \/ RunnerStart(i) \/ RunnerBuild(i)
  \/ RunnerSucceed(i) \/ RunnerFail(i)

(***************************************************************************)
(* The API's cancel handler.                                               *)
(***************************************************************************)

\* The handler loads the BuildRun; a terminal one is answered at once.  Its
\* copy is of use only while it is the stored status, so the copy has no
\* variable: membership in fresh says whether it still is.
CancelBegin ==
  /\ cancel = "idle"
  /\ ~IsTerminal(run.phase)
  /\ Disrupt("cancel")
  /\ cancel' = "delete"
  /\ fresh' = fresh \cup {"cancel"}
  /\ UNCHANGED <<run, informer, job, jobCache, created, pods, ctl, dirty,
                 release, refs, completed, deleted>>

\* The Job in the API server, if there is one, is deleted.
DeleteJob == job' = NoJob /\ deleted' = deleted \cup ({job.id} \ {NoJob.id})

\* deleteBuildRunJobs, by JobRef or by label; no Job is fine too.
CancelDeleteJobs ==
  /\ cancel = "delete"
  /\ DeleteJob
  /\ cancel' = "write"
  /\ UNCHANGED <<run, fresh, informer, jobCache, created, pods, ctl, dirty,
                 release, refs, completed, budget>>

\* Status().Update: a conflict is an error to the caller, the Job is gone.
CancelWrite ==
  /\ cancel = "write"
  /\ cancel' = "idle"
  /\ \/ UpdateAs("cancel", WithPhase(run, "Cancelled"))
     \/ "cancel" \notin fresh /\ UNCHANGED <<run, fresh>>
  /\ UNCHANGED <<informer, job, jobCache, created, pods, ctl, dirty, release,
                 refs, completed, deleted, budget>>

\* The request dies between its steps: client gone, API server restarted.
CancelAbort ==
  /\ cancel # "idle"
  /\ cancel' = "idle"
  /\ fresh' = fresh \ {"cancel"}
  /\ UNCHANGED <<run, informer, job, jobCache, created, pods, ctl, dirty,
                 release, refs, completed, deleted, budget>>

(***************************************************************************)
(* What users and the cluster delete.                                      *)
(***************************************************************************)

\* ttlSecondsAfterFinished, or a user, removes the Job.
JobDeleted ==
  /\ job # NoJob
  /\ Disrupt("job")
  /\ DeleteJob
  /\ UNCHANGED <<run, fresh, informer, jobCache, created, pods, ctl, dirty,
                 cancel, release, refs, completed>>

ReleaseDeleted ==
  /\ release # "none"
  /\ Disrupt("release")
  /\ release' = "none"
  /\ dirty' = TRUE
  /\ UNCHANGED <<run, fresh, informer, job, jobCache, created, pods, ctl,
                 cancel, refs, completed, deleted>>

ReferencesDeleted ==
  /\ refs
  /\ Disrupt("references")
  /\ refs' = FALSE
  /\ UNCHANGED <<run, fresh, informer, job, jobCache, created, pods, ctl,
                 dirty, cancel, release, completed, deleted>>

(***************************************************************************)
(* The specification.                                                      *)
(***************************************************************************)

Reconcile ==
  \/ Begin \/ EnsureImageTag \/ ImageTagError \/ ReconcileTerminal
  \/ PolicyDenied \/ QuotaReached \/ ExecutorError \/ EnsureRun
  \/ ReadRunStatus \/ Persist \/ Notify \/ EnsureRelease

Next ==
  \/ Reconcile \/ ControllerRestart
  \/ SyncBuildRun \/ SyncJob
  \/ JobStart \/ JobFinish
  \/ \E i \in JobIds : RunnerStep(i) \/ PodLost(i) \/ PodKilled(i)
  \/ CancelBegin \/ CancelDeleteJobs \/ CancelWrite \/ CancelAbort
  \/ JobDeleted \/ ReleaseDeleted \/ ReferencesDeleted

Spec == Init /\ [][Next]_vars

\* The processes run: the worker, the watches, the Job controller, the runner
\* (bounded by activeDeadlineSeconds) and the garbage collector.  Users, faults
\* and the cancel request promise nothing.
Fairness ==
  /\ WF_vars(Reconcile)
  /\ WF_vars(SyncBuildRun)
  /\ WF_vars(SyncJob)
  /\ WF_vars(JobStart)
  /\ WF_vars(JobFinish)
  /\ \A i \in JobIds : WF_vars(RunnerStep(i)) /\ WF_vars(PodKilled(i))

FairSpec == Spec /\ Fairness

(***************************************************************************)
(* What the writers guarantee together.                                    *)
(***************************************************************************)

\* A BuildRun is reported Succeeded only after a runner has run the whole
\* pipeline: neither a stale controller copy nor a replaced Job invents it.
SucceededOnlyAfterCompletion == run.phase = "Succeeded" => completed # {}

\* ensureRelease creates a Release only for a build that really completed.
ReleaseOnlyAfterCompletion == release # "none" => completed # {}

\* EnsureRun replaces deleted Jobs and nothing else: of the Jobs created, all
\* but the one in the API server were deleted before.  A reconcile on a Job
\* cache that lags, or one repeated after a restart or a failed status write,
\* makes no second Job.
JobsReplaceDeletedJobs == 1 .. created \subseteq deleted \cup {job.id}

\* The resourceVersion check of cancelBuildRun: Cancelled never replaces an
\* outcome that was stored after the handler read the BuildRun.
CancelNeverReplacesOutcome ==
  [][run'.phase = "Cancelled" /\ run.phase # "Cancelled" => ~IsTerminal(run.phase)]_vars

\* Everything comes to rest: the BuildRun stays terminal and no runner lives,
\* however deletions, restarts, failed writes and cancellations fall.
EventuallySettles ==
  <>[](IsTerminal(run.phase) /\ \A i \in JobIds : pods[i].stage \notin LiveStages)

\* A BuildRun that stays Succeeded has its Release in the end, also when the
\* controller restarts between the status write and ensureRelease, or the
\* Release is deleted.
ReleaseFollowsSuccess ==
  GitOpsEnabled => (<>[](run.phase = "Succeeded" /\ refs) => <>[](release # "none"))
=============================================================================
