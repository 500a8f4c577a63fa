# Cloudivision: TLA+ models and proofs

Cloudivision is a CI/CD control plane on Kubernetes. Custom resources (Project, Repository,
PipelineTemplate, BuildRun, Release, Environment, ClusterTarget) are reconciled by a controller
process; builds run in a Job with a runner pod; an HTTP API receives webhooks and user actions; a
Release commits an image to a GitOps repository that Argo CD or Flux deploys.

The processes share nothing but the Kubernetes API server, and in places a volume, a registry or a Git
repository. Each of them reads an object, works on a copy for a while and writes the result back, so
the difficult part of this program is which copy was read when, and what a write replaces. That is what
the modules model.

Contents: 1 inventory, 2 modules and code, 3 runs, 4 bounds and fairness, 5 proofs, 6 disagreements
between documentation and code, 7 what is not modelled, 8 plan.

## 1. Inventory

| component | state it keeps | operations | what is hard | what makes it correct |
|---|---|---|---|---|
| Webhook intake (`internal/api/server.go`, `internal/webhook`, `internal/audit`) | the table `webhook_events` | verify, parse, look up, filter, policy, create BuildRun, record | concurrent and repeated deliveries, a failure between create and record, edits of the Repository | one BuildRun per delivery, none lost, only what the filters select |
| Policy evaluator (`internal/policy`) | none | EvaluateBuildRun, EvaluatePipelineTemplate, EvaluateRelease | combination of rules | refused where a rule says so |
| BuildRun controller (`internal/controller/buildrun_controller.go`, `internal/kube/status.go`) | informer caches of BuildRuns and Jobs, a work queue | reconcile: load references, image tag, policy, quota, EnsureRun, ReadRunStatus, status write, notification, ensureRelease | caches that lag, restart between two writes, a retry that copies an old status over a new one | success and Release only for a completed pipeline; one Job at a time; every BuildRun ends |
| Project quota (`internal/controller/quota.go`) | none, a cached list | evaluateProjectQuota | concurrent workers on one stale list, creation times in whole seconds | no slot of the list is given twice; a queued BuildRun starts |
| Job executor (`internal/executor/job`) | the Job | EnsureRun, ReadRunStatus | Job created but not cached; Job deleted by TTL or a user | Jobs are only created in place of deleted ones |
| Runner (`internal/runner`, `cmd/runner`, `internal/executor/steps`, `internal/supplychain`) | a copy of the BuildRun read at start, a workspace | configuration, clone, cache restore, steps, artifacts, image, SBOM, scan, signature, provenance, cache save, status after each | its copy is never refreshed; other runners push the same tag; any stage fails or the pod is killed after others took effect | a status claims only what was done; evidence belongs to the image it is stored with |
| Image builder and registries (`internal/build/buildkit.go`, `internal/provider/registry`) | a Docker config in the workspace | check the request, resolve the name, log in, build, read the digest | cleaning up on every path | the login is gone when the runner ends |
| Dependency cache (`internal/cache`) | directories on a shared volume | restore, save, expiry, purge | several processes on a file system without locks | a published entry is of one snapshot, of the own project, and of a successful BuildRun |
| Cancel API (`internal/api/build_actions.go`) | a copy during the request | delete Jobs, then write Cancelled | two steps, an optimistic lock, a request that dies | Cancelled never replaces an outcome |
| Release controller (`internal/controller/release_controller.go`) | caches, a checkpoint annotation | validation, approval, policy, commit, checkpoint, pull request, sync, timeout, notification | push and checkpoint are two systems; stale phase and approval | no push before approval, one checkpoint, no deployment after a rejection, an end in time |
| GitOps provider (`internal/gitops`) | a clone during one call | UpdateImage with three strategies, pull request, provider status | lost answers of push, other pushers, leftovers of the old image in the file | the commit deploys the image of the Release and touches nothing else |
| Release API (`internal/api/server.go`, `release_actions.go`) | none | approve, reject, promote, rollback | reject is two writes; a reconcile is in flight; the BuildRun changed since | an accepted rejection prevails; a promotion delivers the same image |
| Project controller (`internal/controller/project_controller.go`) | caches | namespace, service account, roles, bindings, network policy, status | several writes on stale reads, objects nobody watches | Ready has the objects behind it; drift is repaired |
| Image tags, ClusterTarget controller, admission webhooks, Tekton executor, API conversion, auth, stores, CLI, web UI, SDK | - | see section 7 | - | - |

Interactions: the API (webhook, user) creates a BuildRun; the controller gives it a Job as soon as the
Project's quota allows; the runner and the controller both report its phase; on success the controller
creates a Release; the Release controller commits, perhaps after an approval through the API, perhaps
through a pull request, and watches the GitOps provider; a delivered Release is promoted or rolled back
through the API. Informer events and timed requeues are the only calls between the parts; everything
else is shared state in the API server, in the audit database, on the cache volume, in the registry
and in Git.

`PROJECT.json` lists the components with their status, every mapped definition with its source lines,
and the hazards, each at the line where it bites and with the properties that would catch it.

## 2. Modules and the code

    WebhookEvents ─┐                    BuildRunStatus ─┬─ BuildRunLifecycle
    PolicyRules ───┼─ WebhookIntake                     └─ ProjectQuota
                   └─ ReleasePromotion ── DesiredState (INSTANCE, refinement)
    GitOpsFiles ── DeploymentTargets ─┘
    DependencyCache ─┬─ PipelineRunner  ReleaseLifecycle        ProjectIsolation
    BuildInputs ─────┘

The theorems about a specification are in a module of their own: `BuildRunLifecycle_proofs`,
`ReleaseLifecycle_proofs`, `WebhookIntake_proofs`, `ProjectQuota_proofs`, `ProjectIsolation_proofs`,
`PipelineRunner_proofs` and `ReleasePromotion_proofs`; the last rests on the lemmas about manifests in
`DeploymentTargets_proofs` (section 5).

Each module with a specification has an MC module that gives TLC its instance. The names of the code
are kept where a definition is one function of the code; parts of a handler have names of their own.

**WebhookEvents** and **PolicyRules** - the decisions without state: signature and token, what a payload
is parsed to, include and exclude filters, the event and fork rules; and the rules of the policy
evaluator as sets of violations. A pattern is the set of the names it matches.

**WebhookIntake** - the handler of one Repository's webhook, as the calls it makes to the database and
the API server: `Receive`, `Lookup`, `List`, `Create`, `Get`, `Record`. Between two of them another
request for the same delivery may act, a call may fail (`CallFails`), the request may be cut off
(`CutOff`), users may edit the Repository (`Configure`) or delete a BuildRun (`DeleteRun`). The sender
delivers again after a server error or without an answer (`Deliver`) and at will (`Redeliver`). `runs`
and `index` are the two places in which a delivery leaves a trace; `made`, `deleted` and `skipped`
are history. A call that fails is answered with a server error, but for the `Get` of a BuildRun whose name is taken:
that handler still reports the AlreadyExists, a 409, which no sender repeats. The name of a BuildRun is what the cut
at 63 characters leaves of the hash of its event (`DigitsKept`; `Hash` is a constant).

**BuildRunStatus** - the fields of a BuildRun status that any component decides on (phase, whether a
JobRef is set, what is known of the image) and the transitions of
`domain.ValidateBuildRunPhaseTransition`.

**BuildRunLifecycle** - one BuildRun and all its writers.

| state | code |
|---|---|
| `run`, `fresh` | the stored status; who holds a copy with the stored resourceVersion |
| `informer`, `jobCache` | controller-runtime's cached copies |
| `ctl`, `dirty` | the reconcile in progress (step, in-memory object, what follows its status write); the work queue |
| `job`, `created`, `pods` | the Job, how many were created, the runner of each and its copy |
| `deleted` | history: the Jobs that were deleted, by a cancellation, a user or the TTL |
| `cancel` | the step of `cancelBuildRun` |
| `release`, `refs` | the Release's image; whether Project, Repository and template exist |
| `completed`, `budget` | history variable; the bound on disruptive events |

The status is written in two ways that the model keeps apart. `kube.UpdateStatusWithRetry` reads the
object again and copies the caller's *whole* status over it (`Overwrite`). In the controller that
read goes to the cache, so the write goes through only while the cache is current (`Persist`); the
runner's client reads the API server, so its write always goes through. `Status().Update` of the
cancel handler and of `ensureImageTag` is refused when anything was stored since the copy was read
(`UpdateAs`). One reconcile is a sequence of actions, cut where another process can act in between:
`Begin`, `EnsureImageTag`, a decision (`ReconcileTerminal`, `PolicyDenied`, `QuotaReached`,
`ExecutorError`, `EnsureRun`), `ReadRunStatus`, `Persist`, `Notify`, `EnsureRelease`.

**ProjectQuota** - N BuildRuns of one Project and the decision of `evaluateProjectQuota` in full:
`Active`, `Waiting`, `Rank`, `Available`, `Admitted` and `Denied` are evaluated on the cached list, by
the concurrent reconciles of a load's `workers`. The reconcile reads its BuildRun in `Begin` and the list in
`Decide`; with `ahead` the cache may move on between the two, without it they are one step, and `Verdict`
is what follows from the list either way. Of the rest of a BuildRun's life it keeps what moves
phase and JobRef. A number is a position in the order the code sorts by (creation second, then name). A load also
says how many BuildRuns run at first, whether creations may fall into one second and so happen against that
order (`tied`), and whose Job the cache may lack for a while (`late`). `lost` and `overtaken` are history: the
two ways in which a workload escapes the list that the quota is decided on.

**DependencyCache** - the local store of `internal/cache`, one file system call at a time. An entry is
a directory with an identity, a manifest and, for each cached path, the runner who wrote it. Restore
reads the manifest, then copies path by path, or for an expired one opens what has the name by then (`Open`) and
removes it, which may be a fresh entry published in between; save copies into a staging directory, removes the entry
that is there and renames. `os.RemoveAll` deletes child by child, so others see, and fill, a directory
that is half removed. Reading, copying and renaming may fail at any time. Other I/O errors of `os.RemoveAll` are left
out: they leave the same remnant as a pod that is killed. Expiry on restore and the purge of the API remove entries, too; a purge
(`Purge`, `PurgeStep`) may begin at any time, goes on deleting in the directories it has opened although
they are renamed meanwhile, and may never end.

**BuildInputs** - what is checked before an image is built: context, Dockerfile, build cache, registry
name, credential and Docker config; each check yields "ok" or the reason the BuildRun fails with.

**PipelineRunner** - composes the two with the stages of the runner. `stage` is where `Runner.run` is,
`copy` the status in its memory and `stored` the one in the cluster; a stage that reports stores the
whole copy, and an error of that write ends the runner. `registry` says what each tag points to: the
runners share it, so an image reference by tag means whatever was pushed last. `logins` are the runners
with a Docker config on disk; `Goto` removes it on every return as the deferred call does,
but not what is left of one that could not be written (`WriteFails`), since the removal is deferred after the write. Log and artifact stores are none, local or remote; a
remote one is accepted by `main` and fails when it is used. A registry cache takes the place of the template's
build cache (`BuildCache`). A command may
fail at any stage, and `Kill` ends a pod anywhere.

**ReleaseLifecycle** - one Release. `rel` has the phase, the commit, the approval, the checkpoint
annotation, the promotion mode; `informer`/`current` and `ctl` as above; `rejecting` is the second
write that a reject request owes. The GitOps repository is the number of commits, those whose tree
holds the image (`carrying`), the deployment branch (`target`, `tip`) and the promotion branch
(`branch`). `pull` is the pull request and `provider` what Argo CD or Flux has synced and reports.
`Clone`, `Push` and `Checkpoint` are separate actions because the process may die, or others push, in
between; a push whose answer is lost is an alternative of `Push`.

**GitOpsFiles** - what UpdateImage makes of a Helm values file, a kustomization and raw manifests: which
file, which fields and containers change, what is refused, whether a change is reported. A file is what
these functions look at: fields by path, image entries, workloads with their containers. `GitOpsSpecs`
is the part of a BuildRun's spec that they are configured with, `HasFormat` what a file has to be. The repository of
an image is never empty (the CRD has MinLength 1), so the check of UpdateImage for that always passes.

**DeploymentTargets** - what the manifests deploy, as charts, kustomize and Kubernetes read them, and not
as UpdateImage does: `RenderedFile` is the set of images a target deploys, `Others` the rest of its file.
`ClearFile`, `ExactFile` and `Apart` say what is asked of manifests and targets (section 5). The properties
and the refinement of ReleasePromotion are stated with these; none of it is code of the repository.

**ReleasePromotion** - several Releases of several applications on one GitOps repository: creation from a
BuildRun, promotion and rollback by the API with the image and the approval they get, admission by
PolicyRules, and for each Release clone, update (GitOpsFiles on the real tree), push and pull request,
interleaved with those of the others. `admitted` is history.

**DesiredState** - what such a repository promises, in two actions: a target is admitted for an image,
and the desired image of a target changes to one that was admitted for it, no other target with it.
ReleasePromotion implements it; the refinement mapping reads `desired` off the manifests of the
deployment branch, with the containers and fields that a deployment would use.

**ProjectIsolation** - the Project controller: one `CreateOrUpdate` after the other on cached objects
(`view`), each compared, written with the resourceVersion that was read (`fresh`) and perhaps refused;
then the status and the requeue. Users edit and delete the Project, others alter or delete the objects,
the namespace goes, calls fail, answers are lost and the controller restarts. A RoleBinding that was deleted and made
again for another role (`Remade`) cannot be updated, as the API server keeps `roleRef` for good.

**MCBuildRunLifecycle, MCProjectQuota, MCWebhookIntake, MCPipelineRunner, MCReleaseLifecycle,
MCReleasePromotion, MCProjectIsolation** - the instances, and what the documentation says where the code
does otherwise.

## 3. Runs

| run | shows |
|---|---|
| `buildrun` | All writers of a BuildRun, one disruption of any of ten kinds. Succeeded and the Release are earned by a runner that ran the whole pipeline; every Job but the current one has been deleted; Cancelled never replaces an outcome. Under fairness the BuildRun comes to rest in a terminal phase with no runner alive, and one that stays Succeeded has its Release, also when the controller restarts between the two writes. |
| `release` | Both promotion modes, approval required, two disruptions: no push before an approval; a rejected Release is never Deployed; `gitCommit` and checkpoint agree and name a pushed commit with the image, and nothing is awaited before the merge (`ProgressIsBacked`); a checkpoint is never replaced; every Release ends or waits for its approver, and a rejection ends in a failed phase that stays. |
| `quota_safety` | Two workers deciding on the same lagging list, two creations in one second, a Job that its cache lacks, and a queue that overflows: the quota is exceeded by nothing but workloads that escaped the list (`lost`, `overtaken`). |
| `quota_liveness` | A queued BuildRun gets its Job, also when the Job cache lags or creations share a second. |
| `webhook_intake` | Two deliveries in two concurrent requests, repeated after a failure and at will: a delivery makes one BuildRun unless that is deleted; what is answered as created or duplicate was processed; a delivery that was recorded never builds again, even after the BuildRun is gone or the filters changed; only what is verified and selected builds; every delivery is answered for good. |
| `pipeline_runner` | Two pods through all stages, in six pairings, and with 19 settings of a pod, its paths, its registry and its Secret, nearly all of them refused: evidence belongs to the stored image although the tag moves; no status claims more than was done, and Succeeded has all the template asks for (`StatusIsBacked`); cache entries come from BuildRuns whose steps, image and evidence (SBOM, scan, signature, provenance) are stored, are of one snapshot, whole unless a removal touched them, and stay in their project; the login is there for the push and gone at the end, but for a config that could not be written; every runner ends. |
| `release_promotion` | Releases, promotions and rollbacks on a Helm, a Kustomize and a raw YAML layout, with files that hold stale tags and digests: the recorded commit deploys the image of the Release; the update repeated finds nothing to do; a promotion delivers what its source delivered, also after a rebuild; a push changes one target only; the branch implements DesiredState. |
| `project_isolation` | Edits, drift, lost answers, failed calls and restarts on lagging caches: an observed Ready has its objects, and in the end the objects are as the spec says, unless a RoleBinding was remade for another role. |
| `cancel_overwritten`, `second_commit`, `raw_unrelated`, `quota_exceeded` | violated: section 6 |

Every property of a passing run has a mutant in `PROJECT.json`: a plausible slip in the mapped code
(unchecked resourceVersion, forgotten requeue, dropped guard, swapped order, off-by-one) under which TLC
finds the property violated. The mutated definition stands just before the original in its module.

Deadlock is not checked: a finished BuildRun, Release, delivery or runner is a state in which nothing
happens any more.

## 4. Bounds and fairness

*Disruptions.* Everything that people or faults do to a BuildRun, a Release or a Project (delete a
reference, a Job or a Release, cancel, deny by policy, fail a notification, restart the controller, fail
or lose a Git or API call, alter an object) uses up one of `MaxDisruptions`; `Disruptions` names the kinds
a run has. All interleavings of the regular actors are explored without a bound. One disruption meets
every step of the BuildRun's four writers; the Release run has two, because a second commit needs a lost
checkpoint and a foreign push; foreign pushes to the branch are bounded by `MaxOtherPushes`. The
safety of a BuildRun, a Release and a Project is proved for every bound (section 5).

*Webhooks.* `MaxFaults` bounds failing calls and requests that are cut off, `MaxRedeliveries` deliveries
that no failure caused, `MaxChanges` edits and deletions: one of each meets every step of two
requests. The second delivery is one of ten payloads, one for each way the handler can end.
`NameLength` is the length of the Repository's name: with 60 two of the twelve digits of the hash are left, just enough
for the hashes of the run (`HashUsed`); with 61 `NothingLost` is violated (section 6).

*Runner.* Two pods, two cached paths (the smallest tree that can be half removed), logs of 0 or 2
bytes a step against a limit of 3, up to two artifacts against a limit of one. Kills and failures are
not bounded: a pod is killed once, and a stage fails once; nor are purges. `AllWorks` has the pairs that contend for a
tag, a cache key, a restore key or a scope, and every wrong setting alone.

*Releases.* `MaxReleases` is three: one of each BuildRun and a promotion or rollback, or a chain of two.
The layouts put two applications into one file wherever a strategy allows that; that they are clear and
separate, as the theorems ask, is an ASSUME of the run. `Digests` are the digests a rebuild may push.

*Project.* `MaxGeneration` allows an edit of every field at once; `MaxLag` is the number of objects whose
cached copy is behind at a time. One object behind is enough for each decision, as a reconcile looks
at one object at a time.

*Quota.* `Loads` has two BuildRuns and two workers for one slot, the smallest contention, with the cache moving
between the two reads (`ahead`); two in one second; two with a late Job; and three BuildRuns, one of them running,
with one waiting place, the smallest case in which one is denied. For more BuildRuns, workers and slots, and all of this
at once, `QuotaHoldsAsListed` is proved (section 5). The liveness run has no limit of the queue, as a BuildRun that is
denied does not start, and reads both at once: with `ahead` a BuildRun may be unlucky for ever, its own last write stale
at each `Begin` and in the cache before each list.

*Settings.* `BuildEnabled` and `ImagePrefixed` say whether the runner builds an image and whether the
registry resolves it to another repository; `Generic`, `FailOnDegraded` and `RollbackOf` are the
Environment's and the Release's settings; `PullRequestAPI` says whether a client of the Git host is
configured (without one, the default, every pull-request Release ends in FailedProviderStatus, as
`docs/gitops/pr-based-promotion.md:37-40` says); `WithIndex` is the audit database, `APIAccess` the roles of the
API, `TTL` the expiry of cache entries. Each run fixes them; the theorems hold for all of them.
`buildrun` has no image build, which keeps its liveness check small; `cancel_overwritten` has one. No run uses symmetry: BuildRuns, pods and Releases are ordered or differ in their work.

*Fairness.* Weak fairness of the worker, the informers, the Job controller, the garbage collector and the
clock: each runs in a loop nobody can stop for ever. Of the runner: a pod goes on, or is ended by
`activeDeadlineSeconds`. Of the handler of a request, and of the sender, who repeats a delivery while the
answer is a server error or missing (GitHub, GitLab and Gitea are external; the code relies on it where it
answers with an error after the BuildRun was made). Of the Project's reconcile, which the work queue or
the requeue brings back. Strong fairness of `Begin` in ProjectQuota: the work queue is first in, first
out, so a key that waits gets a worker although others return. Nothing is assumed of users, faults, the
cancel request, reviewers or Argo CD and Flux; a Release ends without them because of its timeout and
requeues.

## 5. Proofs

`BuildRunLifecycle_proofs` shows, for every `MaxDisruptions`, every set of disruption kinds and every
setting (`ConstantsAssumption` is all that is assumed):

- `TypeCorrectness`, `Spec => []TypeOK`: among others, the number of Jobs never exceeds the number of
  disruptions plus one, so `JobIds` is large enough;
- `SuccessMeansCompletion` and `ReleaseMeansCompletion`: a stored Succeeded, and a Release, mean that a
  runner completed the pipeline;
- `JobsAreOnlyReplaced`: every Job that was created, but the current one, has been deleted. Restarts, lost
  notifications and a Job cache that lags never make a second Job beside the first;
- `CancelKeepsOutcome`: a cancellation never replaces an outcome.

None of these is inductive by itself: a step may store a copy that was read long ago. `Inv` says what
the copies may contain:

- `Typing`: `TypeOK` together with `JobsAreBounded`; `created` stays in its range only because a
  Job is created where none is, and each deletion has used up a disruption;
- `JobIsNumbered`: an existing Job has a pod of its own;
- `JobsReplaceDeletedJobs` itself, which is inductive given the types: EnsureRun creates where no Job is;
- `SuccessIsEarned`: until a runner completed, nothing that a writer relies on (store, cache, reconcile,
  runner copies, Job and cached Job, exit code) says success;
- `ReleaseStep`: `ensureRelease` is reached with a successful BuildRun only;
- `CopiesAreCurrent`: a copy in `fresh` is the stored status, and the one of the cancel handler is not
  terminal;
- `WritesAreNotCancelled`: a copy that is written without a check does not carry a cancellation. This
  is what makes `CancelKeepsOutcome` a property of the cancel handler alone.

`Invariance` proves `Spec => []Inv`, with a lemma per conjunct and in it a step per action. The action
property follows from `Inv` in the state before the step. The other modules are built alike: an inductive
`Inv`, a lemma per action or per conjunct, `Invariance`, and a theorem for each property that follows from it.

`ReleaseLifecycle_proofs` - for every number of disruptions and foreign pushes, both promotion modes and every
setting: `TypeCorrect`, `ApprovalBeforePush`, `RejectionHolds`, `PhasesAreBacked`, `CheckpointNeverReplaced`. A
reconcile works on a copy that may be stale when it is written, so `Inv` says what every copy may still be
trusted with (`Sound`: commit, checkpoint, pull request), what the reconcile knows at each step
(`StepFacts`, `Asking`), how the approval travels from the Release through the cache to the reconcile
(`ApprovalFirst`, `CopyIsApproved`), and that nobody can decide any more once the cache has seen the promotion
started (`Undecidable`, `SyncIsApproved`).

`WebhookIntake_proofs` - for every number of requests, deliveries, failures and edits, every payload and every
setting: `TypeCorrect`, `OneBuild`, `ReplaysNeverBuild`, `OnlySelectedBuilds`. `Inv` counts the BuildRuns of a
delivery by the one name they can have (`RunsAreCounted`), has what was answered for good in the table
(`AnswersAreIndexed`), and keeps what a request in flight has been through (`RequestSound`). `NoDeliveryLost`
needs two assumptions that users may break: `UniqueIds`, that the ids of two deliveries differ, and
`UniqueNames`, that the names of their BuildRuns differ in what the cut at 63 characters leaves of the hash. The lemma
`RoomForIds` derives the second from hashes that differ (`UniqueHashes`) for Repository names of at most 50 characters
(`NameHasRoom`); section 6 says what happens without.

`ProjectIsolation_proofs` - for all specs, edits, lags and disruptions: `TypeCorrect`, `ReadyBacked`. `Inv` adds
which generation the Project, the cache and the reconcile are at (`Generations`), what lagging copies of
objects may show (`CacheIsSound`), and that each object the spec asks for is still to be ensured by the
reconcile in progress or is in force (`ReconcileIsSound`). A RoleBinding that was remade makes the controller report an
error, never Ready.

`ProjectQuota_proofs` - `TypeCorrect` and `QuotaIsKeptAsListed`, for any number of BuildRuns, workers and slots, with and
without a limit of the queue, with creations in one second and with Jobs the cache lacks. What the documentation says
is false (section 6), so the theorem says by how much: the workloads beyond the quota are those in `lost`, which the
list showed as ended while they worked, and those in `overtaken`, which were granted their slot before one that ranks
ahead was listed. This is not inductive: what keeps slots apart is the ranking. `SlotsHold` bounds the BuildRuns that
hold a slot (`Holding`) *together with* the listed ones that rank before one of them (`Counted`), the escaped ones left
out. A decision on a lagging list then counts everybody who could get in its way (`RankHasRoom`), since whoever appears
in the list later ranks behind, or makes those he ranks ahead of overtaken. `LostIsRecorded` and `GrantIsListed` say that
a workload whose BuildRun the list shows as ended is lost, also when it was granted just before; `StatusesMean` and
`WorkIsSeen` what a stored status and a step tell of the Job.

`PipelineRunner_proofs` - for any number of runner pods, any work admitted by the API server (`WorksAssumption`)
and any limits: `TypeCorrect`, `CacheIsolation`, `EvidenceIsOfTheDigest`, `StatusesAreBacked`,
`OnlySuccessIsCached`, `EntriesAreWhole`, `LoginLasts`. `Inv` has three parts. `RunnerInv`: the copy and the stored
status of a runner claim nothing that is not so (`Valid`), the copy has what the stage has earned (`Progress`)
and the cluster is at most one stage behind (`Behind`); from that a failure at any stage and the final success
are both backed. `CacheInv`: the call in progress belongs to the stage (`CallOfStage`), contents stay within
their project and repository wherever they are copied (`ContentsAreOwn`),
a directory never mixes two snapshots, a staging directory is the snapshot
of a tree that no longer changes, or a purge has opened it (`StagingIsWhole`), and a published directory is
of a runner past its build (`PublishersAreDone`), so that `EntryIsWhole` compares it with a tree nobody
writes. The third part is `LoginLastsForTheBuild`.

`ReleasePromotion_proofs` - for every set of BuildRuns, manifests and Environments, and any number of Releases
and disruptions. Each theorem asks of the manifests what it needs; nothing in the code checks these
conditions, they are up to whoever lays out the repository:

- `TypeCorrect` asks nothing;
- `CommitsRenderImage`, `UpdatesAreIdempotent` and `PromotionsDeliverSource` ask `ClearManifests`: the image of a target
  has one place. The three fields of a Helm target are not one above the other, else the second assignment
  replaces the first; a kustomization has the image's name once, as the update changes the first entry and
  kustomize applies all. Raw manifests need nothing;
- `ChangesOneTarget` and `ImplementsDesiredState` ask `SeparateTargets` as well: BuildRuns have the same target and
  repository, or targets that differ in file, field, entry, workload or container; and a Helm field is no
  map that has other settings in it, and raw manifests name a container or no more than one workload. Without the
  last the fallback to the only container reaches other applications: that is the run `raw_unrelated`.

`Inv` has three parts, each resting on the ones before. `TypeInv`: BuildRuns keep target and repository through
rebuilds and deletions, a Release is for the repository of its BuildRun, has a commit once it is past the
commit, and what it promotes was delivered. `ClearInv`: every commit, of whichever Release, keeps the manifests in
their format with one place for each image (`CommitsFit`), and a clone between Checkout and Push is the update of
the commit it was made from (`PushesUpdate`); so a push, which is refused unless the branch is still at that
commit, delivers. `SeparateInv`: every commit keeps the targets exact (`CommitsExact`), and a Release that is at work or has
a branch was let through and could still be written to the deployment branch (`WorkAdmitted`), so that
the merge of an old pull request is a delivery as well. The refinement follows step by step: a step leaves the
deployment branch alone (`Still`) or is the delivery of one Release (`Delivery`), and a delivery changes what one target
deploys (`StepRefines`).

What this needs of the updates is proved in `DeploymentTargets_proofs`, for every file, image and target: the update
renders the image, repeated it changes nothing, it keeps the format, the rest of the file, and what a target
apart from it deploys and whether that can be updated. There is a lemma of each kind for each strategy, then
one for a file of any strategy (`UpdateRenders`, `UnchangedIsSame`, `UpdateKeepsFormat`, `UpdateKeepsRest`, `UpdateKeepsOther`)
and one for a whole tree (`TreeRenders`, `TreeUnchanged`, `TreeKeepsFit`, `TreeKeepsRest`, `TreeKeepsOther`).

The assumptions on the constants are the named ASSUMEs of the modules: sizes are numbers, templates are as
the API server admits them, runners and model values differ, and a manifest can be read by the one strategy that
updates it. TLC evaluates them in the runs.

Only model-checked: all liveness, as fairness and ENABLED are out of the prover's reach. Every invariant, action
property and refinement of the passing runs is a theorem.

## 6. Disagreements between documentation and code

With a run that shows the behaviour:

- `cancel_overwritten` - `docs/api/v1alpha1.md:9`: "Terminal BuildRun phases are `Succeeded`, `Failed`
  and `Cancelled`", and `internal/domain/status_test.go:132` wants a transition out of one refused. The
  transition is validated on the writer's own copy; `UpdateStatusWithRetry`
  (`internal/kube/status.go:31`) then copies that status over the latest object, so a runner with an
  older copy replaces Cancelled by Running, Succeeded or Failed.
- `second_commit` - `docs/concepts/release.md:5`: "records a Git commit exactly once". The checkpoint
  is refused while the cache lags behind the reconcile's own write, others push, and a second commit
  is made.
- `quota_exceeded` - `docs/concepts/project-quotas.md:17-19`: "Before creating a Job or PipelineRun, the BuildRun
  controller counts executor workloads for the same Project. When all concurrency slots are occupied, the BuildRun remains
  `Queued`, has no runner workload". The code counts a cached list of BuildRuns and ranks those that wait by creation
  second and name (`quota.go:48`): of two created in one second the second may rank first, on a list that still shows the
  other one, who has the slot, as waiting; both get a Job at a limit of one. The list is wrong in another way, too: a
  Job that is not in the Job cache yet fails its BuildRun (`buildrun_controller.go:163`) while the runner works.
- `raw_unrelated` - `docs/gitops/raw-yaml.md:33-35`: "This conservative behavior prevents an application
  release from rewriting an unrelated proxy or metrics image". The fallback to the only container of a
  workload (`gitops/provider.go:738`) applies to every workload under the path: without a filter a
  Release writes its image into the single container of every other application there.

Behaviours of the models that were met on the way and have no run of their own. BuildRuns and quota:

- a reference that is deleted later turns Succeeded into Failed, as `markReferenceError` comes before the
  terminal check (`buildrun_controller.go:98`; `docs/concepts/buildrun.md:33`: "The original resource
  remains terminal and unchanged");
- a BuildRun cancelled between the phase check and EnsureRun gets a Job (`buildrun_controller.go:149`,
  `docs/controllers/reliability.md:16`);
- a Queued BuildRun that is admitted fails when its new Job is not in the cache yet
  (`buildrun_controller.go:163`); in ProjectQuota it is `lost`, and its slot is given away while the runner works;
- a BuildRun that was Queued may be denied later, since its rank is evaluated anew at every reconcile
  (`quota.go:75`). With five BuildRuns, `MaxConcurrent` 2 and `MaxQueued` 1 that reaches one that has a Job but no stored
  JobRef: stale writes bring two finished BuildRuns back to Running, it is denied while its Job works, and
  its slot is given away;
- a registry that resolves the image to another repository has its result reset to the repository of
  the spec by the next `ensureImageTag` (`buildrun_controller.go:197`).

Webhooks:

- the name of a BuildRun is cut at 63 characters (`api/server.go:1534`): from 51 characters of Repository name on a
  part of the hash of the event is lost, with 62 all of it. A second delivery that finds its name taken is answered as a
  duplicate. `NothingLost` is violated with `NameLength = 61`, where two events share the digit that is left;
- a request that finds the name taken and cannot read that BuildRun is answered with 409 (`api/server.go:1011`,
  `:1359`), which senders do not repeat; the BuildRun is there;
- after a failure of `recordWebhookEvent` the repeated delivery finds its BuildRun by label and records
  nothing, so the table lacks it for good;
- no parser sets `TrustedActor` (`webhook/payload.go:31`): with `requireTrustedActor` no pull request builds.

Runner and cache:

- an entry removed between its manifest and its files fails the BuildRun (`cache.go:110`;
  `docs/build/cache.md:23-24`: "Missing entries are cache misses, not build failures"), or is restored in part;
- an expired entry is removed by name: when another runner publishes a fresh one after the manifest was read, the
  fresh one is removed (`cache.go:91`);
- a removal that is killed leaves a directory whose manifest may still be there: a later restore takes the remnant
  for a hit until it expires or is saved again (`cache.go:91`, `:159`);
- a purge that finds a staging directory deletes in it while the runner goes on to publish it: an entry
  without some of its files, or without its manifest, remains when the purge is over (`cache.go:162`, `:176`);
- of two runners that save one key the slower rename fails, and with it a BuildRun whose image is pushed
  and signed (`cache.go:162`);
- a Docker config that could only be written in part stays in the workspace: the removal is deferred after
  the write (`runner.go:320`).

Releases and GitOps:

- `syncProviderStatus` does not compare the observed revision with the commit: Deployed may refer to the
  previous one (`release_controller.go:610`; `docs/concepts/release.md:47`: "The provider confirmed sync and health");
- the loser of two concurrent pushes ends in FailedGitPush, which is terminal; `docs/controllers/reliability.md:24`:
  "GitOps transport failures ... remain retryable in `Deploying`";
- a reconcile with an older copy overwrites Deployed or FailedApproval with an earlier phase until the
  next reconcile repairs it (`release_controller.go:662`, `docs/controllers/reliability.md:24-25`);
- a restart between the push of a promotion branch and its checkpoint makes the next push fail, as it
  is not a fast-forward (`gitops/provider.go:141`);
- a conflict of the status write after opening a pull request is stored as FailedProviderStatus
  (`release_controller.go:266`);
- a promoted Release has the GitOps target of its BuildRun, since an Environment has none: promotion to
  production rewrites the manifests of staging (`release_actions.go`); a rollback may name a Release of
  another environment, and a Release that is RolledBack cannot be promoted.

Projects:

- the Failed condition of a Project is never reset, although its phase becomes Ready;
- what belonged to an older spec (NetworkPolicy after mode `disabled`, ServiceAccount, namespace) is left behind;
- two Projects with one namespace change the subjects of the RoleBinding back and forth
  (`project_controller.go:149`);
- a RoleBinding with another RoleRef cannot be updated, and the Project stays in Error until somebody deletes it;
  `EventuallyIsolated` excepts it.

## 7. Not modelled

- The payload and the retries of a notification (its failure is modelled); messages, time stamps,
  metrics, log lines, and conditions other than those a property is about: no component branches on
  them.
- Job manifest and resource limits, the arguments of buildctl and of the supply-chain tools, redaction,
  counts of a scan, layout and comments of YAML: data.
- Image tag templates (`build/tagging.go`): strings; only success or failure is modelled.
- Retry and rerun only create another BuildRun. Deletion of a BuildRun and its legacy finalizer.
- ClusterTarget controller: one loop that checks a target and writes the result, with one writer.
- Admission webhooks: defaults and checks of a single object, disabled unless
  `CLOUDIVISION_ADMISSION_WEBHOOKS_ENABLED` is set.
- Tekton executor (same interface, disabled by default); API version conversion (copies of fields);
  authentication (request filter); the audit, log and artifact stores beyond what the handler and the
  runner use of them (external I/O); the object-storage cache (always fails); CLI, UI and SDK (clients
  without protocol state).
- Two Projects at a time, and several Repositories: their objects are disjoint but for a shared namespace
  (section 6).

## 8. Plan

Done: all modules of section 2, and the proofs of the safety of every specification. What could come next:

1. The admission webhooks as operators, to derive `WorksAssumption` and the formats of `GitOpsSpecs` from them.
2. A specification of two Projects that share a namespace (section 6).
