-------------------------- MODULE ReleasePromotion --------------------------
(***************************************************************************)
(* Several Releases of one project that share a GitOps repository: the API *)
(* creates them by promotion and rollback (internal/api/release_actions.go *)
(* ), the controller reconciles them concurrently, and each reconcile      *)
(* clones, edits the manifests (GitOpsFiles) and pushes                    *)
(* (internal/gitops/provider.go).  ReleaseLifecycle has the rest of the    *)
(* life of a single Release: rejection, caches, checkpoint writes,         *)
(* timeouts and the provider's health; here the provider is generic.       *)
(***************************************************************************)
EXTENDS DeploymentTargets, PolicyRules

CONSTANTS
  BuildRuns,       \* the sequences of successful BuildRuns there may be, with their spec
  Environments,    \* each Environment's specs: the first one, and what it is edited to
  Digests,         \* the digests that a BuildRun may get when it is built again
  Trees,           \* what the deployment branch may hold at first
  Modes,           \* the values spec.promotionMode may have
  MaxReleases,     \* bound on the number of Releases
  MaxDisruptions,  \* bound on the number of disruptive events
  Disruptions      \* the kinds of disruptive event that may happen

ASSUME ConstantsAssumption ==
  /\ MaxReleases \in Nat
  /\ MaxDisruptions \in Nat
  /\ Disruptions \subseteq {"git", "answer", "restart", "rebuild", "delete", "environment"}
  /\ Modes \subseteq {"direct-commit", "pull-request"}
  /\ Digests \subseteq Scalars \ {"none"}

\* There is room for the Release of each BuildRun.
ASSUME BuildRunsAssumption ==
  \A runs \in BuildRuns :
    /\ runs \in Seq([environment : DOMAIN Environments, signature : BOOLEAN, exists : BOOLEAN,
                     gitOps : GitOpsSpecs, image : Images])
    /\ Len(runs) <= MaxReleases

\* A tree holds each file as the strategy that updates it reads it.
ASSUME TreesAssumption ==
  \A tree \in Trees :
    /\ tree = [path \in DOMAIN tree |-> tree[path]]
    /\ \A runs \in BuildRuns : \A b \in DOMAIN runs :
         LET path == manifestPath(runs[b].gitOps)
         IN  /\ path \in DOMAIN tree => HasFormat(tree[path], runs[b].gitOps)
             /\ \A c \in DOMAIN runs :
                  manifestPath(runs[c].gitOps) = path => runs[c].gitOps.strategy = runs[b].gitOps.strategy

VARIABLES
  releases,   \* the Releases, in the order of their creation
  work,       \* the reconcile of each Release: step, and its clone's base and tree
  builds,     \* the BuildRuns: environment, gitOps, image, signature, exists
  envs,       \* the spec of each Environment
  commits,    \* the commits of the remote repository: tree and parent
  tip,        \* the head of the deployment branch
  branch,     \* the head of each Release's promotion branch, 0 if there is none
  pulls,      \* the pull request of each Release
  admitted,   \* history: the targets and images of the Releases let through
  budget      \* disruptive events still allowed

gitVars == <<commits, tip, branch, pulls>>
vars == <<releases, work, builds, envs, gitVars, admitted, budget>>

Ids == 1 .. MaxReleases
Created == 1 .. Len(releases)
Idle == [step |-> "idle", base |-> 0, tree |-> <<>>]

FailedPhases == {"FailedValidation", "FailedApproval", "FailedGitClone", "FailedGitCommit",
                 "FailedGitPush", "FailedProviderStatus"}
DonePhases == {"Deployed", "RolledBack"}

GitOps(b) == builds[b].gitOps
Repository(b) == builds[b].image.repository

NewRelease(b, env, image, mode) ==
  [build |-> b, env |-> env, image |-> image, mode |-> mode, required |-> FALSE,
   approved |-> FALSE, phase |-> "Unset", commit |-> 0, from |-> 0, rollback |-> FALSE]

\* Types: a Release comes from an earlier one, and records a commit there is.
TypeOK ==
  /\ Len(releases) <= MaxReleases
  /\ \A r \in Created :
       /\ releases[r].phase \in {"Unset", "AwaitingApproval", "PreparingGitOpsChange",
                                 "GitOpsChangeCommitted"} \cup DonePhases \cup FailedPhases
       /\ releases[r].commit \in 0 .. Len(commits)
       /\ releases[r].from \in 0 .. r - 1
  /\ \A r \in Ids : work[r].step \in {"idle", "checkout", "push"} /\ work[r].base \in 0 .. Len(commits)
  /\ tip \in DOMAIN commits
  /\ branch \in [Ids -> 0 .. Len(commits)]
  /\ pulls \in [Ids -> {"none", "open", "merged", "closed"}]
  /\ budget \in 0 .. MaxDisruptions

\* ensureRelease has created a Release for each BuildRun, with the digest unless
\* the status had lost it.
Init ==
  /\ builds \in BuildRuns
  /\ \E mode \in Modes, digests \in [DOMAIN builds -> BOOLEAN] :
       releases = [b \in DOMAIN builds |->
         NewRelease(b, builds[b].environment,
                    IF digests[b] THEN builds[b].image ELSE [builds[b].image EXCEPT !.digest = "none"],
                    mode)]
  /\ work = [r \in Ids |-> Idle]
  /\ envs = [e \in DOMAIN Environments |-> Environments[e][1]]
  /\ \E tree \in Trees : commits = <<[tree |-> tree, parent |-> 0]>>
  /\ tip = 1
  /\ branch = [r \in Ids |-> 0]
  /\ pulls = [r \in Ids |-> "none"]
  /\ admitted = {}
  /\ budget = MaxDisruptions

Disrupt(kind) == kind \in Disruptions /\ budget > 0 /\ budget' = budget - 1

(***************************************************************************)
(* The Release controller; different Releases are reconciled concurrently. *)
(***************************************************************************)

Set(r, phase) == releases' = [releases EXCEPT ![r].phase = phase]
Fail(r, phase) == Set(r, phase) /\ work' = [work EXCEPT ![r] = Idle]

PolicyInput(r) ==
  [project |-> "p", approved |-> releases[r].approved, image |-> releases[r].image]
BuildInput(r) ==
  LET b == builds[releases[r].build]
  IN  [project |-> "p", phase |-> "Succeeded", signature |-> b.signature, sbom |-> TRUE, scan |-> "clean"]

\* releaseRequiresApproval
RequiresApproval(r) == releases[r].required \/ envs[releases[r].env].approval

Order(r) ==
  [target |-> GitOps(releases[r].build), image |-> imageString(releases[r].image)]

\* BuildRun and Environment are loaded, approval and policy are looked at.
Begin(r) ==
  LET rel == releases[r]
      decision == EvaluateRelease(PolicyInput(r), BuildInput(r), envs[rel.env])
      waits == RequiresApproval(r) /\ ~rel.approved
  IN  /\ work[r].step = "idle"
      /\ rel.phase \in {"Unset", "AwaitingApproval", "PreparingGitOpsChange"}
      /\ \/ /\ ~builds[rel.build].exists
            /\ Set(r, "FailedValidation")
            /\ UNCHANGED <<work, admitted>>
         \/ /\ builds[rel.build].exists
            /\ waits
            /\ Set(r, "AwaitingApproval")
            /\ UNCHANGED <<work, admitted>>
         \/ /\ builds[rel.build].exists
            /\ ~waits /\ decision # {}
            /\ Set(r, "FailedValidation")
            /\ UNCHANGED <<work, admitted>>
         \/ /\ builds[rel.build].exists
            /\ ~waits /\ decision = {}
            /\ Set(r, "PreparingGitOpsChange")
            /\ work' = [work EXCEPT ![r].step = "checkout"]
            /\ admitted' = admitted \cup {Order(r)}
      /\ UNCHANGED <<builds, envs, gitVars, budget>>

\* persistGitCommitCheckpoint, ensurePullRequest and markGitOpsChangeCommitted;
\* no provider opens a pull request for a branch that does not exist.
Committed(r, commit) ==
  /\ releases' = [releases EXCEPT
       ![r].commit = commit,
       ![r].phase = IF releases[r].mode = "pull-request" /\ branch'[r] = 0
                    THEN "FailedProviderStatus" ELSE "GitOpsChangeCommitted"]
  /\ pulls' = IF releases[r].mode = "pull-request" /\ branch'[r] # 0
              THEN [pulls EXCEPT ![r] = "open"] ELSE pulls
  /\ work' = [work EXCEPT ![r] = Idle]

\* UpdateImage up to the local commit.  An image that is there already takes
\* the head of the clone for its commit.
Checkout(r) ==
  LET update == updateImageFiles(commits[tip].tree, releases[r].image, GitOps(releases[r].build))
  IN  /\ work[r].step = "checkout"
      /\ \/ /\ Disrupt("git")
            /\ Fail(r, "FailedGitClone")
            /\ UNCHANGED gitVars
         \/ /\ ~update.ok
            /\ Fail(r, "FailedGitCommit")
            /\ UNCHANGED <<gitVars, budget>>
         \/ /\ update.ok /\ ~update.changed
            /\ UNCHANGED <<commits, tip, branch, budget>>
            /\ Committed(r, tip)
         \/ /\ update.ok /\ update.changed
            /\ work' = [work EXCEPT ![r] = [step |-> "push", base |-> tip, tree |-> update.tree]]
            /\ UNCHANGED <<releases, gitVars, budget>>
      /\ UNCHANGED <<builds, envs, admitted>>

\* Mutant of Accepted: git push --force.
AcceptedForced(r) == TRUE

\* The remote takes a push that only adds to the branch.
Accepted(r) ==
  IF releases[r].mode = "pull-request" THEN branch[r] = 0 ELSE work[r].base = tip

Advance(r) ==
  /\ commits' = Append(commits, [tree |-> work[r].tree, parent |-> work[r].base])
  /\ IF releases[r].mode = "pull-request"
     THEN branch' = [branch EXCEPT ![r] = Len(commits) + 1] /\ UNCHANGED tip
     ELSE tip' = Len(commits) + 1 /\ UNCHANGED branch

\* git push, whose answer may be lost; or the controller dies before it records
\* the commit.
Push(r) ==
  /\ work[r].step = "push"
  /\ \/ /\ Accepted(r)
        /\ Advance(r)
        /\ Committed(r, Len(commits) + 1)
        /\ UNCHANGED budget
     \/ /\ ~Accepted(r)
        /\ Fail(r, "FailedGitPush")
        /\ UNCHANGED <<gitVars, budget>>
     \/ /\ Accepted(r)
        /\ Disrupt("answer")
        /\ Advance(r)
        /\ Fail(r, "FailedGitPush")
        /\ UNCHANGED pulls
     \/ /\ Accepted(r)
        /\ Disrupt("restart")
        /\ Advance(r)
        /\ work' = [work EXCEPT ![r] = Idle]
        /\ UNCHANGED <<releases, pulls>>
  /\ UNCHANGED <<builds, envs, admitted>>

\* The rest of the reconciles of a Release that has its commit: the pull request
\* is read, and a generic provider takes the commit for the deployment.
Proceed(r) ==
  LET rel == releases[r]
  IN  /\ rel.phase = "GitOpsChangeCommitted"
      /\ \/ /\ rel.mode = "pull-request" => pulls[r] = "merged"
            /\ Set(r, IF rel.rollback THEN "RolledBack" ELSE "Deployed")
         \/ /\ rel.mode = "pull-request" /\ pulls[r] = "closed"
            /\ Set(r, "FailedApproval")
      /\ UNCHANGED <<work, builds, envs, gitVars, admitted, budget>>

(***************************************************************************)
(* The API.                                                                *)
(***************************************************************************)

Approve(r) ==
  /\ releases[r].phase = "AwaitingApproval"
  /\ ~releases[r].approved
  /\ releases' = [releases EXCEPT ![r].approved = TRUE]
  /\ UNCHANGED <<work, builds, envs, gitVars, admitted, budget>>

\* Mutant of resolvedReleaseImage: the BuildRun's image comes first.
latestBuildRunImage(r) ==
  LET b == releases[r].build
  IN  IF builds[b].exists THEN builds[b].image ELSE releases[r].image

\* The digest of the Release, or else what its BuildRun recorded.
resolvedReleaseImage(r) ==
  LET b == releases[r].build
  IN  IF releases[r].image.digest = "none" /\ builds[b].exists
      THEN builds[b].image ELSE releases[r].image

ActionRequiresApproval(e) == envs[e].approval \/ envs[e].production

CreateRelease(rel) ==
  /\ Len(releases) < MaxReleases
  /\ releases' = Append(releases, rel)
  /\ UNCHANGED <<work, builds, envs, gitVars, admitted, budget>>

\* Mutant of promoteRelease: spec.promotedFrom names the new Release.
promoteReleaseSelf(r, e) ==
  /\ releases[r].phase = "Deployed"
  /\ CreateRelease([NewRelease(releases[r].build, e, resolvedReleaseImage(r), releases[r].mode)
                      EXCEPT !.from = Len(releases) + 1, !.required = ActionRequiresApproval(e)])

promoteRelease(r, e) ==
  /\ releases[r].phase = "Deployed"
  /\ CreateRelease([NewRelease(releases[r].build, e, resolvedReleaseImage(r), releases[r].mode)
                      EXCEPT !.from = r, !.required = ActionRequiresApproval(e)])

\* Release r is rolled back to what Release t deployed.
rollbackRelease(r, t) ==
  LET env == envs[releases[r].env]
      image == resolvedReleaseImage(t)
      b == releases[t].build
  IN  /\ releases[t].phase = "Deployed"
      /\ env.digest => image.digest # "none"
      /\ env.signed => builds[b].exists /\ builds[b].signature
      /\ CreateRelease([NewRelease(b, releases[r].env, image, releases[r].mode)
                          EXCEPT !.from = t, !.rollback = TRUE,
                                 !.required = ActionRequiresApproval(releases[r].env)])

(***************************************************************************)
(* Reviewers, users and the runners of BuildRuns.                          *)
(***************************************************************************)

Rendered(tree, b) == RenderedTree(tree, GitOps(b), Repository(b))

\* A reviewer closes a pull request, or merges it unless the deployment branch
\* has changed the same lines since.
Review(r) ==
  LET b == releases[r].build
      base == commits[branch[r]].parent
      merged == updateImageFiles(commits[tip].tree, releases[r].image, GitOps(b)).tree
  IN  /\ pulls[r] = "open"
      /\ \/ /\ Rendered(commits[tip].tree, b) = Rendered(commits[base].tree, b)
            /\ pulls' = [pulls EXCEPT ![r] = "merged"]
            /\ commits' = Append(commits, [tree |-> merged, parent |-> tip])
            /\ tip' = Len(commits) + 1
         \/ pulls' = [pulls EXCEPT ![r] = "closed"] /\ UNCHANGED <<commits, tip>>
      /\ UNCHANGED <<releases, work, builds, envs, branch, admitted, budget>>

\* A Job that is created anew pushes its image again.
Rebuild(b) ==
  /\ Disrupt("rebuild")
  /\ \E digest \in Digests : builds' = [builds EXCEPT ![b].image.digest = digest]
  /\ UNCHANGED <<releases, work, envs, gitVars, admitted>>

DeleteBuildRun(b) ==
  /\ builds[b].exists
  /\ Disrupt("delete")
  /\ builds' = [builds EXCEPT ![b].exists = FALSE]
  /\ UNCHANGED <<releases, work, envs, gitVars, admitted>>

EditEnvironment(e) ==
  /\ Disrupt("environment")
  /\ \E spec \in Range(Environments[e]) \ {envs[e]} : envs' = [envs EXCEPT ![e] = spec]
  /\ UNCHANGED <<releases, work, builds, gitVars, admitted>>

Reconcile(r) == Begin(r) \/ Checkout(r) \/ Push(r) \/ Proceed(r)

Next ==
  \/ \E r \in Created :
       \/ Reconcile(r) \/ Approve(r) \/ Review(r)
       \/ \E e \in DOMAIN Environments : promoteRelease(r, e)
       \/ \E t \in Created : rollbackRelease(r, t)
  \/ \E b \in DOMAIN builds : Rebuild(b) \/ DeleteBuildRun(b)
  \/ \E e \in DOMAIN Environments : EditEnvironment(e)

Spec == Init /\ [][Next]_vars

(***************************************************************************)
(* What is asked of the manifests.  Nothing enforces it: it is up to those *)
(* who lay out the repository and configure the BuildRuns.                 *)
(***************************************************************************)

ClearManifests ==
  \A runs \in BuildRuns : \A b \in DOMAIN runs, tree \in Trees :
    LET t == runs[b].gitOps
    IN  manifestPath(t) \in DOMAIN tree =>
          ClearFile(tree[manifestPath(t)], t, runs[b].image.repository)

\* BuildRuns have one target and repository, or have targets apart.
SeparateTargets ==
  \A runs \in BuildRuns : \A b, c \in DOMAIN runs :
    LET t == runs[b].gitOps
        u == runs[c].gitOps
    IN  /\ \A tree \in Trees :
             manifestPath(t) \in DOMAIN tree => ExactFile(tree[manifestPath(t)], t)
        /\ IF t = u THEN runs[b].image.repository = runs[c].image.repository
           ELSE Apart(t, u, runs[b].image.repository, runs[c].image.repository)

(***************************************************************************)
(* What the Releases do to the environments.                               *)
(***************************************************************************)

Delivered == {r \in Created : releases[r].commit # 0}
DeliveredImage(r) == Rendered(commits[releases[r].commit].tree, releases[r].build)

\* The commit a Release records deploys the image of the Release, whatever the
\* manifests held before and whoever else pushed: no stale tag or digest wins.
CommitRendersImage ==
  \A r \in Delivered : DeliveredImage(r) = {imageString(releases[r].image)}

\* UpdateImage on the commit it made finds nothing to change, so a retry after a
\* crash makes no further commit while nobody else pushes.
UpdateIsIdempotent ==
  \A r \in Delivered :
    LET gitops == GitOps(releases[r].build)
    IN  ~updateImageFiles(commits[releases[r].commit].tree, releases[r].image, gitops).changed

\* A promotion or a rollback delivers what its source Release has delivered, even
\* if the BuildRun was built again meanwhile.
SameImagePromoted ==
  \A r \in Delivered :
    LET from == releases[r].from
    IN  from # 0 /\ releases[from].image.digest # "none" => DeliveredImage(r) = DeliveredImage(from)

\* A step of the deployment branch changes the manifests of one target only:
\* other files, services and sidecars keep what they had, though the clone was
\* made before others pushed.
OneTargetChanges ==
  [][tip' # tip =>
       LET old == commits[tip].tree
           new == commits'[tip'].tree
       IN  \E b \in DOMAIN builds :
             LET manifest == manifestPath(GitOps(b))
             IN  /\ \A path \in DOMAIN old : path # manifest => new[path] = old[path]
                 /\ Others(new[manifest], GitOps(b), Repository(b))
                      = Others(old[manifest], GitOps(b), Repository(b))]_vars

Targets == {GitOps(b) : b \in DOMAIN builds}

\* The deployment branch implements DesiredState.
Desired == INSTANCE DesiredState WITH
  desired <- [t \in Targets |->
                Rendered(commits[tip].tree, CHOOSE b \in DOMAIN builds : GitOps(b) = t)]

\* Every step of the deployment branch is the delivery of one Release that
\* approval and policy let through, to the target of its BuildRun: concurrent
\* pushes, merges, lost answers and retries never undo another delivery.
DeliversAdmitted == Desired!Spec
=============================================================================
