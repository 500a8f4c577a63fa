---------------------- MODULE ReleasePromotion_proofs ----------------------
(***************************************************************************)
(* The properties of ReleasePromotion hold for every set of BuildRuns, of  *)
(* manifests and of Environments, and every number of Releases and of      *)
(* disruptions.                                                            *)
(*                                                                         *)
(* Inv is inductive, in three parts.  TypeInv asks nothing of the          *)
(* manifests.  ClearInv needs that the image of a target has one place in  *)
(* its file (ClearManifests): then every commit a Release recorded deploys *)
(* its image, and a reconcile between Checkout and Push holds the update   *)
(* of its base.  SeparateInv needs that no two targets have anything in    *)
(* common (SeparateTargets): then a Release at work was let through and    *)
(* can still be written to the deployment branch, wherever that has got    *)
(* to.  With all three, each step leaves the deployment branch alone or    *)
(* delivers one Release that was let through.                              *)
(***************************************************************************)
EXTENDS ReleasePromotion, DeploymentTargets_proofs

\* The fields and the phases of a Release.
ReleaseFields == {"build", "env", "image", "mode", "required", "approved", "phase", "commit", "from",
                  "rollback"}
Phases == {"Unset", "AwaitingApproval", "PreparingGitOpsChange", "GitOpsChangeCommitted"}
            \cup DonePhases \cup FailedPhases

\* A sequence, of whatever elements.
IsSeq(s) == \E S : s \in Seq(S)

\* The BuildRuns are those of the start, but for digests and deletions.
BuildsOK ==
  \E runs \in BuildRuns :
    /\ DOMAIN builds = DOMAIN runs
    /\ \A b \in DOMAIN runs :
         /\ DOMAIN builds[b] = {"environment", "signature", "exists", "gitOps", "image"}
         /\ builds[b].gitOps = runs[b].gitOps
         /\ builds[b].image \in Images
         /\ builds[b].image.repository = runs[b].image.repository

\* What a Release promotes or rolls back to was delivered before.
PromotesDelivered(r) ==
  LET from == releases[r].from
  IN  from # 0 /\ releases[from].image.digest # "none" =>
        /\ releases[from].commit # 0
        /\ releases[r].build = releases[from].build
        /\ releases[r].image = releases[from].image

\* A Release is for the repository of its BuildRun, and is past the commit only
\* with one.
ReleaseOK(r) ==
  /\ DOMAIN releases[r] = ReleaseFields
  /\ releases[r].phase \in Phases
  /\ releases[r].commit \in 0 .. Len(commits)
  /\ releases[r].from \in 0 .. r - 1
  /\ releases[r].build \in DOMAIN builds
  /\ releases[r].image \in Images
  /\ releases[r].image.repository = Repository(releases[r].build)
  /\ releases[r].phase \in DonePhases \cup {"GitOpsChangeCommitted"} => releases[r].commit # 0

ReleasesOK ==
  /\ IsSeq(releases)
  /\ Len(releases) <= MaxReleases
  /\ \A r \in Created : ReleaseOK(r) /\ PromotesDelivered(r)

\* Only a Release that was created is reconciled, and a push has a base.
WorkOK ==
  /\ DOMAIN work = Ids
  /\ \A r \in Ids :
       /\ DOMAIN work[r] = {"step", "base", "tree"}
       /\ work[r].step \in {"idle", "checkout", "push"}
       /\ work[r].base \in 0 .. Len(commits)
       /\ work[r].step # "idle" => r \in Created
       /\ work[r].step = "push" => work[r].base # 0

\* A branch belongs to a Release, and an open pull request to a branch.
GitOK ==
  /\ IsSeq(commits)
  /\ tip \in 1 .. Len(commits)
  /\ branch \in [Ids -> 0 .. Len(commits)]
  /\ pulls \in [Ids -> {"none", "open", "merged", "closed"}]
  /\ \A r \in Ids : r \notin Created => branch[r] = 0
  /\ \A r \in Ids : pulls[r] = "open" => branch[r] # 0

TypeInv == BuildsOK /\ ReleasesOK /\ WorkOK /\ GitOK /\ budget \in 0 .. MaxDisruptions

\* The update of the manifests of commit c by Release r.
Update(c, r) == updateImageFiles(commits[c].tree, releases[r].image, GitOps(releases[r].build))

\* The manifests of every commit have the format of the targets, and the image
\* of a target once.
CommitsFit ==
  \A c \in 1 .. Len(commits) :
    /\ IsTree(commits[c].tree)
    /\ \A b \in DOMAIN builds : Fits(commits[c].tree, GitOps(b), Repository(b))

\* The clone of a Release that pushes is the update of its base.
Pushes(r) == Update(work[r].base, r).ok /\ work[r].tree = Update(work[r].base, r).tree

PushesUpdate == \A r \in Ids : work[r].step = "push" => Pushes(r)

\* Targets in one file have one strategy.
TargetsAlike == \A b, c \in DOMAIN builds : Alike(GitOps(b), GitOps(c))

ClearInv == TargetsAlike /\ CommitsFit /\ PushesUpdate /\ CommitRendersImage /\ UpdateIsIdempotent

\* The targets are apart, or one with the same repository.
TargetsSeparate ==
  \A b, c \in DOMAIN builds :
    IF GitOps(b) = GitOps(c) THEN Repository(b) = Repository(c)
    ELSE Apart(GitOps(b), GitOps(c), Repository(b), Repository(c))

CommitsExact == \A c \in 1 .. Len(commits) : \A b \in DOMAIN builds : Exact(commits[c].tree, GitOps(b))

\* A Release at work, or with a branch, was let through, and its image can be
\* written to the deployment branch.
WorkAdmitted ==
  \A r \in Ids :
    /\ work[r].step # "idle" \/ branch[r] # 0 => Order(r) \in admitted
    /\ work[r].step = "push" \/ branch[r] # 0 => Update(tip, r).ok

SeparateInv == TargetsSeparate /\ CommitsExact /\ WorkAdmitted

(***************************************************************************)
(* Sequences of anything.                                                  *)
(***************************************************************************)

\* What the proofs use of a sequence,
LEMMA SeqFacts ==
  ASSUME NEW s, IsSeq(s)
  PROVE  Len(s) \in Nat /\ DOMAIN s = 1 .. Len(s)
BY DEF IsSeq

\* of one with an element more,
LEMMA SeqAppend ==
  ASSUME NEW s, IsSeq(s), NEW x
  PROVE  LET t == Append(s, x)
         IN  /\ IsSeq(t) /\ Len(t) = Len(s) + 1
             /\ \A i \in 1 .. Len(s) : t[i] = s[i]
             /\ t[Len(s) + 1] = x
<1>1. PICK S : s \in Seq(S)
  BY DEF IsSeq
<1> DEFINE U == S \cup {x}
<1>2. s \in Seq(U) /\ x \in U
  BY <1>1
<1> HIDE DEF U
<1>3. Append(s, x) \in Seq(U)
  BY <1>2
<1>4. QED
  BY <1>2, <1>3 DEF IsSeq

\* of a function over the first numbers,
LEMMA SeqOfLength ==
  ASSUME NEW n \in Nat, NEW s, s = [i \in 1 .. n |-> s[i]]
  PROVE  IsSeq(s) /\ Len(s) = n
<1> DEFINE S == {s[i] : i \in 1 .. n}
<1>1. \A i \in 1 .. n : s[i] \in S
  OBVIOUS
<1> HIDE DEF S
<1>2. s \in [1 .. n -> S]
  BY <1>1
<1>3. s \in Seq(S) /\ Len(s) = n
  BY <1>2
<1>4. QED
  BY <1>3 DEF IsSeq

\* and of a sequence with some elements replaced.
LEMMA SeqReplaced ==
  ASSUME NEW s, IsSeq(s), NEW t, DOMAIN t = DOMAIN s, t = [i \in DOMAIN t |-> t[i]]
  PROVE  IsSeq(t) /\ Len(t) = Len(s)
<1>1. Len(s) \in Nat /\ t = [i \in 1 .. Len(s) |-> t[i]]
  BY SeqFacts
<1>2. QED
  BY <1>1, SeqOfLength

(***************************************************************************)
(* The types.                                                              *)
(***************************************************************************)

\* The targets and repositories of the BuildRuns stay what they are.
SameTargets ==
  /\ DOMAIN builds' = DOMAIN builds
  /\ \A b \in DOMAIN builds : GitOps(b)' = GitOps(b) /\ Repository(b)' = Repository(b)

\* Steps that leave the BuildRuns alone keep their targets,
LEMMA SameBuilds ==
  ASSUME BuildsOK, builds' = builds
  PROVE  BuildsOK' /\ SameTargets
BY DEF BuildsOK, SameTargets, GitOps, Repository

\* A BuildRun that gets another digest or is deleted keeps its target.
LEMMA BuildEdited ==
  ASSUME BuildsOK, NEW b \in DOMAIN builds, NEW new, builds' = [builds EXCEPT ![b] = new],
         DOMAIN new = DOMAIN builds[b], new.gitOps = builds[b].gitOps, new.image \in Images,
         new.image.repository = builds[b].image.repository
  PROVE  BuildsOK' /\ SameTargets
<1>1. PICK runs \in BuildRuns :
        /\ DOMAIN builds = DOMAIN runs
        /\ \A c \in DOMAIN runs :
             /\ DOMAIN builds[c] = {"environment", "signature", "exists", "gitOps", "image"}
             /\ builds[c].gitOps = runs[c].gitOps
             /\ builds[c].image \in Images
             /\ builds[c].image.repository = runs[c].image.repository
  BY DEF BuildsOK
<1>2. /\ DOMAIN builds' = DOMAIN builds
      /\ \A c \in DOMAIN builds : builds'[c] = IF c = b THEN new ELSE builds[c]
  OBVIOUS
<1>3. \A c \in DOMAIN runs :
        /\ DOMAIN builds'[c] = {"environment", "signature", "exists", "gitOps", "image"}
        /\ builds'[c].gitOps = runs[c].gitOps
        /\ builds'[c].image \in Images
        /\ builds'[c].image.repository = runs[c].image.repository
  BY <1>1, <1>2
<1>4. BuildsOK'
  BY <1>1, <1>2, <1>3 DEF BuildsOK
<1>5. SameTargets
  BY <1>1, <1>2, <1>3 DEF SameTargets, GitOps, Repository
<1>6. QED
  BY <1>4, <1>5

\* and so does a rebuild that pushed another digest
LEMMA RebuildKeepsTargets ==
  ASSUME BuildsOK, NEW b \in DOMAIN builds, Rebuild(b)
  PROVE  BuildsOK' /\ SameTargets
<1>1. PICK digest \in Digests : builds' = [builds EXCEPT ![b].image.digest = digest]
  BY DEF Rebuild
<1> DEFINE image == [builds[b].image EXCEPT !.digest = digest]
           new == [builds[b] EXCEPT !.image = image]
<1>2. /\ DOMAIN builds[b] = {"environment", "signature", "exists", "gitOps", "image"}
      /\ builds[b].image \in Images
  BY DEF BuildsOK
<1>3. image \in Images /\ image.repository = builds[b].image.repository
  BY <1>2, ConstantsAssumption DEF Images
<1>4. builds' = [builds EXCEPT ![b] = new]
  BY <1>1, <1>2 DEF Images
<1> HIDE DEF image
<1>5. DOMAIN new = DOMAIN builds[b] /\ new.gitOps = builds[b].gitOps /\ new.image = image
  BY <1>2
<1> HIDE DEF new
<1>6. QED
  BY <1>3, <1>4, <1>5, BuildEdited

\* and a deletion.
LEMMA DeleteKeepsTargets ==
  ASSUME BuildsOK, NEW b \in DOMAIN builds, DeleteBuildRun(b)
  PROVE  BuildsOK' /\ SameTargets
<1> DEFINE new == [builds[b] EXCEPT !.exists = FALSE]
<1>1. builds' = [builds EXCEPT ![b] = new]
  BY DEF DeleteBuildRun
<1>2. /\ DOMAIN builds[b] = {"environment", "signature", "exists", "gitOps", "image"}
      /\ builds[b].image \in Images
  BY DEF BuildsOK
<1>3. DOMAIN new = DOMAIN builds[b] /\ new.gitOps = builds[b].gitOps /\ new.image = builds[b].image
  BY <1>2
<1> HIDE DEF new
<1>4. QED
  BY <1>1, <1>2, <1>3, BuildEdited

\* A Release keeps what it deploys and where it comes from, and never loses its commit.
KeptRelease(r) ==
  /\ DOMAIN releases'[r] = ReleaseFields
  /\ releases'[r].build = releases[r].build
  /\ releases'[r].image = releases[r].image
  /\ releases'[r].from = releases[r].from
  /\ releases[r].commit # 0 => releases'[r].commit # 0

\* Releases that keep what they are for stay well-formed
LEMMA ReleasesKept ==
  ASSUME ReleasesOK, SameTargets, IsSeq(releases'), Len(releases') = Len(releases),
         \A r \in Created :
           /\ KeptRelease(r)
           /\ releases'[r].phase \in Phases
           /\ releases'[r].commit \in 0 .. Len(commits')
           /\ releases'[r].phase \in DonePhases \cup {"GitOpsChangeCommitted"} => releases'[r].commit # 0
  PROVE  ReleasesOK'
<1>1. Created' = Created
  BY DEF Created
<1>2. ASSUME NEW r \in Created PROVE ReleaseOK(r)'
  <2>1. ReleaseOK(r)
    BY DEF ReleasesOK
  <2>2. /\ builds'[releases[r].build].image.repository = builds[releases[r].build].image.repository
        /\ releases[r].build \in DOMAIN builds'
    BY <2>1 DEF SameTargets, Repository, ReleaseOK
  <2>3. QED
    BY <2>1, <2>2 DEF ReleaseOK, KeptRelease, Repository
<1>3. ASSUME NEW r \in Created PROVE PromotesDelivered(r)'
  <2>1. ReleaseOK(r) /\ PromotesDelivered(r) /\ Len(releases) \in Nat
    BY SeqFacts DEF ReleasesOK
  <2>2. releases[r].from # 0 => releases[r].from \in Created
    BY <2>1 DEF ReleaseOK, Created
  <2>3. QED
    BY <2>1, <2>2 DEF KeptRelease, PromotesDelivered
<1>4. QED
  BY <1>1, <1>2, <1>3 DEF ReleasesOK

\* when more is committed.
LEMMA SameReleases ==
  ASSUME ReleasesOK, SameTargets, releases' = releases,
         Len(commits) \in Nat, Len(commits') \in Nat, Len(commits') >= Len(commits)
  PROVE  ReleasesOK'
<1>1. ASSUME NEW r \in Created
      PROVE  /\ KeptRelease(r)
             /\ releases'[r].phase \in Phases
             /\ releases'[r].commit \in 0 .. Len(commits')
             /\ releases'[r].phase \in DonePhases \cup {"GitOpsChangeCommitted"} => releases'[r].commit # 0
  <2>1. ReleaseOK(r)
    BY DEF ReleasesOK
  <2>2. QED
    BY <2>1 DEF ReleaseOK, KeptRelease
<1>2. IsSeq(releases') /\ Len(releases') = Len(releases)
  BY DEF ReleasesOK
<1>3. QED
  BY <1>1, <1>2, ReleasesKept

\* One Release changes.
LEMMA ReleaseEdited ==
  ASSUME ReleasesOK, SameTargets, Len(commits) \in Nat, Len(commits') \in Nat,
         Len(commits') >= Len(commits), NEW r \in Created, NEW new,
         releases' = [releases EXCEPT ![r] = new],
         DOMAIN new = ReleaseFields, new.build = releases[r].build, new.image = releases[r].image,
         new.from = releases[r].from, new.phase \in Phases, new.commit \in 0 .. Len(commits'),
         releases[r].commit # 0 => new.commit # 0,
         new.phase \in DonePhases \cup {"GitOpsChangeCommitted"} => new.commit # 0
  PROVE  /\ ReleasesOK' /\ Len(releases') = Len(releases)
         /\ \A q \in Created : KeptRelease(q) /\ (q # r => releases'[q] = releases[q])
<1>1. /\ IsSeq(releases') /\ Len(releases') = Len(releases) /\ releases'[r] = new
      /\ \A q \in Created : q # r => releases'[q] = releases[q]
  <2>1. IsSeq(releases) /\ DOMAIN releases = Created
    BY SeqFacts DEF ReleasesOK, Created
  <2>2. /\ DOMAIN releases' = DOMAIN releases /\ releases' = [i \in DOMAIN releases' |-> releases'[i]]
        /\ releases'[r] = new /\ \A q \in Created : q # r => releases'[q] = releases[q]
    BY <2>1
  <2>3. QED
    BY <2>1, <2>2, SeqReplaced
<1>2. ASSUME NEW q \in Created
      PROVE  /\ KeptRelease(q)
             /\ releases'[q].phase \in Phases
             /\ releases'[q].commit \in 0 .. Len(commits')
             /\ releases'[q].phase \in DonePhases \cup {"GitOpsChangeCommitted"} => releases'[q].commit # 0
  <2>1. CASE q = r
    BY <1>1, <2>1 DEF KeptRelease
  <2>2. CASE q # r
    <3>1. ReleaseOK(q) /\ releases'[q] = releases[q]
      BY <1>1, <2>2 DEF ReleasesOK
    <3>2. QED
      BY <3>1 DEF ReleaseOK, KeptRelease
  <2>3. QED
    BY <2>1, <2>2
<1>3. ReleasesOK'
  BY <1>1, <1>2, ReleasesKept
<1>4. QED
  BY <1>1, <1>2, <1>3

\* The remote repository keeps its commits.
CommitsGrow == Len(commits) \in Nat /\ Len(commits') \in Nat /\ Len(commits') >= Len(commits)

\* Setting a phase keeps the commit.
LEMMA PhaseSet ==
  ASSUME ReleasesOK, SameTargets, CommitsGrow, NEW r \in Created, NEW p \in Phases, Set(r, p),
         p \in DonePhases \cup {"GitOpsChangeCommitted"} => releases[r].commit # 0
  PROVE  /\ ReleasesOK' /\ Len(releases') = Len(releases)
         /\ \A q \in Created : KeptRelease(q) /\ releases'[q].commit = releases[q].commit
<1> DEFINE new == [releases[r] EXCEPT !.phase = p]
<1>1. releases' = [releases EXCEPT ![r] = new]
  BY DEF Set
<1>2. ReleaseOK(r)
  BY DEF ReleasesOK
<1>3. /\ DOMAIN new = ReleaseFields /\ new.phase = p
      /\ new.build = releases[r].build /\ new.image = releases[r].image
      /\ new.from = releases[r].from /\ new.commit = releases[r].commit
  BY <1>2 DEF ReleaseOK, ReleaseFields
<1>4. new.commit \in 0 .. Len(commits')
  BY <1>2, <1>3 DEF ReleaseOK, CommitsGrow
<1> HIDE DEF new
<1>5. /\ ReleasesOK' /\ Len(releases') = Len(releases)
      /\ \A q \in Created : KeptRelease(q) /\ (q # r => releases'[q] = releases[q])
  BY <1>1, <1>3, <1>4, ReleaseEdited DEF CommitsGrow
<1>6. releases'[r] = new
  BY <1>1, SeqFacts DEF ReleasesOK, Created
<1>7. QED
  BY <1>3, <1>5, <1>6

\* Types of the reconciles, whose Releases are there and whose commits are.
LEMMA WorkEdited ==
  ASSUME WorkOK, CommitsGrow, Created \subseteq Created', NEW r \in Ids, NEW new,
         work' = [work EXCEPT ![r] = new],
         DOMAIN new = {"step", "base", "tree"}, new.step \in {"idle", "checkout", "push"},
         new.base \in 0 .. Len(commits'), new.step # "idle" => r \in Created,
         new.step = "push" => new.base # 0
  PROVE  WorkOK' /\ work'[r] = new /\ \A q \in Ids : q # r => work'[q] = work[q]
<1>1. /\ DOMAIN work' = Ids /\ work'[r] = new
      /\ \A q \in Ids : q # r => work'[q] = work[q]
  BY DEF WorkOK
<1>2. ASSUME NEW q \in Ids
      PROVE  /\ DOMAIN work'[q] = {"step", "base", "tree"}
             /\ work'[q].step \in {"idle", "checkout", "push"}
             /\ work'[q].base \in 0 .. Len(commits')
             /\ work'[q].step # "idle" => q \in Created'
             /\ work'[q].step = "push" => work'[q].base # 0
  <2>1. CASE q = r
    BY <1>1, <2>1
  <2>2. CASE q # r
    BY <1>1, <2>2 DEF WorkOK, CommitsGrow
  <2>3. QED
    BY <2>1, <2>2
<1>3. QED
  BY <1>1, <1>2 DEF WorkOK, Ids

\* Reconciles that do not move stay well-formed,
LEMMA SameWork ==
  ASSUME WorkOK, CommitsGrow, Created \subseteq Created', work' = work
  PROVE  WorkOK'
BY DEF WorkOK, CommitsGrow, Ids

\* and those that end do.
LEMMA WorkIdle ==
  ASSUME WorkOK, CommitsGrow, Created \subseteq Created', NEW r \in Ids,
         work' = [work EXCEPT ![r] = Idle]
  PROVE  WorkOK' /\ work'[r] = Idle /\ \A q \in Ids : q # r => work'[q] = work[q]
<1>1. /\ DOMAIN Idle = {"step", "base", "tree"} /\ Idle.step = "idle" /\ Idle.base = 0
      /\ 0 \in 0 .. Len(commits')
  BY DEF Idle, CommitsGrow
<1> HIDE DEF Idle
<1>2. QED
  BY <1>1, WorkEdited

\* The remote repository is left alone.
LEMMA SameGit ==
  ASSUME GitOK, UNCHANGED gitVars, Created \subseteq Created'
  PROVE  GitOK' /\ CommitsGrow
<1>1. CommitsGrow
  BY SeqFacts DEF GitOK, CommitsGrow, gitVars
<1>2. GitOK'
  BY DEF GitOK, gitVars, Ids
<1>3. QED
  BY <1>1, <1>2

\* The Releases are numbered from one.
LEMMA Ranges ==
  ASSUME ReleasesOK
  PROVE  Created \subseteq Ids /\ Len(releases) \in Nat /\ DOMAIN releases = Created
<1>1. Len(releases) \in Nat /\ DOMAIN releases = 1 .. Len(releases) /\ Len(releases) <= MaxReleases
  BY SeqFacts DEF ReleasesOK
<1>2. QED
  BY <1>1, ConstantsAssumption DEF Created, Ids

\* A step keeps the types, and each Release and BuildRun what it deploys.
Keeps == TypeInv' /\ SameTargets /\ Created \subseteq Created' /\ \A q \in Created : KeptRelease(q)

\* Begin keeps the invariant, and every commit.
LEMMA BeginKeeps ==
  ASSUME TypeInv, NEW r \in Created, Begin(r)
  PROVE  Keeps /\ \A q \in Created : releases'[q].commit = releases[q].commit
<1>1. /\ SameTargets /\ BuildsOK' /\ budget' \in 0 .. MaxDisruptions
      /\ UNCHANGED gitVars
  BY SameBuilds DEF TypeInv, Begin
<1>2. CommitsGrow
  BY <1>1, SeqFacts DEF TypeInv, GitOK, CommitsGrow, gitVars
<1>3. \E p \in {"FailedValidation", "AwaitingApproval", "PreparingGitOpsChange"} : Set(r, p)
  BY DEF Begin
<1>4. /\ ReleasesOK' /\ Len(releases') = Len(releases)
      /\ \A q \in Created : KeptRelease(q) /\ releases'[q].commit = releases[q].commit
  BY <1>1, <1>2, <1>3, PhaseSet DEF TypeInv, Phases, FailedPhases, DonePhases
<1>5. Created' = Created /\ r \in Ids
  BY <1>4, Ranges DEF Created, TypeInv
<1>6. GitOK'
  BY <1>1, <1>5, SameGit DEF TypeInv
<1>7. WorkOK'
  <2>1. CASE work' = work
    BY <1>2, <1>5, <2>1, SameWork DEF TypeInv
  <2>2. CASE work' = [work EXCEPT ![r].step = "checkout"]
    <3> DEFINE new == [work[r] EXCEPT !.step = "checkout"]
    <3>1. work' = [work EXCEPT ![r] = new]
      BY <2>2
    <3>2. /\ DOMAIN new = {"step", "base", "tree"} /\ new.step = "checkout"
          /\ new.base = work[r].base /\ new.base \in 0 .. Len(commits')
      BY <1>2, <1>5 DEF TypeInv, WorkOK, CommitsGrow
    <3> HIDE DEF new
    <3>3. QED
      BY <1>2, <1>5, <3>1, <3>2, WorkEdited DEF TypeInv
  <2>3. QED
    BY <2>1, <2>2 DEF Begin
<1>8. QED
  BY <1>1, <1>4, <1>5, <1>6, <1>7 DEF Keeps, TypeInv

\* The Release records the commit, and its pull request has a branch.
LEMMA CommittedKeeps ==
  ASSUME ReleasesOK, SameTargets, CommitsGrow, NEW r \in Created, NEW commit \in 1 .. Len(commits'),
         Committed(r, commit)
  PROVE  /\ ReleasesOK' /\ Len(releases') = Len(releases)
         /\ \A q \in Created : KeptRelease(q) /\ (q # r => releases'[q].commit = releases[q].commit)
         /\ releases'[r].commit = commit
<1> DEFINE phase == IF releases[r].mode = "pull-request" /\ branch'[r] = 0
                    THEN "FailedProviderStatus" ELSE "GitOpsChangeCommitted"
           half == [releases[r] EXCEPT !.commit = commit]
           new == [half EXCEPT !.phase = phase]
<1>1. ReleaseOK(r) /\ r \in DOMAIN releases
  BY SeqFacts DEF ReleasesOK, Created
<1>2. releases' = [releases EXCEPT ![r] = new]
  BY <1>1 DEF Committed
<1>3. /\ DOMAIN half = ReleaseFields /\ half.commit = commit
      /\ half.build = releases[r].build /\ half.image = releases[r].image
      /\ half.from = releases[r].from
  BY <1>1 DEF ReleaseOK, ReleaseFields
<1>4. phase \in Phases
  BY DEF Phases, FailedPhases
<1> HIDE DEF half, phase
<1>5. /\ DOMAIN new = ReleaseFields /\ new.commit = commit /\ new.phase \in Phases
      /\ new.build = releases[r].build /\ new.image = releases[r].image
      /\ new.from = releases[r].from
  BY <1>3, <1>4 DEF ReleaseFields
<1>6. new.commit \in 0 .. Len(commits') /\ new.commit # 0
  BY <1>5
<1> HIDE DEF new
<1>7. /\ ReleasesOK' /\ Len(releases') = Len(releases)
      /\ \A q \in Created : KeptRelease(q) /\ (q # r => releases'[q] = releases[q])
  BY <1>2, <1>5, <1>6, ReleaseEdited DEF CommitsGrow
<1>8. releases'[r] = new
  BY <1>1, <1>2
<1>9. QED
  BY <1>5, <1>7, <1>8

\* A pull request is opened for a branch that is there.
LEMMA CommittedPulls ==
  ASSUME NEW r \in Ids, NEW commit, Committed(r, commit), GitOK
  PROVE  /\ pulls' \in [Ids -> {"none", "open", "merged", "closed"}]
         /\ \A q \in Ids : pulls'[q] = "open" => pulls[q] = "open" \/ branch'[q] # 0
BY DEF Committed, GitOK

\* Checkout keeps the invariant, and commits nothing.
LEMMA CheckoutKeeps ==
  ASSUME TypeInv, NEW r \in Created, Checkout(r)
  PROVE  Keeps /\ UNCHANGED <<commits, tip, branch>>
<1> DEFINE update == updateImageFiles(commits[tip].tree, releases[r].image, GitOps(releases[r].build))
<1>1. SameTargets /\ BuildsOK' /\ UNCHANGED <<commits, tip, branch>> /\ r \in Ids
  BY SameBuilds, Ranges DEF TypeInv, Checkout, gitVars
<1>2. CommitsGrow
  BY <1>1, SeqFacts DEF TypeInv, GitOK, CommitsGrow
<1>3. budget' \in 0 .. MaxDisruptions
  BY ConstantsAssumption DEF TypeInv, Checkout, Disrupt
<1> HIDE DEF update
<1>4. CASE \E p \in {"FailedGitClone", "FailedGitCommit"} : Fail(r, p) /\ UNCHANGED gitVars
  <2>1. ReleasesOK' /\ Len(releases') = Len(releases) /\ \A q \in Created : KeptRelease(q)
    BY <1>1, <1>2, <1>4, PhaseSet DEF TypeInv, Phases, FailedPhases, DonePhases, Fail
  <2>2. Created' = Created
    BY <2>1 DEF Created
  <2>3. WorkOK'
    BY <1>1, <1>2, <1>4, <2>2, WorkIdle DEF TypeInv, Fail
  <2>4. GitOK'
    BY <1>4, <2>2, SameGit DEF TypeInv
  <2>5. QED
    BY <1>1, <1>3, <2>1, <2>2, <2>3, <2>4 DEF Keeps, TypeInv
<1>5. CASE Committed(r, tip)
  <2>1. tip \in 1 .. Len(commits')
    BY <1>1 DEF TypeInv, GitOK
  <2>2. ReleasesOK' /\ Len(releases') = Len(releases) /\ \A q \in Created : KeptRelease(q)
    BY <1>1, <1>2, <1>5, <2>1, CommittedKeeps DEF TypeInv
  <2>3. Created' = Created
    BY <2>2 DEF Created
  <2>4. WorkOK'
    BY <1>1, <1>2, <1>5, <2>3, WorkIdle DEF TypeInv, Committed
  <2>5. GitOK'
    <3>1. /\ pulls' \in [Ids -> {"none", "open", "merged", "closed"}]
          /\ \A q \in Ids : pulls'[q] = "open" => pulls[q] = "open" \/ branch'[q] # 0
      BY <1>1, <1>5, CommittedPulls DEF TypeInv
    <3>2. QED
      BY <1>1, <2>3, <3>1 DEF TypeInv, GitOK, Ids
  <2>6. QED
    BY <1>1, <1>3, <2>2, <2>3, <2>4, <2>5 DEF Keeps, TypeInv
<1>6. CASE /\ work' = [work EXCEPT ![r] = [step |-> "push", base |-> tip, tree |-> update.tree]]
           /\ UNCHANGED <<releases, gitVars, budget>>
  <2> DEFINE new == [step |-> "push", base |-> tip, tree |-> update.tree]
  <2>1. ReleasesOK' /\ Created' = Created /\ \A q \in Created : KeptRelease(q)
    <3>1. ReleasesOK' /\ Created' = Created
      BY <1>1, <1>2, <1>6, SameReleases DEF TypeInv, CommitsGrow, Created
    <3>2. QED
      BY <1>6, <3>1 DEF KeptRelease, TypeInv, ReleasesOK, ReleaseOK
  <2>2. GitOK'
    BY <1>6, <2>1, SameGit DEF TypeInv
  <2>3. /\ DOMAIN new = {"step", "base", "tree"} /\ new.step = "push"
        /\ new.base \in 0 .. Len(commits') /\ new.base # 0
    BY <1>1 DEF TypeInv, GitOK
  <2>4. work' = [work EXCEPT ![r] = new]
    BY <1>6
  <2> HIDE DEF new
  <2>5. WorkOK'
    BY <1>1, <1>2, <2>1, <2>3, <2>4, WorkEdited DEF TypeInv
  <2>6. QED
    BY <1>1, <1>3, <2>1, <2>2, <2>5 DEF Keeps, TypeInv
<1>7. QED
  BY <1>4, <1>5, <1>6 DEF Checkout, update

\* The remote repository gets a commit.
CommitAdded(tree) ==
  /\ IsSeq(commits') /\ Len(commits') = Len(commits) + 1
  /\ \A c \in 1 .. Len(commits) : commits'[c] = commits[c]
  /\ commits'[Len(commits) + 1].tree = tree

\* A commit is added after the others.
LEMMA CommitAppended ==
  ASSUME GitOK, NEW tree, NEW parent, commits' = Append(commits, [tree |-> tree, parent |-> parent])
  PROVE  CommitAdded(tree) /\ CommitsGrow
<1> DEFINE new == [tree |-> tree, parent |-> parent]
<1>1. new.tree = tree /\ commits' = Append(commits, new)
  OBVIOUS
<1> HIDE DEF new
<1>2. /\ IsSeq(commits') /\ Len(commits') = Len(commits) + 1
      /\ \A c \in 1 .. Len(commits) : commits'[c] = commits[c]
      /\ commits'[Len(commits) + 1] = new
  BY <1>1, SeqAppend DEF GitOK
<1>3. Len(commits) \in Nat
  BY SeqFacts DEF GitOK
<1>4. QED
  BY <1>1, <1>2, <1>3 DEF CommitAdded, CommitsGrow

\* Push adds the tree of the reconcile and moves one branch.
LEMMA AdvanceKeeps ==
  ASSUME GitOK, NEW r \in Created, r \in Ids, Advance(r)
  PROVE  /\ CommitAdded(work[r].tree) /\ CommitsGrow
         /\ tip' \in 1 .. Len(commits') /\ branch' \in [Ids -> 0 .. Len(commits')]
         /\ \A q \in Ids : branch[q] # 0 => branch'[q] # 0
         /\ \A q \in Ids : q # r => branch'[q] = branch[q]
<1>1. CommitAdded(work[r].tree) /\ CommitsGrow
  BY CommitAppended DEF Advance
<1>2. /\ Len(commits) \in Nat /\ Len(commits') = Len(commits) + 1
      /\ tip \in 1 .. Len(commits) /\ branch \in [Ids -> 0 .. Len(commits)]
  BY <1>1, SeqFacts DEF GitOK, CommitAdded
<1>3. CASE releases[r].mode = "pull-request"
  <2>1. branch' = [branch EXCEPT ![r] = Len(commits) + 1] /\ tip' = tip
    BY <1>3 DEF Advance
  <2>2. QED
    BY <1>1, <1>2, <2>1
<1>4. CASE releases[r].mode # "pull-request"
  <2>1. tip' = Len(commits) + 1 /\ branch' = branch
    BY <1>4 DEF Advance
  <2>2. QED
    BY <1>1, <1>2, <2>1
<1>5. QED
  BY <1>3, <1>4

\* Push keeps the invariant.
LEMMA PushKeeps ==
  ASSUME TypeInv, NEW r \in Created, Push(r)
  PROVE  Keeps
<1>1. SameTargets /\ BuildsOK' /\ r \in Ids
  BY SameBuilds, Ranges DEF TypeInv, Push
<1>2. budget' \in 0 .. MaxDisruptions
  BY ConstantsAssumption DEF TypeInv, Push, Disrupt
<1>3. CASE Fail(r, "FailedGitPush") /\ UNCHANGED gitVars
  <2>0. CommitsGrow
    BY <1>3, SeqFacts DEF TypeInv, GitOK, CommitsGrow, gitVars
  <2>1. ReleasesOK' /\ Len(releases') = Len(releases) /\ \A q \in Created : KeptRelease(q)
    BY <1>1, <2>0, <1>3, PhaseSet DEF TypeInv, Phases, FailedPhases, DonePhases, Fail
  <2>2. Created' = Created
    BY <2>1 DEF Created
  <2>3. WorkOK'
    BY <1>1, <1>3, <2>0, <2>2, WorkIdle DEF TypeInv, Fail
  <2>4. GitOK'
    BY <1>3, <2>2, SameGit DEF TypeInv
  <2>5. QED
    BY <1>1, <1>2, <2>1, <2>2, <2>3, <2>4 DEF Keeps, TypeInv
<1>4. CASE Advance(r) /\ Committed(r, Len(commits) + 1)
  <2>1. /\ CommitAdded(work[r].tree) /\ CommitsGrow
        /\ tip' \in 1 .. Len(commits') /\ branch' \in [Ids -> 0 .. Len(commits')]
        /\ \A q \in Ids : branch[q] # 0 => branch'[q] # 0
        /\ \A q \in Ids : q # r => branch'[q] = branch[q]
    BY <1>1, <1>4, AdvanceKeeps DEF TypeInv
  <2>2. Len(commits) + 1 \in 1 .. Len(commits')
    BY <2>1 DEF CommitAdded, CommitsGrow
  <2>3. ReleasesOK' /\ Len(releases') = Len(releases) /\ \A q \in Created : KeptRelease(q)
    BY <1>1, <1>4, <2>1, <2>2, CommittedKeeps DEF TypeInv
  <2>4. Created' = Created
    BY <2>3 DEF Created
  <2>5. WorkOK'
    BY <1>1, <1>4, <2>1, <2>4, WorkIdle DEF TypeInv, Committed
  <2>6. GitOK'
    <3>1. /\ pulls' \in [Ids -> {"none", "open", "merged", "closed"}]
          /\ \A q \in Ids : pulls'[q] = "open" => pulls[q] = "open" \/ branch'[q] # 0
      BY <1>1, <1>4, CommittedPulls DEF TypeInv
    <3>2. QED
      BY <2>1, <2>4, <3>1 DEF TypeInv, GitOK, Ids, CommitAdded
  <2>7. QED
    BY <1>1, <1>2, <2>3, <2>4, <2>5, <2>6 DEF Keeps, TypeInv
<1>5. CASE Advance(r) /\ pulls' = pulls /\ work' = [work EXCEPT ![r] = Idle]
           /\ (Set(r, "FailedGitPush") \/ releases' = releases)
  <2>1. /\ CommitAdded(work[r].tree) /\ CommitsGrow
        /\ tip' \in 1 .. Len(commits') /\ branch' \in [Ids -> 0 .. Len(commits')]
        /\ \A q \in Ids : branch[q] # 0 => branch'[q] # 0
        /\ \A q \in Ids : q # r => branch'[q] = branch[q]
    BY <1>1, <1>5, AdvanceKeeps DEF TypeInv
  <2>2. ReleasesOK' /\ Len(releases') = Len(releases) /\ \A q \in Created : KeptRelease(q)
    <3>1. CASE Set(r, "FailedGitPush")
      BY <1>1, <2>1, <3>1, PhaseSet DEF TypeInv, Phases, FailedPhases, DonePhases
    <3>2. CASE releases' = releases
      <4>1. ReleasesOK'
        BY <1>1, <2>1, <3>2, SameReleases DEF TypeInv, CommitsGrow
      <4>2. QED
        BY <3>2, <4>1 DEF KeptRelease, TypeInv, ReleasesOK, ReleaseOK
    <3>3. QED
      BY <1>5, <3>1, <3>2
  <2>3. Created' = Created
    BY <2>2 DEF Created
  <2>4. WorkOK'
    BY <1>1, <1>5, <2>1, <2>3, WorkIdle DEF TypeInv
  <2>5. GitOK'
    BY <1>5, <2>1, <2>3 DEF TypeInv, GitOK, Ids, CommitAdded
  <2>6. QED
    BY <1>1, <1>2, <2>2, <2>3, <2>4, <2>5 DEF Keeps, TypeInv
<1>6. QED
  BY <1>3, <1>4, <1>5 DEF Push, Fail

\* A step that leaves the remote repository and the reconciles alone.
LEMMA ReleaseStepKeeps ==
  ASSUME TypeInv, ReleasesOK', Created \subseteq Created', \A q \in Created : KeptRelease(q),
         UNCHANGED <<work, builds, gitVars, budget>>
  PROVE  Keeps
<1>1. SameTargets /\ BuildsOK'
  BY SameBuilds DEF TypeInv
<1>2. GitOK' /\ CommitsGrow
  BY SameGit DEF TypeInv
<1>3. WorkOK'
  BY <1>2, SameWork DEF TypeInv
<1>4. QED
  BY <1>1, <1>2, <1>3 DEF Keeps, TypeInv

\* So do Proceed,
LEMMA ProceedKeeps ==
  ASSUME TypeInv, NEW r \in Created, Proceed(r)
  PROVE  Keeps /\ \A q \in Created : releases'[q].commit = releases[q].commit
<1>1. UNCHANGED <<work, builds, gitVars, budget>> /\ SameTargets /\ CommitsGrow
  BY SameBuilds, SeqFacts DEF TypeInv, Proceed, GitOK, CommitsGrow, gitVars
<1>2. releases[r].commit # 0
  BY DEF Proceed, TypeInv, ReleasesOK, ReleaseOK
<1>3. \E p \in DonePhases \cup FailedPhases : Set(r, p)
  BY DEF Proceed, DonePhases, FailedPhases
<1>4. /\ ReleasesOK' /\ Len(releases') = Len(releases)
      /\ \A q \in Created : KeptRelease(q) /\ releases'[q].commit = releases[q].commit
  BY <1>1, <1>2, <1>3, PhaseSet DEF TypeInv, Phases
<1>5. Created' = Created
  BY <1>4 DEF Created
<1>6. QED
  BY <1>1, <1>4, <1>5, ReleaseStepKeeps

\* Approve,
LEMMA ApproveKeeps ==
  ASSUME TypeInv, NEW r \in Created, Approve(r)
  PROVE  Keeps /\ \A q \in Created : releases'[q].commit = releases[q].commit
<1> DEFINE new == [releases[r] EXCEPT !.approved = TRUE]
<1>1. UNCHANGED <<work, builds, gitVars, budget>> /\ SameTargets /\ CommitsGrow
  BY SameBuilds, SeqFacts DEF TypeInv, Approve, GitOK, CommitsGrow, gitVars
<1>2. ReleaseOK(r) /\ releases' = [releases EXCEPT ![r] = new] /\ r \in DOMAIN releases
  BY SeqFacts DEF TypeInv, ReleasesOK, Approve, Created
<1>3. /\ DOMAIN new = ReleaseFields /\ new.phase = releases[r].phase
      /\ new.build = releases[r].build /\ new.image = releases[r].image
      /\ new.from = releases[r].from /\ new.commit = releases[r].commit
  BY <1>2 DEF ReleaseOK, ReleaseFields
<1> HIDE DEF new
<1>4. /\ new.phase \in Phases /\ new.commit \in 0 .. Len(commits')
      /\ new.phase \in DonePhases \cup {"GitOpsChangeCommitted"} => new.commit # 0
  BY <1>1, <1>2, <1>3 DEF ReleaseOK, gitVars
<1>5. /\ ReleasesOK' /\ Len(releases') = Len(releases)
      /\ \A q \in Created : KeptRelease(q) /\ (q # r => releases'[q] = releases[q])
  BY <1>1, <1>2, <1>3, <1>4, ReleaseEdited DEF TypeInv, CommitsGrow
<1>6. Created' = Created /\ releases'[r].commit = releases[r].commit
  BY <1>2, <1>3, <1>5 DEF Created
<1>7. QED
  BY <1>1, <1>5, <1>6, ReleaseStepKeeps

\* What a promotion or a rollback to Release t deploys.
LEMMA ResolvedImage ==
  ASSUME TypeInv, NEW t \in Created
  PROVE  LET image == resolvedReleaseImage(t)
         IN  /\ image \in Images /\ image.repository = Repository(releases[t].build)
             /\ releases[t].image.digest # "none" => image = releases[t].image
<1>1. ReleaseOK(t)
  BY DEF TypeInv, ReleasesOK
<1>2. builds[releases[t].build].image \in Images
  BY <1>1 DEF TypeInv, BuildsOK, ReleaseOK
<1>3. QED
  BY <1>1, <1>2 DEF resolvedReleaseImage, ReleaseOK, Repository

\* A Release is created from Release t, which has delivered.
LEMMA ReleaseCreated ==
  ASSUME TypeInv, NEW t \in Created, releases[t].phase = "Deployed", NEW new, CreateRelease(new),
         DOMAIN new = ReleaseFields, new.build = releases[t].build, new.image = resolvedReleaseImage(t),
         new.phase = "Unset", new.commit = 0, new.from = t
  PROVE  /\ Keeps /\ Len(releases') = Len(releases) + 1
         /\ \A q \in Created : releases'[q] = releases[q]
         /\ releases'[Len(releases) + 1].commit = 0
<1>1. /\ IsSeq(releases) /\ Len(releases) \in Nat /\ DOMAIN releases = Created
      /\ \A q \in Created : ReleaseOK(q) /\ PromotesDelivered(q)
  BY Ranges DEF TypeInv, ReleasesOK
<1>n. PICK n \in Nat : n = Len(releases) + 1
  BY <1>1
<1>2. /\ IsSeq(releases') /\ Len(releases') = n
      /\ \A q \in Created : releases'[q] = releases[q]
      /\ releases'[n] = new
  BY <1>1, <1>n, SeqAppend DEF CreateRelease, Created
<1>3. UNCHANGED <<work, builds, gitVars, budget>> /\ SameTargets
  BY SameBuilds DEF TypeInv, CreateRelease
<1>4. Created' = Created \cup {n} /\ n \notin Created /\ Created \subseteq Created'
  BY <1>1, <1>2, <1>n DEF Created
<1>5. \A q \in Created : KeptRelease(q)
  BY <1>1, <1>2 DEF KeptRelease, ReleaseOK
<1>6. ReleaseOK(n)'
  <2>1. new.image \in Images /\ new.image.repository = builds[releases[t].build].image.repository
    BY ResolvedImage DEF Repository
  <2>2. releases[t].build \in DOMAIN builds
    BY <1>1 DEF ReleaseOK
  <2>3. new.from \in 0 .. n - 1 /\ new.commit \in 0 .. Len(commits)
    BY <1>1, <1>n, SeqFacts DEF Created, TypeInv, GitOK
  <2>4. new.phase \in Phases \ (DonePhases \cup {"GitOpsChangeCommitted"})
    BY DEF Phases, DonePhases
  <2>5. QED
    BY <1>2, <1>3, <2>1, <2>2, <2>3, <2>4 DEF ReleaseOK, Repository, gitVars
<1>7. PromotesDelivered(n)'
  <2>1. releases[t].commit # 0
    BY <1>1 DEF ReleaseOK, DonePhases
  <2>2. releases[t].image.digest # "none" => new.image = releases[t].image
    BY ResolvedImage
  <2>3. QED
    BY <1>2, <2>1, <2>2 DEF PromotesDelivered
<1>8. ASSUME NEW q \in Created PROVE ReleaseOK(q)' /\ PromotesDelivered(q)'
  <2>1. releases[q].from # 0 => releases[q].from \in Created
    BY <1>1 DEF ReleaseOK, Created
  <2>2. QED
    <3>1. ReleaseOK(q) /\ PromotesDelivered(q) /\ releases'[q] = releases[q]
          /\ (releases[q].from # 0 => releases'[releases[q].from] = releases[releases[q].from])
      BY <1>1, <1>2, <2>1
    <3>2. ReleaseOK(q)'
      BY <1>3, <3>1 DEF ReleaseOK, Repository, gitVars
    <3>3. PromotesDelivered(q)'
      BY <3>1 DEF PromotesDelivered
    <3>4. QED
      BY <3>2, <3>3
<1>9. ReleasesOK'
  <2>1. n <= MaxReleases
    BY <1>1, <1>n, ConstantsAssumption DEF CreateRelease
  <2>2. QED
    BY <1>2, <1>4, <1>6, <1>7, <1>8, <2>1 DEF ReleasesOK
<1>10. QED
  BY <1>n, <1>2, <1>3, <1>4, <1>5, <1>9, ReleaseStepKeeps

\* promote,
LEMMA PromoteKeeps ==
  ASSUME TypeInv, NEW r \in Created, NEW e, promoteRelease(r, e)
  PROVE  /\ Keeps /\ Len(releases') = Len(releases) + 1
         /\ \A q \in Created : releases'[q] = releases[q]
         /\ releases'[Len(releases) + 1].commit = 0
<1> DEFINE image == resolvedReleaseImage(r)
           required == ActionRequiresApproval(e)
           new == [NewRelease(releases[r].build, e, image, releases[r].mode)
                     EXCEPT !.from = r, !.required = required]
<1>1. releases[r].phase = "Deployed" /\ CreateRelease(new)
  BY DEF promoteRelease
<1> HIDE DEF image, required
<1>2. /\ DOMAIN new = ReleaseFields /\ new.build = releases[r].build /\ new.image = image
      /\ new.phase = "Unset" /\ new.commit = 0 /\ new.from = r
  BY DEF NewRelease, ReleaseFields
<1> HIDE DEF new
<1>3. QED
  BY <1>1, <1>2, ReleaseCreated DEF image

\* rollback,
LEMMA RollbackKeeps ==
  ASSUME TypeInv, NEW r \in Created, NEW t \in Created, rollbackRelease(r, t)
  PROVE  /\ Keeps /\ Len(releases') = Len(releases) + 1
         /\ \A q \in Created : releases'[q] = releases[q]
         /\ releases'[Len(releases) + 1].commit = 0
<1> DEFINE image == resolvedReleaseImage(t)
           required == ActionRequiresApproval(releases[r].env)
           new == [NewRelease(releases[t].build, releases[r].env, image, releases[r].mode)
                     EXCEPT !.from = t, !.rollback = TRUE, !.required = required]
<1>1. releases[t].phase = "Deployed" /\ CreateRelease(new)
  BY DEF rollbackRelease
<1> HIDE DEF image, required
<1>2. /\ DOMAIN new = ReleaseFields /\ new.build = releases[t].build /\ new.image = image
      /\ new.phase = "Unset" /\ new.commit = 0 /\ new.from = t
  BY DEF NewRelease, ReleaseFields
<1> HIDE DEF new
<1>3. QED
  BY <1>1, <1>2, ReleaseCreated DEF image

\* and the review, which merges the update of the deployment branch or nothing.
LEMMA ReviewKeeps ==
  ASSUME TypeInv, NEW r \in Created, Review(r)
  PROVE  /\ Keeps /\ UNCHANGED <<releases, work, branch, admitted>>
         /\ \/ UNCHANGED <<commits, tip>>
            \/ CommitAdded(Update(tip, r).tree) /\ tip' = Len(commits) + 1 /\ pulls[r] = "open"
<1>1. UNCHANGED <<releases, work, builds, branch, admitted, budget>> /\ pulls[r] = "open"
  BY DEF Review
<1>2. SameTargets /\ BuildsOK' /\ r \in Ids /\ Created' = Created
  BY <1>1, SameBuilds, Ranges DEF TypeInv, Created
<1>3. /\ pulls' \in [Ids -> {"none", "open", "merged", "closed"}]
      /\ \A q \in Ids : pulls'[q] = "open" => pulls[q] = "open"
  BY <1>2 DEF Review, TypeInv, GitOK
<1>4. \/ UNCHANGED <<commits, tip>>
      \/ CommitAdded(Update(tip, r).tree) /\ CommitsGrow /\ tip' = Len(commits) + 1
  <2>1. CASE UNCHANGED <<commits, tip>>
    BY <2>1
  <2>2. CASE /\ commits' = Append(commits, [tree |-> Update(tip, r).tree, parent |-> tip])
             /\ tip' = Len(commits) + 1
    <3> DEFINE tree == Update(tip, r).tree
    <3>1. commits' = Append(commits, [tree |-> tree, parent |-> tip])
      BY <2>2
    <3> HIDE DEF tree
    <3>2. CommitAdded(tree) /\ CommitsGrow
      BY <3>1, CommitAppended DEF TypeInv
    <3>3. QED
      BY <2>2, <3>2 DEF tree
  <2>3. QED
    BY <2>1, <2>2 DEF Review, Update
<1>5. CommitsGrow /\ IsSeq(commits') /\ tip' \in 1 .. Len(commits')
  <2>1. IsSeq(commits) /\ Len(commits) \in Nat /\ tip \in 1 .. Len(commits)
    BY SeqFacts DEF TypeInv, GitOK
  <2>2. QED
    BY <1>4, <2>1 DEF CommitAdded, CommitsGrow
<1>6. GitOK'
  <2>1. branch' \in [Ids -> 0 .. Len(commits')]
    BY <1>1, <1>5 DEF TypeInv, GitOK, CommitsGrow
  <2>2. QED
    BY <1>1, <1>2, <1>3, <1>5, <2>1 DEF TypeInv, GitOK, Ids
<1>7. WorkOK' /\ ReleasesOK'
  BY <1>1, <1>2, <1>5, SameWork, SameReleases DEF TypeInv, CommitsGrow
<1>8. \A q \in Created : KeptRelease(q)
  BY <1>1 DEF KeptRelease, TypeInv, ReleasesOK, ReleaseOK
<1>9. Keeps
  BY <1>1, <1>2, <1>6, <1>7, <1>8 DEF Keeps, TypeInv
<1>10. QED
  BY <1>1, <1>4, <1>9

\* BuildRuns, Environments or nothing at all change.
LEMMA OthersKeep ==
  ASSUME TypeInv, UNCHANGED <<releases, work, gitVars, admitted>>,
         \/ UNCHANGED <<builds, budget>>
         \/ \E b \in DOMAIN builds : Rebuild(b) \/ DeleteBuildRun(b)
         \/ \E e \in DOMAIN Environments : EditEnvironment(e)
  PROVE  Keeps
<1>1. SameTargets /\ BuildsOK'
  <2>1. CASE builds' = builds
    BY <2>1, SameBuilds DEF TypeInv
  <2>2. CASE \E b \in DOMAIN builds : Rebuild(b) \/ DeleteBuildRun(b)
    BY <2>2, RebuildKeepsTargets, DeleteKeepsTargets DEF TypeInv
  <2>3. QED
    BY <2>1, <2>2 DEF EditEnvironment
<1>2. budget' \in 0 .. MaxDisruptions
  BY ConstantsAssumption DEF TypeInv, Rebuild, DeleteBuildRun, EditEnvironment, Disrupt
<1>3. Created' = Created /\ \A q \in Created : KeptRelease(q)
  BY DEF Created, KeptRelease, TypeInv, ReleasesOK, ReleaseOK
<1>4. GitOK' /\ CommitsGrow
  BY <1>3, SameGit DEF TypeInv
<1>5. WorkOK' /\ ReleasesOK'
  BY <1>1, <1>3, <1>4, SameWork, SameReleases DEF TypeInv, CommitsGrow
<1>6. QED
  BY <1>1, <1>2, <1>3, <1>4, <1>5 DEF Keeps, TypeInv

\* Every step keeps the invariant, the targets and what a Release is for.
LEMMA NextKeeps ==
  ASSUME TypeInv, [Next]_vars
  PROVE  Keeps
<1>1. ASSUME NEW r \in Created, Reconcile(r) PROVE Keeps
  BY <1>1, BeginKeeps, CheckoutKeeps, PushKeeps, ProceedKeeps DEF Reconcile
<1>2. ASSUME NEW r \in Created, Approve(r) \/ Review(r) PROVE Keeps
  BY <1>2, ApproveKeeps, ReviewKeeps
<1>3. ASSUME NEW r \in Created, NEW e \in DOMAIN Environments, promoteRelease(r, e) PROVE Keeps
  BY <1>3, PromoteKeeps
<1>4. ASSUME NEW r \in Created, NEW t \in Created, rollbackRelease(r, t) PROVE Keeps
  BY <1>4, RollbackKeeps
<1>5. ASSUME NEW b \in DOMAIN builds, Rebuild(b) \/ DeleteBuildRun(b) PROVE Keeps
  BY <1>5, OthersKeep DEF Rebuild, DeleteBuildRun
<1>6. ASSUME NEW e \in DOMAIN Environments, EditEnvironment(e) PROVE Keeps
  BY <1>6, OthersKeep DEF EditEnvironment
<1>7. ASSUME UNCHANGED vars PROVE Keeps
  BY <1>7, OthersKeep DEF vars, gitVars
<1>8. QED
  BY <1>1, <1>2, <1>3, <1>4, <1>5, <1>6, <1>7 DEF Next

\* The invariant holds at the start.
LEMMA InitTyped ==
  ASSUME Init
  PROVE  TypeInv
<1> DEFINE Run == [environment : DOMAIN Environments, signature : BOOLEAN, exists : BOOLEAN,
                   gitOps : GitOpsSpecs, image : Images]
           n == Len(builds)
<1>1. builds \in BuildRuns /\ builds \in Seq(Run) /\ n <= MaxReleases
  BY BuildRunsAssumption DEF Init
<1>2. /\ n \in Nat /\ DOMAIN builds = 1 .. n
      /\ \A b \in 1 .. n : builds[b] \in Run
  <2> HIDE DEF Run
  <2> QED  BY <1>1
<1>3. \A b \in 1 .. n :
        /\ DOMAIN builds[b] = {"environment", "signature", "exists", "gitOps", "image"}
        /\ builds[b].image \in Images
  BY <1>2
<1> HIDE DEF Run
<1>4. BuildsOK
  BY <1>1, <1>2, <1>3 DEF BuildsOK
<1>5. PICK mode \in Modes, digests \in [DOMAIN builds -> BOOLEAN] :
        releases = [b \in DOMAIN builds |->
          NewRelease(b, builds[b].environment,
                     IF digests[b] THEN builds[b].image ELSE [builds[b].image EXCEPT !.digest = "none"],
                     mode)]
  BY DEF Init
<1> DEFINE image(b) == IF digests[b] THEN builds[b].image ELSE [builds[b].image EXCEPT !.digest = "none"]
<1>6. \A b \in 1 .. n : image(b) \in Images /\ image(b).repository = builds[b].image.repository
  <2> SUFFICES ASSUME NEW b \in 1 .. n
               PROVE  image(b) \in Images /\ image(b).repository = builds[b].image.repository
    OBVIOUS
  <2>1. builds[b].image \in Images /\ "none" \in Scalars
    BY <1>3 DEF Scalars
  <2> HIDE DEF n
  <2>2. QED
    BY <2>1 DEF Images
<1> HIDE DEF image
<1>7. /\ DOMAIN releases = 1 .. n /\ releases = [r \in 1 .. n |-> releases[r]]
      /\ \A r \in 1 .. n : releases[r] = NewRelease(r, builds[r].environment, image(r), mode)
  BY <1>2, <1>5 DEF image
<1>8. IsSeq(releases) /\ Len(releases) = n /\ Created = 1 .. n
  BY <1>2, <1>7, SeqOfLength DEF Created
<1>9. /\ IsSeq(commits) /\ Len(commits) = 1 /\ tip = 1
  <2>1. PICK tree \in Trees : commits = <<[tree |-> tree, parent |-> 0]>>
    BY DEF Init
  <2> DEFINE commit == [tree |-> tree, parent |-> 0]
  <2>2. commits = <<commit>>
    BY <2>1
  <2> HIDE DEF commit
  <2>3. commits \in Seq({commit}) /\ Len(commits) = 1
    BY <2>2
  <2>4. QED
    BY <2>3 DEF Init, IsSeq
<1>10. ASSUME NEW r \in Created PROVE ReleaseOK(r) /\ PromotesDelivered(r)
  <2>1. r \in 1 .. n /\ r \in Nat /\ r > 0
    BY <1>2, <1>8
  <2>2. /\ DOMAIN releases[r] = ReleaseFields /\ releases[r].build = r /\ releases[r].image = image(r)
        /\ releases[r].phase = "Unset" /\ releases[r].commit = 0 /\ releases[r].from = 0
    BY <1>7, <2>1 DEF NewRelease, ReleaseFields
  <2>3. image(r) \in Images /\ image(r).repository = builds[r].image.repository /\ r \in DOMAIN builds
    BY <1>2, <1>6, <2>1
  <2>4. "Unset" \in Phases \ (DonePhases \cup {"GitOpsChangeCommitted"})
    BY DEF Phases, DonePhases
  <2>5. ReleaseOK(r)
    BY <1>9, <2>1, <2>2, <2>3, <2>4 DEF ReleaseOK, Repository
  <2>6. PromotesDelivered(r)
    BY <2>2 DEF PromotesDelivered
  <2>7. QED
    BY <2>5, <2>6
<1>11. ReleasesOK
  BY <1>1, <1>8, <1>10 DEF ReleasesOK
<1>12. WorkOK
  BY <1>9 DEF Init, WorkOK, Idle
<1>13. GitOK
  BY <1>9 DEF Init, GitOK
<1>14. budget \in 0 .. MaxDisruptions
  BY ConstantsAssumption DEF Init
<1>15. QED
  BY <1>4, <1>11, <1>12, <1>13, <1>14 DEF TypeInv

\* What Releases, reconciles, branches and pull requests hold, and that Releases
\* record commits there are and come from earlier Releases.
THEOREM TypeCorrect == Spec => []TypeOK
<1>1. Init => TypeInv
  BY InitTyped
<1>2. TypeInv /\ [Next]_vars => TypeInv'
  BY NextKeeps DEF Keeps
<1>3. TypeInv => TypeOK
  <2> SUFFICES ASSUME TypeInv PROVE TypeOK
    OBVIOUS
  <2>1. \A r \in Created :
          /\ releases[r].phase \in Phases
          /\ releases[r].commit \in 0 .. Len(commits)
          /\ releases[r].from \in 0 .. r - 1
    BY DEF TypeInv, ReleasesOK, ReleaseOK
  <2>2. tip \in DOMAIN commits
    BY SeqFacts DEF TypeInv, GitOK
  <2>3. QED
    BY <2>1, <2>2 DEF TypeInv, TypeOK, Phases, ReleasesOK, WorkOK, GitOK
<1>4. QED
  BY <1>1, <1>2, <1>3, PTL DEF Spec

(***************************************************************************)
(* What the commits render.                                                *)
(***************************************************************************)

\* The targets of the BuildRuns are well-formed at the start,
LEMMA RunTargets ==
  ASSUME NEW runs \in BuildRuns, NEW b \in DOMAIN runs
  PROVE  runs[b].gitOps \in GitOpsSpecs
<1> DEFINE Run == [environment : DOMAIN Environments, signature : BOOLEAN, exists : BOOLEAN,
                   gitOps : GitOpsSpecs, image : Images]
<1>1. runs \in Seq(Run)
  BY BuildRunsAssumption
<1>2. runs[b] \in Run
  <2> HIDE DEF Run
  <2> QED  BY <1>1
<1>3. QED
  BY <1>2

\* and later,
LEMMA TargetsTyped ==
  ASSUME TypeInv, NEW b \in DOMAIN builds
  PROVE  GitOps(b) \in GitOpsSpecs
<1>1. PICK runs \in BuildRuns :
        DOMAIN builds = DOMAIN runs /\ \A c \in DOMAIN runs : builds[c].gitOps = runs[c].gitOps
  BY DEF TypeInv, BuildsOK
<1>2. QED
  BY <1>1, RunTargets DEF GitOps

\* as are the image and the target of a Release.
LEMMA ReleaseTarget ==
  ASSUME TypeInv, NEW r \in Created
  PROVE  /\ releases[r].build \in DOMAIN builds
         /\ GitOps(releases[r].build) \in GitOpsSpecs
         /\ releases[r].image \in Images
         /\ releases[r].image.repository = Repository(releases[r].build)
<1>1. /\ releases[r].build \in DOMAIN builds /\ releases[r].image \in Images
      /\ releases[r].image.repository = Repository(releases[r].build)
  BY DEF TypeInv, ReleasesOK, ReleaseOK
<1>2. QED
  BY <1>1, TargetsTyped

\* What the update of a commit by a Release gives.
LEMMA UpdateFits ==
  ASSUME TypeInv, TargetsAlike, CommitsFit, NEW r \in Created, NEW c \in 1 .. Len(commits),
         NEW b \in DOMAIN builds
  PROVE  IsTree(Update(c, r).tree) /\ Fits(Update(c, r).tree, GitOps(b), Repository(b))
<1> DEFINE t == GitOps(releases[r].build)
           tree == commits[c].tree
<1>1. /\ releases[r].build \in DOMAIN builds /\ t \in GitOpsSpecs /\ releases[r].image \in Images
      /\ releases[r].image.repository = Repository(releases[r].build)
  BY ReleaseTarget
<1>2. /\ IsTree(tree) /\ Fits(tree, t, releases[r].image.repository)
      /\ Fits(tree, GitOps(b), Repository(b)) /\ Alike(t, GitOps(b)) /\ GitOps(b) \in GitOpsSpecs
  BY <1>1, TargetsTyped DEF CommitsFit, TargetsAlike
<1> HIDE DEF t, tree
<1>3. /\ IsTree(updateImageFiles(tree, releases[r].image, t).tree)
      /\ Fits(updateImageFiles(tree, releases[r].image, t).tree, GitOps(b), Repository(b))
  BY <1>1, <1>2, TreeUpdate, TreeKeepsFit
<1>4. QED
  BY <1>3 DEF Update, t, tree

\* Targets that are kept stay alike.
LEMMA TargetsStayAlike ==
  ASSUME TargetsAlike, SameTargets
  PROVE  TargetsAlike'
BY DEF TargetsAlike, SameTargets

\* A step that commits nothing keeps the trees fit,
LEMMA SameCommits ==
  ASSUME CommitsFit, SameTargets, commits' = commits
  PROVE  CommitsFit'
BY DEF CommitsFit, SameTargets

\* and one that commits an update does.
LEMMA CommitFits ==
  ASSUME TypeInv, TargetsAlike, CommitsFit, SameTargets, NEW r \in Created, NEW c \in 1 .. Len(commits),
         NEW tree, tree = Update(c, r).tree, CommitAdded(tree)
  PROVE  CommitsFit'
<1>1. /\ Len(commits) \in Nat /\ Len(commits') = Len(commits) + 1
      /\ \A d \in 1 .. Len(commits) : commits'[d] = commits[d]
      /\ commits'[Len(commits) + 1].tree = tree
  BY SeqFacts DEF TypeInv, GitOK, CommitAdded
<1>2. \A b \in DOMAIN builds : IsTree(tree) /\ Fits(tree, GitOps(b), Repository(b))
  BY UpdateFits
<1>3. IsTree(tree)
  BY <1>2, ReleaseTarget
<1>4. ASSUME NEW d \in 1 .. Len(commits')
      PROVE  /\ IsTree(commits'[d].tree)
             /\ \A b \in DOMAIN builds : Fits(commits'[d].tree, GitOps(b), Repository(b))
  <2>1. CASE d \in 1 .. Len(commits)
    BY <1>1, <2>1 DEF CommitsFit
  <2>2. CASE d = Len(commits) + 1
    BY <1>1, <1>2, <1>3, <2>2
  <2>3. QED
    BY <1>1, <2>1, <2>2
<1>5. QED
  BY <1>4 DEF CommitsFit, SameTargets

\* A Release that has delivered.
Delivers(r) ==
  /\ DeliveredImage(r) = {imageString(releases[r].image)}
  /\ ~Update(releases[r].commit, r).changed

\* The two properties, for each Release that has a commit.
LEMMA DeliveredInv == CommitRendersImage /\ UpdateIsIdempotent <=> \A r \in Delivered : Delivers(r)
BY DEF CommitRendersImage, UpdateIsIdempotent, Delivers, Update

\* The commit of a successful update delivers.
LEMMA UpdateDelivers ==
  ASSUME TypeInv, CommitsFit, NEW r \in Created, NEW c \in 1 .. Len(commits), Update(c, r).ok
  PROVE  LET new == Update(c, r).tree
         IN  /\ Rendered(new, releases[r].build) = {imageString(releases[r].image)}
             /\ ~updateImageFiles(new, releases[r].image, GitOps(releases[r].build)).changed
<1> DEFINE t == GitOps(releases[r].build)
           tree == commits[c].tree
           image == releases[r].image
<1>1. /\ releases[r].build \in DOMAIN builds /\ t \in GitOpsSpecs /\ image \in Images
      /\ image.repository = Repository(releases[r].build)
  BY ReleaseTarget
<1>2. IsTree(tree) /\ Fits(tree, t, image.repository)
  BY <1>1 DEF CommitsFit
<1>3. updateImageFiles(tree, image, t).ok
  BY DEF Update
<1> HIDE DEF t, tree, image
<1>4. /\ RenderedTree(updateImageFiles(tree, image, t).tree, t, image.repository) = {imageString(image)}
      /\ ~updateImageFiles(updateImageFiles(tree, image, t).tree, image, t).changed
  BY <1>1, <1>2, <1>3, TreeRenders
<1>5. QED
  BY <1>1, <1>4 DEF Update, Rendered, t, tree, image

\* So does a commit that the update leaves as it is.
LEMMA UnchangedDelivers ==
  ASSUME TypeInv, CommitsFit, NEW r \in Created, NEW c \in 1 .. Len(commits), ~Update(c, r).changed
  PROVE  Update(c, r).tree = commits[c].tree
<1> DEFINE t == GitOps(releases[r].build)
           tree == commits[c].tree
           image == releases[r].image
<1>1. /\ releases[r].build \in DOMAIN builds /\ t \in GitOpsSpecs /\ image \in Images
      /\ image.repository = Repository(releases[r].build)
  BY ReleaseTarget
<1>2. IsTree(tree) /\ Fits(tree, t, image.repository)
  BY <1>1 DEF CommitsFit
<1>3. ~updateImageFiles(tree, image, t).changed
  BY DEF Update
<1> HIDE DEF t, tree, image
<1>4. updateImageFiles(tree, image, t).tree = tree
  BY <1>1, <1>2, <1>3, TreeUnchanged
<1>5. QED
  BY <1>4 DEF Update, t, tree, image

CommitsStay == \A c \in 1 .. Len(commits) : commits'[c] = commits[c]

\* An update waiting to be pushed stays the update of its base,
LEMMA KeptPush ==
  ASSUME TypeInv, Keeps, CommitsStay, NEW q \in Ids, work[q].step = "push", Pushes(q),
         work'[q] = work[q]
  PROVE  Pushes(q)'
<1>1. q \in Created /\ work[q].base \in 1 .. Len(commits)
  BY SeqFacts DEF TypeInv, WorkOK, GitOK
<1>2. releases[q].build \in DOMAIN builds
  BY <1>1, ReleaseTarget
<1>3. /\ releases'[q].image = releases[q].image /\ releases'[q].build = releases[q].build
      /\ builds'[releases[q].build].gitOps = builds[releases[q].build].gitOps
      /\ commits'[work[q].base] = commits[work[q].base]
  BY <1>1, <1>2 DEF Keeps, KeptRelease, SameTargets, GitOps, CommitsStay
<1>4. QED
  BY <1>3 DEF Pushes, Update, GitOps

\* and a commit keeps delivering, while commits are not rewritten.
LEMMA KeptDelivery ==
  ASSUME TypeInv, Keeps, CommitsStay, NEW q \in Created, releases[q].commit # 0, Delivers(q),
         releases'[q].commit = releases[q].commit
  PROVE  Delivers(q)'
<1>1. releases[q].commit \in 1 .. Len(commits) /\ releases[q].build \in DOMAIN builds
  BY SeqFacts DEF TypeInv, ReleasesOK, ReleaseOK, GitOK
<1>2. /\ releases'[q].image = releases[q].image /\ releases'[q].build = releases[q].build
      /\ builds'[releases[q].build].gitOps = builds[releases[q].build].gitOps
      /\ builds'[releases[q].build].image.repository = builds[releases[q].build].image.repository
      /\ commits'[releases[q].commit] = commits[releases[q].commit]
  BY <1>1 DEF Keeps, KeptRelease, SameTargets, GitOps, Repository, CommitsStay
<1>3. QED
  BY <1>2 DEF Delivers, DeliveredImage, Rendered, Update, GitOps, Repository

\* What a step has to show for its own Release.
LEMMA ClearStep ==
  ASSUME TypeInv, ClearInv, Keeps, CommitsStay, CommitsFit',
         \A q \in Ids : work'[q] = work[q] \/ work'[q].step # "push" \/ Pushes(q)',
         \A q \in Created' : \/ releases'[q].commit = 0
                             \/ Delivers(q)'
                             \/ q \in Created /\ releases'[q].commit = releases[q].commit
  PROVE  ClearInv'
<1>1. TargetsAlike'
  BY TargetsStayAlike DEF ClearInv, Keeps
<1>2. PushesUpdate'
  <2>1. ASSUME NEW q \in Ids, work'[q].step = "push" PROVE Pushes(q)'
    BY <2>1, KeptPush DEF ClearInv, PushesUpdate
  <2>2. QED
    BY <2>1 DEF PushesUpdate, Ids
<1>3. ASSUME NEW q \in Created', releases'[q].commit # 0 PROVE Delivers(q)'
  <2>1. CASE q \in Created /\ releases'[q].commit = releases[q].commit
    <3>1. Delivers(q)
      BY <1>3, <2>1, DeliveredInv DEF ClearInv, Delivered
    <3>2. QED
      BY <1>3, <2>1, <3>1, KeptDelivery
  <2>2. QED
    BY <1>3, <2>1
<1>4. (\A q \in Delivered : Delivers(q))'
  BY <1>3 DEF Delivered
<1>5. (CommitRendersImage /\ UpdateIsIdempotent)'
  BY <1>4 DEF CommitRendersImage, UpdateIsIdempotent, Delivers, Update
<1>6. QED
  BY <1>1, <1>2, <1>5 DEF ClearInv

\* A step that makes no commit and no clone.
LEMMA QuietStep ==
  ASSUME TypeInv, ClearInv, Keeps, commits' = commits,
         \A q \in Ids : work'[q] = work[q] \/ work'[q].step # "push",
         \A q \in Created' : \/ releases'[q].commit = 0
                             \/ q \in Created /\ releases'[q].commit = releases[q].commit
  PROVE  ClearInv'
<1>1. CommitsStay /\ CommitsFit'
  BY SameCommits DEF CommitsStay, ClearInv, Keeps
<1>2. QED
  BY <1>1, ClearStep

\* Begin commits nothing and pushes nothing.
LEMMA BeginClear ==
  ASSUME TypeInv, ClearInv, NEW r \in Created, Begin(r)
  PROVE  ClearInv'
<1>1. Keeps /\ \A q \in Created : releases'[q].commit = releases[q].commit
  BY BeginKeeps
<1>2. commits' = commits
  BY DEF Begin, gitVars
<1>3. Created' = Created
  <2>1. Len(releases') = Len(releases)
    <3>1. PICK p : Set(r, p)
      BY DEF Begin
    <3>2. DOMAIN releases' = DOMAIN releases
      BY <3>1 DEF Set
    <3>3. IsSeq(releases) /\ IsSeq(releases')
      BY <1>1 DEF Keeps, TypeInv, ReleasesOK
    <3>4. QED
      BY <3>2, <3>3, SeqFacts
  <2>2. QED
    BY <2>1 DEF Created
<1>4. \A q \in Ids : work'[q] = work[q] \/ work'[q].step # "push"
  <2>1. CASE work' = work
    BY <2>1
  <2>2. CASE work' = [work EXCEPT ![r].step = "checkout"]
    <3>1. r \in Ids
      BY Ranges DEF TypeInv
    <3>2. QED
      BY <2>2, <3>1 DEF TypeInv, WorkOK
  <2>3. QED
    BY <2>1, <2>2 DEF Begin
<1>5. QED
  BY <1>1, <1>2, <1>3, <1>4, QuietStep

\* Checkout finds the update already there, or prepares it.
LEMMA CheckoutClear ==
  ASSUME TypeInv, ClearInv, NEW r \in Created, Checkout(r)
  PROVE  ClearInv'
<1>1. Keeps /\ commits' = commits /\ tip' = tip /\ builds' = builds
  BY CheckoutKeeps DEF Checkout
<1>2. CommitsStay /\ CommitsFit' /\ r \in Ids /\ tip \in 1 .. Len(commits)
  BY <1>1, SameCommits, Ranges DEF CommitsStay, ClearInv, Keeps, TypeInv, GitOK
<1>3. CASE \E p : Fail(r, p)
  <2>1. PICK p : Fail(r, p)
    BY <1>3
  <2>2. \A q \in Ids : work'[q] = work[q] \/ work'[q].step # "push"
    BY <1>2, <2>1 DEF Fail, Idle, TypeInv, WorkOK
  <2>3. DOMAIN releases' = DOMAIN releases /\ \A q \in Created : releases'[q].commit = releases[q].commit
    <3>1. DOMAIN releases = Created /\ \A q \in Created : DOMAIN releases[q] = ReleaseFields
      BY Ranges DEF TypeInv, ReleasesOK, ReleaseOK
    <3>2. QED
      BY <2>1, <3>1 DEF Fail, Set, ReleaseFields
  <2>4. Created' = Created
    <3>1. IsSeq(releases) /\ IsSeq(releases')
      BY <1>1 DEF Keeps, TypeInv, ReleasesOK
    <3>2. Len(releases') = Len(releases)
      BY <2>3, <3>1, SeqFacts
    <3>3. QED
      BY <3>2 DEF Created
  <2>5. QED
    BY <1>1, <2>2, <2>3, <2>4, QuietStep
<1>4. CASE Update(tip, r).ok /\ ~Update(tip, r).changed /\ Committed(r, tip)
  <2>1. \A q \in Ids : work'[q] = work[q] \/ work'[q].step # "push"
    BY <1>2, <1>4 DEF Committed, Idle, TypeInv, WorkOK
  <2>2. CommitsGrow /\ tip \in 1 .. Len(commits')
    BY <1>1, <1>2, SeqFacts DEF CommitsGrow, TypeInv, GitOK
  <2>3. /\ Len(releases') = Len(releases) /\ releases'[r].commit = tip
        /\ \A q \in Created : q # r => releases'[q].commit = releases[q].commit
    BY <1>1, <1>4, <2>2, CommittedKeeps DEF Keeps, TypeInv
  <2>4. Created' = Created
    BY <2>3 DEF Created
  <2>5. Delivers(r)'
    <3>1. Update(tip, r).tree = commits[tip].tree
      BY <1>2, <1>4, UnchangedDelivers DEF ClearInv
    <3>2. /\ Rendered(commits[tip].tree, releases[r].build) = {imageString(releases[r].image)}
          /\ ~updateImageFiles(commits[tip].tree, releases[r].image, GitOps(releases[r].build)).changed
      BY <1>2, <1>4, <3>1, UpdateDelivers DEF ClearInv
    <3>3. releases'[r].image = releases[r].image /\ releases'[r].build = releases[r].build
      BY <1>1 DEF Keeps, KeptRelease
    <3>4. QED
      BY <1>1, <2>3, <3>2, <3>3 DEF Delivers, DeliveredImage, Rendered, Update, GitOps, Repository
  <2>6. QED
    BY <1>1, <1>2, <2>1, <2>3, <2>4, <2>5, ClearStep
<1>5. CASE /\ Update(tip, r).ok
           /\ work' = [work EXCEPT ![r] = [step |-> "push", base |-> tip, tree |-> Update(tip, r).tree]]
           /\ releases' = releases
  <2> DEFINE tree == Update(tip, r).tree
             new == [step |-> "push", base |-> tip, tree |-> tree]
  <2>1. work' = [work EXCEPT ![r] = new] /\ new.base = tip /\ new.tree = tree
    BY <1>5
  <2> HIDE DEF tree, new
  <2>2. work'[r] = new /\ \A q \in Ids : q # r => work'[q] = work[q]
    BY <1>2, <2>1 DEF TypeInv, WorkOK
  <2>3. Pushes(r)'
    BY <1>1, <1>5, <2>1, <2>2 DEF Pushes, Update, GitOps, tree
  <2>4. Created' = Created
    BY <1>5 DEF Created
  <2>5. QED
    BY <1>1, <1>2, <1>5, <2>2, <2>3, <2>4, ClearStep
<1>6. QED
  BY <1>3, <1>4, <1>5 DEF Checkout, Update

\* A push adds the update of the base of its clone.
LEMMA PushAdds ==
  ASSUME TypeInv, ClearInv, NEW r \in Created, work[r].step = "push", Advance(r), SameTargets
  PROVE  /\ CommitsStay /\ CommitsFit'
         /\ CommitAdded(work[r].tree) /\ CommitsGrow
         /\ Rendered(work[r].tree, releases[r].build) = {imageString(releases[r].image)}
         /\ ~updateImageFiles(work[r].tree, releases[r].image, GitOps(releases[r].build)).changed
<1>1. r \in Ids
  BY Ranges DEF TypeInv
<1>2. CommitAdded(work[r].tree) /\ CommitsGrow
  BY <1>1, AdvanceKeeps DEF TypeInv
<1>3. PICK c \in 1 .. Len(commits) : c = work[r].base
  BY <1>1, SeqFacts DEF TypeInv, WorkOK, GitOK
<1>4. Update(c, r).ok /\ work[r].tree = Update(c, r).tree
  BY <1>1, <1>3 DEF ClearInv, PushesUpdate, Pushes
<1>5. CommitsFit'
  BY <1>2, <1>4, CommitFits DEF ClearInv
<1>6. CommitsStay
  BY <1>2 DEF CommitAdded, CommitsStay
<1>7. QED
  BY <1>2, <1>4, <1>5, <1>6, UpdateDelivers DEF ClearInv

\* Push delivers the update that Checkout prepared.
LEMMA PushClear ==
  ASSUME TypeInv, ClearInv, NEW r \in Created, Push(r)
  PROVE  ClearInv'
<1>1. Keeps /\ work[r].step = "push" /\ builds' = builds /\ r \in Ids
  BY PushKeeps, Ranges DEF Push, TypeInv
<1>2. work' = [work EXCEPT ![r] = Idle]
  BY DEF Push, Fail, Committed
<1>3. \A q \in Ids : work'[q] = work[q] \/ work'[q].step # "push"
  BY <1>1, <1>2 DEF Idle, TypeInv, WorkOK
<1>4. ASSUME Set(r, "FailedGitPush") \/ releases' = releases
      PROVE  Created' = Created /\ \A q \in Created : releases'[q].commit = releases[q].commit
  <2>1. DOMAIN releases' = DOMAIN releases /\ \A q \in Created : releases'[q].commit = releases[q].commit
    <3>1. DOMAIN releases = Created /\ \A q \in Created : DOMAIN releases[q] = ReleaseFields
      BY Ranges DEF TypeInv, ReleasesOK, ReleaseOK
    <3>2. QED
      BY <1>4, <3>1 DEF Set, ReleaseFields
  <2>2. IsSeq(releases) /\ IsSeq(releases')
    BY <1>1 DEF Keeps, TypeInv, ReleasesOK
  <2>3. Len(releases') = Len(releases)
    BY <2>1, <2>2, SeqFacts
  <2>4. QED
    BY <2>1, <2>3 DEF Created
<1>5. CASE Fail(r, "FailedGitPush") /\ UNCHANGED gitVars
  BY <1>1, <1>3, <1>4, <1>5, QuietStep DEF Fail, gitVars
<1>6. CASE Advance(r) /\ (Set(r, "FailedGitPush") \/ releases' = releases)
  <2>1. CommitsStay /\ CommitsFit'
    BY <1>1, <1>6, PushAdds DEF Keeps
  <2>2. QED
    BY <1>1, <1>3, <1>4, <1>6, <2>1, ClearStep
<1>7. CASE Advance(r) /\ Committed(r, Len(commits) + 1)
  <2>1. /\ CommitsStay /\ CommitsFit' /\ CommitsGrow /\ CommitAdded(work[r].tree)
        /\ Rendered(work[r].tree, releases[r].build) = {imageString(releases[r].image)}
        /\ ~updateImageFiles(work[r].tree, releases[r].image, GitOps(releases[r].build)).changed
    BY <1>1, <1>7, PushAdds DEF Keeps
  <2>2. PICK n \in 1 .. Len(commits') : n = Len(commits) + 1
    BY <2>1 DEF CommitAdded, CommitsGrow
  <2>3. /\ Len(releases') = Len(releases) /\ releases'[r].commit = n
        /\ \A q \in Created : q # r => releases'[q].commit = releases[q].commit
    BY <1>1, <1>7, <2>1, <2>2, CommittedKeeps DEF Keeps, TypeInv
  <2>4. Created' = Created
    BY <2>3 DEF Created
  <2>5. Delivers(r)'
    <3>1. releases'[r].image = releases[r].image /\ releases'[r].build = releases[r].build
      BY <1>1 DEF Keeps, KeptRelease
    <3>2. commits'[n].tree = work[r].tree
      BY <2>1, <2>2 DEF CommitAdded
    <3>3. QED
      BY <1>1, <2>1, <2>3, <3>1, <3>2 DEF Delivers, DeliveredImage, Rendered, Update, GitOps, Repository
  <2>6. QED
    BY <1>1, <1>3, <2>1, <2>3, <2>4, <2>5, ClearStep
<1>8. QED
  BY <1>5, <1>6, <1>7 DEF Push, Fail

\* The merge is an update too, and no Release's commit.
LEMMA ReviewClear ==
  ASSUME TypeInv, ClearInv, NEW r \in Created, Review(r)
  PROVE  ClearInv'
<1>1. /\ Keeps /\ UNCHANGED <<releases, work, branch, admitted>>
      /\ \/ UNCHANGED <<commits, tip>>
         \/ CommitAdded(Update(tip, r).tree) /\ tip' = Len(commits) + 1 /\ pulls[r] = "open"
  BY ReviewKeeps
<1>2. Created' = Created
  BY <1>1 DEF Created
<1>3. CASE UNCHANGED <<commits, tip>>
  BY <1>1, <1>2, <1>3, QuietStep
<1>4. CASE CommitAdded(Update(tip, r).tree)
  <2>1. PICK c \in 1 .. Len(commits) : c = tip
    BY DEF TypeInv, GitOK
  <2>2. CommitAdded(Update(c, r).tree)
    BY <1>4, <2>1
  <2>3. CommitsFit'
    BY <1>1, <2>2, CommitFits DEF ClearInv, Keeps
  <2>4. CommitsStay
    BY <2>2 DEF CommitAdded, CommitsStay
  <2>5. QED
    BY <1>1, <1>2, <2>3, <2>4, ClearStep
<1>5. QED
  BY <1>1, <1>3, <1>4

\* The actions of the API and of the rest of the world.
LEMMA OtherClear ==
  ASSUME TypeInv, ClearInv, Keeps, UNCHANGED <<work, commits>>,
         \A q \in Created' : \/ releases'[q].commit = 0
                             \/ q \in Created /\ releases'[q].commit = releases[q].commit
  PROVE  ClearInv'
BY QuietStep

\* A Release that is created has no commit.
LEMMA CreateClear ==
  ASSUME TypeInv, ClearInv, Keeps, Len(releases') = Len(releases) + 1, UNCHANGED <<work, commits>>,
         \A q \in Created : releases'[q] = releases[q], releases'[Len(releases) + 1].commit = 0
  PROVE  ClearInv'
<1>1. Created' = Created \cup {Len(releases) + 1}
  BY Ranges DEF TypeInv, Created
<1>2. QED
  BY <1>1, OtherClear

\* As many Releases are the same numbers.
LEMMA SameLength ==
  ASSUME IsSeq(releases), IsSeq(releases'), DOMAIN releases' = DOMAIN releases
  PROVE  Created' = Created
BY SeqFacts DEF Created

\* Every step keeps what is committed clear.
LEMMA NextClear ==
  ASSUME TypeInv, ClearInv, [Next]_vars
  PROVE  ClearInv'
<1>0. Keeps /\ IsSeq(releases) /\ IsSeq(releases')
  BY NextKeeps DEF Keeps, TypeInv, ReleasesOK
<1>1. ASSUME NEW r \in Created, Begin(r) \/ Checkout(r) \/ Push(r) \/ Review(r) PROVE ClearInv'
  BY <1>1, BeginClear, CheckoutClear, PushClear, ReviewClear
<1>2. ASSUME NEW r \in Created, Proceed(r) \/ Approve(r) PROVE ClearInv'
  <2>1. \A q \in Created : releases'[q].commit = releases[q].commit
    BY <1>2, ProceedKeeps, ApproveKeeps
  <2>2. DOMAIN releases' = DOMAIN releases /\ UNCHANGED <<work, commits>>
    BY <1>2 DEF Proceed, Approve, Set, gitVars
  <2>3. QED
    BY <1>0, <2>1, <2>2, SameLength, OtherClear
<1>3. ASSUME NEW r \in Created, NEW e \in DOMAIN Environments, promoteRelease(r, e) PROVE ClearInv'
  BY <1>3, PromoteKeeps, CreateClear DEF promoteRelease, CreateRelease, gitVars
<1>4. ASSUME NEW r \in Created, NEW t \in Created, rollbackRelease(r, t) PROVE ClearInv'
  BY <1>4, RollbackKeeps, CreateClear DEF rollbackRelease, CreateRelease, gitVars
<1>5. ASSUME UNCHANGED <<releases, work, gitVars>> PROVE ClearInv'
  BY <1>0, <1>5, OtherClear DEF Created, gitVars
<1>6. QED
  BY <1>1, <1>2, <1>3, <1>4, <1>5
     DEF Next, Reconcile, Rebuild, DeleteBuildRun, EditEnvironment, vars

\* Clear manifests are clear at the start.
LEMMA InitClear ==
  ASSUME ClearManifests, Init
  PROVE  ClearInv
<1>1. builds \in BuildRuns /\ TypeInv
  BY InitTyped DEF Init
<1>2. PICK tree \in Trees : commits = <<[tree |-> tree, parent |-> 0]>>
  BY DEF Init
<1>3. Len(commits) = 1 /\ commits[1].tree = tree
  BY <1>2
<1>4. /\ tree = [path \in DOMAIN tree |-> tree[path]]
      /\ \A b \in DOMAIN builds :
           LET path == manifestPath(builds[b].gitOps)
           IN  /\ path \in DOMAIN tree => HasFormat(tree[path], builds[b].gitOps)
               /\ \A c \in DOMAIN builds :
                    manifestPath(builds[c].gitOps) = path =>
                      builds[c].gitOps.strategy = builds[b].gitOps.strategy
  BY <1>1, TreesAssumption
<1>5. \A b \in DOMAIN builds :
        manifestPath(builds[b].gitOps) \in DOMAIN tree =>
          ClearFile(tree[manifestPath(builds[b].gitOps)], builds[b].gitOps, builds[b].image.repository)
  BY <1>1 DEF ClearManifests
<1>6. TargetsAlike
  BY <1>4 DEF TargetsAlike, Alike, GitOps
<1>7. CommitsFit
  BY <1>3, <1>4, <1>5 DEF CommitsFit, IsTree, Fits, GitOps, Repository
<1>8. PushesUpdate
  BY DEF Init, PushesUpdate, Idle
<1>9. Delivered = {}
  <2>1. \A r \in Created : releases[r].commit = 0
    <3>1. DOMAIN releases = Created
      BY <1>1, Ranges DEF TypeInv
    <3>2. QED
      BY <3>1 DEF Init, NewRelease
  <2>2. QED
    BY <2>1 DEF Delivered
<1>10. QED
  BY <1>6, <1>7, <1>8, <1>9 DEF ClearInv, CommitRendersImage, UpdateIsIdempotent

\* The invariant that needs clear manifests only.
LEMMA ClearInvariant == ASSUME ClearManifests PROVE Spec => [](TypeInv /\ ClearInv)
<1>1. Init => TypeInv /\ ClearInv
  BY InitTyped, InitClear
<1>2. TypeInv /\ ClearInv /\ [Next]_vars => (TypeInv /\ ClearInv)'
  BY NextKeeps, NextClear DEF Keeps
<1>3. QED
  BY <1>1, <1>2, PTL DEF Spec

\* The commit that a Release records deploys the image of the Release, whatever
\* the manifests held at first and whoever else pushed.
THEOREM CommitsRenderImage == ASSUME ClearManifests PROVE Spec => []CommitRendersImage
<1>1. TypeInv /\ ClearInv => CommitRendersImage
  BY DEF ClearInv
<1>2. QED
  BY <1>1, ClearInvariant, PTL

\* UpdateImage on the commit it made finds nothing to change.
THEOREM UpdatesAreIdempotent == ASSUME ClearManifests PROVE Spec => []UpdateIsIdempotent
<1>1. TypeInv /\ ClearInv => UpdateIsIdempotent
  BY DEF ClearInv
<1>2. QED
  BY <1>1, ClearInvariant, PTL

\* A promotion or a rollback delivers what its source Release has delivered, even
\* if the BuildRun was built again meanwhile.
THEOREM PromotionsDeliverSource == ASSUME ClearManifests PROVE Spec => []SameImagePromoted
<1>1. TypeInv /\ ClearInv => SameImagePromoted
  <2> SUFFICES ASSUME TypeInv, ClearInv, NEW r \in Delivered, releases[r].from # 0,
                      releases[releases[r].from].image.digest # "none"
               PROVE  DeliveredImage(r) = DeliveredImage(releases[r].from)
    BY DEF SameImagePromoted
  <2>1. r \in Created /\ Len(releases) \in Nat /\ ReleaseOK(r) /\ PromotesDelivered(r)
    BY Ranges DEF Delivered, TypeInv, ReleasesOK
  <2>2. PICK from \in Created : from = releases[r].from
    BY <2>1 DEF ReleaseOK, Created
  <2>3. releases[from].commit # 0 /\ releases[r].image = releases[from].image
    BY <2>1, <2>2 DEF PromotesDelivered
  <2>4. from \in Delivered
    BY <2>2, <2>3 DEF Delivered
  <2>5. /\ DeliveredImage(r) = {imageString(releases[r].image)}
        /\ DeliveredImage(from) = {imageString(releases[from].image)}
    BY <2>4 DEF ClearInv, CommitRendersImage
  <2>6. QED
    BY <2>2, <2>3, <2>5
<1>2. QED
  BY <1>1, ClearInvariant, PTL

(***************************************************************************)
(* One target at a time.                                                   *)
(***************************************************************************)

\* A successful update by Release r keeps what any BuildRun's target needs.
LEMMA UpdateKeepsTargets ==
  ASSUME TypeInv, ClearInv, TargetsSeparate, CommitsExact, NEW r \in Created,
         NEW c \in 1 .. Len(commits), Update(c, r).ok, NEW b \in DOMAIN builds
  PROVE  LET new == Update(c, r).tree
             old == commits[c].tree
         IN  /\ Exact(new, GitOps(b))
             /\ GitOps(b) # GitOps(releases[r].build) => Rendered(new, b) = Rendered(old, b)
             /\ \A image \in Images :
                  /\ image.repository = Repository(b)
                  /\ updateImageFiles(old, image, GitOps(b)).ok
                  => updateImageFiles(new, image, GitOps(b)).ok
<1> DEFINE t == GitOps(releases[r].build)
           u == GitOps(b)
           tree == commits[c].tree
           its == releases[r].image
           new == updateImageFiles(tree, its, t).tree
<1>1. /\ releases[r].build \in DOMAIN builds /\ t \in GitOpsSpecs /\ its \in Images
      /\ its.repository = Repository(releases[r].build) /\ u \in GitOpsSpecs
  BY ReleaseTarget, TargetsTyped
<1>2. /\ IsTree(tree) /\ Fits(tree, t, its.repository) /\ Fits(tree, u, Repository(b))
      /\ Exact(tree, t) /\ Exact(tree, u) /\ Alike(t, u)
  BY <1>1 DEF ClearInv, CommitsFit, CommitsExact, TargetsAlike
<1>3. updateImageFiles(tree, its, t).ok
  BY DEF Update
<1>4. IF t = u THEN its.repository = Repository(b) ELSE Apart(t, u, its.repository, Repository(b))
  BY <1>1 DEF TargetsSeparate
<1>5. PICK any \in Images : any.repository = Repository(b)
  BY DEF TypeInv, BuildsOK, Repository
<1> HIDE DEF t, u, tree, its, new
<1>6. CASE t = u
  <2>1. /\ Exact(new, u)
        /\ \A image \in Images : image.repository = Repository(b) => updateImageFiles(new, image, u).ok
    BY <1>1, <1>2, <1>3, <1>4, <1>6, TreeKeepsRest DEF new
  <2>2. QED
    BY <1>6, <2>1 DEF Update, t, u, tree, its, new
<1>7. CASE t # u
  <2>1. ASSUME NEW image \in Images, image.repository = Repository(b)
        PROVE  /\ Exact(new, u)
               /\ RenderedTree(new, u, Repository(b)) = RenderedTree(tree, u, Repository(b))
               /\ updateImageFiles(new, image, u).ok <=> updateImageFiles(tree, image, u).ok
    BY <1>1, <1>2, <1>4, <1>7, <2>1, TreeKeepsOther DEF new
  <2>2. Exact(new, u) /\ RenderedTree(new, u, Repository(b)) = RenderedTree(tree, u, Repository(b))
    BY <1>5, <2>1
  <2>3. QED
    BY <2>1, <2>2 DEF Update, Rendered, t, u, tree, its, new
<1>8. QED
  BY <1>6, <1>7

\* The head of the deployment branch stays, or Release r delivers to it.
Still == tip' = tip /\ commits'[tip] = commits[tip]
Delivery(r) ==
  /\ Order(r) \in admitted /\ admitted' = admitted
  /\ Update(tip, r).ok
  /\ commits'[tip'].tree = Update(tip, r).tree

\* Commits are updates of earlier ones.
CommitStep ==
  \/ commits' = commits
  \/ \E r \in Created, c \in 1 .. Len(commits) : Update(c, r).ok /\ CommitAdded(Update(c, r).tree)

\* Who is at work was admitted.
WorkStep ==
  /\ admitted \subseteq admitted'
  /\ \A q \in Ids : work'[q].step # "idle" \/ branch'[q] # 0 =>
       \/ work[q].step # "idle" \/ branch[q] # 0
       \/ q \in Created /\ Order(q) \in admitted'
  /\ \A q \in Ids : work'[q].step = "push" \/ branch'[q] # 0 =>
       \/ work[q].step = "push" \/ branch[q] # 0
       \/ q \in Created /\ Update(tip, q).ok

\* Begin is let through by the checks and leaves the branch alone.
LEMMA BeginSteps ==
  ASSUME TypeInv, NEW r \in Created, Begin(r)
  PROVE  WorkStep /\ CommitStep /\ Still
<1>1. r \in Ids /\ DOMAIN work = Ids /\ DOMAIN work[r] = {"step", "base", "tree"}
  BY Ranges DEF TypeInv, WorkOK
<1>2. commits' = commits /\ tip' = tip /\ branch' = branch
  BY DEF Begin, gitVars
<1>3. \/ work' = work /\ admitted' = admitted
      \/ work' = [work EXCEPT ![r].step = "checkout"] /\ admitted' = admitted \cup {Order(r)}
  BY DEF Begin
<1>4. \A q \in Ids : work'[q] = work[q] \/ (q = r /\ work'[q].step = "checkout" /\ Order(q) \in admitted')
  <2>1. CASE work' = work
    BY <2>1
  <2>2. CASE work' = [work EXCEPT ![r].step = "checkout"] /\ admitted' = admitted \cup {Order(r)}
    <3>1. \A q \in Ids : work'[q] = work[q] \/ (q = r /\ work'[q].step = "checkout")
      BY <1>1, <2>2
    <3>2. QED
      BY <2>2, <3>1
  <2>3. QED
    BY <1>3, <2>1, <2>2
<1>5. admitted \subseteq admitted'
  BY <1>3
<1>6. WorkStep
  BY <1>2, <1>4, <1>5 DEF WorkStep
<1>7. QED
  BY <1>2, <1>6 DEF CommitStep, Still

\* Checkout leaves it alone too.
LEMMA CheckoutSteps ==
  ASSUME TypeInv, NEW r \in Created, Checkout(r)
  PROVE  WorkStep /\ CommitStep /\ Still
<1>1. r \in Ids /\ DOMAIN work = Ids /\ work[r].step = "checkout"
  BY Ranges DEF TypeInv, WorkOK, Checkout
<1>2. commits' = commits /\ tip' = tip /\ branch' = branch /\ admitted' = admitted
  BY CheckoutKeeps DEF Checkout
<1>3. \/ work' = [work EXCEPT ![r] = Idle]
      \/ /\ Update(tip, r).ok
         /\ work' = [work EXCEPT ![r] = [step |-> "push", base |-> tip, tree |-> Update(tip, r).tree]]
  BY DEF Checkout, Fail, Committed, Update
<1>4. \A q \in Ids :
        \/ work'[q] = work[q]
        \/ q = r /\ work'[q].step = "idle"
        \/ q = r /\ Update(tip, q).ok
  BY <1>1, <1>3 DEF Idle
<1>5. WorkStep
  BY <1>1, <1>2, <1>4 DEF WorkStep
<1>6. QED
  BY <1>2, <1>5 DEF CommitStep, Still

\* Push leaves it alone or is a delivery,
LEMMA PushSteps ==
  ASSUME TypeInv, ClearInv, WorkAdmitted, NEW r \in Created, Push(r)
  PROVE  WorkStep /\ CommitStep /\ (Still \/ Delivery(r))
<1>1. r \in Ids /\ DOMAIN work = Ids /\ work[r].step = "push" /\ admitted' = admitted
  BY Ranges DEF TypeInv, WorkOK, Push
<1>2. work' = [work EXCEPT ![r] = Idle]
  BY DEF Push, Fail, Committed
<1>3. \A q \in Ids : work'[q] = work[q] \/ work'[q].step = "idle"
  BY <1>1, <1>2 DEF Idle
<1>4. CASE UNCHANGED <<commits, tip, branch>>
  BY <1>1, <1>3, <1>4 DEF WorkStep, CommitStep, Still
<1>5. CASE Accepted(r) /\ Advance(r)
  <2>1. /\ CommitAdded(work[r].tree) /\ CommitsGrow
        /\ \A q \in Ids : q # r => branch'[q] = branch[q]
    BY <1>1, <1>5, AdvanceKeeps DEF TypeInv
  <2>2. PICK c \in 1 .. Len(commits) : c = work[r].base
    BY <1>1, SeqFacts DEF TypeInv, WorkOK, GitOK
  <2>3. Update(c, r).ok /\ work[r].tree = Update(c, r).tree
    BY <1>1, <2>2 DEF ClearInv, PushesUpdate, Pushes
  <2>4. CommitStep
    BY <2>1, <2>3 DEF CommitStep
  <2>5. WorkStep
    BY <1>1, <1>3, <2>1 DEF WorkStep
  <2>6. Still \/ Delivery(r)
    <3>1. CASE releases[r].mode = "pull-request"
      <4>1. tip' = tip /\ tip \in 1 .. Len(commits)
        BY <1>5, <3>1 DEF Advance, TypeInv, GitOK
      <4>2. QED
        BY <2>1, <4>1 DEF CommitAdded, Still
    <3>2. CASE releases[r].mode # "pull-request"
      <4>1. tip' = Len(commits) + 1 /\ work[r].base = tip
        BY <1>5, <3>2 DEF Advance, Accepted
      <4>2. commits'[tip'].tree = Update(tip, r).tree /\ Update(tip, r).ok
        BY <2>1, <2>2, <2>3, <4>1 DEF CommitAdded
      <4>3. Order(r) \in admitted
        BY <1>1 DEF WorkAdmitted
      <4>4. QED
        BY <1>1, <4>2, <4>3 DEF Delivery
    <3>3. QED
      BY <3>1, <3>2
  <2>7. QED
    BY <2>4, <2>5, <2>6
<1>6. QED
  BY <1>4, <1>5 DEF Push, gitVars

\* and so does the review.
LEMMA ReviewSteps ==
  ASSUME TypeInv, WorkAdmitted, NEW r \in Created, Review(r)
  PROVE  WorkStep /\ CommitStep /\ (Still \/ Delivery(r))
<1>1. /\ UNCHANGED <<releases, work, branch, admitted>> /\ r \in Ids
      /\ \/ UNCHANGED <<commits, tip>>
         \/ CommitAdded(Update(tip, r).tree) /\ tip' = Len(commits) + 1 /\ pulls[r] = "open"
  BY ReviewKeeps, Ranges DEF TypeInv
<1>2. WorkStep
  BY <1>1 DEF WorkStep
<1>3. CASE UNCHANGED <<commits, tip>>
  BY <1>2, <1>3 DEF CommitStep, Still
<1>4. CASE CommitAdded(Update(tip, r).tree) /\ tip' = Len(commits) + 1 /\ pulls[r] = "open"
  <2>1. Order(r) \in admitted /\ Update(tip, r).ok /\ tip \in 1 .. Len(commits)
    BY <1>1, <1>4 DEF TypeInv, GitOK, WorkAdmitted
  <2>2. CommitStep
    BY <1>4, <2>1 DEF CommitStep
  <2>3. Delivery(r)
    BY <1>1, <1>4, <2>1 DEF Delivery, CommitAdded
  <2>4. QED
    BY <1>2, <2>2, <2>3
<1>5. QED
  BY <1>1, <1>3, <1>4

\* The other steps leave it alone.
LEMMA OtherSteps ==
  ASSUME UNCHANGED <<work, gitVars, admitted>>
  PROVE  WorkStep /\ CommitStep /\ Still
BY DEF WorkStep, CommitStep, Still, gitVars

\* Every step is quiet for the deployment branch or delivers one Release to it.
LEMMA NextSteps ==
  ASSUME TypeInv, ClearInv, WorkAdmitted, [Next]_vars
  PROVE  WorkStep /\ CommitStep /\ (Still \/ \E r \in Created : Delivery(r))
<1>1. ASSUME NEW r \in Created, Begin(r) \/ Checkout(r) \/ Push(r) \/ Review(r)
      PROVE  WorkStep /\ CommitStep /\ (Still \/ Delivery(r))
  BY <1>1, BeginSteps, CheckoutSteps, PushSteps, ReviewSteps
<1>2. ASSUME UNCHANGED <<work, gitVars, admitted>> PROVE WorkStep /\ CommitStep /\ Still
  BY <1>2, OtherSteps
<1>3. QED
  BY <1>1, <1>2
     DEF Next, Reconcile, Proceed, Approve, promoteRelease, rollbackRelease, CreateRelease,
         Rebuild, DeleteBuildRun, EditEnvironment, vars

\* Updates keep every target exact.
LEMMA ExactStep ==
  ASSUME TypeInv, ClearInv, SeparateInv, SameTargets, CommitStep
  PROVE  CommitsExact'
<1>1. CASE commits' = commits
  BY <1>1 DEF SeparateInv, CommitsExact, SameTargets
<1>2. CASE \E r \in Created, c \in 1 .. Len(commits) : Update(c, r).ok /\ CommitAdded(Update(c, r).tree)
  <2>1. PICK r \in Created, c \in 1 .. Len(commits) : Update(c, r).ok /\ CommitAdded(Update(c, r).tree)
    BY <1>2
  <2>2. /\ Len(commits) \in Nat /\ Len(commits') = Len(commits) + 1
        /\ \A d \in 1 .. Len(commits) : commits'[d] = commits[d]
        /\ commits'[Len(commits) + 1].tree = Update(c, r).tree
    BY <2>1, SeqFacts DEF TypeInv, GitOK, CommitAdded
  <2>3. \A b \in DOMAIN builds : Exact(Update(c, r).tree, GitOps(b))
    BY <2>1, UpdateKeepsTargets DEF SeparateInv
  <2>4. ASSUME NEW d \in 1 .. Len(commits'), NEW b \in DOMAIN builds
        PROVE  Exact(commits'[d].tree, GitOps(b))
    <3>1. CASE d \in 1 .. Len(commits)
      BY <2>2, <3>1 DEF SeparateInv, CommitsExact
    <3>2. CASE d = Len(commits) + 1
      BY <2>2, <2>3, <3>2
    <3>3. QED
      BY <2>2, <3>1, <3>2
  <2>5. QED
    BY <2>4 DEF CommitsExact, SameTargets
<1>3. QED
  BY <1>1, <1>2 DEF CommitStep

\* What can be written to the head of the deployment branch still can after a step.
LEMMA StaysUpdatable ==
  ASSUME TypeInv, ClearInv, SeparateInv, Keeps, NEW q \in Created, Update(tip, q).ok,
         Still \/ \E r \in Created : Delivery(r)
  PROVE  (Update(tip, q).ok)'
<1>1. /\ releases[q].build \in DOMAIN builds /\ releases[q].image \in Images
      /\ releases[q].image.repository = Repository(releases[q].build)
  BY ReleaseTarget
<1>2. /\ releases'[q].image = releases[q].image /\ releases'[q].build = releases[q].build
      /\ builds'[releases[q].build].gitOps = GitOps(releases[q].build)
  BY <1>1 DEF Keeps, KeptRelease, SameTargets, GitOps
<1>3. SUFFICES updateImageFiles(commits'[tip'].tree, releases[q].image, GitOps(releases[q].build)).ok
  BY <1>2 DEF Update, GitOps
<1>4. CASE Still
  BY <1>4 DEF Still, Update
<1>5. CASE \E r \in Created : Delivery(r)
  <2>1. PICK r \in Created : Delivery(r)
    BY <1>5
  <2>2. PICK c \in 1 .. Len(commits) : c = tip
    BY DEF TypeInv, GitOK
  <2>3. Update(c, r).ok /\ commits'[tip'].tree = Update(c, r).tree
    BY <2>1, <2>2 DEF Delivery
  <2>4. updateImageFiles(commits[c].tree, releases[q].image, GitOps(releases[q].build)).ok
    BY <2>2 DEF Update
  <2>5. updateImageFiles(Update(c, r).tree, releases[q].image, GitOps(releases[q].build)).ok
    BY <1>1, <2>3, <2>4, UpdateKeepsTargets DEF SeparateInv
  <2>6. QED
    BY <2>3, <2>5
<1>6. QED
  BY <1>4, <1>5

\* Every step keeps the targets separate and the work admitted.
LEMMA NextSeparate ==
  ASSUME TypeInv, ClearInv, SeparateInv, [Next]_vars
  PROVE  SeparateInv'
<1>1. Keeps
  BY NextKeeps
<1>2. WorkStep /\ CommitStep /\ (Still \/ \E r \in Created : Delivery(r))
  BY NextSteps DEF SeparateInv
<1>3. TargetsSeparate'
  BY <1>1 DEF Keeps, SameTargets, SeparateInv, TargetsSeparate
<1>4. CommitsExact'
  BY <1>1, <1>2, ExactStep DEF Keeps
<1>5. ASSUME NEW q \in Ids, work[q].step # "idle" \/ branch[q] # 0 PROVE q \in Created
  BY <1>5 DEF TypeInv, WorkOK, GitOK
<1>6. ASSUME NEW q \in Ids, work'[q].step # "idle" \/ branch'[q] # 0
      PROVE  (Order(q) \in admitted)'
  <2>1. q \in Created /\ Order(q) \in admitted'
    BY <1>2, <1>5, <1>6 DEF WorkStep, SeparateInv, WorkAdmitted
  <2>2. releases[q].build \in DOMAIN builds
    BY <2>1, ReleaseTarget
  <2>3. Order(q)' = Order(q)
    BY <1>1, <2>1, <2>2 DEF Keeps, KeptRelease, SameTargets, GitOps, Order
  <2>4. QED
    BY <2>1, <2>3
<1>7. ASSUME NEW q \in Ids, work'[q].step = "push" \/ branch'[q] # 0
      PROVE  (Update(tip, q).ok)'
  <2>1. q \in Created /\ Update(tip, q).ok
    BY <1>2, <1>5, <1>7 DEF WorkStep, SeparateInv, WorkAdmitted
  <2>2. QED
    BY <1>1, <1>2, <2>1, StaysUpdatable
<1>8. WorkAdmitted'
  BY <1>6, <1>7 DEF WorkAdmitted, Ids
<1>9. QED
  BY <1>3, <1>4, <1>8 DEF SeparateInv

\* Separate targets are separate at the start.
LEMMA InitSeparate ==
  ASSUME SeparateTargets, Init
  PROVE  SeparateInv
<1>1. builds \in BuildRuns
  BY DEF Init
<1>2. PICK tree \in Trees : commits = <<[tree |-> tree, parent |-> 0]>>
  BY DEF Init
<1>3. Len(commits) = 1 /\ commits[1].tree = tree
  BY <1>2
<1>4. TargetsSeparate
  BY <1>1 DEF SeparateTargets, TargetsSeparate, GitOps, Repository
<1>5. CommitsExact
  BY <1>1, <1>3 DEF SeparateTargets, CommitsExact, Exact, GitOps
<1>6. WorkAdmitted
  BY DEF Init, WorkAdmitted, Idle
<1>7. QED
  BY <1>4, <1>5, <1>6 DEF SeparateInv

Inv == TypeInv /\ ClearInv /\ SeparateInv

\* The whole invariant.
LEMMA SeparateInvariant == ASSUME ClearManifests, SeparateTargets PROVE Spec => []Inv
<1>1. Init => Inv
  BY InitTyped, InitClear, InitSeparate DEF Inv
<1>2. Inv /\ [Next]_vars => Inv'
  BY NextKeeps, NextClear, NextSeparate DEF Keeps, Inv
<1>3. QED
  BY <1>1, <1>2, PTL DEF Spec

\* A delivery changes nothing but the image of its target.
LEMMA DeliveryKeepsRest ==
  ASSUME Inv, NEW r \in Created, Delivery(r)
  PROVE  LET old == commits[tip].tree
             new == commits'[tip'].tree
             b == releases[r].build
             manifest == manifestPath(GitOps(b))
         IN  /\ \A path \in DOMAIN old : path # manifest => new[path] = old[path]
             /\ Others(new[manifest], GitOps(b), Repository(b))
                  = Others(old[manifest], GitOps(b), Repository(b))
<1> DEFINE t == GitOps(releases[r].build)
           tree == commits[tip].tree
           image == releases[r].image
           new == updateImageFiles(tree, image, t).tree
<1>1. /\ releases[r].build \in DOMAIN builds /\ t \in GitOpsSpecs /\ image \in Images
      /\ image.repository = Repository(releases[r].build)
  BY ReleaseTarget DEF Inv
<1>2. tip \in 1 .. Len(commits)
  BY DEF Inv, TypeInv, GitOK
<1>3. IsTree(tree) /\ Fits(tree, t, image.repository) /\ Exact(tree, t)
  BY <1>1, <1>2 DEF Inv, ClearInv, CommitsFit, SeparateInv, CommitsExact
<1>4. updateImageFiles(tree, image, t).ok /\ commits'[tip'].tree = new
  BY DEF Delivery, Update
<1> HIDE DEF t, tree, image
<1>5. \A path \in DOMAIN tree : path # manifestPath(t) => new[path] = tree[path]
  BY <1>3, TreeUpdate
<1>6. Others(new[manifestPath(t)], t, image.repository) = Others(tree[manifestPath(t)], t, image.repository)
  BY <1>1, <1>3, <1>4, TreeKeepsRest
<1> HIDE DEF new
<1>7. QED
  BY <1>1, <1>4, <1>5, <1>6 DEF t, tree, image

\* A step of the deployment branch changes the manifests of one target only:
\* other files, services and sidecars keep what they had, though the clone was
\* made before others pushed.
THEOREM ChangesOneTarget == ASSUME ClearManifests, SeparateTargets PROVE Spec => OneTargetChanges
<1>1. ASSUME Inv, [Next]_vars, tip' # tip
      PROVE  LET old == commits[tip].tree
                 new == commits'[tip'].tree
             IN  \E b \in DOMAIN builds :
                   LET manifest == manifestPath(GitOps(b))
                   IN  /\ \A path \in DOMAIN old : path # manifest => new[path] = old[path]
                       /\ Others(new[manifest], GitOps(b), Repository(b))
                            = Others(old[manifest], GitOps(b), Repository(b))
  <2>1. PICK r \in Created : Delivery(r)
    BY <1>1, NextSteps DEF Inv, SeparateInv, Still
  <2>2. releases[r].build \in DOMAIN builds
    BY <1>1, ReleaseTarget DEF Inv
  <2>3. QED
    BY <1>1, <2>1, <2>2, DeliveryKeepsRest
<1>2. QED
  BY <1>1, SeparateInvariant, PTL DEF Spec, OneTargetChanges

\* The desired state, as the refinement mapping has it.
DesiredImages == [t \in Targets |-> Rendered(commits[tip].tree, CHOOSE b \in DOMAIN builds : GitOps(b) = t)]

\* What is desired of a target does not depend on the BuildRun it is read with.
LEMMA DesiredOfTarget ==
  ASSUME TargetsSeparate, NEW b \in DOMAIN builds
  PROVE  GitOps(b) \in Targets /\ DesiredImages[GitOps(b)] = Rendered(commits[tip].tree, b)
<1> DEFINE any == CHOOSE c \in DOMAIN builds : GitOps(c) = GitOps(b)
<1>1. any \in DOMAIN builds /\ GitOps(any) = GitOps(b)
  OBVIOUS
<1>2. Repository(any) = Repository(b)
  BY <1>1 DEF TargetsSeparate
<1>3. GitOps(b) \in Targets /\ DesiredImages[GitOps(b)] = Rendered(commits[tip].tree, any)
  BY DEF Targets, DesiredImages
<1> HIDE DEF any
<1>4. QED
  BY <1>1, <1>2, <1>3 DEF Rendered

\* The same after a step that keeps the targets.
LEMMA DesiredAfter ==
  ASSUME TargetsSeparate, SameTargets, NEW b \in DOMAIN builds
  PROVE  DesiredImages'[GitOps(b)] = Rendered(commits'[tip'].tree, b)
<1> DEFINE any == CHOOSE c \in DOMAIN builds' : builds'[c].gitOps = builds[b].gitOps
<1>1. /\ DOMAIN builds' = DOMAIN builds
      /\ \A c \in DOMAIN builds : /\ builds'[c].gitOps = builds[c].gitOps
                                  /\ builds'[c].image.repository = builds[c].image.repository
  BY DEF SameTargets, GitOps, Repository
<1>2. any \in DOMAIN builds' /\ builds'[any].gitOps = builds[b].gitOps
  BY <1>1
<1>3. builds[b].gitOps \in {builds'[c].gitOps : c \in DOMAIN builds'}
  BY <1>1
<1>4. DesiredImages'[builds[b].gitOps] =
        RenderedTree(commits'[tip'].tree, builds'[any].gitOps, builds'[any].image.repository)
  BY <1>3 DEF DesiredImages, Targets, GitOps, Rendered, Repository
<1> HIDE DEF any
<1>5. builds'[any].image.repository = builds[b].image.repository
  BY <1>1, <1>2 DEF TargetsSeparate, GitOps, Repository
<1>6. QED
  BY <1>2, <1>4, <1>5 DEF GitOps, Rendered, Repository

\* The targets have a desired state before and after.
LEMMA SameDomain ==
  ASSUME SameTargets
  PROVE  /\ DOMAIN DesiredImages = Targets /\ DOMAIN DesiredImages' = Targets
         /\ DesiredImages = [t \in Targets |-> DesiredImages[t]]
         /\ DesiredImages' = [t \in Targets |-> DesiredImages'[t]]
<1>1. Targets' = Targets
  BY DEF SameTargets, Targets, GitOps
<1>2. QED
  BY <1>1 DEF DesiredImages

\* Unless the head moves, nothing else is desired.
LEMMA StillDesired ==
  ASSUME Inv, SameTargets, Still
  PROVE  DesiredImages' = DesiredImages
<1>1. \A b \in DOMAIN builds : DesiredImages'[GitOps(b)] = DesiredImages[GitOps(b)]
  BY DesiredAfter, DesiredOfTarget DEF Inv, SeparateInv, Still
<1>2. \A t \in Targets : DesiredImages'[t] = DesiredImages[t]
  BY <1>1 DEF Targets
<1>3. QED
  BY <1>2, SameDomain

\* A delivery changes what is desired of its target, to the image ordered.
LEMMA DeliveryDesired ==
  ASSUME Inv, SameTargets, NEW r \in Created, Delivery(r)
  PROVE  DesiredImages' = [DesiredImages EXCEPT ![Order(r).target] = {Order(r).image}]
<1> DEFINE t == GitOps(releases[r].build)
           image == imageString(releases[r].image)
<1>1. Order(r).target = t /\ Order(r).image = image
  BY DEF Order
<1>2. releases[r].build \in DOMAIN builds
  BY ReleaseTarget DEF Inv
<1>3. PICK c \in 1 .. Len(commits) : c = tip
  BY DEF Inv, TypeInv, GitOK
<1>4. Update(c, r).ok /\ commits'[tip'].tree = Update(c, r).tree
  BY <1>3 DEF Delivery
<1>5. DesiredImages'[t] = {image}
  <2>1. Rendered(Update(c, r).tree, releases[r].build) = {image}
    BY <1>4, UpdateDelivers DEF Inv, ClearInv
  <2>2. DesiredImages'[t] = Rendered(commits'[tip'].tree, releases[r].build)
    BY <1>2, DesiredAfter DEF Inv, SeparateInv
  <2>3. QED
    BY <1>4, <2>1, <2>2
<1>6. ASSUME NEW b \in DOMAIN builds, GitOps(b) # t
      PROVE  DesiredImages'[GitOps(b)] = DesiredImages[GitOps(b)]
  <2>1. Rendered(Update(c, r).tree, b) = Rendered(commits[c].tree, b)
    BY <1>4, <1>6, UpdateKeepsTargets DEF Inv, SeparateInv
  <2>2. QED
    BY <1>3, <1>4, <2>1, DesiredAfter, DesiredOfTarget DEF Inv, SeparateInv
<1>7. t \in Targets /\ \A u \in Targets : u # t => DesiredImages'[u] = DesiredImages[u]
  BY <1>2, <1>6 DEF Targets
<1> HIDE DEF t, image
<1>8. QED
  BY <1>1, <1>5, <1>7, SameDomain

\* The orders are those of the Releases whose reconcile begins.
LEMMA AdmitStep ==
  ASSUME [Next]_vars
  PROVE  admitted' = admitted \/ \E order \in admitted' : admitted' = admitted \cup {order}
BY DEF Next, Reconcile, Begin, Checkout, Push, Proceed, Approve, Review, promoteRelease,
       rollbackRelease, CreateRelease, Rebuild, DeleteBuildRun, EditEnvironment, vars

\* Every step is a step of DesiredState, or none of it.
LEMMA StepRefines ==
  ASSUME Inv, [Next]_vars
  PROVE  [Desired!Next]_<<DesiredImages, admitted>>
<1>1. SameTargets /\ (Still \/ \E r \in Created : Delivery(r))
  BY NextKeeps, NextSteps DEF Inv, SeparateInv, Keeps
<1>2. CASE Still
  <2>1. DesiredImages' = DesiredImages
    BY <1>1, <1>2, StillDesired
  <2>2. CASE admitted' = admitted
    BY <2>1, <2>2
  <2>3. CASE \E order \in admitted' : admitted' = admitted \cup {order}
    BY <2>1, <2>3 DEF Desired!Next, Desired!Admit, DesiredImages
  <2>4. QED
    BY <2>2, <2>3, AdmitStep
<1>3. CASE \E r \in Created : Delivery(r)
  <2>1. PICK r \in Created : Delivery(r)
    BY <1>3
  <2>2. DesiredImages' = [DesiredImages EXCEPT ![Order(r).target] = {Order(r).image}]
    BY <1>1, <2>1, DeliveryDesired
  <2>3. Order(r) \in admitted /\ admitted' = admitted
    BY <2>1 DEF Delivery
  <2>4. QED
    BY <2>2, <2>3 DEF Desired!Next, Desired!Deliver, DesiredImages
<1>4. QED
  BY <1>1, <1>2, <1>3

\* Every step of the deployment branch is the delivery of one Release that
\* approval and policy let through, to the target of its BuildRun.
THEOREM ImplementsDesiredState ==
  ASSUME ClearManifests, SeparateTargets PROVE Spec => DeliversAdmitted
<1>1. Init => Desired!Init
  BY DEF Init, Desired!Init
<1>2. Inv /\ [Next]_vars => [Desired!Next]_<<DesiredImages, admitted>>
  BY StepRefines
<1>3. QED
  BY <1>1, <1>2, SeparateInvariant, PTL DEF Spec, DeliversAdmitted, Desired!Spec, DesiredImages
=============================================================================
