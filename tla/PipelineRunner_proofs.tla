----------------------- MODULE PipelineRunner_proofs -----------------------
(***************************************************************************)
(* Proofs about PipelineRunner, for every number of runners, every work    *)
(* they are given and every bound.                                         *)
(***************************************************************************)
EXTENDS PipelineRunner, TLAPS

(***************************************************************************)
(* The inductive invariant: the runners.                                   *)
(***************************************************************************)

Names == {"sbom", "scan", "signature", "provenance"}

IsStatus(x) ==
  /\ x = [phase |-> x.phase, reason |-> x.reason, image |-> x.image, conditions |-> x.conditions,
          evidence |-> x.evidence, artifacts |-> x.artifacts]
  /\ x.phase \in {"Queued", "Running", "Succeeded", "Failed"}
  /\ x.image \in {"unset", "tag"} \cup Runners
  /\ x.evidence \in [Names -> Runners \cup {Nobody, "tag"}]
  /\ x.artifacts \in Nat

RunnerTypes ==
  /\ stage \in [Runners -> Stages]
  /\ copy = [r \in Runners |-> copy[r]]
  /\ stored = [r \in Runners |-> stored[r]]
  /\ registry \in [Images -> Runners \cup {Nobody}]
  /\ signed \subseteq pushed /\ pushed \subseteq Runners
  /\ objects \in [Runners -> Nat]

\* A status of runner r claims nothing that is not so, wherever it is held.
Valid(r, x) ==
  /\ IsStatus(x)
  /\ x.phase = "Failed" <=> x.reason # "none"
  /\ x.image \in Runners => x.image = r /\ \A name \in Names : x.evidence[name] \in {Nobody, r}
  /\ "ImagePushed" \in x.conditions => r \in pushed
  /\ x.evidence["signature"] # Nobody => x.evidence["signature"] \in signed
  /\ x.artifacts <= objects[r]
  /\ x.phase = "Succeeded" => Backed(r, x)

Late == {"save", "saving", "finish"}
WithProvenance == {"hooked"} \cup Late
WithSignature == {"provenance"} \cup WithProvenance
WithScan == {"sign"} \cup WithSignature
WithSBOM == {"scan"} \cup WithScan
WithImage == {"sbom"} \cup WithSBOM
WithSteps == {"build", "prepare", "buildkit"} \cup WithImage
Early == {"load", "start", "clone", "cache", "restoring", "cloned", "steps"}
Unbuilt == Early \cup {"build", "prepare", "buildkit"}

\* What the copy of a runner has when it is at stage g.
Progress(r, g, x) ==
  LET t == Template(r)
  IN  /\ g \notin Ended => x.phase \in {"Queued", "Running"}
      /\ g \in Early => x.artifacts = 0
      /\ g \in Unbuilt => x.image = "unset" /\ x.evidence = NoEvidence
      /\ g \in WithSteps =>
           /\ "StepsCompleted" \in x.conditions
           /\ runnerEnv(r).artifactStore # "none" /\ t.artifacts = "required" => x.artifacts > 0
      /\ g \in {"prepare", "buildkit", "sbom", "scan", "sign", "provenance", "hooked"} => t.build
      /\ g \in WithImage /\ t.build =>
           /\ "ImageBuilt" \in x.conditions /\ x.image # "unset"
           /\ t.push => x.image = r /\ r \in pushed
      /\ g \in {"sbom", "scan", "sign"} => x.evidence["signature"] = Nobody
      /\ g \in WithSBOM /\ t.build /\ t.generateSBOM => Has(r, x, "sbom")
      /\ g \in WithScan /\ t.build /\ t.scanImage => Has(r, x, "scan")
      /\ g \in WithSignature /\ t.build /\ t.signImage => Has(r, x, "signature")
      /\ g \in WithProvenance /\ t.build /\ ProvenanceWanted(r, x) => Has(r, x, "provenance")
      /\ g = "finish" /\ Snapshots(t) => "CacheSaved" \in x.conditions

\* What a snapshot asks of the stored status of its runner.
Published(r, y) ==
  /\ "StepsCompleted" \in y.conditions
  /\ Template(r).build => "ImageBuilt" \in y.conditions /\ Evidenced(r, y)

\* What the cluster has stored of a runner at stage g.
Behind(r, g, y) ==
  /\ g \in Early => y.artifacts = 0
  /\ g \in WithSteps => "StepsCompleted" \in y.conditions
  /\ g \in Late => Published(r, y)

Sound(r, g, x, y) == Valid(r, x) /\ Valid(r, y) /\ Progress(r, g, x) /\ Behind(r, g, y)

RunnersAreSound == \A r \in Runners : Sound(r, stage[r], copy[r], stored[r])

RunnerInv == RunnerTypes /\ RunnersAreSound

(***************************************************************************)
(* The inductive invariant: the cache.                                     *)
(***************************************************************************)

Contents == [Paths -> Runners \cup {Nobody}]
Entries == [dir : Runners \cup {Nobody}, manifest : {"none", "fresh", "expired"}, data : Contents]
Calls ==
  [do : {"idle", "hit", "miss", "error", "save", "rename", "saved"}]
    \cup [do : {"read"}, key : Nat]
    \cup [do : {"copy"}, key : Nat, path : Nat]
    \cup [do : {"open"}, entry : Scopes, key : Nat]
    \cup [do : {"remove", "cut"}, entry : Scopes, dir : Runners \cup {Nobody}, key : Nat]

CacheTypes ==
  /\ work \in Works
  /\ entries \in [Scopes -> Entries]
  /\ staging \in [Runners -> Entries]
  /\ workspace \in [Runners -> Contents]
  /\ op \in [Runners -> Calls]
  /\ purging \subseteq Runners

\* Call o is one that runner r makes at stage g, with a key and a path there are.
CallOfStage(r, o, g) ==
  /\ o.do \in {"read", "copy", "hit", "miss"} => g = "restoring"
  /\ o.do \in {"save", "rename", "saved"} => g = "saving"
  /\ o.do = "error" => g \in {"restoring", "saving"}
  /\ o.do \in {"open", "remove"} => g = (IF o.key = 0 THEN "saving" ELSE "restoring")
  /\ o.do = "cut" => g = "killed"
  /\ o.do \in {"read", "copy"} => o.key \in DOMAIN KeysOf(r)
  /\ o.do = "copy" => o.path \in DOMAIN CachePaths

Owner(r) == <<work[r].project, work[r].repository>>

\* A directory holds what runners of its own project and repository wrote, and so
\* does the source tree of a runner.
ContentsAreOwn ==
  /\ \A s \in Scopes, p \in Paths :
       entries[s].data[p] # Nobody => Owner(entries[s].data[p]) = <<s[1], s[2]>>
  /\ \A r \in Runners, p \in Paths :
       workspace[r][p] # Nobody => Owner(workspace[r][p]) = Owner(r)

\* A staging directory is the snapshot of a source tree that no longer changes, or
\* what a purge left of it.
StagingIsWhole ==
  \A r \in Runners : staging[r] # NoEntry =>
    /\ staging[r].dir = r
    /\ \A p \in Paths : staging[r].data[p] \in {Nobody, workspace[r][p]}
    /\ (staging[r].manifest # "none" /\ staging[r].data = workspace[r]) \/ r \in purging
    /\ stage[r] = "killed" \/ (stage[r] = "saving" /\ op[r].do \in {"open", "remove", "rename"})

\* The runner of a published directory is past its build, for good.
Publishing == {"saving", "finish"} \cup Ended

PublishersAreDone ==
  \A s \in Scopes : entries[s].dir # Nobody =>
    stage[entries[s].dir] \in Publishing /\ Published(entries[s].dir, stored[entries[s].dir])

CacheInv ==
  /\ CacheTypes
  /\ \A r \in Runners : CallOfStage(r, op[r], stage[r])
  /\ ContentsAreOwn
  /\ StagingIsWhole
  /\ PublishersAreDone
  /\ EntryIsWhole

Inv == RunnerInv /\ CacheInv /\ LoginLastsForTheBuild

(***************************************************************************)
(* Lemmas about the operators.                                             *)
(***************************************************************************)

LEMMA NoEvidenceFacts ==
  /\ NoEvidence \in [Names -> Runners \cup {Nobody, "tag"}]
  /\ DOMAIN NoEvidence = Names
  /\ \A name \in Names : NoEvidence[name] = Nobody
BY DEF NoEvidence, Names

\* A check yields "ok" or a reason.
LEMMA CheckReasons ==
  /\ \A a, b : a # "none" /\ b # "none" => (a ?? b) # "none"
  /\ \A c, reason : reason # "none" => Require(c, reason) # "none"
BY DEF ??, Require

LEMMA BuildReasons ==
  /\ \A context : ResolveContextDir(context) # "none"
  /\ \A build : validateBuildRequest(build) # "none"
<1> USE CheckReasons
<1>1. \A cache : validateCache(cache) # "none"
  BY DEF validateCache
<1>2. \A context : ResolveContextDir(context) # "none"
  BY DEF ResolveContextDir
<1>3. \A build : validateBuildRequest(build) # "none"
  BY <1>1 DEF validateBuildRequest
<1> QED
  BY <1>2, <1>3

LEMMA RegistryReasons ==
  \A provider, prefix, secret, repository, push :
    RegistryChecks(provider, prefix, secret, repository, push) # "none"
<1> USE CheckReasons
<1>1. \A provider : New(provider) # "none"
  BY DEF New
<1>2. \A provider, repository : ImageResolves(provider, repository) # "none"
  BY DEF ImageResolves
<1>3. \A secret : ParseCredential(secret) # "none"
  BY DEF ParseCredential
<1>4. \A provider, secret : Login(provider, secret) # "none"
  BY DEF Login
<1>5. \A provider, prefix, secret, repository :
        (ParseCredential(secret)
           ?? Require(hasRegistryHost(ResolveImage(provider, prefix, repository)), "RegistryImageInvalid")
           ?? Login(provider, secret)) # "none"
  BY <1>3, <1>4
<1> QED
  BY <1>1, <1>2, <1>5 DEF RegistryChecks

\* The changes the stages make to a status.
Status(p, q, i, c, e, n) ==
  [phase |-> p, reason |-> q, image |-> i, conditions |-> c, evidence |-> e, artifacts |-> n]

LEMMA StatusChanges ==
  ASSUME NEW x, IsStatus(x)
  PROVE  /\ \A p, q : [x EXCEPT !.phase = p, !.reason = q] =
              Status(p, q, x.image, x.conditions, x.evidence, x.artifacts)
         /\ \A p : [x EXCEPT !.phase = p] =
              Status(p, x.reason, x.image, x.conditions, x.evidence, x.artifacts)
         /\ \A c : With(x, c) =
              Status(x.phase, x.reason, x.image, x.conditions \cup {c}, x.evidence, x.artifacts)
         /\ \A p, i : [x EXCEPT !.phase = p, !.image = i] =
              Status(p, x.reason, i, x.conditions, x.evidence, x.artifacts)
<1>1. x = Status(x.phase, x.reason, x.image, x.conditions, x.evidence, x.artifacts)
  BY DEF IsStatus, Status
<1>2. \A p : [x EXCEPT !.phase = p] =
        Status(p, x.reason, x.image, x.conditions, x.evidence, x.artifacts)
  BY <1>1 DEF Status
<1>3. \A c : With(x, c) =
        Status(x.phase, x.reason, x.image, x.conditions \cup {c}, x.evidence, x.artifacts)
  BY <1>1 DEF Status, With
<1>4. ASSUME NEW p, NEW q
      PROVE  [x EXCEPT !.phase = p, !.reason = q] =
               Status(p, q, x.image, x.conditions, x.evidence, x.artifacts)
  <2>1. [x EXCEPT !.phase = p, !.reason = q] = [[x EXCEPT !.phase = p] EXCEPT !.reason = q]
    OBVIOUS
  <2>2. PICK y : y = [x EXCEPT !.phase = p]
    OBVIOUS
  <2>3. y = Status(p, x.reason, x.image, x.conditions, x.evidence, x.artifacts)
    BY <1>2, <2>2
  <2>4. [y EXCEPT !.reason = q] = Status(p, q, x.image, x.conditions, x.evidence, x.artifacts)
    BY <2>3 DEF Status
  <2> QED
    BY <2>1, <2>2, <2>4
<1>5. ASSUME NEW p, NEW i
      PROVE  [x EXCEPT !.phase = p, !.image = i] =
               Status(p, x.reason, i, x.conditions, x.evidence, x.artifacts)
  <2>1. [x EXCEPT !.phase = p, !.image = i] = [[x EXCEPT !.phase = p] EXCEPT !.image = i]
    OBVIOUS
  <2>2. PICK y : y = [x EXCEPT !.phase = p]
    OBVIOUS
  <2>3. y = Status(p, x.reason, x.image, x.conditions, x.evidence, x.artifacts)
    BY <1>2, <2>2
  <2>4. [y EXCEPT !.image = i] = Status(p, x.reason, i, x.conditions, x.evidence, x.artifacts)
    BY <2>3 DEF Status
  <2> QED
    BY <2>1, <2>2, <2>4
<1> QED
  BY <1>2, <1>3, <1>4, <1>5, Zenon

(***************************************************************************)
(* How a stage ends.                                                       *)
(***************************************************************************)

LEMMA StageSets ==
  /\ Ended \subseteq Stages /\ Unbuilt \subseteq Stages /\ WithSteps \subseteq Stages
  /\ Ended \cap Unbuilt = {} /\ Ended \cap WithSteps = {}
BY DEF Stages, Ended, Unbuilt, Early, WithSteps, WithImage, WithSBOM, WithScan, WithSignature, WithProvenance, Late

\* What a step of runner r may do to what the runners share.
Changes(r) ==
  /\ work' = work
  /\ pushed \subseteq pushed' /\ signed \subseteq signed'
  /\ signed' \subseteq pushed' /\ pushed' \subseteq Runners
  /\ (registry \in [Images -> Runners \cup {Nobody}])'
  /\ objects' \in [Runners -> Nat]
  /\ \A q \in Runners \ {r} : objects'[q] = objects[q]

LEMMA NoChanges ==
  ASSUME RunnerTypes, UNCHANGED <<work, registry, pushed, signed, objects>>
  PROVE  \A r : Changes(r)
<1>1. Images' = Images
  BY DEF Images, Image, runnerEnv, Template
<1> QED
  BY <1>1 DEF RunnerTypes, Changes

LEMMA SameMeaning ==
  ASSUME UNCHANGED work, NEW r, NEW x
  PROVE  /\ Template(r)' = Template(r)
         /\ runnerEnv(r)' = runnerEnv(r)
         /\ \A name : Adapter(r, name)' = Adapter(r, name)
         /\ \A name : Has(r, x, name)' = Has(r, x, name)
         /\ ProvenanceWanted(r, x)' = ProvenanceWanted(r, x)
         /\ Published(r, x)' = Published(r, x)
BY DEF Template, runnerEnv, Adapter, Has, ProvenanceWanted, Evidenced, Published

LEMMA ValidStays ==
  ASSUME work' = work, pushed \subseteq pushed', signed \subseteq signed', NEW r, NEW x,
         Valid(r, x), x.artifacts <= objects'[r]
  PROVE  Valid(r, x)'
<1>1. Backed(r, x) => Backed(r, x)'
  BY SameMeaning DEF Backed
<1> QED
  BY <1>1 DEF Valid, IsStatus

LEMMA ProgressStays ==
  ASSUME work' = work, pushed \subseteq pushed', NEW r, NEW g, NEW x, Progress(r, g, x)
  PROVE  Progress(r, g, x)'
<1>1. /\ Template(r)' = Template(r) /\ runnerEnv(r)' = runnerEnv(r)
      /\ \A name : Has(r, x, name)' = Has(r, x, name)
      /\ ProvenanceWanted(r, x)' = ProvenanceWanted(r, x)
  BY SameMeaning
<1> QED
  BY <1>1 DEF Progress, Snapshots, Ended, Early, Unbuilt, WithSteps, WithImage, WithSBOM, WithScan, WithSignature, WithProvenance, Late

LEMMA BehindStays ==
  ASSUME work' = work, NEW r, NEW g, NEW y, Behind(r, g, y)
  PROVE  Behind(r, g, y)'
BY SameMeaning DEF Behind

\* One runner moves.
LEMMA Moved ==
  ASSUME RunnerInv, NEW r \in Runners, Changes(r), NEW g \in Stages, NEW x, NEW y,
         stage' = [stage EXCEPT ![r] = g],
         copy' = [copy EXCEPT ![r] = x],
         stored' = [stored EXCEPT ![r] = y],
         Sound(r, g, x, y)'
  PROVE  RunnerInv'
<1>1. RunnerTypes'
  BY DEF RunnerInv, RunnerTypes, Changes
<1>2. ASSUME NEW q \in Runners
      PROVE  Sound(q, stage[q], copy[q], stored[q])'
  <2>1. PICK h, c, d : h = stage'[q] /\ c = copy'[q] /\ d = stored'[q]
    OBVIOUS
  <2>2. CASE q = r
    <3>1. h = g /\ c = x /\ d = y
      BY <2>1, <2>2 DEF RunnerInv, RunnerTypes
    <3>2. Sound(q, h, c, d)'
      BY <3>1, <2>2
    <3> QED
      BY <3>2, <2>1 DEF Sound
  <2>3. CASE q # r
    <3>1. h = stage[q] /\ c = copy[q] /\ d = stored[q]
      BY <2>1, <2>3 DEF RunnerInv, RunnerTypes
    <3>2. Valid(q, c) /\ Valid(q, d) /\ Progress(q, h, c) /\ Behind(q, h, d)
      BY <3>1 DEF RunnerInv, RunnersAreSound, Sound
    <3>3. /\ objects'[q] = objects[q] /\ work' = work /\ pushed \subseteq pushed' /\ signed \subseteq signed'
          /\ c.artifacts <= objects'[q] /\ d.artifacts <= objects'[q]
      BY <2>3, <3>2 DEF Changes, Valid
    <3>4. Valid(q, c)' /\ Valid(q, d)' /\ Progress(q, h, c)' /\ Behind(q, h, d)'
      BY <3>2, <3>3, ValidStays, ProgressStays, BehindStays
    <3> QED
      BY <3>4, <2>1 DEF Sound
  <2> QED
    BY <2>2, <2>3
<1> QED
  BY <1>1, <1>2 DEF RunnerInv, RunnersAreSound

LEMMA ProgressIsBehind ==
  ASSUME NEW r, NEW g, NEW x, Progress(r, g, x)'
  PROVE  Behind(r, g, x)'
<1>1. g \in Late => /\ g \in WithSteps /\ g \in WithImage /\ g \in WithSBOM
                  /\ g \in WithScan /\ g \in WithSignature /\ g \in WithProvenance
  BY DEF Late, WithSteps, WithImage, WithSBOM, WithScan, WithSignature, WithProvenance
<1> QED
  BY <1>1 DEF Progress, Behind, Published, Evidenced

LEMMA EndIsSound ==
  ASSUME NEW r, NEW g \in Ended, NEW x
  PROVE  Progress(r, g, x)' /\ Behind(r, g, x)'
BY DEF Progress, Behind, Ended, Early, Unbuilt, WithSteps, WithImage, WithSBOM, WithScan, WithSignature, WithProvenance, Late

LEMMA KeptIsSound ==
  ASSUME RunnerInv, NEW r \in Runners, Changes(r), NEW g \in Stages, NEW x, Keep(r, x, g),
         Valid(r, x)', Progress(r, g, x)', Valid(r, stored[r]),
         stored[r].artifacts <= objects'[r], Behind(r, g, stored[r])
  PROVE  RunnerInv'
<1>1. PICK y : y = stored[r]
  OBVIOUS
<1>2. stored' = [stored EXCEPT ![r] = y]
  BY <1>1 DEF Keep, RunnerInv, RunnerTypes
<1>3. Valid(r, y)' /\ Behind(r, g, y)'
  BY <1>1, ValidStays, BehindStays DEF Changes
<1>4. Sound(r, g, x, y)'
  BY <1>3 DEF Sound
<1> QED
  BY <1>2, <1>4, Moved DEF Keep, Goto

LEMMA StoredIsSound ==
  ASSUME RunnerInv, NEW r \in Runners, Changes(r), NEW g \in Stages, NEW x, Store(r, x, g),
         Valid(r, x)', Progress(r, g, x)', Valid(r, stored[r]), stored[r].artifacts <= objects'[r]
  PROVE  RunnerInv'
<1>1. CASE stored' = [stored EXCEPT ![r] = x] /\ Goto(r, g)
  <2>1. Sound(r, g, x, x)'
    BY ProgressIsBehind DEF Sound
  <2> QED
    BY <1>1, <2>1, Moved DEF Store, Goto
<1>2. CASE UNCHANGED stored /\ Goto(r, "stopped")
  <2>1. PICK y : y = stored[r]
    OBVIOUS
  <2>2. stored' = [stored EXCEPT ![r] = y]
    BY <1>2, <2>1 DEF RunnerInv, RunnerTypes
  <2>3. "stopped" \in Ended /\ "stopped" \in Stages
    BY DEF Ended, Stages
  <2>4. Valid(r, y)'
    BY <2>1, ValidStays DEF Changes
  <2>5. Sound(r, "stopped", x, y)'
    BY <2>3, <2>4, EndIsSound DEF Sound
  <2> QED
    BY <1>2, <2>2, <2>3, <2>5, Moved DEF Store, Goto
<1> QED
  BY <1>1, <1>2 DEF Store

LEMMA FailedIsSound ==
  ASSUME RunnerInv, NEW r \in Runners, Changes(r), NEW x, NEW reason, reason # "none", fail(r, x, reason),
         Valid(r, x)', Valid(r, stored[r]), stored[r].artifacts <= objects'[r]
  PROVE  RunnerInv'
<1>1. PICK z : z = [x EXCEPT !.phase = "Failed", !.reason = reason]
  OBVIOUS
<1>2. IsStatus(x)
  BY DEF Valid, IsStatus
<1>3. z = Status("Failed", reason, x.image, x.conditions, x.evidence, x.artifacts)
  BY <1>1, <1>2, StatusChanges
<1>4. /\ IsStatus(z) /\ z.phase = "Failed" /\ z.reason = reason /\ z.image = x.image
      /\ z.conditions = x.conditions /\ z.evidence = x.evidence /\ z.artifacts = x.artifacts
  BY <1>2, <1>3 DEF Status, IsStatus
<1>5. Valid(r, z)'
  BY <1>4 DEF Valid, IsStatus
<1>6. "done" \in Ended /\ "done" \in Stages
  BY DEF Ended, Stages
<1>7. Progress(r, "done", z)'
  BY <1>5, <1>6, EndIsSound
<1>8. Store(r, z, "done")
  BY <1>1 DEF fail
<1> QED
  BY <1>5, <1>6, <1>7, <1>8, StoredIsSound

LEMMA AtStage ==
  ASSUME RunnerInv, NEW r \in Runners
  PROVE  /\ Valid(r, copy[r]) /\ Progress(r, stage[r], copy[r])
         /\ Valid(r, stored[r]) /\ Behind(r, stage[r], stored[r])
BY DEF RunnerInv, RunnersAreSound, Sound

\* Most stages change nothing that the runners share.
Quiet == UNCHANGED <<work, registry, pushed, signed, objects>>

LEMMA QuietMeaning ==
  ASSUME Quiet, RunnerInv, NEW r \in Runners
  PROVE  /\ Changes(r) /\ stored[r].artifacts <= objects'[r]
         /\ \A x : Valid(r, x) => Valid(r, x)'
         /\ \A g, x : Progress(r, g, x) => Progress(r, g, x)'
<1>1. Changes(r)
  BY NoChanges DEF RunnerInv, Quiet
<1>2. stored[r].artifacts <= objects'[r]
  BY AtStage DEF Valid, Quiet
<1>3. ASSUME NEW x, Valid(r, x) PROVE Valid(r, x)'
  <2>1. x.artifacts <= objects'[r]
    BY <1>3 DEF Valid, Quiet
  <2> QED
    BY <1>3, <2>1, ValidStays DEF Quiet
<1>4. ASSUME NEW g, NEW x, Progress(r, g, x) PROVE Progress(r, g, x)'
  BY <1>4, ProgressStays DEF Quiet
<1> QED
  BY <1>1, <1>2, <1>3, <1>4

LEMMA QuietKeep ==
  ASSUME Quiet, RunnerInv, NEW r \in Runners, NEW g \in Stages, NEW x, Keep(r, x, g),
         Valid(r, x), Progress(r, g, x), Behind(r, g, stored[r])
  PROVE  RunnerInv'
<1>1. Valid(r, x)' /\ Progress(r, g, x)' /\ Changes(r) /\ stored[r].artifacts <= objects'[r]
  BY QuietMeaning
<1>2. Valid(r, stored[r])
  BY AtStage
<1> QED
  BY <1>1, <1>2, KeptIsSound

LEMMA QuietStore ==
  ASSUME Quiet, RunnerInv, NEW r \in Runners, NEW g \in Stages, NEW x, Store(r, x, g),
         Valid(r, x), Progress(r, g, x)
  PROVE  RunnerInv'
<1>1. Valid(r, x)' /\ Progress(r, g, x)' /\ Changes(r) /\ stored[r].artifacts <= objects'[r]
  BY QuietMeaning
<1>2. Valid(r, stored[r])
  BY AtStage
<1> QED
  BY <1>1, <1>2, StoredIsSound

LEMMA QuietFail ==
  ASSUME Quiet, RunnerInv, NEW r \in Runners, NEW reason, reason # "none", fail(r, copy[r], reason)
  PROVE  RunnerInv'
<1>1. PICK x : x = copy[r]
  OBVIOUS
<1>2. Valid(r, x)
  BY <1>1, AtStage
<1>3. Valid(r, x)' /\ Changes(r) /\ stored[r].artifacts <= objects'[r]
  BY <1>2, QuietMeaning
<1>4. Valid(r, stored[r]) /\ fail(r, x, reason)
  BY <1>1, AtStage
<1> QED
  BY <1>3, <1>4, FailedIsSound

\* A runner goes on with the copy as it is.
LEMMA QuietGo ==
  ASSUME Quiet, RunnerInv, NEW r \in Runners, NEW g \in Stages, Keep(r, copy[r], g),
         Progress(r, g, copy[r]), Behind(r, g, stored[r])
  PROVE  RunnerInv'
<1>1. PICK x : x = copy[r]
  OBVIOUS
<1>2. Valid(r, x) /\ Progress(r, g, x) /\ Keep(r, x, g)
  BY <1>1, AtStage
<1> QED
  BY <1>2, QuietKeep

\* A condition that is not about the registry.
LEMMA WithIsValid ==
  ASSUME NEW r, NEW x, Valid(r, x), NEW c, c # "ImagePushed"
  PROVE  /\ Valid(r, With(x, c))
         /\ With(x, c).phase = x.phase /\ With(x, c).image = x.image
         /\ With(x, c).conditions = x.conditions \cup {c}
         /\ With(x, c).evidence = x.evidence /\ With(x, c).artifacts = x.artifacts
<1>1. PICK z : z = With(x, c)
  OBVIOUS
<1>2. IsStatus(x)
  BY DEF Valid
<1>3. z = Status(x.phase, x.reason, x.image, x.conditions \cup {c}, x.evidence, x.artifacts)
  BY <1>1, <1>2, StatusChanges
<1>4. /\ z.phase = x.phase /\ z.reason = x.reason /\ z.image = x.image
      /\ z.conditions = x.conditions \cup {c} /\ z.evidence = x.evidence /\ z.artifacts = x.artifacts
  BY <1>3 DEF Status
<1>5. IsStatus(z)
  BY <1>2, <1>3, <1>4 DEF IsStatus, Status
<1>6. Backed(r, x) => Backed(r, z)
  BY <1>4 DEF Backed, Has
<1>7. Valid(r, z)
  BY <1>4, <1>5, <1>6 DEF Valid
<1> QED
  BY <1>1, <1>4, <1>7

(***************************************************************************)
(* The stages before the image.                                            *)
(***************************************************************************)

LEMMA LoadSound == ASSUME RunnerInv, NEW r \in Runners, Load(r) PROVE RunnerInv'
<1> USE DEF Ended, Early, Unbuilt, WithSteps, WithImage, WithSBOM, WithScan, WithSignature, WithProvenance, Late
<1>1. Quiet /\ stage[r] = "load"
  BY DEF Load, Quiet, cacheVars
<1>2. Progress(r, "load", copy[r]) /\ Behind(r, "load", stored[r])
  BY <1>1, AtStage
<1>3. /\ Progress(r, "start", copy[r]) /\ Behind(r, "start", stored[r])
      /\ Progress(r, "stopped", copy[r]) /\ Behind(r, "stopped", stored[r])
  BY <1>2 DEF Progress, Behind
<1>4. "start" \in Stages /\ "stopped" \in Stages
  BY DEF Stages
<1>5. CASE Keep(r, copy[r], "start")
  BY <1>1, <1>3, <1>4, <1>5, QuietGo
<1>6. CASE Keep(r, copy[r], "stopped")
  BY <1>1, <1>3, <1>4, <1>6, QuietGo
<1>7. CASE \E reason \in {"RepositoryLoadFailed", "PipelineTemplateLoadFailed"} : fail(r, copy[r], reason)
  BY <1>1, <1>7, QuietFail
<1> QED
  BY <1>5, <1>6, <1>7 DEF Load

LEMMA StartSound == ASSUME RunnerInv, NEW r \in Runners, Start(r) PROVE RunnerInv'
<1> USE DEF Ended, Early, Unbuilt, WithSteps, WithImage, WithSBOM, WithScan, WithSignature, WithProvenance, Late
<1>1. Quiet /\ stage[r] = "start"
  BY DEF Start, Quiet, cacheVars
<1>2. CASE fail(r, copy[r], "LogStoreWriteFailed")
  BY <1>1, <1>2, QuietFail
<1>3. CASE Store(r, [copy[r] EXCEPT !.phase = "Running"], "clone")
  <2>1. PICK x, z : x = copy[r] /\ z = [x EXCEPT !.phase = "Running"]
    OBVIOUS
  <2>2. Valid(r, x) /\ Progress(r, "start", x)
    BY <1>1, <2>1, AtStage
  <2>3. z = Status("Running", x.reason, x.image, x.conditions, x.evidence, x.artifacts)
    BY <2>1, <2>2, StatusChanges DEF Valid
  <2>4. /\ z.phase = "Running" /\ z.reason = x.reason /\ z.image = x.image /\ z.conditions = x.conditions
        /\ z.evidence = x.evidence /\ z.artifacts = x.artifacts
    BY <2>3 DEF Status
  <2>5. IsStatus(z)
    BY <2>2, <2>3, <2>4 DEF Valid, IsStatus, Status
  <2>6. x.phase \in {"Queued", "Running"}
    BY <2>2 DEF Progress
  <2>7. Valid(r, z)
    BY <2>2, <2>4, <2>5, <2>6 DEF Valid
  <2>8. Progress(r, "clone", z)
    BY <2>2, <2>4 DEF Progress
  <2>9. "clone" \in Stages /\ Store(r, z, "clone")
    BY <1>3, <2>1 DEF Stages
  <2> QED
    BY <1>1, <2>7, <2>8, <2>9, QuietStore
<1> QED
  BY <1>2, <1>3 DEF Start

LEMMA CloneSound == ASSUME RunnerInv, NEW r \in Runners, Clone(r) PROVE RunnerInv'
<1> USE DEF Ended, Early, Unbuilt, WithSteps, WithImage, WithSBOM, WithScan, WithSignature, WithProvenance, Late
<1>1. Quiet /\ stage[r] = "clone"
  BY DEF Clone, Quiet, cacheVars
<1>2. Progress(r, "clone", copy[r]) /\ Behind(r, "clone", stored[r])
  BY <1>1, AtStage
<1>3. Progress(r, "cache", copy[r]) /\ Behind(r, "cache", stored[r]) /\ "cache" \in Stages
  BY <1>2 DEF Progress, Behind, Stages
<1>4. CASE Keep(r, copy[r], "cache")
  BY <1>1, <1>3, <1>4, QuietGo
<1>5. CASE fail(r, copy[r], "RepositoryFailed")
  BY <1>1, <1>5, QuietFail
<1> QED
  BY <1>4, <1>5 DEF Clone

\* A condition is recorded in the copy before the steps, or is not.
LEMMA CachedSound ==
  ASSUME Quiet, RunnerInv, NEW r \in Runners, stage[r] \in {"cache", "restoring"},
         NEW g \in {"restoring", "cloned"},
         Keep(r, copy[r], g) \/ Keep(r, With(copy[r], "CacheRestored"), g)
  PROVE  RunnerInv'
<1> USE DEF Ended, Early, Unbuilt, WithSteps, WithImage, WithSBOM, WithScan, WithSignature, WithProvenance, Late
<1>1. PICK x, z : x = copy[r] /\ z = With(x, "CacheRestored")
  OBVIOUS
<1>2. Valid(r, x) /\ Progress(r, stage[r], x) /\ Behind(r, stage[r], stored[r])
  BY <1>1, AtStage
<1>3. /\ Valid(r, z) /\ z.phase = x.phase /\ z.image = x.image
      /\ z.evidence = x.evidence /\ z.artifacts = x.artifacts
  BY <1>1, <1>2, WithIsValid
<1>4. Progress(r, g, x) /\ Progress(r, g, z) /\ Behind(r, g, stored[r]) /\ g \in Stages
  BY <1>2, <1>3 DEF Progress, Behind, Stages
<1>5. Keep(r, x, g) \/ Keep(r, z, g)
  BY <1>1
<1> QED
  BY <1>2, <1>3, <1>4, <1>5, QuietKeep

LEMMA PrepareCacheSound == ASSUME RunnerInv, NEW r \in Runners, PrepareCache(r) PROVE RunnerInv'
<1>1. Quiet /\ stage[r] = "cache"
  BY DEF PrepareCache, Quiet
<1>2. CASE \E g \in {"restoring", "cloned"} : Keep(r, copy[r], g) \/ Keep(r, With(copy[r], "CacheRestored"), g)
  BY <1>1, <1>2, CachedSound
<1>3. CASE \E reason : reason # "none" /\ fail(r, copy[r], reason)
  BY <1>1, <1>3, QuietFail
<1>4. \/ \E g \in {"restoring", "cloned"} : Keep(r, copy[r], g) \/ Keep(r, With(copy[r], "CacheRestored"), g)
      \/ \E reason : reason # "none" /\ fail(r, copy[r], reason)
  BY DEF PrepareCache
<1> QED
  BY <1>2, <1>3, <1>4

LEMMA RestoredSound == ASSUME RunnerInv, NEW r \in Runners, Restored(r) PROVE RunnerInv'
<1>1. Quiet /\ stage[r] = "restoring"
  BY DEF Restored, Quiet
<1>2. CASE Keep(r, copy[r], "cloned") \/ Keep(r, With(copy[r], "CacheRestored"), "cloned")
  BY <1>1, <1>2, CachedSound
<1>3. CASE fail(r, copy[r], "CacheRestoreFailed")
  BY <1>1, <1>3, QuietFail
<1> QED
  BY <1>2, <1>3 DEF Restored

LEMMA ClonedSound == ASSUME RunnerInv, NEW r \in Runners, Cloned(r) PROVE RunnerInv'
<1> USE DEF Ended, Early, Unbuilt, WithSteps, WithImage, WithSBOM, WithScan, WithSignature, WithProvenance, Late
<1>1. Quiet /\ stage[r] = "cloned"
  BY DEF Cloned, Quiet, cacheVars
<1>2. PICK x, z : x = copy[r] /\ z = With(x, "RepositoryCloned")
  OBVIOUS
<1>3. Valid(r, x) /\ Progress(r, "cloned", x)
  BY <1>1, <1>2, AtStage
<1>4. /\ Valid(r, z) /\ z.phase = x.phase /\ z.image = x.image
      /\ z.evidence = x.evidence /\ z.artifacts = x.artifacts
  BY <1>2, <1>3, WithIsValid
<1>5. Progress(r, "steps", z) /\ "steps" \in Stages /\ Store(r, z, "steps")
  BY <1>2, <1>3, <1>4 DEF Progress, Stages, Cloned
<1> QED
  BY <1>1, <1>4, <1>5, QuietStore

LEMMA Unmoved ==
  ASSUME RunnerInv, Quiet, UNCHANGED <<stage, copy, stored>>
  PROVE  RunnerInv'
<1>1. \A r : Changes(r)
  BY NoChanges DEF RunnerInv, Quiet
<1>2. RunnerTypes'
  <2>1. Images' = Images
    BY DEF Images, Image, runnerEnv, Template, Quiet
  <2> QED
    BY <2>1 DEF RunnerInv, RunnerTypes, Quiet
<1>3. ASSUME NEW r \in Runners PROVE Sound(r, stage[r], copy[r], stored[r])'
  <2>1. PICK g, x, y : g = stage[r] /\ x = copy[r] /\ y = stored[r]
    OBVIOUS
  <2>2. Valid(r, x) /\ Valid(r, y) /\ Progress(r, g, x) /\ Behind(r, g, y)
    BY <2>1, AtStage
  <2>3. Valid(r, x)' /\ Valid(r, y)' /\ Progress(r, g, x)' /\ Behind(r, g, y)'
    BY <2>2, QuietMeaning, BehindStays DEF Quiet
  <2> QED
    BY <2>1, <2>3 DEF Sound
<1> QED
  BY <1>2, <1>3 DEF RunnerInv, RunnersAreSound

LEMMA StepSound == ASSUME RunnerInv, NEW r \in Runners, Step(r) PROVE RunnerInv'
<1>1. Quiet
  BY DEF Step, Quiet
<1>2. CASE fail(r, copy[r], "StepFailed")
  BY <1>1, <1>2, QuietFail
<1>3. CASE UNCHANGED <<stage, copy, stored>>
  BY <1>1, <1>3, Unmoved
<1> QED
  BY <1>2, <1>3 DEF Step

\* The artifacts are those the store holds: a failed collection leaves some, and
\* a required one has at least one.
LEMMA CollectSound ==
  ASSUME RunnerInv, NEW r \in Runners, stage[r] = "steps", collectArtifacts(r),
         UNCHANGED <<work, registry, pushed, signed>>
  PROVE  RunnerInv'
<1> USE DEF Ended, Early, Unbuilt, WithSteps, WithImage, WithSBOM, WithScan, WithSignature, WithProvenance, Late
<1>1. PICK files \in FileCounts : \E m \in 0 .. uploaded(runnerEnv(r).artifactStore, files) :
        /\ objects' = [objects EXCEPT ![r] = m]
        /\ IF m < files \/ (files = 0 /\ Template(r).artifacts = "required")
           THEN fail(r, With(copy[r], "StepsCompleted"), "ArtifactCollectionFailed")
           ELSE Store(r, [With(copy[r], "StepsCompleted") EXCEPT !.artifacts = m], "build")
  BY DEF collectArtifacts
<1>2. PICK n \in 0 .. uploaded(runnerEnv(r).artifactStore, files) :
        /\ objects' = [objects EXCEPT ![r] = n]
        /\ IF n < files \/ (files = 0 /\ Template(r).artifacts = "required")
           THEN fail(r, With(copy[r], "StepsCompleted"), "ArtifactCollectionFailed")
           ELSE Store(r, [With(copy[r], "StepsCompleted") EXCEPT !.artifacts = n], "build")
  BY <1>1
<1>3. files \in Nat /\ n \in Nat
  BY SizesAssumption DEF uploaded
<1>4. Images' = Images
  BY DEF Images, Image, runnerEnv, Template
<1>5. objects \in [Runners -> Nat] /\ objects'[r] = n
  BY <1>2 DEF RunnerInv, RunnerTypes
<1>6. Changes(r)
  BY <1>2, <1>3, <1>4, <1>5 DEF Changes, RunnerInv, RunnerTypes
<1>7. PICK x, z : x = copy[r] /\ z = With(x, "StepsCompleted")
  OBVIOUS
<1>8. Valid(r, x) /\ Progress(r, "steps", x) /\ Valid(r, stored[r]) /\ Behind(r, "steps", stored[r])
  BY <1>7, AtStage
<1>9. /\ Valid(r, z) /\ z.phase = x.phase /\ z.image = x.image /\ z.conditions = x.conditions \cup {"StepsCompleted"}
      /\ z.evidence = x.evidence /\ z.artifacts = x.artifacts
  BY <1>7, <1>8, WithIsValid
<1>10. stored[r].artifacts = 0 /\ z.artifacts = 0
  BY <1>8, <1>9 DEF Progress, Behind
<1>11. stored[r].artifacts <= objects'[r] /\ z.artifacts <= objects'[r]
  BY <1>3, <1>5, <1>10
<1>12. CASE fail(r, With(copy[r], "StepsCompleted"), "ArtifactCollectionFailed")
  <2>1. Valid(r, z)'
    BY <1>6, <1>9, <1>11, ValidStays DEF Changes
  <2>2. fail(r, z, "ArtifactCollectionFailed")
    BY <1>7, <1>12
  <2> QED
    BY <1>6, <1>8, <1>11, <2>1, <2>2, FailedIsSound
<1>13. CASE /\ ~(n < files \/ (files = 0 /\ Template(r).artifacts = "required"))
            /\ Store(r, [With(copy[r], "StepsCompleted") EXCEPT !.artifacts = n], "build")
  <2>1. PICK w : w = [z EXCEPT !.artifacts = n]
    OBVIOUS
  <2>2. /\ IsStatus(x)
        /\ z = Status(x.phase, x.reason, x.image, x.conditions \cup {"StepsCompleted"}, x.evidence, x.artifacts)
    BY <1>7, <1>8, StatusChanges DEF Valid
  <2>3. w = Status(x.phase, x.reason, x.image, x.conditions \cup {"StepsCompleted"}, x.evidence, n)
    BY <2>1, <2>2 DEF Status
  <2>4. /\ w.phase = x.phase /\ w.reason = x.reason /\ w.image = x.image
        /\ w.conditions = x.conditions \cup {"StepsCompleted"} /\ w.evidence = x.evidence /\ w.artifacts = n
    BY <2>3 DEF Status
  <2>5. IsStatus(w)
    BY <1>3, <2>2, <2>3, <2>4 DEF IsStatus, Status
  <2>6. x.phase \in {"Queued", "Running"}
    BY <1>8 DEF Progress
  <2>7. w.artifacts <= objects'[r]
    BY <1>3, <1>5, <2>4
  <2>8. Valid(r, w)'
    BY <1>8, <2>4, <2>5, <2>6, <2>7 DEF Valid, IsStatus
  <2>9. Template(r).artifacts = "required" => w.artifacts > 0
    BY <1>3, <1>13, <2>4
  <2>10. Progress(r, "build", w)
    BY <1>8, <2>4, <2>9 DEF Progress
  <2>11. Progress(r, "build", w)'
    BY <2>10, ProgressStays
  <2>12. Store(r, w, "build") /\ "build" \in Stages
    BY <1>7, <1>13, <2>1 DEF Stages
  <2> QED
    BY <1>6, <1>8, <1>11, <2>8, <2>11, <2>12, StoredIsSound
<1> QED
  BY <1>2, <1>12, <1>13

LEMMA StepsDoneSound == ASSUME RunnerInv, NEW r \in Runners, StepsDone(r) PROVE RunnerInv'
<1> USE DEF Ended, Early, Unbuilt, WithSteps, WithImage, WithSBOM, WithScan, WithSignature, WithProvenance, Late
<1>1. UNCHANGED <<work, registry, pushed, signed>> /\ stage[r] = "steps"
  BY DEF StepsDone, cacheVars
<1>2. CASE collectArtifacts(r)
  BY <1>1, <1>2, CollectSound
<1>3. CASE /\ ~(runnerEnv(r).artifactStore # "none" /\ Template(r).artifacts # "none")
           /\ Store(r, With(copy[r], "StepsCompleted"), "build") /\ UNCHANGED objects
  <2>1. Quiet
    BY <1>1, <1>3 DEF Quiet
  <2>2. PICK x, z : x = copy[r] /\ z = With(x, "StepsCompleted")
    OBVIOUS
  <2>3. Valid(r, x) /\ Progress(r, "steps", x)
    BY <1>1, <2>2, AtStage
  <2>4. /\ Valid(r, z) /\ z.phase = x.phase /\ z.image = x.image
        /\ z.conditions = x.conditions \cup {"StepsCompleted"}
        /\ z.evidence = x.evidence /\ z.artifacts = x.artifacts
    BY <2>2, <2>3, WithIsValid
  <2>5. Progress(r, "build", z) /\ "build" \in Stages /\ Store(r, z, "build")
    BY <1>3, <2>2, <2>3, <2>4 DEF Progress, Stages
  <2> QED
    BY <2>1, <2>4, <2>5, QuietStore
<1> QED
  BY <1>2, <1>3 DEF StepsDone

(***************************************************************************)
(* The image and the hooks.                                                *)
(***************************************************************************)

LEMMA StartBuildSound == ASSUME RunnerInv, NEW r \in Runners, StartBuild(r) PROVE RunnerInv'
<1> USE DEF Ended, Early, Unbuilt, WithSteps, WithImage, WithSBOM, WithScan, WithSignature, WithProvenance, Late
<1>1. Quiet /\ stage[r] = "build"
  BY DEF StartBuild, Quiet, cacheVars
<1>2. PICK x, z : x = copy[r] /\ z = With(x, "ImageBuildStarted")
  OBVIOUS
<1>3. Valid(r, x) /\ Progress(r, "build", x) /\ Behind(r, "build", stored[r])
  BY <1>1, <1>2, AtStage
<1>4. CASE Template(r).build
  <2>1. /\ Valid(r, z) /\ z.phase = x.phase /\ z.image = x.image
        /\ z.conditions = x.conditions \cup {"ImageBuildStarted"}
        /\ z.evidence = x.evidence /\ z.artifacts = x.artifacts
    BY <1>2, <1>3, WithIsValid
  <2>2. Progress(r, "prepare", z)
    BY <1>3, <1>4, <2>1 DEF Progress
  <2>3. Store(r, z, "prepare") /\ "prepare" \in Stages
    BY <1>2, <1>4 DEF StartBuild, Stages
  <2> QED
    BY <1>1, <2>1, <2>2, <2>3, QuietStore
<1>5. CASE ~Template(r).build
  <2>1. Progress(r, "save", x)
    BY <1>3, <1>5 DEF Progress
  <2>2. Behind(r, "save", stored[r])
    BY <1>3, <1>5 DEF Behind, Published
  <2>3. Keep(r, x, "save") /\ "save" \in Stages
    BY <1>2, <1>5 DEF StartBuild, Stages
  <2> QED
    BY <1>1, <1>3, <2>1, <2>2, <2>3, QuietKeep
<1> QED
  BY <1>4, <1>5

\* A login that cannot be written ends the runner; what it leaves is no matter here.
LEMMA WriteFailsSound ==
  ASSUME Quiet, RunnerInv, NEW r \in Runners, WriteFails(r)
  PROVE  RunnerInv'
<1>1. PICK x, y : x = copy[r] /\ y = stored[r]
  OBVIOUS
<1>2. PICK z : z = [x EXCEPT !.phase = "Failed", !.reason = "RegistryCredentialsInvalid"]
  OBVIOUS
<1>3. Valid(r, x) /\ Valid(r, y)
  BY <1>1, AtStage
<1>4. z = Status("Failed", "RegistryCredentialsInvalid", x.image, x.conditions, x.evidence, x.artifacts)
  BY <1>2, <1>3, StatusChanges DEF Valid
<1>5. /\ IsStatus(z) /\ z.phase = "Failed" /\ z.reason = "RegistryCredentialsInvalid" /\ z.image = x.image
      /\ z.conditions = x.conditions /\ z.evidence = x.evidence /\ z.artifacts = x.artifacts
  BY <1>3, <1>4 DEF Status, IsStatus, Valid
<1>6. Valid(r, z)
  BY <1>3, <1>5 DEF Valid
<1>7. Valid(r, z)' /\ Valid(r, y)' /\ Changes(r)
  BY <1>3, <1>6, QuietMeaning
<1>8. {"done", "stopped"} \subseteq Ended /\ {"done", "stopped"} \subseteq Stages
  BY DEF Ended, Stages
<1>9. \A g \in {"done", "stopped"} : Sound(r, g, z, z)' /\ Sound(r, g, z, y)'
  BY <1>7, <1>8, EndIsSound DEF Sound
<1>10. copy' = [copy EXCEPT ![r] = z]
  BY <1>1, <1>2 DEF WriteFails
<1>11. \/ stored' = [stored EXCEPT ![r] = z] /\ stage' = [stage EXCEPT ![r] = "done"]
       \/ stored' = [stored EXCEPT ![r] = y] /\ stage' = [stage EXCEPT ![r] = "stopped"]
  BY <1>1, <1>2 DEF WriteFails, RunnerInv, RunnerTypes
<1> QED
  BY <1>7, <1>8, <1>9, <1>10, <1>11, Moved

LEMMA PrepareBuildSound == ASSUME RunnerInv, NEW r \in Runners, PrepareBuild(r) PROVE RunnerInv'
<1> USE DEF Ended, Early, Unbuilt, WithSteps, WithImage, WithSBOM, WithScan, WithSignature, WithProvenance, Late
<1>1. Quiet /\ stage[r] = "prepare"
  BY DEF PrepareBuild, Quiet, cacheVars
<1>2. PICK x, y : x = copy[r] /\ y = stored[r]
  OBVIOUS
<1>3. Valid(r, x) /\ Progress(r, "prepare", x) /\ Valid(r, y) /\ Behind(r, "prepare", y)
  BY <1>1, <1>2, AtStage
<1>4. Progress(r, "buildkit", x) /\ Behind(r, "buildkit", y) /\ "buildkit" \in Stages
  BY <1>3 DEF Progress, Behind, Stages
<1>5. CASE \E reason : reason # "none" /\ fail(r, copy[r], reason)
  BY <1>1, <1>5, QuietFail
<1>6. CASE Keep(r, copy[r], "buildkit")
  BY <1>1, <1>2, <1>4, <1>6, QuietGo
<1>7. CASE stage' = [stage EXCEPT ![r] = "buildkit"] /\ UNCHANGED <<copy, stored>>
  <2>1. copy' = [copy EXCEPT ![r] = x] /\ stored' = [stored EXCEPT ![r] = y]
    BY <1>2, <1>7 DEF RunnerInv, RunnerTypes
  <2>2. Changes(r) /\ Valid(r, x)' /\ Valid(r, y)' /\ Progress(r, "buildkit", x)' /\ Behind(r, "buildkit", y)'
    BY <1>1, <1>3, <1>4, QuietMeaning, BehindStays DEF Quiet
  <2>3. Sound(r, "buildkit", x, y)'
    BY <2>2 DEF Sound
  <2> QED
    BY <1>4, <1>7, <2>1, <2>2, <2>3, Moved
<1>8. \A a, b1, b2, b3, b4, b5 : (ResolveContextDir(a) ?? RegistryChecks(b1, b2, b3, b4, b5)) # "none"
  BY BuildReasons, RegistryReasons, CheckReasons
<1>9. \/ \E reason : reason # "none" /\ fail(r, copy[r], reason)
      \/ WriteFails(r)
      \/ Keep(r, copy[r], "buildkit")
      \/ stage' = [stage EXCEPT ![r] = "buildkit"] /\ UNCHANGED <<copy, stored>>
  BY <1>8 DEF PrepareBuild
<1> QED
  BY <1>1, <1>5, <1>6, <1>7, <1>9, WriteFailsSound

\* The conditions of a status after the build.
BuiltConditions(r, digest) ==
  copy[r].conditions \cup {"ImageBuilt"}
    \cup (IF Template(r).push THEN {"ImagePushed"} ELSE {})
    \cup (IF digest = "tag" THEN {} ELSE {"ImageDigestCaptured"})

LEMMA BuiltFacts ==
  ASSUME NEW r \in Runners, IsStatus(copy[r]), NEW digest
  PROVE  Built(r, digest) =
           Status(copy[r].phase, copy[r].reason, digest, BuiltConditions(r, digest),
                  copy[r].evidence, copy[r].artifacts)
<1>1. PICK x, cs : x = copy[r] /\ cs = BuiltConditions(r, digest)
  OBVIOUS
<1>2. PICK y : y = [x EXCEPT !.image = digest]
  OBVIOUS
<1>3. y = Status(x.phase, x.reason, digest, x.conditions, x.evidence, x.artifacts)
  BY <1>1, <1>2 DEF IsStatus, Status
<1>4. y.conditions = x.conditions
  BY <1>3 DEF Status
<1>5. Built(r, digest) =
        [y EXCEPT !.conditions = @ \cup {"ImageBuilt"}
                                   \cup (IF Template(r).push THEN {"ImagePushed"} ELSE {})
                                   \cup (IF digest = "tag" THEN {} ELSE {"ImageDigestCaptured"})]
  BY <1>1, <1>2 DEF Built
<1>6. Built(r, digest) = [y EXCEPT !.conditions = cs]
  BY <1>1, <1>4, <1>5 DEF BuiltConditions
<1>7. [y EXCEPT !.conditions = cs] = Status(x.phase, x.reason, digest, cs, x.evidence, x.artifacts)
  BY <1>3 DEF Status
<1> QED
  BY <1>1, <1>6, <1>7

LEMMA BuildSound == ASSUME RunnerInv, NEW r \in Runners, Build(r) PROVE RunnerInv'
<1> USE DEF Ended, Early, Unbuilt, WithSteps, WithImage, WithSBOM, WithScan, WithSignature, WithProvenance, Late
<1>1. UNCHANGED <<work, signed, objects>> /\ stage[r] = "buildkit"
  BY DEF Build, cacheVars
<1>2. Images' = Images /\ Image(r) \in Images
  <2>1. Images' = Images
    BY <1>1 DEF Images, Image, runnerEnv, Template
  <2> QED
    BY <2>1 DEF Images
<1>3. CASE UNCHANGED <<registry, pushed>> /\ \E reason : reason # "none" /\ fail(r, copy[r], reason)
  <2>1. Quiet
    BY <1>1, <1>3 DEF Quiet
  <2> QED
    BY <1>3, <2>1, QuietFail
<1>4. ASSUME IF Template(r).push THEN Push(r) ELSE UNCHANGED <<registry, pushed>>
      PROVE  Changes(r)
  BY <1>1, <1>2, <1>4 DEF Changes, Push, RunnerInv, RunnerTypes
<1>5. PICK x : x = copy[r]
  OBVIOUS
<1>6. Valid(r, x) /\ Progress(r, "buildkit", x) /\ Valid(r, stored[r])
  BY <1>1, <1>5, AtStage
<1>7. /\ IsStatus(x) /\ x.artifacts <= objects'[r] /\ stored[r].artifacts <= objects'[r]
      /\ x.phase \in {"Queued", "Running"} /\ x.image = "unset" /\ x.evidence = NoEvidence
      /\ Template(r).build
  BY <1>1, <1>6 DEF Valid, Progress
<1>8. CASE /\ IF Template(r).push THEN Push(r) ELSE UNCHANGED <<registry, pushed>>
           /\ \E reason : reason # "none" /\ fail(r, copy[r], reason)
  <2>1. PICK reason : reason # "none" /\ fail(r, x, reason)
    BY <1>5, <1>8
  <2>2. Valid(r, x)'
    BY <1>4, <1>6, <1>7, <1>8, ValidStays DEF Changes
  <2> QED
    BY <1>4, <1>6, <1>7, <1>8, <2>1, <2>2, FailedIsSound
<1>9. ASSUME NEW digest \in {"tag", r}, Template(r).push => digest = r,
             IF Template(r).push THEN Push(r) ELSE UNCHANGED <<registry, pushed>>,
             Store(r, Built(r, digest), "sbom")
      PROVE  RunnerInv'
  <2>1. PICK z : z = Built(r, digest)
    OBVIOUS
  <2>2. PICK cs : cs = BuiltConditions(r, digest)
    OBVIOUS
  <2>3. z = Status(x.phase, x.reason, digest, cs, x.evidence, x.artifacts)
    BY <1>5, <1>7, <2>1, <2>2, BuiltFacts
  <2>4. /\ z.phase = x.phase /\ z.reason = x.reason /\ z.image = digest /\ z.conditions = cs
        /\ z.evidence = NoEvidence /\ z.artifacts = x.artifacts
    BY <1>7, <2>3 DEF Status
  <2>5. IsStatus(z)
    BY <1>7, <1>9, <2>3, <2>4 DEF IsStatus, Status
  <2>6. Template(r).push => r \in pushed'
    BY <1>9 DEF Push
  <2>7. x.conditions \subseteq cs /\ "ImageBuilt" \in cs
    BY <1>5, <2>2 DEF BuiltConditions
  <2>8. "ImagePushed" \in cs => "ImagePushed" \in x.conditions \/ Template(r).push
    BY <1>5, <2>2 DEF BuiltConditions
  <2>9. pushed \subseteq pushed' /\ work' = work
    BY <1>4, <1>9 DEF Changes
  <2>10. Valid(r, z)'
    <3>1. IsStatus(z)'
      BY <2>5 DEF IsStatus
    <3>2. z.phase = "Failed" <=> z.reason # "none"
      BY <1>6, <2>4 DEF Valid
    <3>3. z.image \in Runners => z.image = r /\ \A name \in Names : z.evidence[name] \in {Nobody, r}
      BY <1>9, <2>4, NoEvidenceFacts, RunnersAssumption
    <3>4. "ImagePushed" \in z.conditions => r \in pushed'
      BY <1>6, <2>4, <2>6, <2>8, <2>9 DEF Valid
    <3>5. z.evidence["signature"] = Nobody
      BY <2>4, NoEvidenceFacts DEF Names
    <3>6. z.artifacts <= objects'[r] /\ z.phase # "Succeeded"
      BY <1>7, <2>4
    <3> QED
      BY <3>1, <3>2, <3>3, <3>4, <3>5, <3>6 DEF Valid
  <2>11. Progress(r, "sbom", z)'
    <3>1. Template(r)' = Template(r) /\ runnerEnv(r)' = runnerEnv(r)
      BY <2>9, SameMeaning
    <3>2. z.evidence["signature"] = Nobody /\ z.image # "unset"
      BY <1>9, <2>4, NoEvidenceFacts, RunnersAssumption DEF Names
    <3>3. /\ "StepsCompleted" \in z.conditions
          /\ runnerEnv(r).artifactStore # "none" /\ Template(r).artifacts = "required" => z.artifacts > 0
      BY <1>6, <2>4, <2>7 DEF Progress
    <3> QED
      BY <1>7, <1>9, <2>4, <2>6, <2>7, <3>1, <3>2, <3>3 DEF Progress
  <2>12. Store(r, z, "sbom") /\ "sbom" \in Stages
    BY <1>9, <2>1 DEF Stages
  <2> QED
    BY <1>4, <1>6, <1>7, <1>9, <2>10, <2>11, <2>12, StoredIsSound
<1>10. \A build : validateBuildRequest(build) # "none"
  BY BuildReasons
<1>11. \/ UNCHANGED <<registry, pushed>> /\ \E reason : reason # "none" /\ fail(r, copy[r], reason)
       \/ /\ IF Template(r).push THEN Push(r) ELSE UNCHANGED <<registry, pushed>>
          /\ \E reason : reason # "none" /\ fail(r, copy[r], reason)
       \/ /\ IF Template(r).push THEN Push(r) ELSE UNCHANGED <<registry, pushed>>
          /\ \E digest \in {"tag", r} : /\ Template(r).push => digest = r
                                       /\ Store(r, Built(r, digest), "sbom")
  BY <1>10 DEF Build
<1> QED
  BY <1>3, <1>8, <1>9, <1>11

LEMMA EvidenceFacts ==
  ASSUME NEW x, IsStatus(x), NEW name \in Names, NEW d \in Runners \cup {"tag"}
  PROVE  LET z == [x EXCEPT !.evidence[name] = d]
         IN  /\ IsStatus(z) /\ z.phase = x.phase /\ z.reason = x.reason /\ z.image = x.image
             /\ z.conditions = x.conditions /\ z.artifacts = x.artifacts
             /\ z.evidence[name] = d
             /\ \A other \in Names \ {name} : z.evidence[other] = x.evidence[other]
<1>1. PICK z : z = [x EXCEPT !.evidence[name] = d]
  OBVIOUS
<1>2. PICK e : e = [x.evidence EXCEPT ![name] = d]
  OBVIOUS
<1>3. z = Status(x.phase, x.reason, x.image, x.conditions, e, x.artifacts)
  <2>1. x = Status(x.phase, x.reason, x.image, x.conditions, x.evidence, x.artifacts)
    BY DEF IsStatus, Status
  <2> QED
    BY <1>1, <1>2, <2>1 DEF Status
<1>4. /\ z.phase = x.phase /\ z.reason = x.reason /\ z.image = x.image
      /\ z.conditions = x.conditions /\ z.artifacts = x.artifacts /\ z.evidence = e
  BY <1>3 DEF Status
<1>5. /\ e \in [Names -> Runners \cup {Nobody, "tag"}] /\ e[name] = d
      /\ \A other \in Names \ {name} : e[other] = x.evidence[other]
  BY <1>2 DEF IsStatus
<1>6. IsStatus(z)
  BY <1>3, <1>4, <1>5 DEF IsStatus, Status
<1> QED
  BY <1>1, <1>4, <1>5, <1>6

\* What a tool finds by the reference is the image of the runner, unless the
\* build had no digest.
LEMMA ReferenceFacts ==
  ASSUME RunnerInv, NEW r \in Runners, stage[r] \in {"sbom", "scan", "sign"}, imageReference(r) \in pushed
  PROVE  /\ imageReference(r) \in Runners
         /\ copy[r].image \in Runners => imageReference(r) = r
<1> USE DEF Ended, Early, Unbuilt, WithSteps, WithImage, WithSBOM, WithScan, WithSignature, WithProvenance, Late
<1>1. imageReference(r) \in Runners
  BY DEF RunnerInv, RunnerTypes
<1>2. Valid(r, copy[r])
  BY AtStage
<1>3. copy[r].image \in Runners => imageReference(r) = r
  BY <1>2, RunnersAssumption DEF imageReference, Valid
<1> QED
  BY <1>1, <1>3

\* A hook whose result only the copy keeps.
LEMMA HookSound ==
  ASSUME Quiet, RunnerInv, NEW r \in Runners, NEW name \in {"sbom", "scan"}, NEW wanted,
         NEW reason, reason # "none",
         IF name = "sbom"
         THEN stage[r] = "sbom" /\ wanted = Template(r).generateSBOM /\ Hook(r, name, wanted, "scan", reason)
         ELSE stage[r] = "scan" /\ wanted = Template(r).scanImage /\ Hook(r, name, wanted, "sign", reason)
  PROVE  RunnerInv'
<1> USE DEF Ended, Early, Unbuilt, WithSteps, WithImage, WithSBOM, WithScan, WithSignature, WithProvenance, Late
<1>1. PICK g : g = IF name = "sbom" THEN "scan" ELSE "sign"
  OBVIOUS
<1>2. Hook(r, name, wanted, g, reason) /\ g \in Stages
  BY <1>1 DEF Stages
<1>3. PICK x : x = copy[r]
  OBVIOUS
<1>4. Valid(r, x) /\ Progress(r, stage[r], x) /\ Behind(r, stage[r], stored[r])
  BY <1>3, AtStage
<1>5. Behind(r, g, stored[r])
  BY <1>1, <1>4 DEF Behind
<1>6. CASE fail(r, copy[r], reason)
  BY <1>6, QuietFail
<1>7. CASE (~wanted \/ Adapter(r, name) = "noop") /\ Keep(r, copy[r], g)
  <2>1. wanted => Has(r, x, name)
    BY <1>7 DEF Has
  <2>2. Progress(r, g, x)
    BY <1>1, <1>4, <2>1 DEF Progress
  <2>3. Keep(r, x, g)
    BY <1>3, <1>7
  <2> QED
    BY <1>2, <1>4, <1>5, <2>2, <2>3, QuietKeep
<1>8. CASE /\ imageReference(r) \in pushed
           /\ Keep(r, [copy[r] EXCEPT !.evidence[name] = imageReference(r)], g)
  <2>1. PICK d, z : d = imageReference(r) /\ z = [x EXCEPT !.evidence[name] = d]
    OBVIOUS
  <2>2. d \in Runners /\ (x.image \in Runners => d = r)
    BY <1>3, <1>8, <2>1, ReferenceFacts
  <2>3. name \in Names /\ IsStatus(x)
    BY <1>4 DEF Names, Valid
  <2>4. /\ IsStatus(z) /\ z.phase = x.phase /\ z.reason = x.reason /\ z.image = x.image
        /\ z.conditions = x.conditions /\ z.artifacts = x.artifacts
        /\ z.evidence[name] = d
        /\ \A other \in Names \ {name} : z.evidence[other] = x.evidence[other]
    BY <2>1, <2>2, <2>3, EvidenceFacts
  <2>5. z.evidence["signature"] = x.evidence["signature"]
    BY <2>4 DEF Names
  <2>6. x.phase \in {"Queued", "Running"}
    BY <1>4 DEF Progress
  <2>7. Valid(r, z)
    BY <1>4, <2>2, <2>4, <2>5, <2>6 DEF Valid
  <2>8. Has(r, z, name) /\ (name = "scan" => z.evidence["sbom"] = x.evidence["sbom"])
    BY <2>2, <2>4, CacheAssumption DEF Has, Names
  <2>9. Progress(r, g, z)
    BY <1>1, <1>4, <2>4, <2>5, <2>8 DEF Progress, Has
  <2>10. Keep(r, z, g)
    BY <1>3, <1>8, <2>1
  <2> QED
    BY <1>2, <1>5, <2>7, <2>9, <2>10, QuietKeep
<1> QED
  BY <1>2, <1>6, <1>7, <1>8 DEF Hook

LEMMA GenerateSBOMSound == ASSUME RunnerInv, NEW r \in Runners, GenerateSBOM(r) PROVE RunnerInv'
<1>1. Quiet
  BY DEF GenerateSBOM, Quiet, cacheVars
<1> QED
  BY <1>1, HookSound DEF GenerateSBOM

LEMMA ScanImageSound == ASSUME RunnerInv, NEW r \in Runners, ScanImage(r) PROVE RunnerInv'
<1>1. Quiet
  BY DEF ScanImage, Quiet, cacheVars
<1> QED
  BY <1>1, HookSound DEF ScanImage

\* A signature that is recorded is in the registry by then.
LEMMA SignImageSound == ASSUME RunnerInv, NEW r \in Runners, SignImage(r) PROVE RunnerInv'
<1> USE DEF Ended, Early, Unbuilt, WithSteps, WithImage, WithSBOM, WithScan, WithSignature, WithProvenance, Late
<1>1. /\ stage[r] = "sign" /\ UNCHANGED <<work, registry, pushed, objects>>
      /\ Hook(r, "signature", Template(r).signImage, "provenance", "ImageSigningFailed")
      /\ signed' = IF copy'[r].evidence.signature = Nobody THEN signed ELSE signed \cup {imageReference(r)}
  BY DEF SignImage, cacheVars
<1>2. PICK x : x = copy[r]
  OBVIOUS
<1>3. /\ Valid(r, x) /\ Progress(r, "sign", x) /\ Valid(r, stored[r]) /\ Behind(r, "sign", stored[r])
      /\ copy = [q \in Runners |-> copy[q]]
  BY <1>1, <1>2, AtStage DEF RunnerInv, RunnerTypes
<1>4. x.evidence["signature"] = Nobody /\ IsStatus(x) /\ x.phase \in {"Queued", "Running"}
  BY <1>3 DEF Progress, Valid
<1>5. Behind(r, "provenance", stored[r]) /\ "provenance" \in Stages
  BY <1>3 DEF Behind, Stages
<1>6. CASE fail(r, copy[r], "ImageSigningFailed")
  <2>1. PICK z : z = [x EXCEPT !.phase = "Failed", !.reason = "ImageSigningFailed"]
    OBVIOUS
  <2>2. z = Status("Failed", "ImageSigningFailed", x.image, x.conditions, x.evidence, x.artifacts)
    BY <1>4, <2>1, StatusChanges
  <2>3. z.evidence["signature"] = Nobody
    BY <1>4, <2>2 DEF Status
  <2>4. copy' = [copy EXCEPT ![r] = z]
    BY <1>2, <1>6, <2>1 DEF fail, Store
  <2>5. copy'[r] = z
    BY <1>3, <2>4
  <2>6. Quiet
    BY <1>1, <2>3, <2>5 DEF Quiet
  <2> QED
    BY <1>6, <2>6, QuietFail
<1>7. CASE /\ ~Template(r).signImage \/ Adapter(r, "signature") = "noop"
           /\ Keep(r, copy[r], "provenance")
  <2>1. copy'[r] = x
    BY <1>2, <1>3, <1>7 DEF Keep
  <2>2. Quiet
    BY <1>1, <1>4, <2>1 DEF Quiet
  <2>3. Template(r).signImage => Has(r, x, "signature")
    BY <1>7 DEF Has
  <2>4. Progress(r, "provenance", x) /\ Keep(r, x, "provenance")
    BY <1>2, <1>3, <1>7, <2>3 DEF Progress
  <2> QED
    BY <1>3, <1>5, <2>2, <2>4, QuietKeep
<1>8. CASE /\ imageReference(r) \in pushed
           /\ Keep(r, [copy[r] EXCEPT !.evidence["signature"] = imageReference(r)], "provenance")
  <2>1. PICK d, z : d = imageReference(r) /\ z = [x EXCEPT !.evidence["signature"] = d]
    OBVIOUS
  <2>2. d \in Runners /\ (x.image \in Runners => d = r)
    BY <1>1, <1>2, <1>8, <2>1, ReferenceFacts
  <2>3. "signature" \in Names
    BY DEF Names
  <2>4. /\ IsStatus(z) /\ z.phase = x.phase /\ z.reason = x.reason /\ z.image = x.image
        /\ z.conditions = x.conditions /\ z.artifacts = x.artifacts
        /\ z.evidence["signature"] = d
        /\ \A other \in Names \ {"signature"} : z.evidence[other] = x.evidence[other]
    BY <1>4, <2>1, <2>2, <2>3, EvidenceFacts
  <2>5. Keep(r, z, "provenance") /\ copy'[r] = z
    BY <1>2, <1>3, <1>8, <2>1 DEF Keep
  <2>6. d # Nobody /\ signed' = signed \cup {d}
    BY <1>1, <2>1, <2>2, <2>4, <2>5, CacheAssumption
  <2>7. Images' = Images
    BY <1>1 DEF Images, Image, runnerEnv, Template
  <2>8. Changes(r)
    BY <1>1, <1>8, <2>1, <2>6, <2>7 DEF Changes, RunnerInv, RunnerTypes
  <2>9. Valid(r, z)'
    <3>1. IsStatus(z)'
      BY <2>4 DEF IsStatus
    <3> QED
      BY <1>1, <1>3, <1>4, <2>2, <2>4, <2>6, <3>1 DEF Valid
  <2>10. z.evidence["sbom"] = x.evidence["sbom"] /\ z.evidence["scan"] = x.evidence["scan"]
    BY <2>4 DEF Names
  <2>11. Progress(r, "provenance", z)
    BY <1>3, <2>4, <2>6, <2>10 DEF Progress, Has
  <2>12. Progress(r, "provenance", z)'
    BY <1>1, <2>11, ProgressStays
  <2>13. stored[r].artifacts <= objects'[r]
    BY <1>1, <1>3 DEF Valid
  <2> QED
    BY <1>3, <1>5, <2>5, <2>8, <2>9, <2>12, <2>13, KeptIsSound
<1> QED
  BY <1>1, <1>6, <1>7, <1>8 DEF Hook

LEMMA WriteProvenanceSound == ASSUME RunnerInv, NEW r \in Runners, WriteProvenance(r) PROVE RunnerInv'
<1> USE DEF Ended, Early, Unbuilt, WithSteps, WithImage, WithSBOM, WithScan, WithSignature, WithProvenance, Late
<1>1. Quiet /\ stage[r] = "provenance"
  BY DEF WriteProvenance, Quiet, cacheVars
<1>2. PICK x : x = copy[r]
  OBVIOUS
<1>3. Valid(r, x) /\ Progress(r, "provenance", x) /\ Behind(r, "provenance", stored[r])
  BY <1>1, <1>2, AtStage
<1>4. Behind(r, "hooked", stored[r]) /\ "hooked" \in Stages
  BY <1>3 DEF Behind, Stages
<1>5. CASE (~ProvenanceWanted(r, x) \/ Adapter(r, "provenance") = "noop") /\ Keep(r, copy[r], "hooked")
  <2>1. ProvenanceWanted(r, x) => Has(r, x, "provenance")
    BY <1>5 DEF Has
  <2>2. Progress(r, "hooked", x)
    BY <1>3, <2>1 DEF Progress
  <2> QED
    BY <1>1, <1>2, <1>4, <1>5, <2>2, QuietGo
<1>6. CASE fail(r, copy[r], "ProvenanceWriteFailed")
  BY <1>1, <1>6, QuietFail
<1>7. CASE Keep(r, [copy[r] EXCEPT !.evidence.provenance = copy[r].image], "hooked")
  <2>1. PICK d, z : d = x.image /\ z = [x EXCEPT !.evidence["provenance"] = d]
    OBVIOUS
  <2>2. IsStatus(x) /\ x.phase \in {"Queued", "Running"} /\ x.image # "unset" /\ "provenance" \in Names
    BY <1>3 DEF Valid, Progress, Names
  <2>3. d \in Runners \cup {"tag"} /\ (x.image \in Runners => d = r)
    BY <1>3, <2>1, <2>2 DEF Valid, IsStatus
  <2>4. /\ IsStatus(z) /\ z.phase = x.phase /\ z.reason = x.reason /\ z.image = x.image
        /\ z.conditions = x.conditions /\ z.artifacts = x.artifacts
        /\ z.evidence["provenance"] = d
        /\ \A other \in Names \ {"provenance"} : z.evidence[other] = x.evidence[other]
    BY <2>1, <2>2, <2>3, EvidenceFacts
  <2>5. /\ z.evidence["sbom"] = x.evidence["sbom"] /\ z.evidence["scan"] = x.evidence["scan"]
        /\ z.evidence["signature"] = x.evidence["signature"]
    BY <2>4 DEF Names
  <2>6. Valid(r, z)
    BY <1>3, <2>2, <2>3, <2>4, <2>5 DEF Valid
  <2>7. Progress(r, "hooked", z)
    <3>1. Has(r, z, "provenance")
      BY <2>3, <2>4, CacheAssumption DEF Has, Nobody
    <3> QED
      BY <1>3, <2>4, <2>5, <3>1 DEF Progress, Has
  <2>8. Keep(r, z, "hooked")
    BY <1>2, <1>7, <2>1
  <2> QED
    BY <1>1, <1>4, <2>6, <2>7, <2>8, QuietKeep
<1> QED
  BY <1>2, <1>5, <1>6, <1>7 DEF WriteProvenance

(***************************************************************************)
(* The end of a runner.                                                    *)
(***************************************************************************)

LEMMA HookedSound == ASSUME RunnerInv, NEW r \in Runners, Hooked(r) PROVE RunnerInv'
<1> USE DEF Ended, Early, Unbuilt, WithSteps, WithImage, WithSBOM, WithScan, WithSignature, WithProvenance, Late
<1>1. Quiet /\ stage[r] = "hooked"
  BY DEF Hooked, Quiet, cacheVars
<1>2. PICK x, z : x = copy[r] /\ z = With(x, "SupplyChainReady")
  OBVIOUS
<1>3. Valid(r, x) /\ Progress(r, "hooked", x)
  BY <1>1, <1>2, AtStage
<1>4. /\ Valid(r, z) /\ z.phase = x.phase /\ z.image = x.image
      /\ z.conditions = x.conditions \cup {"SupplyChainReady"}
      /\ z.evidence = x.evidence /\ z.artifacts = x.artifacts
  BY <1>2, <1>3, WithIsValid
<1>5. Progress(r, "save", x) /\ Progress(r, "save", z) /\ "save" \in Stages
  BY <1>3, <1>4 DEF Progress, Has, ProvenanceWanted, Stages
<1>6. Store(r, x, "save") \/ Store(r, z, "save")
  BY <1>2 DEF Hooked
<1> QED
  BY <1>1, <1>3, <1>4, <1>5, <1>6, QuietStore

LEMMA SaveCacheSound == ASSUME RunnerInv, NEW r \in Runners, SaveCache(r) PROVE RunnerInv'
<1> USE DEF Ended, Early, Unbuilt, WithSteps, WithImage, WithSBOM, WithScan, WithSignature, WithProvenance, Late
<1>1. Quiet /\ stage[r] = "save"
  BY DEF SaveCache, Quiet
<1>2. Progress(r, "save", copy[r]) /\ Behind(r, "save", stored[r])
  BY <1>1, AtStage
<1>3. CASE Keep(r, copy[r], "saving")
  <2>1. Progress(r, "saving", copy[r]) /\ Behind(r, "saving", stored[r]) /\ "saving" \in Stages
    BY <1>2 DEF Progress, Behind, Stages
  <2> QED
    BY <1>1, <1>3, <2>1, QuietGo
<1>4. CASE ~Snapshots(Template(r)) /\ Keep(r, copy[r], "finish")
  <2>1. Progress(r, "finish", copy[r]) /\ Behind(r, "finish", stored[r]) /\ "finish" \in Stages
    BY <1>2, <1>4 DEF Progress, Behind, Stages
  <2> QED
    BY <1>1, <1>4, <2>1, QuietGo
<1> QED
  BY <1>3, <1>4 DEF SaveCache

LEMMA SavedSound == ASSUME RunnerInv, NEW r \in Runners, Saved(r) PROVE RunnerInv'
<1> USE DEF Ended, Early, Unbuilt, WithSteps, WithImage, WithSBOM, WithScan, WithSignature, WithProvenance, Late
<1>1. Quiet /\ stage[r] = "saving"
  BY DEF Saved, Quiet
<1>2. CASE fail(r, copy[r], "CacheSaveFailed")
  BY <1>1, <1>2, QuietFail
<1>3. CASE Store(r, With(copy[r], "CacheSaved"), "finish")
  <2>1. PICK x, z : x = copy[r] /\ z = With(x, "CacheSaved")
    OBVIOUS
  <2>2. Valid(r, x) /\ Progress(r, "saving", x)
    BY <1>1, <2>1, AtStage
  <2>3. /\ Valid(r, z) /\ z.phase = x.phase /\ z.image = x.image
        /\ z.conditions = x.conditions \cup {"CacheSaved"}
        /\ z.evidence = x.evidence /\ z.artifacts = x.artifacts
    BY <2>1, <2>2, WithIsValid
  <2>4. Progress(r, "finish", z) /\ "finish" \in Stages
    BY <2>2, <2>3 DEF Progress, Has, ProvenanceWanted, Stages
  <2> QED
    BY <1>1, <1>3, <2>1, <2>3, <2>4, QuietStore
<1> QED
  BY <1>2, <1>3 DEF Saved

\* What a BuildRun has when it succeeds was collected on the way.
LEMMA FinishSound == ASSUME RunnerInv, NEW r \in Runners, Finish(r) PROVE RunnerInv'
<1> USE DEF Ended, Early, Unbuilt, WithSteps, WithImage, WithSBOM, WithScan, WithSignature, WithProvenance, Late
<1>1. Quiet /\ stage[r] = "finish"
  BY DEF Finish, Quiet, cacheVars
<1>2. CASE fail(r, copy[r], "LogStoreWriteFailed")
  BY <1>1, <1>2, QuietFail
<1>3. CASE Store(r, [copy[r] EXCEPT !.phase = "Succeeded", !.image = IF @ = "unset" THEN "tag" ELSE @], "done")
  <2>1. PICK x, i : x = copy[r] /\ i = (IF x.image = "unset" THEN "tag" ELSE x.image)
    OBVIOUS
  <2>2. PICK z : z = [x EXCEPT !.phase = "Succeeded", !.image = i]
    OBVIOUS
  <2>3. Valid(r, x) /\ Progress(r, "finish", x) /\ IsStatus(x)
    BY <1>1, <2>1, AtStage DEF Valid
  <2>4. z = Status("Succeeded", x.reason, i, x.conditions, x.evidence, x.artifacts)
    BY <2>2, <2>3, StatusChanges
  <2>5. /\ z.phase = "Succeeded" /\ z.reason = x.reason /\ z.image = i /\ z.conditions = x.conditions
        /\ z.evidence = x.evidence /\ z.artifacts = x.artifacts
    BY <2>4 DEF Status
  <2>6. IsStatus(z)
    BY <2>1, <2>3, <2>4, <2>5 DEF IsStatus, Status
  <2>7. x.phase \in {"Queued", "Running"}
    BY <2>3 DEF Progress
  <2>8. r # "unset" /\ "tag" \notin Runners
    BY RunnersAssumption
  <2>9. Backed(r, z)
    BY <2>1, <2>3, <2>5, <2>8 DEF Progress, Backed, Has
  <2>10. Valid(r, z)
    BY <2>1, <2>3, <2>5, <2>6, <2>7, <2>8, <2>9 DEF Valid
  <2>11. Progress(r, "done", z) /\ "done" \in Stages
    BY DEF Progress, Stages
  <2>12. [x EXCEPT !.phase = "Succeeded", !.image = IF @ = "unset" THEN "tag" ELSE @] = z
    BY <2>1, <2>2
  <2>13. Store(r, z, "done")
    BY <1>3, <2>1, <2>12
  <2> QED
    BY <1>1, <2>10, <2>11, <2>13, QuietStore
<1> QED
  BY <1>2, <1>3 DEF Finish

LEMMA KillSound == ASSUME RunnerInv, NEW r \in Runners, Kill(r) PROVE RunnerInv'
<1>1. Quiet
  BY DEF Kill, Quiet
<1>2. PICK x, y : x = copy[r] /\ y = stored[r]
  OBVIOUS
<1>3. copy' = [copy EXCEPT ![r] = x] /\ stored' = [stored EXCEPT ![r] = y]
  BY <1>2 DEF Kill, RunnerInv, RunnerTypes
<1>4. Valid(r, x) /\ Valid(r, y)
  BY <1>2, AtStage
<1>5. "killed" \in Ended /\ "killed" \in Stages
  BY DEF Ended, Stages
<1>6. Sound(r, "killed", x, y)'
  BY <1>1, <1>4, <1>5, QuietMeaning, EndIsSound DEF Sound
<1>7. Changes(r)
  BY <1>1, QuietMeaning
<1> QED
  BY <1>3, <1>5, <1>6, <1>7, Moved DEF Kill

\* The calls of the cache, time and the purge leave the statuses alone.
LEMMA CacheActionsSound ==
  ASSUME RunnerInv,
         \/ \E r \in Runners : UseCache(r)
         \/ \E s \in Scopes : Expire(s) /\ UNCHANGED runnerVars
         \/ \E d \in Runners : Purge(d) /\ UNCHANGED runnerVars
         \/ PurgeStep /\ UNCHANGED runnerVars
         \/ UNCHANGED vars
  PROVE  RunnerInv'
<1>1. UNCHANGED runnerVars /\ UNCHANGED work
  BY DEF UseCache, CacheStep, ReadManifest, CopyPath, Open, RemoveItem, RemoveDirectory, Stage, Rename,
         Expire, Purge, PurgeStep, vars, cacheVars
<1>2. Quiet /\ UNCHANGED <<stage, copy, stored>>
  BY <1>1 DEF runnerVars, Quiet
<1> QED
  BY <1>2, Unmoved

LEMMA RunnerInvStep == ASSUME RunnerInv, [Next]_vars PROVE RunnerInv'
<1>1. ASSUME NEW r \in Runners, Run(r) PROVE RunnerInv'
  BY <1>1, LoadSound, StartSound, CloneSound, PrepareCacheSound, CacheActionsSound, RestoredSound,
     ClonedSound, StepSound, StepsDoneSound, StartBuildSound, PrepareBuildSound, BuildSound,
     GenerateSBOMSound, ScanImageSound, SignImageSound, WriteProvenanceSound, HookedSound,
     SaveCacheSound, SavedSound, FinishSound, Zenon DEF Run
<1> QED
  BY <1>1, KillSound, CacheActionsSound DEF Next

(***************************************************************************)
(* The login.                                                              *)
(***************************************************************************)

\* Runner r goes to stage g, and no other moves.
Moves(r, g) == Goto(r, g) /\ \A q \in Runners \ {r} : stored'[q] = stored[q] /\ copy'[q] = copy[q]

LEMMA StageEnds ==
  ASSUME RunnerTypes, NEW r \in Runners, NEW x
  PROVE  /\ \A g : Keep(r, x, g) => Moves(r, g)
         /\ \A g : Store(r, x, g) => \E h \in {g, "stopped"} : Moves(r, h)
         /\ \A reason : fail(r, x, reason) => \E h \in {"done", "stopped"} : Moves(r, h)
<1>1. \A g : Keep(r, x, g) => Moves(r, g)
  BY DEF Keep, Moves, RunnerTypes
<1>2. \A z, g : Store(r, z, g) => \E h \in {g, "stopped"} : Moves(r, h)
  BY DEF Store, Moves, RunnerTypes
<1> QED
  BY <1>1, <1>2 DEF fail

\* Where the stages lead that do not use the cache.
LEMMA StagesLead ==
  ASSUME RunnerTypes, NEW r \in Runners
  PROVE  /\ Load(r) => \E g \in {"start", "stopped", "done"} : Moves(r, g)
         /\ Start(r) => \E g \in {"clone", "stopped", "done"} : Moves(r, g)
         /\ Clone(r) => \E g \in {"cache", "stopped", "done"} : Moves(r, g)
         /\ Cloned(r) => \E g \in {"steps", "stopped"} : Moves(r, g)
         /\ StepsDone(r) => \E g \in {"build", "stopped", "done"} : Moves(r, g)
         /\ StartBuild(r) => \E g \in {"prepare", "save", "stopped"} : Moves(r, g)
         /\ Build(r) => \E g \in {"sbom", "stopped", "done"} : Moves(r, g)
         /\ GenerateSBOM(r) => \E g \in {"scan", "stopped", "done"} : Moves(r, g)
         /\ ScanImage(r) => \E g \in {"sign", "stopped", "done"} : Moves(r, g)
         /\ SignImage(r) => \E g \in {"provenance", "stopped", "done"} : Moves(r, g)
         /\ WriteProvenance(r) => \E g \in {"hooked", "stopped", "done"} : Moves(r, g)
         /\ Hooked(r) => \E g \in {"save", "stopped"} : Moves(r, g)
         /\ Finish(r) => \E g \in {"done", "stopped"} : Moves(r, g)
<1> USE StageEnds
<1>1. Load(r) => \E g \in {"start", "stopped", "done"} : Moves(r, g)
  BY DEF Load
<1>2. Start(r) => \E g \in {"clone", "stopped", "done"} : Moves(r, g)
  BY DEF Start
<1>3. Clone(r) => \E g \in {"cache", "stopped", "done"} : Moves(r, g)
  BY DEF Clone
<1>4. Cloned(r) => \E g \in {"steps", "stopped"} : Moves(r, g)
  BY DEF Cloned
<1>5. StepsDone(r) => \E g \in {"build", "stopped", "done"} : Moves(r, g)
  BY DEF StepsDone, collectArtifacts
<1>6. StartBuild(r) => \E g \in {"prepare", "save", "stopped"} : Moves(r, g)
  BY DEF StartBuild
<1>7. Build(r) => \E g \in {"sbom", "stopped", "done"} : Moves(r, g)
  BY DEF Build
<1>8. \A name, wanted, next, reason :
        Hook(r, name, wanted, next, reason) => \E g \in {next, "stopped", "done"} : Moves(r, g)
  BY DEF Hook
<1>9. WriteProvenance(r) => \E g \in {"hooked", "stopped", "done"} : Moves(r, g)
  BY DEF WriteProvenance
<1>10. Hooked(r) => \E g \in {"save", "stopped"} : Moves(r, g)
  BY DEF Hooked
<1>11. Finish(r) => \E g \in {"done", "stopped"} : Moves(r, g)
  BY DEF Finish
<1>12. /\ GenerateSBOM(r) => \E g \in {"scan", "stopped", "done"} : Moves(r, g)
       /\ ScanImage(r) => \E g \in {"sign", "stopped", "done"} : Moves(r, g)
       /\ SignImage(r) => \E g \in {"provenance", "stopped", "done"} : Moves(r, g)
  BY <1>8 DEF GenerateSBOM, ScanImage, SignImage
<1> QED
  BY <1>1, <1>2, <1>3, <1>4, <1>5, <1>6, <1>7, <1>9, <1>10, <1>11, <1>12, Zenon

\* Where the stages lead that do.
LEMMA CacheStagesLead ==
  ASSUME RunnerTypes, NEW r \in Runners
  PROVE  /\ PrepareCache(r) => \E g \in {"cloned", "restoring", "stopped", "done"} : Moves(r, g)
         /\ Restored(r) => \E g \in {"cloned", "stopped", "done"} : Moves(r, g)
         /\ SaveCache(r) => \E g \in {"saving", "finish"} : Moves(r, g)
         /\ Saved(r) => \E g \in {"finish", "stopped", "done"} : Moves(r, g)
         /\ Step(r) => \/ \E g \in {"stopped", "done"} : Moves(r, g)
                       \/ UNCHANGED <<stage, copy, stored, logins>>
<1> USE StageEnds
<1>1. PrepareCache(r) => \E g \in {"cloned", "restoring", "stopped", "done"} : Moves(r, g)
  BY DEF PrepareCache
<1>2. Restored(r) => \E g \in {"cloned", "stopped", "done"} : Moves(r, g)
  BY DEF Restored
<1>3. SaveCache(r) => \E g \in {"saving", "finish"} : Moves(r, g)
  BY DEF SaveCache
<1>4. Saved(r) => \E g \in {"finish", "stopped", "done"} : Moves(r, g)
  BY DEF Saved
<1>5. Step(r) => \/ \E g \in {"stopped", "done"} : Moves(r, g)
                 \/ UNCHANGED <<stage, copy, stored, logins>>
  BY DEF Step
<1> QED
  BY <1>1, <1>2, <1>3, <1>4, <1>5, Zenon

\* A runner works for the BuildRun it was started for.
LEMMA WorkStays == ASSUME [Next]_vars PROVE UNCHANGED work
<1>1. ASSUME NEW r \in Runners, UseCache(r) PROVE UNCHANGED work
  BY <1>1 DEF UseCache, CacheStep, ReadManifest, CopyPath, Open, RemoveItem, RemoveDirectory, Stage, Rename
<1>2. ASSUME NEW r \in Runners,
             Load(r) \/ Start(r) \/ Clone(r) \/ PrepareCache(r) \/ Restored(r) \/ Cloned(r) \/ Step(r) \/ StepsDone(r)
      PROVE  UNCHANGED work
  BY <1>2 DEF Load, Start, Clone, PrepareCache, Restored, Cloned, Step, StepsDone, cacheVars
<1>3. ASSUME NEW r \in Runners,
             StartBuild(r) \/ PrepareBuild(r) \/ Build(r) \/ GenerateSBOM(r) \/ ScanImage(r) \/ SignImage(r)
      PROVE  UNCHANGED work
  BY <1>3 DEF StartBuild, PrepareBuild, Build, GenerateSBOM, ScanImage, SignImage, cacheVars
<1>4. ASSUME NEW r \in Runners,
             WriteProvenance(r) \/ Hooked(r) \/ SaveCache(r) \/ Saved(r) \/ Finish(r) \/ Kill(r)
      PROVE  UNCHANGED work
  BY <1>4 DEF WriteProvenance, Hooked, SaveCache, Saved, Finish, Kill, cacheVars
<1>5. ASSUME \/ \E s \in Scopes : Expire(s)
             \/ \E d \in Runners : Purge(d)
             \/ PurgeStep
             \/ UNCHANGED vars
      PROVE  UNCHANGED work
  BY <1>5 DEF Expire, Purge, PurgeStep, vars, cacheVars
<1>6. ASSUME NEW r \in Runners, Run(r) \/ Kill(r) PROVE UNCHANGED work
  BY <1>1, <1>2, <1>3, <1>4, <1>6 DEF Run
<1> QED
  BY <1>5, <1>6 DEF Next

LEMMA LoginStep ==
  ASSUME RunnerInv, LoginLastsForTheBuild, [Next]_vars
  PROVE  LoginLastsForTheBuild'
<1> USE DEF RunnerInv
<1>1. UNCHANGED work
  BY WorkStays
<1>2. \A q : Template(q)' = Template(q) /\ runnerEnv(q)' = runnerEnv(q)
  BY <1>1, SameMeaning
<1>3. CASE UNCHANGED <<stage, logins, copy>>
  BY <1>2, <1>3 DEF LoginLastsForTheBuild
<1>4. ASSUME NEW r \in Runners, NEW g, g # "buildkit", Moves(r, g) PROVE LoginLastsForTheBuild'
  BY <1>2, <1>4 DEF LoginLastsForTheBuild, Moves, Goto, RunnerTypes, Ended
<1>5. ASSUME NEW r \in Runners, Kill(r) PROVE LoginLastsForTheBuild'
  BY <1>2, <1>5 DEF LoginLastsForTheBuild, Kill, RunnerTypes
<1>6. ASSUME NEW r \in Runners, PrepareBuild(r) PROVE LoginLastsForTheBuild'
  <2>1. CASE \E g \in {"stopped", "done"} : Moves(r, g)
    BY <1>4, <2>1
  <2>2. CASE ~(runnerEnv(r).provider # "" /\ Template(r).push) /\ Moves(r, "buildkit")
    BY <1>2, <2>2 DEF LoginLastsForTheBuild, Moves, Goto, RunnerTypes, Ended
  <2>3. CASE stage' = [stage EXCEPT ![r] = "buildkit"] /\ logins' = logins \cup {r} /\ UNCHANGED copy
    BY <1>2, <2>3 DEF LoginLastsForTheBuild, RunnerTypes
  <2>4. CASE WriteFails(r)
    <3>1. PICK x : x = copy[r]
      OBVIOUS
    <3>2. IsStatus(x)
      BY <3>1, AtStage DEF Valid
    <3>3. PICK z : z = [x EXCEPT !.phase = "Failed", !.reason = "RegistryCredentialsInvalid"]
      OBVIOUS
    <3>4. z.reason = "RegistryCredentialsInvalid"
      BY <3>2, <3>3, StatusChanges DEF Status
    <3>5. /\ copy' = [copy EXCEPT ![r] = z]
          /\ logins' \in {logins, logins \cup {r}}
          /\ \E g \in {"done", "stopped"} : stage' = [stage EXCEPT ![r] = g]
      BY <2>4, <3>1, <3>3 DEF WriteFails
    <3> QED
      BY <1>2, <3>4, <3>5 DEF LoginLastsForTheBuild, RunnerTypes
  <2> QED
    BY <1>6, <2>1, <2>2, <2>3, <2>4, StageEnds DEF PrepareBuild
<1>7. ASSUME NEW r \in Runners, Run(r) PROVE LoginLastsForTheBuild'
  <2>1. CASE \E g : g # "buildkit" /\ Moves(r, g)
    BY <1>4, <2>1
  <2>2. CASE UseCache(r) \/ Step(r)
    <3>1. \/ UNCHANGED <<stage, logins, copy>>
          \/ \E g : g # "buildkit" /\ Moves(r, g)
      BY <2>2, CacheStagesLead DEF UseCache, runnerVars
    <3> QED
      BY <1>3, <2>1, <3>1
  <2>3. \/ \E g : g # "buildkit" /\ Moves(r, g)
        \/ UseCache(r) \/ Step(r) \/ PrepareBuild(r)
    BY <1>7, StagesLead, CacheStagesLead DEF Run
  <2> QED
    BY <1>6, <2>1, <2>2, <2>3
<1>8. CASE \/ \E s \in Scopes : Expire(s) /\ UNCHANGED runnerVars
           \/ \E d \in Runners : Purge(d) /\ UNCHANGED runnerVars
           \/ PurgeStep /\ UNCHANGED runnerVars
           \/ UNCHANGED vars
  <2>1. UNCHANGED <<stage, logins, copy>>
    BY <1>8 DEF vars, runnerVars
  <2> QED
    BY <1>3, <2>1
<1> QED
  BY <1>5, <1>7, <1>8 DEF Next

(***************************************************************************)
(* The cache: its operators.                                               *)
(***************************************************************************)

LEMMA KeyFacts ==
  ASSUME work \in Works, NEW r \in Runners
  PROVE  /\ Len(KeysOf(r)) \in Nat /\ DOMAIN KeysOf(r) = 1 .. Len(KeysOf(r))
         /\ 1 \in DOMAIN KeysOf(r)
         /\ EntryOf(r, work[r].template.key) \in Scopes
         /\ \A i \in DOMAIN KeysOf(r) : EntryOf(r, KeysOf(r)[i]) \in Scopes
         /\ \A key : EntryOf(r, key)[1] = work[r].project /\ EntryOf(r, key)[2] = work[r].repository
<1>1. PICK t : t = work[r].template
  OBVIOUS
<1>2. t \in Templates
  BY <1>1, WorksAssumption
<1>3. t.key \in STRING /\ t.restoreKeys \in Seq(STRING)
  BY <1>2 DEF Templates
<1>4. PICK k : k = <<t.key>> \o t.restoreKeys
  OBVIOUS
<1>5. k \in Seq(STRING) /\ Len(k) \in Nat /\ DOMAIN k = 1 .. Len(k) /\ 1 \in DOMAIN k /\ k[1] = t.key
  BY <1>3, <1>4
<1>6. KeysOf(r) = k
  BY <1>1, <1>4 DEF KeysOf
<1>7. \A i \in DOMAIN KeysOf(r) : EntryOf(r, KeysOf(r)[i]) \in Scopes
  BY DEF Scopes
<1>8. KeysOf(r)[1] = work[r].template.key
  BY <1>1, <1>5, <1>6
<1>9. EntryOf(r, work[r].template.key) \in Scopes
  BY <1>5, <1>6, <1>7, <1>8
<1>10. \A key : EntryOf(r, key)[1] = work[r].project /\ EntryOf(r, key)[2] = work[r].repository
  BY DEF EntryOf, ScopeKey
<1> QED
  BY <1>5, <1>6, <1>7, <1>9, <1>10

LEMMA CallFacts ==
  ASSUME NEW o \in Calls
  PROVE  /\ o.do \in {"idle", "hit", "miss", "error", "save", "rename", "saved", "read", "copy", "open", "remove", "cut"}
         /\ o.do \in {"read", "copy"} => o.key \in Nat
         /\ o.do = "copy" => o.path \in Nat
         /\ o.do = "open" => o.entry \in Scopes /\ o.key \in Nat
         /\ o.do \in {"remove", "cut"} =>
              /\ o.entry \in Scopes /\ o.dir \in Runners \cup {Nobody} /\ o.key \in Nat
              /\ o = [do |-> o.do, entry |-> o.entry, dir |-> o.dir, key |-> o.key]
BY DEF Calls

LEMMA CallsMade ==
  /\ \A do \in {"idle", "hit", "miss", "error", "save", "rename", "saved"} : [do |-> do] \in Calls
  /\ \A i \in Nat : [do |-> "read", key |-> i] \in Calls
  /\ \A i, j \in Nat : [do |-> "copy", key |-> i, path |-> j] \in Calls
  /\ \A s \in Scopes, i \in Nat : [do |-> "open", entry |-> s, key |-> i] \in Calls
  /\ \A do \in {"remove", "cut"}, s \in Scopes, d \in Runners \cup {Nobody}, i \in Nat :
       [do |-> do, entry |-> s, dir |-> d, key |-> i] \in Calls
BY DEF Calls

LEMMA SameScopes ==
  ASSUME UNCHANGED work
  PROVE  /\ Scopes' = Scopes /\ Calls' = Calls
         /\ \A r : KeysOf(r)' = KeysOf(r) /\ Owner(r)' = Owner(r)
         /\ \A r, o, g : CallOfStage(r, o, g)' = CallOfStage(r, o, g)
<1>1. \A r : KeysOf(r)' = KeysOf(r) /\ Owner(r)' = Owner(r)
  BY DEF KeysOf, Owner
<1>2. Scopes' = Scopes
  BY DEF Scopes, KeysOf, EntryOf
<1> QED
  BY <1>1, <1>2 DEF Calls, CallOfStage

LEMMA NoContents ==
  /\ NoData \in Contents /\ NoEntry \in Entries /\ NoEntry.dir = Nobody
  /\ \A p \in Paths : NoEntry.data[p] = Nobody
BY DEF NoData, NoEntry, Contents, Entries

(***************************************************************************)
(* The cache: the stages of the runner.                                    *)
(***************************************************************************)

\* A runner ends a call, begins one or goes on, and may write its source tree
\* as long as it has published nothing; no entry changes.
LEMMA CallWrites ==
  ASSUME CacheInv, RunnerTypes, NEW r \in Runners, NEW o \in Calls, NEW g, NEW c \in Contents,
         UNCHANGED <<work, entries, staging, purging>>,
         workspace' = [workspace EXCEPT ![r] = c],
         c = workspace[r] \/ (stage[r] \notin Publishing /\ staging[r] = NoEntry),
         \A p \in Paths : c[p] # Nobody => Owner(c[p]) = Owner(r),
         op' = [op EXCEPT ![r] = o],
         stage' = [stage EXCEPT ![r] = g],
         \A q \in Runners \ {r} : stored'[q] = stored[q],
         CallOfStage(r, o, g),
         staging[r] # NoEntry => g = "killed" \/ (g = "saving" /\ o.do \in {"open", "remove", "rename"}),
         op[r].do \in {"remove", "cut"} =>
           o.do \in {"remove", "cut"} /\ o.entry = op[r].entry /\ o.dir = op[r].dir,
         stage[r] \in Publishing => g \in Publishing /\ Published(r, stored[r])'
  PROVE  CacheInv'
<1> USE SameScopes
<1>1. /\ stage \in [Runners -> Stages] /\ op \in [Runners -> Calls] /\ entries \in [Scopes -> Entries]
      /\ workspace \in [Runners -> Contents]
      /\ op'[r] = o /\ stage'[r] = g /\ workspace'[r] = c
      /\ \A q \in Runners \ {r} : op'[q] = op[q] /\ stage'[q] = stage[q] /\ workspace'[q] = workspace[q]
  BY DEF CacheInv, CacheTypes, RunnerTypes
<1>2. CacheTypes'
  BY <1>1 DEF CacheInv, CacheTypes
<1>3. ASSUME NEW q \in Runners PROVE CallOfStage(q, op[q], stage[q])'
  <2>1. PICK p, h : p = op'[q] /\ h = stage'[q]
    OBVIOUS
  <2>2. CallOfStage(q, p, h)
    BY <1>1, <2>1 DEF CacheInv
  <2>3. CallOfStage(q, p, h)'
    BY <2>2
  <2> QED
    BY <2>1, <2>3 DEF CallOfStage
<1>4. ContentsAreOwn'
  <2>1. ASSUME NEW q \in Runners, NEW p \in Paths, workspace'[q][p] # Nobody
        PROVE  Owner(workspace'[q][p]) = Owner(q)
    BY <1>1, <2>1 DEF CacheInv, ContentsAreOwn
  <2> QED
    BY <2>1 DEF CacheInv, ContentsAreOwn, Owner
<1>5. StagingIsWhole'
  BY <1>1 DEF CacheInv, StagingIsWhole
<1>6. PublishersAreDone'
  <2>1. SUFFICES ASSUME NEW s \in Scopes, NEW d, d = entries[s].dir, d # Nobody
                 PROVE  stage'[d] \in Publishing /\ Published(d, stored[d])'
    BY DEF PublishersAreDone, Publishing
  <2>2. d \in Runners /\ stage[d] \in Publishing /\ Published(d, stored[d])
    BY <1>1, <2>1 DEF CacheInv, PublishersAreDone, Entries
  <2>3. CASE d = r
    BY <1>1, <2>2, <2>3
  <2>4. CASE d # r
    BY <1>1, <2>2, <2>4 DEF Published, Evidenced, ProvenanceWanted, Has, Adapter, Template
  <2> QED
    BY <2>3, <2>4
<1>7. EntryIsWhole'
  <2>1. SUFFICES ASSUME NEW s \in Scopes, entries[s].dir # Nobody
                 PROVE  /\ \A p \in Paths : entries[s].data[p] \in {Nobody, workspace'[entries[s].dir][p]}
                        /\ \/ entries[s].manifest # "none" /\ entries[s].data = workspace'[entries[s].dir]
                           \/ BeingRemoved(s)'
                           \/ \E q \in Runners : op'[q].do = "cut" /\ op'[q].entry = s /\ op'[q].dir = entries[s].dir
    BY DEF EntryIsWhole
  <2>2. workspace'[entries[s].dir] = workspace[entries[s].dir]
    <3>1. entries[s].dir \in Runners /\ stage[entries[s].dir] \in Publishing
      BY <1>1, <2>1 DEF CacheInv, PublishersAreDone, Entries
    <3> QED
      BY <1>1, <3>1
  <2>3. \A p \in Paths : entries[s].data[p] \in {Nobody, workspace'[entries[s].dir][p]}
    BY <2>1, <2>2 DEF CacheInv, EntryIsWhole
  <2>4. CASE \E q \in Runners : /\ op[q].do \in {"remove", "cut"}
                                /\ op[q].entry = s /\ op[q].dir = entries[s].dir
    <3>1. PICK q \in Runners : op[q].do \in {"remove", "cut"} /\ op[q].entry = s /\ op[q].dir = entries[s].dir
      BY <2>4
    <3>2. op'[q].do \in {"remove", "cut"} /\ op'[q].entry = s /\ op'[q].dir = entries[s].dir
      BY <1>1, <3>1
    <3> QED
      BY <2>3, <3>2 DEF BeingRemoved
  <2>5. CASE entries[s].dir \in purging
    BY <2>3, <2>5 DEF BeingRemoved
  <2> QED
    BY <2>1, <2>2, <2>3, <2>4, <2>5 DEF CacheInv, EntryIsWhole, BeingRemoved
<1> QED
  BY <1>2, <1>3, <1>4, <1>5, <1>6, <1>7 DEF CacheInv

\* A runner ends a call, begins one or goes on, and no directory changes.
LEMMA CallMoves ==
  ASSUME CacheInv, RunnerTypes, NEW r \in Runners, NEW o \in Calls, NEW g,
         UNCHANGED <<work, entries, staging, workspace, purging>>,
         op' = [op EXCEPT ![r] = o],
         stage' = [stage EXCEPT ![r] = g],
         \A q \in Runners \ {r} : stored'[q] = stored[q],
         CallOfStage(r, o, g),
         staging[r] # NoEntry => g = "killed" \/ (g = "saving" /\ o.do \in {"open", "remove", "rename"}),
         op[r].do \in {"remove", "cut"} =>
           o.do \in {"remove", "cut"} /\ o.entry = op[r].entry /\ o.dir = op[r].dir,
         stage[r] \in Publishing => g \in Publishing /\ Published(r, stored[r])'
  PROVE  CacheInv'
<1>1. PICK c : c = workspace[r]
  OBVIOUS
<1>2. c \in Contents /\ workspace' = [workspace EXCEPT ![r] = c]
  BY <1>1 DEF CacheInv, CacheTypes
<1>3. \A p \in Paths : c[p] # Nobody => Owner(c[p]) = Owner(r)
  BY <1>1 DEF CacheInv, ContentsAreOwn
<1> QED
  BY <1>1, <1>2, <1>3, CallWrites

\* Away from its two stages a runner makes no call, and has no staging directory.
LEMMA NoCall ==
  ASSUME CacheInv, NEW r \in Runners, stage[r] \notin {"restoring", "saving", "killed"}
  PROVE  op[r].do = "idle" /\ staging[r] = NoEntry
<1>1. op[r] \in Calls /\ CallOfStage(r, op[r], stage[r])
  BY DEF CacheInv, CacheTypes
<1>2. op[r].do = "idle"
  BY <1>1, CallFacts DEF CallOfStage
<1>3. staging[r] = NoEntry
  BY DEF CacheInv, StagingIsWhole
<1> QED
  BY <1>2, <1>3

\* A stage that does not use the cache.
LEMMA CacheStill ==
  ASSUME CacheInv, RunnerTypes, NEW r \in Runners, NEW g, UNCHANGED cacheVars, Moves(r, g),
         stage[r] \notin {"restoring", "saving", "killed"},
         stage[r] \in Publishing => g \in Publishing /\ Published(r, stored[r])'
  PROVE  CacheInv'
<1>1. PICK o : o = op[r]
  OBVIOUS
<1>2. o \in Calls /\ o.do = "idle" /\ staging[r] = NoEntry /\ op = [op EXCEPT ![r] = o]
  BY <1>1, NoCall DEF CacheInv, CacheTypes
<1>3. CallOfStage(r, o, g)
  BY <1>2 DEF CallOfStage
<1> QED
  BY <1>1, <1>2, <1>3, CallMoves DEF cacheVars, Moves, Goto

\* The last stages add to a status, and a snapshot asks for nothing they take away.
LEMMA StillPublished ==
  ASSUME RunnerInv, NEW r \in Runners, stage[r] \in {"saving", "finish"}, UNCHANGED work,
         Saved(r) \/ Finish(r) \/ Kill(r)
  PROVE  Published(r, stored[r])'
<1> USE DEF Ended, Early, Unbuilt, WithSteps, WithImage, WithSBOM, WithScan, WithSignature, WithProvenance, Late
<1>1. PICK x, y : x = copy[r] /\ y = stored[r]
  OBVIOUS
<1>2. Valid(r, x) /\ Progress(r, stage[r], x) /\ Behind(r, stage[r], y) /\ stored = [q \in Runners |-> stored[q]]
  BY <1>1, AtStage DEF RunnerInv, RunnerTypes
<1>3. Published(r, x) /\ Published(r, y) /\ IsStatus(x)
  BY <1>2 DEF Progress, Behind, Published, Evidenced, Valid
<1>4. ASSUME NEW z, x.conditions \subseteq z.conditions, z.evidence = x.evidence, z.image # "tag" => x.image # "tag"
      PROVE  Published(r, z)
  BY <1>3, <1>4 DEF Published, Evidenced, ProvenanceWanted, Has
<1>5. ASSUME NEW z, Published(r, z), stored'[r] = z PROVE Published(r, stored[r])'
  BY <1>5, SameMeaning DEF Published, Evidenced, ProvenanceWanted, Has
<1>6. CASE UNCHANGED stored
  BY <1>1, <1>3, <1>5, <1>6
<1>7. ASSUME NEW z, NEW g, x.conditions \subseteq z.conditions, z.evidence = x.evidence,
             z.image # "tag" => x.image # "tag", Store(r, z, g)
      PROVE  Published(r, stored[r])'
  <2>1. Published(r, z)
    BY <1>4, <1>7
  <2>2. stored'[r] = z \/ UNCHANGED stored
    BY <1>2, <1>7 DEF Store
  <2> QED
    BY <1>5, <1>6, <2>1, <2>2
<1>8. ASSUME NEW reason, fail(r, copy[r], reason) PROVE Published(r, stored[r])'
  <2>1. PICK z : z = [x EXCEPT !.phase = "Failed", !.reason = reason]
    OBVIOUS
  <2>2. z = Status("Failed", reason, x.image, x.conditions, x.evidence, x.artifacts)
    BY <1>3, <2>1, StatusChanges
  <2>3. x.conditions \subseteq z.conditions /\ z.evidence = x.evidence /\ z.image = x.image
    BY <2>2 DEF Status
  <2>4. Store(r, z, "done")
    BY <1>1, <1>8, <2>1 DEF fail
  <2> QED
    BY <1>7, <2>3, <2>4
<1>9. CASE Store(r, With(copy[r], "CacheSaved"), "finish")
  <2>1. PICK z : z = With(x, "CacheSaved")
    OBVIOUS
  <2>2. x.conditions \subseteq z.conditions /\ z.evidence = x.evidence /\ z.image = x.image
    BY <1>2, <2>1, WithIsValid
  <2> QED
    BY <1>1, <1>7, <1>9, <2>1, <2>2
<1>10. CASE Store(r, [copy[r] EXCEPT !.phase = "Succeeded", !.image = IF @ = "unset" THEN "tag" ELSE @], "done")
  <2>1. PICK i : i = (IF x.image = "unset" THEN "tag" ELSE x.image)
    OBVIOUS
  <2>2. PICK z : z = [x EXCEPT !.phase = "Succeeded", !.image = i]
    OBVIOUS
  <2>3. z = Status("Succeeded", x.reason, i, x.conditions, x.evidence, x.artifacts)
    BY <1>3, <2>2, StatusChanges
  <2>4. x.conditions \subseteq z.conditions /\ z.evidence = x.evidence /\ (z.image # "tag" => x.image # "tag")
    BY <2>1, <2>3 DEF Status
  <2>5. [x EXCEPT !.phase = "Succeeded", !.image = IF @ = "unset" THEN "tag" ELSE @] = z
    BY <2>1, <2>2
  <2>6. Store(r, z, "done")
    BY <1>1, <1>10, <2>5
  <2> QED
    BY <1>7, <2>4, <2>6
<1> QED
  BY <1>6, <1>8, <1>9, <1>10 DEF Saved, Finish, Kill

\* The stages that do not use the cache.
LEMMA StagesKeepCache ==
  ASSUME CacheInv, RunnerInv, NEW r \in Runners,
         \/ Load(r) \/ Start(r) \/ Clone(r) \/ Cloned(r) \/ StepsDone(r) \/ StartBuild(r) \/ PrepareBuild(r)
         \/ Build(r) \/ GenerateSBOM(r) \/ ScanImage(r) \/ SignImage(r) \/ WriteProvenance(r) \/ Hooked(r)
  PROVE  CacheInv'
<1>1. RunnerTypes
  BY DEF RunnerInv
<1>2. UNCHANGED cacheVars
  BY DEF Load, Start, Clone, Cloned, StepsDone, StartBuild, PrepareBuild, Build, GenerateSBOM, ScanImage,
         SignImage, WriteProvenance, Hooked
<1>3. /\ stage[r] \notin {"restoring", "saving", "killed"} /\ stage[r] \notin Publishing
  BY DEF Load, Start, Clone, Cloned, StepsDone, StartBuild, PrepareBuild, Build, GenerateSBOM, ScanImage,
         SignImage, WriteProvenance, Hooked, Publishing, Ended
<1>4. CASE \E g : Moves(r, g)
  BY <1>1, <1>2, <1>3, <1>4, CacheStill
<1>5. CASE PrepareBuild(r)
  <2>1. \/ \E g : Moves(r, g)
        \/ \E g : stage' = [stage EXCEPT ![r] = g] /\ \A q \in Runners \ {r} : stored'[q] = stored[q]
    BY <1>1, <1>5, StageEnds DEF PrepareBuild, WriteFails, RunnerTypes
  <2>2. ASSUME NEW g, stage' = [stage EXCEPT ![r] = g], \A q \in Runners \ {r} : stored'[q] = stored[q]
        PROVE  CacheInv'
    <3>1. PICK o : o = op[r]
      OBVIOUS
    <3>2. o \in Calls /\ o.do = "idle" /\ staging[r] = NoEntry /\ op = [op EXCEPT ![r] = o]
      BY <1>3, <3>1, NoCall DEF CacheInv, CacheTypes
    <3>3. CallOfStage(r, o, g)
      BY <3>2 DEF CallOfStage
    <3> QED
      BY <1>1, <1>2, <1>3, <2>2, <3>1, <3>2, <3>3, CallMoves DEF cacheVars
  <2> QED
    BY <1>4, <2>1, <2>2
<1> QED
  BY <1>1, <1>4, <1>5, StagesLead

LEMMA FinishKeepsCache == ASSUME CacheInv, RunnerInv, NEW r \in Runners, Finish(r) PROVE CacheInv'
<1>1. RunnerTypes /\ stage[r] = "finish" /\ UNCHANGED cacheVars /\ UNCHANGED work
  BY DEF RunnerInv, Finish, cacheVars
<1>2. PICK g \in {"done", "stopped"} : Moves(r, g)
  BY <1>1, StagesLead
<1>3. g \in Publishing /\ Published(r, stored[r])'
  BY <1>1, StillPublished DEF Publishing, Ended
<1> QED
  BY <1>1, <1>2, <1>3, CacheStill

\* Key i is looked up, or the restore is a miss.
LEMMA KeyIsTried ==
  ASSUME CacheTypes, NEW r \in Runners, NEW i \in Nat, i > 0, TryKey(r, i)
  PROVE  \E o \in Calls : /\ op' = [op EXCEPT ![r] = o]
                          /\ CallOfStage(r, o, "restoring") /\ o.do \in {"miss", "read"}
<1>1. work \in Works /\ Len(KeysOf(r)) \in Nat /\ DOMAIN KeysOf(r) = 1 .. Len(KeysOf(r))
  BY KeyFacts DEF CacheTypes
<1>2. PICK o : o = IF i > Len(KeysOf(r)) THEN [do |-> "miss"] ELSE [do |-> "read", key |-> i]
  OBVIOUS
<1>3. op' = [op EXCEPT ![r] = o]
  BY <1>2 DEF TryKey, Do
<1>4. o \in Calls /\ o.do \in {"miss", "read"}
  BY <1>2, CallsMade
<1>5. o.do = "read" => o.key = i /\ i \in 1 .. Len(KeysOf(r))
  BY <1>1, <1>2
<1>6. CallOfStage(r, o, "restoring")
  BY <1>1, <1>4, <1>5 DEF CallOfStage
<1> QED
  BY <1>3, <1>4, <1>6

LEMMA PrepareCacheKeepsCache == ASSUME CacheInv, RunnerInv, NEW r \in Runners, PrepareCache(r) PROVE CacheInv'
<1>1. /\ RunnerTypes /\ CacheTypes /\ stage[r] = "cache" /\ stage[r] \notin Publishing
      /\ UNCHANGED <<work, entries, staging, workspace, purging>>
  BY DEF RunnerInv, CacheInv, PrepareCache, Publishing, Ended
<1>2. op[r].do = "idle" /\ staging[r] = NoEntry
  BY <1>1, NoCall
<1>3. CASE UNCHANGED op
  <2>1. UNCHANGED cacheVars
    BY <1>1, <1>3 DEF cacheVars
  <2> QED
    BY <1>1, <2>1, CacheStagesLead, CacheStill
<1>4. CASE Keep(r, copy[r], "restoring") /\ TryKey(r, 1)
  <2>1. PICK o \in Calls : op' = [op EXCEPT ![r] = o] /\ CallOfStage(r, o, "restoring")
    BY <1>1, <1>4, KeyIsTried
  <2>2. Moves(r, "restoring")
    BY <1>1, <1>4, StageEnds
  <2> QED
    BY <1>1, <1>2, <2>1, <2>2, CallMoves DEF Moves, Goto
<1> QED
  BY <1>3, <1>4 DEF PrepareCache

LEMMA IdleIsFine == Idle \in Calls /\ Idle.do = "idle" /\ \A r, g : CallOfStage(r, Idle, g)
<1>1. Idle \in Calls /\ Idle.do = "idle"
  BY CallsMade DEF Idle
<1> QED
  BY <1>1 DEF CallOfStage

LEMMA RestoredKeepsCache == ASSUME CacheInv, RunnerInv, NEW r \in Runners, Restored(r) PROVE CacheInv'
<1>1. /\ RunnerTypes /\ stage[r] = "restoring" /\ stage[r] \notin Publishing
      /\ op[r].do \in {"hit", "miss", "error"}
      /\ op' = [op EXCEPT ![r] = Idle]
      /\ UNCHANGED <<work, entries, staging, workspace, purging>>
  BY DEF RunnerInv, Restored, Publishing, Ended, Do
<1>2. staging[r] = NoEntry
  BY <1>1 DEF CacheInv, StagingIsWhole
<1>3. PICK g : Moves(r, g)
  BY <1>1, CacheStagesLead
<1> QED
  BY <1>1, <1>2, <1>3, IdleIsFine, CallMoves DEF Moves, Goto

LEMMA SaveCacheKeepsCache == ASSUME CacheInv, RunnerInv, NEW r \in Runners, SaveCache(r) PROVE CacheInv'
<1>1. /\ RunnerTypes /\ stage[r] = "save" /\ stage[r] \notin Publishing
      /\ UNCHANGED <<work, entries, staging, workspace, purging>>
  BY DEF RunnerInv, SaveCache, Publishing, Ended
<1>2. op[r].do = "idle" /\ staging[r] = NoEntry
  BY <1>1, NoCall
<1>3. CASE UNCHANGED op
  <2>1. UNCHANGED cacheVars
    BY <1>1, <1>3 DEF cacheVars
  <2> QED
    BY <1>1, <2>1, CacheStagesLead, CacheStill
<1>4. CASE Keep(r, copy[r], "saving") /\ Do(r, [do |-> "save"])
  <2>1. PICK o : o = [do |-> "save"]
    OBVIOUS
  <2>2. o \in Calls /\ op' = [op EXCEPT ![r] = o] /\ CallOfStage(r, o, "saving")
    BY <1>4, <2>1, CallsMade DEF Do, CallOfStage
  <2>3. Moves(r, "saving")
    BY <1>1, <1>4, StageEnds
  <2> QED
    BY <1>1, <1>2, <2>2, <2>3, CallMoves DEF Moves, Goto
<1> QED
  BY <1>3, <1>4 DEF SaveCache

LEMMA SavedKeepsCache == ASSUME CacheInv, RunnerInv, NEW r \in Runners, Saved(r) PROVE CacheInv'
<1>1. /\ RunnerTypes /\ stage[r] = "saving" /\ op[r].do \in {"saved", "error"}
      /\ op' = [op EXCEPT ![r] = Idle]
      /\ UNCHANGED <<work, entries, staging, workspace, purging>>
  BY DEF RunnerInv, Saved, Do
<1>2. staging[r] = NoEntry
  BY <1>1 DEF CacheInv, StagingIsWhole
<1>3. PICK g \in {"finish", "stopped", "done"} : Moves(r, g)
  BY <1>1, CacheStagesLead
<1>4. g \in Publishing /\ Published(r, stored[r])'
  BY <1>1, StillPublished DEF Publishing, Ended
<1> QED
  BY <1>1, <1>2, <1>3, <1>4, IdleIsFine, CallMoves DEF Moves, Goto

\* A pod that is killed while it removes an entry leaves the rest of it.
LEMMA KillKeepsCache == ASSUME CacheInv, RunnerInv, NEW r \in Runners, Kill(r) PROVE CacheInv'
<1>1. /\ RunnerTypes /\ stage[r] \notin Ended
      /\ stage' = [stage EXCEPT ![r] = "killed"]
      /\ UNCHANGED <<work, entries, staging, workspace, purging, stored>>
      /\ op' = [op EXCEPT ![r] = IF op[r].do = "remove" THEN [op[r] EXCEPT !.do = "cut"] ELSE Idle]
  BY DEF RunnerInv, Kill, Do
<1>2. PICK o, p : p = op[r] /\ o = IF p.do = "remove" THEN [p EXCEPT !.do = "cut"] ELSE Idle
  OBVIOUS
<1>3. p \in Calls /\ CallOfStage(r, p, stage[r])
  BY <1>2 DEF CacheInv, CacheTypes
<1>4. p.do # "cut"
  BY <1>1, <1>3 DEF CallOfStage, Ended
<1>5. ASSUME p.do = "remove" PROVE o \in Calls /\ o.do = "cut" /\ o.entry = p.entry /\ o.dir = p.dir
  <2>1. /\ p.entry \in Scopes /\ p.dir \in Runners \cup {Nobody} /\ p.key \in Nat
        /\ p = [do |-> p.do, entry |-> p.entry, dir |-> p.dir, key |-> p.key]
    BY <1>3, <1>5, CallFacts
  <2>2. o = [do |-> "cut", entry |-> p.entry, dir |-> p.dir, key |-> p.key]
    BY <1>2, <1>5, <2>1
  <2>3. o \in Calls
    BY <2>1, <2>2, CallsMade
  <2> QED
    BY <2>2, <2>3
<1>6. o \in Calls /\ (p.do = "remove" => o.do = "cut" /\ o.entry = p.entry /\ o.dir = p.dir)
  BY <1>2, <1>5, IdleIsFine
<1>7. CallOfStage(r, o, "killed")
  <2>1. o.do \in {"cut", "idle"}
    BY <1>2, <1>6, IdleIsFine
  <2> QED
    BY <2>1 DEF CallOfStage
<1>8. stage[r] \in Publishing => stage[r] \in {"saving", "finish"}
  BY <1>1 DEF Publishing
<1>9. stage[r] \in Publishing => "killed" \in Publishing /\ Published(r, stored[r])'
  BY <1>1, <1>8, StillPublished DEF Publishing, Ended
<1>10. op' = [op EXCEPT ![r] = o]
  BY <1>1, <1>2
<1> QED
  BY <1>1, <1>2, <1>4, <1>6, <1>7, <1>9, <1>10, CallMoves

LEMMA StepKeepsCache == ASSUME CacheInv, RunnerInv, NEW r \in Runners, Step(r) PROVE CacheInv'
<1>1. /\ RunnerTypes /\ stage[r] = "steps" /\ stage[r] \notin Publishing
      /\ UNCHANGED <<work, entries, staging, purging, op>>
  BY DEF RunnerInv, Step, Publishing, Ended
<1>2. op[r].do = "idle" /\ staging[r] = NoEntry
  BY <1>1, NoCall
<1>3. PICK o : o = op[r]
  OBVIOUS
<1>4. o \in Calls /\ op' = [op EXCEPT ![r] = o] /\ \A g : CallOfStage(r, o, g)
  <2>1. o \in Calls /\ op' = [op EXCEPT ![r] = o]
    BY <1>1, <1>3 DEF CacheInv, CacheTypes
  <2> QED
    BY <1>2, <1>3, <2>1 DEF CallOfStage
<1>5. PICK written : workspace' = [workspace EXCEPT ![r] = [p \in Paths |-> IF p \in written THEN r ELSE @[p]]]
  BY DEF Step
<1>6. PICK c : c = [p \in Paths |-> IF p \in written THEN r ELSE workspace[r][p]]
  OBVIOUS
<1>7. c \in Contents /\ workspace' = [workspace EXCEPT ![r] = c]
  BY <1>5, <1>6 DEF CacheInv, CacheTypes, Contents
<1>8. \A p \in Paths : c[p] # Nobody => Owner(c[p]) = Owner(r)
  BY <1>6 DEF CacheInv, ContentsAreOwn
<1>9. PICK g : stage' = [stage EXCEPT ![r] = g] /\ \A q \in Runners \ {r} : stored'[q] = stored[q]
  <2>1. CASE \E h : Moves(r, h)
    BY <2>1 DEF Moves, Goto
  <2>2. CASE UNCHANGED <<stage, copy, stored, logins>>
    <3>1. stage' = [stage EXCEPT ![r] = "steps"]
      BY <1>1, <2>2 DEF RunnerTypes
    <3> QED
      BY <2>2, <3>1
  <2> QED
    BY <1>1, <2>1, <2>2, CacheStagesLead
<1> QED
  BY <1>1, <1>2, <1>3, <1>4, <1>7, <1>8, <1>9, CallWrites

(***************************************************************************)
(* The cache: its calls.                                                   *)
(***************************************************************************)

\* A runner at a stage of the cache stays there during a call.
LEMMA CallStays ==
  ASSUME RunnerInv, NEW r \in Runners, UNCHANGED <<work, stage, stored>>
  PROVE  /\ stage' = [stage EXCEPT ![r] = stage[r]]
         /\ stage[r] = "saving" => Published(r, stored[r])' /\ Published(r, stored[r])
<1>1. stage' = [stage EXCEPT ![r] = stage[r]]
  BY DEF RunnerInv, RunnerTypes
<1>2. stage[r] = "saving" => Published(r, stored[r])
  BY AtStage DEF Behind, Late
<1> QED
  BY <1>1, <1>2 DEF Published, Evidenced, ProvenanceWanted, Has, Adapter, Template

LEMMA PathIsTried ==
  ASSUME CacheTypes, NEW r \in Runners, op[r].key \in Nat, op[r].key \in DOMAIN KeysOf(r),
         NEW i \in Nat, i > 0, TryPath(r, i)
  PROVE  \E o \in Calls : /\ op' = [op EXCEPT ![r] = o]
                          /\ CallOfStage(r, o, "restoring") /\ o.do \in {"hit", "copy"}
<1>1. CachePaths \in Seq(STRING) /\ Len(CachePaths) \in Nat /\ DOMAIN CachePaths = 1 .. Len(CachePaths)
  BY CacheAssumption
<1>2. PICK o : o = IF i > Len(CachePaths) THEN [do |-> "hit"] ELSE [do |-> "copy", key |-> op[r].key, path |-> i]
  OBVIOUS
<1>3. op' = [op EXCEPT ![r] = o]
  BY <1>2 DEF TryPath, Do
<1>4. o \in Calls /\ o.do \in {"hit", "copy"}
  BY <1>2, CallsMade
<1>5. o.do = "copy" => o.key = op[r].key /\ o.path = i /\ i \in 1 .. Len(CachePaths)
  BY <1>1, <1>2
<1>6. CallOfStage(r, o, "restoring")
  BY <1>1, <1>4, <1>5 DEF CallOfStage
<1> QED
  BY <1>3, <1>4, <1>6

\* A call of the restore follows another.
LEMMA RestoreMoves ==
  ASSUME CacheInv, RunnerInv, NEW r \in Runners, stage[r] = "restoring", UNCHANGED <<stage, stored>>,
         UNCHANGED <<work, entries, staging, workspace, purging>>,
         op[r].do \notin {"remove", "cut"},
         NEW o \in Calls, op' = [op EXCEPT ![r] = o], CallOfStage(r, o, "restoring")
  PROVE  CacheInv'
<1>1. RunnerTypes /\ stage' = [stage EXCEPT ![r] = "restoring"] /\ stage[r] \notin Publishing
  BY CallStays DEF RunnerInv, Publishing, Ended
<1>2. staging[r] = NoEntry
  BY DEF CacheInv, StagingIsWhole
<1> QED
  BY <1>1, <1>2, CallMoves

LEMMA ReadManifestKeepsCache ==
  ASSUME CacheInv, RunnerInv, NEW r \in Runners, ReadManifest(r), UNCHANGED runnerVars
  PROVE  CacheInv'
<1>1. /\ CacheTypes /\ op[r] \in Calls /\ CallOfStage(r, op[r], stage[r]) /\ op[r].do = "read"
      /\ UNCHANGED <<stage, stored>> /\ UNCHANGED <<work, entries, staging, workspace, purging>>
      /\ work \in Works /\ entries \in [Scopes -> Entries]
  BY DEF CacheInv, CacheTypes, ReadManifest, runnerVars
<1>2. /\ stage[r] = "restoring" /\ op[r].key \in DOMAIN KeysOf(r) /\ op[r].key \in Nat
      /\ DOMAIN KeysOf(r) = 1 .. Len(KeysOf(r)) /\ Len(KeysOf(r)) \in Nat /\ Current(r) \in Scopes
  BY <1>1, CallFacts, KeyFacts DEF CallOfStage, Current
<1>3. CASE TryKey(r, op[r].key + 1)
  <2>1. op[r].key + 1 \in Nat /\ op[r].key + 1 > 0
    BY <1>2
  <2>2. PICK o \in Calls : op' = [op EXCEPT ![r] = o] /\ CallOfStage(r, o, "restoring")
    BY <1>1, <1>3, <2>1, KeyIsTried
  <2> QED
    BY <1>1, <1>2, <2>2, RestoreMoves
<1>4. CASE TryPath(r, 1)
  <2>1. PICK o \in Calls : op' = [op EXCEPT ![r] = o] /\ CallOfStage(r, o, "restoring")
    BY <1>1, <1>2, <1>4, PathIsTried
  <2> QED
    BY <1>1, <1>2, <2>1, RestoreMoves
<1>5. CASE Do(r, [do |-> "open", entry |-> Current(r), key |-> op[r].key])
  <2>1. PICK o : o = [do |-> "open", entry |-> Current(r), key |-> op[r].key]
    OBVIOUS
  <2>2. o \in Calls /\ op[r].key # 0
    BY <1>2, <2>1, CallsMade
  <2>3. CallOfStage(r, o, "restoring")
    BY <2>1, <2>2 DEF CallOfStage
  <2>4. op' = [op EXCEPT ![r] = o]
    BY <1>5, <2>1 DEF Do
  <2> QED
    BY <1>1, <1>2, <2>2, <2>3, <2>4, RestoreMoves
<1>6. CASE Do(r, [do |-> "error"])
  <2>1. PICK o : o = [do |-> "error"]
    OBVIOUS
  <2>2. o \in Calls /\ op' = [op EXCEPT ![r] = o] /\ CallOfStage(r, o, "restoring")
    BY <1>6, <2>1, CallsMade DEF Do, CallOfStage
  <2> QED
    BY <1>1, <1>2, <2>2, RestoreMoves
<1> QED
  BY <1>3, <1>4, <1>5, <1>6 DEF ReadManifest

LEMMA CopyPathKeepsCache ==
  ASSUME CacheInv, RunnerInv, NEW r \in Runners, CopyPath(r), UNCHANGED runnerVars
  PROVE  CacheInv'
<1>1. /\ CacheTypes /\ op[r] \in Calls /\ CallOfStage(r, op[r], stage[r]) /\ op[r].do = "copy"
      /\ UNCHANGED <<stage, stored>> /\ UNCHANGED <<work, entries, staging, purging>>
      /\ work \in Works /\ entries \in [Scopes -> Entries] /\ workspace \in [Runners -> Contents]
  BY DEF CacheInv, CacheTypes, CopyPath, runnerVars
<1>2. /\ stage[r] = "restoring" /\ op[r].key \in DOMAIN KeysOf(r) /\ op[r].key \in Nat
      /\ op[r].path \in DOMAIN CachePaths /\ op[r].path \in Nat
      /\ Current(r) \in Scopes /\ Current(r)[1] = work[r].project /\ Current(r)[2] = work[r].repository
  BY <1>1, CallFacts, KeyFacts DEF CallOfStage, Current
<1>3. CASE Do(r, [do |-> "error"]) /\ UNCHANGED workspace
  <2>1. PICK o : o = [do |-> "error"]
    OBVIOUS
  <2>2. o \in Calls /\ op' = [op EXCEPT ![r] = o] /\ CallOfStage(r, o, "restoring")
    BY <1>3, <2>1, CallsMade DEF Do, CallOfStage
  <2> QED
    BY <1>1, <1>2, <1>3, <2>2, RestoreMoves
<1>4. CASE /\ workspace' = IF entries[Current(r)].data[CachePaths[op[r].path]] = Nobody THEN workspace
                           ELSE [workspace EXCEPT ![r][CachePaths[op[r].path]] =
                                   entries[Current(r)].data[CachePaths[op[r].path]]]
           /\ TryPath(r, op[r].path + 1)
  <2>1. PICK n, b : n = CachePaths[op[r].path] /\ b = entries[Current(r)].data[n]
    OBVIOUS
  <2>2. n \in Paths
    BY <1>2, <2>1 DEF Paths
  <2>3. b \in Runners \cup {Nobody} /\ (b # Nobody => Owner(b) = Owner(r))
    <3>1. entries[Current(r)].data \in Contents
      BY <1>1, <1>2 DEF Entries
    <3>2. b # Nobody => Owner(b) = <<Current(r)[1], Current(r)[2]>>
      BY <1>2, <2>1, <2>2 DEF CacheInv, ContentsAreOwn
    <3> QED
      BY <1>2, <2>1, <2>2, <3>1, <3>2 DEF Contents, Owner
  <2>4. PICK c : c = IF b = Nobody THEN workspace[r] ELSE [workspace[r] EXCEPT ![n] = b]
    OBVIOUS
  <2>5. c \in Contents
    BY <1>1, <2>2, <2>3, <2>4 DEF Contents
  <2>6. workspace' = [workspace EXCEPT ![r] = c]
    BY <1>1, <1>4, <2>1, <2>4
  <2>7. \A p \in Paths : c[p] # Nobody => Owner(c[p]) = Owner(r)
    <3>1. workspace[r] \in Contents /\ \A p \in Paths : workspace[r][p] # Nobody => Owner(workspace[r][p]) = Owner(r)
      BY <1>1 DEF CacheInv, ContentsAreOwn
    <3> QED
      BY <2>2, <2>3, <2>4, <3>1 DEF Contents
  <2>8. op[r].path + 1 \in Nat /\ op[r].path + 1 > 0
    BY <1>2
  <2>9. PICK o \in Calls : op' = [op EXCEPT ![r] = o] /\ CallOfStage(r, o, "restoring")
    BY <1>1, <1>2, <1>4, <2>8, PathIsTried
  <2>10. RunnerTypes /\ stage' = [stage EXCEPT ![r] = "restoring"] /\ stage[r] \notin Publishing
    BY <1>1, <1>2, CallStays DEF RunnerInv, Publishing, Ended
  <2>11. staging[r] = NoEntry
    BY <1>2 DEF CacheInv, StagingIsWhole
  <2> QED
    BY <1>1, <2>5, <2>6, <2>7, <2>9, <2>10, <2>11, CallWrites
<1> QED
  BY <1>3, <1>4 DEF CopyPath

\* Why the directory of a scope need not be whole: it is being removed, or was.
Cut(s, e) ==
  \/ \E q \in Runners : op[q].do \in {"remove", "cut"} /\ op[q].entry = s /\ op[q].dir = e.dir
  \/ e.dir \in purging

\* It is one snapshot, or a part of it, in any case.
OfOneRunner(e) == e.dir # Nobody => \A p \in Paths : e.data[p] \in {Nobody, workspace[e.dir][p]}

LEMMA WholeOrCut ==
  EntryIsWhole <=>
    \A s \in Scopes :
      /\ OfOneRunner(entries[s])
      /\ entries[s].dir # Nobody =>
           \/ entries[s].manifest # "none" /\ entries[s].data = workspace[entries[s].dir]
           \/ Cut(s, entries[s])
BY DEF EntryIsWhole, BeingRemoved, Cut, OfOneRunner

\* The entry of one scope becomes e, and other removals go on.
LEMMA EntryMoves ==
  ASSUME CacheInv, UNCHANGED <<work, stage, stored, workspace, purging>>,
         NEW s \in Scopes, NEW e \in Entries, entries' = [entries EXCEPT ![s] = e],
         op' \in [Runners -> Calls], \A q \in Runners : CallOfStage(q, op'[q], stage[q]),
         \A q \in Runners : op[q].do \in {"remove", "cut"} /\ op[q].entry # s => op'[q] = op[q],
         staging' \in [Runners -> Entries], StagingIsWhole',
         \A p \in Paths : e.data[p] # Nobody => Owner(e.data[p]) = <<s[1], s[2]>>,
         e.dir # Nobody => stage[e.dir] \in Publishing /\ Published(e.dir, stored[e.dir]),
         OfOneRunner(e),
         e.dir # Nobody => (e.manifest # "none" /\ e.data = workspace[e.dir]) \/ Cut(s, e)'
  PROVE  CacheInv'
<1> USE SameScopes
<1>1. /\ entries \in [Scopes -> Entries] /\ entries'[s] = e
      /\ \A t \in Scopes \ {s} : entries'[t] = entries[t]
  BY DEF CacheInv, CacheTypes
<1>2. CacheTypes'
  BY <1>1 DEF CacheInv, CacheTypes
<1>3. \A q \in Runners : CallOfStage(q, op[q], stage[q])'
  <2>1. ASSUME NEW q \in Runners PROVE CallOfStage(q, op[q], stage[q])'
    <3>1. PICK o, g : o = op'[q] /\ g = stage'[q]
      OBVIOUS
    <3>2. CallOfStage(q, o, g)'
      BY <3>1
    <3> QED
      BY <3>1, <3>2 DEF CallOfStage
  <2> QED
    BY <2>1
<1>4. ContentsAreOwn'
  <2>1. ASSUME NEW t \in Scopes, NEW p \in Paths, entries'[t].data[p] # Nobody
        PROVE  Owner(entries'[t].data[p]) = <<t[1], t[2]>>
    BY <1>1, <2>1 DEF CacheInv, ContentsAreOwn
  <2> QED
    BY <2>1 DEF CacheInv, ContentsAreOwn, Owner
<1>5. PublishersAreDone'
  <2>1. SUFFICES ASSUME NEW t \in Scopes, NEW d, d = entries'[t].dir, d # Nobody
                 PROVE  stage[d] \in Publishing /\ Published(d, stored[d])'
    BY DEF PublishersAreDone, Publishing
  <2>2. stage[d] \in Publishing /\ Published(d, stored[d])
    BY <1>1, <2>1 DEF CacheInv, PublishersAreDone
  <2> QED
    BY <2>2 DEF Published, Evidenced, ProvenanceWanted, Has, Adapter, Template
<1>6. EntryIsWhole'
  <2>1. SUFFICES ASSUME NEW t \in Scopes, entries'[t].dir # Nobody
                 PROVE  /\ OfOneRunner(entries'[t])
                        /\ \/ entries'[t].manifest # "none" /\ entries'[t].data = workspace[entries'[t].dir]
                           \/ Cut(t, entries[t])'
    BY DEF EntryIsWhole, BeingRemoved, Cut, OfOneRunner
  <2>2. CASE t = s
    BY <1>1, <2>1, <2>2 DEF Cut
  <2>3. CASE t # s
    <3>1. /\ OfOneRunner(entries[t])
          /\ \/ entries[t].manifest # "none" /\ entries[t].data = workspace[entries[t].dir]
             \/ Cut(t, entries[t])
      BY <1>1, <2>1, <2>3, WholeOrCut DEF CacheInv
    <3>2. CASE Cut(t, entries[t])
      BY <1>1, <2>3, <3>1, <3>2 DEF Cut
    <3> QED
      BY <1>1, <2>3, <3>1, <3>2
  <2> QED
    BY <2>2, <2>3
<1> QED
  BY <1>2, <1>3, <1>4, <1>5, <1>6 DEF CacheInv

\* What the invariant says of the entry of a scope.
LEMMA EntryFacts ==
  ASSUME CacheInv, NEW s \in Scopes
  PROVE  /\ entries[s] \in Entries
         /\ \A p \in Paths : entries[s].data[p] # Nobody => Owner(entries[s].data[p]) = <<s[1], s[2]>>
         /\ OfOneRunner(entries[s])
         /\ entries[s].dir # Nobody =>
              /\ stage[entries[s].dir] \in Publishing /\ Published(entries[s].dir, stored[entries[s].dir])
              /\ (entries[s].manifest # "none" /\ entries[s].data = workspace[entries[s].dir]) \/ Cut(s, entries[s])
<1>1. entries[s] \in Entries
  BY DEF CacheInv, CacheTypes
<1> QED
  BY <1>1, WholeOrCut DEF CacheInv, ContentsAreOwn, PublishersAreDone

LEMMA OneLessFacts ==
  ASSUME NEW e \in Entries, NEW rest \in OneLess(e)
  PROVE  /\ rest \in Entries /\ rest.dir = e.dir
         /\ \A p \in Paths : rest.data[p] \in {Nobody, e.data[p]}
         /\ e # NoEntry
<1>1. e = [dir |-> e.dir, manifest |-> e.manifest, data |-> e.data] /\ e.data \in Contents
  BY DEF Entries
<1>2. ASSUME rest = [e EXCEPT !.manifest = "none"]
      PROVE  rest \in Entries /\ rest.dir = e.dir /\ \A p \in Paths : rest.data[p] \in {Nobody, e.data[p]}
  BY <1>1, <1>2 DEF Entries
<1>3. ASSUME \E q \in Paths : rest = [e EXCEPT !.data[q] = Nobody]
      PROVE  rest \in Entries /\ rest.dir = e.dir /\ \A p \in Paths : rest.data[p] \in {Nobody, e.data[p]}
  <2>1. PICK q \in Paths : rest = [e EXCEPT !.data[q] = Nobody]
    BY <1>3
  <2>2. PICK d : d = [e.data EXCEPT ![q] = Nobody]
    OBVIOUS
  <2>3. d \in Contents /\ \A p \in Paths : d[p] \in {Nobody, e.data[p]}
    BY <1>1, <2>2 DEF Contents
  <2>4. rest = [dir |-> e.dir, manifest |-> e.manifest, data |-> d]
    BY <1>1, <2>1, <2>2
  <2> QED
    BY <2>3, <2>4 DEF Entries
<1>4. e # NoEntry
  BY NoContents DEF OneLess, NoEntry
<1> QED
  BY <1>2, <1>3, <1>4 DEF OneLess

\* An entry changes and no call does.
LEMMA EntryAlone ==
  ASSUME CacheInv, UNCHANGED <<work, stage, stored, workspace, purging, op, staging>>,
         NEW s \in Scopes, NEW e \in Entries, entries' = [entries EXCEPT ![s] = e],
         \A p \in Paths : e.data[p] # Nobody => Owner(e.data[p]) = <<s[1], s[2]>>,
         e.dir # Nobody => stage[e.dir] \in Publishing /\ Published(e.dir, stored[e.dir]),
         OfOneRunner(e),
         e.dir # Nobody => (e.manifest # "none" /\ e.data = workspace[e.dir]) \/ Cut(s, e)
  PROVE  CacheInv'
<1>1. /\ op' \in [Runners -> Calls] /\ staging' \in [Runners -> Entries]
      /\ \A q \in Runners : CallOfStage(q, op'[q], stage[q])
  BY DEF CacheInv, CacheTypes
<1>2. StagingIsWhole'
  BY DEF CacheInv, StagingIsWhole
<1>3. Cut(s, e) => Cut(s, e)'
  BY DEF Cut
<1> QED
  BY <1>1, <1>2, <1>3, EntryMoves

\* A child of a directory that is being removed goes.
LEMMA ChildRemoved ==
  ASSUME CacheInv, UNCHANGED <<work, stage, stored, workspace, purging, op, staging>>,
         NEW s \in Scopes, NEW rest \in OneLess(entries[s]), entries' = [entries EXCEPT ![s] = rest],
         Cut(s, entries[s])
  PROVE  CacheInv'
<1>1. PICK e : e = entries[s]
  OBVIOUS
<1>2. /\ e \in Entries
      /\ \A p \in Paths : e.data[p] # Nobody => Owner(e.data[p]) = <<s[1], s[2]>>
      /\ e.dir # Nobody => stage[e.dir] \in Publishing /\ Published(e.dir, stored[e.dir])
      /\ OfOneRunner(e)
  BY <1>1, EntryFacts
<1>3. rest \in Entries /\ rest.dir = e.dir /\ \A p \in Paths : rest.data[p] \in {Nobody, e.data[p]}
  BY <1>1, <1>2, OneLessFacts
<1>4. Cut(s, rest)
  BY <1>1, <1>3 DEF Cut
<1>5. \A p \in Paths : rest.data[p] # Nobody => Owner(rest.data[p]) = <<s[1], s[2]>>
  BY <1>2, <1>3
<1>6. OfOneRunner(rest)
  BY <1>2, <1>3 DEF OfOneRunner
<1> QED
  BY <1>2, <1>3, <1>4, <1>5, <1>6, EntryAlone

LEMMA RemoveItemKeepsCache ==
  ASSUME CacheInv, NEW r \in Runners, RemoveItem(r), UNCHANGED runnerVars
  PROVE  CacheInv'
<1>1. PICK s : s = op[r].entry
  OBVIOUS
<1>2. /\ op[r].do = "remove" /\ op[r].dir = entries[s].dir
      /\ UNCHANGED <<work, stage, stored, workspace, purging, op, staging>>
      /\ \E rest \in OneLess(entries[s]) : entries' = [entries EXCEPT ![s] = rest]
  BY <1>1 DEF RemoveItem, runnerVars
<1>3. s \in Scopes
  BY <1>1, <1>2, CallFacts DEF CacheInv, CacheTypes
<1>4. Cut(s, entries[s])
  BY <1>1, <1>2 DEF Cut
<1> QED
  BY <1>2, <1>3, <1>4, ChildRemoved

\* A runner goes on from a removal.
LEMMA RemovedGoesOn ==
  ASSUME CacheInv, NEW r \in Runners, op[r].do \in {"open", "remove"}, Removed(r)
  PROVE  \E o \in Calls : /\ op' = [op EXCEPT ![r] = o]
                          /\ CallOfStage(r, o, stage[r])
                          /\ stage[r] = "saving" => o.do = "rename"
<1>1. op[r] \in Calls /\ CallOfStage(r, op[r], stage[r]) /\ CacheTypes
  BY DEF CacheInv, CacheTypes
<1>2. op[r].key \in Nat
  BY <1>1, CallFacts
<1>3. CASE op[r].key = 0
  <2>1. PICK o : o = [do |-> "rename"]
    OBVIOUS
  <2>2. o \in Calls /\ o.do = "rename" /\ op' = [op EXCEPT ![r] = o]
    BY <1>3, <2>1, CallsMade DEF Removed, Do
  <2>3. stage[r] = "saving"
    BY <1>1, <1>3 DEF CallOfStage
  <2>4. CallOfStage(r, o, stage[r])
    BY <2>2, <2>3 DEF CallOfStage
  <2> QED
    BY <2>2, <2>4
<1>4. CASE op[r].key # 0
  <2>1. TryKey(r, op[r].key + 1) /\ stage[r] = "restoring" /\ op[r].key + 1 \in Nat /\ op[r].key + 1 > 0
    BY <1>1, <1>2, <1>4 DEF Removed, CallOfStage
  <2> QED
    BY <1>1, <2>1, KeyIsTried
<1> QED
  BY <1>3, <1>4

\* The directory to be removed is looked up by its name, and none may be there.
LEMMA OpenKeepsCache ==
  ASSUME CacheInv, RunnerInv, NEW r \in Runners, Open(r), UNCHANGED runnerVars
  PROVE  CacheInv'
<1>1. PICK s, d : s = op[r].entry /\ d = entries[s].dir
  OBVIOUS
<1>2. /\ op[r] \in Calls /\ op[r].do = "open" /\ CallOfStage(r, op[r], stage[r])
      /\ UNCHANGED <<stage, stored>> /\ UNCHANGED <<work, entries, staging, workspace, purging>>
      /\ entries \in [Scopes -> Entries]
  BY DEF CacheInv, CacheTypes, Open, runnerVars
<1>3. s \in Scopes /\ op[r].key \in Nat /\ stage[r] \in {"restoring", "saving"}
  BY <1>1, <1>2, CallFacts DEF CallOfStage
<1>4. d \in Runners \cup {Nobody}
  BY <1>1, <1>2, <1>3 DEF Entries
<1>5. PICK o \in Calls : /\ op' = [op EXCEPT ![r] = o] /\ CallOfStage(r, o, stage[r])
                         /\ stage[r] = "saving" => o.do \in {"open", "remove", "rename"}
  <2>1. CASE Removed(r)
    BY <1>2, <2>1, RemovedGoesOn
  <2>2. CASE Do(r, [do |-> "remove", entry |-> s, dir |-> d, key |-> op[r].key])
    <3>1. PICK o : o = [do |-> "remove", entry |-> s, dir |-> d, key |-> op[r].key]
      OBVIOUS
    <3>2. o \in Calls
      BY <1>3, <1>4, <3>1, CallsMade
    <3>3. CallOfStage(r, o, stage[r])
      BY <1>2, <3>1 DEF CallOfStage
    <3> QED
      BY <2>2, <3>1, <3>2, <3>3 DEF Do
  <2> QED
    BY <1>1, <2>1, <2>2 DEF Open
<1>6. CASE stage[r] = "restoring"
  BY <1>2, <1>5, <1>6, RestoreMoves
<1>7. CASE stage[r] = "saving"
  <2>1. RunnerTypes /\ stage' = [stage EXCEPT ![r] = "saving"] /\ "saving" \in Publishing /\ Published(r, stored[r])'
    BY <1>2, <1>7, CallStays DEF RunnerInv, Publishing
  <2> QED
    BY <1>2, <1>5, <1>7, <2>1, CallMoves
<1> QED
  BY <1>3, <1>6, <1>7

LEMMA RemoveDirectoryKeepsCache ==
  ASSUME CacheInv, NEW r \in Runners, RemoveDirectory(r), UNCHANGED runnerVars
  PROVE  CacheInv'
<1>1. PICK s : s = op[r].entry
  OBVIOUS
<1>2. op[r].do = "remove" /\ UNCHANGED <<work, stage, stored, workspace, purging>>
  BY DEF RemoveDirectory, runnerVars
<1>3. /\ s \in Scopes /\ op \in [Runners -> Calls] /\ entries \in [Scopes -> Entries]
      /\ staging \in [Runners -> Entries]
      /\ CallOfStage(r, op[r], stage[r])
  BY <1>1, <1>2, CallFacts DEF CacheInv, CacheTypes
<1>4. stage[r] \in {"restoring", "saving"}
  BY <1>2, <1>3 DEF CallOfStage
<1>5. CASE entries' = [entries EXCEPT ![s] = NoEntry] /\ Removed(r) /\ UNCHANGED staging
  <2>1. PICK o \in Calls : op' = [op EXCEPT ![r] = o] /\ CallOfStage(r, o, stage[r])
                             /\ (stage[r] = "saving" => o.do = "rename")
    BY <1>2, <1>5, RemovedGoesOn
  <2>2. /\ op' \in [Runners -> Calls] /\ \A q \in Runners : CallOfStage(q, op'[q], stage[q])
        /\ \A q \in Runners : op[q].do \in {"remove", "cut"} /\ op[q].entry # s => op'[q] = op[q]
    BY <1>1, <1>3, <2>1 DEF CacheInv
  <2>3. StagingIsWhole'
    <3>1. SUFFICES ASSUME NEW q \in Runners, staging[q] # NoEntry
                   PROVE  stage[q] = "killed" \/ (stage[q] = "saving" /\ op'[q].do \in {"open", "remove", "rename"})
      BY <1>2, <1>5 DEF CacheInv, StagingIsWhole
    <3>2. stage[q] = "killed" \/ (stage[q] = "saving" /\ op[q].do \in {"open", "remove", "rename"})
      BY <3>1 DEF CacheInv, StagingIsWhole
    <3>3. op'[q] = IF q = r THEN o ELSE op[q]
      BY <1>3, <2>1
    <3> QED
      BY <2>1, <3>2, <3>3
  <2> QED
    BY <1>2, <1>3, <1>5, <2>2, <2>3, NoContents, EntryMoves DEF OfOneRunner
<1>6. CASE /\ entries[s].dir # op[r].dir
           /\ Do(r, [do |-> "error"])
           /\ staging' = [staging EXCEPT ![r] = NoEntry]
           /\ UNCHANGED entries
  <2>1. PICK o, e : o = [do |-> "error"] /\ e = entries[s]
    OBVIOUS
  <2>2. o \in Calls /\ op' = [op EXCEPT ![r] = o] /\ CallOfStage(r, o, stage[r])
    BY <1>4, <1>6, <2>1, CallsMade DEF Do, CallOfStage
  <2>3. /\ op' \in [Runners -> Calls] /\ \A q \in Runners : CallOfStage(q, op'[q], stage[q])
        /\ \A q \in Runners : op[q].do \in {"remove", "cut"} /\ op[q].entry # s => op'[q] = op[q]
    BY <1>1, <1>3, <2>2 DEF CacheInv
  <2>4. staging' \in [Runners -> Entries] /\ StagingIsWhole'
    BY <1>2, <1>3, <1>6, <2>2, NoContents DEF CacheInv, StagingIsWhole
  <2>5. /\ e \in Entries /\ entries' = [entries EXCEPT ![s] = e]
        /\ \A p \in Paths : e.data[p] # Nobody => Owner(e.data[p]) = <<s[1], s[2]>>
        /\ e.dir # Nobody => stage[e.dir] \in Publishing /\ Published(e.dir, stored[e.dir])
        /\ OfOneRunner(e)
        /\ e.dir # Nobody => (e.manifest # "none" /\ e.data = workspace[e.dir]) \/ Cut(s, e)
    BY <1>3, <1>6, <2>1, EntryFacts
  <2>6. Cut(s, e) => Cut(s, e)'
    BY <1>1, <1>2, <1>3, <1>6, <2>1, <2>2 DEF Cut
  <2> QED
    BY <1>2, <1>3, <2>3, <2>4, <2>5, <2>6, EntryMoves
<1> QED
  BY <1>1, <1>5, <1>6 DEF RemoveDirectory

LEMMA StageKeepsCache ==
  ASSUME CacheInv, NEW r \in Runners, Stage(r), UNCHANGED runnerVars
  PROVE  CacheInv'
<1>1. PICK s, e : s = EntryOf(r, work[r].template.key) /\ e = entries[s]
  OBVIOUS
<1>2. /\ op[r].do = "save" /\ UNCHANGED <<work, stage, stored, workspace, purging, entries>>
      /\ CallOfStage(r, op[r], stage[r]) /\ op \in [Runners -> Calls] /\ entries \in [Scopes -> Entries]
      /\ staging \in [Runners -> Entries] /\ workspace \in [Runners -> Contents]
  BY DEF Stage, runnerVars, CacheInv, CacheTypes
<1>3. s \in Scopes /\ stage[r] = "saving" /\ staging[r] = NoEntry
  BY <1>1, <1>2, KeyFacts DEF CacheInv, CacheTypes, CallOfStage, StagingIsWhole
<1>4. /\ e \in Entries /\ entries' = [entries EXCEPT ![s] = e]
      /\ \A p \in Paths : e.data[p] # Nobody => Owner(e.data[p]) = <<s[1], s[2]>>
      /\ e.dir # Nobody => stage[e.dir] \in Publishing /\ Published(e.dir, stored[e.dir])
      /\ OfOneRunner(e)
      /\ e.dir # Nobody => (e.manifest # "none" /\ e.data = workspace[e.dir]) \/ Cut(s, e)
  BY <1>1, <1>2, <1>3, EntryFacts
<1>5. PICK o : /\ op' = [op EXCEPT ![r] = o]
               /\ \/ /\ o = [do |-> "open", entry |-> s, key |-> 0]
                     /\ staging' = [staging EXCEPT ![r] = [dir |-> r, manifest |-> "fresh", data |-> workspace[r]]]
                  \/ o = [do |-> "error"] /\ UNCHANGED staging
  BY <1>1 DEF Stage, Do
<1>6. o \in Calls /\ CallOfStage(r, o, stage[r])
  <2>1. o \in Calls
    BY <1>3, <1>5, CallsMade
  <2> QED
    BY <1>3, <1>5, <2>1 DEF CallOfStage
<1>7. /\ op' \in [Runners -> Calls] /\ \A q \in Runners : CallOfStage(q, op'[q], stage[q])
      /\ \A q \in Runners : op[q].do \in {"remove", "cut"} => op'[q] = op[q]
  BY <1>2, <1>5, <1>6 DEF CacheInv
<1>8. staging' \in [Runners -> Entries]
  <2>1. PICK t : t = [dir |-> r, manifest |-> "fresh", data |-> workspace[r]]
    OBVIOUS
  <2>2. t \in Entries
    BY <1>2, <2>1 DEF Entries
  <2>3. UNCHANGED staging \/ staging' = [staging EXCEPT ![r] = t]
    BY <1>5, <2>1
  <2> QED
    BY <1>2, <2>2, <2>3
<1>9. StagingIsWhole'
  <2>1. SUFFICES ASSUME NEW q \in Runners, staging'[q] # NoEntry
                 PROVE  /\ staging'[q].dir = q
                        /\ \A p \in Paths : staging'[q].data[p] \in {Nobody, workspace[q][p]}
                        /\ (staging'[q].manifest # "none" /\ staging'[q].data = workspace[q]) \/ q \in purging
                        /\ stage[q] = "killed" \/ (stage[q] = "saving" /\ op'[q].do \in {"open", "remove", "rename"})
    BY <1>2 DEF StagingIsWhole
  <2>2. CASE q = r
    BY <1>2, <1>3, <1>5, <2>1, <2>2
  <2>3. CASE q # r
    BY <1>2, <1>5, <2>1, <2>3 DEF CacheInv, StagingIsWhole
  <2> QED
    BY <2>2, <2>3
<1>10. Cut(s, e) => Cut(s, e)'
  BY <1>2, <1>7 DEF Cut
<1>11. e.dir # Nobody => (e.manifest # "none" /\ e.data = workspace[e.dir]) \/ Cut(s, e)'
  BY <1>4, <1>10
<1>12. \A q \in Runners : op[q].do \in {"remove", "cut"} /\ op[q].entry # s => op'[q] = op[q]
  BY <1>7
<1> QED
  BY <1>2, <1>3, <1>4, <1>7, <1>8, <1>9, <1>11, <1>12, EntryMoves

LEMMA RenameKeepsCache ==
  ASSUME CacheInv, RunnerInv, NEW r \in Runners, Rename(r), UNCHANGED runnerVars
  PROVE  CacheInv'
<1>1. PICK s : s = EntryOf(r, work[r].template.key)
  OBVIOUS
<1>2. /\ op[r].do = "rename" /\ UNCHANGED <<work, stage, stored, workspace, purging>>
      /\ staging' = [staging EXCEPT ![r] = NoEntry]
      /\ CallOfStage(r, op[r], stage[r]) /\ op \in [Runners -> Calls] /\ entries \in [Scopes -> Entries]
      /\ staging \in [Runners -> Entries] /\ workspace \in [Runners -> Contents]
  BY DEF Rename, runnerVars, CacheInv, CacheTypes
<1>3. /\ s \in Scopes /\ stage[r] = "saving"
      /\ s[1] = work[r].project /\ s[2] = work[r].repository
  BY <1>1, <1>2, KeyFacts DEF CacheInv, CacheTypes, CallOfStage
<1>4. PICK e, o : /\ entries' = [entries EXCEPT ![s] = e] /\ op' = [op EXCEPT ![r] = o]
                  /\ \/ staging[r] # NoEntry /\ o = [do |-> "saved"] /\ e = staging[r]
                     \/ o = [do |-> "error"] /\ e = entries[s]
  <2>1. entries = [entries EXCEPT ![s] = entries[s]]
    BY <1>2, <1>3
  <2> QED
    BY <1>1, <2>1 DEF Rename, Do
<1>5. o \in Calls /\ CallOfStage(r, o, stage[r]) /\ o.do \in {"saved", "error"}
  <2>1. o \in Calls /\ o.do \in {"saved", "error"}
    BY <1>4, CallsMade
  <2> QED
    BY <1>3, <2>1 DEF CallOfStage
<1>6. /\ op' \in [Runners -> Calls] /\ \A q \in Runners : CallOfStage(q, op'[q], stage[q])
      /\ \A q \in Runners : op[q].do \in {"remove", "cut"} => op'[q] = op[q]
  BY <1>2, <1>4, <1>5 DEF CacheInv
<1>7. staging' \in [Runners -> Entries]
  BY <1>2, NoContents
<1>8. StagingIsWhole'
  BY <1>2, <1>4, NoContents DEF CacheInv, StagingIsWhole
<1>9. CASE staging[r] # NoEntry /\ e = staging[r]
  <2>1. /\ e.dir = r /\ \A p \in Paths : e.data[p] \in {Nobody, workspace[r][p]}
        /\ (e.manifest # "none" /\ e.data = workspace[r]) \/ r \in purging
    BY <1>9 DEF CacheInv, StagingIsWhole
  <2>2. e \in Entries /\ (r \in purging => Cut(s, e)')
    BY <1>2, <1>9, <2>1 DEF Cut
  <2>3. \A p \in Paths : e.data[p] # Nobody => Owner(e.data[p]) = <<s[1], s[2]>>
    BY <1>3, <2>1 DEF CacheInv, ContentsAreOwn, Owner
  <2>4. stage[r] \in Publishing /\ Published(r, stored[r])
    BY <1>2, <1>3, CallStays DEF Publishing
  <2>5. /\ e.dir # Nobody => stage[e.dir] \in Publishing /\ Published(e.dir, stored[e.dir])
        /\ OfOneRunner(e)
        /\ e.dir # Nobody => (e.manifest # "none" /\ e.data = workspace[e.dir]) \/ Cut(s, e)'
    BY <2>1, <2>2, <2>4 DEF OfOneRunner
  <2>6. \A q \in Runners : op[q].do \in {"remove", "cut"} /\ op[q].entry # s => op'[q] = op[q]
    BY <1>6
  <2> QED
    BY <1>2, <1>3, <1>4, <1>6, <1>7, <1>8, <2>2, <2>3, <2>5, <2>6, EntryMoves
<1>10. CASE e = entries[s]
  <2>1. Cut(s, e) => Cut(s, e)'
    BY <1>2, <1>6 DEF Cut
  <2>2. /\ e \in Entries
        /\ \A p \in Paths : e.data[p] # Nobody => Owner(e.data[p]) = <<s[1], s[2]>>
        /\ e.dir # Nobody => stage[e.dir] \in Publishing /\ Published(e.dir, stored[e.dir])
        /\ OfOneRunner(e)
        /\ e.dir # Nobody => (e.manifest # "none" /\ e.data = workspace[e.dir]) \/ Cut(s, e)'
    BY <1>3, <1>10, <2>1, EntryFacts
  <2>3. \A q \in Runners : op[q].do \in {"remove", "cut"} /\ op[q].entry # s => op'[q] = op[q]
    BY <1>6
  <2> QED
    BY <1>2, <1>3, <1>4, <1>6, <1>7, <1>8, <2>2, <2>3, EntryMoves
<1> QED
  BY <1>4, <1>9, <1>10

LEMMA ExpireKeepsCache ==
  ASSUME CacheInv, NEW s \in Scopes, Expire(s), UNCHANGED runnerVars
  PROVE  CacheInv'
<1>1. PICK e, f : e = entries[s] /\ f = [e EXCEPT !.manifest = "expired"]
  OBVIOUS
<1>2. /\ e \in Entries /\ e.manifest = "fresh"
      /\ UNCHANGED <<work, stage, stored, workspace, purging, op, staging>>
  BY <1>1, EntryFacts DEF Expire, runnerVars
<1>3. e = [dir |-> e.dir, manifest |-> e.manifest, data |-> e.data]
  BY <1>2 DEF Entries
<1>4. f = [dir |-> e.dir, manifest |-> "expired", data |-> e.data]
  BY <1>1, <1>3
<1>5. f \in Entries /\ f.dir = e.dir /\ f.manifest = "expired" /\ f.data = e.data
  BY <1>2, <1>4 DEF Entries
<1>6. entries' = [entries EXCEPT ![s] = f]
  BY <1>1 DEF Expire, CacheInv, CacheTypes
<1>7. Cut(s, e) => Cut(s, f)
  BY <1>5 DEF Cut
<1>8. /\ \A p \in Paths : f.data[p] # Nobody => Owner(f.data[p]) = <<s[1], s[2]>>
      /\ f.dir # Nobody => stage[f.dir] \in Publishing /\ Published(f.dir, stored[f.dir])
      /\ OfOneRunner(f)
      /\ f.dir # Nobody => (f.manifest # "none" /\ f.data = workspace[f.dir]) \/ Cut(s, f)
  BY <1>1, <1>5, <1>7, EntryFacts DEF OfOneRunner
<1> QED
  BY <1>2, <1>5, <1>6, <1>8, EntryAlone

LEMMA PurgeKeepsCache ==
  ASSUME CacheInv, NEW d \in Runners, Purge(d), UNCHANGED runnerVars
  PROVE  CacheInv'
<1> USE SameScopes
<1>1. UNCHANGED <<work, entries, staging, workspace, op, stage, stored>> /\ purging \subseteq purging' /\ purging' \subseteq Runners
  BY DEF Purge, runnerVars, CacheInv, CacheTypes
<1>2. CacheTypes'
  BY <1>1 DEF CacheInv, CacheTypes
<1>3. \A q \in Runners : CallOfStage(q, op[q], stage[q])'
  BY <1>1 DEF CacheInv, CallOfStage
<1>4. ContentsAreOwn' /\ StagingIsWhole'
  BY <1>1 DEF CacheInv, ContentsAreOwn, StagingIsWhole, Owner
<1>5. PublishersAreDone'
  BY <1>1 DEF CacheInv, PublishersAreDone, Published, Evidenced, ProvenanceWanted, Has, Adapter, Template
<1>6. EntryIsWhole'
  BY <1>1 DEF CacheInv, EntryIsWhole, BeingRemoved
<1> QED
  BY <1>2, <1>3, <1>4, <1>5, <1>6 DEF CacheInv

LEMMA PurgeStepKeepsCache ==
  ASSUME CacheInv, PurgeStep, UNCHANGED runnerVars
  PROVE  CacheInv'
<1> USE SameScopes
<1>1. UNCHANGED <<work, workspace, op, stage, stored, purging>> /\ purging \subseteq Runners
  BY DEF PurgeStep, runnerVars, CacheInv, CacheTypes
<1>2. ASSUME NEW s \in Scopes, entries[s].dir \in purging, UNCHANGED staging,
             NEW rest \in OneLess(entries[s]), entries' = [entries EXCEPT ![s] = rest]
      PROVE  CacheInv'
  <2>1. Cut(s, entries[s])
    BY <1>2 DEF Cut
  <2> QED
    BY <1>1, <1>2, <2>1, ChildRemoved
<1>3. ASSUME NEW s \in Scopes, UNCHANGED staging, entries' = [entries EXCEPT ![s] = NoEntry]
      PROVE  CacheInv'
  BY <1>1, <1>3, NoContents, EntryAlone DEF OfOneRunner
<1>4. ASSUME NEW d \in purging, NEW rest \in Entries, staging' = [staging EXCEPT ![d] = rest], UNCHANGED entries,
             \/ rest = NoEntry
             \/ /\ staging[d] # NoEntry /\ rest.dir = staging[d].dir
                /\ \A p \in Paths : rest.data[p] \in {Nobody, staging[d].data[p]}
      PROVE  CacheInv'
  <2>1. staging \in [Runners -> Entries] /\ d \in Runners
    BY <1>1 DEF CacheInv, CacheTypes
  <2>2. CacheTypes'
    BY <1>1, <1>4, <2>1 DEF CacheInv, CacheTypes
  <2>3. \A q \in Runners : CallOfStage(q, op[q], stage[q])'
    BY <1>1, <1>4 DEF CacheInv, CallOfStage
  <2>4. StagingIsWhole'
    <3>1. SUFFICES ASSUME NEW q \in Runners, staging'[q] # NoEntry
                   PROVE  /\ staging'[q].dir = q
                          /\ \A p \in Paths : staging'[q].data[p] \in {Nobody, workspace[q][p]}
                          /\ (staging'[q].manifest # "none" /\ staging'[q].data = workspace[q]) \/ q \in purging
                          /\ stage[q] = "killed" \/ (stage[q] = "saving" /\ op[q].do \in {"open", "remove", "rename"})
      BY <1>1 DEF StagingIsWhole
    <3>2. CASE q # d
      BY <1>4, <2>1, <3>1, <3>2 DEF CacheInv, StagingIsWhole
    <3>3. CASE q = d
      <4>1. staging'[q] = rest /\ staging[q] # NoEntry
        BY <1>4, <2>1, <3>1, <3>3
      <4> QED
        BY <1>4, <3>1, <3>3, <4>1 DEF CacheInv, StagingIsWhole
    <3> QED
      BY <3>2, <3>3
  <2>5. ContentsAreOwn' /\ PublishersAreDone'
    BY <1>1, <1>4 DEF CacheInv, ContentsAreOwn, Owner, PublishersAreDone, Published, Evidenced,
                         ProvenanceWanted, Has, Adapter, Template
  <2>6. EntryIsWhole'
    BY <1>1, <1>4 DEF CacheInv, EntryIsWhole, BeingRemoved
  <2> QED
    BY <2>2, <2>3, <2>4, <2>5, <2>6 DEF CacheInv
<1>5. ASSUME NEW d \in purging, NEW rest \in OneLess(staging[d]), staging' = [staging EXCEPT ![d] = rest],
             UNCHANGED entries
      PROVE  CacheInv'
  <2>1. staging[d] \in Entries
    BY <1>1 DEF CacheInv, CacheTypes
  <2>2. /\ rest \in Entries /\ rest.dir = staging[d].dir /\ staging[d] # NoEntry
        /\ \A p \in Paths : rest.data[p] \in {Nobody, staging[d].data[p]}
    BY <2>1, <1>5, OneLessFacts
  <2> QED
    BY <1>4, <1>5, <2>2
<1>6. ASSUME NEW d \in purging, staging' = [staging EXCEPT ![d] = NoEntry], UNCHANGED entries
      PROVE  CacheInv'
  BY <1>4, <1>6, NoContents
<1> QED
  BY <1>2, <1>3, <1>5, <1>6 DEF PurgeStep

LEMMA CacheInvStep == ASSUME CacheInv, RunnerInv, [Next]_vars PROVE CacheInv'
<1>1. ASSUME NEW r \in Runners, UseCache(r) PROVE CacheInv'
  BY <1>1, ReadManifestKeepsCache, CopyPathKeepsCache, OpenKeepsCache, RemoveItemKeepsCache,
     RemoveDirectoryKeepsCache, StageKeepsCache, RenameKeepsCache DEF UseCache, CacheStep
<1>2. ASSUME NEW r \in Runners, Run(r) PROVE CacheInv'
  BY <1>1, <1>2, StagesKeepCache, PrepareCacheKeepsCache, RestoredKeepsCache, StepKeepsCache,
     SaveCacheKeepsCache, SavedKeepsCache, FinishKeepsCache, Zenon DEF Run
<1>3. CASE UNCHANGED vars
  <2>1. UNCHANGED cacheVars /\ UNCHANGED <<stage, stored>> /\ UNCHANGED work
    BY <1>3 DEF vars, runnerVars, cacheVars
  <2>2. CacheTypes' /\ \A q \in Runners : CallOfStage(q, op[q], stage[q])'
    BY <2>1, SameScopes DEF cacheVars, CacheInv, CacheTypes, CallOfStage
  <2>3. ContentsAreOwn' /\ StagingIsWhole'
    BY <2>1, SameScopes DEF cacheVars, CacheInv, ContentsAreOwn, StagingIsWhole, Owner
  <2>4. PublishersAreDone' /\ EntryIsWhole'
    BY <2>1, SameScopes DEF cacheVars, CacheInv, PublishersAreDone, Published, Evidenced, ProvenanceWanted, Has,
                            Adapter, Template, EntryIsWhole, BeingRemoved
  <2> QED
    BY <2>2, <2>3, <2>4 DEF CacheInv
<1> QED
  BY <1>2, <1>3, KillKeepsCache, ExpireKeepsCache, PurgeKeepsCache, PurgeStepKeepsCache DEF Next

(***************************************************************************)
(* The theorems.                                                           *)
(***************************************************************************)

LEMMA InitRunners == ASSUME Init PROVE RunnerInv
<1>1. RunnerTypes
  BY DEF Init, RunnerTypes, Stages
<1>2. ASSUME NEW r \in Runners PROVE Sound(r, stage[r], copy[r], stored[r])
  <2>1. PICK x : x = NewStatus
    OBVIOUS
  <2>2. /\ x.phase = "Queued" /\ x.reason = "none" /\ x.image = "unset" /\ x.conditions = {}
        /\ x.evidence = NoEvidence /\ x.artifacts = 0
    BY <2>1 DEF NewStatus
  <2>3. IsStatus(x)
    BY <2>1, <2>2, NoEvidenceFacts DEF IsStatus, NewStatus
  <2>4. objects[r] = 0 /\ stage[r] = "load" /\ copy[r] = x /\ stored[r] = x
    BY <2>1 DEF Init
  <2>5. "unset" \notin Runners /\ x.evidence["signature"] = Nobody
    BY <2>2, RunnersAssumption, NoEvidenceFacts DEF Names
  <2>6. Valid(r, x)
    BY <2>2, <2>3, <2>4, <2>5 DEF Valid
  <2>7. Progress(r, "load", x) /\ Behind(r, "load", x)
    BY <2>2 DEF Progress, Behind, Ended, Early, Unbuilt, WithSteps, WithImage, WithSBOM, WithScan, WithSignature, WithProvenance, Late
  <2> QED
    BY <2>4, <2>6, <2>7 DEF Sound
<1> QED
  BY <1>1, <1>2 DEF RunnerInv, RunnersAreSound

LEMMA InitCache == ASSUME Init PROVE CacheInv
<1>1. CacheInit /\ stage = [r \in Runners |-> "load"]
  BY DEF Init
<1>2. CacheTypes
  BY <1>1, NoContents, IdleIsFine DEF CacheInit, CacheTypes
<1>3. \A r \in Runners : CallOfStage(r, op[r], stage[r])
  BY <1>1, IdleIsFine DEF CacheInit
<1>4. ContentsAreOwn
  BY <1>1, NoContents DEF CacheInit, ContentsAreOwn, NoData
<1>5. StagingIsWhole /\ PublishersAreDone /\ EntryIsWhole
  BY <1>1, NoContents DEF CacheInit, StagingIsWhole, PublishersAreDone, EntryIsWhole
<1> QED
  BY <1>2, <1>3, <1>4, <1>5 DEF CacheInv

\* The inductive invariant: what a runner has in memory and in the cluster is
\* what its stage has earned, the volume holds whole directories of runners that
\* are past their build, and the login is there while the image is pushed.
THEOREM Invariance == Spec => []Inv
<1>1. Init => Inv
  <2>1. Init => LoginLastsForTheBuild
    BY DEF Init, LoginLastsForTheBuild
  <2> QED
    BY <2>1, InitRunners, InitCache DEF Inv
<1>2. Inv /\ [Next]_vars => Inv'
  BY RunnerInvStep, CacheInvStep, LoginStep DEF Inv
<1> QED
  BY <1>1, <1>2, PTL DEF Spec

\* The statuses, the registry and the calls of the cache keep their types: a
\* failure has a reason, and only what was pushed is signed (internal/runner).
THEOREM TypeCorrect == Spec => []TypeOK
<1>1. Inv => TypeOK
  <2>1. SUFFICES ASSUME Inv PROVE TypeOK
    OBVIOUS
  <2>2. ASSUME NEW r \in Runners, NEW x, x \in {copy[r], stored[r]}
        PROVE  /\ x.phase \in {"Queued", "Running", "Succeeded", "Failed"}
               /\ x.phase = "Failed" <=> x.reason # "none"
               /\ x.image \in {"unset", "tag"} \cup Runners
               /\ \A name \in DOMAIN NoEvidence : x.evidence[name] \in Runners \cup {Nobody, "tag"}
    <3>1. Valid(r, x)
      BY <2>1, <2>2, AtStage DEF Inv
    <3> QED
      BY <3>1, NoEvidenceFacts DEF Valid, IsStatus
  <2>3. /\ stage \in [Runners -> Stages] /\ registry \in [Images -> Runners \cup {Nobody}]
        /\ signed \subseteq pushed /\ pushed \subseteq Runners
    BY <2>1 DEF Inv, RunnerInv, RunnerTypes
  <2>4. \A s \in Scopes : entries[s].dir \in Runners \cup {Nobody}
    BY <2>1, EntryFacts DEF Inv, Entries
  <2>5. ASSUME NEW r \in Runners, op[r].do # "idle" PROVE stage[r] \in {"restoring", "saving", "killed"}
    BY <2>1, <2>5, NoCall DEF Inv
  <2> QED
    BY <2>2, <2>3, <2>4, <2>5 DEF TypeOK
<1> QED
  BY <1>1, Invariance, PTL

\* Nothing a runner restores, whatever restore key finds it, comes from another
\* project or repository (LocalStore.Restore, ScopeKey), whoever saves, expires
\* or purges entries at the same time.
THEOREM CacheIsolation == Spec => []ScopeIsolated
<1>1. Inv => ScopeIsolated
  BY DEF Inv, CacheInv, ContentsAreOwn, ScopeIsolated, Owner
<1> QED
  BY <1>1, Invariance, PTL

\* The evidence stored with a digest is evidence of that digest, although other
\* runners push the same tag between the build and the hooks (imageReference).
THEOREM EvidenceIsOfTheDigest == Spec => []EvidenceOfTheImage
<1>1. Inv => EvidenceOfTheImage
  <2>1. SUFFICES ASSUME Inv, NEW r \in Runners, stored[r].image \in Runners
                 PROVE  \A name \in DOMAIN NoEvidence : stored[r].evidence[name] \in {Nobody, stored[r].image}
    BY DEF EvidenceOfTheImage
  <2>2. Valid(r, stored[r])
    BY <2>1, AtStage DEF Inv
  <2> QED
    BY <2>1, <2>2, NoEvidenceFacts DEF Valid
<1> QED
  BY <1>1, Invariance, PTL

\* No stored status claims more than was done, and a BuildRun that succeeded has
\* all that its template asks for, whatever failed or was killed on the way
\* (updateStatus, MarkBuildRunFailed, MarkBuildRunSucceeded).
THEOREM StatusesAreBacked == Spec => []StatusIsBacked
<1>1. Inv => StatusIsBacked
  <2>1. SUFFICES ASSUME Inv, NEW r \in Runners
                 PROVE  /\ "ImagePushed" \in stored[r].conditions => r \in pushed
                        /\ stored[r].evidence.signature # Nobody => stored[r].evidence.signature \in signed
                        /\ stored[r].artifacts <= objects[r]
                        /\ stored[r].phase = "Succeeded" => Backed(r, stored[r])
    BY DEF StatusIsBacked, StoredIsTrue, SucceededIsBacked
  <2>2. Valid(r, stored[r])
    BY <2>1, AtStage DEF Inv
  <2> QED
    BY <2>2 DEF Valid
<1> QED
  BY <1>1, Invariance, PTL

\* A snapshot is published only by a BuildRun whose steps, image and hooks have
\* all succeeded and are stored (CacheStore.Save comes last in Runner.Run).
THEOREM OnlySuccessIsCached == Spec => []SnapshotsOfSuccess
<1>1. Inv => SnapshotsOfSuccess
  BY DEF Inv, CacheInv, PublishersAreDone, Published, SnapshotsOfSuccess
<1> QED
  BY <1>1, Invariance, PTL

\* A published entry is the snapshot of one runner, never a mixture of two, and all
\* of it, except while it is being removed and after a pod was killed while it
\* removed it (LocalStore.Save).
THEOREM EntriesAreWhole == Spec => []EntryIsWhole
<1>1. Inv => EntryIsWhole
  BY DEF Inv, CacheInv
<1> QED
  BY <1>1, Invariance, PTL

\* The Docker config is there when the image is pushed, and whatever ends the
\* runner later removes it; only a config that could not be written to the end
\* stays (the deferred os.RemoveAll of Runner.Run comes after WriteDockerConfig).
THEOREM LoginLasts == Spec => []LoginLastsForTheBuild
<1>1. Inv => LoginLastsForTheBuild
  BY DEF Inv
<1> QED
  BY <1>1, Invariance, PTL
=============================================================================
