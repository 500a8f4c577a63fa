--------------------------- MODULE PipelineRunner ---------------------------
(***************************************************************************)
(* The runner (internal/runner): the stages a runner pod takes a BuildRun  *)
(* through, from the clone to the stored outcome, with the image builder   *)
(* (internal/build), the supply-chain adapters (internal/supplychain), the *)
(* steps, the logs, the artifacts and the dependency cache.  Several       *)
(* runners work at the same time; they share the registry and the cache.   *)
(*                                                                         *)
(* The digest of the image a runner builds is the runner.  A reference to  *)
(* an image by tag means what the tag points to when it is used.  Commands *)
(* and services may fail at any call, and a pod may be killed between any  *)
(* two steps; an error of the status update ends the runner, too.          *)
(***************************************************************************)
EXTENDS DependencyCache, BuildInputs

CONSTANTS
  MaxLogBytes,         \* PROJECT_MAX_LOG_SIZE, 0 for none
  MaxArtifactsBytes,   \* PROJECT_MAX_ARTIFACTS_SIZE, 0 for none; a file counts 1
  OutputSizes,         \* how much a step may write
  FileCounts           \* how many files the artifact patterns may match

ASSUME SizesAssumption ==
  {MaxLogBytes, MaxArtifactsBytes} \cup OutputSizes \cup FileCounts \subseteq Nat

\* What the API server admits as a PipelineTemplate, reduced to what a runner
\* uses: some steps or an image, and a registry cache only with an image.
Templates ==
  {t \in [cache : {"disabled", "unset", "pvc", "registry", "object-storage"}, key : STRING, restoreKeys : Seq(STRING),
          steps : Seq([continueOnError : BOOLEAN]), artifacts : {"none", "optional", "required"},
          build : BOOLEAN, push : BOOLEAN, context : {"dir", "file", "missing", "outside"},
          dockerfile : {"dir", "file", "missing", "outside"},
          buildCache : [enabled : BOOLEAN, mode : {"inline", "registry", "local"}, ref : BOOLEAN],
          generateSBOM : BOOLEAN, scanImage : BOOLEAN, signImage : BOOLEAN,
          adapters : [{"sbom", "scan", "signature", "provenance"} -> {"noop", "syft", "grype", "cosign", "json"}]] :
     /\ t.steps # <<>> \/ t.build
     /\ t.cache = "registry" => t.build
     /\ t.buildCache.enabled => t.buildCache.mode = "inline" \/ t.buildCache.ref}

ASSUME WorksAssumption == \A w \in Works, r \in Runners : w[r].template \in Templates

\* No runner goes by one of the two words for an image without a digest.
ASSUME RunnersAssumption == {"unset", "tag"} \cap Runners = {}

VARIABLES
  stage,      \* where each runner is
  copy,       \* the status in the runner's memory
  stored,     \* the status the cluster holds
  registry,   \* the digest each tag of an image points to
  pushed,     \* the digests the registry holds
  signed,     \* the digests that have a signature
  logs,       \* the bytes the steps wrote, and those the log store keeps
  objects,    \* how many artifacts of each BuildRun the store holds
  logins      \* the runners that have a Docker config, or a part, in their workspace

runnerVars == <<stage, copy, stored, registry, pushed, signed, logs, objects, logins>>
vars == <<cacheVars, runnerVars>>

Template(r) == work[r].template

\* What the Job tells the runner of its Project and of the stores; a cache on a
\* volume only when the controller has a claim for it.
runnerEnv(r) ==
  LET mode == Template(r).cache
  IN  [provider |-> work[r].registry.provider,
       prefix |-> IF work[r].registry.prefix = <<>> THEN work[r].defaultRegistry ELSE work[r].registry.prefix,
       secret |-> work[r].registry.secret,
       complete |-> work[r].complete,
       logStore |-> work[r].logStore,
       artifactStore |-> work[r].artifactStore,
       cacheStore |-> CASE mode = "pvc" /\ work[r].claim -> "local"
                        [] mode = "object-storage"      -> "object"
                        [] OTHER                        -> "none"]

\* Where the image goes: as the BuildRun says, or as the registry resolves it.
Image(r) ==
  LET env == runnerEnv(r)
  IN  IF env.provider = "" THEN work[r].image ELSE ResolveImage(env.provider, env.prefix, work[r].image)

Images == {Image(r) : r \in Runners}

\* The adapters the runner knows; any other name is no adapter.
Adapter(r, name) ==
  LET tool == [sbom |-> "syft", scan |-> "grype", signature |-> "cosign", provenance |-> "json"]
  IN  IF Template(r).adapters[name] = tool[name] THEN "tool" ELSE "noop"

NoEvidence == [sbom |-> Nobody, scan |-> Nobody, signature |-> Nobody, provenance |-> Nobody]
NewStatus ==
  [phase |-> "Queued", reason |-> "none", image |-> "unset", conditions |-> {},
   evidence |-> NoEvidence, artifacts |-> 0]
Ended == {"done", "stopped", "killed"}

Init ==
  /\ CacheInit
  /\ stage = [r \in Runners |-> "load"]
  /\ copy = [r \in Runners |-> NewStatus]
  /\ stored = [r \in Runners |-> NewStatus]
  /\ registry = [i \in Images |-> Nobody]
  /\ pushed = {}
  /\ signed = {}
  /\ logs = [r \in Runners |-> [step |-> 1, written |-> 0, kept |-> 0]]
  /\ objects = [r \in Runners |-> 0]
  /\ logins = {}

(***************************************************************************)
(* How a stage ends.                                                       *)
(***************************************************************************)

\* Mutant of Goto: the Docker config is removed by the failures only.
GotoKeepingLogin(r, next) ==
  /\ stage' = [stage EXCEPT ![r] = next]
  /\ logins' = IF next = "done" /\ copy'[r].phase = "Failed" THEN logins \ {r} ELSE logins

\* The runner goes on, or returns, which removes the Docker config.
Goto(r, next) ==
  /\ stage' = [stage EXCEPT ![r] = next]
  /\ logins' = IF next \in Ended THEN logins \ {r} ELSE logins

\* The stage changes the copy only.
Keep(r, status, next) ==
  /\ copy' = [copy EXCEPT ![r] = status]
  /\ Goto(r, next)
  /\ UNCHANGED stored

\* updateStatus: an error of the update is returned, and the pod ends.
Store(r, status, next) ==
  /\ copy' = [copy EXCEPT ![r] = status]
  /\ \/ stored' = [stored EXCEPT ![r] = status] /\ Goto(r, next)
     \/ UNCHANGED stored /\ Goto(r, "stopped")

\* Mutant of fail: the reason is only logged.
failSilently(r, status, reason) == Store(r, [status EXCEPT !.phase = "Failed"], "done")

\* fail: MarkBuildRunFailed, then updateStatus.
fail(r, status, reason) == Store(r, [status EXCEPT !.phase = "Failed", !.reason = reason], "done")

With(status, condition) == [status EXCEPT !.conditions = @ \cup {condition}]

(***************************************************************************)
(* From the start to the source tree.                                      *)
(***************************************************************************)

\* The required settings are there, the sizes can be read, and each store that
\* is named is known.  A remote one (object, loki, oci) refuses every call.
ConfigFromEnv(env) ==
  env.complete /\ {env.logStore, env.artifactStore} \subseteq {"none", "local", "remote"}

\* Without its configuration, a client or the BuildRun a runner leaves no trace.
Load(r) ==
  /\ stage[r] = "load"
  /\ \/ ConfigFromEnv(runnerEnv(r)) /\ Keep(r, copy[r], "start")
     \/ Keep(r, copy[r], "stopped")
     \/ /\ ConfigFromEnv(runnerEnv(r))
        /\ \E reason \in {"RepositoryLoadFailed", "PipelineTemplateLoadFailed"} : fail(r, copy[r], reason)
  /\ UNCHANGED <<cacheVars, registry, pushed, signed, logs, objects>>

Start(r) ==
  /\ stage[r] = "start"
  /\ \/ runnerEnv(r).logStore # "none" /\ fail(r, copy[r], "LogStoreWriteFailed")
     \/ runnerEnv(r).logStore # "remote" /\ Store(r, [copy[r] EXCEPT !.phase = "Running"], "clone")
  /\ UNCHANGED <<cacheVars, registry, pushed, signed, logs, objects>>

Clone(r) ==
  /\ stage[r] = "clone"
  /\ \/ Keep(r, copy[r], "cache")
     \/ fail(r, copy[r], "RepositoryFailed")
  /\ UNCHANGED <<cacheVars, registry, pushed, signed, logs, objects>>

Snapshots(t) == t.cache \in {"pvc", "object-storage"}

PrepareCache(r) ==
  LET mode == Template(r).cache
      store == runnerEnv(r).cacheStore
  IN  /\ stage[r] = "cache"
      /\ \/ mode = "disabled" /\ Keep(r, copy[r], "cloned") /\ UNCHANGED op
         \/ /\ mode = "registry" /\ UNCHANGED op
            /\ IF work[r].image = <<>> THEN fail(r, copy[r], "CacheConfigurationInvalid")
               ELSE Keep(r, With(copy[r], "CacheRestored"), "cloned")
         \/ /\ Snapshots(Template(r)) /\ store = "local"
            /\ Keep(r, copy[r], "restoring")
            /\ TryKey(r, 1)
         \/ /\ Snapshots(Template(r)) /\ store # "local"
            /\ fail(r, copy[r], IF store = "none" THEN "CacheUnavailable" ELSE "CacheRestoreFailed")
            /\ UNCHANGED op
         \/ mode = "unset" /\ fail(r, copy[r], "CacheConfigurationInvalid") /\ UNCHANGED op
      /\ UNCHANGED <<work, entries, staging, workspace, purging, registry, pushed, signed, logs, objects>>

Restored(r) ==
  /\ stage[r] = "restoring" /\ op[r].do \in {"hit", "miss", "error"}
  /\ CASE op[r].do = "hit"  -> Keep(r, With(copy[r], "CacheRestored"), "cloned")
       [] op[r].do = "miss" -> Keep(r, copy[r], "cloned")
       [] OTHER             -> fail(r, copy[r], "CacheRestoreFailed")
  /\ Do(r, Idle)
  /\ UNCHANGED <<work, entries, staging, workspace, purging, registry, pushed, signed, logs, objects>>

Cloned(r) ==
  /\ stage[r] = "cloned"
  /\ Store(r, With(copy[r], "RepositoryCloned"), "steps")
  /\ UNCHANGED <<cacheVars, registry, pushed, signed, logs, objects>>

(***************************************************************************)
(* Steps and artifacts.                                                    *)
(***************************************************************************)

\* Output over the limit is not stored, and is an error of the step.
Observe(log, size) ==
  IF MaxLogBytes > 0 /\ log.written + size > MaxLogBytes
  THEN [log EXCEPT !.written = @ + size]
  ELSE [log EXCEPT !.written = @ + size, !.kept = @ + size]

\* A step writes output, may write the cached paths, and ends well or not; with
\* continueOnError its errors are passed over, those of the log store too.
Step(r) ==
  LET i == logs[r].step
      step == Template(r).steps[i]
  IN  /\ stage[r] = "steps" /\ i <= Len(Template(r).steps)
      /\ \E size \in (IF runnerEnv(r).logStore # "none" THEN OutputSizes ELSE {0}), ok \in BOOLEAN,
            written \in {{}, Paths} :
           LET log == Observe(logs[r], size)
               failed == ~ok \/ log.kept # logs[r].kept + size
           IN  /\ workspace' = [workspace EXCEPT ![r] = [p \in Paths |-> IF p \in written THEN r ELSE @[p]]]
               /\ logs' = [logs EXCEPT ![r] = [log EXCEPT !.step = i + 1]]
               /\ IF failed /\ ~step.continueOnError
                  THEN fail(r, copy[r], "StepFailed")
                  ELSE UNCHANGED <<stage, copy, stored, logins>>
      /\ UNCHANGED <<work, entries, staging, op, purging, registry, pushed, signed, objects>>

\* The files are uploaded one by one until the limit, or an upload, fails: what
\* was uploaded before remains.
uploaded(store, files) ==
  IF store = "remote" THEN 0
  ELSE IF MaxArtifactsBytes > 0 /\ files > MaxArtifactsBytes THEN MaxArtifactsBytes
  ELSE files

\* The patterns match some files, of which the first n are uploaded before one
\* fails: it is protected, outside the source tree, or over a limit.
collectArtifacts(r) ==
  \E files \in FileCounts : \E n \in 0 .. uploaded(runnerEnv(r).artifactStore, files) :
    /\ objects' = [objects EXCEPT ![r] = n]
    /\ IF n < files \/ (files = 0 /\ Template(r).artifacts = "required")
       THEN fail(r, With(copy[r], "StepsCompleted"), "ArtifactCollectionFailed")
       ELSE Store(r, [With(copy[r], "StepsCompleted") EXCEPT !.artifacts = n], "build")

StepsDone(r) ==
  /\ stage[r] = "steps" /\ logs[r].step > Len(Template(r).steps)
  /\ IF runnerEnv(r).artifactStore # "none" /\ Template(r).artifacts # "none"
     THEN collectArtifacts(r)
     ELSE Store(r, With(copy[r], "StepsCompleted"), "build") /\ UNCHANGED objects
  /\ UNCHANGED <<cacheVars, registry, pushed, signed, logs>>

(***************************************************************************)
(* The image.                                                              *)
(***************************************************************************)

\* Mutant of StartBuild: the snapshot is published before the image is built.
StartBuildAfterSave(r) ==
  /\ stage[r] = "build"
  /\ IF Template(r).build /\ ~Snapshots(Template(r))
     THEN Store(r, With(copy[r], "ImageBuildStarted"), "prepare")
     ELSE Keep(r, copy[r], "save")
  /\ UNCHANGED <<cacheVars, registry, pushed, signed, logs, objects>>

StartBuild(r) ==
  /\ stage[r] = "build"
  /\ IF Template(r).build
     THEN Store(r, With(copy[r], "ImageBuildStarted"), "prepare")
     ELSE Keep(r, copy[r], "save")
  /\ UNCHANGED <<cacheVars, registry, pushed, signed, logs, objects>>

\* WriteDockerConfig fails, and what it has written of the file remains: the
\* removal is deferred after the call.
WriteFails(r) ==
  LET failed == [copy[r] EXCEPT !.phase = "Failed", !.reason = "RegistryCredentialsInvalid"]
  IN  /\ copy' = [copy EXCEPT ![r] = failed]
      /\ \/ stored' = [stored EXCEPT ![r] = failed] /\ stage' = [stage EXCEPT ![r] = "done"]
         \/ UNCHANGED stored /\ stage' = [stage EXCEPT ![r] = "stopped"]
      /\ logins' \in {logins, logins \cup {r}}

\* The build context, the registry, and for a push the Docker config of its
\* login.
PrepareBuild(r) ==
  LET t == Template(r)
      env == runnerEnv(r)
      reason == ResolveContextDir(t.context)
                  ?? RegistryChecks(env.provider, env.prefix, env.secret, work[r].image, t.push)
      login == env.provider # "" /\ t.push
  IN  /\ stage[r] = "prepare"
      /\ \/ reason # "ok" /\ fail(r, copy[r], reason)
         \/ reason = "ok" /\ ~login /\ Keep(r, copy[r], "buildkit")
         \/ reason = "ok" /\ login /\ WriteFails(r)
         \/ /\ reason = "ok" /\ login
            /\ stage' = [stage EXCEPT ![r] = "buildkit"]
            /\ logins' = logins \cup {r}
            /\ UNCHANGED <<copy, stored>>
      /\ UNCHANGED <<cacheVars, registry, pushed, signed, logs, objects>>

Push(r) ==
  /\ registry' = [registry EXCEPT ![Image(r)] = r]
  /\ pushed' = pushed \cup {r}

\* What is recorded of a build: a build that is not pushed may have no digest.
Built(r, digest) ==
  [copy[r] EXCEPT !.image = digest,
                  !.conditions = @ \cup {"ImageBuilt"}
                                   \cup (IF Template(r).push THEN {"ImagePushed"} ELSE {})
                                   \cup (IF digest = "tag" THEN {} ELSE {"ImageDigestCaptured"})]

\* Mutant of Build: the image is recorded while it is built.
BuildEarly(r) ==
  /\ stage[r] = "buildkit"
  /\ \/ UNCHANGED <<registry, pushed>> /\ fail(r, Built(r, r), "ImageBuildFailed")
     \/ /\ IF Template(r).push THEN Push(r) ELSE UNCHANGED <<registry, pushed>>
        /\ Store(r, Built(r, r), "sbom")
  /\ UNCHANGED <<cacheVars, signed, logs, objects>>

\* A registry cache takes the place of the cache the template sets for the build.
BuildCache(t) ==
  IF t.cache = "registry" THEN [enabled |-> TRUE, mode |-> "registry", ref |-> TRUE] ELSE t.buildCache

\* buildctl may be missing, fail, or be stopped by its timeout, before or after
\* the push; an image that was pushed without a digest is a failure.
Build(r) ==
  LET t == Template(r)
      reason == validateBuildRequest(
                  [image |-> Image(r), context |-> t.context, dockerfile |-> t.dockerfile, cache |-> BuildCache(t)])
  IN  /\ stage[r] = "buildkit"
      /\ \/ /\ UNCHANGED <<registry, pushed>>
            /\ IF reason # "ok" THEN fail(r, copy[r], reason)
               ELSE \E failure \in {"BuildKitUnavailable", "ImageBuildFailed"} : fail(r, copy[r], failure)
         \/ /\ reason = "ok"
            /\ IF t.push THEN Push(r) ELSE UNCHANGED <<registry, pushed>>
            /\ \/ t.push /\ fail(r, copy[r], "ImageBuildFailed")
               \/ \E digest \in {readBuildKitDigest(metadata) : metadata \in Metadata} :
                    IF digest = "invalid" \/ (t.push /\ digest = "none")
                    THEN fail(r, copy[r], "ImageDigestCaptureFailed")
                    ELSE Store(r, Built(r, IF digest = "none" THEN "tag" ELSE r), "sbom")
      /\ UNCHANGED <<cacheVars, signed, logs, objects>>

(***************************************************************************)
(* The supply-chain hooks.                                                 *)
(***************************************************************************)

\* Mutant of imageReference: an image goes by its tag.
imageReferenceTag(r) == registry[Image(r)]

\* What the tools find under repository@digest, or repository:tag.
imageReference(r) == IF copy[r].image = "tag" THEN registry[Image(r)] ELSE copy[r].image

\* A tool that is not configured (noop) returns nothing; one that is works on
\* the image the registry holds, or fails the BuildRun.
Hook(r, name, wanted, next, reason) ==
  IF ~wanted \/ Adapter(r, name) = "noop"
  THEN Keep(r, copy[r], next)
  ELSE \/ fail(r, copy[r], reason)
       \/ /\ imageReference(r) \in pushed
          /\ Keep(r, [copy[r] EXCEPT !.evidence[name] = imageReference(r)], next)

\* Mutant of GenerateSBOM: an image whose tool fails goes without.
GenerateSBOMOptional(r) ==
  /\ stage[r] = "sbom"
  /\ Keep(r, copy[r], "scan")
  /\ UNCHANGED <<cacheVars, registry, pushed, signed, logs, objects>>

GenerateSBOM(r) ==
  /\ stage[r] = "sbom"
  /\ Hook(r, "sbom", Template(r).generateSBOM, "scan", "SBOMGenerationFailed")
  /\ UNCHANGED <<cacheVars, registry, pushed, signed, logs, objects>>

ScanImage(r) ==
  /\ stage[r] = "scan"
  /\ Hook(r, "scan", Template(r).scanImage, "sign", "ImageScanFailed")
  /\ UNCHANGED <<cacheVars, registry, pushed, signed, logs, objects>>

SignImage(r) ==
  /\ stage[r] = "sign"
  /\ Hook(r, "signature", Template(r).signImage, "provenance", "ImageSigningFailed")
  /\ signed' = IF copy'[r].evidence.signature = Nobody THEN signed ELSE signed \cup {imageReference(r)}
  /\ UNCHANGED <<cacheVars, registry, pushed, logs, objects>>

ProvenanceWanted(r, status) ==
  LET t == Template(r) IN t.generateSBOM \/ t.scanImage \/ t.signImage \/ status.image # "tag"

\* The provenance names the digest the builder returned.
WriteProvenance(r) ==
  LET wanted == ProvenanceWanted(r, copy[r])
  IN  /\ stage[r] = "provenance"
      /\ \/ /\ wanted /\ Adapter(r, "provenance") = "tool"
            /\ \/ Keep(r, [copy[r] EXCEPT !.evidence.provenance = copy[r].image], "hooked")
               \/ fail(r, copy[r], "ProvenanceWriteFailed")
         \/ (~wanted \/ Adapter(r, "provenance") = "noop") /\ Keep(r, copy[r], "hooked")
      /\ UNCHANGED <<cacheVars, registry, pushed, signed, logs, objects>>

Hooked(r) ==
  /\ stage[r] = "hooked"
  /\ Store(r, IF copy[r].evidence = NoEvidence THEN copy[r] ELSE With(copy[r], "SupplyChainReady"), "save")
  /\ UNCHANGED <<cacheVars, registry, pushed, signed, logs, objects>>

(***************************************************************************)
(* The end.                                                                *)
(***************************************************************************)

\* cacheStore is "local" here: the restore has failed otherwise.
SaveCache(r) ==
  /\ stage[r] = "save"
  /\ IF Snapshots(Template(r))
     THEN Keep(r, copy[r], "saving") /\ Do(r, [do |-> "save"])
     ELSE Keep(r, copy[r], "finish") /\ UNCHANGED op
  /\ UNCHANGED <<work, entries, staging, workspace, purging, registry, pushed, signed, logs, objects>>

Saved(r) ==
  /\ stage[r] = "saving" /\ op[r].do \in {"saved", "error"}
  /\ IF op[r].do = "saved"
     THEN Store(r, With(copy[r], "CacheSaved"), "finish")
     ELSE fail(r, copy[r], "CacheSaveFailed")
  /\ Do(r, Idle)
  /\ UNCHANGED <<work, entries, staging, workspace, purging, registry, pushed, signed, logs, objects>>

Finish(r) ==
  /\ stage[r] = "finish"
  /\ \/ runnerEnv(r).logStore # "none" /\ fail(r, copy[r], "LogStoreWriteFailed")
     \/ Store(r, [copy[r] EXCEPT !.phase = "Succeeded", !.image = IF @ = "unset" THEN "tag" ELSE @], "done")
  /\ UNCHANGED <<cacheVars, registry, pushed, signed, logs, objects>>

(***************************************************************************)
(* The specification.                                                      *)
(***************************************************************************)

\* The calls of the cache are made at two stages.
UseCache(r) ==
  /\ stage[r] \in {"restoring", "saving"}
  /\ CacheStep(r)
  /\ UNCHANGED runnerVars

\* The pod is deleted, evicted, or over its deadline; the Job does not retry.
\* The deferred removals of the staging directory and the Docker config do not run.
Kill(r) ==
  /\ stage[r] \notin Ended
  /\ stage' = [stage EXCEPT ![r] = "killed"]
  /\ Do(r, IF op[r].do = "remove" THEN [op[r] EXCEPT !.do = "cut"] ELSE Idle)
  /\ UNCHANGED <<work, entries, staging, workspace, purging, copy, stored, registry, pushed, signed, logs, objects, logins>>

Run(r) ==
  \/ Load(r) \/ Start(r) \/ Clone(r) \/ PrepareCache(r) \/ UseCache(r) \/ Restored(r) \/ Cloned(r)
  \/ Step(r) \/ StepsDone(r)
  \/ StartBuild(r) \/ PrepareBuild(r) \/ Build(r)
  \/ GenerateSBOM(r) \/ ScanImage(r) \/ SignImage(r) \/ WriteProvenance(r) \/ Hooked(r)
  \/ SaveCache(r) \/ Saved(r) \/ Finish(r)

Next ==
  \/ \E r \in Runners : Run(r) \/ Kill(r)
  \/ \E s \in Scopes : Expire(s) /\ UNCHANGED runnerVars
  \/ \E d \in Runners : Purge(d) /\ UNCHANGED runnerVars
  \/ PurgeStep /\ UNCHANGED runnerVars

Spec == Init /\ [][Next]_vars

\* A pod that is not killed goes on: git and the tools end, the steps and the
\* build at their timeouts, and the pod at the deadline of its Job.
FairSpec == Spec /\ \A r \in Runners : WF_vars(Run(r))

(***************************************************************************)
(* Properties.                                                             *)
(***************************************************************************)

Stages ==
  {"load", "start", "clone", "cache", "restoring", "cloned", "steps", "build", "prepare", "buildkit", "sbom",
   "scan", "sign", "provenance", "hooked", "save", "saving", "finish"} \cup Ended

\* Types, and what they rule out: a failure has a reason, only what is in the
\* registry is signed, and the cache is used at its two stages only.
TypeOK ==
  /\ stage \in [Runners -> Stages]
  /\ \A status \in {copy[r] : r \in Runners} \cup {stored[r] : r \in Runners} :
       /\ status.phase \in {"Queued", "Running", "Succeeded", "Failed"}
       /\ status.phase = "Failed" <=> status.reason # "none"
       /\ status.image \in {"unset", "tag"} \cup Runners
       /\ \A name \in DOMAIN NoEvidence : status.evidence[name] \in Runners \cup {Nobody, "tag"}
  /\ registry \in [Images -> Runners \cup {Nobody}]
  /\ signed \subseteq pushed /\ pushed \subseteq Runners
  /\ \A s \in Scopes : entries[s].dir \in Runners \cup {Nobody}
  /\ \A r \in Runners : op[r].do # "idle" => stage[r] \in {"restoring", "saving", "killed"}

\* Nothing a runner restores, whatever restore key finds it, comes from another
\* project or repository.
ScopeIsolated ==
  \A r \in Runners, p \in Paths :
    LET author == workspace[r][p]
    IN  author # Nobody => <<work[author].project, work[author].repository>> = <<work[r].project, work[r].repository>>

\* The evidence stored with a digest is evidence of that digest, although another
\* runner may push the same tag between the build and each of the hooks.
EvidenceOfTheImage ==
  \A r \in Runners : stored[r].image \in Runners =>
    \A name \in DOMAIN NoEvidence : stored[r].evidence[name] \in {Nobody, stored[r].image}

\* What a stored status claims has happened, also when a later stage failed, the
\* pod was killed or the claim is that of a failed BuildRun.
StoredIsTrue ==
  \A r \in Runners :
    /\ "ImagePushed" \in stored[r].conditions => r \in pushed
    /\ stored[r].evidence.signature # Nobody => stored[r].evidence.signature \in signed
    /\ stored[r].artifacts <= objects[r]

Has(r, status, name) == Adapter(r, name) = "tool" => status.evidence[name] # Nobody

\* A status has all the template of the BuildRun asks for.
Backed(r, status) ==
  LET t == Template(r)
  IN  /\ t.build /\ t.push => status.image = r /\ r \in pushed
      /\ t.build /\ t.generateSBOM => Has(r, status, "sbom")
      /\ t.build /\ t.scanImage => Has(r, status, "scan")
      /\ t.build /\ t.signImage => Has(r, status, "signature")
      /\ runnerEnv(r).artifactStore # "none" /\ t.artifacts = "required" => status.artifacts > 0
      /\ Snapshots(t) => "CacheSaved" \in status.conditions

\* A BuildRun succeeds only with all its template asks for.
SucceededIsBacked == \A r \in Runners : stored[r].phase = "Succeeded" => Backed(r, stored[r])

\* No status claims more than was done, neither one of a BuildRun on its way nor one of
\* a BuildRun that succeeded.
StatusIsBacked == StoredIsTrue /\ SucceededIsBacked

\* The evidence of the hooks the template asks for, and the provenance of an
\* image that has any or a digest.
Evidenced(r, status) ==
  LET t == Template(r)
  IN  /\ t.generateSBOM => Has(r, status, "sbom")
      /\ t.scanImage => Has(r, status, "scan")
      /\ t.signImage => Has(r, status, "signature")
      /\ ProvenanceWanted(r, status) => Has(r, status, "provenance")

\* A snapshot is published only by a BuildRun whose steps, image and hooks have
\* all succeeded and are stored.
SnapshotsOfSuccess ==
  \A s \in Scopes : entries[s].dir # Nobody =>
    LET b == entries[s].dir
    IN  /\ "StepsCompleted" \in stored[b].conditions
        /\ Template(b).build => "ImageBuilt" \in stored[b].conditions /\ Evidenced(b, stored[b])

BeingRemoved(s) ==
  \/ \E r \in Runners : op[r].do = "remove" /\ op[r].entry = s /\ op[r].dir = entries[s].dir
  \/ entries[s].dir \in purging

\* A published entry holds nothing but the snapshot of one runner, never a mixture
\* of two, and it holds all of it, except one that is being removed, by a runner or
\* by a purge that may have found it in the staging directory already, and what a
\* pod that was killed while it removed it left.
EntryIsWhole ==
  \A s \in Scopes : entries[s].dir # Nobody =>
    /\ \A p \in Paths : entries[s].data[p] \in {Nobody, workspace[entries[s].dir][p]}
    /\ \/ entries[s].manifest # "none" /\ entries[s].data = workspace[entries[s].dir]
       \/ BeingRemoved(s)
       \/ \E r \in Runners : op[r].do = "cut" /\ op[r].entry = s /\ op[r].dir = entries[s].dir

\* The login of the registry is there when the image is pushed, and whatever ends
\* the runner later, a failed stage or a status that cannot be stored, removes it.
\* Only a pod that is killed takes the file with it, and one that could not write
\* it to the end, which has failed for that reason.
LoginLastsForTheBuild ==
  \A r \in Runners :
    /\ stage[r] = "buildkit" /\ Template(r).push /\ runnerEnv(r).provider # "" => r \in logins
    /\ stage[r] \in {"done", "stopped"} /\ r \in logins => copy[r].reason = "RegistryCredentialsInvalid"

\* A runner ends with an outcome in the cluster, unless it was stopped.
EveryRunnerEnds ==
  <>(\A r \in Runners : stage[r] \in {"stopped", "killed"} \/ stored[r].phase \in {"Succeeded", "Failed"})
=============================================================================
