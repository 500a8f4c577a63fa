----------------------------- MODULE PolicyRules -----------------------------
(***************************************************************************)
(* The default policy evaluator (internal/policy/policy.go): the set of    *)
(* policies an operation violates; it is allowed when there is none.       *)
(* Messages and field paths are left out.                                  *)
(***************************************************************************)
EXTENDS Naturals

knownRepositoryProvider(p) == p \in {"github", "gitlab", "gitea", "generic"}

knownGitOpsProvider(p) == p \in {"argocd", "flux", "generic"}

knownBuilder(b) == b \in {"buildkit", "buildah", "none"}

If(policy, violated) == IF violated THEN {policy} ELSE {}

\* A template: privileged, build (enabled), builder, secrets (a step or the
\* signing key refers to a Secret) and, for each step, what its command, image
\* and working directory mention.
EvaluatePipelineTemplate(template, secretUseAuthorized) ==
  If("RunnerPrivilegedForbidden", template.privileged)
    \cup If("UnknownProviderForbidden", template.build /\ ~knownBuilder(template.builder))
    \cup If("CanUseSecret", template.secrets /\ ~secretUseAuthorized)
    \cup If("DockerSocketForbidden", "docker.sock" \in template.mentions)
    \cup If("HostPathForbidden", "hostpath" \in template.mentions)

\* The caller passes its authorization; the project of the BuildRun is the one
\* that was loaded.
EvaluateBuildRun(project, repository, template, triggerAuthorized, secretUseAuthorized) ==
  If("CanTriggerBuild", ~triggerAuthorized \/ repository.project # project)
    \cup If("UnknownProviderForbidden", ~knownRepositoryProvider(repository.provider))
    \cup EvaluatePipelineTemplate(template, secretUseAuthorized)

\* An environment: project, production, provider, and its policy digest,
\* latest (allowed), signed, sbom, noCritical.  A BuildRun: project, phase and
\* the supply-chain results signature, sbom, scan ("none", "clean" or
\* "critical").
EvaluateRelease(release, buildRun, environment) ==
  If("CanDeployToEnvironment", release.project # environment.project \/ release.project # buildRun.project)
    \cup If("CanPromoteRelease", buildRun.phase \notin {"Unset", "Succeeded"})
    \cup If("UnknownProviderForbidden", ~knownGitOpsProvider(environment.provider))
    \cup If("ProductionRequiresApproval", environment.production /\ ~release.approved)
    \cup If("ImageMustHaveDigest", environment.digest /\ release.image.digest = "none")
    \cup If("LatestImageForbidden", environment.production /\ ~environment.latest /\ release.image.tag = "latest")
    \cup If("ImageMustBeSigned", environment.signed /\ ~buildRun.signature)
    \cup If("SBOMRequired", environment.sbom /\ ~buildRun.sbom)
    \cup If("CriticalVulnerabilitiesBlocked", environment.noCritical /\ buildRun.scan # "clean")
=============================================================================
