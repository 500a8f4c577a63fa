------------------------- MODULE MCReleasePromotion -------------------------
(***************************************************************************)
(* An instance of ReleasePromotion for TLC: a BuildRun of staging and one  *)
(* of production, in several layouts of the GitOps repository.             *)
(***************************************************************************)
EXTENDS ReleasePromotion

\* Two services with a key of their own in one values file.
Helm(service) ==
  [strategy |-> "helm-values", path |-> <<"apps">>, file |-> <<"values.yaml">>, isFile |-> FALSE,
   fields |-> [repository |-> <<service, "repository">>, tag |-> <<service, "tag">>,
               digest |-> <<service, "digest">>]]

\* A named entry, or the one of the repository, in an overlay.
Kustomize(overlay, name) ==
  [strategy |-> "kustomize-image", path |-> <<overlay>>, file |-> <<"kustomization.yaml">>,
   isFile |-> FALSE, imageName |-> name]

\* Workloads in a directory, with filters or without.
Raw(name, container) ==
  [strategy |-> "raw-yaml", path |-> <<"manifests">>,
   raw |-> [files |-> {}, kind |-> "none", name |-> name, container |-> container]]

BuildRun(environment, digest, gitops) ==
  [environment |-> environment, signature |-> digest = "d2", gitOps |-> gitops, exists |-> TRUE,
   image |-> [repository |-> "api", tag |-> "t", digest |-> digest]]

Pair(staging, production) ==
  <<BuildRun("staging", "d1", staging), BuildRun("production", "d2", production)>>

Layouts ==
  {Pair(Helm("web"), Helm("api")),
   Pair(Kustomize("overlay", "none"), Kustomize("overlay", "placeholder")),
   Pair(Raw("web", "none"), [Raw("api", "api") EXCEPT !.raw.files = {"f"}]),
   Pair([Kustomize("overlay", "none") EXCEPT !.path = <<"..", "overlay">>],
        [Helm("api") EXCEPT !.path = <<"apps", "values.yaml">>, !.isFile = TRUE])}

\* Nothing tells the workloads of the directory apart but the image itself:
\* docs/gitops/raw-yaml.md says that this "prevents an application release from
\* rewriting an unrelated proxy or metrics image".
Unfiltered == {Pair(Raw("none", "none"), Raw("api", "api"))}

Values(web) ==
  (<<"web">> :> "map" @@ web @@ <<"api">> :> "map" @@ <<"api", "repository">> :> "api"
     @@ <<"api", "digest">> :> "d0" @@ <<"replicas">> :> "2")
Entry(name, newName, newTag, digest) ==
  [name |-> name, newName |-> newName, newTag |-> newTag, digest |-> digest]
Container(name, repository, ref) ==
  [name |-> name, image |-> [repository |-> repository, ref |-> ref]]
Workload(name, containers) ==
  [file |-> "f", kind |-> "Deployment", name |-> name, pod |-> TRUE, containers |-> containers]

Tree(web, images, docs) ==
  (<<"apps", "values.yaml">> :> Values(web)) @@
  (<<"overlay", "kustomization.yaml">> :> [valid |-> TRUE, images |-> images]) @@
  (<<"manifests">> :> docs)

\* Stale tags and digests, entries and containers of others, and manifests the
\* update refuses.
InitialTrees ==
  {Tree(<<"web", "tag">> :> "t", <<Entry("sidecar", "s", "1", "none"), Entry("placeholder", "old", "0", "none")>>,
        <<Workload("web", <<Container("web", "old", "0")>>),
          Workload("api", <<Container("api", "api", "d0"), Container("proxy", "p", "1")>>),
          Workload("metrics", <<Container("metrics", "m", "1")>>)>>),
   Tree(<<"web", "tag">> :> "list", <<Entry("placeholder", "api", "none", "d2"), Entry("api", "api", "0", "none")>>,
        <<Workload("web", <<Container("web", "w", "0"), Container("proxy", "p", "1")>>),
          Workload("api", <<Container("api", "api", "d2")>>)>>)}

Policy(production, approval, digest, signed) ==
  [project |-> "p", provider |-> "generic", production |-> production, approval |-> approval,
   digest |-> digest, latest |-> FALSE, signed |-> signed, sbom |-> TRUE, noCritical |-> TRUE]

\* The layouts of the passing run are what the theorems ask for.
ASSUME LayoutsAssumption ==
  ClearManifests /\ (BuildRuns = Layouts => SeparateTargets)

TwoEnvironments ==
  [staging    |-> <<Policy(FALSE, FALSE, FALSE, FALSE), Policy(FALSE, TRUE, TRUE, FALSE)>>,
   production |-> <<Policy(TRUE, TRUE, TRUE, TRUE), Policy(TRUE, FALSE, FALSE, FALSE)>>]
=============================================================================
