-------------------------- MODULE DeploymentTargets --------------------------
(***************************************************************************)
(* What the manifests that GitOpsFiles updates deploy.  A target is the    *)
(* spec.gitOps of a BuildRun together with the repository of its image.    *)
(***************************************************************************)
EXTENDS GitOpsFiles

Containers(docs) == UNION {{<<i, j>> : j \in DOMAIN docs[i].containers} : i \in DOMAIN docs}

\* A workload that the configuration speaks of.
Addressed(doc, config) ==
  /\ config.files = {} \/ doc.file \in config.files
  /\ supportedWorkloadKind(doc.kind) /\ config.kind \in {"none", doc.kind}
  /\ config.name \in {"none", doc.name}

\* The containers an update is meant for: the named ones, those that use the
\* repository, or the only one there is.
TargetContainers(docs, repository, config) ==
  LET containers == {c \in Containers(docs) : Addressed(docs[c[1]], config)}
      of(c) == docs[c[1]].containers[c[2]]
      named == {c \in containers : of(c).name = config.container}
      same == {c \in containers : of(c).image.repository = repository}
  IN  IF config.container # "none" THEN named
      ELSE IF same # {} THEN same ELSE containers

\* The images of these containers, and the containers that are none of them.
RawImages(docs, repository, config) ==
  {docs[c[1]].containers[c[2]].image : c \in TargetContainers(docs, repository, config)}
RawOthers(docs, repository, config) ==
  [c \in Containers(docs) \ TargetContainers(docs, repository, config) |->
     docs[c[1]].containers[c[2]]]

\* What kustomize puts for the name, and the entries for other names.
EntryImages(images, name) ==
  {imageString([repository |-> e.newName, tag |-> e.newTag, digest |-> e.digest]) :
     e \in {x \in Range(images) : x.name = name}}
OtherEntries(images, name) ==
  [i \in {j \in DOMAIN images : images[j].name # name} |-> images[i]]

Field(doc, field) == IF field \in DOMAIN doc THEN doc[field] ELSE "none"

\* The name of the image in a kustomization.
EntryName(t, repository) == IF t.imageName # "none" THEN t.imageName ELSE repository

\* What the manifests of target t deploy for a repository, as charts, kustomize
\* and Kubernetes read them: a set of image references.
RenderedFile(file, t, repository) ==
  CASE t.strategy = "helm-values" ->
         {imageString([f \in {"repository", "tag", "digest"} |-> Field(file, t.fields[f])])}
    [] t.strategy = "kustomize-image" ->
         EntryImages(file.images, EntryName(t, repository))
    [] t.strategy = "raw-yaml" -> RawImages(file, repository, t.raw)

RenderedTree(tree, t, repository) ==
  LET path == manifestPath(t)
  IN  IF path \in DOMAIN tree THEN RenderedFile(tree[path], t, repository) ELSE {}

\* The file of target t without the image it deploys there.
Others(file, t, repository) ==
  CASE t.strategy = "helm-values" ->
         [p \in {q \in DOMAIN file : file[q] # "map"} \ Range(t.fields) |-> file[p]]
    [] t.strategy = "kustomize-image" ->
         OtherEntries(file.images, EntryName(t, repository))
    [] t.strategy = "raw-yaml" -> RawOthers(file, repository, t.raw)

(***************************************************************************)
(* What is asked of manifests and targets.                                 *)
(***************************************************************************)

\* An image has one place: no field of a Helm target is another one or above it,
\* and a kustomization has the image once.
ClearFile(file, t, repository) ==
  CASE t.strategy = "helm-values" ->
         \A f, g \in DOMAIN t.fields : f # g => ~IsPrefix(t.fields[f], t.fields[g])
    [] t.strategy = "kustomize-image" ->
         \A i, j \in DOMAIN file.images :
           file.images[i].name = EntryName(t, repository) /\ file.images[j].name = file.images[i].name
             => i = j
    [] t.strategy = "raw-yaml" -> TRUE

\* The target takes up its place: the fields of a Helm target are no maps with
\* something in them, and raw manifests name the container or a single workload.
ExactFile(file, t) ==
  CASE t.strategy = "helm-values" ->
         \A f \in Range(t.fields), p \in DOMAIN file : IsPrefix(f, p) => p = f
    [] t.strategy = "kustomize-image" -> TRUE
    [] t.strategy = "raw-yaml" ->
         \/ t.raw.container # "none"
         \/ \A i, j \in DOMAIN file : Addressed(file[i], t.raw) /\ Addressed(file[j], t.raw) => i = j

\* Two targets have nothing in common: another file, other fields, another entry,
\* other workloads or another container.
Apart(t, u, repositoryT, repositoryU) ==
  \/ manifestPath(t) # manifestPath(u)
  \/ /\ t.strategy = "helm-values"
     /\ \A f \in Range(t.fields), g \in Range(u.fields) : ~IsPrefix(f, g) /\ ~IsPrefix(g, f)
  \/ /\ t.strategy = "kustomize-image"
     /\ EntryName(t, repositoryT) # EntryName(u, repositoryU)
  \/ /\ t.strategy = "raw-yaml"
     /\ \/ t.raw.files # {} /\ u.raw.files # {} /\ t.raw.files \cap u.raw.files = {}
        \/ \E f \in {"kind", "name", "container"} : "none" \notin {t.raw[f], u.raw[f]} /\ t.raw[f] # u.raw[f]
=============================================================================
