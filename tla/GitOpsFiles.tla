----------------------------- MODULE GitOpsFiles -----------------------------
(***************************************************************************)
(* What an image update does to the manifests of a GitOps repository       *)
(* (internal/gitops/provider.go), for the strategies helm-values,          *)
(* kustomize-image and raw-yaml.  Each strategy says whether it succeeds   *)
(* on a file, what it makes of the file and whether it reports a change.   *)
(*                                                                         *)
(* An image has repository, tag and digest, "none" for an empty one.  YAML *)
(* layout and comments are left out.                                       *)
(***************************************************************************)
EXTENDS Naturals, Sequences, FiniteSets, SequencesExt

\* A name, a tag or a digest, "none" for an empty one; "map" and "list" are kept
\* for the nodes of a document.  The API server refuses an image without a
\* repository (MinLength), so UpdateImage never meets one.
Scalars == (STRING \cup {"none"}) \ {"map", "list"}
Images == [repository : Scalars \ {"none"}, tag : Scalars, digest : Scalars]

\* spec.gitOps of a BuildRun, by strategy.
GitOpsSpecs ==
  [strategy : {"helm-values"}, path : Seq(STRING), file : Seq(STRING), isFile : BOOLEAN,
   fields : [repository : Seq(STRING), tag : Seq(STRING), digest : Seq(STRING)]]
  \cup [strategy : {"kustomize-image"}, path : Seq(STRING), file : Seq(STRING), isFile : BOOLEAN,
        imageName : Scalars]
  \cup [strategy : {"raw-yaml"}, path : Seq(STRING),
        raw : [files : SUBSET STRING, kind : STRING, name : STRING, container : STRING]]

\* imageString: repository@digest, or else repository:tag.
imageString(image) ==
  [repository |-> image.repository,
   ref        |-> IF image.digest # "none" THEN image.digest ELSE image.tag]

(***************************************************************************)
(* File paths, cleaned: a sequence of names that begins with ".." if it    *)
(* leads out of where it starts and with "/" if it is absolute.            *)
(***************************************************************************)

Escapes(path) == path # <<>> /\ path[1] \in {"..", "/"}

validateConfigFile(file) == file # <<>> /\ ~Escapes(file)

\* helmValuesPath and kustomizationPath: the path names the file itself, or the
\* directory of the configured file.
configuredFile(gitops) == IF gitops.isFile THEN gitops.path ELSE gitops.path \o gitops.file

safeConfigured(gitops) ==
  (gitops.isFile \/ validateConfigFile(gitops.file)) /\ ~Escapes(configuredFile(gitops))

(***************************************************************************)
(* helm-values.  A document maps the paths of its nodes to a scalar, with  *)
(* its YAML tag, or to "map" or "list"; the parents of a node are nodes.   *)
(***************************************************************************)

Parents(field) == {SubSeq(field, 1, n) : n \in 1 .. Len(field) - 1}

\* Setting or deleting a field succeeds: it traverses maps only and overwrites
\* only scalars; it deletes whatever the field holds.
Assignable(doc, field, value) ==
  /\ field # <<>> /\ "" \notin Range(field)
  /\ \A p \in Parents(field) \cap DOMAIN doc : doc[p] = "map"
  /\ value # "none" /\ field \in DOMAIN doc => doc[field] \notin {"map", "list"}

setYAMLField(doc, field, value) ==
  [p \in DOMAIN doc \cup Parents(field) \cup {field} |->
     IF p = field THEN value ELSE IF p \in DOMAIN doc THEN doc[p] ELSE "map"]

\* Mutant of setOrDeleteYAMLField: an empty value leaves the field alone.
setYAMLFieldOnly(doc, field, value) == IF value = "none" THEN doc ELSE setYAMLField(doc, field, value)

setOrDeleteYAMLField(doc, field, value) ==
  IF value = "none"
  THEN [p \in {q \in DOMAIN doc : ~IsPrefix(field, q)} |-> doc[p]]
  ELSE setYAMLField(doc, field, value)

\* The repository, then the tag, then the digest.
updateHelmValues(doc, image, fields) ==
  LET withRepository == setYAMLField(doc, fields.repository, image.repository)
      withTag == setOrDeleteYAMLField(withRepository, fields.tag, image.tag)
      withDigest == setOrDeleteYAMLField(withTag, fields.digest, image.digest)
  IN  [ok      |-> /\ Assignable(doc, fields.repository, image.repository)
                   /\ Assignable(withRepository, fields.tag, image.tag)
                   /\ Assignable(withTag, fields.digest, image.digest),
       file    |-> withDigest,
       changed |-> withRepository # doc \/ withTag # withRepository \/ withDigest # withTag]

(***************************************************************************)
(* kustomize-image.  A file has its images, empty if there are none, and   *)
(* valid says that the field is a list or absent; an entry that is not a   *)
(* map has the name "none".                                                *)
(***************************************************************************)

\* The entry after the update; a digest replaces the tag.
withImage(name, image) ==
  [name |-> name, newName |-> image.repository, digest |-> image.digest,
   newTag |-> IF image.digest # "none" THEN "none" ELSE image.tag]

\* The first entry with the name, 0 if there is none.
entryIndex(images, name) == SelectInSeq(images, LAMBDA entry : entry.name = name)

\* A configured name has to be there; the repository's own name is appended.
updateKustomization(file, image, configuredName) ==
  LET images == file.images
      name == IF configuredName # "none" THEN configuredName ELSE image.repository
      at == entryIndex(images, name)
      updated == IF at # 0 THEN [images EXCEPT ![at] = withImage(name, image)]
                           ELSE Append(images, withImage(name, image))
  IN  [ok      |-> file.valid /\ (at # 0 \/ configuredName = "none"),
       file    |-> [file EXCEPT !.images = updated],
       changed |-> updated # images]

(***************************************************************************)
(* raw-yaml.  The documents of the files under the path, in order: each    *)
(* has file, kind, name, pod (it has a pod template) and the containers,   *)
(* init containers included, with name and image reference.                *)
(***************************************************************************)

supportedWorkloadKind(kind) == kind \in {"Deployment", "StatefulSet", "DaemonSet", "CronJob"}

\* The documents of the configured files and workload filters.
Filtered(doc, config) ==
  /\ config.files # {} => doc.file \in config.files
  /\ supportedWorkloadKind(doc.kind)
  /\ config.kind # "none" => doc.kind = config.kind
  /\ config.name # "none" => doc.name = config.name

\* The name of an image without its tag and digest.
imageRepository(value) == value.repository

\* Without a container name, the containers of the same repository, or else the
\* only container.
Selected(doc, image, config) ==
  LET all == DOMAIN doc.containers
      same == {i \in all : imageRepository(doc.containers[i].image) = image.repository}
  IN  IF config.container # "none" THEN {i \in all : doc.containers[i].name = config.container}
      ELSE IF same = {} /\ Cardinality(all) = 1 THEN all ELSE same

\* Mutant of updateRawWorkloadNode: every container of the workload.
updateEveryContainer(doc, image, config) ==
  [doc EXCEPT !.containers = [i \in DOMAIN @ |-> [@[i] EXCEPT !.image = imageString(image)]]]

updateRawWorkloadNode(doc, image, config) ==
  [doc EXCEPT !.containers =
     [i \in DOMAIN @ |-> IF i \in Selected(doc, image, config)
                         THEN [@[i] EXCEPT !.image = imageString(image)] ELSE @[i]]]

updateRawYAML(docs, image, config) ==
  LET targets == {i \in DOMAIN docs : Filtered(docs[i], config)}
      file == [i \in DOMAIN docs |-> IF i \in targets
                                     THEN updateRawWorkloadNode(docs[i], image, config) ELSE docs[i]]
  IN  [ok      |-> /\ \A f \in config.files : f # ".." /\ \E i \in DOMAIN docs : docs[i].file = f
                   /\ \A i \in targets : docs[i].pod
                   /\ \E i \in targets : Selected(docs[i], image, config) # {},
       file    |-> file,
       changed |-> file # docs]

(***************************************************************************)
(* What the three strategies read a file as.                               *)
(***************************************************************************)

KustomizeEntries == [name : Scalars, newName : Scalars, newTag : Scalars, digest : Scalars]
ImageReferences == [repository : Scalars, ref : Scalars]
Workloads ==
  [file : STRING, kind : STRING, name : STRING, pod : BOOLEAN,
   containers : Seq([name : STRING, image : ImageReferences])]

HasFormat(file, gitops) ==
  CASE gitops.strategy = "helm-values" ->
         DOMAIN file \subseteq Seq(STRING) /\ file = [p \in DOMAIN file |-> file[p]]
    [] gitops.strategy = "kustomize-image" -> file \in [valid : BOOLEAN, images : Seq(KustomizeEntries)]
    [] gitops.strategy = "raw-yaml" -> file \in Seq(Workloads)

(***************************************************************************)
(* updateImageFilesConfigured: the strategy's update of a tree, which maps *)
(* the paths of the files (for raw-yaml, the directory) to their contents. *)
(***************************************************************************)

manifestPath(gitops) == IF gitops.strategy = "raw-yaml" THEN gitops.path ELSE configuredFile(gitops)

safePath(gitops) ==
  IF gitops.strategy = "raw-yaml" THEN ~Escapes(gitops.path) ELSE safeConfigured(gitops)

updateFile(file, image, gitops) ==
  CASE gitops.strategy = "helm-values"     -> updateHelmValues(file, image, gitops.fields)
    [] gitops.strategy = "kustomize-image" -> updateKustomization(file, image, gitops.imageName)
    [] gitops.strategy = "raw-yaml"        -> updateRawYAML(file, image, gitops.raw)

\* Mutant of updateImageFiles: files are written whether they changed or not.
updateImageFilesAlways(tree, image, gitops) ==
  LET path == manifestPath(gitops)
  IN  IF ~safePath(gitops) \/ path \notin DOMAIN tree
      THEN [ok |-> FALSE, tree |-> tree, changed |-> FALSE]
      ELSE LET update == updateFile(tree[path], image, gitops)
           IN  [ok |-> update.ok, tree |-> [tree EXCEPT ![path] = update.file], changed |-> TRUE]

\* A file that is missing or does not parse is not in the tree.
updateImageFiles(tree, image, gitops) ==
  LET path == manifestPath(gitops)
  IN  IF ~safePath(gitops) \/ path \notin DOMAIN tree
      THEN [ok |-> FALSE, tree |-> tree, changed |-> FALSE]
      ELSE LET update == updateFile(tree[path], image, gitops)
           IN  [ok |-> update.ok, tree |-> [tree EXCEPT ![path] = update.file],
                changed |-> update.changed]
=============================================================================
