--------------------- MODULE DeploymentTargets_proofs ---------------------
(***************************************************************************)
(* What an update of the GitOps manifests does, for every file, image and  *)
(* target: it deploys the image, a second one changes nothing, it keeps    *)
(* the rest of the file, and it keeps what a target apart from it deploys. *)
(*                                                                         *)
(* The lemmas are proved for each strategy (helm-values,                   *)
(* kustomize-image, raw-yaml), then for a file of any strategy, and then   *)
(* for the tree of a repository.  ReleasePromotion_proofs uses the last.   *)
(***************************************************************************)
EXTENDS DeploymentTargets, TLAPS, FiniteSetTheorems

(***************************************************************************)
(* Paths in a document.                                                    *)
(***************************************************************************)

Unrelated(f, g) == ~IsPrefix(f, g) /\ ~IsPrefix(g, f)

Paths == Seq(STRING)

\* A prefix is compared element by element.
LEMMA PrefixByIndex ==
  ASSUME NEW f \in Paths, NEW g \in Paths
  PROVE  IsPrefix(f, g) <=> Len(f) <= Len(g) /\ \A i \in 1 .. Len(f) : f[i] = g[i]
<1>1. ASSUME Len(f) <= Len(g)
      PROVE  SubSeq(f, 1, Len(f)) = SubSeq(g, 1, Len(f)) <=> \A i \in 1 .. Len(f) : f[i] = g[i]
  <2>1. /\ SubSeq(f, 1, Len(f)) = [i \in 1 .. Len(f) |-> f[i]]
        /\ SubSeq(g, 1, Len(f)) = [i \in 1 .. Len(f) |-> g[i]]
    BY <1>1 DEF Paths
  <2>2. QED
    BY <2>1
<1>2. QED
  BY <1>1 DEF IsPrefix, Paths

\* A path is a prefix of itself.
LEMMA PrefixReflexive == \A f \in Paths : IsPrefix(f, f)
BY PrefixByIndex DEF Paths

\* A prefix of a prefix is a prefix.
LEMMA PrefixTransitive ==
  ASSUME NEW f \in Paths, NEW g \in Paths, NEW h \in Paths, IsPrefix(f, g), IsPrefix(g, h)
  PROVE  IsPrefix(f, h)
BY PrefixByIndex DEF Paths

\* Two paths that are prefixes of each other are the same.
LEMMA PrefixAntisymmetric ==
  ASSUME NEW f \in Paths, NEW g \in Paths, IsPrefix(f, g), IsPrefix(g, f)
  PROVE  f = g
<1>1. Len(f) = Len(g) /\ \A i \in 1 .. Len(f) : f[i] = g[i]
  BY PrefixByIndex DEF Paths
<1>2. QED
  BY <1>1 DEF Paths

\* The parents of a field are the paths above it.
LEMMA ParentsArePrefixes ==
  ASSUME NEW f \in Paths, NEW p \in Parents(f)
  PROVE  p \in Paths /\ IsPrefix(p, f) /\ p # f
<1>1. PICK n \in 1 .. Len(f) - 1 : p = SubSeq(f, 1, n)
  BY DEF Parents
<1>2. p \in Paths /\ Len(p) = n /\ \A i \in 1 .. n : p[i] = f[i]
  BY <1>1 DEF Paths
<1>3. Len(p) < Len(f) /\ Len(p) <= Len(f)
  BY <1>1, <1>2 DEF Paths
<1>4. IsPrefix(p, f)
  BY <1>2, <1>3, PrefixByIndex
<1>5. QED
  BY <1>2, <1>3, <1>4

(***************************************************************************)
(* helm-values                                                             *)
(***************************************************************************)

IsDocument(doc) == DOMAIN doc \subseteq Paths /\ doc = [p \in DOMAIN doc |-> doc[p]]

\* The document holds the value: assigning it changes nothing.
HasValue(doc, field, value) ==
  IF value = "none" THEN \A p \in DOMAIN doc : ~IsPrefix(field, p)
  ELSE field \in DOMAIN doc /\ doc[field] = value /\ Parents(field) \subseteq DOMAIN doc

\* Assigning a field leaves a document.
LEMMA SetIsDocument ==
  ASSUME NEW doc, IsDocument(doc), NEW f \in Paths, NEW v
  PROVE  IsDocument(setOrDeleteYAMLField(doc, f, v))
<1>1. \A p \in Parents(f) : p \in Paths
  BY ParentsArePrefixes
<1>2. CASE v = "none"
  BY <1>2 DEF IsDocument, setOrDeleteYAMLField, setYAMLField
<1>3. CASE v # "none"
  BY <1>1, <1>3 DEF IsDocument, setOrDeleteYAMLField, setYAMLField
<1>4. QED
  BY <1>2, <1>3

\* A field that was assigned has the value.
LEMMA SetHasValue ==
  ASSUME NEW doc, IsDocument(doc), NEW f \in Paths, NEW v
  PROVE  HasValue(setOrDeleteYAMLField(doc, f, v), f, v)
BY DEF HasValue, setOrDeleteYAMLField, setYAMLField

\* Assigning the value that a field has changes nothing.
LEMMA SetAgain ==
  ASSUME NEW doc, IsDocument(doc), NEW f \in Paths, NEW v, HasValue(doc, f, v)
  PROVE  setOrDeleteYAMLField(doc, f, v) = doc
<1>1. CASE v = "none"
  <2>1. {q \in DOMAIN doc : ~IsPrefix(f, q)} = DOMAIN doc
    BY <1>1 DEF HasValue
  <2>2. QED
    BY <1>1, <2>1 DEF IsDocument, setOrDeleteYAMLField, setYAMLField
<1>2. CASE v # "none"
  <2>1. DOMAIN doc \cup Parents(f) \cup {f} = DOMAIN doc /\ doc[f] = v
    BY <1>2 DEF HasValue
  <2>2. QED
    BY <1>2, <2>1 DEF IsDocument, setOrDeleteYAMLField, setYAMLField
<1>3. QED
  BY <1>1, <1>2

\* The value that a document holds is the one that is read.
LEMMA ValueIsField ==
  ASSUME NEW doc, IsDocument(doc), NEW f \in Paths, NEW v, HasValue(doc, f, v)
  PROVE  Field(doc, f) = v
BY PrefixReflexive DEF HasValue, Field

\* Parents of one field are no prefix of, and not below, an unrelated one.
LEMMA UnrelatedParents ==
  ASSUME NEW f \in Paths, NEW g \in Paths, Unrelated(f, g)
  PROVE  /\ f # g
         /\ \A p \in Parents(g) : p # f /\ ~IsPrefix(f, p)
         /\ \A p \in Parents(f) : p # g /\ ~IsPrefix(g, p)
<1>1. f # g
  BY PrefixReflexive DEF Unrelated
<1>2. ASSUME NEW p \in Parents(g) PROVE p # f /\ ~IsPrefix(f, p)
  BY ParentsArePrefixes, PrefixTransitive DEF Unrelated
<1>3. ASSUME NEW p \in Parents(f) PROVE p # g /\ ~IsPrefix(g, p)
  BY ParentsArePrefixes, PrefixTransitive DEF Unrelated
<1>4. QED
  BY <1>1, <1>2, <1>3

\* Assigning a field keeps the value that an unrelated one has,
LEMMA SetKeepsValue ==
  ASSUME NEW doc, IsDocument(doc), NEW f \in Paths, NEW v,
         NEW g \in Paths, NEW w, Unrelated(f, g), HasValue(doc, g, w)
  PROVE  HasValue(setOrDeleteYAMLField(doc, f, v), g, w)
<1>1. CASE v = "none"
  BY <1>1, UnrelatedParents DEF HasValue, setOrDeleteYAMLField, setYAMLField, Unrelated
<1>2. CASE v # "none"
  BY <1>2, UnrelatedParents DEF HasValue, setOrDeleteYAMLField, setYAMLField, Unrelated
<1>3. QED
  BY <1>1, <1>2

\* what is read of an unrelated one,
LEMMA SetKeepsField ==
  ASSUME NEW doc, IsDocument(doc), NEW f \in Paths, NEW v,
         NEW g \in Paths, Unrelated(f, g)
  PROVE  Field(setOrDeleteYAMLField(doc, f, v), g) = Field(doc, g)
<1>1. CASE v = "none"
  BY <1>1, UnrelatedParents DEF Field, setOrDeleteYAMLField, setYAMLField, Unrelated
<1>2. CASE v # "none"
  BY <1>2, UnrelatedParents DEF Field, setOrDeleteYAMLField, setYAMLField, Unrelated
<1>3. QED
  BY <1>1, <1>2

\* and whether an unrelated one can be assigned.
LEMMA SetKeepsAssignable ==
  ASSUME NEW doc, IsDocument(doc), NEW f \in Paths, NEW v,
         NEW g \in Paths, NEW w, Unrelated(f, g)
  PROVE  Assignable(setOrDeleteYAMLField(doc, f, v), g, w) <=> Assignable(doc, g, w)
<1> DEFINE n == setOrDeleteYAMLField(doc, f, v)
<1>1. /\ \A p \in Parents(g) \cup {g} : p \in DOMAIN doc => p \in DOMAIN n /\ n[p] = doc[p]
      /\ \A p \in Parents(g) : p \in DOMAIN n => p \in DOMAIN doc \/ n[p] = "map"
      /\ g \in DOMAIN n => g \in DOMAIN doc
  <2>1. CASE v = "none"
    BY <2>1, UnrelatedParents DEF setOrDeleteYAMLField, setYAMLField, Unrelated
  <2>2. CASE v # "none"
    BY <2>2, UnrelatedParents DEF setOrDeleteYAMLField, setYAMLField, Unrelated
  <2>3. QED
    BY <2>1, <2>2
<1> HIDE DEF n
<1>2. QED
  BY <1>1 DEF Assignable, n

Fields == [repository : Paths, tag : Paths, digest : Paths]
FieldsApart(fields) == \A f, g \in DOMAIN fields : f # g => ~IsPrefix(fields[f], fields[g])

\* Fields none of which is another or above it are unrelated.
LEMMA FieldsAreUnrelated ==
  ASSUME NEW fields \in Fields, FieldsApart(fields)
  PROVE  /\ fields.repository \in Paths /\ fields.tag \in Paths /\ fields.digest \in Paths
         /\ Range(fields) = {fields.repository, fields.tag, fields.digest}
         /\ Unrelated(fields.repository, fields.tag)
         /\ Unrelated(fields.repository, fields.digest)
         /\ Unrelated(fields.tag, fields.digest)
BY DEF Fields, FieldsApart, Unrelated, Range

\* The document holds the image.
HasImage(doc, image, fields) ==
  /\ HasValue(doc, fields.repository, image.repository)
  /\ HasValue(doc, fields.tag, image.tag)
  /\ HasValue(doc, fields.digest, image.digest)

\* Each part of an image is a scalar.
LEMMA ImagesAreScalars ==
  ASSUME NEW image \in Images
  PROVE  image.repository \in Scalars /\ image.tag \in Scalars /\ image.digest \in Scalars
BY DEF Images

\* There is always a repository to be set.
LEMMA RepositoryIsSet ==
  ASSUME NEW image \in Images, NEW doc, NEW f
  PROVE  setYAMLField(doc, f, image.repository) = setOrDeleteYAMLField(doc, f, image.repository)
BY DEF Images, setOrDeleteYAMLField

\* After an update that succeeds the document holds the image.
LEMMA HelmUpdateHasImage ==
  ASSUME NEW doc, IsDocument(doc), NEW image \in Images, NEW fields \in Fields, FieldsApart(fields)
  PROVE  LET new == updateHelmValues(doc, image, fields).file
         IN  IsDocument(new) /\ HasImage(new, image, fields)
<1> DEFINE d1 == setOrDeleteYAMLField(doc, fields.repository, image.repository)
           d2 == setOrDeleteYAMLField(d1, fields.tag, image.tag)
           d3 == setOrDeleteYAMLField(d2, fields.digest, image.digest)
<1>1. IsDocument(d1) /\ HasValue(d1, fields.repository, image.repository)
  BY FieldsAreUnrelated, ImagesAreScalars, SetIsDocument, SetHasValue
<1> HIDE DEF d1
<1>2. /\ IsDocument(d2) /\ HasValue(d2, fields.repository, image.repository)
      /\ HasValue(d2, fields.tag, image.tag)
  BY <1>1, FieldsAreUnrelated, ImagesAreScalars, SetIsDocument, SetHasValue, SetKeepsValue DEF Unrelated
<1> HIDE DEF d2
<1>3. IsDocument(d3) /\ HasImage(d3, image, fields)
  BY <1>2, FieldsAreUnrelated, ImagesAreScalars, SetIsDocument, SetHasValue, SetKeepsValue DEF Unrelated, HasImage
<1>4. updateHelmValues(doc, image, fields).file = d3
  BY RepositoryIsSet DEF updateHelmValues, d1, d2
<1>5. QED
  BY <1>3, <1>4

\* Updating a document that holds the image changes nothing.
LEMMA HelmUpdateAgain ==
  ASSUME NEW doc, IsDocument(doc), NEW image \in Images, NEW fields \in Fields, FieldsApart(fields),
         HasImage(doc, image, fields)
  PROVE  updateHelmValues(doc, image, fields).file = doc /\ ~updateHelmValues(doc, image, fields).changed
<1>1. /\ setOrDeleteYAMLField(doc, fields.repository, image.repository) = doc
      /\ setOrDeleteYAMLField(doc, fields.tag, image.tag) = doc
      /\ setOrDeleteYAMLField(doc, fields.digest, image.digest) = doc
  BY FieldsAreUnrelated, ImagesAreScalars, SetAgain DEF HasImage
<1>2. QED
  BY <1>1, RepositoryIsSet DEF updateHelmValues

\* The update succeeds if each of its assignments does, whatever their order.
LEMMA HelmUpdateSucceeds ==
  ASSUME NEW doc, IsDocument(doc), NEW image \in Images, NEW fields \in Fields, FieldsApart(fields)
  PROVE  updateHelmValues(doc, image, fields).ok <=>
           /\ Assignable(doc, fields.repository, image.repository)
           /\ Assignable(doc, fields.tag, image.tag)
           /\ Assignable(doc, fields.digest, image.digest)
<1> DEFINE d1 == setOrDeleteYAMLField(doc, fields.repository, image.repository)
           d2 == setOrDeleteYAMLField(d1, fields.tag, image.tag)
<1>1. /\ IsDocument(d1)
      /\ Assignable(d1, fields.tag, image.tag) <=> Assignable(doc, fields.tag, image.tag)
      /\ Assignable(d1, fields.digest, image.digest) <=> Assignable(doc, fields.digest, image.digest)
  BY FieldsAreUnrelated, ImagesAreScalars, SetIsDocument, SetKeepsAssignable
<1> HIDE DEF d1
<1>2. Assignable(d2, fields.digest, image.digest) <=> Assignable(d1, fields.digest, image.digest)
  BY <1>1, FieldsAreUnrelated, ImagesAreScalars, SetKeepsAssignable
<1> HIDE DEF d2
<1>3. updateHelmValues(doc, image, fields).ok <=>
        /\ Assignable(doc, fields.repository, image.repository)
        /\ Assignable(d1, fields.tag, image.tag)
        /\ Assignable(d2, fields.digest, image.digest)
  BY RepositoryIsSet DEF updateHelmValues, d1, d2
<1>4. QED
  BY <1>1, <1>2, <1>3

\* Whatever the value, an assignment to the field succeeds.
Open(doc, field) == \A value \in Scalars : Assignable(doc, field, value)

\* A field that was assigned once can be assigned again, and so can unrelated ones.
LEMMA SetOpens ==
  ASSUME NEW doc, IsDocument(doc), NEW f \in Paths, NEW v \in Scalars, Assignable(doc, f, v)
  PROVE  Open(setOrDeleteYAMLField(doc, f, v), f)
<1> DEFINE n == setOrDeleteYAMLField(doc, f, v)
<1>1. /\ \A p \in Parents(f) \cap DOMAIN n : n[p] = "map"
      /\ f \in DOMAIN n => n[f] \notin {"map", "list"}
  <2>1. CASE v = "none"
    BY <2>1, PrefixReflexive DEF setOrDeleteYAMLField, setYAMLField, Assignable
  <2>2. CASE v # "none"
    <3>1. /\ \A p \in Parents(f) : p # f
          /\ \A p \in Parents(f) \cap DOMAIN doc : doc[p] = "map"
      BY ParentsArePrefixes DEF Assignable
    <3>2. /\ f \in DOMAIN n => n[f] = v
          /\ \A p \in Parents(f) : n[p] = "map"
      BY <2>2, <3>1 DEF setOrDeleteYAMLField, setYAMLField
    <3>3. QED
      BY <3>2 DEF Scalars
  <2>3. QED
    BY <2>1, <2>2
<1> HIDE DEF n
<1>2. QED
  BY <1>1 DEF Open, Assignable, n

\* After one image any other can be written.
LEMMA HelmStaysUpdatable ==
  ASSUME NEW doc, IsDocument(doc), NEW image \in Images, NEW fields \in Fields, FieldsApart(fields),
         updateHelmValues(doc, image, fields).ok, NEW other \in Images
  PROVE  updateHelmValues(updateHelmValues(doc, image, fields).file, other, fields).ok
<1> DEFINE d1 == setOrDeleteYAMLField(doc, fields.repository, image.repository)
           d2 == setOrDeleteYAMLField(d1, fields.tag, image.tag)
           d3 == setOrDeleteYAMLField(d2, fields.digest, image.digest)
<1>a. /\ Assignable(doc, fields.repository, image.repository)
      /\ Assignable(d1, fields.tag, image.tag)
      /\ Assignable(d2, fields.digest, image.digest)
  BY RepositoryIsSet DEF updateHelmValues
<1>1. IsDocument(d1) /\ Open(d1, fields.repository)
  BY <1>a, FieldsAreUnrelated, ImagesAreScalars, SetIsDocument, SetOpens
<1> HIDE DEF d1
<1>2. IsDocument(d2) /\ Open(d2, fields.repository) /\ Open(d2, fields.tag)
  BY <1>a, <1>1, FieldsAreUnrelated, ImagesAreScalars, SetIsDocument, SetOpens, SetKeepsAssignable
     DEF Open, Unrelated
<1> HIDE DEF d2
<1>3. IsDocument(d3) /\ Open(d3, fields.repository) /\ Open(d3, fields.tag) /\ Open(d3, fields.digest)
  BY <1>a, <1>2, FieldsAreUnrelated, ImagesAreScalars, SetIsDocument, SetOpens, SetKeepsAssignable
     DEF Open, Unrelated
<1> HIDE DEF d3
<1>4. updateHelmValues(doc, image, fields).file = d3
  BY RepositoryIsSet DEF updateHelmValues, d1, d2, d3
<1>5. QED
  BY <1>3, <1>4, ImagesAreScalars, HelmUpdateSucceeds DEF Open

\* Nothing is below the field.
IsLeaf(doc, field) == \A p \in DOMAIN doc : IsPrefix(field, p) => p = field

\* Assigning a field puts nothing below it or below an unrelated one.
LEMMA SetKeepsLeaf ==
  ASSUME NEW doc, IsDocument(doc), NEW f \in Paths, NEW v, NEW g \in Paths,
         f = g \/ Unrelated(f, g), IsLeaf(doc, g)
  PROVE  IsLeaf(setOrDeleteYAMLField(doc, f, v), g)
<1>1. \A p \in Parents(f) \cup {f} : IsPrefix(g, p) => p = g
  <2>1. CASE f = g
    BY <2>1, ParentsArePrefixes, PrefixAntisymmetric
  <2>2. CASE Unrelated(f, g)
    BY <2>2, UnrelatedParents DEF Unrelated
  <2>3. QED
    BY <2>1, <2>2
<1>2. DOMAIN setOrDeleteYAMLField(doc, f, v) \subseteq DOMAIN doc \cup Parents(f) \cup {f}
  BY DEF setOrDeleteYAMLField, setYAMLField
<1>3. QED
  BY <1>1, <1>2 DEF IsLeaf

\* Nodes that are no maps are left alone, but for the field itself.
SameRest(new, doc, fields) ==
  \A q : q \notin fields =>
    /\ q \in DOMAIN new /\ new[q] # "map" <=> q \in DOMAIN doc /\ doc[q] # "map"
    /\ q \in DOMAIN doc /\ doc[q] # "map" => new[q] = doc[q]

\* Assigning a field with nothing below it keeps the rest of the document.
LEMMA SetKeepsRest ==
  ASSUME NEW doc, IsDocument(doc), NEW f \in Paths, NEW v, IsLeaf(doc, f),
         NEW fields, f \in fields
  PROVE  SameRest(setOrDeleteYAMLField(doc, f, v), doc, fields)
<1>1. CASE v = "none"
  BY <1>1 DEF setOrDeleteYAMLField, setYAMLField, SameRest, IsLeaf
<1>2. CASE v # "none"
  BY <1>2 DEF setOrDeleteYAMLField, setYAMLField, SameRest
<1>3. QED
  BY <1>1, <1>2

\* An update of fields with nothing below them keeps the rest.
LEMMA HelmUpdateKeepsRest ==
  ASSUME NEW doc, IsDocument(doc), NEW image \in Images, NEW fields \in Fields, FieldsApart(fields),
         \A f \in Range(fields) : IsLeaf(doc, f)
  PROVE  LET new == updateHelmValues(doc, image, fields).file
         IN  SameRest(new, doc, Range(fields)) /\ \A f \in Range(fields) : IsLeaf(new, f)
<1> DEFINE d1 == setOrDeleteYAMLField(doc, fields.repository, image.repository)
           d2 == setOrDeleteYAMLField(d1, fields.tag, image.tag)
           d3 == setOrDeleteYAMLField(d2, fields.digest, image.digest)
           R == Range(fields)
<1>0. /\ R = {fields.repository, fields.tag, fields.digest} /\ R \subseteq Paths
      /\ \A f, g \in R : f = g \/ Unrelated(f, g)
  BY FieldsAreUnrelated DEF Unrelated
<1> HIDE DEF R
<1>1. IsDocument(d1) /\ SameRest(d1, doc, R) /\ \A f \in R : IsLeaf(d1, f)
  BY <1>0, SetIsDocument, SetKeepsRest, SetKeepsLeaf DEF R
<1> HIDE DEF d1
<1>2. IsDocument(d2) /\ SameRest(d2, d1, R) /\ \A f \in R : IsLeaf(d2, f)
  BY <1>0, <1>1, SetIsDocument, SetKeepsRest, SetKeepsLeaf
<1> HIDE DEF d2
<1>3. SameRest(d3, d2, R) /\ \A f \in R : IsLeaf(d3, f)
  BY <1>0, <1>2, SetKeepsRest, SetKeepsLeaf
<1> HIDE DEF d3
<1>4. SameRest(d3, doc, R)
  BY <1>1, <1>2, <1>3 DEF SameRest
<1>5. updateHelmValues(doc, image, fields).file = d3
  BY RepositoryIsSet DEF updateHelmValues, d1, d2, d3
<1>6. QED
  BY <1>3, <1>4, <1>5 DEF R

\* An update keeps what unrelated fields hold, and that they can be assigned.
LEMMA HelmUpdateKeepsOthers ==
  ASSUME NEW doc, IsDocument(doc), NEW image \in Images, NEW fields \in Fields, FieldsApart(fields),
         NEW g \in Paths, \A f \in Range(fields) : Unrelated(f, g)
  PROVE  LET new == updateHelmValues(doc, image, fields).file
         IN  /\ Field(new, g) = Field(doc, g)
             /\ \A w : Assignable(new, g, w) <=> Assignable(doc, g, w)
             /\ IsLeaf(doc, g) => IsLeaf(new, g)
<1> DEFINE d1 == setOrDeleteYAMLField(doc, fields.repository, image.repository)
           d2 == setOrDeleteYAMLField(d1, fields.tag, image.tag)
           d3 == setOrDeleteYAMLField(d2, fields.digest, image.digest)
           Same(new, old) == /\ Field(new, g) = Field(old, g)
                             /\ \A w : Assignable(new, g, w) <=> Assignable(old, g, w)
                             /\ IsLeaf(old, g) => IsLeaf(new, g)
<1>0. /\ {fields.repository, fields.tag, fields.digest} \subseteq Paths
      /\ \A f \in {fields.repository, fields.tag, fields.digest} : Unrelated(f, g)
  BY FieldsAreUnrelated
<1>a. ASSUME NEW d, IsDocument(d), NEW f \in {fields.repository, fields.tag, fields.digest}, NEW v
      PROVE  Same(setOrDeleteYAMLField(d, f, v), d)
  BY <1>0, <1>a, SetKeepsField, SetKeepsAssignable, SetKeepsLeaf
<1>1. IsDocument(d1) /\ Same(d1, doc)
  BY <1>0, <1>a, SetIsDocument
<1>2. IsDocument(d2) /\ Same(d2, d1)
  <2> HIDE DEF d1, Same
  <2> QED  BY <1>0, <1>a, <1>1, SetIsDocument
<1>3. Same(d3, d2)
  <2> HIDE DEF d2, Same
  <2> QED  BY <1>0, <1>a, <1>2
<1>4. Same(d3, doc)
  <2> HIDE DEF d1, d2, d3
  <2> QED  BY <1>1, <1>2, <1>3
<1>5. updateHelmValues(doc, image, fields).file = d3
  BY RepositoryIsSet DEF updateHelmValues
<1>6. QED
  BY <1>4, <1>5

(***************************************************************************)
(* kustomize-image                                                         *)
(***************************************************************************)

Kustomizations == [valid : BOOLEAN, images : Seq(KustomizeEntries)]

HasOnce(images, name) ==
  \A i, j \in DOMAIN images : images[i].name = name /\ images[j].name = name => i = j

\* Where a kustomization has the image: at its entry, or nowhere.
LEMMA EntryIndexOfName ==
  ASSUME NEW images \in Seq(KustomizeEntries), NEW name, HasOnce(images, name)
  PROVE  LET at == entryIndex(images, name)
         IN  /\ at = 0 <=> \A i \in DOMAIN images : images[i].name # name
             /\ at # 0 => at \in DOMAIN images /\ images[at].name = name
<1> DEFINE I == {i \in 1 .. Len(images) : images[i].name = name}
<1>0. DOMAIN images = 1 .. Len(images) /\ I \subseteq Nat /\ 0 \notin I
  OBVIOUS
<1>1. entryIndex(images, name) = IF I # {} THEN Min(I) ELSE 0
  BY DEF entryIndex, SelectInSeq
<1>2. ASSUME NEW i \in I PROVE Min(I) = i
  <2>1. I = {i}
    BY <1>0, <1>2 DEF HasOnce
  <2>2. QED
    BY <1>0, <2>1 DEF Min
<1>3. QED
  BY <1>0, <1>1, <1>2

\* The update writes one entry and leaves the others where they are.
LEMMA KustomizeUpdate ==
  ASSUME NEW file \in Kustomizations, NEW image \in Images, NEW configured \in Scalars, NEW name,
         name = IF configured # "none" THEN configured ELSE image.repository,
         HasOnce(file.images, name)
  PROVE  LET update == updateKustomization(file, image, configured)
             old == file.images
             new == update.file.images
         IN  /\ update.file \in Kustomizations /\ update.file.valid = file.valid
             /\ DOMAIN old \subseteq DOMAIN new
             /\ \E at \in DOMAIN new :
                  /\ new[at] = withImage(name, image)
                  /\ at \in DOMAIN old => old[at].name = name
                  /\ \A i \in DOMAIN new : i # at =>
                       i \in DOMAIN old /\ new[i] = old[i] /\ old[i].name # name
             /\ update.changed <=> new # old
             /\ update.ok <=> file.valid /\ (configured = "none" \/ \E i \in DOMAIN old : old[i].name = name)
<1> DEFINE update == updateKustomization(file, image, configured)
           old == file.images
           at == entryIndex(old, name)
           new == IF at # 0 THEN [old EXCEPT ![at] = withImage(name, image)]
                            ELSE Append(old, withImage(name, image))
<1>1. old \in Seq(KustomizeEntries) /\ name \in Scalars /\ file = [valid |-> file.valid, images |-> old]
  BY DEF Kustomizations, Images
<1>2. /\ at = 0 <=> \A i \in DOMAIN old : old[i].name # name
      /\ at # 0 => at \in DOMAIN old /\ old[at].name = name
  BY <1>1, EntryIndexOfName
<1>3. /\ update.file = [file EXCEPT !.images = new]
      /\ update.changed <=> new # old
      /\ update.ok <=> file.valid /\ (at # 0 \/ configured = "none")
  BY DEF updateKustomization
<1> HIDE DEF update, at
<1>4. withImage(name, image) \in KustomizeEntries
  BY <1>1, ImagesAreScalars DEF KustomizeEntries, withImage, Scalars
<1>5. CASE at # 0
  <2>1. new = [old EXCEPT ![at] = withImage(name, image)]
    BY <1>1, <1>2, <1>5
  <2>2. DOMAIN new = DOMAIN old /\ new[at] = withImage(name, image) /\ new \in Seq(KustomizeEntries)
    BY <1>1, <1>2, <1>4, <1>5, <2>1
  <2>3. \A i \in DOMAIN new : i # at => new[i] = old[i] /\ old[i].name # name
    BY <1>1, <1>2, <1>5, <2>1, <2>2 DEF HasOnce
  <2> HIDE DEF new
  <2>4. update.file = [valid |-> file.valid, images |-> new]
    BY <1>1, <1>3
  <2>5. QED
    BY <1>1, <1>2, <1>3, <1>5, <2>2, <2>3, <2>4 DEF Kustomizations, update
<1>6. CASE at = 0
  <2>1. new = Append(old, withImage(name, image))
    BY <1>4, <1>6
  <2>2. /\ new \in Seq(KustomizeEntries)
        /\ DOMAIN old = 1 .. Len(old) /\ DOMAIN new = 1 .. Len(old) + 1
        /\ new[Len(old) + 1] = withImage(name, image)
        /\ \A i \in DOMAIN old : new[i] = old[i]
    BY <1>1, <1>4, <2>1
  <2> HIDE DEF new
  <2>3. update.file = [valid |-> file.valid, images |-> new]
    BY <1>1, <1>3
  <2>4. update.file \in Kustomizations
    BY <2>2, <2>3, <1>1 DEF Kustomizations
  <2>5. /\ Len(old) + 1 \in DOMAIN new
        /\ \A i \in DOMAIN new : i # Len(old) + 1 => i \in DOMAIN old /\ new[i] = old[i] /\ old[i].name # name
    BY <1>1, <1>2, <1>6, <2>2
  <2>6. Len(old) + 1 \notin DOMAIN old
    BY <1>1, <2>2
  <2>7. QED
    BY <1>1, <1>2, <1>3, <1>6, <2>2, <2>3, <2>4, <2>5, <2>6 DEF update
<1>7. QED
  BY <1>5, <1>6

\* A configured name has to be there.
LEMMA KustomizeSucceeds ==
  ASSUME NEW file \in Kustomizations, NEW image \in Images, NEW configured \in Scalars, NEW name,
         name = IF configured # "none" THEN configured ELSE image.repository,
         HasOnce(file.images, name)
  PROVE  updateKustomization(file, image, configured).ok <=>
           file.valid /\ (configured = "none" \/ \E i \in DOMAIN file.images : file.images[i].name = name)
BY KustomizeUpdate

(***************************************************************************)
(* raw-yaml                                                                *)
(***************************************************************************)

RawContainers == [name : STRING, image : ImageReferences]

\* The workloads the code's filters let through are those the configuration speaks of.
LEMMA FilteredIsAddressed ==
  ASSUME NEW doc, NEW config
  PROVE  Filtered(doc, config) <=> Addressed(doc, config)
BY DEF Filtered, Addressed

\* Nothing of a workload changes but the images of its containers.
SameButImages(new, doc) ==
  /\ new.file = doc.file /\ new.kind = doc.kind /\ new.name = doc.name /\ new.pod = doc.pod
  /\ DOMAIN new.containers = DOMAIN doc.containers
  /\ \A j \in DOMAIN doc.containers : new.containers[j].name = doc.containers[j].name

\* An image is written as a reference with its repository.
LEMMA ReferencesAreTyped ==
  ASSUME NEW image \in Images
  PROVE  imageString(image) \in ImageReferences /\ imageString(image).repository = image.repository
BY DEF Images, imageString, ImageReferences

\* What a workload holds are containers.
LEMMA ContainersAreTyped ==
  ASSUME NEW doc \in Workloads, NEW j \in DOMAIN doc.containers
  PROVE  doc.containers[j] \in RawContainers
<1>1. doc.containers \in Seq(RawContainers)
  BY DEF Workloads, RawContainers
<1>2. QED
  BY <1>1

\* A workload is determined by its fields.
LEMMA WorkloadsByField ==
  ASSUME NEW d \in Workloads, NEW e \in Workloads, d.file = e.file, d.kind = e.kind, d.name = e.name,
         d.pod = e.pod, d.containers = e.containers
  PROVE  d = e
<1>1. /\ d = [f \in {"file", "kind", "name", "pod", "containers"} |-> d[f]]
      /\ e = [f \in {"file", "kind", "name", "pod", "containers"} |-> e[f]]
  BY DEF Workloads
<1>2. QED
  BY <1>1

\* The update of a workload changes the images of the selected containers only.
LEMMA WorkloadUpdate ==
  ASSUME NEW doc \in Workloads, NEW image \in Images, NEW config
  PROVE  LET new == updateRawWorkloadNode(doc, image, config)
         IN  /\ new \in Workloads /\ SameButImages(new, doc)
             /\ \A j \in DOMAIN doc.containers :
                  new.containers[j].image = IF j \in Selected(doc, image, config)
                                            THEN imageString(image) ELSE doc.containers[j].image
<1> DEFINE old == doc.containers
           value(j) == IF j \in Selected(doc, image, config)
                       THEN [old[j] EXCEPT !.image = imageString(image)] ELSE old[j]
           containers == [j \in DOMAIN old |-> value(j)]
           new == updateRawWorkloadNode(doc, image, config)
<1>1. /\ old \in Seq(RawContainers)
      /\ doc = [file |-> doc.file, kind |-> doc.kind, name |-> doc.name, pod |-> doc.pod, containers |-> old]
      /\ doc.file \in STRING /\ doc.kind \in STRING /\ doc.name \in STRING /\ doc.pod \in BOOLEAN
  BY DEF Workloads, RawContainers
<1>2. new = [doc EXCEPT !.containers = containers]
  BY DEF updateRawWorkloadNode
<1>3. ASSUME NEW j \in DOMAIN old
      PROVE  /\ value(j) \in RawContainers /\ value(j).name = old[j].name
             /\ value(j).image = IF j \in Selected(doc, image, config)
                                 THEN imageString(image) ELSE old[j].image
  <2>1. old[j] \in RawContainers
    BY ContainersAreTyped
  <2>2. CASE j \in Selected(doc, image, config)
    BY <2>1, <2>2, ReferencesAreTyped DEF RawContainers
  <2>3. CASE j \notin Selected(doc, image, config)
    BY <2>1, <2>3
  <2>4. QED
    BY <2>2, <2>3
<1>4. containers \in Seq(RawContainers)
  <2> HIDE DEF value
  <2>1. DOMAIN old = 1 .. Len(old) /\ Len(old) \in Nat
    BY <1>1
  <2>2. QED
    BY <1>3, <2>1
<1>5. \A j \in DOMAIN old : containers[j] = value(j)
  OBVIOUS
<1>6. DOMAIN containers = DOMAIN old
  OBVIOUS
<1> HIDE DEF containers
<1>7. new = [file |-> doc.file, kind |-> doc.kind, name |-> doc.name, pod |-> doc.pod,
             containers |-> containers]
  BY <1>1, <1>2
<1>8. new \in Workloads
  BY <1>1, <1>4, <1>7 DEF Workloads, RawContainers
<1>9. SameButImages(new, doc)
  <2> HIDE DEF value, new
  <2> QED  BY <1>3, <1>5, <1>6, <1>7 DEF SameButImages
<1>10. \A j \in DOMAIN old : new.containers[j].image = IF j \in Selected(doc, image, config)
                                                     THEN imageString(image) ELSE old[j].image
  <2> HIDE DEF value, new
  <2> QED  BY <1>3, <1>5, <1>7
<1>11. QED
  BY <1>8, <1>9, <1>10

\* Of the addressed workloads the selected containers get the image.
Written(docs, image, config, i, j) ==
  Addressed(docs[i], config) /\ j \in Selected(docs[i], image, config)

\* So does the update of the manifests, in the workloads it speaks of.
LEMMA RawUpdate ==
  ASSUME NEW docs \in Seq(Workloads), NEW image \in Images, NEW config
  PROVE  LET new == updateRawYAML(docs, image, config).file
         IN  /\ new \in Seq(Workloads) /\ DOMAIN new = DOMAIN docs
             /\ \A i \in DOMAIN docs :
                  /\ SameButImages(new[i], docs[i])
                  /\ ~Addressed(docs[i], config) => new[i] = docs[i]
                  /\ \A j \in DOMAIN docs[i].containers :
                       new[i].containers[j].image = IF Written(docs, image, config, i, j)
                                                    THEN imageString(image)
                                                    ELSE docs[i].containers[j].image
<1> DEFINE value(i) == IF Filtered(docs[i], config)
                       THEN updateRawWorkloadNode(docs[i], image, config) ELSE docs[i]
           new == [i \in DOMAIN docs |-> value(i)]
<1>1. updateRawYAML(docs, image, config).file = new
  BY DEF updateRawYAML
<1>2. ASSUME NEW i \in DOMAIN docs
      PROVE  /\ value(i) \in Workloads /\ SameButImages(value(i), docs[i])
             /\ ~Addressed(docs[i], config) => value(i) = docs[i]
             /\ \A j \in DOMAIN docs[i].containers :
                  value(i).containers[j].image = IF Written(docs, image, config, i, j)
                                                 THEN imageString(image)
                                                 ELSE docs[i].containers[j].image
  <2>1. docs[i] \in Workloads
    OBVIOUS
  <2>2. CASE Filtered(docs[i], config)
    <3>1. value(i) = updateRawWorkloadNode(docs[i], image, config) /\ Addressed(docs[i], config)
      BY <2>2, FilteredIsAddressed
    <3> HIDE DEF value
    <3>2. QED
      BY <2>1, <3>1, WorkloadUpdate DEF Written
  <2>3. CASE ~Filtered(docs[i], config)
    BY <2>1, <2>3, FilteredIsAddressed DEF SameButImages, Written
  <2>4. QED
    BY <2>2, <2>3
<1>3. new \in Seq(Workloads) /\ DOMAIN new = DOMAIN docs /\ \A i \in DOMAIN docs : new[i] = value(i)
  <2> HIDE DEF value
  <2>1. DOMAIN docs = 1 .. Len(docs) /\ Len(docs) \in Nat
    OBVIOUS
  <2>2. QED
    BY <1>2, <2>1
<1> HIDE DEF value, new
<1>4. QED
  BY <1>1, <1>2, <1>3

\* What was selected is selected again, for any image of the repository.
LEMMA SelectedAgain ==
  ASSUME NEW doc, NEW new, NEW image \in Images, NEW other \in Images, NEW config,
         other.repository = image.repository, SameButImages(new, doc),
         \A j \in DOMAIN doc.containers :
           new.containers[j].image = IF j \in Selected(doc, image, config)
                                     THEN imageString(image) ELSE doc.containers[j].image
  PROVE  Selected(new, other, config) = Selected(doc, image, config)
<1> DEFINE all == DOMAIN doc.containers
           same(d) == {j \in all : imageRepository(d.containers[j].image) = image.repository}
<1>1. DOMAIN new.containers = all /\ \A j \in all : new.containers[j].name = doc.containers[j].name
  BY DEF SameButImages
<1>2. \A j \in Selected(doc, image, config) \cap all : j \in same(new)
  BY ReferencesAreTyped DEF imageRepository
<1>3. \A j \in all \ Selected(doc, image, config) : j \in same(new) <=> j \in same(doc)
  OBVIOUS
<1>4. CASE config.container # "none"
  BY <1>1, <1>4 DEF Selected
<1>5. CASE config.container = "none"
  <2>1. Selected(doc, image, config) = IF same(doc) = {} /\ Cardinality(all) = 1 THEN all ELSE same(doc)
    BY <1>5 DEF Selected
  <2>2. Selected(new, other, config) = IF same(new) = {} /\ Cardinality(all) = 1 THEN all ELSE same(new)
    BY <1>1, <1>5 DEF Selected
  <2>3. Cardinality(all) = 1 => all # {}
    BY FS_EmptySet
  <2>4. same(doc) \subseteq all /\ same(new) \subseteq all
    OBVIOUS
  <2> HIDE DEF same, all
  <2>5. CASE same(doc) = {} /\ Cardinality(all) = 1
    <3>1. Selected(doc, image, config) = all
      BY <2>1, <2>5
    <3>2. same(new) = all
      BY <1>2, <2>4, <3>1
    <3>3. QED
      BY <2>2, <2>3, <2>5, <3>1, <3>2
  <2>6. CASE ~(same(doc) = {} /\ Cardinality(all) = 1)
    <3>1. Selected(doc, image, config) = same(doc)
      BY <2>1, <2>6
    <3>2. same(new) = same(doc)
      BY <1>2, <1>3, <2>4, <3>1
    <3>3. QED
      BY <2>2, <2>6, <3>1, <3>2
  <2>7. QED
    BY <2>5, <2>6
<1>6. QED
  BY <1>4, <1>5

\* The manifests that were updated have the same containers selected the next time.
LEMMA RawSelectedAgain ==
  ASSUME NEW docs \in Seq(Workloads), NEW image \in Images, NEW other \in Images, NEW config,
         other.repository = image.repository
  PROVE  LET new == updateRawYAML(docs, image, config).file
         IN  \A i \in DOMAIN docs :
               /\ Addressed(new[i], config) <=> Addressed(docs[i], config)
               /\ Addressed(docs[i], config) =>
                    Selected(new[i], other, config) = Selected(docs[i], image, config)
<1> DEFINE new == updateRawYAML(docs, image, config).file
<1> SUFFICES ASSUME NEW i \in DOMAIN docs
             PROVE  /\ Addressed(new[i], config) <=> Addressed(docs[i], config)
                    /\ Addressed(docs[i], config) =>
                         Selected(new[i], other, config) = Selected(docs[i], image, config)
  OBVIOUS
<1>1. /\ SameButImages(new[i], docs[i])
      /\ \A j \in DOMAIN docs[i].containers :
           new[i].containers[j].image = IF Written(docs, image, config, i, j)
                                        THEN imageString(image) ELSE docs[i].containers[j].image
  BY RawUpdate
<1> HIDE DEF new
<1>2. Addressed(new[i], config) <=> Addressed(docs[i], config)
  BY <1>1 DEF SameButImages, Addressed
<1>3. ASSUME Addressed(docs[i], config)
      PROVE  Selected(new[i], other, config) = Selected(docs[i], image, config)
  BY <1>1, <1>3, SelectedAgain DEF Written
<1>4. QED
  BY <1>2, <1>3

\* A container is a workload and a position in it.
LEMMA ContainerPairs ==
  ASSUME NEW docs
  PROVE  /\ \A c \in Containers(docs) : /\ c = <<c[1], c[2]>>
                                        /\ c[1] \in DOMAIN docs /\ c[2] \in DOMAIN docs[c[1]].containers
         /\ \A i \in DOMAIN docs : \A j \in DOMAIN docs[i].containers : <<i, j>> \in Containers(docs)
BY DEF Containers

\* A successful update makes the image the only one the target deploys.
LEMMA RawUpdateRenders ==
  ASSUME NEW docs \in Seq(Workloads), NEW image \in Images, NEW config,
         updateRawYAML(docs, image, config).ok
  PROVE  LET new == updateRawYAML(docs, image, config).file
         IN  RawImages(new, image.repository, config) = {imageString(image)}
<1> DEFINE new == updateRawYAML(docs, image, config).file
           targets == TargetContainers(new, image.repository, config)
           written(i, j) == Written(docs, image, config, i, j)
<1>1. /\ DOMAIN new = DOMAIN docs
      /\ \A i \in DOMAIN docs :
           /\ DOMAIN new[i].containers = DOMAIN docs[i].containers
           /\ Addressed(new[i], config) <=> Addressed(docs[i], config)
           /\ \A j \in DOMAIN docs[i].containers :
                /\ new[i].containers[j].name = docs[i].containers[j].name
                /\ new[i].containers[j].image = IF written(i, j) THEN imageString(image)
                                                ELSE docs[i].containers[j].image
  BY RawUpdate, RawSelectedAgain DEF SameButImages
<1>2. PICK a \in DOMAIN docs : Filtered(docs[a], config) /\ Selected(docs[a], image, config) # {}
  BY DEF updateRawYAML
<1>3. PICK b : b \in Selected(docs[a], image, config)
  BY <1>2
<1>4. b \in DOMAIN docs[a].containers /\ written(a, b)
  BY <1>2, <1>3, FilteredIsAddressed DEF Selected, Written
<1> HIDE DEF new
<1>5. <<a, b>> \in targets
  <2>1. <<a, b>> \in Containers(new) /\ Addressed(new[a], config)
    BY <1>1, <1>4, ContainerPairs DEF Written
  <2>2. CASE config.container # "none"
    <3>1. new[a].containers[b].name = config.container
      BY <1>1, <1>3, <1>4, <2>2 DEF Selected
    <3>2. QED
      BY <2>1, <2>2, <3>1 DEF TargetContainers
  <2>3. CASE config.container = "none"
    <3>1. new[a].containers[b].image.repository = image.repository
      BY <1>1, <1>4, ReferencesAreTyped
    <3>2. QED
      BY <2>1, <2>3, <3>1 DEF TargetContainers
  <2>4. QED
    BY <2>2, <2>3
<1>6. ASSUME NEW c \in targets PROVE new[c[1]].containers[c[2]].image = imageString(image)
  <2>1. c \in Containers(new) /\ Addressed(new[c[1]], config)
    BY <1>6 DEF TargetContainers
  <2>2. /\ c[1] \in DOMAIN docs /\ c[2] \in DOMAIN docs[c[1]].containers
        /\ Addressed(docs[c[1]], config)
    BY <1>1, <2>1, ContainerPairs
  <2>3. CASE config.container # "none"
    <3>1. docs[c[1]].containers[c[2]].name = config.container
      BY <1>1, <2>2, <2>3 DEF TargetContainers
    <3>2. written(c[1], c[2])
      BY <2>2, <2>3, <3>1 DEF Written, Selected
    <3>3. QED
      BY <1>1, <2>2, <3>2
  <2>4. CASE config.container = "none"
    <3>1. new[c[1]].containers[c[2]].image.repository = image.repository
      <4>1. new[a].containers[b].image.repository = image.repository
        BY <1>1, <1>4, ReferencesAreTyped
      <4>2. <<a, b>> \in Containers(new) /\ Addressed(new[a], config)
        BY <1>1, <1>4, ContainerPairs DEF Written
      <4>3. QED
        BY <2>4, <4>1, <4>2 DEF TargetContainers
    <3>2. CASE written(c[1], c[2])
      BY <1>1, <2>2, <3>2
    <3>3. CASE ~written(c[1], c[2])
      <4>1. docs[c[1]].containers[c[2]].image.repository = image.repository
        BY <1>1, <2>2, <3>1, <3>3
      <4>2. c[2] \in Selected(docs[c[1]], image, config)
        BY <2>2, <2>4, <4>1 DEF Selected, imageRepository
      <4>3. QED
        BY <2>2, <3>3, <4>2 DEF Written
    <3>4. QED
      BY <3>2, <3>3
  <2>5. QED
    BY <2>3, <2>4
<1> HIDE DEF targets
<1>7. {new[c[1]].containers[c[2]].image : c \in targets} = {imageString(image)}
  <2>1. <<a, b>>[1] = a /\ <<a, b>>[2] = b
    OBVIOUS
  <2>2. QED
    BY <1>5, <1>6, <2>1
<1>8. QED
  BY <1>7 DEF new, targets, RawImages

\* The update of what an update wrote changes nothing.
LEMMA RawUpdateAgain ==
  ASSUME NEW docs \in Seq(Workloads), NEW image \in Images, NEW config
  PROVE  ~updateRawYAML(updateRawYAML(docs, image, config).file, image, config).changed
<1> DEFINE new == updateRawYAML(docs, image, config).file
           again == updateRawYAML(new, image, config).file
<1>1. /\ new \in Seq(Workloads) /\ DOMAIN new = DOMAIN docs
      /\ \A i \in DOMAIN docs :
           /\ SameButImages(new[i], docs[i])
           /\ \A j \in DOMAIN docs[i].containers :
                new[i].containers[j].image = IF Written(docs, image, config, i, j)
                                             THEN imageString(image) ELSE docs[i].containers[j].image
  BY RawUpdate
<1>2. \A i \in DOMAIN docs : \A j :
        Written(new, image, config, i, j) <=> Written(docs, image, config, i, j)
  BY RawSelectedAgain DEF Written
<1> HIDE DEF new
<1>3. /\ again \in Seq(Workloads) /\ DOMAIN again = DOMAIN new
      /\ \A i \in DOMAIN new :
           /\ SameButImages(again[i], new[i])
           /\ \A j \in DOMAIN new[i].containers :
                again[i].containers[j].image = IF Written(new, image, config, i, j)
                                               THEN imageString(image) ELSE new[i].containers[j].image
  BY <1>1, RawUpdate
<1> HIDE DEF again
<1>4. ASSUME NEW i \in DOMAIN new PROVE again[i] = new[i]
  <2>1. again[i] \in Workloads /\ new[i] \in Workloads
    BY <1>1, <1>3
  <2>2. /\ again[i].containers \in Seq(RawContainers) /\ new[i].containers \in Seq(RawContainers)
        /\ DOMAIN again[i].containers = DOMAIN new[i].containers
    BY <1>3, <2>1 DEF Workloads, RawContainers, SameButImages
  <2>3. ASSUME NEW j \in DOMAIN new[i].containers
        PROVE  again[i].containers[j] = new[i].containers[j]
    <3>1. /\ again[i].containers[j].image = new[i].containers[j].image
          /\ again[i].containers[j].name = new[i].containers[j].name
      BY <1>1, <1>2, <1>3 DEF SameButImages
    <3>2. again[i].containers[j] \in RawContainers /\ new[i].containers[j] \in RawContainers
      BY <2>1, <2>2, ContainersAreTyped
    <3>3. QED
      BY <3>1, <3>2 DEF RawContainers
  <2>4. again[i].containers = new[i].containers
    BY <2>2, <2>3
  <2>5. /\ again[i].file = new[i].file /\ again[i].kind = new[i].kind
        /\ again[i].name = new[i].name /\ again[i].pod = new[i].pod
    BY <1>3 DEF SameButImages
  <2>6. QED
    BY <2>1, <2>4, <2>5, WorkloadsByField
<1>5. again = new
  BY <1>1, <1>3, <1>4
<1>6. QED
  BY <1>5 DEF again, new, updateRawYAML

\* When an update of raw manifests succeeds.
LEMMA RawUpdateSucceeds ==
  ASSUME NEW docs, NEW image, NEW config
  PROVE  updateRawYAML(docs, image, config).ok <=>
           /\ \A f \in config.files : f # ".." /\ \E i \in DOMAIN docs : docs[i].file = f
           /\ \A i \in DOMAIN docs : Addressed(docs[i], config) => docs[i].pod
           /\ \E i \in DOMAIN docs : Addressed(docs[i], config) /\ Selected(docs[i], image, config) # {}
BY FilteredIsAddressed DEF updateRawYAML

\* After one image of the repository any other can be written.
LEMMA RawStaysUpdatable ==
  ASSUME NEW docs \in Seq(Workloads), NEW image \in Images, NEW other \in Images, NEW config,
         other.repository = image.repository, updateRawYAML(docs, image, config).ok
  PROVE  updateRawYAML(updateRawYAML(docs, image, config).file, other, config).ok
<1> DEFINE new == updateRawYAML(docs, image, config).file
<1>1. /\ DOMAIN new = DOMAIN docs
      /\ \A i \in DOMAIN docs :
           /\ new[i].file = docs[i].file /\ new[i].pod = docs[i].pod
           /\ Addressed(new[i], config) <=> Addressed(docs[i], config)
           /\ Addressed(docs[i], config) =>
                Selected(new[i], other, config) = Selected(docs[i], image, config)
  BY RawUpdate, RawSelectedAgain DEF SameButImages
<1> HIDE DEF new
<1>2. QED
  BY <1>1, RawUpdateSucceeds DEF new

RawExact(docs, config) ==
  \/ config.container # "none"
  \/ \A i, j \in DOMAIN docs : Addressed(docs[i], config) /\ Addressed(docs[j], config) => i = j

\* The containers of an exact target are the ones that are written.
LEMMA TargetsAreWritten ==
  ASSUME NEW docs, NEW image, NEW config, RawExact(docs, config),
         \E i \in DOMAIN docs : Addressed(docs[i], config) /\ Selected(docs[i], image, config) # {},
         NEW c \in Containers(docs)
  PROVE  c \in TargetContainers(docs, image.repository, config) <=> Written(docs, image, config, c[1], c[2])
<1>1. c[1] \in DOMAIN docs /\ c[2] \in DOMAIN docs[c[1]].containers
  BY ContainerPairs
<1>2. CASE config.container # "none"
  BY <1>1, <1>2 DEF TargetContainers, Written, Selected
<1>3. CASE config.container = "none"
  <2>1. PICK a \in DOMAIN docs : Addressed(docs[a], config) /\ Selected(docs[a], image, config) # {}
    OBVIOUS
  <2>2. \A i \in DOMAIN docs : Addressed(docs[i], config) => i = a
    BY <1>3, <2>1 DEF RawExact
  <2> DEFINE all == DOMAIN docs[a].containers
             same == {j \in all : docs[a].containers[j].image.repository = image.repository}
             sames == {d \in Containers(docs) : /\ Addressed(docs[d[1]], config)
                                                 /\ docs[d[1]].containers[d[2]].image.repository = image.repository}
  <2>3. sames # {} <=> same # {}
    <3>1. ASSUME NEW d \in sames PROVE d[2] \in same
      BY <2>2, ContainerPairs
    <3>2. ASSUME NEW j \in same PROVE <<a, j>> \in sames
      BY <2>1, ContainerPairs
    <3>3. QED
      BY <3>1, <3>2
  <2>4. Selected(docs[a], image, config) = IF same = {} /\ Cardinality(all) = 1 THEN all ELSE same
    BY <1>3 DEF Selected, imageRepository
  <2>5. TargetContainers(docs, image.repository, config)
          = IF sames # {} THEN sames ELSE {d \in Containers(docs) : Addressed(docs[d[1]], config)}
    BY <1>3 DEF TargetContainers
  <2>6. CASE c[1] # a
    <3>1. ~Addressed(docs[c[1]], config)
      BY <1>1, <2>2, <2>6
    <3>2. QED
      BY <2>5, <3>1 DEF Written
  <2>7. CASE c[1] = a
    <3>1. c \in sames <=> c[2] \in same
      BY <1>1, <2>1, <2>7
    <3>2. c \in TargetContainers(docs, image.repository, config) <=> (same # {} => c[2] \in same)
      BY <2>1, <2>3, <2>5, <2>7, <3>1
    <3>3. c[2] \in Selected(docs[a], image, config) <=> (same # {} => c[2] \in same)
      <4>1. CASE same # {}
        BY <2>4, <4>1
      <4>2. CASE same = {}
        <5>1. Selected(docs[a], image, config) = all
          BY <2>1, <2>4, <4>2
        <5>2. QED
          BY <1>1, <2>7, <4>2, <5>1
      <4>3. QED
        BY <4>1, <4>2
    <3>4. QED
      BY <2>1, <2>7, <3>2, <3>3 DEF Written
  <2>8. QED
    BY <2>6, <2>7
<1>4. QED
  BY <1>2, <1>3

\* An exact target leaves the other containers alone.
LEMMA RawUpdateKeepsRest ==
  ASSUME NEW docs \in Seq(Workloads), NEW image \in Images, NEW config, RawExact(docs, config),
         updateRawYAML(docs, image, config).ok
  PROVE  LET new == updateRawYAML(docs, image, config).file
         IN  /\ RawExact(new, config)
             /\ RawOthers(new, image.repository, config) = RawOthers(docs, image.repository, config)
<1> DEFINE new == updateRawYAML(docs, image, config).file
           rest(d) == Containers(d) \ TargetContainers(d, image.repository, config)
<1>1. /\ new \in Seq(Workloads) /\ DOMAIN new = DOMAIN docs
      /\ \A i \in DOMAIN docs :
           /\ SameButImages(new[i], docs[i])
           /\ \A j \in DOMAIN docs[i].containers :
                new[i].containers[j].image = IF Written(docs, image, config, i, j)
                                             THEN imageString(image) ELSE docs[i].containers[j].image
  BY RawUpdate
<1>2. \A i \in DOMAIN docs :
        /\ Addressed(new[i], config) <=> Addressed(docs[i], config)
        /\ Addressed(docs[i], config) => Selected(new[i], image, config) = Selected(docs[i], image, config)
  BY RawSelectedAgain
<1> HIDE DEF new
<1>3. RawExact(new, config)
  BY <1>1, <1>2 DEF RawExact
<1>4. Containers(new) = Containers(docs)
  <2>1. \A i \in DOMAIN docs : DOMAIN new[i].containers = DOMAIN docs[i].containers
    BY <1>1 DEF SameButImages
  <2>2. QED
    BY <1>1, <2>1 DEF Containers
<1>5. \E i \in DOMAIN docs : Addressed(docs[i], config) /\ Selected(docs[i], image, config) # {}
  BY RawUpdateSucceeds
<1>6. \E i \in DOMAIN new : Addressed(new[i], config) /\ Selected(new[i], image, config) # {}
  BY <1>1, <1>2, <1>5
<1>7. ASSUME NEW c \in Containers(docs)
      PROVE  /\ c \in rest(new) <=> c \in rest(docs)
             /\ c \in rest(docs) => new[c[1]].containers[c[2]] = docs[c[1]].containers[c[2]]
  <2>1. c[1] \in DOMAIN docs /\ c[2] \in DOMAIN docs[c[1]].containers
    BY ContainerPairs
  <2>2. /\ c \in rest(docs) <=> ~Written(docs, image, config, c[1], c[2])
        /\ c \in rest(new) <=> ~Written(new, image, config, c[1], c[2])
    BY <1>3, <1>4, <1>5, <1>6, TargetsAreWritten
  <2>3. Written(new, image, config, c[1], c[2]) <=> Written(docs, image, config, c[1], c[2])
    BY <1>2, <2>1 DEF Written
  <2>4. ASSUME ~Written(docs, image, config, c[1], c[2])
        PROVE  new[c[1]].containers[c[2]] = docs[c[1]].containers[c[2]]
    <3>1. /\ new[c[1]].containers[c[2]].image = docs[c[1]].containers[c[2]].image
          /\ new[c[1]].containers[c[2]].name = docs[c[1]].containers[c[2]].name
          /\ c[2] \in DOMAIN new[c[1]].containers
      BY <1>1, <2>1, <2>4 DEF SameButImages
    <3>2. /\ new[c[1]].containers[c[2]] \in RawContainers
          /\ docs[c[1]].containers[c[2]] \in RawContainers
      <4>1. new[c[1]] \in Workloads /\ docs[c[1]] \in Workloads
        BY <1>1, <2>1
      <4>2. QED
        BY <2>1, <3>1, <4>1, ContainersAreTyped
    <3>3. QED
      BY <3>1, <3>2 DEF RawContainers
  <2>5. QED
    BY <2>2, <2>3, <2>4
<1>8. rest(new) = rest(docs)
  BY <1>4, <1>7
<1>9. \A c \in rest(docs) : new[c[1]].containers[c[2]] = docs[c[1]].containers[c[2]]
  BY <1>7
<1>10. QED
  <2> HIDE DEF rest
  <2>1. [c \in rest(new) |-> new[c[1]].containers[c[2]]]
          = [c \in rest(docs) |-> docs[c[1]].containers[c[2]]]
    BY <1>8, <1>9
  <2>2. QED
    BY <1>3, <2>1 DEF new, rest, RawOthers

\* The filters of two configurations, or their containers, exclude each other.
RawApart(config, other) ==
  \/ config.files # {} /\ other.files # {} /\ config.files \cap other.files = {}
  \/ \E f \in {"kind", "name", "container"} :
       "none" \notin {config[f], other[f]} /\ config[f] # other[f]

\* An update keeps what a target apart from it deploys and needs.
LEMMA RawUpdateKeepsOthers ==
  ASSUME NEW docs \in Seq(Workloads), NEW image \in Images, NEW config, NEW other, RawApart(config, other)
  PROVE  LET new == updateRawYAML(docs, image, config).file
         IN  /\ RawExact(docs, other) => RawExact(new, other)
             /\ \A i2 : updateRawYAML(new, i2, other).ok <=> updateRawYAML(docs, i2, other).ok
             /\ \A r : RawImages(new, r, other) = RawImages(docs, r, other)
<1> DEFINE new == updateRawYAML(docs, image, config).file
<1>1. /\ DOMAIN new = DOMAIN docs
      /\ \A i \in DOMAIN docs :
           /\ SameButImages(new[i], docs[i])
           /\ ~Addressed(docs[i], config) => new[i] = docs[i]
           /\ \A j \in DOMAIN docs[i].containers :
                new[i].containers[j].image = IF Written(docs, image, config, i, j)
                                             THEN imageString(image) ELSE docs[i].containers[j].image
  BY RawUpdate
<1> HIDE DEF new
<1>2. \A i \in DOMAIN docs : Addressed(new[i], other) <=> Addressed(docs[i], other)
  BY <1>1 DEF SameButImages, Addressed
<1>3. Containers(new) = Containers(docs)
  <2>1. \A i \in DOMAIN docs : DOMAIN new[i].containers = DOMAIN docs[i].containers
    BY <1>1 DEF SameButImages
  <2>2. QED
    BY <1>1, <2>1 DEF Containers
<1>4. ASSUME NEW i \in DOMAIN docs, Addressed(docs[i], other)
      PROVE  \/ new[i] = docs[i]
             \/ /\ other.container # "none"
                /\ \A j \in DOMAIN docs[i].containers :
                     docs[i].containers[j].name = other.container =>
                       new[i].containers[j].image = docs[i].containers[j].image
  <2>1. CASE ~Addressed(docs[i], config)
    BY <1>1, <2>1
  <2>2. CASE Addressed(docs[i], config)
    <3>1. "none" \notin {config.container, other.container} /\ config.container # other.container
      BY <1>4, <2>2 DEF RawApart, Addressed
    <3>2. \A j \in DOMAIN docs[i].containers :
            docs[i].containers[j].name = other.container => ~Written(docs, image, config, i, j)
      BY <3>1 DEF Written, Selected
    <3>3. QED
      BY <1>1, <3>1, <3>2
  <2>3. QED
    BY <2>1, <2>2
<1>5. RawExact(docs, other) => RawExact(new, other)
  BY <1>1, <1>2 DEF RawExact
<1>6. ASSUME NEW i2 PROVE updateRawYAML(new, i2, other).ok <=> updateRawYAML(docs, i2, other).ok
  <2>1. ASSUME NEW i \in DOMAIN docs, Addressed(docs[i], other)
        PROVE  Selected(new[i], i2, other) = Selected(docs[i], i2, other)
    <3>1. CASE new[i] = docs[i]
      BY <3>1
    <3>2. CASE other.container # "none"
      BY <1>1, <3>2 DEF Selected, SameButImages
    <3>3. QED
      BY <1>4, <2>1, <3>1, <3>2
  <2>2. \A i \in DOMAIN docs : new[i].file = docs[i].file /\ new[i].pod = docs[i].pod
    BY <1>1 DEF SameButImages
  <2>3. QED
    BY <1>1, <1>2, <2>1, <2>2, RawUpdateSucceeds
<1>7. ASSUME NEW r
      PROVE  RawImages(new, r, other) = RawImages(docs, r, other)
  <2> DEFINE of(d) == {c \in Containers(docs) : Addressed(d[c[1]], other)}
             same(d) == {c \in of(d) : d[c[1]].containers[c[2]].image.repository = r}
             named(d) == {c \in of(d) : d[c[1]].containers[c[2]].name = other.container}
  <2>1. of(new) = of(docs)
    BY <1>2, ContainerPairs
  <2>2. CASE other.container # "none"
    <3>1. /\ TargetContainers(new, r, other) = named(new)
          /\ TargetContainers(docs, r, other) = named(docs)
      BY <1>3, <2>2 DEF TargetContainers
    <3>2. ASSUME NEW c \in of(docs)
          PROVE  /\ c \in named(new) <=> c \in named(docs)
                 /\ c \in named(docs) =>
                      new[c[1]].containers[c[2]].image = docs[c[1]].containers[c[2]].image
      <4>1. c[1] \in DOMAIN docs /\ c[2] \in DOMAIN docs[c[1]].containers /\ Addressed(docs[c[1]], other)
        BY ContainerPairs
      <4>2. new[c[1]].containers[c[2]].name = docs[c[1]].containers[c[2]].name
        BY <1>1, <4>1 DEF SameButImages
      <4>3. QED
        BY <1>4, <2>1, <4>1, <4>2
    <3>3. named(new) = named(docs)
      BY <2>1, <3>2
    <3>4. \A c \in named(docs) : new[c[1]].containers[c[2]].image = docs[c[1]].containers[c[2]].image
      BY <3>2
    <3> HIDE DEF named
    <3>5. QED
      BY <3>1, <3>3, <3>4 DEF RawImages
  <2>3. CASE other.container = "none"
    <3>1. /\ TargetContainers(new, r, other) = IF same(new) # {} THEN same(new) ELSE of(new)
          /\ TargetContainers(docs, r, other) = IF same(docs) # {} THEN same(docs) ELSE of(docs)
      BY <1>3, <2>3 DEF TargetContainers
    <3>2. \A c \in of(docs) : new[c[1]] = docs[c[1]]
      BY <1>4, <2>3, ContainerPairs
    <3>3. same(new) = same(docs)
      BY <2>1, <3>2
    <3>4. /\ TargetContainers(new, r, other) = TargetContainers(docs, r, other)
          /\ \A c \in TargetContainers(docs, r, other) : c \in of(docs)
      BY <2>1, <3>1, <3>3
    <3> HIDE DEF of
    <3>5. \A c \in TargetContainers(docs, r, other) : new[c[1]] = docs[c[1]]
      BY <3>2, <3>4
    <3>6. QED
      BY <3>4, <3>5 DEF RawImages
  <2>4. QED
    BY <2>2, <2>3
<1>8. QED
  BY <1>5, <1>6, <1>7 DEF new

(***************************************************************************)
(* Any strategy.                                                           *)
(***************************************************************************)

\* The entry that is written stands for the image.
LEMMA KustomizeRenders ==
  ASSUME NEW image \in Images, NEW name
  PROVE  LET e == withImage(name, image)
         IN  /\ e.name = name
             /\ imageString([repository |-> e.newName, tag |-> e.newTag, digest |-> e.digest])
                  = imageString(image)
BY DEF withImage, imageString

\* A kustomization with that entry only deploys the image.
LEMMA EntryRenders ==
  ASSUME NEW image \in Images, NEW name, NEW images,
         {x \in Range(images) : x.name = name} = {withImage(name, image)}
  PROVE  EntryImages(images, name) = {imageString(image)}
<1> DEFINE S == {x \in Range(images) : x.name = name}
           ref(e) == imageString([repository |-> e.newName, tag |-> e.newTag, digest |-> e.digest])
<1>1. EntryImages(images, name) = {ref(e) : e \in S}
  BY DEF EntryImages
<1>2. S = {withImage(name, image)} /\ ref(withImage(name, image)) = imageString(image)
  BY KustomizeRenders
<1> HIDE DEF S, ref
<1>3. QED
  BY <1>1, <1>2

(***************************************************************************)
(* Any strategy: the update of a file by a target.                         *)
(***************************************************************************)

\* What a target holds, by strategy.
LEMMA TargetsByStrategy ==
  ASSUME NEW t \in GitOpsSpecs
  PROVE  \/ t.strategy = "helm-values" /\ t.fields \in Fields
         \/ t.strategy = "kustomize-image" /\ t.imageName \in Scalars
         \/ t.strategy = "raw-yaml"
BY DEF GitOpsSpecs, Fields, Paths

\* What the conditions say of a Helm target,
LEMMA HelmTarget ==
  ASSUME NEW t \in GitOpsSpecs, t.strategy = "helm-values", NEW file
  PROVE  /\ t.fields \in Fields
         /\ HasFormat(file, t) <=> IsDocument(file)
         /\ \A r : ClearFile(file, t, r) <=> FieldsApart(t.fields)
         /\ ExactFile(file, t) <=> \A f \in Range(t.fields) : IsLeaf(file, f)
<1>1. t.fields \in Fields
  BY TargetsByStrategy
<1>2. HasFormat(file, t) <=> IsDocument(file)
  BY DEF HasFormat, IsDocument, Paths
<1>3. /\ \A r : ClearFile(file, t, r) <=> FieldsApart(t.fields)
      /\ ExactFile(file, t) <=> \A f \in Range(t.fields) : IsLeaf(file, f)
  BY DEF ClearFile, FieldsApart, ExactFile, IsLeaf
<1>4. QED
  BY <1>1, <1>2, <1>3

\* what it deploys,
LEMMA HelmRendered ==
  ASSUME NEW t, t.strategy = "helm-values", NEW file, NEW r
  PROVE  RenderedFile(file, t, r) =
           {imageString([repository |-> Field(file, t.fields.repository),
                         tag |-> Field(file, t.fields.tag), digest |-> Field(file, t.fields.digest)])}
<1>1. [f \in {"repository", "tag", "digest"} |-> Field(file, t.fields[f])]
        = [repository |-> Field(file, t.fields.repository), tag |-> Field(file, t.fields.tag),
           digest |-> Field(file, t.fields.digest)]
  OBVIOUS
<1>2. QED
  BY <1>1 DEF RenderedFile

\* what the conditions say of a kustomize target,
LEMMA KustomizeTarget ==
  ASSUME NEW t \in GitOpsSpecs, t.strategy = "kustomize-image", NEW file
  PROVE  /\ t.imageName \in Scalars
         /\ HasFormat(file, t) <=> file \in Kustomizations
         /\ \A r : ClearFile(file, t, r) <=> HasOnce(file.images, EntryName(t, r))
         /\ ExactFile(file, t)
<1>1. t.imageName \in Scalars
  BY TargetsByStrategy
<1>2. /\ HasFormat(file, t) <=> file \in Kustomizations
      /\ ExactFile(file, t)
  BY DEF HasFormat, Kustomizations, ExactFile
<1>3. \A r : ClearFile(file, t, r) <=> HasOnce(file.images, EntryName(t, r))
  BY DEF ClearFile, HasOnce
<1>4. QED
  BY <1>1, <1>2, <1>3

\* and of raw manifests.
LEMMA RawTarget ==
  ASSUME NEW t \in GitOpsSpecs, t.strategy = "raw-yaml", NEW file
  PROVE  /\ HasFormat(file, t) <=> file \in Seq(Workloads)
         /\ \A r : ClearFile(file, t, r)
         /\ ExactFile(file, t) <=> RawExact(file, t.raw)
BY DEF HasFormat, ClearFile, ExactFile, RawExact

\* The update is that of the target's strategy.
LEMMA UpdateByStrategy ==
  ASSUME NEW t, NEW file, NEW image
  PROVE  /\ t.strategy = "helm-values" =>
              updateFile(file, image, t) = updateHelmValues(file, image, t.fields)
         /\ t.strategy = "kustomize-image" =>
              updateFile(file, image, t) = updateKustomization(file, image, t.imageName)
         /\ t.strategy = "raw-yaml" => updateFile(file, image, t) = updateRawYAML(file, image, t.raw)
BY DEF updateFile

\* A successful update renders the image, and finds nothing to do the next time.
LEMMA UpdateRenders ==
  ASSUME NEW t \in GitOpsSpecs, NEW image \in Images, NEW file, HasFormat(file, t),
         ClearFile(file, t, image.repository), updateFile(file, image, t).ok
  PROVE  LET new == updateFile(file, image, t).file
         IN  /\ RenderedFile(new, t, image.repository) = {imageString(image)}
             /\ ~updateFile(new, image, t).changed
<1> DEFINE new == updateFile(file, image, t).file
<1>1. CASE t.strategy = "helm-values"
  <2>0. IsDocument(file) /\ t.fields \in Fields /\ FieldsApart(t.fields)
    BY <1>1, HelmTarget
  <2>1. IsDocument(new) /\ HasImage(new, image, t.fields)
    BY <1>1, <2>0, UpdateByStrategy, HelmUpdateHasImage
  <2> HIDE DEF new
  <2>2. ~updateFile(new, image, t).changed
    BY <1>1, <2>0, <2>1, UpdateByStrategy, HelmUpdateAgain
  <2>3. /\ Field(new, t.fields.repository) = image.repository
        /\ Field(new, t.fields.tag) = image.tag
        /\ Field(new, t.fields.digest) = image.digest
    BY <2>0, <2>1, FieldsAreUnrelated, ValueIsField DEF HasImage
  <2>4. RenderedFile(new, t, image.repository) = {imageString(image)}
    BY <1>1, <2>3, HelmRendered DEF imageString
  <2>5. QED
    BY <2>2, <2>4 DEF new
<1>2. CASE t.strategy = "kustomize-image"
  <2> DEFINE name == EntryName(t, image.repository)
             again == updateFile(new, image, t).file
  <2>1. /\ file \in Kustomizations /\ t.imageName \in Scalars /\ HasOnce(file.images, name)
        /\ name = IF t.imageName # "none" THEN t.imageName ELSE image.repository
        /\ new = updateKustomization(file, image, t.imageName).file
    BY <1>2, KustomizeTarget, UpdateByStrategy DEF EntryName
  <2>2. PICK at \in DOMAIN new.images :
          /\ new.images[at] = withImage(name, image)
          /\ \A i \in DOMAIN new.images : i # at => new.images[i].name # name
    <3> HIDE DEF new, name
    <3> QED  BY <2>1, KustomizeUpdate
  <2>3. new \in Kustomizations
    <3> HIDE DEF new, name
    <3> QED  BY <2>1, KustomizeUpdate
  <2> HIDE DEF new
  <2>4. new.images[at].name = name
    BY <2>2, KustomizeRenders
  <2>5. HasOnce(new.images, name)
    BY <2>2 DEF HasOnce
  <2>6. PICK a \in DOMAIN again.images :
          /\ again.images[a] = withImage(name, image)
          /\ \A i \in DOMAIN again.images : i # a =>
               i \in DOMAIN new.images /\ again.images[i] = new.images[i] /\ new.images[i].name # name
    <3>1. again = updateKustomization(new, image, t.imageName).file
      BY <1>2, UpdateByStrategy
    <3> HIDE DEF again, name
    <3>2. QED
      BY <2>1, <2>3, <2>5, <3>1, KustomizeUpdate
  <2>7. /\ DOMAIN new.images \subseteq DOMAIN again.images /\ again \in Kustomizations
        /\ updateFile(new, image, t).changed <=> again.images # new.images
    <3>1. again = updateKustomization(new, image, t.imageName).file
          /\ updateFile(new, image, t) = updateKustomization(new, image, t.imageName)
      BY <1>2, UpdateByStrategy
    <3> HIDE DEF again, name
    <3>2. QED
      BY <2>1, <2>3, <2>5, <3>1, KustomizeUpdate
  <2> HIDE DEF again
  <2>8. a = at
    BY <2>2, <2>4, <2>6, <2>7
  <2>9. again.images = new.images
    <3>1. again.images \in Seq(KustomizeEntries) /\ new.images \in Seq(KustomizeEntries)
      BY <2>3, <2>7 DEF Kustomizations
    <3>2. /\ DOMAIN again.images = DOMAIN new.images
          /\ \A i \in DOMAIN new.images : again.images[i] = new.images[i]
      BY <2>2, <2>6, <2>7, <2>8
    <3>3. QED
      BY <3>1, <3>2
  <2>10. {x \in Range(new.images) : x.name = name} = {withImage(name, image)}
    BY <2>2, <2>4 DEF Range
  <2>11. RenderedFile(new, t, image.repository) = {imageString(image)}
    <3>1. RenderedFile(new, t, image.repository) = EntryImages(new.images, name)
      BY <1>2 DEF RenderedFile
    <3> HIDE DEF name
    <3>2. QED
      BY <2>10, <3>1, EntryRenders
  <2>12. QED
    BY <2>7, <2>9, <2>11 DEF new
<1>3. CASE t.strategy = "raw-yaml"
  <2>1. /\ file \in Seq(Workloads) /\ updateFile(file, image, t) = updateRawYAML(file, image, t.raw)
        /\ updateFile(new, image, t) = updateRawYAML(new, image, t.raw)
    BY <1>3, RawTarget, UpdateByStrategy
  <2>2. RenderedFile(new, t, image.repository) = RawImages(new, image.repository, t.raw)
    BY <1>3 DEF RenderedFile
  <2>3. RenderedFile(new, t, image.repository) = {imageString(image)}
    BY <2>1, <2>2, RawUpdateRenders
  <2>4. ~updateFile(new, image, t).changed
    BY <2>1, RawUpdateAgain
  <2>5. QED
    BY <2>3, <2>4
<1>4. QED
  BY <1>1, <1>2, <1>3, TargetsByStrategy

\* An update that reports no change makes none.
LEMMA UnchangedIsSame ==
  ASSUME NEW t \in GitOpsSpecs, NEW image \in Images, NEW file, HasFormat(file, t),
         ClearFile(file, t, image.repository), ~updateFile(file, image, t).changed
  PROVE  updateFile(file, image, t).file = file
<1>1. CASE t.strategy = "helm-values"
  <2>1. updateFile(file, image, t) = updateHelmValues(file, image, t.fields)
    BY <1>1, UpdateByStrategy
  <2>2. ~updateHelmValues(file, image, t.fields).changed => updateHelmValues(file, image, t.fields).file = file
    BY DEF updateHelmValues
  <2>3. QED
    BY <2>1, <2>2
<1>2. CASE t.strategy = "kustomize-image"
  <2> DEFINE name == EntryName(t, image.repository)
             new == updateFile(file, image, t).file
  <2>1. /\ file \in Kustomizations /\ t.imageName \in Scalars /\ HasOnce(file.images, name)
        /\ name = IF t.imageName # "none" THEN t.imageName ELSE image.repository
        /\ updateFile(file, image, t) = updateKustomization(file, image, t.imageName)
    BY <1>2, KustomizeTarget, UpdateByStrategy DEF EntryName
  <2>2. new \in Kustomizations /\ new.valid = file.valid /\ new.images = file.images
    <3> HIDE DEF name
    <3> QED  BY <2>1, KustomizeUpdate
  <2> HIDE DEF new
  <2>3. new = file
    BY <2>1, <2>2 DEF Kustomizations
  <2>4. QED
    BY <2>3 DEF new
<1>3. CASE t.strategy = "raw-yaml"
  <2>1. updateFile(file, image, t) = updateRawYAML(file, image, t.raw)
    BY <1>3, UpdateByStrategy
  <2>2. ~updateRawYAML(file, image, t.raw).changed => updateRawYAML(file, image, t.raw).file = file
    BY DEF updateRawYAML
  <2>3. QED
    BY <2>1, <2>2
<1>4. QED
  BY <1>1, <1>2, <1>3, TargetsByStrategy

\* An update leaves the file as its own and other targets need it.
LEMMA UpdateKeepsFormat ==
  ASSUME NEW t \in GitOpsSpecs, NEW image \in Images, NEW file, HasFormat(file, t),
         ClearFile(file, t, image.repository),
         NEW u \in GitOpsSpecs, u.strategy = t.strategy, NEW r, ClearFile(file, u, r)
  PROVE  LET new == updateFile(file, image, t).file
         IN  HasFormat(new, u) /\ ClearFile(new, u, r)
<1> DEFINE new == updateFile(file, image, t).file
<1>1. CASE t.strategy = "helm-values"
  <2>1. IsDocument(file) /\ t.fields \in Fields /\ FieldsApart(t.fields) /\ FieldsApart(u.fields)
    BY <1>1, HelmTarget
  <2>2. IsDocument(new)
    BY <1>1, <2>1, UpdateByStrategy, HelmUpdateHasImage
  <2> HIDE DEF new
  <2>3. HasFormat(new, u) /\ ClearFile(new, u, r)
    BY <1>1, <2>1, <2>2, HelmTarget
  <2>4. QED
    BY <2>3 DEF new
<1>2. CASE t.strategy = "kustomize-image"
  <2> DEFINE name == EntryName(t, image.repository)
             other == EntryName(u, r)
  <2>1. /\ file \in Kustomizations /\ t.imageName \in Scalars /\ HasOnce(file.images, name)
        /\ name = IF t.imageName # "none" THEN t.imageName ELSE image.repository
        /\ HasOnce(file.images, other)
        /\ new = updateKustomization(file, image, t.imageName).file
    BY <1>2, KustomizeTarget, UpdateByStrategy DEF EntryName
  <2> HIDE DEF name, other, new
  <2>2. PICK at \in DOMAIN new.images :
          /\ new.images[at] = withImage(name, image)
          /\ at \in DOMAIN file.images => file.images[at].name = name
          /\ \A i \in DOMAIN new.images : i # at =>
               i \in DOMAIN file.images /\ new.images[i] = file.images[i] /\ file.images[i].name # name
    BY <2>1, KustomizeUpdate
  <2>3. new.images[at].name = name
    BY <2>2, KustomizeRenders
  <2>4. HasOnce(new.images, other)
    BY <2>1, <2>2, <2>3 DEF HasOnce
  <2>5. new \in Kustomizations
    BY <2>1, KustomizeUpdate
  <2>6. QED
    BY <1>2, <2>4, <2>5, KustomizeTarget DEF new, other
<1>3. CASE t.strategy = "raw-yaml"
  BY <1>3, RawTarget, UpdateByStrategy, RawUpdate
<1>4. QED
  BY <1>1, <1>2, <1>3, TargetsByStrategy

(***************************************************************************)
(* What an update leaves alone.                                            *)
(***************************************************************************)

\* The rest of a Helm file is the same if its nodes are.
LEMMA HelmOthers ==
  ASSUME NEW t, t.strategy = "helm-values", NEW new, NEW file, NEW r,
         SameRest(new, file, Range(t.fields))
  PROVE  Others(new, t, r) = Others(file, t, r)
<1> DEFINE D(d) == {q \in DOMAIN d : d[q] # "map"} \ Range(t.fields)
<1>1. D(new) = D(file) /\ \A p \in D(file) : new[p] = file[p]
  BY DEF SameRest
<1>2. Others(new, t, r) = [p \in D(new) |-> new[p]] /\ Others(file, t, r) = [p \in D(file) |-> file[p]]
  BY DEF Others
<1> HIDE DEF D
<1>3. QED
  BY <1>1, <1>2

\* A successful update of an exact target leaves the rest of its file alone, and
\* any other image of the repository can be written next.
LEMMA UpdateKeepsRest ==
  ASSUME NEW t \in GitOpsSpecs, NEW image \in Images, NEW file, HasFormat(file, t),
         ClearFile(file, t, image.repository), updateFile(file, image, t).ok
  PROVE  LET new == updateFile(file, image, t).file
         IN  /\ ExactFile(file, t) =>
                  ExactFile(new, t) /\ Others(new, t, image.repository) = Others(file, t, image.repository)
             /\ \A other \in Images :
                  other.repository = image.repository => updateFile(new, other, t).ok
<1> DEFINE new == updateFile(file, image, t).file
<1>1. CASE t.strategy = "helm-values"
  <2>1. /\ IsDocument(file) /\ t.fields \in Fields /\ FieldsApart(t.fields)
        /\ updateFile(file, image, t) = updateHelmValues(file, image, t.fields)
    BY <1>1, HelmTarget, UpdateByStrategy
  <2>2. \A other \in Images : updateHelmValues(new, other, t.fields).ok
    BY <2>1, HelmStaysUpdatable
  <2>3. \A other \in Images : updateFile(new, other, t) = updateHelmValues(new, other, t.fields)
    BY <1>1, UpdateByStrategy
  <2>4. ASSUME ExactFile(file, t)
        PROVE  ExactFile(new, t) /\ Others(new, t, image.repository) = Others(file, t, image.repository)
    <3>1. \A f \in Range(t.fields) : IsLeaf(file, f)
      BY <1>1, <2>4, HelmTarget
    <3>2. SameRest(new, file, Range(t.fields)) /\ \A f \in Range(t.fields) : IsLeaf(new, f)
      BY <2>1, <3>1, HelmUpdateKeepsRest
    <3> HIDE DEF new
    <3>3. QED
      BY <1>1, <3>2, HelmTarget, HelmOthers
  <2>5. QED
    BY <2>2, <2>3, <2>4
<1>2. CASE t.strategy = "kustomize-image"
  <2> DEFINE name == EntryName(t, image.repository)
  <2>1. /\ file \in Kustomizations /\ t.imageName \in Scalars /\ HasOnce(file.images, name)
        /\ name = IF t.imageName # "none" THEN t.imageName ELSE image.repository
        /\ updateFile(file, image, t) = updateKustomization(file, image, t.imageName)
    BY <1>2, KustomizeTarget, UpdateByStrategy DEF EntryName
  <2>2. /\ new \in Kustomizations /\ new.valid = file.valid /\ file.valid
        /\ DOMAIN file.images \subseteq DOMAIN new.images
    <3> HIDE DEF name
    <3> QED  BY <2>1, KustomizeUpdate
  <2>3. PICK at \in DOMAIN new.images :
          /\ new.images[at] = withImage(name, image)
          /\ at \in DOMAIN file.images => file.images[at].name = name
          /\ \A i \in DOMAIN new.images : i # at =>
               i \in DOMAIN file.images /\ new.images[i] = file.images[i] /\ file.images[i].name # name
    <3> HIDE DEF name
    <3> QED  BY <2>1, KustomizeUpdate
  <2> HIDE DEF new
  <2>4. new.images[at].name = name
    BY <2>3 DEF withImage
  <2>5. HasOnce(new.images, name)
    BY <2>3 DEF HasOnce
  <2>6. ASSUME NEW other \in Images, other.repository = image.repository
        PROVE  updateFile(new, other, t).ok
    <3>1. updateFile(new, other, t) = updateKustomization(new, other, t.imageName)
      BY <1>2, UpdateByStrategy
    <3>2. name = IF t.imageName # "none" THEN t.imageName ELSE other.repository
      BY <2>1, <2>6
    <3> HIDE DEF name
    <3>3. QED
      <4>1. updateKustomization(new, other, t.imageName).ok <=>
              new.valid /\ (t.imageName = "none" \/ \E i \in DOMAIN new.images : new.images[i].name = name)
        <5>1. t.imageName \in Scalars /\ new \in Kustomizations
          BY <2>1, <2>2
        <5>2. QED
          BY <2>5, <3>2, <5>1, KustomizeSucceeds
      <4>2. QED
        BY <2>2, <2>4, <3>1, <4>1
  <2>7. OtherEntries(new.images, name) = OtherEntries(file.images, name)
    <3> DEFINE D(s) == {j \in DOMAIN s : s[j].name # name}
    <3>1. D(new.images) = D(file.images) /\ \A i \in D(file.images) : new.images[i] = file.images[i]
      <4>1. \A i : i \in DOMAIN new.images /\ new.images[i].name # name
                    <=> i \in DOMAIN file.images /\ file.images[i].name # name
        BY <2>2, <2>3, <2>4
      <4>2. \A i \in DOMAIN file.images : file.images[i].name # name => new.images[i] = file.images[i]
        BY <2>2, <2>3, <2>4
      <4>3. QED
        BY <4>1, <4>2
    <3>2. /\ OtherEntries(new.images, name) = [i \in D(new.images) |-> new.images[i]]
          /\ OtherEntries(file.images, name) = [i \in D(file.images) |-> file.images[i]]
      BY DEF OtherEntries
    <3> HIDE DEF D
    <3>3. QED
      BY <3>1, <3>2
  <2>8. Others(new, t, image.repository) = Others(file, t, image.repository)
    <3>1. /\ Others(new, t, image.repository) = OtherEntries(new.images, name)
          /\ Others(file, t, image.repository) = OtherEntries(file.images, name)
      BY <1>2 DEF Others
    <3>2. QED
      BY <2>7, <3>1
  <2>9. ExactFile(new, t)
    BY <1>2, KustomizeTarget
  <2>10. QED
    BY <2>6, <2>8, <2>9 DEF new
<1>3. CASE t.strategy = "raw-yaml"
  <2>1. /\ file \in Seq(Workloads) /\ updateFile(file, image, t) = updateRawYAML(file, image, t.raw)
        /\ ExactFile(file, t) => RawExact(file, t.raw)
    BY <1>3, RawTarget, UpdateByStrategy
  <2>2. \A other \in Images : updateFile(new, other, t) = updateRawYAML(new, other, t.raw)
    BY <1>3, UpdateByStrategy
  <2>3. \A other \in Images : other.repository = image.repository => updateRawYAML(new, other, t.raw).ok
    BY <2>1, RawStaysUpdatable
  <2>4. ASSUME ExactFile(file, t)
        PROVE  /\ RawExact(new, t.raw)
               /\ RawOthers(new, image.repository, t.raw) = RawOthers(file, image.repository, t.raw)
    BY <2>1, <2>4, RawUpdateKeepsRest
  <2> HIDE DEF new
  <2>5. /\ Others(new, t, image.repository) = RawOthers(new, image.repository, t.raw)
        /\ Others(file, t, image.repository) = RawOthers(file, image.repository, t.raw)
        /\ RawExact(new, t.raw) => ExactFile(new, t)
    BY <1>3, RawTarget DEF Others
  <2>6. QED
    BY <2>2, <2>3, <2>4, <2>5 DEF new
<1>4. QED
  BY <1>1, <1>2, <1>3, TargetsByStrategy

\* An update changes nothing for a target apart: it renders the same and can be
\* updated as before.
LEMMA UpdateKeepsOther ==
  ASSUME NEW t \in GitOpsSpecs, NEW image \in Images, NEW file, HasFormat(file, t),
         ClearFile(file, t, image.repository),
         NEW u \in GitOpsSpecs, u.strategy = t.strategy, manifestPath(u) = manifestPath(t),
         NEW other \in Images, ClearFile(file, u, other.repository),
         Apart(t, u, image.repository, other.repository)
  PROVE  LET new == updateFile(file, image, t).file
         IN  /\ ExactFile(file, u) => ExactFile(new, u)
             /\ RenderedFile(new, u, other.repository) = RenderedFile(file, u, other.repository)
             /\ updateFile(new, other, u).ok <=> updateFile(file, other, u).ok
<1> DEFINE new == updateFile(file, image, t).file
<1>1. CASE t.strategy = "helm-values"
  <2>1. /\ IsDocument(file) /\ t.fields \in Fields /\ FieldsApart(t.fields)
        /\ u.fields \in Fields /\ FieldsApart(u.fields)
        /\ updateFile(file, image, t) = updateHelmValues(file, image, t.fields)
    BY <1>1, HelmTarget, UpdateByStrategy
  <2>2. \A f \in Range(t.fields), g \in Range(u.fields) : Unrelated(f, g)
    BY <1>1 DEF Apart, Unrelated
  <2>3. /\ Range(u.fields) = {u.fields.repository, u.fields.tag, u.fields.digest}
        /\ Range(u.fields) \subseteq Paths
    BY <2>1, FieldsAreUnrelated
  <2>4. IsDocument(new)
    BY <2>1, HelmUpdateHasImage
  <2>5. \A g \in Range(u.fields) :
          /\ Field(new, g) = Field(file, g)
          /\ \A w : Assignable(new, g, w) <=> Assignable(file, g, w)
          /\ IsLeaf(file, g) => IsLeaf(new, g)
    BY <2>1, <2>2, <2>3, HelmUpdateKeepsOthers
  <2> HIDE DEF new
  <2>6. ExactFile(file, u) => ExactFile(new, u)
    BY <1>1, <2>5, HelmTarget
  <2>7. RenderedFile(new, u, other.repository) = RenderedFile(file, u, other.repository)
    <3> DEFINE of(d) == [repository |-> Field(d, u.fields.repository), tag |-> Field(d, u.fields.tag),
                         digest |-> Field(d, u.fields.digest)]
    <3>1. of(new) = of(file)
      BY <2>3, <2>5
    <3>2. \A d : RenderedFile(d, u, other.repository) = {imageString(of(d))}
      BY <1>1, HelmRendered
    <3> HIDE DEF of
    <3>3. QED
      BY <3>1, <3>2
  <2>8. updateFile(new, other, u).ok <=> updateFile(file, other, u).ok
    <3>1. ASSUME NEW d, IsDocument(d)
          PROVE  updateFile(d, other, u).ok <=>
                   /\ Assignable(d, u.fields.repository, other.repository)
                   /\ Assignable(d, u.fields.tag, other.tag)
                   /\ Assignable(d, u.fields.digest, other.digest)
      <4>1. updateFile(d, other, u) = updateHelmValues(d, other, u.fields)
        BY <1>1, UpdateByStrategy
      <4>2. QED
        BY <2>1, <3>1, <4>1, HelmUpdateSucceeds
    <3>2. QED
      BY <2>1, <2>3, <2>4, <2>5, <3>1
  <2>9. QED
    BY <2>6, <2>7, <2>8 DEF new
<1>2. CASE t.strategy = "kustomize-image"
  <2> DEFINE name == EntryName(t, image.repository)
             its == EntryName(u, other.repository)
  <2>1. /\ file \in Kustomizations /\ t.imageName \in Scalars /\ HasOnce(file.images, name)
        /\ name = IF t.imageName # "none" THEN t.imageName ELSE image.repository
        /\ its = IF u.imageName # "none" THEN u.imageName ELSE other.repository
        /\ HasOnce(file.images, its) /\ u.imageName \in Scalars
        /\ updateFile(file, image, t) = updateKustomization(file, image, t.imageName)
        /\ updateFile(file, other, u) = updateKustomization(file, other, u.imageName)
        /\ updateFile(new, other, u) = updateKustomization(new, other, u.imageName)
    BY <1>2, KustomizeTarget, UpdateByStrategy DEF EntryName
  <2>2. name # its
    BY <1>2 DEF Apart
  <2>3. /\ new \in Kustomizations /\ new.valid = file.valid
        /\ DOMAIN file.images \subseteq DOMAIN new.images
    <3> HIDE DEF name
    <3> QED  BY <2>1, KustomizeUpdate
  <2>4. PICK at \in DOMAIN new.images :
          /\ new.images[at] = withImage(name, image)
          /\ at \in DOMAIN file.images => file.images[at].name = name
          /\ \A i \in DOMAIN new.images : i # at =>
               i \in DOMAIN file.images /\ new.images[i] = file.images[i] /\ file.images[i].name # name
    <3> HIDE DEF name
    <3> QED  BY <2>1, KustomizeUpdate
  <2> HIDE DEF new, name, its
  <2>5. new.images[at].name = name
    BY <2>4 DEF withImage
  <2>6. \A i : i \in DOMAIN new.images /\ new.images[i].name = its
                 <=> i \in DOMAIN file.images /\ file.images[i].name = its
    BY <2>2, <2>3, <2>4, <2>5
  <2>7. HasOnce(new.images, its)
    BY <2>1, <2>6 DEF HasOnce
  <2>8. updateFile(new, other, u).ok <=> updateFile(file, other, u).ok
    <3>1. /\ updateKustomization(file, other, u.imageName).ok <=>
               file.valid /\ (u.imageName = "none" \/ \E i \in DOMAIN file.images : file.images[i].name = its)
          /\ updateKustomization(new, other, u.imageName).ok <=>
               new.valid /\ (u.imageName = "none" \/ \E i \in DOMAIN new.images : new.images[i].name = its)
      BY <2>1, <2>3, <2>7, KustomizeSucceeds
    <3>2. QED
      BY <2>1, <2>3, <2>6, <3>1
  <2>9. EntryImages(new.images, its) = EntryImages(file.images, its)
    <3>1. {x \in Range(new.images) : x.name = its} = {x \in Range(file.images) : x.name = its}
      BY <2>2, <2>3, <2>4, <2>5 DEF Range
    <3>2. QED
      BY <3>1 DEF EntryImages
  <2>10. RenderedFile(new, u, other.repository) = RenderedFile(file, u, other.repository)
    BY <1>2, <2>9 DEF RenderedFile, its
  <2>11. QED
    BY <1>2, <2>8, <2>10, KustomizeTarget DEF new
<1>3. CASE t.strategy = "raw-yaml"
  <2>1. /\ file \in Seq(Workloads) /\ updateFile(file, image, t) = updateRawYAML(file, image, t.raw)
        /\ ExactFile(file, u) => RawExact(file, u.raw)
    BY <1>3, RawTarget, UpdateByStrategy
  <2>2. RawApart(t.raw, u.raw)
    BY <1>3 DEF Apart, RawApart
  <2>3. /\ RawExact(file, u.raw) => RawExact(new, u.raw)
        /\ updateRawYAML(new, other, u.raw).ok <=> updateRawYAML(file, other, u.raw).ok
        /\ RawImages(new, other.repository, u.raw) = RawImages(file, other.repository, u.raw)
    BY <2>1, <2>2, RawUpdateKeepsOthers
  <2> HIDE DEF new
  <2>4. /\ RenderedFile(new, u, other.repository) = RawImages(new, other.repository, u.raw)
        /\ RenderedFile(file, u, other.repository) = RawImages(file, other.repository, u.raw)
    BY <1>3 DEF RenderedFile
  <2>5. /\ updateFile(new, other, u) = updateRawYAML(new, other, u.raw)
        /\ updateFile(file, other, u) = updateRawYAML(file, other, u.raw)
        /\ RawExact(new, u.raw) => ExactFile(new, u)
    BY <1>3, RawTarget, UpdateByStrategy
  <2>6. QED
    BY <2>1, <2>3, <2>4, <2>5 DEF new
<1>4. QED
  BY <1>1, <1>2, <1>3, TargetsByStrategy

(***************************************************************************)
(* Trees.                                                                  *)
(***************************************************************************)

IsTree(tree) == tree = [path \in DOMAIN tree |-> tree[path]]

\* The file of the target, if it is there, has the format and holds the image once.
Fits(tree, t, repository) ==
  manifestPath(t) \in DOMAIN tree =>
    HasFormat(tree[manifestPath(t)], t) /\ ClearFile(tree[manifestPath(t)], t, repository)

Exact(tree, t) == manifestPath(t) \in DOMAIN tree => ExactFile(tree[manifestPath(t)], t)

\* Targets with one file read it alike.
Alike(t, u) == manifestPath(t) = manifestPath(u) => t.strategy = u.strategy

\* The update of a tree touches the file of the target only.
LEMMA TreeUpdate ==
  ASSUME NEW tree, IsTree(tree), NEW image, NEW t
  PROVE  LET update == updateImageFiles(tree, image, t)
             path == manifestPath(t)
         IN  /\ IsTree(update.tree) /\ DOMAIN update.tree = DOMAIN tree
             /\ \A p \in DOMAIN tree : p # path => update.tree[p] = tree[p]
             /\ update.ok <=> safePath(t) /\ path \in DOMAIN tree /\ updateFile(tree[path], image, t).ok
             /\ safePath(t) /\ path \in DOMAIN tree =>
                  /\ update.tree[path] = updateFile(tree[path], image, t).file
                  /\ update.changed <=> updateFile(tree[path], image, t).changed
             /\ ~(safePath(t) /\ path \in DOMAIN tree) => update.tree = tree /\ ~update.changed
<1> DEFINE update == updateImageFiles(tree, image, t)
           path == manifestPath(t)
           file == updateFile(tree[path], image, t)
<1>1. CASE ~safePath(t) \/ path \notin DOMAIN tree
  <2>1. update = [ok |-> FALSE, tree |-> tree, changed |-> FALSE]
    BY <1>1 DEF updateImageFiles
  <2>2. QED
    BY <1>1, <2>1
<1>2. CASE safePath(t) /\ path \in DOMAIN tree
  <2>1. update = [ok |-> file.ok, tree |-> [tree EXCEPT ![path] = file.file], changed |-> file.changed]
    BY <1>2 DEF updateImageFiles
  <2> HIDE DEF path, file, update
  <2>2. /\ update.ok = file.ok /\ update.changed = file.changed
        /\ update.tree = [tree EXCEPT ![path] = file.file]
    BY <2>1
  <2>3. /\ DOMAIN update.tree = DOMAIN tree /\ IsTree(update.tree)
        /\ update.tree[path] = file.file
        /\ \A p \in DOMAIN tree : p # path => update.tree[p] = tree[p]
    BY <1>2, <2>2 DEF IsTree
  <2>4. QED
    BY <1>2, <2>2, <2>3 DEF path, file, update
<1>3. QED
  BY <1>1, <1>2

\* A successful update makes the manifests of the target deploy the image, and
\* finds nothing to do the next time.
LEMMA TreeRenders ==
  ASSUME NEW tree, IsTree(tree), NEW image \in Images, NEW t \in GitOpsSpecs,
         Fits(tree, t, image.repository), updateImageFiles(tree, image, t).ok
  PROVE  LET new == updateImageFiles(tree, image, t).tree
         IN  /\ RenderedTree(new, t, image.repository) = {imageString(image)}
             /\ ~updateImageFiles(new, image, t).changed
<1> DEFINE new == updateImageFiles(tree, image, t).tree
           path == manifestPath(t)
           file == tree[path]
<1>1. /\ safePath(t) /\ path \in DOMAIN tree /\ updateFile(file, image, t).ok
      /\ IsTree(new) /\ path \in DOMAIN new
      /\ new[path] = updateFile(file, image, t).file
  BY TreeUpdate
<1>2. /\ RenderedFile(new[path], t, image.repository) = {imageString(image)}
      /\ ~updateFile(new[path], image, t).changed
  BY <1>1, UpdateRenders DEF Fits
<1> HIDE DEF new
<1>3. RenderedTree(new, t, image.repository) = {imageString(image)}
  BY <1>1, <1>2 DEF RenderedTree
<1>4. ~updateImageFiles(new, image, t).changed
  BY <1>1, <1>2, TreeUpdate
<1>5. QED
  BY <1>3, <1>4 DEF new

\* An update that reports no change makes none.
LEMMA TreeUnchanged ==
  ASSUME NEW tree, IsTree(tree), NEW image \in Images, NEW t \in GitOpsSpecs,
         Fits(tree, t, image.repository), ~updateImageFiles(tree, image, t).changed
  PROVE  updateImageFiles(tree, image, t).tree = tree
<1> DEFINE new == updateImageFiles(tree, image, t).tree
           path == manifestPath(t)
<1>1. CASE safePath(t) /\ path \in DOMAIN tree
  <2>1. new[path] = updateFile(tree[path], image, t).file /\ ~updateFile(tree[path], image, t).changed
    BY <1>1, TreeUpdate
  <2>2. new[path] = tree[path]
    BY <1>1, <2>1, UnchangedIsSame DEF Fits
  <2>3. IsTree(new) /\ DOMAIN new = DOMAIN tree /\ \A p \in DOMAIN tree : p # path => new[p] = tree[p]
    BY TreeUpdate
  <2> HIDE DEF new
  <2>4. new = tree
    BY <2>2, <2>3 DEF IsTree
  <2>5. QED
    BY <2>4 DEF new
<1>2. CASE ~(safePath(t) /\ path \in DOMAIN tree)
  BY <1>2, TreeUpdate
<1>3. QED
  BY <1>1, <1>2

\* An update keeps the files as all targets need them.
LEMMA TreeKeepsFit ==
  ASSUME NEW tree, IsTree(tree), NEW image \in Images, NEW t \in GitOpsSpecs,
         Fits(tree, t, image.repository),
         NEW u \in GitOpsSpecs, Alike(t, u), NEW r, Fits(tree, u, r)
  PROVE  Fits(updateImageFiles(tree, image, t).tree, u, r)
<1> DEFINE new == updateImageFiles(tree, image, t).tree
           path == manifestPath(t)
           its == manifestPath(u)
<1> SUFFICES ASSUME its \in DOMAIN new
             PROVE  HasFormat(new[its], u) /\ ClearFile(new[its], u, r)
  BY DEF Fits
<1>1. its \in DOMAIN tree /\ HasFormat(tree[its], u) /\ ClearFile(tree[its], u, r)
  BY TreeUpdate DEF Fits
<1>2. CASE new[its] = tree[its]
  BY <1>1, <1>2
<1>3. CASE new[its] # tree[its]
  <2>1. its = path /\ safePath(t) /\ new[its] = updateFile(tree[its], image, t).file
    BY <1>1, <1>3, TreeUpdate
  <2>2. HasFormat(tree[its], t) /\ ClearFile(tree[its], t, image.repository) /\ u.strategy = t.strategy
    BY <1>1, <2>1 DEF Fits, Alike
  <2>3. QED
    BY <1>1, <2>1, <2>2, UpdateKeepsFormat
<1>4. QED
  BY <1>2, <1>3

\* A successful update of an exact target changes nothing else, and any other
\* image of the repository can be written next.
LEMMA TreeKeepsRest ==
  ASSUME NEW tree, IsTree(tree), NEW image \in Images, NEW t \in GitOpsSpecs,
         Fits(tree, t, image.repository), updateImageFiles(tree, image, t).ok
  PROVE  LET new == updateImageFiles(tree, image, t).tree
             path == manifestPath(t)
         IN  /\ Exact(tree, t) =>
                  /\ Exact(new, t)
                  /\ Others(new[path], t, image.repository) = Others(tree[path], t, image.repository)
             /\ \A other \in Images :
                  other.repository = image.repository => updateImageFiles(new, other, t).ok
<1> DEFINE new == updateImageFiles(tree, image, t).tree
           path == manifestPath(t)
<1>1. /\ safePath(t) /\ path \in DOMAIN tree /\ updateFile(tree[path], image, t).ok
      /\ IsTree(new) /\ path \in DOMAIN new
      /\ new[path] = updateFile(tree[path], image, t).file
  BY TreeUpdate
<1>2. /\ ExactFile(tree[path], t) =>
           /\ ExactFile(new[path], t)
           /\ Others(new[path], t, image.repository) = Others(tree[path], t, image.repository)
      /\ \A other \in Images : other.repository = image.repository => updateFile(new[path], other, t).ok
  BY <1>1, UpdateKeepsRest DEF Fits
<1> HIDE DEF new
<1>3. \A other \in Images : other.repository = image.repository => updateImageFiles(new, other, t).ok
  BY <1>1, <1>2, TreeUpdate
<1>4. QED
  BY <1>1, <1>2, <1>3 DEF new, Exact

\* An update changes nothing for a target apart.
LEMMA TreeKeepsOther ==
  ASSUME NEW tree, IsTree(tree), NEW image \in Images, NEW t \in GitOpsSpecs,
         Fits(tree, t, image.repository),
         NEW u \in GitOpsSpecs, Alike(t, u), NEW other \in Images, Fits(tree, u, other.repository),
         Apart(t, u, image.repository, other.repository)
  PROVE  LET new == updateImageFiles(tree, image, t).tree
         IN  /\ Exact(tree, u) => Exact(new, u)
             /\ RenderedTree(new, u, other.repository) = RenderedTree(tree, u, other.repository)
             /\ updateImageFiles(new, other, u).ok <=> updateImageFiles(tree, other, u).ok
<1> DEFINE new == updateImageFiles(tree, image, t).tree
           path == manifestPath(t)
           its == manifestPath(u)
<1>1. IsTree(new) /\ DOMAIN new = DOMAIN tree
  BY TreeUpdate
<1>2. CASE its \notin DOMAIN tree
  <2> HIDE DEF new
  <2>1. RenderedTree(new, u, other.repository) = {} /\ RenderedTree(tree, u, other.repository) = {}
    BY <1>1, <1>2 DEF RenderedTree
  <2>2. ~updateImageFiles(new, other, u).ok /\ ~updateImageFiles(tree, other, u).ok
    BY <1>1, <1>2, TreeUpdate
  <2>3. QED
    BY <1>1, <1>2, <2>1, <2>2 DEF Exact, new
<1>3. CASE its \in DOMAIN tree
  <2>1. /\ ExactFile(tree[its], u) => ExactFile(new[its], u)
        /\ RenderedFile(new[its], u, other.repository) = RenderedFile(tree[its], u, other.repository)
        /\ updateFile(new[its], other, u).ok <=> updateFile(tree[its], other, u).ok
    <3>1. CASE new[its] = tree[its]
      BY <3>1
    <3>2. CASE new[its] # tree[its]
      <4>1. its = path /\ safePath(t) /\ new[its] = updateFile(tree[its], image, t).file
        BY <1>3, <3>2, TreeUpdate
      <4>2. /\ HasFormat(tree[its], t) /\ ClearFile(tree[its], t, image.repository)
            /\ ClearFile(tree[its], u, other.repository) /\ u.strategy = t.strategy
        BY <1>3, <4>1 DEF Fits, Alike
      <4>3. QED
        BY <4>1, <4>2, UpdateKeepsOther
    <3>3. QED
      BY <3>1, <3>2
  <2> HIDE DEF new
  <2>2. RenderedTree(new, u, other.repository) = RenderedTree(tree, u, other.repository)
    BY <1>1, <1>3, <2>1 DEF RenderedTree
  <2>3. updateImageFiles(new, other, u).ok <=> updateImageFiles(tree, other, u).ok
    BY <1>1, <1>3, <2>1, TreeUpdate
  <2>4. QED
    BY <1>1, <1>3, <2>1, <2>2, <2>3 DEF Exact, new
<1>4. QED
  BY <1>2, <1>3
=============================================================================
