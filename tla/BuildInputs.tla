----------------------------- MODULE BuildInputs -----------------------------
(***************************************************************************)
(* What has to hold before an image is built: the checks of the build      *)
(* context and the Dockerfile (internal/build), and the name, the          *)
(* credential and the login of the registry (internal/provider/registry).  *)
(* Each check yields "ok" or the reason the BuildRun fails with.           *)
(*                                                                         *)
(* A path of the source tree is what it turns out to be: "dir", "file",    *)
(* "missing", or "outside" the tree (absolute, above it, or a symbolic     *)
(* link that leaves it).  The name of an image is the sequence of its      *)
(* parts.  A Secret says which of its keys have a value.                   *)
(***************************************************************************)
LOCAL INSTANCE Naturals
LOCAL INSTANCE Sequences
LOCAL INSTANCE SequencesExt

CONSTANTS Hosts      \* the names that look like a registry: with a dot or a colon, or localhost

\* One check after another: the first that does not hold decides.
first ?? second == IF first = "ok" THEN second ELSE first

Require(condition, reason) == IF condition THEN "ok" ELSE reason

(***************************************************************************)
(* The build request.                                                      *)
(***************************************************************************)

ResolveContextDir(context) ==
  Require(context # "outside", "ImageBuildInputInvalid") ?? Require(context # "missing", "ImageBuildContextMissing")

\* An inline cache needs no reference; no other mode is known.
validateCache(cache) ==
  Require(cache.enabled => cache.mode = "inline" \/ (cache.mode \in {"registry", "local"} /\ cache.ref),
          "ImageBuildInputInvalid")

validateBuildRequest(build) ==
  Require(build.image # <<>>, "ImageBuildInputInvalid")
    ?? Require(build.context # "missing", "ImageBuildContextMissing")
    ?? Require(build.context = "dir", "ImageBuildInputInvalid")
    ?? Require(build.dockerfile # "outside", "ImageBuildInputInvalid")
    ?? Require(build.dockerfile # "missing", "ImageBuildDockerfileMissing")
    ?? Require(build.dockerfile = "file", "ImageBuildInputInvalid")
    ?? validateCache(build.cache)

\* The digest in the metadata of a build: the first of the two fields that has
\* one decides.
readBuildKitDigest(metadata) ==
  LET fields == SelectSeq(metadata, LAMBDA f : f \notin {"absent", "empty"})
  IN  IF fields = <<>> THEN "none" ELSE Head(fields)

\* The fields containerimage.digest and containerimage.descriptor; a file that
\* is no JSON is as bad as a first field that is no digest.
Metadata == {<<f, g>> : f, g \in {"absent", "empty", "digest", "invalid"}}

(***************************************************************************)
(* The registry.                                                           *)
(***************************************************************************)

Implemented == {"generic", "ghcr", "gitlab", "harbor"}
DefaultRegistry(provider) ==
  CASE provider = "ghcr"   -> <<"ghcr.io">>
    [] provider = "gitlab" -> <<"registry.gitlab.com">>
    [] OTHER               -> <<>>

New(provider) == Require(provider \in Implemented \cup {"ecr", "gcr", "acr"}, "RegistryProviderUnsupported")

hasRegistryHost(repository) == Len(repository) > 1 /\ repository[1] \in Hosts

ValidName(repository) ==
  /\ repository \notin {<<>>, <<".">>, <<"..">>}
  /\ \A i \in 2 .. Len(repository) - 1 : repository[i] # ".."

\* The name with the prefix of the Project, unless it has a registry or the
\* prefix already, and with the registry of the provider.
ResolveImage(provider, prefix, repository) ==
  LET prefixed == IF hasRegistryHost(repository) \/ IsPrefix(prefix, repository)
                  THEN repository ELSE prefix \o repository
  IN  IF ~hasRegistryHost(prefixed) THEN DefaultRegistry(provider) \o prefixed ELSE prefixed

ImageResolves(provider, repository) ==
  Require(provider \in Implemented /\ ValidName(repository), "RegistryImageInvalid")

NoSecret == [username |-> FALSE, password |-> FALSE, token |-> FALSE, config |-> "none"]

\* A Docker config is taken as it is; a password needs its user, a token none.
ParseCredential(secret) ==
  Require(secret # NoSecret, "RegistryCredentialsMissing")
    ?? Require(/\ secret.config # "invalid"
               /\ \/ secret.config = "valid"
                  \/ secret.token \/ (secret.password /\ secret.username)
               /\ secret.config = "valid" \/ (secret.password => secret.username),
               "RegistryCredentialsInvalid")

\* What Login still checks of a credential that was parsed.
Login(provider, secret) ==
  Require(provider \in Implemented, "RegistryProviderUnsupported")
    ?? Require(secret # NoSecret, "RegistryCredentialsMissing")
    ?? Require(secret.config = "valid" \/ secret.token \/ secret.password, "RegistryCredentialsInvalid")

\* A registry that is configured is used for every build, its login for a push.
RegistryChecks(provider, prefix, secret, repository, push) ==
  IF provider = "" THEN "ok"
  ELSE New(provider)
         ?? ImageResolves(provider, repository)
         ?? (IF ~push THEN "ok"
             ELSE ParseCredential(secret)
                    ?? Require(hasRegistryHost(ResolveImage(provider, prefix, repository)), "RegistryImageInvalid")
                    ?? Login(provider, secret))
=============================================================================
