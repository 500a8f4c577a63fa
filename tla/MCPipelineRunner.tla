-------------------------- MODULE MCPipelineRunner --------------------------
(***************************************************************************)
(* Two runner pods at a time: of one Repository with the same tag and the  *)
(* same cache key; with a restore key of the other; of two Projects with a *)
(* Repository of the same name; and with the settings that are errors.     *)
(***************************************************************************)
EXTENDS PipelineRunner

Full ==
  [cache |-> "pvc", key |-> "lock", restoreKeys |-> <<>>,
   steps |-> <<[continueOnError |-> TRUE], [continueOnError |-> FALSE]>>, artifacts |-> "required",
   build |-> TRUE, push |-> TRUE, context |-> "dir", dockerfile |-> "file",
   buildCache |-> [enabled |-> TRUE, mode |-> "inline", ref |-> FALSE],
   generateSBOM |-> TRUE, scanImage |-> TRUE, signImage |-> TRUE,
   adapters |-> [sbom |-> "syft", scan |-> "noop", signature |-> "cosign", provenance |-> "json"]]

\* Falls back to the entry of the other template, and does not push.
Local ==
  [Full EXCEPT !.key = "branch", !.restoreKeys = <<"lock">>, !.steps = <<>>, !.artifacts = "none",
               !.push = FALSE, !.generateSBOM = FALSE, !.scanImage = FALSE, !.signImage = FALSE]

StepsOnly ==
  [Full EXCEPT !.build = FALSE, !.steps = <<[continueOnError |-> FALSE]>>, !.artifacts = "none"]

Cached(mode) == [Local EXCEPT !.cache = mode]

\* A push without a cache, steps or hooks.
ImageOnly == [Local EXCEPT !.cache = "disabled", !.push = TRUE, !.adapters = [n \in DOMAIN @ |-> "noop"]]

NoRegistry == [provider |-> "", prefix |-> <<>>, secret |-> NoSecret]
Token == [NoSecret EXCEPT !.token = TRUE]
GHCR == [provider |-> "ghcr", prefix |-> <<"team">>, secret |-> Token]

Pod(project, template) ==
  [project |-> project, repository |-> "app", image |-> <<project>>, template |-> template,
   registry |-> NoRegistry, defaultRegistry |-> <<"registry.local">>, complete |-> TRUE,
   logStore |-> "none", artifactStore |-> "local", claim |-> TRUE]

Logging(pod) == [pod EXCEPT !.logStore = "local"]
Pushing(settings) == [Pod("p", ImageOnly) EXCEPT !.registry = settings]

Pairs ==
  {[r1 |-> Logging(Pod("p", Full)), r2 |-> Pod("p", [Full EXCEPT !.steps = <<>>])],
   [r1 |-> Pod("p", [Full EXCEPT !.steps = <<>>]), r2 |-> Pod("p", Local)],
   [r1 |-> Pod("p", StepsOnly), r2 |-> Pod("q", StepsOnly)],
   [r1 |-> Pod("p", Cached("registry")), r2 |-> Pod("p", Cached("unset"))],
   [r1 |-> [Pod("p", StepsOnly) EXCEPT !.claim = FALSE],
    r2 |-> Pod("p", [StepsOnly EXCEPT !.cache = "object-storage"])],
   [r1 |-> Pushing(GHCR), r2 |-> [Pushing(GHCR) EXCEPT !.image = <<"ghcr.io", "team", "p">>]]}

\* One setting that is wrong, each: of the pod, the paths, the registry and its Secret.
Faulty ==
  {[Pod("p", ImageOnly) EXCEPT !.complete = FALSE], [Pod("p", ImageOnly) EXCEPT !.logStore = "other"],
   [Pod("p", ImageOnly) EXCEPT !.logStore = "remote"],
   [Pod("p", [StepsOnly EXCEPT !.cache = "disabled", !.artifacts = "optional"]) EXCEPT !.artifactStore = "remote"]}
  \cup {[Pod("p", [ImageOnly EXCEPT !.cache = c]) EXCEPT !.image = <<>>] : c \in {"disabled", "registry"}}
  \cup {Pod("p", [ImageOnly EXCEPT !.context = c]) : c \in {"file", "missing", "outside"}}
  \cup {Pod("p", [ImageOnly EXCEPT !.dockerfile = d]) : d \in {"dir", "missing", "outside"}}
  \cup {Pushing([GHCR EXCEPT !.provider = p]) : p \in {"generic", "ecr", "unknown"}}
  \cup {Pushing([GHCR EXCEPT !.provider = "generic", !.prefix = <<>>])}
  \cup {Pushing([GHCR EXCEPT !.secret = s]) :
           s \in {NoSecret, [Token EXCEPT !.password = TRUE], [NoSecret EXCEPT !.username = TRUE],
                  [Token EXCEPT !.config = "invalid"], [NoSecret EXCEPT !.config = "valid"]}}
  \cup {[Pushing(GHCR) EXCEPT !.image = i] : i \in {<<>>, <<"a", "..", "b">>}}

AllWorks == Pairs \cup {[r1 |-> pod, r2 |-> pod] : pod \in Faulty}

TwoPaths == <<"modules", "store">>
=============================================================================
