---------------------------- MODULE WebhookEvents ----------------------------
(***************************************************************************)
(* What one webhook delivery means: the checks, the event the API reads    *)
(* from it, and the filters of the Repository (internal/webhook).          *)
(*                                                                         *)
(* A delivery is the HTTP request as the sender makes it:                  *)
(*   provider    the endpoint it is sent to                                *)
(*   size        "small", or "large" for a body of more than 1 MiB         *)
(*   signature, token   "none", "good" or "bad" under the shared secret    *)
(*   parses      the body is JSON of the expected shape                    *)
(*   delivery, bodyId   the delivery id of the headers and of the body;    *)
(*               "overlong" is one of more than 255 characters             *)
(*   event       the event name of the headers or of the body              *)
(*   ref, tag, after    what was pushed: name, whether a tag, commit       *)
(*   head, base, sha, fork, action   the pull request                      *)
(*   age         "none", or its time: "fresh", "old", "future"             *)
(* None stands for the empty string of a field.  A glob of a filter is the *)
(* set of names it matches (path.Match of the standard library).           *)
(***************************************************************************)
EXTENDS Naturals

None == "none"

Providers == {"github", "gitlab", "gitea", "generic"}

firstNonEmpty(a, b) == IF a # None THEN a ELSE b

(***************************************************************************)
(* Verify and Parse.                                                       *)
(***************************************************************************)

Verify(d) ==
  CASE d.provider = "github" -> d.signature = "good"
    [] d.provider = "gitlab" -> d.token = "good"
    [] d.provider = "gitea"  -> IF d.signature # "none" THEN d.signature = "good" ELSE d.token = "good"
    [] OTHER                 -> d.token = "good"

DeliveryID(d) ==
  CASE d.provider = "github"             -> d.delivery
    [] d.provider \in {"gitlab", "gitea"} -> firstNonEmpty(d.delivery, d.event)
    [] OTHER                             -> firstNonEmpty(d.bodyId, d.delivery)

parseGitHub(d) ==
  LET pr == d.event = "pull_request"
  IN  [id |-> DeliveryID(d), branch |-> IF pr THEN d.head ELSE d.ref,
       base |-> IF pr THEN d.base ELSE None, commit |-> IF pr THEN d.sha ELSE d.after,
       action |-> d.action, tag |-> d.tag, fork |-> pr /\ d.fork, trusted |-> FALSE, age |-> d.age,
       push |-> d.event = "push", pullRequest |-> pr, ping |-> d.event = "ping"]

\* The other providers report pushes only, without a time.
parsePush(d, push) ==
  [id |-> DeliveryID(d), branch |-> d.ref, base |-> None, commit |-> d.after, action |-> None,
   tag |-> d.tag, fork |-> FALSE, trusted |-> FALSE, age |-> "none",
   push |-> push, pullRequest |-> FALSE, ping |-> FALSE]

Parse(d) ==
  CASE d.provider = "github"              -> parseGitHub(d)
    [] d.provider \in {"gitlab", "gitea"} -> parsePush(d, d.event = "push")
    [] OTHER                              -> parsePush(d, d.event \in {None, "push"} \/ d.tag)

(***************************************************************************)
(* Filter.                                                                 *)
(***************************************************************************)

matchesAny(value, globs) == \E g \in globs : value \in g

\* Mutant of matchesRef: an included name is never excluded.
matchesRefIncludeWins(value, filters, fallback) ==
  matchesAny(value, IF filters.include = {} THEN fallback ELSE filters.include)

matchesRef(value, filters, fallback) ==
  /\ ~matchesAny(value, filters.exclude)
  /\ matchesAny(value, IF filters.include = {} THEN fallback ELSE filters.include)

PullRequestEvents(config) ==
  IF config.events = {} THEN {"opened", "reopened", "synchronize"} ELSE config.events

Filter(config, e) ==
  LET default == {{config.defaultBranch}}
  IN  \/ e.ping
      \/ /\ e.pullRequest
         /\ config.pullRequests
         /\ e.action \in PullRequestEvents(config)
         /\ e.fork => config.buildForks
         /\ config.trustedOnly => e.trusted
         /\ matchesRef(e.base, config.branches, default)
      \/ /\ e.push /\ ~e.pullRequest /\ e.tag
         /\ config.tags.include # {}
         /\ matchesRef(e.branch, config.tags, {})
      \/ /\ e.push /\ ~e.pullRequest /\ ~e.tag
         /\ matchesRef(e.branch, config.branches, default)

(***************************************************************************)
(* The checks of the handler before it looks at what it has stored: the    *)
(* first one that fails answers the request.                               *)
(***************************************************************************)

Accepted(config, d) ==
  /\ config.enabled
  /\ d.provider \in {config.provider, "generic"}
  /\ d.size = "small"
  /\ config.secret
  /\ Verify(d)
  /\ d.parses
  /\ Parse(d).id \notin {None, "overlong"}
  /\ d.provider = "github" => Parse(d).age \in {"none", "fresh"}
=============================================================================
