-------------------------- MODULE MCWebhookIntake --------------------------
(***************************************************************************)
(* A Repository on GitHub that builds main and the tags v*, and pull       *)
(* requests of its own branches, and what may be delivered to it.          *)
(***************************************************************************)
EXTENDS WebhookIntake

Push(id, ref, commit) ==
  [provider |-> "github", size |-> "small", signature |-> "good", token |-> "none", parses |-> TRUE,
   delivery |-> id, bodyId |-> "none", event |-> "push", ref |-> ref, tag |-> FALSE, after |-> commit,
   head |-> "none", base |-> "none", sha |-> "none", fork |-> FALSE, action |-> "none", age |-> "fresh"]

PullRequest(id, fork) ==
  [Push(id, "none", "none") EXCEPT !.event = "pull_request", !.head = "topic", !.base = "main",
                                   !.sha = "c2", !.fork = fork, !.action = "opened"]

Signed == Push("e1", "main", "c1")

\* The other delivery builds, builds if the settings say so, is ignored, or is
\* rejected by one check after the other.
Others ==
  {PullRequest("e2", TRUE),
   [Push("e2", "v2", "c1") EXCEPT !.tag = TRUE],
   [Push("e2", "none", "none") EXCEPT !.event = "ping", !.age = "none"],
   Push("e2", "wip", "c1"),
   [Push("e2", "main", "c1") EXCEPT !.signature = "bad"],
   [Push("e2", "main", "c1") EXCEPT !.age = "old"],
   Push("e2", "main", "none"),
   [Push("h2", "main", "c1") EXCEPT !.provider = "generic", !.token = "good", !.bodyId = "e2"],
   [Push("e2", "main", "c1") EXCEPT !.provider = "gitlab", !.token = "good"],
   [Push("overlong", "main", "c1") EXCEPT !.size = "large"]}

Sent == {[d1 |-> Signed, d2 |-> other] : other \in Others}

Settings(forks, exclude) ==
  [enabled |-> TRUE, provider |-> "github", project |-> "p", references |-> TRUE, secret |-> TRUE,
   defaultBranch |-> "main", branches |-> [include |-> {{"main", "wip"}}, exclude |-> exclude],
   tags |-> [include |-> {{"v1", "v2"}}, exclude |-> {{"v2"}}],
   pullRequests |-> TRUE, events |-> {}, buildForks |-> forks, trustedOnly |-> FALSE]

SettingsUsed == [own |-> Settings(FALSE, {{"wip"}}), forks |-> Settings(TRUE, {{"wip"}})]

\* Two hashes that the first digit does not tell apart.
Digits(second) == [i \in 1 .. HashDigits |-> IF i = 1 THEN 10 ELSE second]
HashUsed == [e1 |-> Digits(1), e2 |-> Digits(2), h2 |-> Digits(3), overlong |-> Digits(4)]

PlainTemplate ==
  [privileged |-> FALSE, build |-> TRUE, builder |-> "buildkit", secrets |-> TRUE, mentions |-> {}]
=============================================================================
