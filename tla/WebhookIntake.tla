---------------------------- MODULE WebhookIntake ----------------------------
(***************************************************************************)
(* The webhook endpoint of the API (internal/api/server.go) and the        *)
(* BuildRuns it creates for one Repository.  The replicas of the API serve *)
(* requests concurrently; they share the cluster's BuildRuns, which the    *)
(* API reads without a cache, and the table webhook_events, if there is a  *)
(* database.  A sender delivers again until it is answered with anything   *)
(* but a server error, and may deliver again at will.                      *)
(***************************************************************************)
EXTENDS WebhookEvents, PolicyRules

CONSTANTS
  Requests,          \* requests the API serves at the same time
  Deliveries,        \* the deliveries of the sender
  Payloads,          \* the requests they may be, by delivery
  Setting,           \* what spec.webhook of the Repository may be set to
  Template,          \* the PipelineTemplate
  WithIndex,         \* audit backend postgres: the table webhook_events exists
  NameLength,        \* characters of the Repository's name, as dnsLabel leaves it
  Hash,              \* the digits of the hash of an event id that go into a name
  MaxFaults,         \* bound on failing calls and requests that are cut off
  MaxRedeliveries,   \* bound on deliveries that no failure caused
  MaxChanges         \* bound on changes of users: settings, deletions

Configs == DOMAIN Setting

MaxName == 63        \* characters of a BuildRun name
HashDigits == 12     \* of hash[:6], in hexadecimal

ASSUME ConstantsAssumption ==
  /\ WithIndex \in BOOLEAN
  /\ {NameLength, MaxFaults, MaxRedeliveries, MaxChanges} \subseteq Nat
  /\ \A id \in DOMAIN Hash : Hash[id] \in [1 .. HashDigits -> 0 .. 15]

VARIABLES
  payload,   \* the request each delivery is; its bytes never change
  config,    \* spec.webhook and spec.provider of the Repository
  runs,      \* the BuildRuns: name, delivery, event id
  index,     \* the event ids webhook_events holds
  request,   \* the requests in flight: step, delivery, config read, result
  answers,   \* the answers the sender has seen, by delivery
  made,      \* how many BuildRuns each delivery has made
  deleted,   \* how many of them have been deleted
  skipped,   \* the deliveries a request has recorded as building nothing
  spent      \* the bounds used up: faults, redeliveries, changes

vars == <<payload, config, runs, index, request, answers, made, deleted, skipped, spent>>

Idle == [step |-> "idle"]
Served == {r \in Requests : request[r].step # "idle"}
Results == {"created", "duplicate", "accepted", "ignored", "rejected", "conflict", "error"}
Steps == {"receive", "lookup", "list", "create", "get", "record"}

\* A request before and after its Repository is read.
Receiving == [step : {"receive"}, delivery : Deliveries, result : {"none"}, replay : BOOLEAN]
Handling == [step : Steps \ {"receive"}, delivery : Deliveries, result : Results \cup {"none"},
             replay : BOOLEAN, config : Configs]

\* The answers after which the sender lets a delivery rest.
Concluded(d) == answers[d] \ {"error"} # {}

Init ==
  /\ payload \in Payloads
  /\ config \in Configs
  /\ runs = {}
  /\ index = {}
  /\ request = [r \in Requests |-> Idle]
  /\ answers = [d \in Deliveries |-> {}]
  /\ made = [d \in Deliveries |-> 0]
  /\ deleted = [d \in Deliveries |-> 0]
  /\ skipped = {}
  /\ spent = [faults |-> 0, redeliveries |-> 0, changes |-> 0]

(***************************************************************************)
(* The sender.                                                             *)
(***************************************************************************)

Begin(r, d) ==
  /\ request[r] = Idle
  /\ request' = [request EXCEPT ![r] =
       [step |-> "receive", delivery |-> d, result |-> "none",
        replay |-> answers[d] \cap {"created", "accepted", "ignored"} # {}]]

\* A delivery that has not been answered for good is sent (again).
Deliver(r, d) ==
  /\ ~Concluded(d)
  /\ \A s \in Served : request[s].delivery # d
  /\ Begin(r, d)
  /\ UNCHANGED <<payload, config, runs, index, answers, made, deleted, skipped, spent>>

Redeliver(r, d) ==
  /\ spent.redeliveries < MaxRedeliveries
  /\ Concluded(d) \/ \E s \in Served : request[s].delivery = d
  /\ Begin(r, d)
  /\ spent' = [spent EXCEPT !.redeliveries = @ + 1]
  /\ UNCHANGED <<payload, config, runs, index, answers, made, deleted, skipped>>

(***************************************************************************)
(* The handler.                                                            *)
(***************************************************************************)

Answer(r, result) ==
  /\ request' = [request EXCEPT ![r] = Idle]
  /\ answers' = [answers EXCEPT ![request[r].delivery] = @ \cup {result}]

Goto(r, step, result) ==
  /\ request' = [request EXCEPT ![r].step = step, ![r].result = result]
  /\ UNCHANGED answers

Event(r) == Parse(payload[request[r].delivery])

\* The Repository is read once, before the body.
Receive(r) ==
  /\ request[r].step = "receive"
  /\ IF Accepted(Setting[config], payload[request[r].delivery])
     THEN /\ request' = [request EXCEPT ![r] =
                 [step |-> IF WithIndex THEN "lookup" ELSE "list", delivery |-> @.delivery,
                  result |-> "none", replay |-> @.replay, config |-> config]]
          /\ UNCHANGED answers
     ELSE Answer(r, "rejected")
  /\ UNCHANGED <<payload, config, runs, index, made, deleted, skipped, spent>>

\* Mutant of Lookup: the table is for the audit only.
LookupNothing(r) ==
  /\ request[r].step = "lookup"
  /\ Goto(r, "list", "none")
  /\ UNCHANGED <<payload, config, runs, index, made, deleted, skipped, spent>>

\* FindWebhookEvent: an event that is recorded is a duplicate, with or without
\* a BuildRun, and also when its BuildRun has been deleted.
Lookup(r) ==
  /\ request[r].step = "lookup"
  /\ IF Event(r).id \in index THEN Answer(r, "duplicate") ELSE Goto(r, "list", "none")
  /\ UNCHANGED <<payload, config, runs, index, made, deleted, skipped, spent>>

\* The webhook is authorized by its signature.
PolicyAllows(c) ==
  EvaluateBuildRun(c.project, [project |-> c.project, provider |-> c.provider], Template, TRUE, TRUE) = {}

\* The filters, the commit, the Project and the PipelineTemplate, and the policy.
Select(r) ==
  LET e == Event(r)
      c == Setting[request[r].config]
  IN  IF e.ping THEN Goto(r, "record", "accepted")
      ELSE IF ~Filter(c, e) THEN Goto(r, "record", "ignored")
      ELSE IF e.commit = None \/ ~Setting[config].references \/ ~PolicyAllows(c) THEN Answer(r, "rejected")
      ELSE Goto(r, "create", "none")

existingBuildRunForEvent(id) == {b \in runs : b.event = id}

\* Mutant of List: the event is recorded before its BuildRun is created.
ListRecordsFirst(r) ==
  /\ request[r].step = "list"
  /\ IF existingBuildRunForEvent(Event(r).id) # {} THEN Answer(r, "duplicate") ELSE Select(r)
  /\ index' = IF WithIndex THEN index \cup {Event(r).id} ELSE index
  /\ UNCHANGED <<payload, config, runs, made, deleted, skipped, spent>>

\* Mutant of List: an event that has a BuildRun is a conflict.
ListConflict(r) ==
  /\ request[r].step = "list"
  /\ IF existingBuildRunForEvent(Event(r).id) # {} THEN Answer(r, "error") ELSE Select(r)
  /\ UNCHANGED <<payload, config, runs, index, made, deleted, skipped, spent>>

List(r) ==
  /\ request[r].step = "list"
  /\ IF existingBuildRunForEvent(Event(r).id) # {} THEN Answer(r, "duplicate") ELSE Select(r)
  /\ UNCHANGED <<payload, config, runs, index, made, deleted, skipped, spent>>

\* The digits that are left of <repository>-<HashDigits digits>, cut to MaxName.
DigitsKept ==
  LET room == MaxName - (NameLength + 1) IN IF room < HashDigits THEN room ELSE HashDigits

\* The names of one Repository's BuildRuns differ in these digits only.
buildRunNameForWebhook(event) == [i \in 1 .. DigitsKept |-> Hash[event][i]]

\* Mutant of Create: the API server chooses the name (generateName).
CreateGenerateName(r) ==
  LET d == request[r].delivery
  IN  /\ request[r].step = "create"
      /\ runs' = runs \cup {[name |-> <<Hash[Event(r).id], made[d]>>, delivery |-> d, event |-> Event(r).id]}
      /\ made' = [made EXCEPT ![d] = @ + 1]
      /\ Goto(r, "record", "created")
      /\ UNCHANGED <<payload, config, index, deleted, skipped, spent>>

Create(r) ==
  LET d == request[r].delivery
      name == buildRunNameForWebhook(Event(r).id)
  IN  /\ request[r].step = "create"
      /\ IF \E b \in runs : b.name = name
         THEN Goto(r, "get", "none") /\ UNCHANGED <<runs, made>>
         ELSE /\ runs' = runs \cup {[name |-> name, delivery |-> d, event |-> Event(r).id]}
              /\ made' = [made EXCEPT ![d] = @ + 1]
              /\ Goto(r, "record", "created")
      /\ UNCHANGED <<payload, config, index, deleted, skipped, spent>>

\* Get after AlreadyExists; the BuildRun may be gone by now, and the sender is
\* then told of the conflict, as it is when Get fails.
Get(r) ==
  /\ request[r].step = "get"
  /\ Answer(r, IF \E b \in runs : b.name = buildRunNameForWebhook(Event(r).id) THEN "duplicate" ELSE "conflict")
  /\ UNCHANGED <<payload, config, runs, index, made, deleted, skipped, spent>>

\* Mutant of Recorded: what is recorded is the id of the headers.
RecordedHeader(r) ==
  /\ index' = IF WithIndex THEN index \cup {payload[request[r].delivery].delivery} ELSE index
  /\ skipped' = IF request[r].result = "created" THEN skipped ELSE skipped \cup {request[r].delivery}

\* recordWebhookEvent.
Recorded(r) ==
  /\ index' = IF WithIndex THEN index \cup {Event(r).id} ELSE index
  /\ skipped' = IF request[r].result = "created" THEN skipped ELSE skipped \cup {request[r].delivery}

Record(r) ==
  /\ request[r].step = "record"
  /\ Recorded(r)
  /\ Answer(r, request[r].result)
  /\ UNCHANGED <<payload, config, runs, made, deleted, spent>>

\* What is answered when a call fails: a secret that cannot be read is forbidden,
\* and a Get that fails leaves the answer to the AlreadyExists before it.
Failed(step) ==
  CASE step = "receive" -> {"error", "rejected"}
    [] step = "get" -> {"conflict"}
    [] OTHER -> {"error"}

\* A call to the database or the cluster fails.
CallFails(r) ==
  /\ request[r].step # "idle"
  /\ request[r].step = "record" => WithIndex
  /\ spent.faults < MaxFaults
  /\ spent' = [spent EXCEPT !.faults = @ + 1]
  /\ \E result \in Failed(request[r].step) : Answer(r, result)
  /\ UNCHANGED <<payload, config, runs, index, made, deleted, skipped>>

\* The connection breaks, or the replica stops, before or after the event is
\* recorded: the sender has no answer.
CutOff(r) ==
  /\ request[r].step # "idle"
  /\ spent.faults < MaxFaults
  /\ spent' = [spent EXCEPT !.faults = @ + 1]
  /\ request' = [request EXCEPT ![r] = Idle]
  /\ \/ UNCHANGED <<index, skipped>>
     \/ request[r].step = "record" /\ Recorded(r)
  /\ UNCHANGED <<payload, config, runs, answers, made, deleted>>

(***************************************************************************)
(* Users: settings and deletions.                                          *)
(***************************************************************************)

Change ==
  /\ spent.changes < MaxChanges
  /\ spent' = [spent EXCEPT !.changes = @ + 1]
  /\ UNCHANGED <<index, request, answers, made, skipped>>

Configure(c) ==
  /\ c # config
  /\ config' = c
  /\ Change
  /\ UNCHANGED <<payload, runs, deleted>>

DeleteRun(b) ==
  /\ runs' = runs \ {b}
  /\ deleted' = [deleted EXCEPT ![b.delivery] = @ + 1]
  /\ Change
  /\ UNCHANGED <<payload, config>>

Handle(r) == Receive(r) \/ Lookup(r) \/ List(r) \/ Create(r) \/ Get(r) \/ Record(r)

Next ==
  \/ \E r \in Requests :
       \/ \E d \in Deliveries : Deliver(r, d) \/ Redeliver(r, d)
       \/ Handle(r)
       \/ CallFails(r)
       \/ CutOff(r)
  \/ \E c \in Configs : Configure(c)
  \/ \E b \in runs : DeleteRun(b)

Spec == Init /\ [][Next]_vars

\* net/http serves every request; a sender that got no answer, or an error,
\* delivers again.
Fairness ==
  /\ \A r \in Requests : WF_vars(Handle(r))
  /\ \A d \in Deliveries : WF_vars(\E r \in Requests : Deliver(r, d))

FairSpec == Spec /\ Fairness

(***************************************************************************)
(* Properties.                                                             *)
(***************************************************************************)

\* Types: the table holds ids of deliveries only, and no more BuildRuns are
\* deleted than made.
TypeOK ==
  /\ payload \in Payloads
  /\ config \in Configs
  /\ \A b \in runs : b.delivery \in Deliveries
  /\ index \subseteq {Parse(payload[d]).id : d \in Deliveries}
  /\ request \in [Requests -> {Idle} \cup Receiving \cup Handling]
  /\ answers \in [Deliveries -> SUBSET Results]
  /\ made \in [Deliveries -> Nat]
  /\ deleted \in [Deliveries -> Nat]
  /\ \A d \in Deliveries : deleted[d] <= made[d]
  /\ skipped \subseteq Deliveries

\* A delivery has at most one BuildRun, whatever the number of requests that
\* carry it, the order of their steps and the failures: only the deletion of its
\* BuildRun lets a delivery make another one.
OneBuildPerDelivery == \A d \in Deliveries : made[d] <= 1 + deleted[d]

\* What is answered as created, as already processed or as a conflict has been
\* processed: no delivery is lost because another one, or an earlier failure,
\* left a trace.
NothingLost ==
  \A d \in Deliveries :
    answers[d] \cap {"created", "duplicate", "conflict"} # {} =>
      made[d] > 0 \/ d \in skipped

\* With the table, a delivery that was answered for what it did never builds
\* again: not after its BuildRun was deleted, nor after the filters changed.
ReplayNeverBuilds ==
  [][\A d \in Deliveries : made'[d] # made[d] =>
       \E r \in Served : /\ request[r].step = "create" /\ request[r].delivery = d
                         /\ WithIndex => ~request[r].replay]_vars

\* A BuildRun is only made for a verified, current delivery that the filters
\* select: an excluded name never builds, a fork or an unverified actor only
\* where the settings say so, and the settings are those of the one read.
OnlySelectedBuild ==
  [][\A d \in Deliveries : made'[d] # made[d] =>
       \E r \in Served :
         LET e == Parse(payload[d])
             c == Setting[request[r].config]
             tag == e.tag /\ ~e.pullRequest
             filters == IF tag THEN c.tags ELSE c.branches
             name == IF e.pullRequest THEN e.base ELSE e.branch
         IN  /\ request[r].delivery = d /\ request'[r] # request[r]
             /\ Verify(payload[d]) /\ e.age \notin {"old", "future"} /\ e.commit # None
             /\ c.enabled /\ e.push # e.pullRequest
             /\ name \notin UNION filters.exclude
             /\ name \in (UNION filters.include) \cup (IF tag THEN {} ELSE {c.defaultBranch})
             /\ e.fork => c.pullRequests /\ c.buildForks
             /\ e.pullRequest => c.pullRequests /\ ~c.trustedOnly]_vars

\* A sender that keeps delivering is answered for good.
EveryDeliveryConcludes == <>(\A d \in Deliveries : Concluded(d))
=============================================================================
