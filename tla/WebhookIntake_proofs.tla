------------------------ MODULE WebhookIntake_proofs ------------------------
(***************************************************************************)
(* The safety properties of WebhookIntake hold for every number of         *)
(* requests, deliveries, failures and changes, for every payload and every *)
(* setting of the Repository.                                              *)
(*                                                                         *)
(* Inv is inductive.  It counts the BuildRuns of a delivery by the name    *)
(* they must have (RunsAreCounted), says that what was answered for good   *)
(* is in the table (AnswersAreIndexed), and what a request in flight has   *)
(* been through (RequestSound).  That the table and the BuildRuns are no   *)
(* reason to lose a delivery needs ids, and names of BuildRuns, that tell  *)
(* the deliveries apart: LostInv is proved under these two, and RoomForIds *)
(* says when the names do.                                                 *)
(***************************************************************************)
EXTENDS WebhookIntake, TLAPS

Id(d) == Parse(payload[d]).id

\* The one BuildRun a delivery may have at a time.
RunOf(d) == [name |-> buildRunNameForWebhook(Id(d)), delivery |-> d, event |-> Id(d)]

RunsAreCounted ==
  /\ \A b \in runs : b = RunOf(b.delivery)
  /\ \A d \in Deliveries : made[d] = deleted[d] + (IF RunOf(d) \in runs THEN 1 ELSE 0)

\* The answers a request gives after it recorded its event.
Settled == {"created", "accepted", "ignored"}

AnswersAreIndexed ==
  WithIndex => \A d \in Deliveries : answers[d] \cap Settled # {} => Id(d) \in index

\* The filters and the references let the delivery build.
Selected(c, d) ==
  /\ ~Parse(payload[d]).ping
  /\ Filter(Setting[c], Parse(payload[d]))
  /\ Parse(payload[d]).commit # None

\* What a request in flight has been through.
RequestSound(q) ==
  /\ WithIndex /\ q.step # "idle" /\ q.replay =>
       Id(q.delivery) \in index /\ q.step \in {"receive", "lookup"}
  /\ q.step \notin {"idle", "receive"} => Accepted(Setting[q.config], payload[q.delivery])
  /\ q.step = "create" => Selected(q.config, q.delivery)
  /\ q.step = "record" =>
       q.result \in Settled /\ (q.result = "created" => made[q.delivery] > 0)

Inv ==
  /\ TypeOK
  /\ RunsAreCounted
  /\ AnswersAreIndexed
  /\ \A r \in Requests : RequestSound(request[r])

-----------------------------------------------------------------------------

\* A request keeps what it knows while others extend the table and make or
\* delete BuildRuns.
LEMMA RequestKept ==
  ASSUME TypeOK, UNCHANGED payload, index \subseteq index',
         \A d \in Deliveries : made[d] > 0 => made'[d] > 0,
         NEW q, q.step # "idle" => q.delivery \in Deliveries, RequestSound(q)
  PROVE  RequestSound(q)'
BY DEF RequestSound, Id, Selected

\* The shapes of a request, and the steps they are at.
LEMMA RequestShape ==
  ASSUME TypeOK, NEW r \in Requests
  PROVE  /\ request[r] \in {Idle} \cup Receiving \cup Handling
         /\ request[r].step = "idle" <=> request[r] = Idle
         /\ request[r].step = "receive" => request[r] \in Receiving
         /\ request[r].step \notin {"idle", "receive"} => request[r] \in Handling
         /\ request[r].step # "idle" => request[r].delivery \in Deliveries
<1>1. request[r] \in {Idle} \cup Receiving \cup Handling
  BY DEF TypeOK
<1>2. \A q \in Receiving : q.step = "receive" /\ q.delivery \in Deliveries
  BY DEF Receiving
<1>3. \A q \in Handling : q.step \in Steps \ {"receive"} /\ q.delivery \in Deliveries
  BY DEF Handling
<1>4. "idle" \notin Steps /\ Idle.step = "idle"
  BY DEF Steps, Idle
<1> QED
  BY <1>1, <1>2, <1>3, <1>4

\* One request goes on; the others keep what they know.
LEMMA RequestsKept ==
  ASSUME Inv, UNCHANGED payload, index \subseteq index',
         \A d \in Deliveries : made[d] > 0 => made'[d] > 0,
         NEW r \in Requests, NEW q,
         request' = [request EXCEPT ![r] = q], RequestSound(q)'
  PROVE  \A s \in Requests : RequestSound(request[s])'
<1> SUFFICES ASSUME NEW s \in Requests PROVE RequestSound(request[s])'
  OBVIOUS
<1>1. request \in [Requests -> {Idle} \cup Receiving \cup Handling]
  BY DEF Inv, TypeOK
<1>2. PICK o : o = request[s]
  OBVIOUS
<1>3. RequestSound(o) /\ (o.step # "idle" => o.delivery \in Deliveries)
  BY <1>2, RequestShape DEF Inv
<1>4. RequestSound(o)'
  BY <1>3, RequestKept DEF Inv
<1>5. request'[s] = IF s = r THEN q ELSE o
  BY <1>1, <1>2
<1> QED
  BY <1>4, <1>5 DEF RequestSound, Id, Selected

LEMMA IdleSound == RequestSound(Idle)'
BY DEF RequestSound, Idle

LEMMA InitInv == Init => Inv
<1> SUFFICES ASSUME Init PROVE Inv
  OBVIOUS
<1> USE DEF Init
<1>1. TypeOK
  BY DEF TypeOK
<1>2. RunsAreCounted /\ AnswersAreIndexed
  BY DEF RunsAreCounted, AnswersAreIndexed
<1>3. \A r \in Requests : RequestSound(request[r])
  BY DEF RequestSound, Idle
<1> QED
  BY <1>1, <1>2, <1>3 DEF Inv

-----------------------------------------------------------------------------
(***************************************************************************)
(* The two ways a request goes on: it is answered, or goes to a next step. *)
(***************************************************************************)

LEMMA AnswerInv ==
  ASSUME Inv, NEW r \in Requests, request[r].step # "idle", NEW result \in Results,
         Answer(r, result), UNCHANGED <<payload, config, runs, made, deleted>>,
         index \subseteq index', index' \subseteq {Parse(payload[d]).id : d \in Deliveries},
         skipped' \subseteq Deliveries,
         WithIndex /\ result \in Settled => Id(request[r].delivery) \in index'
  PROVE  Inv'
<1>1. /\ request \in [Requests -> {Idle} \cup Receiving \cup Handling]
      /\ answers \in [Deliveries -> SUBSET Results]
      /\ request[r].delivery \in Deliveries
  BY RequestShape DEF Inv, TypeOK
<1>2. /\ request' = [request EXCEPT ![r] = Idle]
      /\ answers' = [answers EXCEPT ![request[r].delivery] = @ \cup {result}]
  BY DEF Answer
<1>3. \A s \in Requests : RequestSound(request[s])'
  BY <1>2, RequestsKept, IdleSound DEF Inv
<1>4. AnswersAreIndexed'
  BY <1>1, <1>2 DEF Inv, AnswersAreIndexed, Id
<1>5. answers' \in [Deliveries -> SUBSET Results]
  BY <1>1, <1>2
<1>6. request' \in [Requests -> {Idle} \cup Receiving \cup Handling]
  BY <1>1, <1>2
<1>7. TypeOK'
  BY <1>5, <1>6 DEF Inv, TypeOK
<1>8. RunsAreCounted'
  BY DEF Inv, RunsAreCounted, RunOf, Id
<1> QED
  BY <1>3, <1>4, <1>7, <1>8 DEF Inv

\* The request as Goto leaves it.
LEMMA GotoShape ==
  ASSUME TypeOK, NEW r \in Requests, request[r].step \notin {"idle", "receive"},
         NEW step \in Steps \ {"receive"}, NEW result \in Results \cup {"none"},
         Goto(r, step, result)
  PROVE  \E q \in Handling :
           /\ request' = [request EXCEPT ![r] = q]
           /\ request' \in [Requests -> {Idle} \cup Receiving \cup Handling]
           /\ q.step = step /\ q.result = result /\ q.delivery = request[r].delivery
           /\ q.replay = request[r].replay /\ q.config = request[r].config
           /\ request'[r] = q
<1>1. PICK h \in Handling : h = request[r]
  BY RequestShape
<1>2. request \in [Requests -> {Idle} \cup Receiving \cup Handling]
  BY DEF TypeOK
<1> DEFINE q == [h EXCEPT !.step = step, !.result = result]
<1>3. /\ q \in Handling /\ q.step = step /\ q.result = result /\ q.delivery = h.delivery
      /\ q.replay = h.replay /\ q.config = h.config
  BY DEF Handling
<1>4. request' = [request EXCEPT ![r] = q]
  BY <1>1, <1>2 DEF Goto
<1> HIDE DEF q
<1>5. request' \in [Requests -> {Idle} \cup Receiving \cup Handling] /\ request'[r] = q
  BY <1>2, <1>3, <1>4
<1> QED
  BY <1>1, <1>3, <1>4, <1>5

LEMMA GotoInv ==
  ASSUME Inv, NEW r \in Requests, request[r].step \notin {"idle", "receive"},
         NEW step \in Steps \ {"receive"}, NEW result \in Results \cup {"none"},
         Goto(r, step, result),
         UNCHANGED <<payload, config, runs, index, made, deleted, skipped>>,
         WithIndex /\ request[r].replay => step = "lookup",
         step = "create" => Selected(request[r].config, request[r].delivery),
         step = "record" => result \in Settled \ {"created"}
  PROVE  Inv'
<1>1. PICK q \in Handling :
        /\ request' = [request EXCEPT ![r] = q]
        /\ request' \in [Requests -> {Idle} \cup Receiving \cup Handling]
        /\ q.step = step /\ q.result = result /\ q.delivery = request[r].delivery
        /\ q.replay = request[r].replay /\ q.config = request[r].config
  BY GotoShape DEF Inv
<1>2. RequestSound(request[r])
  BY DEF Inv
<1>3. RequestSound(q)'
  BY <1>1, <1>2 DEF RequestSound, Id, Selected, Steps
<1>4. \A s \in Requests : RequestSound(request[s])'
  BY <1>1, <1>3, RequestsKept
<1>5. UNCHANGED answers
  BY DEF Goto
<1>6. TypeOK'
  BY <1>1, <1>5 DEF Inv, TypeOK
<1>7. RunsAreCounted' /\ AnswersAreIndexed'
  BY <1>5 DEF Inv, RunsAreCounted, AnswersAreIndexed, RunOf, Id
<1> QED
  BY <1>4, <1>6, <1>7 DEF Inv

-----------------------------------------------------------------------------

\* A delivery that was answered for good comes back with its id in the table.
LEMMA BeginInv ==
  ASSUME Inv, NEW r \in Requests, NEW d \in Deliveries, Deliver(r, d) \/ Redeliver(r, d)
  PROVE  Inv'
<1>0. PICK q : q = [step |-> "receive", delivery |-> d, result |-> "none",
                    replay |-> answers[d] \cap Settled # {}]
  OBVIOUS
<1>1. /\ request' = [request EXCEPT ![r] = q]
      /\ UNCHANGED <<payload, config, runs, index, answers, made, deleted, skipped>>
  BY <1>0 DEF Deliver, Redeliver, Begin, Settled
<1>2. q \in Receiving
  BY <1>0 DEF Receiving
<1>3. q.step = "receive" /\ q.delivery = d /\ (q.replay => answers[d] \cap Settled # {})
  BY <1>0
<1>4. RequestSound(q)'
  BY <1>1, <1>3 DEF RequestSound, Inv, AnswersAreIndexed, Id
<1>5. \A s \in Requests : RequestSound(request[s])'
  BY <1>1, <1>4, RequestsKept
<1>6. request' \in [Requests -> {Idle} \cup Receiving \cup Handling]
  BY <1>1, <1>2 DEF Inv, TypeOK
<1>7. TypeOK'
  BY <1>1, <1>6 DEF Inv, TypeOK
<1>8. RunsAreCounted' /\ AnswersAreIndexed'
  BY <1>1 DEF Inv, RunsAreCounted, AnswersAreIndexed, RunOf, Id
<1> QED
  BY <1>5, <1>7, <1>8 DEF Inv

LEMMA ReceiveInv == ASSUME Inv, NEW r \in Requests, Receive(r) PROVE Inv'
<1>1. /\ UNCHANGED <<payload, config, runs, index, made, deleted, skipped>>
      /\ request[r].step = "receive"
  BY DEF Receive
<1>2. CASE Answer(r, "rejected")
  BY <1>1, <1>2, AnswerInv DEF Results, Settled, Inv, TypeOK
<1>3. CASE /\ Accepted(Setting[config], payload[request[r].delivery])
           /\ request' = [request EXCEPT ![r] =
                 [step |-> IF WithIndex THEN "lookup" ELSE "list", delivery |-> @.delivery,
                  result |-> "none", replay |-> @.replay, config |-> config]]
           /\ UNCHANGED answers
  <2>1. /\ request \in [Requests -> {Idle} \cup Receiving \cup Handling]
        /\ request[r] \in Receiving /\ config \in Configs
    BY <1>1, RequestShape DEF Inv, TypeOK
  <2>0. PICK q : q = [step |-> IF WithIndex THEN "lookup" ELSE "list",
                      delivery |-> request[r].delivery, result |-> "none",
                      replay |-> request[r].replay, config |-> config]
    OBVIOUS
  <2>2. request[r].delivery \in Deliveries /\ request[r].replay \in BOOLEAN
    BY <2>1 DEF Receiving
  <2>3. q \in Handling
    BY <2>0, <2>1, <2>2 DEF Handling, Steps
  <2>4. request' = [request EXCEPT ![r] = q]
    BY <1>3, <2>0, <2>1
  <2>5. /\ q.step = IF WithIndex THEN "lookup" ELSE "list"
        /\ q.delivery = request[r].delivery /\ q.replay = request[r].replay /\ q.config = config
    BY <2>0
  <2>6. RequestSound(request[r])
    BY DEF Inv
  <2>7. RequestSound(q)'
    BY <1>1, <1>3, <2>5, <2>6 DEF RequestSound, Id
  <2>8. \A s \in Requests : RequestSound(request[s])'
    BY <1>1, <2>4, <2>7, RequestsKept
  <2>9. request' \in [Requests -> {Idle} \cup Receiving \cup Handling]
    BY <2>1, <2>3, <2>4
  <2>10. TypeOK'
    BY <1>1, <1>3, <2>9 DEF Inv, TypeOK
  <2>11. RunsAreCounted' /\ AnswersAreIndexed'
    BY <1>1, <1>3 DEF Inv, RunsAreCounted, AnswersAreIndexed, RunOf, Id
  <2> QED
    BY <2>8, <2>10, <2>11 DEF Inv
<1> QED
  BY <1>2, <1>3 DEF Receive

\* A replay ends at the table.
LEMMA LookupInv == ASSUME Inv, NEW r \in Requests, Lookup(r) PROVE Inv'
<1>1. /\ UNCHANGED <<payload, config, runs, index, made, deleted, skipped>>
      /\ request[r].step = "lookup"
  BY DEF Lookup
<1>2. CASE Answer(r, "duplicate")
  BY <1>1, <1>2, AnswerInv DEF Results, Settled, Inv, TypeOK
<1>3. CASE Event(r).id \notin index /\ Goto(r, "list", "none")
  <2>1. WithIndex => ~request[r].replay
    BY <1>1, <1>3 DEF Inv, RequestSound, Event, Id
  <2> QED
    BY <1>1, <1>3, <2>1, GotoInv DEF Steps
<1> QED
  BY <1>2, <1>3 DEF Lookup

\* Select lets a request create only what the filters select.
LEMMA ListInv == ASSUME Inv, NEW r \in Requests, List(r) PROVE Inv'
<1>1. /\ UNCHANGED <<payload, config, runs, index, made, deleted, skipped>>
      /\ request[r].step = "list"
  BY DEF List
<1>2. WithIndex => ~request[r].replay
  BY <1>1 DEF Inv, RequestSound
<1>3. ASSUME NEW result \in {"duplicate", "rejected"}, Answer(r, result) PROVE Inv'
  BY <1>1, <1>3, AnswerInv DEF Results, Settled, Inv, TypeOK
<1>4. ASSUME NEW result \in {"accepted", "ignored"}, Goto(r, "record", result) PROVE Inv'
  BY <1>1, <1>2, <1>4, GotoInv DEF Steps, Results, Settled
<1>5. ASSUME Goto(r, "create", "none"), Selected(request[r].config, request[r].delivery)
      PROVE  Inv'
  BY <1>1, <1>2, <1>5, GotoInv DEF Steps
<1> QED
  BY <1>3, <1>4, <1>5 DEF List, Select, Selected, Event

\* The name is taken, or the delivery has no BuildRun.
LEMMA CreateInv == ASSUME Inv, NEW r \in Requests, Create(r) PROVE Inv'
<1> DEFINE d == request[r].delivery
<1>1. /\ UNCHANGED <<payload, config, index, deleted, skipped>>
      /\ request[r].step = "create"
  BY DEF Create
<1>2. d \in Deliveries /\ RequestSound(request[r])
  BY <1>1, RequestShape DEF Inv
<1>3. WithIndex => ~request[r].replay
  BY <1>1, <1>2 DEF RequestSound
<1>4. CASE Goto(r, "get", "none") /\ UNCHANGED <<runs, made>>
  BY <1>1, <1>3, <1>4, GotoInv DEF Steps
<1>5. CASE /\ ~\E b \in runs : b.name = buildRunNameForWebhook(Event(r).id)
           /\ runs' = runs \cup {[name |-> buildRunNameForWebhook(Event(r).id), delivery |-> d,
                                 event |-> Event(r).id]}
           /\ made' = [made EXCEPT ![d] = @ + 1]
           /\ Goto(r, "record", "created")
  <2>1. made \in [Deliveries -> Nat] /\ deleted \in [Deliveries -> Nat]
    BY DEF Inv, TypeOK
  <2>2. runs' = runs \cup {RunOf(d)}
    BY <1>5 DEF RunOf, Event, Id
  <2>3. RunOf(d) \notin runs
    BY <1>5 DEF RunOf, Event, Id
  <2>4. /\ made'[d] = made[d] + 1 /\ made' \in [Deliveries -> Nat]
        /\ \A e \in Deliveries : e # d => made'[e] = made[e]
    BY <1>2, <1>5, <2>1
  <2>5. \A e \in Deliveries : made[e] > 0 => made'[e] > 0
    BY <2>1, <2>4
  <2>6. \A e : RunOf(e).delivery = e /\ RunOf(e)' = RunOf(e)
    BY <1>1 DEF RunOf, Id
  <2>7. RunsAreCounted'
    <3>1. \A b \in runs' : b = RunOf(b.delivery)
      BY <2>2, <2>6 DEF Inv, RunsAreCounted
    <3>2. \A e \in Deliveries : RunOf(e) \in runs' <=> (RunOf(e) \in runs \/ e = d)
      BY <2>2, <2>6
    <3>3. ASSUME NEW e \in Deliveries
          PROVE  made'[e] = deleted[e] + (IF RunOf(e) \in runs' THEN 1 ELSE 0)
      BY <2>1, <2>3, <2>4, <3>2 DEF Inv, RunsAreCounted
    <3> QED
      BY <1>1, <2>6, <3>1, <3>3 DEF RunsAreCounted, RunOf, Id
  <2>8. PICK q \in Handling :
          /\ request' = [request EXCEPT ![r] = q]
          /\ request' \in [Requests -> {Idle} \cup Receiving \cup Handling]
          /\ q.step = "record" /\ q.result = "created" /\ q.delivery = d
          /\ q.replay = request[r].replay /\ q.config = request[r].config
    BY <1>1, <1>5, GotoShape DEF Inv, Steps, Results
  <2>9. made'[d] > 0
    BY <1>2, <2>1, <2>4
  <2>10. RequestSound(q)'
    BY <1>1, <1>2, <1>3, <2>8, <2>9 DEF RequestSound, Settled
  <2>11. \A s \in Requests : RequestSound(request[s])'
    BY <1>1, <2>5, <2>8, <2>10, RequestsKept
  <2>12. UNCHANGED answers
    BY <1>5 DEF Goto
  <2>13. AnswersAreIndexed'
    BY <1>1, <2>12 DEF Inv, AnswersAreIndexed, Id
  <2>14. \A b \in runs' : b.delivery \in Deliveries
    BY <1>2, <2>2, <2>6 DEF Inv, TypeOK
  <2>15. \A e \in Deliveries : deleted[e] <= made'[e]
    BY <1>2, <2>1, <2>4 DEF Inv, TypeOK
  <2>16. TypeOK'
    BY <1>1, <2>1, <2>4, <2>8, <2>12, <2>14, <2>15 DEF Inv, TypeOK
  <2> QED
    BY <2>7, <2>11, <2>13, <2>16 DEF Inv
<1> QED
  BY <1>4, <1>5 DEF Create

LEMMA GetInv == ASSUME Inv, NEW r \in Requests, Get(r) PROVE Inv'
<1>1. /\ UNCHANGED <<payload, config, runs, index, made, deleted, skipped>>
      /\ request[r].step = "get"
      /\ \E result \in {"duplicate", "conflict"} : Answer(r, result)
  BY DEF Get
<1> QED
  BY <1>1, AnswerInv DEF Results, Settled, Inv, TypeOK

\* recordWebhookEvent adds the id of the delivery, if there is a table.
LEMMA RecordedFacts ==
  ASSUME Inv, NEW r \in Requests, request[r].step = "record", Recorded(r)
  PROVE  /\ index \subseteq index' /\ index' \subseteq {Parse(payload[d]).id : d \in Deliveries}
         /\ skipped' \subseteq Deliveries
         /\ WithIndex => Id(request[r].delivery) \in index'
<1>1. request[r].delivery \in Deliveries
  BY RequestShape DEF Inv
<1>2. Event(r).id = Id(request[r].delivery)
  BY DEF Event, Id
<1> QED
  BY <1>1, <1>2 DEF Recorded, Inv, TypeOK, Id

LEMMA RecordInv == ASSUME Inv, NEW r \in Requests, Record(r) PROVE Inv'
<1>1. /\ UNCHANGED <<payload, config, runs, made, deleted>>
      /\ request[r].step = "record" /\ Recorded(r) /\ Answer(r, request[r].result)
  BY DEF Record
<1>2. request[r].result \in Results
  BY <1>1 DEF Inv, RequestSound, Settled, Results
<1> QED
  BY <1>1, <1>2, RecordedFacts, AnswerInv

LEMMA CallFailsInv == ASSUME Inv, NEW r \in Requests, CallFails(r) PROVE Inv'
<1>1. /\ UNCHANGED <<payload, config, runs, index, made, deleted, skipped>>
      /\ request[r].step # "idle"
      /\ \E result \in {"rejected", "conflict", "error"} : Answer(r, result)
  BY DEF CallFails, Failed
<1> QED
  BY <1>1, AnswerInv DEF Results, Settled, Inv, TypeOK

\* A request that is cut off may have recorded its event.
LEMMA CutOffInv == ASSUME Inv, NEW r \in Requests, CutOff(r) PROVE Inv'
<1>1. /\ UNCHANGED <<payload, config, runs, answers, made, deleted>>
      /\ request[r].step # "idle" /\ request' = [request EXCEPT ![r] = Idle]
  BY DEF CutOff
<1>2. /\ index \subseteq index' /\ index' \subseteq {Parse(payload[d]).id : d \in Deliveries}
      /\ skipped' \subseteq Deliveries
  <2>1. CASE UNCHANGED <<index, skipped>>
    BY <2>1 DEF Inv, TypeOK
  <2>2. CASE request[r].step = "record" /\ Recorded(r)
    BY <2>2, RecordedFacts
  <2> QED
    BY <2>1, <2>2 DEF CutOff
<1>3. \A s \in Requests : RequestSound(request[s])'
  BY <1>1, <1>2, RequestsKept, IdleSound
<1>4. request' \in [Requests -> {Idle} \cup Receiving \cup Handling]
  BY <1>1 DEF Inv, TypeOK
<1>5. TypeOK'
  BY <1>1, <1>2, <1>4 DEF Inv, TypeOK
<1>6. RunsAreCounted' /\ AnswersAreIndexed'
  BY <1>1, <1>2 DEF Inv, RunsAreCounted, AnswersAreIndexed, RunOf, Id
<1> QED
  BY <1>3, <1>5, <1>6 DEF Inv

\* The requests of a step that serves none.
LEMMA RequestsUnchanged ==
  ASSUME Inv, UNCHANGED <<payload, index, request, made>>
  PROVE  \A s \in Requests : RequestSound(request[s])'
BY DEF Inv, RequestSound, Id, Selected

LEMMA ConfigureInv == ASSUME Inv, NEW c \in Configs, Configure(c) PROVE Inv'
<1>1. /\ UNCHANGED <<payload, runs, index, request, answers, made, deleted, skipped>>
      /\ config' = c
  BY DEF Configure, Change
<1>2. TypeOK'
  BY <1>1 DEF Inv, TypeOK
<1>3. RunsAreCounted' /\ AnswersAreIndexed'
  BY <1>1 DEF Inv, RunsAreCounted, AnswersAreIndexed, RunOf, Id
<1> QED
  BY <1>1, <1>2, <1>3, RequestsUnchanged DEF Inv

\* The BuildRun that is deleted is the one its delivery had.
LEMMA DeleteRunInv == ASSUME Inv, NEW b \in runs, DeleteRun(b) PROVE Inv'
<1> DEFINE d == b.delivery
<1>1. /\ UNCHANGED <<payload, config, index, request, answers, made, skipped>>
      /\ runs' = runs \ {b} /\ deleted' = [deleted EXCEPT ![d] = @ + 1]
  BY DEF DeleteRun, Change
<1>2. /\ made \in [Deliveries -> Nat] /\ deleted \in [Deliveries -> Nat]
      /\ d \in Deliveries /\ b = RunOf(d)
  BY DEF Inv, TypeOK, RunsAreCounted
<1>3. /\ deleted'[d] = deleted[d] + 1 /\ deleted' \in [Deliveries -> Nat]
      /\ \A e \in Deliveries : e # d => deleted'[e] = deleted[e]
  BY <1>1, <1>2
<1>4. \A e : RunOf(e).delivery = e
  BY DEF RunOf
<1>5. \A e \in Deliveries : RunOf(e) \in runs' <=> (RunOf(e) \in runs /\ e # d)
  BY <1>1, <1>2, <1>4
<1>6. made[d] = deleted[d] + 1
  BY <1>2 DEF Inv, RunsAreCounted
<1>7. \A e \in Deliveries : made[e] = deleted'[e] + (IF RunOf(e) \in runs' THEN 1 ELSE 0)
  BY <1>2, <1>3, <1>5, <1>6 DEF Inv, RunsAreCounted
<1>8. RunsAreCounted'
  BY <1>1, <1>7 DEF Inv, RunsAreCounted, RunOf, Id
<1>9. \A e \in Deliveries : deleted'[e] <= made[e]
  BY <1>2, <1>3, <1>6 DEF Inv, TypeOK
<1>10. TypeOK'
  BY <1>1, <1>3, <1>9 DEF Inv, TypeOK
<1>11. AnswersAreIndexed'
  BY <1>1 DEF Inv, AnswersAreIndexed, Id
<1> QED
  BY <1>1, <1>8, <1>10, <1>11, RequestsUnchanged DEF Inv

LEMMA NextInv == Inv /\ [Next]_vars => Inv'
<1> SUFFICES ASSUME Inv, [Next]_vars PROVE Inv'
  OBVIOUS
<1>1. CASE UNCHANGED vars
  <2>1. UNCHANGED <<payload, config, runs, index, request, answers, made, deleted, skipped>>
    BY <1>1 DEF vars
  <2>2. TypeOK' /\ RunsAreCounted' /\ AnswersAreIndexed'
    BY <2>1 DEF Inv, TypeOK, RunsAreCounted, AnswersAreIndexed, RunOf, Id
  <2> QED
    BY <2>1, <2>2, RequestsUnchanged DEF Inv
<1>2. ASSUME NEW r \in Requests, NEW d \in Deliveries, Deliver(r, d) \/ Redeliver(r, d)
      PROVE  Inv'
  BY <1>2, BeginInv
<1>3. ASSUME NEW r \in Requests, Handle(r) \/ CallFails(r) \/ CutOff(r) PROVE Inv'
  BY <1>3, ReceiveInv, LookupInv, ListInv, CreateInv, GetInv, RecordInv, CallFailsInv, CutOffInv
    DEF Handle
<1> QED
  BY <1>1, <1>2, <1>3, ConfigureInv, DeleteRunInv DEF Next

-----------------------------------------------------------------------------

\* Inv holds in every reachable state of the webhook endpoint.
THEOREM Invariance == Spec => []Inv
<1>1. Init => Inv
  BY InitInv
<1>2. Inv /\ [Next]_vars => Inv'
  BY NextInv
<1> QED
  BY <1>1, <1>2, PTL DEF Spec

\* Requests, answers, counters and the table keep their types.
THEOREM TypeCorrect == Spec => []TypeOK
<1>1. Inv => TypeOK
  BY DEF Inv
<1> QED
  BY <1>1, Invariance, PTL

\* A delivery makes a second BuildRun only after its first was deleted, however
\* many requests carry it at once and whatever the name length.
THEOREM OneBuild == Spec => []OneBuildPerDelivery
<1>1. Inv => OneBuildPerDelivery
  BY DEF Inv, TypeOK, RunsAreCounted, OneBuildPerDelivery
<1> QED
  BY <1>1, Invariance, PTL

\* Only Create makes a BuildRun, for the delivery of a request in flight.
LEMMA MadeByCreate ==
  ASSUME Inv, [Next]_vars, NEW d \in Deliveries, made'[d] # made[d]
  PROVE  \E r \in Served : Create(r) /\ request[r].step = "create" /\ request[r].delivery = d
<1>1. PICK r \in Requests : Create(r)
  BY DEF Next, vars, Deliver, Redeliver, Handle, Receive, Lookup, List, Get, Record, CallFails,
    CutOff, Configure, DeleteRun, Change
<1>2. request[r].step = "create" /\ r \in Served
  BY <1>1 DEF Create, Served
<1>3. request[r].delivery \in Deliveries /\ made \in [Deliveries -> Nat]
  BY <1>2, RequestShape DEF Inv, TypeOK
<1>4. request[r].delivery = d
  BY <1>1, <1>3 DEF Create
<1> QED
  BY <1>1, <1>2, <1>4

\* With the table, a delivery that was answered for good builds nothing when it
\* comes back: a request that knows of an answer ends at the lookup.
THEOREM ReplaysNeverBuild == Spec => ReplayNeverBuilds
<1> DEFINE A == \A d \in Deliveries : made'[d] # made[d] =>
                  \E r \in Served : /\ request[r].step = "create" /\ request[r].delivery = d
                                    /\ WithIndex => ~request[r].replay
<1>1. Inv /\ [Next]_vars => A
  BY MadeByCreate DEF Inv, RequestSound, Served
<1>2. Inv /\ [Next]_vars => [A]_vars
  BY <1>1
<1> QED
  BY <1>2, Invariance, PTL DEF Spec, ReplayNeverBuilds

\* What OnlySelectedBuild says of a delivery p and the settings c.
Permits(c, p) ==
  LET e == Parse(p)
      tag == e.tag /\ ~e.pullRequest
      filters == IF tag THEN c.tags ELSE c.branches
      name == IF e.pullRequest THEN e.base ELSE e.branch
  IN  /\ Verify(p) /\ e.age \notin {"old", "future"}
      /\ c.enabled /\ e.push # e.pullRequest
      /\ name \notin UNION filters.exclude
      /\ name \in (UNION filters.include) \cup (IF tag THEN {} ELSE {c.defaultBranch})
      /\ e.fork => c.pullRequests /\ c.buildForks
      /\ e.pullRequest => c.pullRequests /\ ~c.trustedOnly

\* What Accepted and Filter let through, for every payload and setting: Parse
\* never reports a push and a pull request at once, nor a time it did not check.
LEMMA SelectedMeans ==
  ASSUME NEW c, NEW p, Accepted(c, p), ~Parse(p).ping, Filter(c, Parse(p))
  PROVE  Permits(c, p)
<1> DEFINE e == Parse(p)
           tag == e.tag /\ ~e.pullRequest
           filters == IF tag THEN c.tags ELSE c.branches
           name == IF e.pullRequest THEN e.base ELSE e.branch
<1>1. /\ e.push \in BOOLEAN /\ e.pullRequest \in BOOLEAN /\ ~(e.push /\ e.pullRequest)
      /\ e.fork => e.pullRequest
      /\ ~e.trusted
      /\ p.provider = "github" \/ e.age = "none"
  BY DEF Parse, parseGitHub, parsePush
<1>2. /\ Verify(p) /\ c.enabled
      /\ p.provider = "github" => e.age \in {"none", "fresh"}
  BY DEF Accepted
<1> HIDE DEF e
<1>3. e.push \/ e.pullRequest
  BY DEF Filter, e
<1>4. matchesRef(name, filters, IF tag THEN {} ELSE {{c.defaultBranch}})
  BY <1>1 DEF Filter, e
<1>5. name \notin UNION filters.exclude
  BY <1>4 DEF matchesRef, matchesAny
<1>6. name \in (UNION filters.include) \cup (IF tag THEN {} ELSE {c.defaultBranch})
  <2>1. PICK g \in (IF filters.include = {} THEN IF tag THEN {} ELSE {{c.defaultBranch}}
                    ELSE filters.include) : name \in g
    BY <1>4 DEF matchesRef, matchesAny
  <2> HIDE DEF filters, name, tag
  <2>2. CASE filters.include = {}
    <3>1. ~tag /\ g = {c.defaultBranch}
      BY <2>1, <2>2
    <3>2. name = c.defaultBranch
      BY <2>1, <3>1
    <3>3. name \in (IF tag THEN {} ELSE {c.defaultBranch})
      BY <3>1, <3>2
    <3> QED
      BY <3>3
  <2>3. CASE filters.include # {}
    <3>1. g \in filters.include
      BY <2>1, <2>3
    <3> QED
      BY <2>1, <3>1
  <2> QED
    BY <2>2, <2>3
<1>7. e.pullRequest => c.pullRequests /\ ~c.trustedOnly /\ (e.fork => c.buildForks)
  BY <1>1 DEF Filter, e
<1> QED
  BY <1>1, <1>2, <1>3, <1>5, <1>6, <1>7 DEF e, Permits

\* Every BuildRun is made by a request whose delivery passed the checks and the
\* filters of the settings it read, and no other.
THEOREM OnlySelectedBuilds == Spec => OnlySelectedBuild
<1> DEFINE Holds(d, r) ==
             LET e == Parse(payload[d])
                 c == Setting[request[r].config]
                 tag == e.tag /\ ~e.pullRequest
                 filters == IF tag THEN c.tags ELSE c.branches
                 name == IF e.pullRequest THEN e.base ELSE e.branch
             IN  /\ request[r].delivery = d /\ request'[r] # request[r]
                 /\ Verify(payload[d]) /\ e.age \notin {"old", "future"} /\ e.commit # None
                 /\ c.enabled /\ e.push # e.pullRequest
                 /\ name \notin UNION filters.exclude
                 /\ name \in (UNION filters.include) \cup (IF tag THEN {} ELSE {c.defaultBranch})
                 /\ e.fork => c.pullRequests /\ c.buildForks
                 /\ e.pullRequest => c.pullRequests /\ ~c.trustedOnly
           A == \A d \in Deliveries : made'[d] # made[d] => \E r \in Served : Holds(d, r)
<1>1. ASSUME Inv, [Next]_vars, NEW d \in Deliveries, made'[d] # made[d]
      PROVE  \E r \in Served : Holds(d, r)
  <2>1. PICK r \in Served : Create(r) /\ request[r].step = "create" /\ request[r].delivery = d
    BY <1>1, MadeByCreate
  <2>2. r \in Requests /\ RequestSound(request[r])
    BY <1>1 DEF Served, Inv
  <2>3. /\ Accepted(Setting[request[r].config], payload[d])
        /\ ~Parse(payload[d]).ping /\ Filter(Setting[request[r].config], Parse(payload[d]))
        /\ Parse(payload[d]).commit # None
    BY <2>1, <2>2 DEF RequestSound, Selected
  <2>4. request'[r].step # "create"
    <3>1. PICK step \in {"get", "record"}, result \in Results \cup {"none"} : Goto(r, step, result)
      BY <2>1 DEF Create, Results
    <3> QED
      BY <1>1, <2>1, <2>2, <3>1, GotoShape DEF Inv, Steps
  <2>5. Permits(Setting[request[r].config], payload[d])
    BY <2>3, SelectedMeans
  <2>6. Holds(d, r)
    BY <2>1, <2>3, <2>4, <2>5 DEF Permits
  <2> QED
    BY <2>6
<1>2. Inv /\ [Next]_vars => [A]_vars
  BY <1>1
<1> QED
  BY <1>2, Invariance, PTL DEF Spec, OnlySelectedBuild

-----------------------------------------------------------------------------
(***************************************************************************)
(* No delivery is lost.                                                    *)
(***************************************************************************)

\* The providers send every delivery with an id of its own.
UniqueIds ==
  \A p \in Payloads : \A d, e \in Deliveries : Parse(p[d]).id = Parse(p[e]).id => d = e

\* What the cut leaves of the hashes still tells the ids apart.
UniqueNames ==
  \A p \in Payloads : \A d, e \in Deliveries :
    buildRunNameForWebhook(Parse(p[d]).id) = buildRunNameForWebhook(Parse(p[e]).id) =>
      Parse(p[d]).id = Parse(p[e]).id

\* Repositories whose names leave the hash whole, and ids whose hashes differ.
NameHasRoom == NameLength + 1 + HashDigits <= MaxName
UniqueHashes ==
  \A p \in Payloads : \A d, e \in Deliveries :
    /\ Parse(p[d]).id \in DOMAIN Hash
    /\ Hash[Parse(p[d]).id] = Hash[Parse(p[e]).id] => Parse(p[d]).id = Parse(p[e]).id

\* Up to 50 characters of a Repository's name nothing of the hash is cut, and
\* names are as good as hashes.
LEMMA RoomForIds == ASSUME NameHasRoom, UniqueHashes PROVE UniqueNames
<1>1. DigitsKept = HashDigits
  BY ConstantsAssumption DEF NameHasRoom, DigitsKept, HashDigits, MaxName
<1>2. ASSUME NEW id \in DOMAIN Hash PROVE buildRunNameForWebhook(id) = Hash[id]
  BY <1>1, ConstantsAssumption DEF buildRunNameForWebhook
<1> QED
  BY <1>2 DEF UniqueHashes, UniqueNames

\* A delivery whose id is in the table has been processed.
Processed(d) == made[d] > 0 \/ d \in skipped
IndexIsBacked == \A d \in Deliveries : Id(d) \in index => Processed(d)

\* A request whose name was taken carries a delivery that has been processed.
GetIsBacked ==
  \A r \in Requests : request[r].step = "get" => Processed(request[r].delivery)

TraceInv == NothingLost /\ IndexIsBacked
LostInv == TraceInv /\ GetIsBacked

\* A trace of a delivery, in the BuildRuns or the table, is its own.
LEMMA TracesAreOwn ==
  ASSUME UniqueIds, Inv, IndexIsBacked, NEW d \in Deliveries,
         \/ existingBuildRunForEvent(Id(d)) # {}
         \/ UniqueNames /\ \E b \in runs : b.name = buildRunNameForWebhook(Id(d))
         \/ Id(d) \in index
  PROVE  Processed(d)
<1>1. ASSUME NEW b \in runs, b.event = Id(d) PROVE made[d] > 0
  <2>1. b = RunOf(b.delivery) /\ b.delivery \in Deliveries /\ payload \in Payloads
    BY DEF Inv, RunsAreCounted, TypeOK
  <2>2. Id(b.delivery) = Id(d)
    BY <1>1, <2>1 DEF RunOf
  <2>3. b.delivery = d
    BY <2>1, <2>2 DEF UniqueIds, Id
  <2> QED
    BY <2>1, <2>3 DEF Inv, RunsAreCounted, TypeOK
<1>2. ASSUME UniqueNames, NEW b \in runs, b.name = buildRunNameForWebhook(Id(d)) PROVE b.event = Id(d)
  <2>1. b = RunOf(b.delivery) /\ b.delivery \in Deliveries /\ payload \in Payloads
    BY DEF Inv, RunsAreCounted, TypeOK
  <2>2. b.event = Id(b.delivery) /\ b.name = buildRunNameForWebhook(Id(b.delivery))
    BY <2>1 DEF RunOf
  <2> QED
    BY <1>2, <2>1, <2>2 DEF UniqueNames, Id
<1> QED
  BY <1>1, <1>2 DEF existingBuildRunForEvent, IndexIsBacked, Processed

\* An answer is given for what has been processed.
LEMMA AnswersNothingLost ==
  ASSUME Inv, TraceInv, NEW r \in Requests, request[r].step # "idle", NEW result \in Results,
         Answer(r, result), \A d \in Deliveries : Processed(d) => Processed(d)',
         NEW o, o = request[r].delivery, result \in {"created", "duplicate", "conflict"} => Processed(o)'
  PROVE  NothingLost'
<1>1. request[r].delivery \in Deliveries /\ answers \in [Deliveries -> SUBSET Results]
  BY RequestShape DEF Inv, TypeOK
<1>2. answers' = [answers EXCEPT ![request[r].delivery] = @ \cup {result}]
  BY DEF Answer
<1> SUFFICES ASSUME NEW d \in Deliveries, answers'[d] \cap {"created", "duplicate", "conflict"} # {}
             PROVE  Processed(d)'
  BY DEF NothingLost, Processed
<1>5. CASE answers[d] \cap {"created", "duplicate", "conflict"} # {}
  BY <1>5 DEF TraceInv, NothingLost, Processed
<1>6. CASE answers[d] \cap {"created", "duplicate", "conflict"} = {}
  <2>1. d = o /\ result \in {"created", "duplicate", "conflict"}
    BY <1>1, <1>2, <1>6
  <2> QED
    BY <2>1
<1> QED
  BY <1>5, <1>6

\* Each step of a request, of the sender or of a user keeps TraceInv.
LEMMA NextTraceInv ==
  ASSUME UniqueIds, UniqueNames, Inv, TraceInv, GetIsBacked, [Next]_vars
  PROVE  TraceInv'
<1> USE DEF TraceInv
<1>1. Inv' /\ payload \in Payloads
  BY NextInv DEF Inv, TypeOK
<1>2. ASSUME UNCHANGED <<payload, index, answers, made>>, skipped \subseteq skipped'
      PROVE  TraceInv'
  BY <1>2 DEF NothingLost, IndexIsBacked, Processed, Id
<1>3. ASSUME NEW r \in Requests, request[r].step # "idle", NEW result \in Results,
             Answer(r, result), UNCHANGED <<payload, index, made, skipped>>,
             result \in {"created", "duplicate", "conflict"} => Processed(request[r].delivery)
      PROVE  TraceInv'
  <2>1. PICK o : o = request[r].delivery
    OBVIOUS
  <2>2. \A d : Processed(d) => Processed(d)'
    BY <1>3 DEF Processed
  <2>3. IndexIsBacked'
    BY <1>3, <2>2 DEF IndexIsBacked, Id
  <2> QED
    BY <1>3, <2>1, <2>2, <2>3, AnswersNothingLost
<1>4. ASSUME NEW r \in Requests, request[r].step = "record", Recorded(r),
             UNCHANGED <<payload, made>>
      PROVE  /\ \A d \in Deliveries : Processed(d) => Processed(d)'
             /\ IndexIsBacked'
             /\ \A o : o = request[r].delivery => Processed(o)'
  <2>1. PICK o \in Deliveries : o = request[r].delivery
    BY <1>4, RequestShape DEF Inv
  <2>2. Processed(o)'
    BY <1>4, <2>1 DEF Recorded, Processed, Inv, RequestSound
  <2>3. \A d \in Deliveries : Processed(d) => Processed(d)'
    BY <1>4 DEF Recorded, Processed
  <2>4. index' \subseteq index \cup {Id(o)}
    BY <1>4, <2>1 DEF Recorded, Event, Id
  <2>5. ASSUME NEW d \in Deliveries, Id(d) \in index' PROVE Processed(d)'
    <3>1. CASE Id(d) \in index
      BY <2>3, <3>1 DEF IndexIsBacked
    <3>2. CASE Id(d) = Id(o)
      <4>1. d = o
        BY <1>1, <3>2 DEF UniqueIds, Id
      <4> QED
        BY <2>2, <4>1
    <3> QED
      BY <2>4, <2>5, <3>1, <3>2
  <2>6. IndexIsBacked'
    BY <1>4, <2>5 DEF IndexIsBacked, Id
  <2> QED
    BY <2>1, <2>2, <2>3, <2>6
<1>5. ASSUME NEW r \in Requests, Handle(r) \/ CallFails(r) \/ CutOff(r) PROVE TraceInv'
  <2>0. request[r].step # "idle" => request[r].delivery \in Deliveries
    BY RequestShape DEF Inv
  <2>1. CASE Receive(r)
    BY <1>2, <1>3, <2>1 DEF Receive, Results
  <2>2. CASE Lookup(r)
    <3>1. CASE Event(r).id \in index
      BY <1>3, <2>0, <2>2, <3>1, TracesAreOwn DEF Lookup, Results, Event, Id
    <3>2. CASE Event(r).id \notin index
      BY <1>2, <2>2, <3>2 DEF Lookup, Goto
    <3> QED
      BY <3>1, <3>2
  <2>3. CASE List(r)
    <3>1. CASE existingBuildRunForEvent(Event(r).id) # {}
      BY <1>3, <2>0, <2>3, <3>1, TracesAreOwn DEF List, Results, Event, Id
    <3>2. CASE existingBuildRunForEvent(Event(r).id) = {}
      <4>1. CASE Answer(r, "rejected")
        BY <1>3, <2>3, <4>1 DEF List, Results
      <4>2. CASE UNCHANGED answers
        BY <1>2, <2>3, <4>2 DEF List
      <4> QED
        BY <2>3, <3>2, <4>1, <4>2 DEF List, Select, Goto
    <3> QED
      BY <3>1, <3>2
  <2>4. CASE Create(r)
    <3>1. UNCHANGED <<payload, index, answers, skipped>>
      BY <2>4 DEF Create, Goto
    <3>2. \A d \in Deliveries : made[d] > 0 => made'[d] > 0
      BY <2>0, <2>4 DEF Create, Inv, TypeOK
    <3> QED
      BY <3>1, <3>2 DEF NothingLost, IndexIsBacked, Processed, Id
  <2>5. CASE Get(r)
    <3>1. PICK result \in {"duplicate", "conflict"} : Answer(r, result)
      BY <2>5 DEF Get
    <3>2. Processed(request[r].delivery)
      BY <2>5 DEF Get, GetIsBacked
    <3> QED
      BY <1>3, <2>5, <3>1, <3>2 DEF Get, Results
  <2>6. CASE Record(r)
    <3>1. request[r].result \in Results
      BY <2>6 DEF Record, Inv, RequestSound, Settled, Results
    <3>2. PICK o : o = request[r].delivery
      OBVIOUS
    <3> QED
      BY <1>4, <2>6, <3>1, <3>2, AnswersNothingLost DEF Record
  <2>7. CASE CallFails(r)
    <3>1. PICK result \in Results : Answer(r, result) /\ result \in Failed(request[r].step)
      BY <2>7 DEF CallFails, Failed, Results
    <3>2. result \in {"created", "duplicate", "conflict"} => Processed(request[r].delivery)
      BY <3>1 DEF Failed, GetIsBacked
    <3> QED
      BY <1>3, <2>7, <3>1, <3>2 DEF CallFails
  <2>8. CASE CutOff(r)
    <3>1. CASE UNCHANGED <<index, skipped>>
      BY <1>2, <2>8, <3>1 DEF CutOff
    <3>2. CASE request[r].step = "record" /\ Recorded(r)
      BY <1>4, <2>8, <3>2 DEF CutOff, NothingLost, Processed
    <3> QED
      BY <2>8, <3>1, <3>2 DEF CutOff
  <2> QED
    BY <1>5, <2>1, <2>2, <2>3, <2>4, <2>5, <2>6, <2>7, <2>8 DEF Handle
<1> QED
  BY <1>2, <1>5 DEF Next, vars, Deliver, Redeliver, Configure, DeleteRun, Change

\* Nothing undoes that a delivery has been processed.
LEMMA ProcessedKept ==
  ASSUME Inv, [Next]_vars, NEW d \in Deliveries, Processed(d)
  PROVE  Processed(d)'
<1>1. skipped \subseteq skipped'
  BY DEF Next, vars, Deliver, Redeliver, Handle, Receive, Lookup, List, Create, Get, Record,
    Recorded, CallFails, CutOff, Configure, DeleteRun, Change
<1>2. CASE made' = made
  BY <1>1, <1>2 DEF Processed
<1>3. CASE \E r \in Requests : Create(r)
  <2>1. PICK r \in Requests : Create(r)
    BY <1>3
  <2>2. request[r].delivery \in Deliveries /\ made \in [Deliveries -> Nat]
    BY <2>1, RequestShape DEF Create, Inv, TypeOK
  <2>3. made[d] > 0 => made'[d] > 0
    BY <2>1, <2>2 DEF Create
  <2> QED
    BY <1>1, <2>3 DEF Processed
<1> QED
  BY <1>2, <1>3 DEF Next, vars, Deliver, Redeliver, Handle, Receive, Lookup, List, Get, Record,
    CallFails, CutOff, Configure, DeleteRun, Change

\* A request that has to Get found its name taken, by a BuildRun of its delivery.
LEMMA NextGetIsBacked ==
  ASSUME UniqueIds, UniqueNames, Inv, IndexIsBacked, GetIsBacked, [Next]_vars
  PROVE  GetIsBacked'
<1> SUFFICES ASSUME NEW r \in Requests, request'[r].step = "get"
             PROVE  Processed(request[r].delivery)'
  BY DEF GetIsBacked
<1>0. request \in [Requests -> {Idle} \cup Receiving \cup Handling]
  BY DEF Inv, TypeOK
<1>1. CASE request'[r] = request[r]
  <2>1. PICK o \in Deliveries : o = request[r].delivery
    BY <1>1, RequestShape DEF Inv
  <2>2. Processed(o)'
    BY <1>1, <2>1, ProcessedKept DEF GetIsBacked
  <2> QED
    BY <1>1, <2>1, <2>2
<1>2. CASE request'[r] # request[r]
  <2>1. ASSUME NEW s \in Requests, NEW q, request' = [request EXCEPT ![s] = q], q.step # "get"
        PROVE  FALSE
    BY <1>0, <1>2, <2>1
  <2>2. ASSUME NEW s \in Requests, NEW step, NEW result, request[s].step \notin {"idle", "receive"},
               step # "get", Goto(s, step, result)
        PROVE  FALSE
    <3>1. PICK h \in Handling : h = request[s]
      BY <2>2, RequestShape DEF Inv
    <3>2. [h EXCEPT !.step = step, !.result = result].step = step
      BY <3>1 DEF Handling
    <3>3. request' = [request EXCEPT ![s] = [h EXCEPT !.step = step, !.result = result]]
      BY <1>0, <2>2, <3>1 DEF Goto
    <3> QED
      BY <2>1, <2>2, <3>2, <3>3
  <2>3. ASSUME NEW s \in Requests, NEW result, Answer(s, result) PROVE FALSE
    <3>1. Idle.step # "get" /\ request' = [request EXCEPT ![s] = Idle]
      BY <2>3 DEF Answer, Idle
    <3> QED
      BY <2>1, <3>1
  <2>4. PICK s \in Requests : Create(s)
    <3>1. ASSUME NEW s \in Requests, NEW d \in Deliveries, Begin(s, d) PROVE FALSE
      <4> DEFINE q == [step |-> "receive", delivery |-> d, result |-> "none",
                       replay |-> answers[d] \cap {"created", "accepted", "ignored"} # {}]
      <4>1. q.step # "get" /\ request' = [request EXCEPT ![s] = q]
        BY <3>1 DEF Begin
      <4> QED
        BY <2>1, <4>1
    <3>2. ASSUME NEW s \in Requests, Receive(s) PROVE FALSE
      <4>1. CASE Answer(s, "rejected")
        BY <2>3, <4>1
      <4>2. CASE ~Answer(s, "rejected")
        <5> DEFINE q == [step |-> IF WithIndex THEN "lookup" ELSE "list",
                         delivery |-> request[s].delivery, result |-> "none",
                         replay |-> request[s].replay, config |-> config]
        <5>1. q.step # "get" /\ request' = [request EXCEPT ![s] = q]
          BY <1>0, <3>2, <4>2 DEF Receive
        <5> QED
          BY <2>1, <5>1
      <4> QED
        BY <4>1, <4>2
    <3>3. ASSUME NEW s \in Requests, Lookup(s) \/ List(s) PROVE FALSE
      <4>1. request[s].step \notin {"idle", "receive"}
        BY <3>3 DEF Lookup, List
      <4>2. \/ \E result : Answer(s, result)
            \/ \E step \in {"list", "record", "create"} : \E result : Goto(s, step, result)
        BY <3>3 DEF Lookup, List, Select
      <4> QED
        BY <2>2, <2>3, <4>1, <4>2
    <3>4. ASSUME NEW s \in Requests, Get(s) \/ Record(s) \/ CallFails(s) PROVE FALSE
      BY <2>3, <3>4 DEF Get, Record, CallFails
    <3>5. ASSUME NEW s \in Requests, CutOff(s) PROVE FALSE
      <4>1. Idle.step # "get" /\ request' = [request EXCEPT ![s] = Idle]
        BY <3>5 DEF CutOff, Idle
      <4> QED
        BY <2>1, <4>1
    <3> QED
      BY <1>2, <3>1, <3>2, <3>3, <3>4, <3>5
      DEF Next, vars, Handle, Deliver, Redeliver, Configure, DeleteRun, Change
  <2>5. request[s].step = "create" /\ Goto(s, "get", "none")
    BY <2>2, <2>4 DEF Create
  <2>6. s = r
    BY <1>0, <1>2, <2>5 DEF Goto
  <2>7. PICK o \in Deliveries : o = request[r].delivery
    BY <2>5, <2>6, RequestShape DEF Inv
  <2>8. request'[r].delivery = o
    <3>1. PICK h \in Handling : h = request[r]
      BY <2>5, <2>6, RequestShape DEF Inv
    <3> QED
      BY <1>0, <2>7, <2>5, <2>6, <3>1 DEF Goto, Handling
  <2>9. \E b \in runs : b.name = buildRunNameForWebhook(Id(o))
    <3>1. CASE ~Goto(r, "record", "created")
      BY <2>7, <2>4, <2>6, <3>1 DEF Create, Event, Id
    <3>2. CASE Goto(r, "record", "created")
      BY <2>2, <2>5, <2>6, <3>2
    <3> QED
      BY <3>1, <3>2
  <2>10. Processed(o)'
    BY <2>7, <2>9, TracesAreOwn, ProcessedKept
  <2> QED
    BY <2>8, <2>10
<1> QED
  BY <1>1, <1>2

\* No delivery is answered as created, as a duplicate or as a conflict before it
\* has made a BuildRun or was recorded as making none, if its id and what the cut
\* at 63 characters leaves of the name of its BuildRun are its own.
THEOREM NoDeliveryLost == ASSUME UniqueIds, UniqueNames PROVE Spec => []NothingLost
<1>1. Init => LostInv
  BY DEF Init, LostInv, TraceInv, NothingLost, IndexIsBacked, GetIsBacked, Idle
<1>2. Inv /\ LostInv /\ [Next]_vars => LostInv'
  BY NextTraceInv, NextGetIsBacked DEF LostInv, TraceInv
<1>3. LostInv => NothingLost
  BY DEF LostInv, TraceInv
<1> QED
  BY <1>1, <1>2, <1>3, Invariance, PTL DEF Spec

=============================================================================
