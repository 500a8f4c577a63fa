-------------------------- MODULE ProjectIsolation --------------------------
(***************************************************************************)
(* The Project controller (internal/controller/project_controller.go): it  *)
(* brings the namespace of a Project, its RBAC objects and its             *)
(* NetworkPolicy to what the spec says, one CreateOrUpdate after the       *)
(* other, and reports in the status.                                       *)
(*                                                                         *)
(* Every read goes through a cache that lags behind the API server, writes *)
(* are refused when the version read is not the stored one, and nothing    *)
(* but the timed requeue tells the controller that one of the objects was  *)
(* changed: they live in other namespaces and have no owner.               *)
(***************************************************************************)
EXTENDS Integers, Sequences, FiniteSets

CONSTANTS
  Specs,           \* the specs users write: namespace, account, createNamespace, level, mode
  APIAccess,       \* the API's account and role are configured
  MaxGeneration,   \* bound on the edits of the spec
  MaxLag,          \* bound on the objects the cache shows late at a time
  MaxDisruptions,  \* bound on the disruptions
  Disruptions      \* the kinds of disruption that happen

\* The objects other than the runner's ServiceAccount, which is known by its name.
Kinds == {"namespace", "role", "runner", "api", "defaultDeny", "egressAllowList"}

ASSUME ConstantsAssumption ==
  /\ \A spec \in Specs : /\ {spec.createNamespace, APIAccess} \subseteq BOOLEAN
                         /\ spec.mode \in {"disabled", "defaultDeny", "egressAllowList"}
                         /\ spec.account \notin Kinds
  /\ {MaxGeneration, MaxLag} \subseteq Nat \ {0}
  /\ MaxDisruptions \in Nat
  /\ Disruptions \subseteq {"call", "answer", "restart", "drift", "namespace", "delete"}

VARIABLES
  project,    \* the stored Project
  cached,     \* the Project in the controller's cache
  objects,    \* the objects of the cluster
  view,       \* the objects in the controller's cache
  fresh,      \* the keys whose cached object has the stored resourceVersion
  unsettled,  \* history: the objects others changed, or a lagging cache showed,
              \* since a reconcile last ensured them
  work,       \* the reconcile under way: the copy it read, the keys it still ensures
  queued,     \* a reconcile request waits in the work queue, or for its time
  budget      \* disruptions left

vars == <<project, cached, objects, view, fresh, unsettled, work, queued, budget>>

clusterVars == <<objects, view, fresh, unsettled>>

(***************************************************************************)
(* Objects.  A key is the namespace and the object in it; an object has    *)
(* the managed labels and the content the controller decides on.           *)
(***************************************************************************)

Accounts == {spec.account : spec \in Specs}
Keys == {spec.namespace : spec \in Specs} \X (Kinds \cup Accounts)

Absent == [managed |-> FALSE, content |-> "absent"]
Altered == [managed |-> FALSE, content |-> "altered"]

\* A RoleBinding somebody made of the name, for another role.
Remade == [managed |-> FALSE, content |-> "remade"]

NamespaceOf(key) == <<key[1], "namespace">>

\* What the mutate function of a CreateOrUpdate makes of an object: the rules,
\* the subject and the policy are set, a ServiceAccount gets its labels only,
\* and a namespace keeps its Pod Security level when the spec has none.
Content(spec, key, object) ==
  IF key[2] = "runner" THEN spec.account
  ELSE IF key[2] = "namespace" /\ spec.level # "none" THEN spec.level
  ELSE IF key[2] \in Accounts \cup {"namespace"} /\ object # Absent THEN object.content
  ELSE "set"

\* Every object gets the labels of the Project.
Mutated(spec, key, object) == [managed |-> TRUE, content |-> Content(spec, key, object)]

ensureNamespace(spec) ==
  IF spec.createNamespace THEN <<<<spec.namespace, "namespace">>>> ELSE <<>>

ensureRunnerRBAC(spec) ==
  <<<<spec.namespace, spec.account>>, <<spec.namespace, "role">>, <<spec.namespace, "runner">>>>

ensureAPIRBAC(spec) == IF APIAccess THEN <<<<spec.namespace, "api">>>> ELSE <<>>

ensureNetworkPolicy(spec) ==
  IF spec.mode = "disabled" THEN <<>> ELSE <<<<spec.namespace, spec.mode>>>>

\* Every object a spec asks for, in the order of the reconcile.
Plan(spec) ==
  ensureNamespace(spec) \o ensureRunnerRBAC(spec) \o ensureAPIRBAC(spec) \o ensureNetworkPolicy(spec)

(***************************************************************************)
(* The Project: a generation per edit, and the status.  ready is the       *)
(* observedGeneration of the Ready condition, 0 without one.               *)
(***************************************************************************)

NoStatus == [phase |-> "Unset", namespaceReady |-> FALSE, observed |-> 0, ready |-> 0]
NewProject(spec) == [exists |-> TRUE, generation |-> 1, spec |-> spec, status |-> NoStatus]

Idle == [busy |-> FALSE]

Init ==
  \E spec \in Specs :
    /\ project = NewProject(spec)
    /\ cached = project
    /\ \E existing \in SUBSET {key \in Keys : key[2] = "namespace"} :
         objects = [key \in Keys |-> IF key \in existing THEN Altered ELSE Absent]
    /\ view = objects
    /\ fresh = Keys
    /\ unsettled = {}
    /\ work = Idle
    /\ queued = TRUE
    /\ budget = MaxDisruptions

Disrupt(kind) == kind \in Disruptions /\ budget > 0 /\ budget' = budget - 1

(***************************************************************************)
(* The reconcile.                                                          *)
(***************************************************************************)

\* Mutant of Begin: a Project that is gone is reconciled as it last was.
BeginUnchecked ==
  /\ ~work.busy
  /\ queued
  /\ queued' = FALSE
  /\ work' = [busy |-> TRUE, copy |-> cached, todo |-> Plan(cached.spec), failed |-> FALSE]
  /\ UNCHANGED <<project, cached, budget>> /\ UNCHANGED clusterVars

\* A Project that is gone from the cache needs nothing.
Begin ==
  /\ ~work.busy
  /\ queued
  /\ queued' = FALSE
  /\ work' = IF cached.exists
             THEN [busy |-> TRUE, copy |-> cached, todo |-> Plan(cached.spec), failed |-> FALSE]
             ELSE Idle
  /\ UNCHANGED <<project, cached, budget>> /\ UNCHANGED clusterVars

Write(key, object) ==
  /\ Cardinality(Keys \ (fresh \ {key})) <= MaxLag
  /\ objects' = [objects EXCEPT ![key] = object]
  /\ fresh' = fresh \ {key}

Settle(key) == unsettled' = IF key \in fresh THEN unsettled \ {key} ELSE unsettled \cup {key}

\* CreateOrUpdate: what it does with an object depends on the cached one, and
\* whether it may depends on the stored one.  The API server does not let the
\* role of a RoleBinding be changed.
Missing(key) == view[key] = Absent
InPlace(key) == ~Missing(key) /\ view[key] = Mutated(work.copy.spec, key, view[key])
Allowed(key) ==
  IF Missing(key)
  THEN /\ objects[key] = Absent
       /\ key[2] = "namespace" \/ objects[NamespaceOf(key)] # Absent
  ELSE key \in fresh /\ objects[key] # Remade

Ensured(key) ==
  \/ /\ InPlace(key)
     /\ UNCHANGED <<objects, fresh>>
  \/ /\ ~InPlace(key)
     /\ Allowed(key)
     /\ Write(key, Mutated(work.copy.spec, key, view[key]))

Ensure ==
  /\ work.busy /\ ~work.failed /\ work.todo # <<>>
  /\ LET key == Head(work.todo) IN
       \/ /\ Ensured(key)
          /\ Settle(key)
          /\ work' = [work EXCEPT !.todo = Tail(@)]
          /\ UNCHANGED budget
       \/ /\ ~InPlace(key) /\ ~Allowed(key)
          /\ work' = [work EXCEPT !.failed = TRUE]
          /\ UNCHANGED <<objects, fresh, unsettled, budget>>
       \/ /\ Disrupt("call")
          /\ work' = [work EXCEPT !.failed = TRUE]
          /\ UNCHANGED <<objects, fresh, unsettled>>
       \/ /\ Disrupt("answer")
          /\ Ensured(key)
          /\ work' = [work EXCEPT !.failed = TRUE]
          /\ UNCHANGED unsettled
  /\ UNCHANGED <<project, cached, view, queued>>

\* UpdateStatusWithRetry: the status of the copy, with the conditions only the
\* stored one has.
Merged(status) ==
  [status EXCEPT !.ready = IF @ = 0 THEN project.status.ready ELSE @]

Stored(status) ==
  /\ cached = project /\ project.exists
  /\ project' = [project EXCEPT !.status = Merged(status)]

\* The write is refused unless the cache has the stored version; whether it got
\* through is not told apart afterwards, an error is retried and a success
\* repeated.
UpdateStatus(status) ==
  \/ Stored(status) /\ UNCHANGED budget
  \/ ~(cached = project /\ project.exists) /\ UNCHANGED <<project, budget>>
  \/ Disrupt("call") /\ UNCHANGED project

conditionCurrent(status, generation) == status.ready = generation

UpToDate(copy) ==
  /\ copy.status.phase = "Ready"
  /\ copy.status.namespaceReady
  /\ copy.status.observed = copy.generation
  /\ conditionCurrent(copy.status, copy.generation)

\* Mutant of ReadyStatus: the status speaks for the generation there is now.
ReadyStatusLatest(copy) ==
  [copy.status EXCEPT !.phase = "Ready", !.namespaceReady = TRUE,
                      !.observed = project.generation, !.ready = project.generation]

ReadyStatus(copy) ==
  [copy.status EXCEPT !.phase = "Ready", !.namespaceReady = TRUE,
                      !.observed = copy.generation, !.ready = copy.generation]

\* Mutant of Requeue: a reconcile that found nothing to do is the last one.
RequeueUnlessUpToDate == queued' = (queued \/ work.failed \/ ~UpToDate(work.copy))

\* How a reconcile ends: with an error the request is queued again, after a
\* success in five minutes.
Requeue == queued' = TRUE

markProjectReady ==
  /\ work.busy /\ ~work.failed /\ work.todo = <<>>
  /\ IF UpToDate(work.copy) THEN UNCHANGED <<project, budget>>
     ELSE UpdateStatus(ReadyStatus(work.copy))
  /\ Requeue
  /\ work' = Idle
  /\ UNCHANGED cached /\ UNCHANGED clusterVars

\* The error is returned whether or not it could be stored.
markProjectError ==
  /\ work.busy /\ work.failed
  /\ UpdateStatus([work.copy.status EXCEPT !.phase = "Error", !.observed = work.copy.generation])
  /\ Requeue
  /\ work' = Idle
  /\ UNCHANGED cached /\ UNCHANGED clusterVars

\* The watch of Projects brings the change and queues a request.
SyncProject ==
  /\ cached # project
  /\ cached' = project
  /\ queued' = TRUE
  /\ UNCHANGED <<project, work, budget>> /\ UNCHANGED clusterVars

\* The objects are cached, but nothing is queued for them.  Those of a deleted
\* namespace come in one order, down to the bound.
SyncObject(key) ==
  /\ key \notin fresh
  /\ Cardinality(Keys \ fresh) > MaxLag => key = CHOOSE late \in Keys \ fresh : TRUE
  /\ view' = [view EXCEPT ![key] = objects[key]]
  /\ fresh' = fresh \cup {key}
  /\ UNCHANGED <<project, cached, objects, unsettled, work, queued, budget>>

Restart ==
  /\ Disrupt("restart")
  /\ work' = Idle
  /\ cached' = project
  /\ view' = objects
  /\ fresh' = Keys
  /\ queued' = TRUE
  /\ UNCHANGED <<project, objects, unsettled>>

(***************************************************************************)
(* Users.                                                                  *)
(***************************************************************************)

EditProject ==
  /\ project.exists /\ project.generation < MaxGeneration
  /\ \E spec \in Specs \ {project.spec} :
       project' = [project EXCEPT !.spec = spec, !.generation = @ + 1]
  /\ UNCHANGED <<cached, work, queued, budget>> /\ UNCHANGED clusterVars

\* No finalizer and no owner reference: the objects stay.
DeleteProject ==
  /\ project.exists
  /\ Disrupt("delete")
  /\ project' = [project EXCEPT !.exists = FALSE]
  /\ UNCHANGED <<cached, work, queued>> /\ UNCHANGED clusterVars

Changed(keys, object) ==
  /\ objects' = [key \in Keys |-> IF key \in keys THEN object ELSE objects[key]]
  /\ fresh' = fresh \ keys
  /\ unsettled' = unsettled \cup keys
  /\ UNCHANGED <<project, cached, view, work, queued>>

\* Somebody deletes or edits an object, or deletes a RoleBinding and makes it again.
Drift(key) ==
  /\ objects[key] # Absent /\ key[2] # "namespace"
  /\ Disrupt("drift")
  /\ \E object \in {Absent, Altered} \cup (IF key[2] \in {"runner", "api"} THEN {Remade} ELSE {}) :
       Changed({key}, object)

\* A namespace goes with everything in it, loses its labels, or is made by hand.
EditNamespace(key) ==
  /\ key[2] = "namespace"
  /\ Disrupt("namespace")
  /\ \/ objects[key] # Absent /\ Changed({k \in Keys : NamespaceOf(k) = key /\ objects[k] # Absent}, Absent)
     \/ Changed({key}, Altered)

Reconcile == Begin \/ Ensure \/ markProjectReady \/ markProjectError

Next ==
  \/ Reconcile
  \/ SyncProject
  \/ Restart
  \/ EditProject
  \/ DeleteProject
  \/ \E key \in Keys : SyncObject(key) \/ Drift(key) \/ EditNamespace(key)

Spec == Init /\ [][Next]_vars

\* The manager runs its workers and its watches, and a delayed
\* request comes due.
FairSpec ==
  /\ Spec
  /\ WF_vars(Reconcile) /\ WF_vars(SyncProject)
  /\ \A key \in Keys : WF_vars(SyncObject(key))

(***************************************************************************)
(* Properties.                                                             *)
(***************************************************************************)

Statuses ==
  [phase : {"Unset", "Ready", "Error"}, namespaceReady : BOOLEAN, observed : 0 .. MaxGeneration,
   ready : 0 .. MaxGeneration]
Projects == [exists : BOOLEAN, generation : 1 .. MaxGeneration, spec : Specs, status : Statuses]
Objects ==
  [managed : BOOLEAN, content : {"absent", "altered", "remade", "set"} \cup Accounts \cup {spec.level : spec \in Specs}]

\* Types, and what the shapes rule out: an object is managed unless it is absent
\* or somebody made it what it is, a reconcile under way has a Project that
\* existed, and no object is outside a namespace.
TypeOK ==
  /\ {project, cached} \subseteq Projects
  /\ \A key \in Keys : {objects[key], view[key]} \subseteq Objects
  /\ DOMAIN objects = Keys /\ DOMAIN view = Keys
  /\ {fresh, unsettled} \subseteq SUBSET Keys
  /\ \A key \in Keys : objects[key] # Absent => objects[NamespaceOf(key)] # Absent
  /\ work.busy => work.copy \in Projects /\ work.copy.exists
  /\ {queued, work.busy} \subseteq BOOLEAN
  /\ budget \in 0 .. MaxDisruptions

\* The objects that isolate a Project, and when one of them does.
Isolation(spec) ==
  {spec.namespace} \X ({"namespace", spec.account, "role", "runner"}
                         \cup (IF APIAccess THEN {"api"} ELSE {})
                         \cup ({spec.mode} \ {"disabled"}))

InForce(spec, key) ==
  /\ objects[key] # Absent
  /\ key[2] \in {"role", "api"} \cup ({spec.mode} \ {"disabled"}) => objects[key].content = "set"
  /\ key[2] = "runner" => objects[key].content = spec.account
  /\ key[2] = "namespace" /\ spec.createNamespace /\ spec.level # "none"
       => objects[key].content = spec.level

\* A Project that is Ready at its own generation has every object its spec asks
\* for, with the content the spec decides, unless somebody changed the object
\* after the reconcile or the cache showed the reconcile an old one.  Edits come
\* at any point between the read of the spec and the write of the status.
ReadyIsBacked ==
  project.exists /\ project.status.phase = "Ready" /\ project.status.observed = project.generation
    => \A key \in Isolation(project.spec) : InForce(project.spec, key) \/ key \in unsettled

Reachable ==
  /\ project.spec.createNamespace \/ objects[<<project.spec.namespace, "namespace">>] # Absent
  /\ \A key \in Isolation(project.spec) : objects[key] # Remade

\* Once the disruptions are over, the Project comes to be Ready and everything
\* its spec asks for to be there, for good, whatever failed, went stale, was
\* edited or was deleted on the way.  A namespace the controller may not create
\* has to exist, and a RoleBinding of its names for another role has to be deleted:
\* the controller cannot update it, and reports an error for as long as it is there.
EventuallyIsolated ==
  <>[](project.exists /\ Reachable =>
         /\ UpToDate(project)
         /\ \A key \in Isolation(project.spec) : InForce(project.spec, key))
=============================================================================
