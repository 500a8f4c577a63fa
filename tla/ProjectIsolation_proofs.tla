---------------------- MODULE ProjectIsolation_proofs ----------------------
(***************************************************************************)
(* The safety properties of ProjectIsolation hold for all specs and any    *)
(* number of edits, lagging caches and disruptions.                        *)
(*                                                                         *)
(* Inv is inductive.  It adds to the properties what the reconcile under   *)
(* way has behind it (ReconcileIsSound), which generation the Project, the *)
(* cache and the reconcile are at (Generations), and what the cache of the *)
(* objects may still show (CacheIsSound).                                  *)
(***************************************************************************)
EXTENDS ProjectIsolation, TLAPS

Busy == [busy : {TRUE}, copy : Projects, todo : Seq(Keys), failed : BOOLEAN]
Typing == TypeOK /\ work \in {Idle} \cup Busy

Within(x, s) == \E i \in 1 .. Len(s) : s[i] = x

Namespace(spec) == <<spec.namespace, "namespace">>

\* The object is what the spec asks for, or its change is known.
Held(spec, key) == InForce(spec, key) \/ key \in unsettled

\* Cached objects are current where the version says so.  A namespace that is
\* absent and was never deleted has never had an object in it.
CacheIsSound ==
  /\ \A key \in fresh : view[key] = objects[key]
  /\ \A key \in Keys :
       objects[NamespaceOf(key)] = Absent /\ NamespaceOf(key) \notin unsettled => view[key] = Absent

\* A copy of the Project is not ahead of it, and is of the same spec if it is of
\* the same generation.
Behind(copy) ==
  /\ copy.generation <= project.generation
  /\ copy.generation = project.generation => copy.spec = project.spec

Ready == project.status.phase = "Ready" /\ project.status.observed = project.generation

\* A Project that is Ready at its generation is seen at that generation.
Generations ==
  /\ Behind(cached)
  /\ work.busy => Behind(work.copy)
  /\ project.status.observed <= project.generation
  /\ Ready => /\ cached.generation = project.generation
              /\ work.busy => work.copy.generation = project.generation

\* Every object the spec asks for is still in the plan or held.  A namespace the
\* reconcile may not create is there once an object in it was ensured.
Accounted(spec, todo) ==
  /\ \A key \in Isolation(spec) \ {Namespace(spec)} : Within(key, todo) \/ Held(spec, key)
  /\ \/ Within(IF spec.createNamespace THEN Namespace(spec)
               ELSE <<spec.namespace, spec.account>>, todo)
     \/ Held(spec, Namespace(spec))

\* What the reconcile does not have to do any more is done.
ReconcileIsSound == work.busy => Accounted(work.copy.spec, work.todo)

Inv ==
  /\ Typing
  /\ CacheIsSound
  /\ Generations
  /\ ReconcileIsSound
  /\ ReadyIsBacked

-----------------------------------------------------------------------------
(***************************************************************************)
(* Keys and plans.                                                         *)
(***************************************************************************)

LEMMA KeyFacts ==
  /\ \A key \in Keys : /\ NamespaceOf(key) \in Keys
                       /\ NamespaceOf(key)[2] = "namespace"
                       /\ NamespaceOf(NamespaceOf(key)) = NamespaceOf(key)
  /\ \A key \in Keys : key[2] = "namespace" => NamespaceOf(key) = key
  /\ \A spec \in Specs :
       /\ Namespace(spec) \in Keys
       /\ <<spec.namespace, spec.account>> \in Keys
       /\ Isolation(spec) \subseteq Keys
       /\ \A key \in Isolation(spec) : NamespaceOf(key) = Namespace(spec)
<1>1. ASSUME NEW key \in Keys
      PROVE  /\ NamespaceOf(key) \in Keys
             /\ NamespaceOf(key)[2] = "namespace"
             /\ NamespaceOf(NamespaceOf(key)) = NamespaceOf(key)
             /\ key[2] = "namespace" => NamespaceOf(key) = key
  BY DEF Keys, NamespaceOf, Kinds
<1>2. ASSUME NEW spec \in Specs
      PROVE  /\ Namespace(spec) \in Keys
             /\ <<spec.namespace, spec.account>> \in Keys
             /\ Isolation(spec) \subseteq Keys
             /\ \A key \in Isolation(spec) : NamespaceOf(key) = Namespace(spec)
  <2>1. spec.account \in Accounts /\ spec.namespace \in {t.namespace : t \in Specs}
    BY DEF Accounts
  <2>2. spec.mode \in {"disabled"} \cup Kinds
    BY ConstantsAssumption DEF Kinds
  <2> QED
    BY <2>1, <2>2 DEF Keys, Isolation, Namespace, NamespaceOf, Kinds
<1> QED
  BY <1>1, <1>2

\* The elements of a concatenation.
LEMMA WithinConcat ==
  ASSUME NEW S, NEW s \in Seq(S), NEW t \in Seq(S), NEW x, Within(x, s) \/ Within(x, t)
  PROVE  Within(x, s \o t)
<1>1. /\ s \o t \in Seq(S) /\ Len(s \o t) = Len(s) + Len(t)
      /\ Len(s) \in Nat /\ Len(t) \in Nat
      /\ \A i \in 1 .. Len(s) : (s \o t)[i] = s[i]
      /\ \A i \in 1 .. Len(t) : (s \o t)[i + Len(s)] = t[i]
  OBVIOUS
<1>2. ASSUME NEW i \in 1 .. Len(s), s[i] = x PROVE Within(x, s \o t)
  <2>1. i \in 1 .. Len(s \o t) /\ (s \o t)[i] = x
    BY <1>1, <1>2
  <2> QED
    BY <2>1 DEF Within
<1>3. ASSUME NEW i \in 1 .. Len(t), t[i] = x PROVE Within(x, s \o t)
  <2>1. i + Len(s) \in 1 .. Len(s \o t) /\ (s \o t)[i + Len(s)] = x
    BY <1>1, <1>3
  <2> QED
    BY <2>1 DEF Within
<1> QED
  BY <1>2, <1>3 DEF Within

\* What is left of a plan without its head.
LEMMA WithinTail ==
  ASSUME NEW S, NEW s \in Seq(S), s # <<>>, NEW x, Within(x, s), x # Head(s)
  PROVE  Within(x, Tail(s))
<1>1. PICK i \in 1 .. Len(s) : s[i] = x
  BY DEF Within
<1>2. i # 1
  BY <1>1
<1>3. i - 1 \in 1 .. Len(Tail(s)) /\ Tail(s)[i - 1] = x
  BY <1>1, <1>2
<1> QED
  BY <1>3 DEF Within

\* The plan of a reconcile names every object its spec asks for.
LEMMA PlanCovers ==
  ASSUME NEW spec \in Specs
  PROVE  /\ Plan(spec) \in Seq(Keys)
         /\ \A key \in Isolation(spec) \ {Namespace(spec)} : Within(key, Plan(spec))
         /\ spec.createNamespace => Within(Namespace(spec), Plan(spec))
         /\ Within(<<spec.namespace, spec.account>>, Plan(spec))
<1> DEFINE a == ensureNamespace(spec)
           b == ensureRunnerRBAC(spec)
           c == ensureAPIRBAC(spec)
           d == ensureNetworkPolicy(spec)
<1>1. \A kind \in Kinds \cup {spec.account} : <<spec.namespace, kind>> \in Keys
  BY DEF Keys, Accounts
<1>2. spec.mode # "disabled" => spec.mode \in Kinds
  BY ConstantsAssumption DEF Kinds
<1>3. a \in Seq(Keys) /\ (spec.createNamespace => Within(Namespace(spec), a))
  BY <1>1 DEF ensureNamespace, Within, Namespace, Kinds
<1>4. /\ b \in Seq(Keys) /\ Within(<<spec.namespace, spec.account>>, b)
      /\ Within(<<spec.namespace, "role">>, b) /\ Within(<<spec.namespace, "runner">>, b)
  <2>1. /\ Len(b) = 3 /\ b[1] = <<spec.namespace, spec.account>>
        /\ b[2] = <<spec.namespace, "role">> /\ b[3] = <<spec.namespace, "runner">>
    BY DEF ensureRunnerRBAC
  <2>2. b \in Seq(Keys)
    BY <1>1 DEF ensureRunnerRBAC, Kinds
  <2> QED
    BY <2>1, <2>2 DEF Within
<1>5. c \in Seq(Keys) /\ (APIAccess => Within(<<spec.namespace, "api">>, c))
  BY <1>1 DEF ensureAPIRBAC, Within, Kinds
<1>6. d \in Seq(Keys) /\ (spec.mode # "disabled" => Within(<<spec.namespace, spec.mode>>, d))
  BY <1>1, <1>2 DEF ensureNetworkPolicy, Within
<1> HIDE DEF a, b, c, d
<1>7. a \o b \in Seq(Keys) /\ (a \o b) \o c \in Seq(Keys) /\ ((a \o b) \o c) \o d \in Seq(Keys)
  BY <1>3, <1>4, <1>5, <1>6
<1>8. \A x : Within(x, a) \/ Within(x, b) \/ Within(x, c) \/ Within(x, d) =>
             Within(x, ((a \o b) \o c) \o d)
  <2> SUFFICES ASSUME NEW x, Within(x, a) \/ Within(x, b) \/ Within(x, c) \/ Within(x, d)
               PROVE  Within(x, ((a \o b) \o c) \o d)
    OBVIOUS
  <2>1. Within(x, a \o b) \/ Within(x, c) \/ Within(x, d)
    BY <1>3, <1>4, WithinConcat
  <2>2. Within(x, (a \o b) \o c) \/ Within(x, d)
    BY <1>5, <1>7, <2>1, WithinConcat
  <2> QED
    BY <1>6, <1>7, <2>2, WithinConcat
<1>9. Plan(spec) = ((a \o b) \o c) \o d
  BY DEF Plan, a, b, c, d
<1>10. ASSUME NEW key \in Isolation(spec) \ {Namespace(spec)} PROVE Within(key, Plan(spec))
  <2>1. \/ key \in {<<spec.namespace, spec.account>>, <<spec.namespace, "role">>,
                     <<spec.namespace, "runner">>}
        \/ APIAccess /\ key = <<spec.namespace, "api">>
        \/ spec.mode # "disabled" /\ key = <<spec.namespace, spec.mode>>
    BY DEF Isolation, Namespace
  <2> QED
    BY <1>4, <1>5, <1>6, <1>8, <1>9, <2>1
<1> QED
  BY <1>3, <1>4, <1>7, <1>8, <1>9, <1>10

-----------------------------------------------------------------------------

\* What InForce says of the object at a key.
Good(spec, key, object) ==
  /\ object # Absent
  /\ key[2] \in {"role", "api"} \cup ({spec.mode} \ {"disabled"}) => object.content = "set"
  /\ key[2] = "runner" => object.content = spec.account
  /\ key[2] = "namespace" /\ spec.createNamespace /\ spec.level # "none"
       => object.content = spec.level

LEMMA InForceIsGood == \A spec, key : InForce(spec, key) <=> Good(spec, key, objects[key])
BY DEF InForce, Good

\* The mutate functions set everything the spec decides.
LEMMA MutatedIsGood ==
  ASSUME NEW spec \in Specs, NEW key \in Keys, NEW object \in Objects
  PROVE  /\ Mutated(spec, key, object) \in Objects /\ Mutated(spec, key, object) # Absent
         /\ Good(spec, key, Mutated(spec, key, object))
<1> DEFINE c == Content(spec, key, object)
           Contents == {"absent", "altered", "remade", "set"} \cup Accounts \cup {t.level : t \in Specs}
<1>1. object.content \in Contents /\ spec.account \in Contents /\ spec.level \in Contents
  BY DEF Objects, Accounts
<1>2. c \in Contents
  BY <1>1 DEF Content
<1>3. /\ Mutated(spec, key, object).managed = TRUE /\ Mutated(spec, key, object).content = c
      /\ Mutated(spec, key, object) \in Objects
  BY <1>2 DEF Mutated, Objects
<1>4. Mutated(spec, key, object) # Absent
  BY <1>3 DEF Absent
<1>5. \A a \in Accounts : a \notin Kinds
  BY ConstantsAssumption DEF Accounts
<1>6. spec.mode \in {"disabled", "defaultDeny", "egressAllowList"}
  BY ConstantsAssumption
<1>8. key[2] \in {"role", "api", "defaultDeny", "egressAllowList"} => c = "set"
  BY <1>5 DEF Content, Kinds
<1>9. key[2] = "runner" => c = spec.account
  BY DEF Content
<1>10. key[2] = "namespace" /\ spec.level # "none" => c = spec.level
  BY DEF Content
<1> QED
  BY <1>3, <1>4, <1>6, <1>8, <1>9, <1>10 DEF Good

-----------------------------------------------------------------------------
(***************************************************************************)
(* What stays held.                                                        *)
(***************************************************************************)

\* The step leaves what is held, held.
HeldStays == \A spec \in Specs, key \in Keys : Held(spec, key) => Held(spec, key)'

LEMMA ReconcileStays ==
  ASSUME Inv, HeldStays, UNCHANGED work
  PROVE  ReconcileIsSound'
<1> SUFFICES ASSUME work.busy PROVE ReconcileIsSound'
  BY DEF ReconcileIsSound
<1>1. work \in Busy
  BY DEF Inv, Typing, Idle
<1>2. PICK spec \in Specs : spec = work.copy.spec
  BY <1>1 DEF Busy, Projects
<1>3. PICK todo : todo = work.todo
  OBVIOUS
<1>4. Accounted(spec, todo)
  BY <1>2, <1>3 DEF Inv, ReconcileIsSound
<1>5. Accounted(spec, todo)'
  BY <1>4, KeyFacts DEF Accounted, HeldStays
<1> QED
  BY <1>2, <1>3, <1>5 DEF ReconcileIsSound, Accounted, Held, InForce

LEMMA ReadyStays ==
  ASSUME Inv, HeldStays, UNCHANGED project
  PROVE  ReadyIsBacked'
<1> SUFFICES ASSUME project.exists, Ready PROVE ReadyIsBacked'
  BY DEF ReadyIsBacked, Ready
<1>1. PICK spec \in Specs : spec = project.spec
  BY DEF Inv, Typing, TypeOK, Projects
<1>2. \A key \in Isolation(spec) : Held(spec, key)
  BY <1>1 DEF Inv, ReadyIsBacked, Held, Ready
<1>3. \A key \in Isolation(spec) : Held(spec, key)'
  BY <1>2, KeyFacts DEF HeldStays
<1> QED
  BY <1>1, <1>3 DEF ReadyIsBacked, Held, InForce

\* A step that leaves the objects alone.
LEMMA ClusterStays ==
  ASSUME Inv, UNCHANGED clusterVars
  PROVE  HeldStays /\ CacheIsSound'
BY DEF Inv, clusterVars, HeldStays, Held, InForce, CacheIsSound

-----------------------------------------------------------------------------
(***************************************************************************)
(* The initial states and the steps.                                       *)
(***************************************************************************)

LEMMA InitInv == Init => Inv
<1> SUFFICES ASSUME Init PROVE Inv
  OBVIOUS
<1>1. PICK spec \in Specs : project = NewProject(spec)
  BY DEF Init
<1>2. /\ project \in Projects /\ cached = project /\ project.generation = 1
      /\ project.status.observed = 0 /\ project.status.phase = "Unset"
  BY <1>1, ConstantsAssumption DEF Init, NewProject, NoStatus, Projects, Statuses
<1>3. PICK existing \in SUBSET {key \in Keys : key[2] = "namespace"} :
        objects = [key \in Keys |-> IF key \in existing THEN Altered ELSE Absent]
  BY DEF Init
<1>4. view = objects /\ fresh = Keys /\ unsettled = {} /\ work = Idle /\ queued = TRUE
      /\ budget = MaxDisruptions
  BY DEF Init
<1>5. Altered \in Objects /\ Absent \in Objects
  BY DEF Altered, Absent, Objects
<1>6. ASSUME NEW key \in Keys, objects[key] # Absent PROVE objects[NamespaceOf(key)] # Absent
  <2>1. key[2] = "namespace"
    BY <1>3, <1>6
  <2> QED
    BY <1>6, <2>1, KeyFacts
<1>7. Typing
  BY <1>2, <1>3, <1>4, <1>5, <1>6, ConstantsAssumption DEF Typing, TypeOK, Idle
<1>8. CacheIsSound
  BY <1>4, <1>6 DEF CacheIsSound
<1>9. Generations
  BY <1>2, <1>4 DEF Generations, Behind, Ready, Idle
<1>10. ReconcileIsSound /\ ReadyIsBacked
  BY <1>2, <1>4 DEF ReconcileIsSound, ReadyIsBacked, Idle
<1> QED
  BY <1>7, <1>8, <1>9, <1>10 DEF Inv

LEMMA BeginStep == ASSUME Inv, Begin PROVE Inv'
<1>1. UNCHANGED <<project, cached, budget>> /\ UNCHANGED clusterVars /\ queued' = FALSE
  BY DEF Begin
<1>2. HeldStays /\ CacheIsSound' /\ ReadyIsBacked'
  BY <1>1, ClusterStays, ReadyStays
<1>3. CASE ~cached.exists
  <2>1. work' = Idle
    BY <1>3 DEF Begin
  <2>2. Typing'
    BY <1>1, <2>1 DEF Inv, Typing, TypeOK, clusterVars, Idle
  <2>3. Generations' /\ ReconcileIsSound'
    BY <1>1, <2>1 DEF Inv, Generations, Behind, Ready, ReconcileIsSound, Idle
  <2> QED
    BY <1>2, <2>2, <2>3 DEF Inv
<1>4. CASE cached.exists
  <2>1. PICK spec \in Specs : spec = cached.spec
    BY DEF Inv, Typing, TypeOK, Projects
  <2>2. work' = [busy |-> TRUE, copy |-> cached, todo |-> Plan(spec), failed |-> FALSE]
    BY <1>4, <2>1 DEF Begin
  <2>3. work' \in Busy /\ work'.busy = TRUE /\ work'.copy = cached /\ work'.todo = Plan(spec)
    BY <2>2, PlanCovers DEF Busy, Inv, Typing, TypeOK
  <2>4. Typing'
    BY <1>1, <1>4, <2>3 DEF Inv, Typing, TypeOK, clusterVars
  <2>5. Generations'
    BY <1>1, <2>3 DEF Inv, Generations, Behind, Ready
  <2>6. Accounted(spec, Plan(spec))'
    BY PlanCovers DEF Accounted
  <2>7. ReconcileIsSound'
    BY <2>1, <2>3, <2>6 DEF ReconcileIsSound, Accounted, Held, InForce
  <2> QED
    BY <1>2, <2>4, <2>5, <2>7 DEF Inv
<1> QED
  BY <1>3, <1>4

LEMMA SyncProjectStep == ASSUME Inv, SyncProject PROVE Inv'
<1>1. /\ UNCHANGED <<project, work, budget>> /\ UNCHANGED clusterVars
      /\ queued' = TRUE /\ cached' = project
  BY DEF SyncProject
<1>2. HeldStays /\ CacheIsSound' /\ ReadyIsBacked' /\ ReconcileIsSound'
  BY <1>1, ClusterStays, ReadyStays, ReconcileStays
<1>3. Typing'
  BY <1>1 DEF Inv, Typing, TypeOK, clusterVars
<1>4. project.generation \in Nat
  BY DEF Inv, Typing, TypeOK, Projects
<1>5. Generations'
  BY <1>1, <1>4 DEF Inv, Generations, Behind, Ready
<1> QED
  BY <1>2, <1>3, <1>5 DEF Inv

LEMMA EditProjectStep == ASSUME Inv, EditProject PROVE Inv'
<1>1. UNCHANGED <<cached, work, queued, budget>> /\ UNCHANGED clusterVars
  BY DEF EditProject
<1>2. PICK spec \in Specs : project' = [project EXCEPT !.spec = spec, !.generation = @ + 1]
  BY DEF EditProject
<1>3. project \in Projects /\ project.generation < MaxGeneration
      /\ project.generation \in Nat /\ project.status.observed \in Nat
  BY DEF Inv, Typing, TypeOK, Projects, Statuses, EditProject
<1>4. /\ project' \in Projects /\ project'.generation = project.generation + 1
      /\ project'.status = project.status
  <2>1. MaxGeneration \in Nat
    BY ConstantsAssumption
  <2>2. project.generation + 1 \in 1 .. MaxGeneration
    BY <1>3, <2>1
  <2> QED
    BY <1>2, <1>3, <2>2 DEF Projects
<1>5. Typing'
  BY <1>1, <1>4 DEF Inv, Typing, TypeOK, clusterVars
<1>6. HeldStays /\ CacheIsSound' /\ ReconcileIsSound'
  BY <1>1, ClusterStays, ReconcileStays
<1>7. project'.status.observed # project'.generation
  BY <1>3, <1>4 DEF Inv, Generations
<1>8. cached.generation \in Nat /\ (work.busy => work.copy.generation \in Nat)
  BY DEF Inv, Typing, TypeOK, Projects
<1>9. Generations'
  BY <1>1, <1>3, <1>4, <1>7, <1>8 DEF Inv, Generations, Behind, Ready
<1>10. ReadyIsBacked'
  BY <1>7 DEF ReadyIsBacked
<1> QED
  BY <1>5, <1>6, <1>9, <1>10 DEF Inv

LEMMA DeleteProjectStep == ASSUME Inv, DeleteProject PROVE Inv'
<1>1. /\ UNCHANGED <<cached, work, queued>> /\ UNCHANGED clusterVars
      /\ project' = [project EXCEPT !.exists = FALSE]
      /\ budget > 0 /\ budget' = budget - 1
  BY DEF DeleteProject, Disrupt
<1>2. /\ project' \in Projects /\ project'.generation = project.generation
      /\ project'.status = project.status /\ project'.spec = project.spec /\ ~project'.exists
  BY <1>1 DEF Inv, Typing, TypeOK, Projects
<1>3. Typing'
  BY <1>1, <1>2, ConstantsAssumption DEF Inv, Typing, TypeOK, clusterVars
<1>4. HeldStays /\ CacheIsSound' /\ ReconcileIsSound'
  BY <1>1, ClusterStays, ReconcileStays
<1>5. Generations' /\ ReadyIsBacked'
  BY <1>1, <1>2 DEF Inv, Generations, Behind, Ready, ReadyIsBacked
<1> QED
  BY <1>3, <1>4, <1>5 DEF Inv

LEMMA SyncObjectStep == ASSUME Inv, NEW key \in Keys, SyncObject(key) PROVE Inv'
<1>1. /\ UNCHANGED <<project, cached, objects, unsettled, work, queued, budget>>
      /\ view' = [view EXCEPT ![key] = objects[key]] /\ fresh' = fresh \cup {key}
  BY DEF SyncObject
<1>2. HeldStays
  BY <1>1 DEF HeldStays, Held, InForce
<1>3. ReadyIsBacked' /\ ReconcileIsSound'
  BY <1>1, <1>2, ReadyStays, ReconcileStays
<1>4. Typing'
  BY <1>1 DEF Inv, Typing, TypeOK
<1>5. DOMAIN view = Keys /\ fresh \subseteq Keys
  BY DEF Inv, Typing, TypeOK
<1>6. CacheIsSound'
  <2>1. \A k \in fresh' : view'[k] = objects'[k]
    BY <1>1, <1>5 DEF Inv, CacheIsSound
  <2>2. ASSUME NEW k \in Keys, objects[NamespaceOf(k)] = Absent, NamespaceOf(k) \notin unsettled
        PROVE  view'[k] = Absent
    <3>1. view[k] = Absent /\ objects[k] = Absent
      BY <2>2 DEF Inv, CacheIsSound, Typing, TypeOK
    <3> QED
      BY <1>1, <1>5, <3>1
  <2> QED
    BY <1>1, <2>1, <2>2 DEF CacheIsSound
<1>7. Generations'
  BY <1>1 DEF Inv, Generations, Behind, Ready
<1> QED
  BY <1>3, <1>4, <1>6, <1>7 DEF Inv

LEMMA RestartStep == ASSUME Inv, Restart PROVE Inv'
<1>1. /\ UNCHANGED <<project, objects, unsettled>>
      /\ work' = Idle /\ cached' = project /\ view' = objects /\ fresh' = Keys /\ queued' = TRUE
      /\ budget > 0 /\ budget' = budget - 1
  BY DEF Restart, Disrupt
<1>2. HeldStays
  BY <1>1 DEF HeldStays, Held, InForce
<1>3. ReadyIsBacked'
  BY <1>1, <1>2, ReadyStays
<1>4. Typing'
  BY <1>1, ConstantsAssumption DEF Inv, Typing, TypeOK, Idle
<1>5. CacheIsSound'
  BY <1>1 DEF Inv, CacheIsSound, Typing, TypeOK
<1>6. project.generation \in Nat
  BY DEF Inv, Typing, TypeOK, Projects
<1>7. Generations' /\ ReconcileIsSound'
  BY <1>1, <1>6 DEF Inv, Generations, Behind, Ready, ReconcileIsSound, Idle
<1> QED
  BY <1>3, <1>4, <1>5, <1>7 DEF Inv

\* Somebody else's change leaves the objects in namespaces, and is known.
LEMMA ChangedStep ==
  ASSUME Inv, NEW kind, Disrupt(kind), NEW keys \in SUBSET Keys, NEW object \in {Absent, Altered, Remade},
         Changed(keys, object),
         object = Absent =>
           \A key \in Keys : NamespaceOf(key) \in keys /\ objects[key] # Absent => key \in keys,
         object # Absent =>
           \A key \in keys : objects[NamespaceOf(key)] # Absent \/ NamespaceOf(key) \in keys
  PROVE  Inv'
<1>1. /\ objects' = [key \in Keys |-> IF key \in keys THEN object ELSE objects[key]]
      /\ fresh' = fresh \ keys /\ unsettled' = unsettled \cup keys
      /\ UNCHANGED <<project, cached, view, work, queued>>
      /\ budget > 0 /\ budget' = budget - 1
  BY DEF Changed, Disrupt
<1>2. HeldStays
  BY <1>1 DEF HeldStays, Held, InForce
<1>3. ReadyIsBacked' /\ ReconcileIsSound'
  BY <1>1, <1>2, ReadyStays, ReconcileStays
<1>4. object \in Objects /\ Altered # Absent /\ Remade # Absent
  <2>1. Altered.content = "altered" /\ Remade.content = "remade" /\ Absent.content = "absent"
    BY DEF Altered, Remade, Absent
  <2>2. {Altered, Remade} \subseteq Objects /\ Absent \in Objects
    BY DEF Altered, Remade, Absent, Objects
  <2> QED
    BY <2>1, <2>2
<1>5. ASSUME NEW key \in Keys, objects'[key] # Absent PROVE objects'[NamespaceOf(key)] # Absent
  <2>1. NamespaceOf(key) \in Keys /\ (objects[key] # Absent => objects[NamespaceOf(key)] # Absent)
    BY KeyFacts DEF Inv, Typing, TypeOK
  <2>2. CASE object = Absent
    BY <1>1, <1>5, <2>1, <2>2
  <2>3. CASE object # Absent
    BY <1>1, <1>5, <2>1, <2>3
  <2> QED
    BY <2>2, <2>3
<1>6. Typing'
  <2>1. \A key \in Keys : {objects'[key], view'[key]} \subseteq Objects
    BY <1>1, <1>4 DEF Inv, Typing, TypeOK
  <2> QED
    BY <1>1, <1>5, <2>1, ConstantsAssumption DEF Inv, Typing, TypeOK
<1>7. CacheIsSound'
  <2>1. \A key \in fresh' : view'[key] = objects'[key]
    BY <1>1 DEF Inv, CacheIsSound, Typing, TypeOK
  <2>2. ASSUME NEW key \in Keys, objects'[NamespaceOf(key)] = Absent, NamespaceOf(key) \notin unsettled'
        PROVE  view'[key] = Absent
    BY <1>1, <2>2, KeyFacts DEF Inv, CacheIsSound
  <2> QED
    BY <2>1, <2>2 DEF CacheIsSound
<1>8. Generations'
  BY <1>1 DEF Inv, Generations, Behind, Ready
<1> QED
  BY <1>3, <1>6, <1>7, <1>8 DEF Inv

LEMMA DriftStep == ASSUME Inv, NEW key \in Keys, Drift(key) PROVE Inv'
<1>1. PICK object \in {Absent, Altered, Remade} : Changed({key}, object)
  BY DEF Drift
<1>2. key[2] # "namespace" /\ objects[key] # Absent /\ Disrupt("drift")
  BY DEF Drift
<1>3. \A k \in Keys : NamespaceOf(k) # key
  BY <1>2, KeyFacts
<1>4. objects[NamespaceOf(key)] # Absent
  BY <1>2 DEF Inv, Typing, TypeOK
<1> QED
  BY <1>1, <1>2, <1>3, <1>4, ChangedStep

LEMMA EditNamespaceStep == ASSUME Inv, NEW key \in Keys, EditNamespace(key) PROVE Inv'
<1> DEFINE all == {k \in Keys : NamespaceOf(k) = key /\ objects[k] # Absent}
<1>1. key[2] = "namespace" /\ NamespaceOf(key) = key /\ Disrupt("namespace")
  BY KeyFacts DEF EditNamespace
<1>2. CASE objects[key] # Absent /\ Changed(all, Absent)
  <2>1. PICK keys \in SUBSET Keys : keys = all
    OBVIOUS
  <2>2. \A k \in Keys : NamespaceOf(k) \in keys /\ objects[k] # Absent => k \in keys
    BY <1>1, <2>1, KeyFacts
  <2>3. Changed(keys, Absent)
    BY <1>2, <2>1
  <2> HIDE DEF all
  <2> QED
    BY <1>1, <2>2, <2>3, ChangedStep
<1>3. CASE Changed({key}, Altered)
  BY <1>1, <1>3, ChangedStep DEF Altered, Absent
<1> QED
  BY <1>2, <1>3 DEF EditNamespace

\* CreateOrUpdate leaves the other objects alone and deletes none.  An object it
\* saw at its stored version is what the spec asks for afterwards; any other it
\* may only have created.  It found or made the object in a namespace, or saw it
\* in one that is gone.
LEMMA EnsuredEffect ==
  ASSUME Inv, work \in Busy, NEW key \in Keys, Ensured(key), UNCHANGED view,
         NEW spec \in Specs, spec = work.copy.spec
  PROVE  /\ DOMAIN objects' = Keys /\ \A k \in Keys : objects'[k] \in Objects
         /\ fresh' \subseteq fresh
         /\ \A k \in Keys \ {key} : objects'[k] = objects[k]
         /\ \/ objects'[key] = objects[key]
            \/ key \notin fresh' /\ Good(spec, key, objects'[key])
         /\ objects[key] # Absent => objects'[key] # Absent
         /\ key \in fresh => Good(spec, key, objects'[key])
         /\ objects[NamespaceOf(key)] # Absent \/ NamespaceOf(key) \in unsettled
              \/ (key[2] = "namespace" /\ objects'[key] # Absent)
         /\ \A k \in Keys : objects'[k] # Absent => objects'[NamespaceOf(k)] # Absent
<1>1. /\ DOMAIN objects = Keys /\ \A k \in Keys : objects[k] \in Objects /\ view[k] \in Objects
      /\ \A k \in Keys : objects[k] # Absent => objects[NamespaceOf(k)] # Absent
      /\ \A k \in fresh : view[k] = objects[k]
      /\ objects[NamespaceOf(key)] = Absent /\ NamespaceOf(key) \notin unsettled => view[key] = Absent
  BY DEF Inv, Typing, TypeOK, CacheIsSound
<1> DEFINE made == Mutated(spec, key, view[key])
<1>2. made \in Objects /\ made # Absent /\ Good(spec, key, made)
  BY <1>1, MutatedIsGood
<1> HIDE DEF made
<1>3. CASE InPlace(key) /\ UNCHANGED <<objects, fresh>>
  <2>1. view[key] # Absent /\ view[key] = made
    BY <1>3 DEF InPlace, Missing, made
  <2> QED
    BY <1>1, <1>2, <1>3, <2>1
<1>4. CASE ~InPlace(key) /\ Allowed(key) /\ Write(key, made)
  <2>1. objects' = [objects EXCEPT ![key] = made] /\ fresh' = fresh \ {key}
    BY <1>4 DEF Write
  <2>2. objects'[key] = made /\ DOMAIN objects' = Keys /\ \A k \in Keys \ {key} : objects'[k] = objects[k]
    BY <1>1, <2>1
  <2>3. objects[NamespaceOf(key)] # Absent \/ key[2] = "namespace"
    BY <1>1, <1>4 DEF Allowed, Missing
  <2>4. ASSUME NEW k \in Keys, objects'[k] # Absent PROVE objects'[NamespaceOf(k)] # Absent
    BY <1>1, <1>2, <2>2, <2>3, <2>4, KeyFacts
  <2> QED
    BY <1>1, <1>2, <2>1, <2>2, <2>3, <2>4
<1> QED
  BY <1>3, <1>4 DEF Ensured, made

LEMMA EnsureStep == ASSUME Inv, Ensure PROVE Inv'
<1>1. work.busy /\ ~work.failed /\ work.todo # <<>> /\ UNCHANGED <<project, cached, view, queued>>
  BY DEF Ensure
<1>2. work \in Busy
  BY <1>1 DEF Inv, Typing, Idle
<1>3. PICK key : key = Head(work.todo)
  OBVIOUS
<1>4. key \in Keys /\ Tail(work.todo) \in Seq(Keys)
  BY <1>1, <1>2, <1>3 DEF Busy
<1>5. PICK spec \in Specs : spec = work.copy.spec
  BY <1>2 DEF Busy, Projects
<1>6. PICK todo \in Seq(Keys) : todo = work.todo
  BY <1>2 DEF Busy
<1>7. Accounted(spec, todo)
  BY <1>1, <1>5, <1>6 DEF Inv, ReconcileIsSound
<1>8. Ready => spec = project.spec
  BY <1>1, <1>5 DEF Inv, Generations, Behind
<1>9. \/ budget' = budget
      \/ budget > 0 /\ budget' = budget - 1
  BY DEF Ensure, Disrupt
<1>10. budget' \in 0 .. MaxDisruptions
  BY <1>9, ConstantsAssumption DEF Inv, Typing, TypeOK
<1>11. work.copy \in Projects /\ work.copy.exists
  BY <1>1 DEF Inv, Typing, TypeOK
\* Nothing is written: the reconcile fails, or goes on as it was.
<1>12. ASSUME UNCHANGED <<objects, fresh, unsettled>>, work' = [work EXCEPT !.failed = TRUE]
       PROVE  Inv'
  <2>1. work' \in Busy /\ work'.busy /\ work'.copy = work.copy /\ work'.todo = work.todo
    BY <1>1, <1>2, <1>12 DEF Busy
  <2>2. UNCHANGED clusterVars
    BY <1>1, <1>12 DEF clusterVars
  <2>3. HeldStays /\ CacheIsSound' /\ ReadyIsBacked'
    BY <1>1, <2>2, ClusterStays, ReadyStays
  <2>4. Typing'
    BY <1>1, <1>10, <1>11, <1>12, <2>1 DEF Inv, Typing, TypeOK, Busy
  <2>5. Generations'
    BY <1>1, <2>1 DEF Inv, Generations, Behind, Ready
  <2>6. Accounted(spec, todo)'
    BY <1>7, <2>3, KeyFacts DEF Accounted, HeldStays
  <2>7. ReconcileIsSound'
    BY <1>5, <1>6, <2>1, <2>6 DEF ReconcileIsSound, Accounted, Held, InForce
  <2> QED
    BY <2>3, <2>4, <2>5, <2>7 DEF Inv
\* The object is ensured: with or without the answer.
<1>13. ASSUME Ensured(key), NEW rest \in Seq(Keys),
              work' \in Busy, work'.busy, work'.copy = work.copy, work'.todo = rest,
              \/ Settle(key) /\ rest = Tail(todo)
              \/ UNCHANGED unsettled /\ rest = todo
       PROVE  Inv'
  <2>1. /\ DOMAIN objects' = Keys /\ \A k \in Keys : objects'[k] \in Objects
        /\ fresh' \subseteq fresh
        /\ \A k \in Keys \ {key} : objects'[k] = objects[k]
        /\ \/ objects'[key] = objects[key]
           \/ key \notin fresh' /\ Good(spec, key, objects'[key])
        /\ objects[key] # Absent => objects'[key] # Absent
        /\ key \in fresh => Good(spec, key, objects'[key])
        /\ objects[NamespaceOf(key)] # Absent \/ NamespaceOf(key) \in unsettled
             \/ (key[2] = "namespace" /\ objects'[key] # Absent)
        /\ \A k \in Keys : objects'[k] # Absent => objects'[NamespaceOf(k)] # Absent
    BY <1>1, <1>2, <1>4, <1>5, <1>13, EnsuredEffect
  <2>2. /\ unsettled' \subseteq Keys
        /\ \A k \in unsettled \ {key} : k \in unsettled'
        /\ key \in unsettled /\ key \notin unsettled' => key \in fresh
        /\ Settle(key) => key \in fresh \/ key \in unsettled'
    BY <1>4, <1>13 DEF Settle, Inv, Typing, TypeOK
  <2>3. Typing'
    BY <1>1, <1>10, <1>11, <1>13, <2>1, <2>2 DEF Inv, Typing, TypeOK, Busy
  <2>4. Generations'
    BY <1>1, <1>13 DEF Inv, Generations, Behind, Ready
  <2>5. CacheIsSound'
    <3>1. \A k \in fresh' : view'[k] = objects'[k]
      BY <1>1, <2>1 DEF Inv, CacheIsSound, Typing, TypeOK
    <3>2. ASSUME NEW k \in Keys, objects'[NamespaceOf(k)] = Absent, NamespaceOf(k) \notin unsettled'
          PROVE  view'[k] = Absent
      <4>1. NamespaceOf(k) \in Keys
        BY KeyFacts
      <4>2. objects[NamespaceOf(k)] = Absent
        BY <2>1, <3>2, <4>1
      <4>3. NamespaceOf(k) \notin unsettled
        BY <2>1, <2>2, <3>2, <4>1 DEF Good
      <4> QED
        BY <1>1, <4>2, <4>3 DEF Inv, CacheIsSound
    <3> QED
      BY <3>1, <3>2 DEF CacheIsSound
  \* The object is what the spec asks for, or known to have changed.
  <2>6. \A k \in Keys : Held(spec, k) => Held(spec, k)'
    BY <2>1, <2>2 DEF Held, InForce, Good
  <2>7. Settle(key) => Held(spec, key)'
    BY <2>1, <2>2 DEF Held, InForce, Good
  <2>8. ReadyIsBacked'
    <3> SUFFICES ASSUME project.exists, Ready PROVE ReadyIsBacked'
      BY <1>1 DEF ReadyIsBacked, Ready
    <3>1. \A k \in Isolation(spec) : Held(spec, k)
      BY <1>8 DEF Inv, ReadyIsBacked, Held, Ready
    <3>2. \A k \in Isolation(spec) : Held(spec, k)'
      BY <2>6, <3>1, KeyFacts
    <3> QED
      BY <1>1, <1>8, <3>2 DEF ReadyIsBacked, Held, InForce
  <2>9. Accounted(spec, rest)'
    <3>1. CASE UNCHANGED unsettled /\ rest = todo
      BY <1>7, <2>6, <3>1, KeyFacts DEF Accounted
    <3>2. CASE Settle(key) /\ rest = Tail(todo)
      <4>1. \A k \in Keys : Within(k, todo) => k = key \/ Within(k, rest)
        BY <1>1, <1>3, <1>6, <3>2, WithinTail
      <4>2. \A k \in Isolation(spec) \ {Namespace(spec)} : Within(k, rest) \/ Held(spec, k)'
        BY <1>7, <2>6, <2>7, <3>2, <4>1, KeyFacts DEF Accounted
      <4>3. CASE spec.createNamespace
        BY <1>7, <2>6, <2>7, <3>2, <4>1, <4>2, <4>3, KeyFacts DEF Accounted
      <4>4. CASE ~spec.createNamespace
        <5>1. ASSUME key = <<spec.namespace, spec.account>> PROVE Held(spec, Namespace(spec))'
          <6>1. NamespaceOf(key) = Namespace(spec) /\ key[2] = spec.account
            BY <5>1 DEF NamespaceOf, Namespace
          <6>2. spec.account # "namespace" /\ spec.account \notin {"runner"}
            BY ConstantsAssumption DEF Kinds
          <6>3. Namespace(spec) # key /\ Namespace(spec) \in Keys /\ Namespace(spec)[2] = "namespace"
            BY <5>1, <6>2, KeyFacts DEF Namespace
          <6>4. objects'[Namespace(spec)] # Absent \/ Namespace(spec) \in unsettled'
            BY <2>1, <2>2, <6>1, <6>2, <6>3
          <6>5. spec.mode # "namespace"
            BY ConstantsAssumption
          <6> QED
            BY <4>4, <6>3, <6>4, <6>5 DEF Held, InForce
        <5> QED
          BY <1>7, <2>6, <4>1, <4>2, <4>4, <5>1, KeyFacts DEF Accounted
      <4> QED
        BY <4>3, <4>4
    <3> QED
      BY <1>13, <3>1, <3>2
  <2>10. ReconcileIsSound'
    BY <1>5, <1>13, <2>9 DEF ReconcileIsSound, Accounted, Held, InForce
  <2> QED
    BY <2>3, <2>4, <2>5, <2>8, <2>10 DEF Inv
<1>14. CASE Ensured(key) /\ Settle(key) /\ work' = [work EXCEPT !.todo = Tail(@)]
  <2>1. /\ work' \in Busy /\ work'.busy /\ work'.copy = work.copy /\ work'.todo = Tail(todo)
        /\ Tail(todo) \in Seq(Keys)
    BY <1>1, <1>2, <1>4, <1>6, <1>14 DEF Busy
  <2> QED
    BY <1>13, <1>14, <2>1
<1>15. CASE Ensured(key) /\ UNCHANGED unsettled /\ work' = [work EXCEPT !.failed = TRUE]
  <2>1. work' \in Busy /\ work'.busy /\ work'.copy = work.copy /\ work'.todo = todo
    BY <1>1, <1>2, <1>6, <1>15 DEF Busy
  <2> QED
    BY <1>13, <1>15, <2>1
<1> QED
  BY <1>3, <1>12, <1>14, <1>15 DEF Ensure

\* A status that speaks for the copy's generation, and says Ready only when
\* everything that copy asks for is held.
LEMMA StatusStep ==
  ASSUME Inv, work.busy, NEW status \in Statuses, UpdateStatus(status), Requeue, work' = Idle,
         UNCHANGED cached, UNCHANGED clusterVars, status.observed = work.copy.generation,
         NEW spec \in Specs, spec = work.copy.spec,
         status.phase = "Ready" => \A key \in Isolation(spec) : Held(spec, key)
  PROVE  Inv'
<1>1. HeldStays /\ CacheIsSound'
  BY ClusterStays
<1>2. queued' = TRUE /\ ~work'.busy
  BY DEF Requeue, Idle
<1>3. /\ project \in Projects /\ project.generation \in Nat
      /\ work.copy.generation <= project.generation
      /\ work.copy.generation = project.generation => spec = project.spec
  BY DEF Inv, Typing, TypeOK, Projects, Generations, Behind
<1>4. budget' \in 0 .. MaxDisruptions
  BY ConstantsAssumption DEF UpdateStatus, Disrupt, Inv, Typing, TypeOK
<1>5. ReconcileIsSound'
  BY <1>2 DEF ReconcileIsSound
<1>6. CASE UNCHANGED project
  <2>1. Typing'
    BY <1>2, <1>4, <1>6 DEF Inv, Typing, TypeOK, clusterVars, Idle
  <2>2. Generations'
    BY <1>2, <1>6 DEF Inv, Generations, Behind, Ready
  <2> QED
    BY <1>1, <1>5, <1>6, <2>1, <2>2, ReadyStays DEF Inv
<1>7. CASE Stored(status)
  <2>1. cached = project /\ project' = [project EXCEPT !.status = Merged(status)]
    BY <1>7 DEF Stored
  <2>2. /\ Merged(status) \in Statuses /\ Merged(status).observed = status.observed
        /\ Merged(status).phase = status.phase
    BY <1>3 DEF Merged, Statuses, Projects
  <2>3. /\ project' \in Projects /\ project'.status = Merged(status)
        /\ project'.generation = project.generation /\ project'.spec = project.spec
        /\ project'.exists = project.exists
    BY <1>3, <2>1, <2>2 DEF Projects
  <2>4. Typing'
    BY <1>2, <1>4, <2>3 DEF Inv, Typing, TypeOK, clusterVars, Idle
  <2>5. Generations'
    BY <1>2, <1>3, <2>1, <2>2, <2>3 DEF Inv, Generations, Behind, Ready
  <2>6. ReadyIsBacked'
    <3> SUFFICES ASSUME Ready' PROVE ReadyIsBacked'
      BY DEF ReadyIsBacked, Ready
    <3>1. status.phase = "Ready" /\ project'.spec = spec
      BY <1>3, <2>2, <2>3 DEF Ready
    <3>2. \A key \in Isolation(spec) : Held(spec, key)'
      BY <1>1, <3>1, KeyFacts DEF HeldStays
    <3> QED
      BY <3>1, <3>2 DEF ReadyIsBacked, Held, InForce
  <2> QED
    BY <1>1, <1>5, <2>4, <2>5, <2>6 DEF Inv
<1> QED
  BY <1>6, <1>7 DEF UpdateStatus

LEMMA markProjectReadyStep == ASSUME Inv, markProjectReady PROVE Inv'
<1>1. /\ work.busy /\ work.todo = <<>> /\ Requeue /\ work' = Idle
      /\ UNCHANGED cached /\ UNCHANGED clusterVars
  BY DEF markProjectReady
<1>2. work.copy \in Projects
  BY <1>1 DEF Inv, Typing, TypeOK
<1>3. PICK spec \in Specs : spec = work.copy.spec
  BY <1>2 DEF Projects
<1>4. \A key \in Isolation(spec) : Held(spec, key)
  <2>1. Accounted(spec, <<>>)
    BY <1>1, <1>3 DEF Inv, ReconcileIsSound
  <2>2. \A x : ~Within(x, <<>>)
    BY DEF Within
  <2> QED
    BY <2>1, <2>2 DEF Accounted
<1>5. CASE UpToDate(work.copy)
  <2>1. UNCHANGED <<project, budget>>
    BY <1>5 DEF markProjectReady
  <2>2. HeldStays /\ CacheIsSound' /\ ReadyIsBacked'
    BY <1>1, <2>1, ClusterStays, ReadyStays
  <2>3. Typing'
    BY <1>1, <2>1 DEF Inv, Typing, TypeOK, clusterVars, Idle, Requeue
  <2>4. Generations' /\ ReconcileIsSound'
    BY <1>1, <2>1 DEF Inv, Generations, Behind, Ready, ReconcileIsSound, Idle
  <2> QED
    BY <2>2, <2>3, <2>4 DEF Inv
<1>6. CASE ~UpToDate(work.copy)
  <2>1. PICK status : status = ReadyStatus(work.copy)
    OBVIOUS
  <2>2. status \in Statuses /\ status.observed = work.copy.generation
    <3>1. work.copy.status \in Statuses /\ work.copy.generation \in 0 .. MaxGeneration
      BY <1>2 DEF Projects
    <3> QED
      BY <2>1, <3>1 DEF ReadyStatus, Statuses
  <2>3. UpdateStatus(status)
    BY <1>6, <2>1 DEF markProjectReady
  <2> QED
    BY <1>1, <1>3, <1>4, <2>2, <2>3, StatusStep
<1> QED
  BY <1>5, <1>6

LEMMA markProjectErrorStep == ASSUME Inv, markProjectError PROVE Inv'
<1>1. /\ work.busy /\ Requeue /\ work' = Idle /\ UNCHANGED cached /\ UNCHANGED clusterVars
  BY DEF markProjectError
<1>2. work.copy \in Projects
  BY <1>1 DEF Inv, Typing, TypeOK
<1>3. PICK spec \in Specs : spec = work.copy.spec
  BY <1>2 DEF Projects
<1>4. PICK status :
        status = [work.copy.status EXCEPT !.phase = "Error", !.observed = work.copy.generation]
  OBVIOUS
<1>5. status \in Statuses /\ status.observed = work.copy.generation /\ status.phase = "Error"
  <2>1. work.copy.status \in Statuses /\ work.copy.generation \in 0 .. MaxGeneration
    BY <1>2 DEF Projects
  <2> QED
    BY <1>4, <2>1 DEF Statuses
<1>6. UpdateStatus(status)
  BY <1>4 DEF markProjectError
<1> QED
  BY <1>1, <1>3, <1>5, <1>6, StatusStep

LEMMA StutterStep == ASSUME Inv, UNCHANGED vars PROVE Inv'
<1>1. UNCHANGED clusterVars /\ UNCHANGED <<project, cached, work, queued, budget>>
  BY DEF vars, clusterVars
<1>2. HeldStays /\ CacheIsSound' /\ ReadyIsBacked' /\ ReconcileIsSound'
  BY <1>1, ClusterStays, ReadyStays, ReconcileStays
<1>3. Typing'
  BY <1>1 DEF Inv, Typing, TypeOK, clusterVars
<1>4. Generations'
  BY <1>1 DEF Inv, Generations, Behind, Ready
<1> QED
  BY <1>2, <1>3, <1>4 DEF Inv

-----------------------------------------------------------------------------
(***************************************************************************)
(* The theorems.                                                           *)
(***************************************************************************)

\* Inv holds in every reachable state: every operation of the controller, of its
\* caches and of the users keeps it.
THEOREM Invariance == Spec => []Inv
<1>1. ASSUME Inv, [Next]_vars PROVE Inv'
  <2>1. CASE Begin
    BY <1>1, <2>1, BeginStep
  <2>2. CASE Ensure
    BY <1>1, <2>2, EnsureStep
  <2>3. CASE markProjectReady
    BY <1>1, <2>3, markProjectReadyStep
  <2>4. CASE markProjectError
    BY <1>1, <2>4, markProjectErrorStep
  <2>5. CASE SyncProject
    BY <1>1, <2>5, SyncProjectStep
  <2>6. CASE Restart
    BY <1>1, <2>6, RestartStep
  <2>7. CASE EditProject
    BY <1>1, <2>7, EditProjectStep
  <2>8. CASE DeleteProject
    BY <1>1, <2>8, DeleteProjectStep
  <2>9. ASSUME NEW key \in Keys, SyncObject(key) PROVE Inv'
    BY <1>1, <2>9, SyncObjectStep
  <2>10. ASSUME NEW key \in Keys, Drift(key) PROVE Inv'
    BY <1>1, <2>10, DriftStep
  <2>11. ASSUME NEW key \in Keys, EditNamespace(key) PROVE Inv'
    BY <1>1, <2>11, EditNamespaceStep
  <2>12. CASE UNCHANGED vars
    BY <1>1, <2>12, StutterStep
  <2> QED
    BY <1>1, <2>1, <2>2, <2>3, <2>4, <2>5, <2>6, <2>7, <2>8, <2>9, <2>10, <2>11, <2>12
       DEF Next, Reconcile
<1> QED
  BY <1>1, InitInv, PTL DEF Spec

\* The stored and the cached objects keep their shapes, no object is outside a
\* namespace, and a reconcile works on a Project that existed when it was read.
THEOREM TypeCorrect == Spec => []TypeOK
<1>1. Inv => TypeOK
  BY DEF Inv, Typing
<1> QED
  BY <1>1, Invariance, PTL

\* A Project that is Ready at its generation is isolated as that generation's
\* spec asks, whatever was edited between the read of the spec and the write of
\* the status, except for objects others changed or a lagging cache hid.
THEOREM ReadyBacked == Spec => []ReadyIsBacked
<1>1. Inv => ReadyIsBacked
  BY DEF Inv
<1> QED
  BY <1>1, Invariance, PTL

=============================================================================
