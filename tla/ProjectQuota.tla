---------------------------- MODULE ProjectQuota ----------------------------
(***************************************************************************)
(* The BuildRuns of one Project that compete for its concurrency quota     *)
(* (internal/controller/quota.go).  The controller reconciles different    *)
(* BuildRuns concurrently; each reconcile ranks the waiting BuildRuns of   *)
(* the cached list, and the slot it takes shows in that list only once its *)
(* status write has come back through the cache.                           *)
(*                                                                         *)
(* BuildRuns are numbered in the order the ranking uses: creation time, in *)
(* whole seconds, then name.  Of each one the quota needs the phase, the   *)
(* JobRef, the Job and the copy its runner writes back (BuildRunLifecycle  *)
(* has the rest: references, cancellation, deletions, restarts).  The      *)
(* quota does not tell the terminal phases apart: Succeeded stands for the *)
(* outcome of a workload, Failed for an end without one.                   *)
(***************************************************************************)
EXTENDS Integers, FiniteSets, BuildRunStatus

CONSTANTS
  N,              \* bound on the BuildRuns
  Loads,          \* the circumstances to look at
  MaxConcurrent,  \* spec.quotas.maxConcurrentBuildRuns
  MaxQueued       \* spec.quotas.maxQueuedBuildRuns, 0 is unbounded

Circumstances ==
  [created : 0 .. N,              \* how many BuildRuns there are in the end
   running : 0 .. MaxConcurrent,  \* how many of them run from the beginning
   workers : Nat \ {0},           \* CLOUDIVISION_BUILDRUN_CONCURRENCY
   ahead : BOOLEAN,               \* the list a reconcile reads may be ahead of its BuildRun
   tied : BOOLEAN,                \* creations may fall into one second, in any name order
   late : SUBSET (1 .. N)]        \* whose Job may be missing from the Job cache at first

ASSUME ConstantsAssumption ==
  /\ N \in Nat
  /\ MaxConcurrent \in Nat \ {0}
  /\ MaxQueued \in Nat
  /\ Loads \subseteq Circumstances

VARIABLES
  load,     \* one of the Loads, for good
  run,      \* the stored status of each BuildRun
  cache,    \* the controller's cached list
  current,  \* the BuildRuns whose cached copy has the stored resourceVersion
  ctl,      \* the reconcile of each BuildRun: step, and the copy it read
  job,      \* the Job of each BuildRun
  jobSeen,  \* the Jobs the controller's cache holds
  runner,   \* the runner of each Job: stage and copy
  lost,     \* history: workloads the list showed as ended while they worked
  overtaken \* history: granted a slot before one that ranks ahead was listed

moving == <<run, cache, current, ctl, job, jobSeen, runner>>
vars == <<load, moving, lost, overtaken>>

Runs == 1 .. N

QuotaStatuses == [phase : Phases \cup {"NotCreated"}, jobRef : BOOLEAN]
NotCreated == [phase |-> "NotCreated", jobRef |-> FALSE]
Created == [phase |-> "Unset", jobRef |-> FALSE]
Running == [phase |-> "Running", jobRef |-> TRUE]

Idle == [step |-> "idle", copy |-> NotCreated]
NoRunner == [stage |-> "none", copy |-> NotCreated]

\* The types of the variables: no write makes a phase the API does not know.
TypeOK ==
  /\ load \in Loads
  /\ run \in [Runs -> QuotaStatuses]
  /\ cache \in [Runs -> QuotaStatuses]
  /\ current \subseteq Runs
  /\ ctl \in [Runs -> [step : {"idle", "decide", "ensure", "read", "persist"}, copy : QuotaStatuses]]
  /\ job \in [Runs -> {"none", "pending", "active", "finished"}]
  /\ jobSeen \subseteq Runs
  /\ runner \in [Runs -> [stage : {"none", "scheduled", "loaded", "started", "exited"},
                          copy : QuotaStatuses]]
  /\ lost \subseteq Runs
  /\ overtaken \subseteq Runs

\* The first BuildRuns may be under way: stored, listed and worked on.
Init ==
  /\ load \in Loads
  /\ run = [b \in Runs |-> IF b <= load.running THEN Running ELSE NotCreated]
  /\ cache = run
  /\ current = Runs
  /\ ctl = [b \in Runs |-> Idle]
  /\ job = [b \in Runs |-> IF b <= load.running THEN "active" ELSE "none"]
  /\ jobSeen = {b \in Runs : b <= load.running}
  /\ runner = [b \in Runs |-> IF b <= load.running THEN [stage |-> "started", copy |-> Running]
                              ELSE NoRunner]
  /\ lost = {}
  /\ overtaken = {}

(***************************************************************************)
(* evaluateProjectQuota, on the cached list.                               *)
(***************************************************************************)

Listed == {b \in Runs : cache[b].phase # "NotCreated" /\ ~IsTerminal(cache[b].phase)}

\* Mutant of Active: a workload counts once it runs.
ActiveIfRunning == {b \in Listed : cache[b].phase = "Running"}

Active ==
  {b \in Listed : \/ cache[b].phase = "Running"
                  \/ cache[b].phase = "Queued" /\ cache[b].jobRef}

Waiting == {b \in Listed \ Active : ~cache[b].jobRef}

\* Mutant of Rank: the BuildRun counts itself.
RankInclusive(b) == IF b \in Waiting THEN Cardinality({c \in Waiting : c <= b}) ELSE -1

\* targetRank: the position among the waiting BuildRuns, -1 if b is not one.
Rank(b) == IF b \in Waiting THEN Cardinality({c \in Waiting : c < b}) ELSE -1

Available ==
  IF Cardinality(Active) >= MaxConcurrent THEN 0 ELSE MaxConcurrent - Cardinality(Active)

Admitted(b, copy) == copy.jobRef \/ (Rank(b) >= 0 /\ Rank(b) < Available)

Denied(b, copy) == ~Admitted(b, copy) /\ MaxQueued > 0 /\ Rank(b) - Available >= MaxQueued

(***************************************************************************)
(* The controller.                                                         *)
(***************************************************************************)

Then(b, step, copy) == ctl' = [ctl EXCEPT ![b] = [step |-> step, copy |-> copy]]

Store(b, status) ==
  /\ run' = [run EXCEPT ![b] = status]
  /\ current' = current \ {b}

\* What the list means for a BuildRun that was read before it.
Verdict(b, copy) ==
  IF Denied(b, copy) THEN Then(b, "persist", WithPhase(copy, "Failed"))
  ELSE IF Admitted(b, copy) THEN Then(b, "ensure", copy)
  ELSE Then(b, "persist", WithPhase(copy, "Queued"))

\* A reconcile reads the BuildRun; watch events and the timed requeue of a
\* queued BuildRun let one begin whenever a worker is free.  The first one
\* stores the image tag before it asks for a slot.
Begin(b) ==
  /\ ctl[b].step = "idle"
  /\ Cardinality({c \in Runs : ctl[c].step # "idle"}) < load.workers
  /\ b \in Listed
  /\ \/ UNCHANGED current
     \/ cache[b].phase = "Unset" /\ b \in current /\ current' = current \ {b}
  /\ IF load.ahead THEN Then(b, "decide", cache[b]) ELSE Verdict(b, cache[b])
  /\ UNCHANGED <<run, cache, job, jobSeen, runner>>

\* The list is read later, and may be ahead of the BuildRun.
Decide(b) ==
  /\ ctl[b].step = "decide"
  /\ Verdict(b, ctl[b].copy)
  /\ UNCHANGED <<run, cache, current, job, jobSeen, runner>>

\* EnsureRun; a BuildRun without a phase is marked Queued with its JobRef, one
\* that waited for its slot is Queued already and goes on to ReadRunStatus.
EnsureRun(b) ==
  /\ ctl[b].step = "ensure"
  /\ job' = [job EXCEPT ![b] = IF @ = "none" THEN "pending" ELSE @]
  /\ IF ctl[b].copy.phase \in {"Unset", "Pending"}
     THEN Then(b, "persist", WithJob(ctl[b].copy, "Queued"))
     ELSE Then(b, "read", ctl[b].copy)
  /\ UNCHANGED <<run, cache, current, jobSeen, runner>>

\* Mutant of RunPhase: the Job's own word for its state.
RunPhaseRaw(state) == state

RunPhase(state) == IF state = "finished" THEN "Succeeded" ELSE "Running"

\* A Job that is not in the cache fails the BuildRun; a Job without a pod
\* changes nothing, and its JobRef is not stored either.
ReadRunStatus(b) ==
  /\ ctl[b].step = "read"
  /\ \/ /\ b \in load.late \ jobSeen
        /\ Then(b, "persist", WithPhase(ctl[b].copy, "Failed"))
     \/ /\ b \notin load.late \ jobSeen
        /\ IF job[b] = "pending" THEN ctl' = [ctl EXCEPT ![b] = Idle]
           ELSE Then(b, "persist", WithJob(ctl[b].copy, RunPhase(job[b])))
  /\ UNCHANGED <<run, cache, current, job, jobSeen, runner>>

\* updateBuildRunStatus goes through only with a current cached copy.
Persist(b) ==
  /\ ctl[b].step = "persist"
  /\ ctl' = [ctl EXCEPT ![b] = Idle]
  /\ IF b \in current THEN Store(b, ctl[b].copy) ELSE UNCHANGED <<run, current>>
  /\ UNCHANGED <<cache, job, jobSeen, runner>>

SyncRun(b) ==
  /\ b \notin current
  /\ cache' = [cache EXCEPT ![b] = run[b]]
  /\ current' = current \cup {b}
  /\ UNCHANGED <<run, ctl, job, jobSeen, runner>>

SyncJob(b) ==
  /\ job[b] # "none"
  /\ b \in load.late \ jobSeen
  /\ jobSeen' = jobSeen \cup {b}
  /\ UNCHANGED <<run, cache, current, ctl, job, runner>>

(***************************************************************************)
(* Users, Jobs and runners.                                                *)
(***************************************************************************)

\* The watch shows BuildRuns in the order of their creation, which is the order
\* of the ranking unless two fall into one second.
Create(b) ==
  /\ b <= load.created
  /\ run[b] = NotCreated
  /\ \A c \in Runs : cache[c] = NotCreated => run[c] = NotCreated
  /\ load.tied \/ \A c \in Runs : c < b => run[c] # NotCreated
  /\ Store(b, Created)
  /\ UNCHANGED <<cache, ctl, job, jobSeen, runner>>

SetRunner(b, stage, copy) == runner' = [runner EXCEPT ![b] = [stage |-> stage, copy |-> copy]]

JobStart(b) ==
  /\ job[b] = "pending"
  /\ job' = [job EXCEPT ![b] = "active"]
  /\ SetRunner(b, "scheduled", NotCreated)
  /\ UNCHANGED <<run, cache, current, ctl, jobSeen>>

JobFinish(b) ==
  /\ job[b] = "active"
  /\ runner[b].stage = "exited"
  /\ job' = [job EXCEPT ![b] = "finished"]
  /\ UNCHANGED <<run, cache, current, ctl, jobSeen, runner>>

RunnerLoad(b) ==
  /\ runner[b].stage = "scheduled"
  /\ SetRunner(b, "loaded", run[b])
  /\ UNCHANGED <<run, cache, current, ctl, job, jobSeen>>

RunnerStart(b) ==
  /\ runner[b].stage = "loaded"
  /\ LET status == WithPhase(runner[b].copy, "Running")
     IN  IF ValidTransition(runner[b].copy.phase, "Running")
         THEN Store(b, status) /\ SetRunner(b, "started", status)
         ELSE SetRunner(b, "exited", NotCreated) /\ UNCHANGED <<run, current>>
  /\ UNCHANGED <<cache, ctl, job, jobSeen>>

RunnerFinish(b) ==
  /\ runner[b].stage = "started"
  /\ Store(b, WithPhase(runner[b].copy, "Succeeded"))
  /\ SetRunner(b, "exited", NotCreated)
  /\ UNCHANGED <<cache, ctl, job, jobSeen>>

Reconcile(b) == Begin(b) \/ Decide(b) \/ EnsureRun(b) \/ ReadRunStatus(b) \/ Persist(b)
RunnerStep(b) == RunnerLoad(b) \/ RunnerStart(b) \/ RunnerFinish(b)

\* The BuildRuns whose workload exists and has not ended.
Working == {b \in Runs : job[b] # "none" /\ runner[b].stage # "exited"}

\* The BuildRuns that were given a slot.
Granted == {b \in Runs : job[b] # "none" \/ ctl[b].step = "ensure"}

\* The two ways a slot escapes the list: it shows a BuildRun as ended whose
\* workload goes on, or it comes to hold one that ranks ahead of a BuildRun that
\* was granted its slot without it.
Record ==
  /\ lost' = lost \cup {b \in Working' : IsTerminal(cache'[b].phase)}
  /\ overtaken' = overtaken \cup {c \in Granted : \E b \in Listed' \ Listed : b < c}

Next ==
  /\ \E b \in Runs :
       \/ Create(b) \/ Reconcile(b) \/ SyncRun(b) \/ SyncJob(b)
       \/ JobStart(b) \/ JobFinish(b) \/ RunnerStep(b)
  /\ Record
  /\ UNCHANGED load

Spec == Init /\ [][Next]_vars

\* As in BuildRunLifecycle; nobody has to create a BuildRun.  The work queue is
\* first in, first out: a key that waits gets a worker although others return.
Fairness ==
  \A b \in Runs :
    /\ SF_moving(Begin(b))
    /\ WF_moving(Decide(b) \/ EnsureRun(b) \/ ReadRunStatus(b) \/ Persist(b))
    /\ WF_moving(SyncRun(b))
    /\ WF_moving(SyncJob(b))
    /\ WF_moving(JobStart(b))
    /\ WF_moving(JobFinish(b))
    /\ WF_moving(RunnerStep(b))

FairSpec == Spec /\ Fairness

(***************************************************************************)
(* The quota.                                                              *)
(***************************************************************************)

\* A slot is not given twice: reconciles that run concurrently, each on a cached
\* list that is behind and some with writes that are out of date, exceed the
\* quota by nothing but the workloads that escaped the list.
QuotaHoldsAsListed == Cardinality(Working \ (lost \cup overtaken)) <= MaxConcurrent

\* Where nobody is denied, a queued BuildRun starts when slots become free, or
\* has run meanwhile.
QueuedStarts ==
  MaxQueued = 0 => \A b \in Runs : run[b].phase = "Queued" ~> job[b] # "none"
=============================================================================
