---------------------- MODULE BuildRunLifecycle_proofs ----------------------
(***************************************************************************)
(* The safety properties of BuildRunLifecycle hold for every bound on the  *)
(* disruptions and every setting of the BuildRun.                          *)
(*                                                                         *)
(* Inv is inductive.  It adds to the properties where a copy of the status *)
(* may come from: nobody holds a copy, and no Job or pod looks finished,   *)
(* that claims a success before a runner completed (SuccessIsEarned), and  *)
(* what each holder of a copy knows while its resourceVersion is current   *)
(* (CopiesAreCurrent).                                                     *)
(***************************************************************************)
EXTENDS BuildRunLifecycle, TLAPS

\* Every deletion of a Job has used up a disruption, a request to cancel one
\* before it deletes: the bound on the Jobs that JobIds is made for.
JobsAreBounded ==
  created + budget + (IF cancel = "delete" THEN 1 ELSE 0)
    <= MaxDisruptions + (IF job = NoJob THEN 0 ELSE 1)

Typing == TypeOK /\ JobsAreBounded

\* Nothing that a writer of the status relies on says success too early.
SuccessIsEarned ==
  \/ completed # {}
  \/ /\ run.phase # "Succeeded"
     /\ informer.phase # "Succeeded"
     /\ ctl.copy.phase # "Succeeded"
     /\ job.state # "succeeded"
     /\ jobCache.state # "succeeded"
     /\ release = "none"
     /\ \A i \in JobIds : pods[i].copy.phase # "Succeeded" /\ pods[i].stage # "exited0"

\* A copy in fresh equals the stored status, where its holder still uses it.
CopiesAreCurrent ==
  /\ "informer" \in fresh => informer = run
  /\ "ctl" \in fresh => ctl.step = "tag" /\ ctl.copy = run
  /\ "cancel" \in fresh => ~IsTerminal(run.phase)

\* The copies that are written without a check carry no cancellation.
WritesAreNotCancelled ==
  /\ ctl.step \in {"persist", "notify"} => ctl.copy.phase # "Cancelled"
  /\ \A i \in JobIds : pods[i].stage \in {"started", "built"} => pods[i].copy.phase = "Running"

\* A Job that exists has a pod of its own.
JobIsNumbered == job.state # "absent" => job.id \in JobIds

\* ensureRelease is reached with a successful BuildRun only.
ReleaseStep == ctl.step = "release" => ctl.copy.phase = "Succeeded"

Inv ==
  /\ Typing
  /\ JobIsNumbered
  /\ JobsReplaceDeletedJobs
  /\ SuccessIsEarned
  /\ ReleaseStep
  /\ CopiesAreCurrent
  /\ WritesAreNotCancelled

-----------------------------------------------------------------------------

\* What the operators that build a status return.
LEMMA StatusTypes ==
  /\ NewStatus \in Statuses
  /\ NewStatus.phase = "Unset"
  /\ \A s \in Statuses, p \in Phases : WithPhase(s, p) \in Statuses /\ WithJob(s, p) \in Statuses
  /\ \A s \in Statuses : \A p : WithPhase(s, p).phase = p /\ WithJob(s, p).phase = p
  /\ \A s \in Statuses :
       /\ Failed(s) \in Statuses /\ Failed(s).phase = "Failed"
       /\ WithImageTag(s) \in Statuses /\ WithImageTag(s).phase = s.phase
       /\ BuildResult(s) \in Statuses /\ BuildResult(s).phase = s.phase
       /\ s.image \in Images
<1>1. NewStatus \in Statuses /\ NewStatus.phase = "Unset"
  BY DEF NewStatus, Statuses, Phases, Images
<1>2. ASSUME NEW s \in Statuses, NEW p \in Phases
      PROVE  WithPhase(s, p) \in Statuses /\ WithJob(s, p) \in Statuses
  BY DEF Statuses, WithPhase, WithJob
<1>3. ASSUME NEW s \in Statuses, NEW p
      PROVE  WithPhase(s, p).phase = p /\ WithJob(s, p).phase = p
  BY DEF Statuses, WithPhase, WithJob
<1>4. ASSUME NEW s \in Statuses
      PROVE  Failed(s) \in Statuses /\ Failed(s).phase = "Failed"
  BY <1>2, <1>3 DEF Failed, Phases
<1>5. ASSUME NEW s \in Statuses
      PROVE  /\ WithImageTag(s) \in Statuses /\ WithImageTag(s).phase = s.phase
             /\ BuildResult(s) \in Statuses /\ BuildResult(s).phase = s.phase
             /\ s.image \in Images
  BY DEF Statuses, WithImageTag, BuildResult, Images
<1> QED
  BY <1>1, <1>2, <1>3, <1>4, <1>5

\* The controller's next step and the pod update are typed when their parts are.
LEMMA StepTypes ==
  /\ Idle \in Ctls
  /\ \A step \in {"tag", "decide", "read", "persist", "notify", "release"},
        copy \in Statuses, next \in {"idle", "notify", "requeue"} :
       Then(step, copy, next) => ctl' \in Ctls
  /\ \A i \in JobIds, stage \in Stages, copy \in Statuses :
       pods \in Pods /\ SetPod(i, stage, copy) => pods' \in Pods
<1>1. Idle \in Ctls
  BY StatusTypes DEF Idle, Ctls
<1>2. ASSUME NEW step \in {"tag", "decide", "read", "persist", "notify", "release"},
             NEW copy \in Statuses, NEW next \in {"idle", "notify", "requeue"},
             Then(step, copy, next)
      PROVE  ctl' \in Ctls
  BY <1>2 DEF Then, Ctls
<1>3. ASSUME NEW i \in JobIds, NEW stage \in Stages, NEW copy \in Statuses,
             pods \in Pods, SetPod(i, stage, copy)
      PROVE  pods' \in Pods
  BY <1>3 DEF SetPod, Pods
<1> QED
  BY <1>1, <1>2, <1>3

\* The copies that writers hold are statuses.
LEMMA CopyTypes ==
  ASSUME Typing
  PROVE  /\ run \in Statuses /\ informer \in Statuses /\ pods \in Pods
         /\ ctl.copy \in Statuses /\ ctl.next \in {"idle", "notify", "requeue"}
         /\ \A i \in JobIds : pods[i].copy \in Statuses
BY DEF Typing, TypeOK, Ctls, Pods

LEMMA InitTyping == Init => Typing
<1> SUFFICES ASSUME Init PROVE Typing
  OBVIOUS
<1>1. pods \in Pods
  BY StatusTypes DEF Init, Pods, Stages
<1>2. job \in Jobs /\ jobCache \in Jobs
  BY ConstantsAssumption DEF Init, NoJob, Jobs, JobStates
<1>3. ctl \in Ctls
  BY StepTypes DEF Init
<1>4. created \in 0 .. (MaxDisruptions + 1) /\ budget \in 0 .. MaxDisruptions
  BY ConstantsAssumption DEF Init
<1>5. run \in Statuses /\ informer \in Statuses
  BY StatusTypes DEF Init
<1>6. TypeOK
  BY <1>1, <1>2, <1>3, <1>4, <1>5 DEF Init, TypeOK, CancelSteps, Holders, Images
<1>7. JobsAreBounded
  BY ConstantsAssumption DEF Init, JobsAreBounded
<1> QED
  BY <1>6, <1>7 DEF Typing

\* EnsureRun creates a Job only where none exists, and every deletion of a Job
\* has used up a disruption.
LEMMA NextJobCount == Typing /\ [Next]_vars => JobsAreBounded'
<1> SUFFICES ASSUME Typing, [Next]_vars PROVE JobsAreBounded'
  OBVIOUS
<1> USE ConstantsAssumption DEF Typing, TypeOK, JobsAreBounded, Disrupt
<1>1. CASE UNCHANGED <<job, created, cancel, budget>>
  BY <1>1
<1>2. CASE ImageTagError
  BY <1>2 DEF ImageTagError
<1>3. CASE PolicyDenied
  BY <1>3 DEF PolicyDenied
<1>4. CASE QuotaReached
  BY <1>4 DEF QuotaReached
<1>5. CASE ExecutorError
  BY <1>5 DEF ExecutorError
<1>6. CASE Notify
  BY <1>6 DEF Notify
<1>7. CASE ControllerRestart
  BY <1>7 DEF ControllerRestart
<1>8. CASE ReleaseDeleted
  BY <1>8 DEF ReleaseDeleted
<1>9. CASE ReferencesDeleted
  BY <1>9 DEF ReferencesDeleted
<1>10. CASE CancelBegin
  BY <1>10 DEF CancelBegin
<1>11. CASE CancelWrite
  BY <1>11 DEF CancelWrite
<1>12. CASE CancelAbort
  BY <1>12 DEF CancelAbort
<1>13. CASE EnsureRun
  <2>1. CASE JobMissing
    <3>1. job = NoJob /\ created' = created + 1 /\ UNCHANGED <<budget, cancel>>
      BY <1>13, <2>1 DEF EnsureRun, JobMissing
    <3>2. job' = [id |-> created + 1, state |-> "pending"]
      BY <1>13, <2>1 DEF EnsureRun
    <3>3. job'.state = "pending"
      BY <3>2
    <3>4. NoJob.state = "absent"
      BY DEF NoJob
    <3>5. job' # NoJob
      BY <3>3, <3>4
    <3> QED
      BY <3>1, <3>5
  <2>2. CASE ~JobMissing
    BY <1>13, <2>2 DEF EnsureRun
  <2> QED
    BY <2>1, <2>2
<1>14. CASE JobStart
  BY <1>14 DEF JobStart, NoJob, Jobs, JobStates
<1>15. CASE JobFinish
  BY <1>15 DEF JobFinish, NoJob, Jobs, JobStates
<1>16. CASE CancelDeleteJobs
  BY <1>16 DEF CancelDeleteJobs, DeleteJob, NoJob, Jobs, JobStates
<1>17. CASE JobDeleted
  BY <1>17 DEF JobDeleted, DeleteJob, NoJob, Jobs, JobStates
<1> QED
  BY <1>1, <1>2, <1>3, <1>4, <1>5, <1>6, <1>7, <1>8, <1>9,
     <1>10, <1>11, <1>12, <1>13, <1>14, <1>15, <1>16, <1>17
     DEF Next, Reconcile, RunnerStep, vars, EnsureImageTag, ReconcileTerminal, ReadRunStatus, Begin, Persist, EnsureRelease, SyncBuildRun, SyncJob,
         RunnerLoad, RunnerStart, RunnerBuild, RunnerSucceed, RunnerFail, PodLost, PodKilled

\* A disruption uses up budget; no Job is a Job; JobMissing permits one more.
LEMMA SmallTypes ==
  ASSUME Typing
  PROVE  /\ \A kind : Disrupt(kind) => budget' \in 0 .. MaxDisruptions
         /\ NoJob \in Jobs
         /\ JobMissing => created + 1 \in 0 .. (MaxDisruptions + 1)
         /\ DeleteJob => deleted' \subseteq JobIds
<1>1. ASSUME NEW kind, Disrupt(kind) PROVE budget' \in 0 .. MaxDisruptions
  BY <1>1, ConstantsAssumption DEF Typing, TypeOK, Disrupt
<1>2. NoJob \in Jobs
  BY ConstantsAssumption DEF NoJob, Jobs, JobStates
<1>3. ASSUME JobMissing PROVE created + 1 \in 0 .. (MaxDisruptions + 1)
  <2>1. created + budget + (IF cancel = "delete" THEN 1 ELSE 0) <= MaxDisruptions
    BY <1>3, ConstantsAssumption DEF Typing, JobsAreBounded, JobMissing
  <2>2. created \in Nat /\ budget \in Nat
    BY ConstantsAssumption DEF Typing, TypeOK
  <2> QED
    BY <2>1, <2>2, ConstantsAssumption
<1>4. ASSUME DeleteJob PROVE deleted' \subseteq JobIds
  <2>1. deleted \subseteq JobIds /\ job.id \in 0 .. (MaxDisruptions + 1)
    BY DEF Typing, TypeOK, Jobs
  <2>2. {job.id} \ {0} \subseteq JobIds
    BY <2>1, ConstantsAssumption DEF JobIds
  <2> QED
    BY <1>4, <2>1, <2>2 DEF DeleteJob, NoJob
<1> QED
  BY <1>1, <1>2, <1>3, <1>4

\* Every action keeps the types; the Job count bounds the Jobs created.
LEMMA NextTyping == Typing /\ [Next]_vars => Typing'
<1> SUFFICES ASSUME Typing, [Next]_vars PROVE TypeOK'
  BY NextJobCount DEF Typing
<1> USE StatusTypes, StepTypes, CopyTypes, SmallTypes
    DEF Typing, TypeOK
<1>1. CASE Begin
  BY <1>1 DEF Begin, Holders
<1>2. CASE EnsureImageTag
  <2>1. run' \in Statuses /\ fresh' \subseteq Holders
    BY <1>2 DEF EnsureImageTag, UpdateAs
  <2>2. ctl' \in Ctls /\ dirty' \in BOOLEAN
    BY <1>2 DEF EnsureImageTag, Requeue
  <2> QED
    BY <1>2, <2>1, <2>2 DEF EnsureImageTag
<1>3. CASE ImageTagError
  BY <1>3 DEF ImageTagError, Requeue
<1>4. CASE ReconcileTerminal
  BY <1>4 DEF ReconcileTerminal, ReleaseIfSucceeded
<1>5. CASE PolicyDenied
  BY <1>5 DEF PolicyDenied
<1>6. CASE QuotaReached
  BY <1>6 DEF QuotaReached, Phases
<1>7. CASE ExecutorError
  BY <1>7 DEF ExecutorError
<1>8. CASE ReadRunStatus
  BY <1>8 DEF ReadRunStatus, RunPhase, Phases
<1>9. CASE Persist
  BY <1>9 DEF Persist, Overwrite, Requeue
<1>10. CASE Notify
  BY <1>10 DEF Notify, ReleaseIfSucceeded, Overwrite
<1>11. CASE EnsureRelease
  BY <1>11 DEF EnsureRelease
<1>12. CASE ControllerRestart
  BY <1>12 DEF ControllerRestart, Holders
<1>13. CASE SyncBuildRun
  BY <1>13 DEF SyncBuildRun, Holders
<1>14. CASE SyncJob
  BY <1>14 DEF SyncJob
<1>15. ASSUME NEW i \in JobIds, RunnerLoad(i) PROVE TypeOK'
  BY <1>15 DEF RunnerLoad, Stages, LiveStages
<1>16. ASSUME NEW i \in JobIds, RunnerStart(i) PROVE TypeOK'
  <2>1. WithPhase(pods[i].copy, "Running") \in Statuses
    BY DEF Phases
  <2>2. run' \in Statuses /\ fresh' \subseteq Holders
    BY <1>16, <2>1 DEF RunnerStart, Overwrite
  <2>3. pods' \in Pods
    BY <1>16, <2>1 DEF RunnerStart, Stages, LiveStages
  <2> QED
    BY <1>16, <2>2, <2>3 DEF RunnerStart
<1>17. ASSUME NEW i \in JobIds, RunnerBuild(i) PROVE TypeOK'
  BY <1>17 DEF RunnerBuild, Overwrite, Stages, LiveStages
<1>18. ASSUME NEW i \in JobIds, RunnerSucceed(i) PROVE TypeOK'
  BY <1>18 DEF RunnerSucceed, Overwrite, Phases, Stages, LiveStages
<1>19. ASSUME NEW i \in JobIds, RunnerFail(i) PROVE TypeOK'
  BY <1>19 DEF RunnerFail, Overwrite, Stages, LiveStages
<1>20. ASSUME NEW i \in JobIds, PodLost(i) PROVE TypeOK'
  BY <1>20 DEF PodLost, Stages, LiveStages
<1>21. ASSUME NEW i \in JobIds, PodKilled(i) PROVE TypeOK'
  BY <1>21 DEF PodKilled, Stages, LiveStages
<1>22. CASE CancelBegin
  BY <1>22 DEF CancelBegin, CancelSteps, Holders
<1>23. CASE CancelDeleteJobs
  BY <1>23 DEF CancelDeleteJobs, DeleteJob, CancelSteps
<1>24. CASE CancelWrite
  <2>1. WithPhase(run, "Cancelled") \in Statuses
    BY DEF Phases
  <2>2. run' \in Statuses /\ fresh' \subseteq Holders
    BY <1>24, <2>1 DEF CancelWrite, UpdateAs
  <2> QED
    BY <1>24, <2>2 DEF CancelWrite, CancelSteps
<1>25. CASE CancelAbort
  BY <1>25 DEF CancelAbort, CancelSteps
<1>26. CASE JobDeleted
  BY <1>26 DEF JobDeleted, DeleteJob
<1>27. CASE ReleaseDeleted
  BY <1>27 DEF ReleaseDeleted, Images
<1>28. CASE ReferencesDeleted
  BY <1>28 DEF ReferencesDeleted
<1>29. CASE EnsureRun
  <2>1. ctl' \in Ctls
    BY <1>29 DEF EnsureRun, Phases
  <2>2. created' \in 0 .. (MaxDisruptions + 1) /\ job' \in Jobs
    <3>1. CASE JobMissing
      <4>1. created' = created + 1 /\ job' = [id |-> created + 1, state |-> "pending"]
        BY <1>29, <3>1 DEF EnsureRun
      <4>2. created + 1 \in 0 .. (MaxDisruptions + 1)
        BY <3>1, SmallTypes
      <4> QED
        BY <4>1, <4>2 DEF Jobs, JobStates
    <3>2. CASE ~JobMissing
      BY <1>29, <3>2 DEF EnsureRun
    <3> QED
      BY <3>1, <3>2
  <2> QED
    BY <1>29, <2>1, <2>2 DEF EnsureRun
<1>30. CASE JobStart
  <2>1. job' \in Jobs
    BY <1>30 DEF JobStart, Jobs, JobStates
  <2>2. pods' \in Pods
    BY <1>30 DEF JobStart, SetPod, Pods, Stages, LiveStages
  <2> QED
    BY <1>30, <2>1, <2>2 DEF JobStart
<1>31. CASE JobFinish
  BY <1>31 DEF JobFinish, Jobs, JobStates
<1>32. CASE UNCHANGED vars
  BY <1>32 DEF vars
<1> QED
  BY <1>1, <1>2, <1>3, <1>4, <1>5, <1>6, <1>7, <1>8, <1>9, <1>10,
     <1>11, <1>12, <1>13, <1>14, <1>15, <1>16, <1>17, <1>18, <1>19, <1>20,
     <1>21, <1>22, <1>23, <1>24, <1>25, <1>26, <1>27, <1>28, <1>29, <1>30, <1>31, <1>32
     DEF Next, Reconcile, RunnerStep

\* What a step of the controller leaves behind.
LEMMA StepFacts ==
  /\ Idle.step = "idle" /\ Idle.copy.phase = "Unset"
  /\ \A step, copy, next :
       Then(step, copy, next) => ctl'.step = step /\ ctl'.copy = copy
<1>1. Idle.step = "idle" /\ Idle.copy.phase = "Unset"
  BY StatusTypes DEF Idle
<1>2. ASSUME NEW step, NEW copy, NEW next, Then(step, copy, next)
      PROVE  ctl'.step = step /\ ctl'.copy = copy
  BY <1>2 DEF Then
<1> QED
  BY <1>1, <1>2

\* Only RunnerSucceed makes up a success, and it completes the pipeline.
LEMMA NextSuccessIsEarned == Inv /\ [Next]_vars => SuccessIsEarned'
<1> SUFFICES ASSUME Inv, [Next]_vars PROVE SuccessIsEarned'
  OBVIOUS
<1> USE CopyTypes DEF Inv, Then, Idle, NewStatus, Failed, WithPhase, Statuses, SetPod, Pods, SuccessIsEarned
<1>1. CASE Begin
  BY <1>1 DEF Begin
<1>2. CASE EnsureImageTag
  <2>1. WithImageTag(ctl.copy).phase = ctl.copy.phase
    BY StatusTypes
  <2> QED
    BY <1>2, <2>1 DEF EnsureImageTag, UpdateAs, Requeue
<1>3. CASE ImageTagError
  BY <1>3 DEF ImageTagError, Requeue
<1>4. CASE ReconcileTerminal
  BY <1>4 DEF ReconcileTerminal, ReleaseIfSucceeded
<1>5. CASE PolicyDenied
  BY <1>5 DEF PolicyDenied
<1>6. CASE QuotaReached
  BY <1>6 DEF QuotaReached
<1>7. CASE ExecutorError
  BY <1>7 DEF ExecutorError
<1>8. CASE EnsureRun
  <2>1. \A p : WithJob(ctl.copy, p).phase = p
    BY StatusTypes
  <2>2. ctl'.copy.phase \in {"Queued", ctl.copy.phase}
    BY <1>8, <2>1 DEF EnsureRun
  <2>3. job'.state \in {"pending", job.state}
    BY <1>8 DEF EnsureRun
  <2> QED
    BY <1>8, <2>2, <2>3 DEF EnsureRun
<1>9. CASE ReadRunStatus
  <2>1. \A p : WithJob(ctl.copy, p).phase = p
    BY StatusTypes
  <2>2. ctl'.copy.phase = "Succeeded" => jobCache.state = "succeeded"
    BY <1>9, <2>1 DEF ReadRunStatus, RunPhase
  <2> QED
    BY <1>9, <2>2 DEF ReadRunStatus
<1>10. CASE Persist
  BY <1>10 DEF Persist, Overwrite, Requeue
<1>11. CASE Notify
  BY <1>11 DEF Notify, ReleaseIfSucceeded, Overwrite
<1>12. CASE EnsureRelease
  BY <1>12 DEF EnsureRelease, ReleaseStep
<1>13. CASE ControllerRestart
  BY <1>13 DEF ControllerRestart
<1>14. CASE SyncBuildRun
  BY <1>14 DEF SyncBuildRun
<1>15. CASE SyncJob
  BY <1>15 DEF SyncJob
<1>16. CASE JobStart
  BY <1>16 DEF JobStart
<1>17. CASE JobFinish
  BY <1>17 DEF JobFinish, JobIsNumbered, Jobs, TypeOK, Typing
<1>18. ASSUME NEW i \in JobIds, RunnerLoad(i) PROVE SuccessIsEarned'
  BY <1>18 DEF RunnerLoad
<1>19. ASSUME NEW i \in JobIds, RunnerStart(i) PROVE SuccessIsEarned'
  BY <1>19 DEF RunnerStart, Overwrite
<1>20. ASSUME NEW i \in JobIds, RunnerBuild(i) PROVE SuccessIsEarned'
  BY <1>20 DEF RunnerBuild, Overwrite, BuildResult
<1>21. ASSUME NEW i \in JobIds, RunnerSucceed(i) PROVE SuccessIsEarned'
  BY <1>21 DEF RunnerSucceed
<1>22. ASSUME NEW i \in JobIds, RunnerFail(i) PROVE SuccessIsEarned'
  BY <1>22 DEF RunnerFail, Overwrite
<1>23. ASSUME NEW i \in JobIds, PodLost(i) PROVE SuccessIsEarned'
  BY <1>23 DEF PodLost
<1>24. ASSUME NEW i \in JobIds, PodKilled(i) PROVE SuccessIsEarned'
  BY <1>24 DEF PodKilled
<1>25. CASE CancelDeleteJobs
  BY <1>25 DEF CancelDeleteJobs, DeleteJob, NoJob
<1>26. CASE CancelWrite
  BY <1>26 DEF CancelWrite, UpdateAs
<1>27. CASE JobDeleted
  BY <1>27 DEF JobDeleted, DeleteJob, NoJob
<1>28. CASE ReleaseDeleted
  BY <1>28 DEF ReleaseDeleted
<1>29. CASE UNCHANGED <<run, informer, ctl, job, jobCache, release, pods, completed>>
  BY <1>29
<1> QED
  BY <1>1, <1>2, <1>3, <1>4, <1>5, <1>6, <1>7, <1>8, <1>9, <1>10, <1>11,
     <1>12, <1>13, <1>14, <1>15, <1>16, <1>17, <1>18, <1>19, <1>20, <1>21,
     <1>22, <1>23, <1>24, <1>25, <1>26, <1>27, <1>28, <1>29
     DEF Next, Reconcile, RunnerStep, vars, CancelBegin, CancelAbort,
     ReferencesDeleted

\* The step before ensureRelease looks at the phase of the copy it passes on.
LEMMA NextReleaseStep == Inv /\ [Next]_vars => ReleaseStep'
<1> SUFFICES ASSUME Inv, [Next]_vars PROVE ReleaseStep'
  OBVIOUS
<1> USE StepFacts DEF Inv, ReleaseStep
<1>1. CASE Begin
  BY <1>1 DEF Begin
<1>2. CASE EnsureImageTag
  BY <1>2 DEF EnsureImageTag, Requeue
<1>3. CASE ImageTagError
  BY <1>3 DEF ImageTagError, Requeue
<1>4. CASE ReconcileTerminal
  BY <1>4 DEF ReconcileTerminal, ReleaseIfSucceeded
<1>5. CASE PolicyDenied
  BY <1>5 DEF PolicyDenied
<1>6. CASE QuotaReached
  BY <1>6 DEF QuotaReached
<1>7. CASE ExecutorError
  BY <1>7 DEF ExecutorError
<1>8. CASE EnsureRun
  BY <1>8 DEF EnsureRun
<1>9. CASE ReadRunStatus
  BY <1>9 DEF ReadRunStatus
<1>10. CASE Persist
  BY <1>10 DEF Persist, Requeue
<1>11. CASE Notify
  BY <1>11 DEF Notify, ReleaseIfSucceeded
<1>12. CASE EnsureRelease
  BY <1>12 DEF EnsureRelease
<1>13. CASE ControllerRestart
  BY <1>13 DEF ControllerRestart
<1>14. CASE UNCHANGED <<ctl>>
  BY <1>14
<1> QED
  BY <1>1, <1>2, <1>3, <1>4, <1>5, <1>6, <1>7, <1>8, <1>9, <1>10, <1>11,
     <1>12, <1>13, <1>14
     DEF Next, Reconcile, RunnerStep, vars, SyncBuildRun, SyncJob, JobStart,
     JobFinish, RunnerLoad, RunnerStart, RunnerBuild, RunnerSucceed,
     RunnerFail, PodLost, PodKilled, CancelBegin, CancelDeleteJobs,
     CancelWrite, CancelAbort, JobDeleted, ReleaseDeleted, ReferencesDeleted

\* A write that changes the status empties fresh; who reads joins it.
LEMMA NextCopiesAreCurrent == Inv /\ [Next]_vars => CopiesAreCurrent'
<1> SUFFICES ASSUME Inv, [Next]_vars PROVE CopiesAreCurrent'
  OBVIOUS
<1> USE CopyTypes DEF Inv, Then, Idle, NewStatus, Failed, WithPhase, Statuses, SetPod, Pods, CopiesAreCurrent
<1>1. CASE Begin
  BY <1>1 DEF Begin
<1>2. CASE EnsureImageTag
  BY <1>2 DEF EnsureImageTag, UpdateAs, Requeue
<1>3. CASE ImageTagError
  BY <1>3 DEF ImageTagError, Requeue
<1>4. CASE ReconcileTerminal
  BY <1>4 DEF ReconcileTerminal
<1>5. CASE PolicyDenied
  BY <1>5 DEF PolicyDenied
<1>6. CASE QuotaReached
  BY <1>6 DEF QuotaReached
<1>7. CASE ExecutorError
  BY <1>7 DEF ExecutorError
<1>8. CASE EnsureRun
  BY <1>8 DEF EnsureRun
<1>9. CASE ReadRunStatus
  BY <1>9 DEF ReadRunStatus
<1>10. CASE Persist
  BY <1>10 DEF Persist, Overwrite, Requeue
<1>11. CASE Notify
  BY <1>11 DEF Notify, Overwrite
<1>12. CASE EnsureRelease
  BY <1>12 DEF EnsureRelease
<1>13. CASE ControllerRestart
  BY <1>13 DEF ControllerRestart
<1>14. CASE SyncBuildRun
  BY <1>14 DEF SyncBuildRun
<1>15. ASSUME NEW i \in JobIds, RunnerStart(i) PROVE CopiesAreCurrent'
  BY <1>15 DEF RunnerStart, Overwrite
<1>16. ASSUME NEW i \in JobIds, RunnerBuild(i) PROVE CopiesAreCurrent'
  BY <1>16 DEF RunnerBuild, Overwrite
<1>17. ASSUME NEW i \in JobIds, RunnerSucceed(i) PROVE CopiesAreCurrent'
  BY <1>17 DEF RunnerSucceed, Overwrite
<1>18. ASSUME NEW i \in JobIds, RunnerFail(i) PROVE CopiesAreCurrent'
  BY <1>18 DEF RunnerFail, Overwrite
<1>19. CASE CancelBegin
  BY <1>19 DEF CancelBegin
<1>20. CASE CancelWrite
  BY <1>20 DEF CancelWrite, UpdateAs
<1>21. CASE CancelAbort
  BY <1>21 DEF CancelAbort
<1>22. CASE UNCHANGED <<run, fresh, informer, ctl>>
  BY <1>22
<1> QED
  BY <1>1, <1>2, <1>3, <1>4, <1>5, <1>6, <1>7, <1>8, <1>9, <1>10, <1>11,
     <1>12, <1>13, <1>14, <1>15, <1>16, <1>17, <1>18, <1>19, <1>20, <1>21,
     <1>22
     DEF Next, Reconcile, RunnerStep, vars, SyncJob, JobStart, JobFinish,
     RunnerLoad, PodLost, PodKilled, CancelDeleteJobs, JobDeleted,
     ReleaseDeleted, ReferencesDeleted

\* The controller stores Failed, Queued, Running or Succeeded, a runner what it
\* marked Running itself.
LEMMA NextWritesAreNotCancelled == Inv /\ [Next]_vars => WritesAreNotCancelled'
<1> SUFFICES ASSUME Inv, [Next]_vars PROVE WritesAreNotCancelled'
  OBVIOUS
<1> USE CopyTypes DEF Inv, Then, Idle, NewStatus, Failed, WithPhase, Statuses, SetPod, Pods, WritesAreNotCancelled
<1>1. CASE Begin
  BY <1>1 DEF Begin
<1>2. CASE EnsureImageTag
  BY <1>2 DEF EnsureImageTag, Requeue
<1>3. CASE ImageTagError
  BY <1>3 DEF ImageTagError, Requeue
<1>4. CASE ReconcileTerminal
  BY <1>4 DEF ReconcileTerminal, ReleaseIfSucceeded
<1>5. CASE PolicyDenied
  BY <1>5 DEF PolicyDenied
<1>6. CASE QuotaReached
  BY <1>6 DEF QuotaReached
<1>7. CASE ExecutorError
  BY <1>7 DEF ExecutorError
<1>8. CASE EnsureRun
  <2>1. \A p : WithJob(ctl.copy, p).phase = p
    BY StatusTypes
  <2>2. ctl'.copy.phase = "Queued" \/ ctl'.step = "read"
    BY <1>8, <2>1 DEF EnsureRun
  <2> QED
    BY <1>8, <2>2 DEF EnsureRun
<1>9. CASE ReadRunStatus
  <2>1. \A p : WithJob(ctl.copy, p).phase = p
    BY StatusTypes
  <2>2. ctl'.step = "persist" => ctl'.copy.phase \in {"Succeeded", "Failed", "Running"}
    BY <1>9, <2>1 DEF ReadRunStatus, RunPhase
  <2>3. ctl'.step # "notify"
    BY <1>9 DEF ReadRunStatus
  <2> QED
    BY <1>9, <2>2, <2>3 DEF ReadRunStatus
<1>10. CASE Persist
  BY <1>10 DEF Persist, Requeue
<1>11. CASE Notify
  BY <1>11 DEF Notify, ReleaseIfSucceeded
<1>12. CASE EnsureRelease
  BY <1>12 DEF EnsureRelease
<1>13. CASE ControllerRestart
  BY <1>13 DEF ControllerRestart
<1>14. CASE JobStart
  BY <1>14 DEF JobStart
<1>15. ASSUME NEW i \in JobIds, RunnerLoad(i) PROVE WritesAreNotCancelled'
  BY <1>15 DEF RunnerLoad
<1>16. ASSUME NEW i \in JobIds, RunnerStart(i) PROVE WritesAreNotCancelled'
  <2>1. pods'[i].copy.phase = "Running" \/ pods'[i].stage = "exited1"
    BY <1>16 DEF RunnerStart
  <2>2. \A j \in JobIds \ {i} : pods'[j] = pods[j]
    BY <1>16 DEF RunnerStart
  <2> QED
    BY <1>16, <2>1, <2>2 DEF RunnerStart
<1>17. ASSUME NEW i \in JobIds, RunnerBuild(i) PROVE WritesAreNotCancelled'
  <2>1. pods'[i].copy.phase = "Running"
    BY <1>17 DEF RunnerBuild, BuildResult
  <2>2. \A j \in JobIds \ {i} : pods'[j] = pods[j]
    BY <1>17 DEF RunnerBuild
  <2> QED
    BY <1>17, <2>1, <2>2 DEF RunnerBuild
<1>18. ASSUME NEW i \in JobIds, RunnerSucceed(i) PROVE WritesAreNotCancelled'
  BY <1>18 DEF RunnerSucceed
<1>19. ASSUME NEW i \in JobIds, RunnerFail(i) PROVE WritesAreNotCancelled'
  BY <1>19 DEF RunnerFail
<1>20. ASSUME NEW i \in JobIds, PodLost(i) PROVE WritesAreNotCancelled'
  BY <1>20 DEF PodLost
<1>21. ASSUME NEW i \in JobIds, PodKilled(i) PROVE WritesAreNotCancelled'
  BY <1>21 DEF PodKilled
<1>22. CASE UNCHANGED <<ctl, pods>>
  BY <1>22
<1> QED
  BY <1>1, <1>2, <1>3, <1>4, <1>5, <1>6, <1>7, <1>8, <1>9, <1>10, <1>11,
     <1>12, <1>13, <1>14, <1>15, <1>16, <1>17, <1>18, <1>19, <1>20, <1>21,
     <1>22
     DEF Next, Reconcile, RunnerStep, vars, SyncBuildRun, SyncJob, JobFinish,
     CancelBegin, CancelDeleteJobs, CancelWrite, CancelAbort, JobDeleted,
     ReleaseDeleted, ReferencesDeleted

\* Jobs are numbered in the order of their creation.
LEMMA NextJobIsNumbered == Inv /\ [Next]_vars => JobIsNumbered'
<1> SUFFICES ASSUME Inv, [Next]_vars PROVE JobIsNumbered'
  OBVIOUS
<1> USE SmallTypes DEF Inv, JobIsNumbered
<1>1. CASE EnsureRun
  <2>1. CASE JobMissing
    <3>1. job' = [id |-> created + 1, state |-> "pending"]
      BY <1>1, <2>1 DEF EnsureRun
    <3>2. created + 1 \in JobIds
      BY <2>1, ConstantsAssumption DEF JobIds, Typing, TypeOK
    <3> QED
      BY <3>1, <3>2
  <2>2. CASE ~JobMissing
    BY <1>1, <2>2 DEF EnsureRun
  <2> QED
    BY <2>1, <2>2
<1>2. CASE JobStart
  BY <1>2 DEF JobStart, Typing, TypeOK, Jobs
<1>3. CASE JobFinish
  BY <1>3 DEF JobFinish, Typing, TypeOK, Jobs
<1>4. CASE CancelDeleteJobs
  BY <1>4 DEF CancelDeleteJobs, DeleteJob, NoJob
<1>5. CASE JobDeleted
  BY <1>5 DEF JobDeleted, DeleteJob, NoJob
<1>6. CASE UNCHANGED <<job>>
  BY <1>6
<1> QED
  BY <1>1, <1>2, <1>3, <1>4, <1>5, <1>6
     DEF Next, Reconcile, RunnerStep, vars, Begin, EnsureImageTag,
     ImageTagError, ReconcileTerminal, PolicyDenied, QuotaReached,
     ExecutorError, ReadRunStatus, Persist, Notify, EnsureRelease,
     ControllerRestart, SyncBuildRun, SyncJob, RunnerLoad, RunnerStart,
     RunnerBuild, RunnerSucceed, RunnerFail, PodLost, PodKilled, CancelBegin,
     CancelWrite, CancelAbort, ReleaseDeleted, ReferencesDeleted

\* A Job is created only where none is left, so that its predecessors were deleted.
LEMMA NextJobsReplaced == Inv /\ [Next]_vars => JobsReplaceDeletedJobs'
<1> SUFFICES ASSUME Inv, [Next]_vars PROVE JobsReplaceDeletedJobs'
  OBVIOUS
<1>0. created \in Nat /\ 1 .. created \subseteq deleted \cup {job.id}
  BY ConstantsAssumption DEF Inv, Typing, TypeOK, JobsReplaceDeletedJobs
<1>1. CASE EnsureRun
  <2>1. CASE JobMissing
    <3>1. job' = [id |-> created + 1, state |-> "pending"] /\ created' = created + 1
          /\ deleted' = deleted
      BY <1>1, <2>1 DEF EnsureRun
    <3>2. job.id = 0
      BY <2>1 DEF JobMissing, NoJob
    <3>3. ASSUME NEW i \in 1 .. (created + 1)
          PROVE  i = created + 1 \/ i \in deleted
      BY <1>0, <3>2
    <3> QED
      BY <3>1, <3>3 DEF JobsReplaceDeletedJobs
  <2>2. CASE ~JobMissing
    BY <1>1, <2>2 DEF EnsureRun, Inv, JobsReplaceDeletedJobs
  <2> QED
    BY <2>1, <2>2
<1>2. CASE JobStart
  BY <1>2, <1>0 DEF JobStart, Inv, Typing, TypeOK, Jobs, JobsReplaceDeletedJobs
<1>3. CASE JobFinish
  BY <1>3, <1>0 DEF JobFinish, Inv, Typing, TypeOK, Jobs, JobsReplaceDeletedJobs
<1>4. ASSUME DeleteJob, created' = created PROVE JobsReplaceDeletedJobs'
  <2>1. NoJob.id = 0
    BY DEF NoJob
  <2>2. ASSUME NEW i \in 1 .. created PROVE i \in deleted'
    BY <1>4, <1>0, <2>1 DEF DeleteJob
  <2> QED
    BY <1>4, <2>2 DEF JobsReplaceDeletedJobs
<1>5. CASE CancelDeleteJobs
  BY <1>5, <1>4 DEF CancelDeleteJobs
<1>6. CASE JobDeleted
  BY <1>6, <1>4 DEF JobDeleted
<1>7. CASE UNCHANGED <<job, created, deleted>>
  BY <1>7, <1>0 DEF JobsReplaceDeletedJobs
<1> QED
  BY <1>1, <1>2, <1>3, <1>5, <1>6, <1>7
     DEF Next, Reconcile, RunnerStep, vars, Begin, EnsureImageTag,
     ImageTagError, ReconcileTerminal, PolicyDenied, QuotaReached,
     ExecutorError, ReadRunStatus, Persist, Notify, EnsureRelease,
     ControllerRestart, SyncBuildRun, SyncJob, RunnerLoad, RunnerStart,
     RunnerBuild, RunnerSucceed, RunnerFail, PodLost, PodKilled, CancelBegin,
     CancelWrite, CancelAbort, ReleaseDeleted, ReferencesDeleted

\* The only write that introduces Cancelled is the checked one of CancelWrite.
LEMMA NextCancel ==
  ASSUME Inv, [Next]_vars, run'.phase = "Cancelled", run.phase # "Cancelled"
  PROVE  ~IsTerminal(run.phase)
<1> USE CopyTypes DEF Inv
<1>1. CASE EnsureImageTag
  <2>1. WithImageTag(ctl.copy).phase = ctl.copy.phase
    BY StatusTypes
  <2> QED
    BY <1>1, <2>1 DEF EnsureImageTag, UpdateAs, CopiesAreCurrent
<1>2. CASE Persist
  BY <1>2 DEF Persist, Overwrite, WritesAreNotCancelled
<1>3. CASE Notify
  BY <1>3 DEF Notify, Overwrite, WritesAreNotCancelled
<1>4. ASSUME NEW i \in JobIds, RunnerStart(i) PROVE ~IsTerminal(run.phase)
  BY <1>4 DEF RunnerStart, Overwrite, WithPhase, Statuses
<1>5. ASSUME NEW i \in JobIds, RunnerBuild(i) PROVE ~IsTerminal(run.phase)
  <2>1. pods[i].copy.phase = "Running"
    BY <1>5 DEF RunnerBuild, WritesAreNotCancelled
  <2>2. BuildResult(pods[i].copy).phase = "Running"
    BY <2>1, StatusTypes
  <2> QED
    BY <1>5, <2>1, <2>2 DEF RunnerBuild, Overwrite
<1>6. ASSUME NEW i \in JobIds, RunnerSucceed(i) PROVE ~IsTerminal(run.phase)
  <2>1. BuildResult(pods[i].copy) \in Statuses
    BY StatusTypes
  <2>2. WithPhase(BuildResult(pods[i].copy), "Succeeded").phase = "Succeeded"
    BY <2>1, StatusTypes
  <2> QED
    BY <1>6, <2>2 DEF RunnerSucceed, Overwrite
<1>7. ASSUME NEW i \in JobIds, RunnerFail(i) PROVE ~IsTerminal(run.phase)
  BY <1>7 DEF RunnerFail, Overwrite, Failed, WithPhase, Statuses
<1>8. CASE CancelWrite
  BY <1>8 DEF CancelWrite, UpdateAs, CopiesAreCurrent
<1>9. CASE UNCHANGED run
  BY <1>9
<1> QED
  BY <1>1, <1>2, <1>3, <1>4, <1>5, <1>6, <1>7, <1>8, <1>9
     DEF Next, Reconcile, RunnerStep, vars, Begin, ImageTagError,
     ReconcileTerminal, PolicyDenied, QuotaReached, ExecutorError, EnsureRun,
     ReadRunStatus, EnsureRelease, ControllerRestart, SyncBuildRun, SyncJob,
     JobStart, JobFinish, RunnerLoad, PodLost, PodKilled, CancelBegin,
     CancelDeleteJobs, CancelAbort, JobDeleted, ReleaseDeleted,
     ReferencesDeleted

-----------------------------------------------------------------------------

\* The inductive invariant, for every value of the constants.
THEOREM Invariance == Spec => []Inv
<1>1. Init => Inv
  <2> SUFFICES ASSUME Init PROVE Inv
    OBVIOUS
  <2>1. Typing
    BY InitTyping
  <2>2. ReleaseStep /\ JobIsNumbered
    BY StepFacts DEF Init, ReleaseStep, JobIsNumbered, NoJob
  <2>3. SuccessIsEarned
    BY StatusTypes, StepFacts DEF Init, SuccessIsEarned, NoJob
  <2>4. CopiesAreCurrent
    BY DEF Init, CopiesAreCurrent
  <2>5. WritesAreNotCancelled
    BY StepFacts DEF Init, WritesAreNotCancelled
  <2>6. JobsReplaceDeletedJobs
    BY DEF Init, JobsReplaceDeletedJobs
  <2> QED
    BY <2>1, <2>2, <2>3, <2>4, <2>5, <2>6 DEF Inv
<1>2. Inv /\ [Next]_vars => Inv'
  BY NextTyping, NextJobIsNumbered, NextJobsReplaced, NextSuccessIsEarned, NextReleaseStep,
     NextCopiesAreCurrent, NextWritesAreNotCancelled DEF Inv
<1> QED
  BY <1>1, <1>2, PTL DEF Spec

\* Every variable keeps its type: in particular a runner never reads a status
\* outside Statuses and no more Jobs are numbered than JobIds has.
THEOREM TypeCorrectness == Spec => []TypeOK
<1>1. Inv => TypeOK
  BY DEF Inv, Typing
<1> QED
  BY <1>1, Invariance, PTL

\* However the caches of the controller lag, whatever is deleted, restarted or
\* cancelled: a stored Succeeded means that a runner ran the whole pipeline.
THEOREM SuccessMeansCompletion == Spec => []SucceededOnlyAfterCompletion
<1>1. Inv => SucceededOnlyAfterCompletion
  BY DEF Inv, SuccessIsEarned, SucceededOnlyAfterCompletion
<1> QED
  BY <1>1, Invariance, PTL

\* ensureRelease makes a Release only of a build that completed.
THEOREM ReleaseMeansCompletion == Spec => []ReleaseOnlyAfterCompletion
<1>1. Inv => ReleaseOnlyAfterCompletion
  BY DEF Inv, SuccessIsEarned, ReleaseOnlyAfterCompletion
<1> QED
  BY <1>1, Invariance, PTL

\* EnsureRun never creates a second Job while one exists: every Job created but
\* the present one was deleted, however the caches lag and whatever restarts.
THEOREM JobsAreOnlyReplaced == Spec => []JobsReplaceDeletedJobs
<1>1. Inv => JobsReplaceDeletedJobs
  BY DEF Inv
<1> QED
  BY <1>1, Invariance, PTL

\* The optimistic lock of cancelBuildRun protects an outcome stored meanwhile.
THEOREM CancelKeepsOutcome == Spec => CancelNeverReplacesOutcome
<1>1. Inv /\ [Next]_vars
        => [run'.phase = "Cancelled" /\ run.phase # "Cancelled" => ~IsTerminal(run.phase)]_vars
  BY NextCancel
<1> QED
  BY <1>1, Invariance, PTL DEF Spec, CancelNeverReplacesOutcome

=============================================================================
