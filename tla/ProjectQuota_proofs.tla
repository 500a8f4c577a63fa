------------------------ MODULE ProjectQuota_proofs ------------------------
(***************************************************************************)
(* For any number of BuildRuns, of workers and of slots, with a limit on   *)
(* the queue or none, creations in one second, Jobs that show late, lists  *)
(* that lag and writes that are out of date: the workloads beyond the      *)
(* quota are those that escaped the list, and no others.                   *)
(*                                                                         *)
(* The quota itself is not inductive: it is the ranking that keeps slots   *)
(* apart.  Inv says of the BuildRuns that hold a slot and did not escape   *)
(* the list: even with every waiting BuildRun that ranks before one of     *)
(* them they are no more than the slots (SlotsHold).                       *)
(***************************************************************************)
EXTENDS ProjectQuota, TLAPS, FiniteSetTheorems

Exited(b) == runner[b].stage = "exited"

Escaped == lost \cup overtaken

\* The BuildRuns that have a workload, or were told that they may, and that the
\* list holds.
Holding == {b \in Granted \ Escaped : ~Exited(b) /\ ~IsTerminal(cache[b].phase)}

\* The slots of the list that are taken, or go before one that is.
Counted == {c \in Listed \ Escaped : ~Exited(c) /\ (c \in Active \/ \E b \in Holding : c <= b)}

SlotsHold == Cardinality(Counted) <= MaxConcurrent

IsCreated(status) == status.phase # "NotCreated"

\* What a status of a BuildRun means, wherever it is kept.
Means(status, started) ==
  /\ status.jobRef \/ status.phase = "Running" => started
  /\ status.jobRef => status.phase \notin {"Unset", "Pending", "NotCreated"}

StatusesMean ==
  \A b \in Runs :
    /\ Means(run[b], job[b] # "none")
    /\ Means(cache[b], job[b] # "none")
    /\ Means(ctl[b].copy, job[b] # "none")
    /\ Means(runner[b].copy, job[b] # "none")

\* Work is done on BuildRuns the controller has seen, and in the order of the
\* Job's life.
WorkIsSeen ==
  \A b \in Runs :
    /\ IsCreated(cache[b]) => IsCreated(run[b])
    /\ ctl[b].step # "idle" \/ job[b] # "none" => IsCreated(cache[b])
    /\ ctl[b].step # "idle" => IsCreated(ctl[b].copy)
    /\ ctl[b].step = "read" => job[b] # "none"
    /\ job[b] \in {"none", "pending"} => runner[b].stage = "none"

\* A workload the list shows as ended is lost.
LostIsRecorded == \A b \in Working : IsTerminal(cache[b].phase) => b \in lost

\* A slot is granted on a list that holds the BuildRun: where it has ended
\* before its Job exists, it has ended in the API server too.
GrantIsListed ==
  \A b \in Runs :
    ctl[b].step = "ensure" /\ job[b] = "none" /\ IsTerminal(cache[b].phase) => IsTerminal(run[b].phase)

Inv ==
  /\ TypeOK
  /\ StatusesMean
  /\ WorkIsSeen
  /\ LostIsRecorded
  /\ GrantIsListed
  /\ SlotsHold

-----------------------------------------------------------------------------
(***************************************************************************)
(* The list.                                                               *)
(***************************************************************************)

LEMMA RunsFacts == N \in Nat /\ IsFiniteSet(Runs) /\ \A b \in Runs : b \in Nat
BY ConstantsAssumption, FS_Interval DEF Runs

LEMMA Subsets ==
  ASSUME NEW S \in SUBSET Runs
  PROVE  IsFiniteSet(S) /\ Cardinality(S) \in Nat
BY RunsFacts, FS_Subset, FS_CardinalityType

LEMMA ListFacts ==
  /\ Listed \subseteq Runs /\ Active \subseteq Listed /\ Waiting \subseteq Listed \ Active
  /\ Counted \subseteq Listed /\ Holding \subseteq Granted /\ Granted \subseteq Runs
BY DEF Listed, Active, Waiting, Counted, Holding, Granted

\* A BuildRun that is listed is active or waits.
LEMMA ListIsDivided == ASSUME Inv PROVE Listed = Active \cup Waiting
<1> SUFFICES ASSUME NEW b \in Listed, b \notin Active PROVE b \in Waiting
  BY ListFacts
<1>1. /\ b \in Runs /\ cache[b].phase \in Phases \cup {"NotCreated"} /\ cache[b].phase # "NotCreated"
      /\ ~IsTerminal(cache[b].phase)
  BY DEF Inv, TypeOK, QuotaStatuses, Listed
<1>2. cache[b].jobRef => cache[b].phase \notin {"Unset", "Pending", "NotCreated"}
  BY <1>1 DEF Inv, StatusesMean, Means
<1> QED
  BY <1>1, <1>2 DEF Waiting, Active, IsTerminal, Phases

\* Who holds a slot is listed.
LEMMA HoldersAreListed == ASSUME Inv PROVE Holding \subseteq Listed
<1> SUFFICES ASSUME NEW b \in Holding PROVE b \in Listed
  OBVIOUS
<1>1. b \in Runs /\ ~IsTerminal(cache[b].phase) /\ (job[b] # "none" \/ ctl[b].step = "ensure")
  BY DEF Holding, Granted
<1>2. IsCreated(cache[b])
  BY <1>1 DEF Inv, WorkIsSeen
<1> QED
  BY <1>1, <1>2 DEF Listed, IsCreated

\* What is counted of a smaller list, or for fewer holders, is no more.
LEMMA CountedShrinks ==
  ASSUME Inv, Counted' \subseteq Counted
  PROVE  SlotsHold'
<1>1. Counted \subseteq Runs
  BY ListFacts
<1>2. IsFiniteSet(Counted) /\ Cardinality(Counted) \in Nat
  BY <1>1, Subsets
<1>3. PICK S : S = Counted'
  OBVIOUS
<1>4. Cardinality(S) <= Cardinality(Counted) /\ Cardinality(S) \in Nat
  BY <1>2, <1>3, FS_Subset, FS_CardinalityType
<1> QED
  BY <1>2, <1>3, <1>4, ConstantsAssumption DEF Inv, SlotsHold

\* A rank within the slots that are left has room.
LEMMA RankHasRoom ==
  ASSUME NEW b \in Runs, Rank(b) >= 0, Rank(b) < Available
  PROVE  /\ b \in Waiting
         /\ \A S \in SUBSET (Active \cup {c \in Waiting : c < b} \cup {b}) :
              Cardinality(S) <= MaxConcurrent
<1> DEFINE before == {c \in Waiting : c < b}
<1>1. b \in Waiting
  BY DEF Rank
<1>2. Rank(b) = Cardinality(before)
  BY <1>1 DEF Rank
<1>3. Active \in SUBSET Runs /\ before \in SUBSET Runs /\ Active \cap before = {}
  BY ListFacts
<1>4. IsFiniteSet(Active) /\ Cardinality(Active) \in Nat /\ IsFiniteSet(before) /\ Cardinality(before) \in Nat
  BY <1>3, Subsets
<1> HIDE DEF before
<1>5. Cardinality(before) < MaxConcurrent - Cardinality(Active)
  BY <1>2, <1>4, ConstantsAssumption DEF Available
<1>6. PICK T : T = Active \cup before
  OBVIOUS
<1>7. IsFiniteSet(T) /\ Cardinality(T) = Cardinality(Active) + Cardinality(before)
  <2>1. Cardinality(Active \cap before) = 0
    BY <1>3, FS_EmptySet
  <2>2. /\ IsFiniteSet(Active \cup before)
        /\ Cardinality(Active \cup before) =
             Cardinality(Active) + Cardinality(before) - Cardinality(Active \cap before)
    BY <1>4, FS_Union
  <2> QED
    BY <1>4, <1>6, <2>1, <2>2
<1>8. IsFiniteSet(T \cup {b}) /\ Cardinality(T \cup {b}) <= Cardinality(T) + 1
  <2>1. Cardinality(T) \in Nat
    BY <1>7, FS_CardinalityType
  <2>2. /\ IsFiniteSet(T \cup {b})
        /\ \/ Cardinality(T \cup {b}) = Cardinality(T)
           \/ Cardinality(T \cup {b}) = Cardinality(T) + 1
    BY <1>7, FS_AddElement
  <2> QED
    BY <2>1, <2>2
<1>9. ASSUME NEW S \in SUBSET (T \cup {b}) PROVE Cardinality(S) <= MaxConcurrent
  <2>1. Cardinality(S) <= Cardinality(T \cup {b}) /\ Cardinality(S) \in Nat
    BY <1>8, <1>9, FS_Subset, FS_CardinalityType
  <2>2. Cardinality(T \cup {b}) \in Nat
    BY <1>8, FS_CardinalityType
  <2> QED
    BY <1>4, <1>5, <1>7, <1>8, <2>1, <2>2, ConstantsAssumption
<1> QED
  BY <1>1, <1>6, <1>9 DEF before

-----------------------------------------------------------------------------
(***************************************************************************)
(* The steps.                                                              *)
(***************************************************************************)

\* What the history says after every step.
LEMMA RecordFacts ==
  ASSUME TypeOK, Record
  PROVE  /\ lost' \subseteq Runs /\ overtaken' \subseteq Runs /\ Escaped \subseteq Escaped'
         /\ LostIsRecorded'
         /\ \A c \in Granted : (\E b \in Listed' \ Listed : b < c) => c \in Escaped'
<1>1. lost' = lost \cup {b \in Working' : IsTerminal(cache'[b].phase)}
  BY DEF Record
<1>2. overtaken' = overtaken \cup {c \in Granted : \E b \in Listed' \ Listed : b < c}
  BY DEF Record
<1>3. Working' \subseteq Runs /\ Granted \subseteq Runs
  BY DEF Working, Granted
<1>4. LostIsRecorded'
  BY <1>1 DEF LostIsRecorded
<1> QED
  BY <1>1, <1>2, <1>3, <1>4 DEF TypeOK, Escaped

\* With the same list, and no new holder, nothing more is counted.
LEMMA SlotsStay ==
  ASSUME Inv, Record, UNCHANGED cache, Granted' \subseteq Granted, \A c \in Runs : Exited(c) => Exited(c)'
  PROVE  SlotsHold'
<1>1. Listed' = Listed /\ Active' = Active
  BY DEF Listed, Active
<1>2. Escaped \subseteq Escaped'
  BY RecordFacts DEF Inv
<1>3. Holding' \subseteq Holding
  BY <1>2, ListFacts DEF Holding
<1>4. Counted' \subseteq Counted
  BY <1>1, <1>2, <1>3, ListFacts DEF Counted
<1> QED
  BY <1>4, CountedShrinks

LEMMA InitInv == Init => Inv
<1> SUFFICES ASSUME Init PROVE Inv
  OBVIOUS
<1>1. PICK k \in 0 .. MaxConcurrent : k = load.running
  BY ConstantsAssumption DEF Init, Circumstances
<1>2. /\ NotCreated \in QuotaStatuses /\ NotCreated.phase = "NotCreated" /\ NotCreated.jobRef = FALSE
      /\ Running \in QuotaStatuses /\ Running.phase = "Running" /\ Running.jobRef = TRUE
  BY DEF NotCreated, Running, QuotaStatuses, Phases
<1>3. \A b \in Runs :
        /\ run[b] = (IF b <= k THEN Running ELSE NotCreated) /\ cache[b] = run[b]
        /\ job[b] = (IF b <= k THEN "active" ELSE "none")
        /\ ctl[b].step = "idle" /\ ctl[b].copy = NotCreated
        /\ runner[b] = (IF b <= k THEN [stage |-> "started", copy |-> Running] ELSE NoRunner)
  BY <1>1 DEF Init, Idle
<1>4. \A b \in Runs : /\ runner[b].stage = (IF b <= k THEN "started" ELSE "none")
                      /\ runner[b].copy = (IF b <= k THEN Running ELSE NotCreated)
  BY <1>3 DEF NoRunner
<1>5. TypeOK
  <2>1. /\ run \in [Runs -> QuotaStatuses] /\ cache \in [Runs -> QuotaStatuses]
    BY <1>2 DEF Init
  <2>2. ctl \in [Runs -> [step : {"idle", "decide", "ensure", "read", "persist"}, copy : QuotaStatuses]]
    BY <1>2 DEF Init, Idle
  <2>3. job \in [Runs -> {"none", "pending", "active", "finished"}] /\ jobSeen \subseteq Runs
    BY DEF Init
  <2>4. runner \in [Runs -> [stage : {"none", "scheduled", "loaded", "started", "exited"}, copy : QuotaStatuses]]
    BY <1>2 DEF Init, NoRunner
  <2> QED
    BY <2>1, <2>2, <2>3, <2>4 DEF Init, TypeOK
<1>6. StatusesMean
  BY <1>2, <1>3, <1>4 DEF StatusesMean, Means
<1>7. WorkIsSeen
  BY <1>2, <1>3, <1>4 DEF WorkIsSeen, IsCreated
<1>8. \A b \in Runs : ~IsTerminal(cache[b].phase)
  BY <1>2, <1>3 DEF IsTerminal
<1>9. LostIsRecorded /\ GrantIsListed
  BY <1>8 DEF LostIsRecorded, GrantIsListed, Working
<1>10. Counted \subseteq 1 .. k
  <2> SUFFICES ASSUME NEW c \in Counted PROVE c \in 1 .. k
    OBVIOUS
  <2>1. c \in Runs /\ c \in Listed
    BY ListFacts
  <2>2. c <= k
    BY <1>2, <1>3, <2>1 DEF Listed
  <2> QED
    BY <2>1, <2>2, ConstantsAssumption DEF Runs
<1>11. IsFiniteSet(1 .. k) /\ Cardinality(1 .. k) = k
  <2>1. k \in Int /\ 1 \in Int /\ k >= 0
    BY ConstantsAssumption
  <2>2. /\ IsFiniteSet(1 .. k)
        /\ Cardinality(1 .. k) = IF 1 > k THEN 0 ELSE k - 1 + 1
    BY <2>1, FS_Interval
  <2> QED
    BY <2>1, <2>2
<1>12. Cardinality(Counted) <= k /\ Cardinality(Counted) \in Nat
  BY <1>10, <1>11, FS_Subset, FS_CardinalityType
<1>13. SlotsHold
  BY <1>1, <1>12, ConstantsAssumption DEF SlotsHold
<1> QED
  BY <1>5, <1>6, <1>7, <1>9, <1>13 DEF Inv

LEMMA StatusFacts ==
  ASSUME NEW status \in QuotaStatuses, NEW phase \in Phases
  PROVE  /\ WithPhase(status, phase) \in QuotaStatuses /\ WithJob(status, phase) \in QuotaStatuses
         /\ WithPhase(status, phase).phase = phase /\ WithPhase(status, phase).jobRef = status.jobRef
         /\ WithJob(status, phase).phase = phase /\ WithJob(status, phase).jobRef = TRUE
BY DEF QuotaStatuses, WithPhase, WithJob

LEMMA CreateStep ==
  ASSUME Inv, NEW b \in Runs, Create(b), Record, UNCHANGED load
  PROVE  Inv'
<1>1. /\ run' = [run EXCEPT ![b] = Created] /\ current' = current \ {b} /\ run[b] = NotCreated
      /\ UNCHANGED <<load, cache, ctl, job, jobSeen, runner>>
  BY DEF Create, Store
<1>2. /\ Created \in QuotaStatuses /\ Created.phase = "Unset" /\ Created.jobRef = FALSE
      /\ NotCreated.phase = "NotCreated"
  BY DEF Created, NotCreated, QuotaStatuses, Phases
<1>3. TypeOK'
  BY <1>1, <1>2, RecordFacts DEF Inv, TypeOK
<1>4. run'[b] = Created /\ \A c \in Runs \ {b} : run'[c] = run[c]
  BY <1>1 DEF Inv, TypeOK
<1>5. StatusesMean'
  BY <1>1, <1>2, <1>4 DEF Inv, StatusesMean, Means
<1>6. WorkIsSeen'
  BY <1>1, <1>2, <1>4 DEF Inv, WorkIsSeen, IsCreated
<1>7. ctl[b].step # "ensure"
  BY <1>1, <1>2 DEF Inv, WorkIsSeen, IsCreated
<1>8. GrantIsListed'
  BY <1>1, <1>4, <1>7 DEF Inv, GrantIsListed
<1>9. SlotsHold'
  BY <1>1, SlotsStay DEF Granted, Exited
<1> QED
  BY <1>3, <1>5, <1>6, <1>8, <1>9, RecordFacts DEF Inv

\* A step of the controller that changes nothing but its own reconcile of b.
LEMMA ControllerStep ==
  ASSUME Inv, NEW b \in Runs, NEW step \in {"idle", "decide", "ensure", "read", "persist"},
         NEW copy \in QuotaStatuses, ctl' = [ctl EXCEPT ![b] = [step |-> step, copy |-> copy]],
         UNCHANGED <<load, run, cache, job, jobSeen, runner>>, current' \subseteq Runs, Record,
         Means(copy, job[b] # "none"),
         step # "idle" => IsCreated(cache[b]) /\ IsCreated(copy),
         step = "read" => job[b] # "none",
         step = "ensure" => job[b] # "none" \/ (Rank(b) >= 0 /\ Rank(b) < Available)
  PROVE  Inv'
<1>1. /\ ctl'[b].step = step /\ ctl'[b].copy = copy
      /\ \A c \in Runs \ {b} : ctl'[c] = ctl[c]
  BY DEF Inv, TypeOK
<1>2. TypeOK'
  BY RecordFacts DEF Inv, TypeOK
<1>3. StatusesMean'
  BY <1>1 DEF Inv, StatusesMean, Means
<1>4. WorkIsSeen'
  BY <1>1 DEF Inv, WorkIsSeen, IsCreated
<1>5. Listed' = Listed /\ Active' = Active /\ Escaped \subseteq Escaped' /\ LostIsRecorded'
  BY RecordFacts DEF Inv, Listed, Active
<1>6. \A c \in Runs : Exited(c)' <=> Exited(c)
  BY DEF Exited
<1>7. CASE step = "ensure" /\ job[b] = "none"
  <2>1. /\ b \in Waiting
        /\ \A S \in SUBSET (Active \cup {c \in Waiting : c < b} \cup {b}) :
             Cardinality(S) <= MaxConcurrent
    BY <1>7, RankHasRoom
  <2>2. ~IsTerminal(cache[b].phase)
    BY <2>1 DEF Waiting, Listed
  <2>3. GrantIsListed'
    BY <1>1, <2>2 DEF Inv, GrantIsListed
  <2>4. Granted' \subseteq Granted \cup {b}
    BY <1>1 DEF Granted
  <2>5. Holding' \subseteq Holding \cup {b}
    BY <1>5, <1>6, <2>4, ListFacts DEF Holding
  <2>6. CASE \E h \in Holding : b <= h
    <3>1. \A c \in Runs : (\E h \in Holding' : c <= h) => \E h \in Holding : c <= h
      BY <2>5, <2>6, RunsFacts, ListFacts
    <3>2. Counted' \subseteq Counted
      BY <1>5, <1>6, <3>1, ListFacts DEF Counted
    <3> QED
      BY <1>2, <1>3, <1>4, <1>5, <2>3, <3>2, CountedShrinks DEF Inv
  <2>7. CASE ~\E h \in Holding : b <= h
    <3>1. \A c \in Runs : (\E h \in Holding' : c <= h) => c < b \/ c = b
      BY <2>5, <2>7, RunsFacts, ListFacts
    <3>2. Counted' \subseteq Active \cup {c \in Waiting : c < b} \cup {b}
      BY <1>5, <3>1, ListIsDivided, ListFacts DEF Counted
    <3>3. SlotsHold'
      BY <2>1, <3>2 DEF SlotsHold
    <3> QED
      BY <1>2, <1>3, <1>4, <1>5, <2>3, <3>3 DEF Inv
  <2> QED
    BY <2>6, <2>7
<1>8. CASE ~(step = "ensure" /\ job[b] = "none")
  <2>1. Granted' \subseteq Granted
    BY <1>1, <1>8 DEF Granted
  <2>2. GrantIsListed'
    BY <1>1, <1>8 DEF Inv, GrantIsListed
  <2> QED
    BY <1>2, <1>3, <1>4, <1>5, <1>6, <2>1, <2>2, SlotsStay DEF Inv
<1> QED
  BY <1>7, <1>8

\* The verdict on a copy that means what statuses mean.
LEMMA VerdictStep ==
  ASSUME Inv, NEW b \in Runs, NEW copy \in QuotaStatuses, Verdict(b, copy), Record,
         UNCHANGED <<load, run, cache, job, jobSeen, runner>>, current' \subseteq Runs,
         Means(copy, job[b] # "none"), IsCreated(copy), IsCreated(cache[b])
  PROVE  Inv'
<1>1. CASE Admitted(b, copy)
  <2>1. ctl' = [ctl EXCEPT ![b] = [step |-> "ensure", copy |-> copy]]
    BY <1>1 DEF Verdict, Then, Denied
  <2>2. job[b] # "none" \/ (Rank(b) >= 0 /\ Rank(b) < Available)
    BY <1>1 DEF Admitted, Means
  <2> QED
    BY <2>1, <2>2, ControllerStep
<1>2. CASE ~Admitted(b, copy)
  <2>1. PICK phase \in {"Queued", "Failed"} :
          ctl' = [ctl EXCEPT ![b] = [step |-> "persist", copy |-> WithPhase(copy, phase)]]
    BY <1>2 DEF Verdict, Then, Denied
  <2>2. PICK next : next = WithPhase(copy, phase)
    OBVIOUS
  <2>3. next \in QuotaStatuses /\ next.phase = phase /\ next.jobRef = copy.jobRef
    <3>1. phase \in Phases
      BY DEF Phases
    <3> QED
      BY <2>2, <3>1, StatusFacts
  <2>4. Means(next, job[b] # "none") /\ IsCreated(next)
    BY <2>1, <2>3 DEF Means, IsCreated
  <2> QED
    BY <2>1, <2>2, <2>3, <2>4, ControllerStep
<1> QED
  BY <1>1, <1>2

LEMMA BeginStep ==
  ASSUME Inv, NEW b \in Runs, Begin(b), Record, UNCHANGED load
  PROVE  Inv'
<1>1. /\ UNCHANGED <<load, run, cache, job, jobSeen, runner>> /\ current' \subseteq current /\ b \in Listed
  BY DEF Begin
<1>2. PICK copy \in QuotaStatuses : copy = cache[b]
  BY DEF Inv, TypeOK
<1>3. /\ Means(copy, job[b] # "none") /\ IsCreated(copy) /\ IsCreated(cache[b])
      /\ current' \subseteq Runs
  BY <1>1, <1>2 DEF Inv, TypeOK, StatusesMean, Listed, IsCreated
<1>4. CASE load.ahead
  <2>1. ctl' = [ctl EXCEPT ![b] = [step |-> "decide", copy |-> copy]]
    BY <1>2, <1>4 DEF Begin, Then
  <2> QED
    BY <1>1, <1>3, <2>1, ControllerStep
<1>5. CASE ~load.ahead
  <2>1. Verdict(b, copy)
    BY <1>2, <1>5 DEF Begin
  <2> QED
    BY <1>1, <1>3, <2>1, VerdictStep
<1> QED
  BY <1>4, <1>5

LEMMA DecideStep ==
  ASSUME Inv, NEW b \in Runs, Decide(b), Record, UNCHANGED load
  PROVE  Inv'
<1>1. /\ UNCHANGED <<load, run, cache, current, job, jobSeen, runner>> /\ ctl[b].step = "decide"
  BY DEF Decide
<1>2. PICK copy \in QuotaStatuses : copy = ctl[b].copy
  BY DEF Inv, TypeOK
<1>3. /\ Means(copy, job[b] # "none") /\ IsCreated(copy) /\ IsCreated(cache[b])
      /\ current' \subseteq Runs
  BY <1>1, <1>2 DEF Inv, TypeOK, StatusesMean, WorkIsSeen
<1>4. Verdict(b, copy)
  BY <1>2 DEF Decide
<1> QED
  BY <1>1, <1>3, <1>4, VerdictStep

LEMMA EnsureRunStep ==
  ASSUME Inv, NEW b \in Runs, EnsureRun(b), Record, UNCHANGED load
  PROVE  Inv'
<1>1. /\ UNCHANGED <<load, run, cache, current, jobSeen, runner>> /\ ctl[b].step = "ensure"
      /\ job' = [job EXCEPT ![b] = IF @ = "none" THEN "pending" ELSE @]
  BY DEF EnsureRun
<1>2. /\ job'[b] # "none" /\ (job[b] # "none" => job'[b] = job[b])
      /\ (job[b] = "none" => job'[b] = "pending")
      /\ \A c \in Runs \ {b} : job'[c] = job[c]
      /\ job' \in [Runs -> {"none", "pending", "active", "finished"}]
  BY <1>1 DEF Inv, TypeOK
<1>3. PICK copy \in QuotaStatuses : copy = ctl[b].copy
  BY DEF Inv, TypeOK
<1>4. PICK step \in {"read", "persist"}, next \in QuotaStatuses :
        /\ ctl' = [ctl EXCEPT ![b] = [step |-> step, copy |-> next]]
        /\ IsCreated(next) /\ Means(next, TRUE)
  <2>1. Means(copy, job[b] # "none") /\ IsCreated(copy)
    BY <1>1, <1>3 DEF Inv, StatusesMean, WorkIsSeen
  <2>2. CASE copy.phase \in {"Unset", "Pending"}
    <3>1. PICK next : next = WithJob(copy, "Queued")
      OBVIOUS
    <3>2. next \in QuotaStatuses /\ next.phase = "Queued" /\ next.jobRef = TRUE
      BY <3>1, StatusFacts DEF Phases
    <3>3. ctl' = [ctl EXCEPT ![b] = [step |-> "persist", copy |-> next]]
      BY <1>3, <2>2, <3>1 DEF EnsureRun, Then
    <3> QED
      BY <3>2, <3>3 DEF IsCreated, Means
  <2>3. CASE copy.phase \notin {"Unset", "Pending"}
    <3>1. ctl' = [ctl EXCEPT ![b] = [step |-> "read", copy |-> copy]]
      BY <1>3, <2>3 DEF EnsureRun, Then
    <3>2. Means(copy, TRUE)
      BY <2>1 DEF Means
    <3> QED
      BY <2>1, <3>1, <3>2
  <2> QED
    BY <2>2, <2>3
<1>5. ctl'[b].step = step /\ ctl'[b].copy = next /\ \A c \in Runs \ {b} : ctl'[c] = ctl[c]
  BY <1>4 DEF Inv, TypeOK
<1>6. TypeOK'
  BY <1>1, <1>2, <1>4, RecordFacts DEF Inv, TypeOK
<1>7. StatusesMean'
  BY <1>1, <1>2, <1>4, <1>5 DEF Inv, StatusesMean, Means
<1>8. WorkIsSeen'
  BY <1>1, <1>2, <1>4, <1>5 DEF Inv, WorkIsSeen, IsCreated
<1>9. GrantIsListed'
  BY <1>1, <1>2, <1>5 DEF Inv, GrantIsListed
<1>10. Granted' \subseteq Granted
  BY <1>1, <1>2, <1>5 DEF Granted
<1>11. SlotsHold'
  BY <1>1, <1>10, SlotsStay DEF Exited
<1> QED
  BY <1>6, <1>7, <1>8, <1>9, <1>11, RecordFacts DEF Inv

LEMMA ReadRunStatusStep ==
  ASSUME Inv, NEW b \in Runs, ReadRunStatus(b), Record, UNCHANGED load
  PROVE  Inv'
<1>1. /\ UNCHANGED <<load, run, cache, current, job, jobSeen, runner>> /\ ctl[b].step = "read"
      /\ current' \subseteq Runs
  BY DEF ReadRunStatus, Inv, TypeOK
<1>2. PICK copy \in QuotaStatuses : copy = ctl[b].copy
  BY DEF Inv, TypeOK
<1>3. IsCreated(copy) /\ IsCreated(cache[b]) /\ job[b] # "none"
  BY <1>1, <1>2 DEF Inv, WorkIsSeen
<1>4. CASE ctl' = [ctl EXCEPT ![b] = Idle]
  <2>1. ctl' = [ctl EXCEPT ![b] = [step |-> "idle", copy |-> NotCreated]]
    BY <1>4 DEF Idle
  <2>2. NotCreated \in QuotaStatuses /\ NotCreated.phase = "NotCreated" /\ NotCreated.jobRef = FALSE
    BY DEF NotCreated, QuotaStatuses
  <2>3. Means(NotCreated, job[b] # "none")
    BY <2>2 DEF Means
  <2> QED
    BY <1>1, <2>1, <2>2, <2>3, ControllerStep
<1>5. CASE ctl' = [ctl EXCEPT ![b] = [step |-> "persist", copy |-> WithPhase(copy, "Failed")]]
  <2>1. PICK next : next = WithPhase(copy, "Failed")
    OBVIOUS
  <2>2. next \in QuotaStatuses /\ next.phase = "Failed"
    BY <2>1, StatusFacts DEF Phases
  <2>3. Means(next, job[b] # "none") /\ IsCreated(next)
    BY <1>3, <2>2 DEF Means, IsCreated
  <2> QED
    BY <1>1, <1>3, <1>5, <2>1, <2>2, <2>3, ControllerStep
<1>6. CASE ctl' = [ctl EXCEPT ![b] = [step |-> "persist", copy |-> WithJob(copy, RunPhase(job[b]))]]
  <2>1. PICK next : next = WithJob(copy, RunPhase(job[b]))
    OBVIOUS
  <2>2. RunPhase(job[b]) \in Phases /\ RunPhase(job[b]) \in {"Running", "Succeeded"}
    BY DEF RunPhase, Phases
  <2>3. next \in QuotaStatuses /\ next.phase = RunPhase(job[b])
    BY <2>1, <2>2, StatusFacts
  <2>4. Means(next, job[b] # "none") /\ IsCreated(next)
    BY <1>3, <2>2, <2>3 DEF Means, IsCreated
  <2> QED
    BY <1>1, <1>3, <1>6, <2>1, <2>3, <2>4, ControllerStep
<1> QED
  BY <1>2, <1>4, <1>5, <1>6 DEF ReadRunStatus, Then

LEMMA PersistStep ==
  ASSUME Inv, NEW b \in Runs, Persist(b), Record, UNCHANGED load
  PROVE  Inv'
<1>1. /\ UNCHANGED <<load, cache, job, jobSeen, runner>> /\ ctl[b].step = "persist"
      /\ ctl' = [ctl EXCEPT ![b] = Idle] /\ current' \subseteq current
      /\ run' = run \/ run' = [run EXCEPT ![b] = ctl[b].copy]
  BY DEF Persist, Store
<1>2. /\ Idle.step = "idle" /\ Idle.copy = NotCreated /\ NotCreated \in QuotaStatuses
      /\ NotCreated.phase = "NotCreated" /\ NotCreated.jobRef = FALSE
      /\ Idle \in [step : {"idle", "decide", "ensure", "read", "persist"}, copy : QuotaStatuses]
  BY DEF Idle, NotCreated, QuotaStatuses
<1>3. ctl'[b] = Idle /\ \A c \in Runs \ {b} : ctl'[c] = ctl[c] /\ run'[c] = run[c]
  BY <1>1 DEF Inv, TypeOK
<1>4. /\ run'[b] \in {run[b], ctl[b].copy} /\ IsCreated(ctl[b].copy) /\ IsCreated(cache[b])
      /\ ctl[b].copy \in QuotaStatuses
  BY <1>1 DEF Inv, TypeOK, WorkIsSeen
<1>5. TypeOK'
  BY <1>1, <1>2, <1>4, RecordFacts DEF Inv, TypeOK
<1>6. StatusesMean'
  BY <1>1, <1>2, <1>3, <1>4 DEF Inv, StatusesMean, Means
<1>7. \A c \in Runs : IsCreated(run[c])' <=> IsCreated(run[c])
  BY <1>3, <1>4 DEF Inv, WorkIsSeen, IsCreated
<1>8. WorkIsSeen'
  BY <1>1, <1>2, <1>3, <1>7 DEF Inv, WorkIsSeen, IsCreated
<1>9. GrantIsListed'
  BY <1>1, <1>2, <1>3 DEF Inv, GrantIsListed
<1>10. Granted' \subseteq Granted
  BY <1>1, <1>2, <1>3 DEF Granted
<1>11. SlotsHold'
  BY <1>1, <1>10, SlotsStay DEF Exited
<1> QED
  BY <1>5, <1>6, <1>8, <1>9, <1>11, RecordFacts DEF Inv

\* What the cache learns of a BuildRun counts nobody who was not counted: one
\* that has become active held its slot, and those that hold a slot behind one
\* that is new to the list are overtaken.
LEMMA SyncRunStep ==
  ASSUME Inv, NEW b \in Runs, SyncRun(b), Record, UNCHANGED load
  PROVE  Inv'
<1>1. /\ UNCHANGED <<load, run, ctl, job, jobSeen, runner>>
      /\ cache' = [cache EXCEPT ![b] = run[b]] /\ current' = current \cup {b}
  BY DEF SyncRun
<1>2. cache'[b] = run[b] /\ \A c \in Runs \ {b} : cache'[c] = cache[c]
  BY <1>1 DEF Inv, TypeOK
<1>3. TypeOK'
  BY <1>1, RecordFacts DEF Inv, TypeOK
<1>4. StatusesMean'
  BY <1>1, <1>2 DEF Inv, StatusesMean, Means
<1>5. IsCreated(cache[b]) => IsCreated(run[b])
  BY DEF Inv, WorkIsSeen
<1>6. WorkIsSeen'
  BY <1>1, <1>2, <1>5 DEF Inv, WorkIsSeen, IsCreated
<1>7. GrantIsListed'
  BY <1>1, <1>2 DEF Inv, GrantIsListed
<1>8. /\ Escaped \subseteq Escaped' /\ LostIsRecorded'
      /\ \A c \in Granted : (\E d \in Listed' \ Listed : d < c) => c \in Escaped'
  BY RecordFacts DEF Inv
<1>9. Granted' = Granted /\ \A c \in Runs : Exited(c)' <=> Exited(c)
  BY <1>1 DEF Granted, Exited
<1>10. \A c \in Runs \ {b} : (c \in Listed' <=> c \in Listed) /\ (c \in Active' <=> c \in Active)
  BY <1>2 DEF Listed, Active
<1>11. ASSUME b \in Granted, ~Exited(b), b \notin Escaped, ~IsTerminal(run[b].phase)
       PROVE  b \in Holding
  <2>1. CASE job[b] # "none"
    <3>1. b \in Working
      BY <1>11, <2>1 DEF Working, Exited
    <3>2. ~IsTerminal(cache[b].phase)
      BY <1>11, <3>1 DEF Inv, LostIsRecorded, Escaped
    <3> QED
      BY <1>11, <3>2 DEF Holding
  <2>2. CASE job[b] = "none"
    <3>1. ctl[b].step = "ensure"
      BY <1>11, <2>2 DEF Granted
    <3>2. ~IsTerminal(cache[b].phase)
      BY <1>11, <2>2, <3>1 DEF Inv, GrantIsListed
    <3> QED
      BY <1>11, <3>2 DEF Holding
  <2> QED
    BY <2>1, <2>2
<1>12. Holding' \subseteq Holding
  <2> SUFFICES ASSUME NEW h \in Holding' PROVE h \in Holding
    OBVIOUS
  <2>1. h \in Runs /\ h \in Granted /\ ~Exited(h) /\ h \notin Escaped /\ ~IsTerminal(cache'[h].phase)
    BY <1>8, <1>9, ListFacts DEF Holding
  <2>2. CASE h = b
    BY <1>2, <1>11, <2>1, <2>2
  <2>3. CASE h # b
    BY <1>2, <2>1, <2>3 DEF Holding
  <2> QED
    BY <2>2, <2>3
<1>13. b \in Counted' => b \in Counted
  <2> SUFFICES ASSUME b \in Counted' PROVE b \in Counted
    OBVIOUS
  <2>1. /\ b \in Listed' /\ ~Exited(b) /\ b \notin Escaped
        /\ b \in Active' \/ \E h \in Holding' : b <= h
    BY <1>8, <1>9 DEF Counted
  <2>2. CASE b \in Active'
    <3>1. job[b] # "none" /\ ~IsTerminal(run[b].phase)
      BY <1>2, <2>1, <2>2 DEF Active, Listed, Inv, StatusesMean, Means
    <3>2. b \in Holding
      BY <1>11, <2>1, <3>1 DEF Granted
    <3>3. b \in Listed /\ b <= b
      BY <3>2, HoldersAreListed, RunsFacts
    <3> QED
      BY <2>1, <3>2, <3>3 DEF Counted
  <2>3. ASSUME NEW h \in Holding', b <= h PROVE b \in Counted
    <3>1. h \in Holding /\ h \in Runs /\ h \in Granted /\ h \notin Escaped' /\ h \in Listed
      BY <1>12, <2>3, ListFacts, HoldersAreListed DEF Holding
    <3>2. CASE b \in Listed
      BY <2>1, <2>3, <3>1, <3>2 DEF Counted
    <3>3. CASE b \notin Listed
      <4>1. b < h
        BY <2>3, <3>1, <3>3, RunsFacts
      <4>2. h \in Escaped'
        BY <1>8, <2>1, <3>1, <3>3, <4>1
      <4> QED
        BY <3>1, <4>2
    <3> QED
      BY <3>2, <3>3
  <2> QED
    BY <2>1, <2>2, <2>3
<1>14. Counted' \subseteq Counted
  <2>1. \A c \in Runs \ {b} : c \in Counted' => c \in Counted
    BY <1>8, <1>9, <1>10, <1>12 DEF Counted
  <2>2. Counted' \subseteq Runs
    BY DEF Counted, Listed
  <2> QED
    BY <1>13, <2>1, <2>2
<1> QED
  BY <1>3, <1>4, <1>6, <1>7, <1>8, <1>14, CountedShrinks DEF Inv

LEMMA SyncJobStep ==
  ASSUME Inv, NEW b \in Runs, SyncJob(b), Record, UNCHANGED load
  PROVE  Inv'
<1>1. UNCHANGED <<load, run, cache, current, ctl, job, runner>> /\ jobSeen' = jobSeen \cup {b}
  BY DEF SyncJob
<1>2. TypeOK'
  BY <1>1, RecordFacts DEF Inv, TypeOK
<1>3. StatusesMean' /\ WorkIsSeen' /\ GrantIsListed'
  BY <1>1 DEF Inv, StatusesMean, Means, WorkIsSeen, IsCreated, GrantIsListed
<1>4. SlotsHold'
  BY <1>1, SlotsStay DEF Granted, Exited
<1> QED
  BY <1>2, <1>3, <1>4, RecordFacts DEF Inv

LEMMA JobStartStep ==
  ASSUME Inv, NEW b \in Runs, JobStart(b), Record, UNCHANGED load
  PROVE  Inv'
<1>1. /\ UNCHANGED <<load, run, cache, current, ctl, jobSeen>> /\ job[b] = "pending"
      /\ job' = [job EXCEPT ![b] = "active"]
      /\ runner' = [runner EXCEPT ![b] = [stage |-> "scheduled", copy |-> NotCreated]]
  BY DEF JobStart, SetRunner
<1>2. /\ job'[b] = "active" /\ \A c \in Runs \ {b} : job'[c] = job[c] /\ runner'[c] = runner[c]
      /\ runner'[b].stage = "scheduled" /\ runner'[b].copy = NotCreated
  BY <1>1 DEF Inv, TypeOK
<1>3. NotCreated \in QuotaStatuses /\ NotCreated.phase = "NotCreated" /\ NotCreated.jobRef = FALSE
  BY DEF NotCreated, QuotaStatuses
<1>4. TypeOK'
  BY <1>1, <1>3, RecordFacts DEF Inv, TypeOK
<1>5. ~Exited(b)
  BY <1>1 DEF Inv, WorkIsSeen, Exited
<1>6. StatusesMean'
  BY <1>1, <1>2, <1>3 DEF Inv, StatusesMean, Means
<1>7. WorkIsSeen'
  BY <1>1, <1>2 DEF Inv, WorkIsSeen, IsCreated
<1>8. GrantIsListed'
  BY <1>1, <1>2 DEF Inv, GrantIsListed
<1>9. Granted' \subseteq Granted /\ \A c \in Runs : Exited(c) => Exited(c)'
  BY <1>1, <1>2, <1>5 DEF Granted, Exited
<1>10. SlotsHold'
  BY <1>1, <1>9, SlotsStay
<1> QED
  BY <1>4, <1>6, <1>7, <1>8, <1>10, RecordFacts DEF Inv

LEMMA JobFinishStep ==
  ASSUME Inv, NEW b \in Runs, JobFinish(b), Record, UNCHANGED load
  PROVE  Inv'
<1>1. /\ UNCHANGED <<load, run, cache, current, ctl, jobSeen, runner>> /\ job[b] = "active"
      /\ job' = [job EXCEPT ![b] = "finished"]
  BY DEF JobFinish
<1>2. job'[b] = "finished" /\ \A c \in Runs \ {b} : job'[c] = job[c]
  BY <1>1 DEF Inv, TypeOK
<1>3. TypeOK'
  BY <1>1, RecordFacts DEF Inv, TypeOK
<1>4. StatusesMean'
  BY <1>1, <1>2 DEF Inv, StatusesMean, Means
<1>5. WorkIsSeen'
  BY <1>1, <1>2 DEF Inv, WorkIsSeen, IsCreated
<1>6. GrantIsListed'
  BY <1>1, <1>2 DEF Inv, GrantIsListed
<1>7. Granted' \subseteq Granted /\ \A c \in Runs : Exited(c) => Exited(c)'
  BY <1>1, <1>2 DEF Granted, Exited
<1>8. SlotsHold'
  BY <1>1, <1>7, SlotsStay
<1> QED
  BY <1>3, <1>4, <1>5, <1>6, <1>8, RecordFacts DEF Inv

\* A step of the runner that stores a status, or none.
LEMMA RunnerStoreStep ==
  ASSUME Inv, NEW b \in Runs, runner[b].stage \notin {"none", "exited"},
         NEW stage \in {"loaded", "started", "exited"}, NEW copy \in QuotaStatuses,
         NEW status \in QuotaStatuses,
         runner' = [runner EXCEPT ![b] = [stage |-> stage, copy |-> copy]],
         run' = [run EXCEPT ![b] = status], current' \subseteq current,
         UNCHANGED <<load, cache, ctl, job, jobSeen>>, Record,
         IsCreated(status), Means(status, TRUE), Means(copy, TRUE)
  PROVE  Inv'
<1>1. /\ \A c \in Runs \ {b} : run'[c] = run[c] /\ runner'[c] = runner[c]
      /\ runner'[b].stage = stage /\ runner'[b].copy = copy /\ run'[b] = status
  BY DEF Inv, TypeOK
<1>2. job[b] \notin {"none", "pending"} /\ ~Exited(b)
  BY DEF Inv, WorkIsSeen, Exited
<1>3. IsCreated(cache[b]) /\ IsCreated(run[b])
  BY <1>2 DEF Inv, WorkIsSeen
<1>4. TypeOK'
  BY RecordFacts DEF Inv, TypeOK
<1>5. StatusesMean'
  BY <1>1, <1>2 DEF Inv, StatusesMean, Means
<1>6. \A c \in Runs : IsCreated(run[c])' <=> IsCreated(run[c])
  BY <1>1, <1>3 DEF IsCreated
<1>7. WorkIsSeen'
  BY <1>1, <1>2, <1>3, <1>6 DEF Inv, WorkIsSeen, IsCreated
<1>8. GrantIsListed'
  BY <1>1, <1>2 DEF Inv, GrantIsListed
<1>9. Granted' \subseteq Granted /\ \A c \in Runs : Exited(c) => Exited(c)'
  BY <1>1, <1>2 DEF Granted, Exited
<1>10. SlotsHold'
  BY <1>9, SlotsStay
<1> QED
  BY <1>4, <1>5, <1>7, <1>8, <1>10, RecordFacts DEF Inv

LEMMA RunnerLoadStep ==
  ASSUME Inv, NEW b \in Runs, RunnerLoad(b), Record, UNCHANGED load
  PROVE  Inv'
<1>1. PICK status \in QuotaStatuses : status = run[b]
  BY DEF Inv, TypeOK
<1>2. /\ UNCHANGED <<load, run, cache, current, ctl, job, jobSeen>> /\ runner[b].stage = "scheduled"
      /\ runner' = [runner EXCEPT ![b] = [stage |-> "loaded", copy |-> status]]
  BY <1>1 DEF RunnerLoad, SetRunner
<1>3. run' = [run EXCEPT ![b] = status] /\ current' \subseteq current
  BY <1>1, <1>2 DEF Inv, TypeOK
<1>4. job[b] # "none"
  BY <1>2 DEF Inv, WorkIsSeen
<1>5. IsCreated(status) /\ Means(status, TRUE)
  BY <1>1, <1>4 DEF Inv, WorkIsSeen, StatusesMean, Means
<1> QED
  BY <1>2, <1>3, <1>5, RunnerStoreStep

LEMMA RunnerStartStep ==
  ASSUME Inv, NEW b \in Runs, RunnerStart(b), Record, UNCHANGED load
  PROVE  Inv'
<1>1. PICK copy \in QuotaStatuses : copy = runner[b].copy
  BY DEF Inv, TypeOK
<1>2. /\ UNCHANGED <<load, cache, ctl, job, jobSeen>> /\ runner[b].stage = "loaded"
  BY DEF RunnerStart
<1>3. job[b] # "none"
  BY <1>2 DEF Inv, WorkIsSeen
<1>4. CASE ValidTransition(runner[b].copy.phase, "Running")
  <2>1. PICK status : status = WithPhase(copy, "Running")
    OBVIOUS
  <2>2. status \in QuotaStatuses /\ status.phase = "Running" /\ status.jobRef = copy.jobRef
    BY <2>1, StatusFacts DEF Phases
  <2>3. /\ run' = [run EXCEPT ![b] = status] /\ current' \subseteq current
        /\ runner' = [runner EXCEPT ![b] = [stage |-> "started", copy |-> status]]
    BY <1>1, <1>4, <2>1 DEF RunnerStart, Store, SetRunner
  <2>4. IsCreated(status) /\ Means(status, TRUE)
    BY <2>2 DEF IsCreated, Means
  <2> QED
    BY <1>2, <2>2, <2>3, <2>4, RunnerStoreStep
<1>5. CASE ~ValidTransition(runner[b].copy.phase, "Running")
  <2>1. PICK status \in QuotaStatuses : status = run[b]
    BY DEF Inv, TypeOK
  <2>2. /\ UNCHANGED <<run, current>>
        /\ runner' = [runner EXCEPT ![b] = [stage |-> "exited", copy |-> NotCreated]]
    BY <1>5 DEF RunnerStart, SetRunner
  <2>3. run' = [run EXCEPT ![b] = status] /\ current' \subseteq current
    BY <2>1, <2>2 DEF Inv, TypeOK
  <2>4. NotCreated \in QuotaStatuses /\ NotCreated.phase = "NotCreated" /\ NotCreated.jobRef = FALSE
    BY DEF NotCreated, QuotaStatuses
  <2>5. Means(NotCreated, TRUE)
    BY <2>4 DEF Means
  <2>6. IsCreated(status) /\ Means(status, TRUE)
    BY <1>3, <2>1 DEF Inv, WorkIsSeen, StatusesMean, Means
  <2> QED
    BY <1>2, <2>2, <2>3, <2>4, <2>5, <2>6, RunnerStoreStep
<1> QED
  BY <1>4, <1>5

LEMMA RunnerFinishStep ==
  ASSUME Inv, NEW b \in Runs, RunnerFinish(b), Record, UNCHANGED load
  PROVE  Inv'
<1>1. PICK copy \in QuotaStatuses : copy = runner[b].copy
  BY DEF Inv, TypeOK
<1>2. PICK status : status = WithPhase(copy, "Succeeded")
  OBVIOUS
<1>3. status \in QuotaStatuses /\ status.phase = "Succeeded" /\ status.jobRef = copy.jobRef
  BY <1>2, StatusFacts DEF Phases
<1>4. /\ UNCHANGED <<load, cache, ctl, job, jobSeen>> /\ runner[b].stage = "started"
      /\ run' = [run EXCEPT ![b] = status] /\ current' \subseteq current
      /\ runner' = [runner EXCEPT ![b] = [stage |-> "exited", copy |-> NotCreated]]
  BY <1>1, <1>2 DEF RunnerFinish, Store, SetRunner
<1>5. NotCreated \in QuotaStatuses /\ NotCreated.phase = "NotCreated" /\ NotCreated.jobRef = FALSE
  BY DEF NotCreated, QuotaStatuses
<1>6. Means(NotCreated, TRUE) /\ IsCreated(status) /\ Means(status, TRUE)
  BY <1>3, <1>5 DEF Means, IsCreated
<1> QED
  BY <1>3, <1>4, <1>5, <1>6, RunnerStoreStep

LEMMA StutterStep == ASSUME Inv, UNCHANGED vars PROVE Inv'
<1>1. UNCHANGED <<load, run, cache, current, ctl, job, jobSeen, runner, lost, overtaken>>
  BY DEF vars, moving
<1>2. TypeOK' /\ StatusesMean' /\ WorkIsSeen' /\ GrantIsListed' /\ LostIsRecorded'
  BY <1>1 DEF Inv, TypeOK, StatusesMean, Means, WorkIsSeen, IsCreated, GrantIsListed,
              LostIsRecorded, Working
<1>3. Counted' = Counted
  BY <1>1 DEF Counted, Listed, Active, Holding, Granted, Escaped, Exited
<1> QED
  BY <1>2, <1>3, CountedShrinks DEF Inv

\* No BuildRun takes a slot that is not there: those that hold one are counted.
LEMMA CountedIsEnough == ASSUME Inv PROVE QuotaHoldsAsListed
<1> DEFINE beyond == Working \ (lost \cup overtaken)
<1>1. beyond \subseteq Counted
  <2> SUFFICES ASSUME NEW b \in beyond PROVE b \in Counted
    OBVIOUS
  <2>1. b \in Working /\ b \in Runs /\ ~Exited(b) /\ b \notin Escaped /\ b \in Granted
    BY DEF Working, Exited, Escaped, Granted
  <2>2. ~IsTerminal(cache[b].phase)
    BY <2>1 DEF Inv, LostIsRecorded, Escaped
  <2>3. b \in Holding
    BY <2>1, <2>2 DEF Holding
  <2>4. b \in Listed /\ b <= b
    BY <2>1, <2>3, HoldersAreListed, RunsFacts
  <2> QED
    BY <2>1, <2>3, <2>4 DEF Counted
<1>2. Counted \subseteq Runs
  BY ListFacts
<1>3. IsFiniteSet(Counted) /\ Cardinality(Counted) \in Nat
  BY <1>2, Subsets
<1>4. Cardinality(beyond) <= Cardinality(Counted) /\ Cardinality(beyond) \in Nat
  BY <1>1, <1>3, FS_Subset, FS_CardinalityType
<1> QED
  BY <1>3, <1>4, ConstantsAssumption DEF Inv, SlotsHold, QuotaHoldsAsListed

-----------------------------------------------------------------------------
(***************************************************************************)
(* The theorems.                                                           *)
(***************************************************************************)

\* Inv holds in every reachable state, whatever the constants are.
THEOREM Invariance == Spec => []Inv
<1>1. ASSUME Inv, [Next]_vars PROVE Inv'
  <2>1. CASE UNCHANGED vars
    BY <1>1, <2>1, StutterStep
  <2>2. ASSUME NEW b \in Runs, UNCHANGED load, Record,
               \/ Create(b) \/ Reconcile(b) \/ SyncRun(b) \/ SyncJob(b)
               \/ JobStart(b) \/ JobFinish(b) \/ RunnerStep(b)
        PROVE  Inv'
    <3>1. CASE Create(b)
      BY <1>1, <2>2, <3>1, CreateStep
    <3>2. CASE Begin(b) \/ Decide(b)
      BY <1>1, <2>2, <3>2, BeginStep, DecideStep
    <3>3. CASE EnsureRun(b) \/ ReadRunStatus(b) \/ Persist(b)
      BY <1>1, <2>2, <3>3, EnsureRunStep, ReadRunStatusStep, PersistStep
    <3>4. CASE SyncRun(b) \/ SyncJob(b)
      BY <1>1, <2>2, <3>4, SyncRunStep, SyncJobStep
    <3>5. CASE JobStart(b) \/ JobFinish(b)
      BY <1>1, <2>2, <3>5, JobStartStep, JobFinishStep
    <3>6. CASE RunnerStep(b)
      BY <1>1, <2>2, <3>6, RunnerLoadStep, RunnerStartStep, RunnerFinishStep DEF RunnerStep
    <3> QED
      BY <2>2, <3>1, <3>2, <3>3, <3>4, <3>5, <3>6 DEF Reconcile
  <2> QED
    BY <1>1, <2>1, <2>2 DEF Next
<1> QED
  BY <1>1, InitInv, PTL DEF Spec

\* Every copy of a status that is kept or written has a phase the API knows.
THEOREM TypeCorrect == Spec => []TypeOK
<1>1. Inv => TypeOK
  BY DEF Inv
<1> QED
  BY <1>1, Invariance, PTL

\* The workloads of a Project that have not ended exceed its concurrency quota
\* by nothing but those the list dropped while they worked, or that were granted
\* a slot before one that ranks ahead of them was listed: for any number of
\* workers that decide on lists that lag, with or without a limit on the queue.
THEOREM QuotaIsKeptAsListed == Spec => []QuotaHoldsAsListed
<1>1. Inv => QuotaHoldsAsListed
  BY CountedIsEnough
<1> QED
  BY <1>1, Invariance, PTL

=============================================================================
