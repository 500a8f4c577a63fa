--------------------------- MODULE MCProjectQuota ---------------------------
(***************************************************************************)
(* Instances of ProjectQuota for TLC, and what the documentation says of   *)
(* the quota where the code does otherwise.                                *)
(***************************************************************************)
EXTENDS ProjectQuota

\* Two BuildRuns, created one after the other, and one worker.
Plain == [created |-> 2, running |-> 0, workers |-> 1, ahead |-> FALSE, tied |-> FALSE, late |-> {}]

\* Reconciles that overlap, each on a list that may be ahead of its BuildRun.
Overlapping == [Plain EXCEPT !.workers = 2, !.ahead = TRUE]

\* Both BuildRuns are created in one second, in either order.
SameSecond == [Plain EXCEPT !.tied = TRUE]

\* The Job of the first BuildRun shows late in the Job cache.
LateJob == [Plain EXCEPT !.late = {1}]

\* More BuildRuns than slots and queue together.
Overflow == [Plain EXCEPT !.created = 3, !.running = 1]

OneWorker == {SameSecond, LateJob}
OneWorkerOrMore == OneWorker \cup {Overlapping, Overflow}

\* docs/concepts/project-quotas.md: "Before creating a Job or PipelineRun, the
\* BuildRun controller counts executor workloads for the same Project. When all
\* concurrency slots are occupied, the BuildRun remains `Queued`, has no runner
\* workload": there are never more workloads than slots.
QuotaHolds == Cardinality(Working) <= MaxConcurrent
=============================================================================
