------------------------- MODULE CpuAnalysisExecutor -------------------------
(***************************************************************************)
(* The resident CPU thread pool of the engine worker (class                 *)
(* CpuAnalysisExecutor in engine/src/cli/worker.cpp).                       *)
(*                                                                         *)
(* analyze() is called by one job after another.  Each call grows the pool  *)
(* to its worker count, publishes a Task that lives on its own stack under  *)
(* the next generation number, and waits until every pool thread has        *)
(* reported.  A pool thread whose index is below the task's worker count    *)
(* takes candidates from the task's cursor until none is left, the job is   *)
(* stopped, or one of them fails.                                           *)
(*                                                                         *)
(* The task of the k-th call is named k.  Both condition variables are      *)
(* waited on and signalled with changes made under mutex_, so a wait is a   *)
(* guard.  Candidates are numbers; an analysis only succeeds or throws.     *)
(* AnalyzeJob runs a job on the pool.                                       *)
(***************************************************************************)
EXTENDS Naturals, FiniteSets

CONSTANTS MaxWorkers,     \* bound on the requested worker counts
          MaxCandidates,  \* bound on the candidates of a call
          MaxCalls,       \* bound on the calls
          ChunkSize       \* kCandidateChunkSize: how often progress is reported

ASSUME BoundsOK == /\ MaxWorkers \in Nat \ {0} /\ MaxCandidates \in Nat \ {0}
                   /\ MaxCalls \in Nat \ {0} /\ ChunkSize \in Nat \ {0}

VARIABLES caller,          \* where the thread inside analyze() is
          call,            \* the number of the current or last call
          pool,            \* workers_.size()
          task_, generation_, active_workers_,         \* under mutex_
          worker,          \* where each pool thread is
          observed,        \* its observed_generation
          held,            \* the task it was handed, 0 for nullptr
          index,           \* the candidate it computes
          counted,         \* how many were done with its last one
          size, worker_count, cursor, completed, last_reported, failure, stop,   \* per task
          returned,        \* how each call returned
          misreported      \* ghost: a thread has been counted for a generation it had no part in

pool_vars == <<pool, task_, generation_, active_workers_, misreported>>
thread_vars == <<worker, observed, held, index, counted>>
task_vars == <<size, worker_count, cursor, completed, last_reported, failure>>
executor_vars == <<caller, call, pool_vars, thread_vars, task_vars, stop, returned>>

Threads == 0 .. MaxWorkers - 1
Calls == 1 .. MaxCalls
NoTask == 0

\* A pool of p threads between two calls.
Resident(p) ==
    /\ caller = "idle" /\ pool = p
    /\ call = (IF p = 0 THEN 0 ELSE 1)
    /\ task_ = NoTask /\ generation_ = call /\ active_workers_ = 0
    /\ worker = [w \in Threads |-> IF w < p THEN "wait" ELSE "unborn"]
    /\ observed = [w \in Threads |-> IF w < p THEN generation_ ELSE 0]
    /\ held = [w \in Threads |-> NoTask]
    /\ index = [w \in Threads |-> 0]
    /\ counted = [w \in Threads |-> 0]
    /\ size = [k \in Calls |-> 0]
    /\ worker_count = [k \in Calls |-> 0]
    /\ cursor = [k \in Calls |-> 0]
    /\ completed = [k \in Calls |-> {}]
    /\ last_reported = [k \in Calls |-> 0]
    /\ failure = [k \in Calls |-> FALSE]
    /\ stop = [k \in Calls |-> FALSE]
    /\ returned = [k \in Calls |-> "no"]
    /\ misreported = FALSE

ExecutorInit == Resident(0)

-----------------------------------------------------------------------------
(* analyze().                                                              *)

\* Clamp the worker count to the candidates and grow the pool to it, before the task is
\* published and without mutex_; the job may have been stopped before.
Begin(candidates, requested, stopped) ==
    LET count == IF requested < candidates THEN requested ELSE candidates
    IN  /\ caller = "idle"
        /\ call < MaxCalls
        /\ call' = call + 1
        /\ size' = [size EXCEPT ![call'] = candidates]
        /\ worker_count' = [worker_count EXCEPT ![call'] = count]
        /\ pool' = IF pool < count THEN count ELSE pool
        /\ worker' = [w \in Threads |-> IF pool <= w /\ w < count THEN "wait" ELSE worker[w]]
        /\ caller' = "publish"
        /\ stop' = [stop EXCEPT ![call'] = stopped]
        /\ UNCHANGED <<task_, generation_, active_workers_, misreported, observed, held, index,
                       counted, cursor, completed, last_reported, failure, returned>>

\* Mutant: waits for the task's threads, but every pool thread reports.
PublishCount == /\ caller = "publish"
                /\ task_' = call
                /\ active_workers_' = worker_count[call]
                /\ generation_' = generation_ + 1
                /\ caller' = "await"
                /\ UNCHANGED <<call, pool, misreported, thread_vars, task_vars, stop, returned>>

Publish == /\ caller = "publish"
           /\ task_' = call
           /\ active_workers_' = pool
           /\ generation_' = generation_ + 1
           /\ caller' = "await"
           /\ UNCHANGED <<call, pool, misreported, thread_vars, task_vars, stop, returned>>

\* Everybody reported: rethrow a failure, or return what was computed.
AllReported == active_workers_ = 0

Return == /\ caller = "await"
          /\ AllReported
          /\ task_' = NoTask
          /\ returned' = [returned EXCEPT ![call] =
                            IF failure[call] THEN "threw"
                            ELSE IF stop[call] THEN "cancelled" ELSE "complete"]
          /\ caller' = "idle"
          /\ UNCHANGED <<call, pool, generation_, active_workers_, misreported, thread_vars,
                         task_vars, stop>>

\* The job's stop source, from the reader's thread.
StopTask == /\ caller # "idle"
            /\ ~stop[call]
            /\ stop' = [stop EXCEPT ![call] = TRUE]
            /\ UNCHANGED <<caller, call, pool_vars, thread_vars, task_vars, returned>>

-----------------------------------------------------------------------------
(* worker_loop() and run_task().                                           *)

\* Mutant: a thread beyond the task's worker count does not report.
WakeSilent(w) == /\ worker[w] = "wait"
                 /\ generation_ # observed[w]
                 /\ observed' = [observed EXCEPT ![w] = generation_]
                 /\ IF task_ # NoTask /\ w < worker_count[task_]
                    THEN /\ held' = [held EXCEPT ![w] = task_]
                         /\ worker' = [worker EXCEPT ![w] = "take"]
                    ELSE UNCHANGED <<worker, held>>
                 /\ UNCHANGED <<caller, call, pool_vars, index, counted, task_vars, stop, returned>>

\* A new generation: take the task, unless this thread's index is beyond it.
Wake(w) == /\ worker[w] = "wait"
           /\ generation_ # observed[w]
           /\ observed' = [observed EXCEPT ![w] = generation_]
           /\ IF task_ # NoTask /\ w < worker_count[task_]
              THEN /\ held' = [held EXCEPT ![w] = task_]
                   /\ worker' = [worker EXCEPT ![w] = "take"]
              ELSE /\ worker' = [worker EXCEPT ![w] = "report"]
                   /\ UNCHANGED held
           /\ UNCHANGED <<caller, call, pool_vars, index, counted, task_vars, stop, returned>>

LeaveTask(w) == /\ held' = [held EXCEPT ![w] = NoTask]
                /\ worker' = [worker EXCEPT ![w] = "report"]

\* Mutant: one candidate past the end.
BeyondEnd(k) == cursor[k] > size[k]

Exhausted(k) == cursor[k] >= size[k]

\* Mutant: the cursor is read but not advanced.
TakeUnadvanced(w) ==
    /\ worker[w] = "take"
    /\ LET k == held[w] IN
       IF stop[k] \/ Exhausted(k)
       THEN LeaveTask(w) /\ UNCHANGED index
       ELSE /\ index' = [index EXCEPT ![w] = cursor[k]]
            /\ worker' = [worker EXCEPT ![w] = "compute"]
            /\ UNCHANGED held
    /\ UNCHANGED <<caller, call, pool_vars, observed, counted, task_vars, stop, returned>>

\* Look at the stop token, then cursor.fetch_add.
Take(w) == /\ worker[w] = "take"
           /\ LET k == held[w] IN
              \/ /\ stop[k]
                 /\ LeaveTask(w)
                 /\ UNCHANGED <<index, cursor>>
              \/ /\ ~stop[k]
                 /\ cursor' = [cursor EXCEPT ![k] = @ + 1]
                 /\ IF Exhausted(k)
                    THEN LeaveTask(w) /\ UNCHANGED index
                    ELSE /\ index' = [index EXCEPT ![w] = cursor[k]]
                         /\ worker' = [worker EXCEPT ![w] = "compute"]
                         /\ UNCHANGED held
           /\ UNCHANGED <<caller, call, pool_vars, observed, counted, size, worker_count,
                          completed, last_reported, failure, stop, returned>>

\* Mutant: the exception empties the cursor but is not kept.
ComputeSwallows(w) ==
    /\ worker[w] = "compute"
    /\ LET k == held[w] IN
       \/ /\ completed' = [completed EXCEPT ![k] = @ \cup {index[w]}]
          /\ counted' = [counted EXCEPT ![w] = Cardinality(completed'[k])]
          /\ worker' = [worker EXCEPT ![w] = "progress"]
          /\ UNCHANGED <<held, cursor>>
       \/ /\ cursor' = [cursor EXCEPT ![k] = size[k]]
          /\ LeaveTask(w)
          /\ UNCHANGED <<completed, counted>>
    /\ UNCHANGED <<caller, call, pool_vars, observed, index, size, worker_count, last_reported,
                   failure, stop, returned>>

\* Store the result and its flag and count it; an exception empties the cursor instead.
Compute(w) == /\ worker[w] = "compute"
              /\ LET k == held[w] IN
                 \/ /\ completed' = [completed EXCEPT ![k] = @ \cup {index[w]}]
                    /\ counted' = [counted EXCEPT ![w] = Cardinality(completed'[k])]
                    /\ worker' = [worker EXCEPT ![w] = "progress"]
                    /\ UNCHANGED <<held, cursor, failure>>
                 \/ /\ failure' = [failure EXCEPT ![k] = TRUE]
                    /\ cursor' = [cursor EXCEPT ![k] = size[k]]
                    /\ LeaveTask(w)
                    /\ UNCHANGED <<completed, counted>>
              /\ UNCHANGED <<caller, call, pool_vars, observed, index, size, worker_count,
                             last_reported, stop, returned>>

\* Mutant: whoever gets the mutex reports, also when a later count has been.
DueAlways(k, done) == done % ChunkSize = 0 \/ done = size[k]
Due(k, done) == (done % ChunkSize = 0 \/ done = size[k]) /\ done > last_reported[k]

\* Report the count, under progress_mutex, unless a later one has been reported.
ReportCount(w) ==
    /\ worker[w] = "progress"
    /\ LET k == held[w] IN
       last_reported' = IF Due(k, counted[w]) THEN [last_reported EXCEPT ![k] = counted[w]]
                        ELSE last_reported
    /\ worker' = [worker EXCEPT ![w] = "take"]
    /\ UNCHANGED <<caller, call, pool_vars, observed, held, index, counted, size, worker_count,
                   cursor, completed, failure, stop, returned>>

\* The thread reports; a count that is already zero stays there.  A thread that was added to
\* a pool that has served calls begins with observed_generation 0: it may wake for the last
\* generation, find no task, and report when the next one has been published.
Report(w) == /\ worker[w] = "report"
             /\ active_workers_' = IF active_workers_ > 0 THEN active_workers_ - 1 ELSE 0
             /\ misreported' = (misreported \/ (active_workers_ > 0 /\ observed[w] # generation_))
             /\ worker' = [worker EXCEPT ![w] = "wait"]
             /\ UNCHANGED <<caller, call, pool, task_, generation_, observed, held, index,
                            counted, task_vars, stop, returned>>

Worker(w) == Wake(w) \/ Take(w) \/ Compute(w) \/ ReportCount(w) \/ Report(w)
Caller == Publish \/ Return

ExecutorNext ==
    \/ \E n \in 1 .. MaxCandidates, c \in 1 .. MaxWorkers, s \in BOOLEAN : Begin(n, c, s)
    \/ Caller \/ StopTask
    \/ \E w \in Threads : Worker(w)

ExecutorSpec == ExecutorInit /\ [][ExecutorNext]_executor_vars

-----------------------------------------------------------------------------
\* Every variable keeps its type; a thread only ever indexes its own candidates.
ExecutorTypeOK ==
    /\ caller \in {"idle", "publish", "await"}
    /\ call \in 0 .. MaxCalls
    /\ pool \in 0 .. MaxWorkers
    /\ task_ \in 0 .. MaxCalls
    /\ generation_ \in 0 .. MaxCalls
    /\ active_workers_ \in 0 .. MaxWorkers
    /\ worker \in [Threads -> {"unborn", "wait", "take", "compute", "progress", "report"}]
    /\ observed \in [Threads -> 0 .. MaxCalls]
    /\ held \in [Threads -> 0 .. MaxCalls]
    /\ index \in [Threads -> 0 .. MaxCandidates - 1]
    /\ counted \in [Threads -> Nat]
    /\ size \in [Calls -> 0 .. MaxCandidates]
    /\ worker_count \in [Calls -> 0 .. MaxWorkers]
    /\ cursor \in [Calls -> Nat]
    /\ completed \in [Calls -> SUBSET (0 .. MaxCandidates - 1)]
    /\ last_reported \in [Calls -> Nat]
    /\ failure \in [Calls -> BOOLEAN]
    /\ stop \in [Calls -> BOOLEAN]
    /\ returned \in [Calls -> {"no", "complete", "cancelled", "threw"}]
    /\ misreported \in BOOLEAN

\* The Task is on the stack of its analyze() call: a thread holds a task only
\* while that call waits.
HeldTaskAlive == \A w \in Threads : held[w] # NoTask => /\ held[w] = call
                                                        /\ caller = "await"

\* A call that neither failed nor was stopped computed every candidate, however
\* its threads and those left over from wider calls or added for this one interleave.
CompleteHasAll ==
    \A k \in Calls : returned[k] = "complete" => completed[k] = 0 .. size[k] - 1

\* Two threads never compute one candidate of the call that waits, nor compute again what
\* is done, so results are not raced.
CandidateTakenOnce ==
    \A v, w \in Threads :
        /\ caller = "await"
        /\ worker[v] = "compute" /\ held[v] = call
        /\ worker[w] = "compute" /\ held[w] = call
        /\ v # w
        => index[v] # index[w] /\ index[v] \notin completed[call]

\* In a pool that any call may grow: no two threads race for a candidate; and until a thread
\* has been counted for a generation it had no part in, no thread outlives the task it works
\* on, and a complete call has all its candidates.  After such a report a call may return
\* under a thread that works on its Task; what the thread does then is undefined, and the
\* last two parts do not hold.
PoolInv == /\ ExecutorTypeOK
           /\ CandidateTakenOnce
           /\ ~misreported => HeldTaskAlive /\ CompleteHasAll
=============================================================================
