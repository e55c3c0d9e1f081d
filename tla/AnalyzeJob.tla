----------------------------- MODULE AnalyzeJob -----------------------------
(***************************************************************************)
(* An analysis job (run_analyze_job in engine/src/cli/worker.cpp): plan the *)
(* candidates, analyse them on one of the backends, report.  With CUDA or   *)
(* Vulkan and more than one chunk of candidates, a pipeline of threads      *)
(* takes chunks from a cursor; a cancelled job still reports the leading    *)
(* candidates it has.                                                       *)
(*                                                                         *)
(* The CPU path runs on the resident pool, CpuAnalysisExecutor, which an    *)
(* earlier job may have left with any number of threads, also with fewer    *)
(* than this one wants.  PlanSupply shows what becomes of the plans; here a *)
(* plan phase succeeds or fails.                                           *)
(***************************************************************************)
EXTENDS CpuAnalysisExecutor, Integers, Sequences, FiniteSetsExt, SequencesExt

CONSTANTS ResultCounts,    \* the values of result_count tried
          WorkerCount      \* the threads asked for: worker_count, or 3

ASSUME AnalyzeBoundsOK == /\ ResultCounts \subseteq Nat \ {0}
                          /\ \A n \in ResultCounts : n <= MaxCandidates
                          /\ MaxCalls > 1 /\ WorkerCount \in 1 .. 8

VARIABLES backend, result_count,
          phase,
          cancel_requested, stop_source,
          results,             \* per candidate: whose result it holds, or Blank
          chunk_cursor, chunk_done, done_candidates, chunk_failure,
          progress_mutex,      \* the thread that holds it, or Nobody
          threads,             \* the pipeline
          progress,            \* "completed" of the progress events sent
          failed,              \* ghost: a call to the backend has failed; on a device, its job not cancelled
          terminal             \* the terminal event, or NoEvent

spec == <<backend, result_count>>
shared == <<chunk_cursor, chunk_done, done_candidates, chunk_failure, progress_mutex>>
client == <<cancel_requested, stop_source>>
vars == <<spec, phase, client, results, shared, threads, progress, failed, terminal, executor_vars>>

Blank == -1
Nobody == 0
NoEvent == [type |-> "none"]
Idle == [at |-> "claim", chunk |-> 0, done |-> 0]

Candidates == 0 .. result_count - 1
chunk_total == (result_count + ChunkSize - 1) \div ChunkSize
Chunks == 0 .. chunk_total - 1
\* The candidates build_chunk() puts into a chunk.
Chunk(k) == {c \in Candidates : c \div ChunkSize = k}
thread_count == Min({WorkerCount, chunk_total})
PipelineThreads == 1 .. thread_count

TypeOK == /\ phase \in {"plan", "cpu", "metal", "single", "pipeline", "ended"}
          /\ results \in [Candidates -> Candidates \cup {Blank}]
          /\ chunk_cursor \in Nat /\ done_candidates \in 0 .. result_count
          /\ chunk_done \subseteq Chunks /\ chunk_failure \in BOOLEAN
          /\ progress_mutex \in PipelineThreads \cup {Nobody}
          /\ \A t \in DOMAIN threads :
                threads[t].at \in {"claim", "look", "analyze", "store", "count", "emit", "threw", "left"}
          /\ terminal.type \in {"none", "result", "error", "cancelled"}

Init == /\ backend \in {"cpu", "metal", "accelerator"} /\ result_count \in ResultCounts
        /\ phase = "plan" /\ cancel_requested = FALSE /\ stop_source = FALSE
        /\ results = [c \in Candidates |-> Blank]
        /\ chunk_cursor = 0 /\ chunk_done = {} /\ done_candidates = 0 /\ chunk_failure = FALSE
        /\ progress_mutex = Nobody /\ threads = <<>>
        /\ progress = <<>> /\ failed = FALSE /\ terminal = NoEvent
        /\ \E p \in 0 .. MaxWorkers : Resident(p)

-----------------------------------------------------------------------------
(* Terminal events.                                                        *)

End(event) == /\ phase' = "ended" /\ terminal' = event
              /\ UNCHANGED <<spec, client, shared, threads>>

\* Out of run_analyze_job: execute_loop reports what was thrown.
Escape(error) == End(IF error = "cancelled"
                     THEN [type |-> "cancelled", partial |-> FALSE, candidates |-> <<>>]
                     ELSE [type |-> "error"])
\* check_cancelled() in a handler, which throws on otherwise.
EscapeFrom == Escape(IF cancel_requested THEN "cancelled" ELSE "error")

\* The results of the first n candidates, in order.
FirstOf(values, n) == [i \in 1 .. n |-> values[i - 1]]
\* emit_partial_cancelled().
PartialCancelled(values, n) ==
    End([type |-> "cancelled", partial |-> n > 0, candidates |-> FirstOf(values, n)])
Result(values, n) == End([type |-> "result", candidates |-> FirstOf(values, n)])

\* emit_progress("candidates").
Reported(done) == progress' = Append(progress, done)

-----------------------------------------------------------------------------
(* The plan phase, and the backend it leaves to.                           *)

\* A candidate out of range, a plan that cannot be built, no such backend.
PlanFails == /\ phase = "plan" /\ Escape("error")
             /\ UNCHANGED <<results, progress, failed, executor_vars>>

PlanCancelled == /\ phase = "plan" /\ cancel_requested /\ Escape("cancelled")
                 /\ UNCHANGED <<results, progress, failed, executor_vars>>

PlanEnds ==
    /\ phase = "plan"
    /\ phase' = CASE backend = "cpu" -> "cpu"
                  [] backend = "metal" -> "metal"
                  [] OTHER -> IF chunk_total > 1 THEN "pipeline" ELSE "single"
    /\ threads' = IF phase' = "pipeline" THEN [t \in PipelineThreads |-> Idle] ELSE threads
    /\ IF phase' = "cpu"
       THEN \E cpu_worker_count \in 1 .. MaxWorkers :
               Begin(result_count, cpu_worker_count, stop_source)
       ELSE UNCHANGED executor_vars
    /\ UNCHANGED <<spec, client, results, shared, progress, failed, terminal>>

-----------------------------------------------------------------------------
(* CPU: a call of the resident pool.                                       *)

\* What the backend, asked for a set of candidates, leaves in results.
Filled(done) == [c \in Candidates |-> IF c \in done THEN c ELSE results[c]]

\* A step of the call, which passes its progress on.  What a thread that the call did not
\* wait for does with its dead Task is undefined: nothing is said of it.
PoolStep(step) ==
    /\ phase = "cpu" /\ step
    /\ IF last_reported' = last_reported THEN UNCHANGED progress
       ELSE Reported(last_reported'[call])
    /\ UNCHANGED <<spec, phase, client, results, shared, threads, failed, terminal>>

CpuPublishes == PoolStep(Publish)
CpuWorks(w) == PoolStep(Worker(w))

\* Mutant: results keeps its full length.
CompletedAll(done) == result_count
\* execution.completed_prefix.
CompletedPrefix(done) == Max({n \in 0 .. result_count : 0 .. n - 1 \subseteq done})

\* A failing candidate is an error of the job, cancelled or not; a stopped call leaves out
\* what its threads had not begun.
CpuReturns ==
    /\ phase = "cpu" /\ Return
    /\ IF failure[call]
       THEN Escape("error") /\ failed' = TRUE /\ UNCHANGED results
       ELSE /\ results' = Filled(completed[call])
            /\ IF stop[call] \/ cancel_requested
               THEN PartialCancelled(results', CompletedPrefix(completed[call]))
               ELSE Result(results', result_count)
            /\ UNCHANGED failed
    /\ UNCHANGED progress

-----------------------------------------------------------------------------
(* Metal and a single chunk: one call on the executor's own thread.         *)

\* A callback of Metal, in increasing order.
Callback ==
    /\ phase = "metal"
    /\ \E done \in Candidates : /\ progress # <<>> => done + 1 > Last(progress)
                                /\ Reported(done + 1)
    /\ UNCHANGED <<spec, phase, client, results, shared, threads, failed, terminal, executor_vars>>

\* Metal, and the accelerator with a single chunk, return all or throw.
Returns ==
    /\ phase \in {"metal", "single"}
    /\ results' = Filled(Candidates)
    /\ IF cancel_requested
       THEN PartialCancelled(results', result_count) /\ UNCHANGED progress
       ELSE Result(results', result_count) /\ Reported(result_count)
    /\ UNCHANGED <<failed, executor_vars>>

Throws == /\ phase \in {"metal", "single"} /\ EscapeFrom
          /\ failed' = ~cancel_requested /\ UNCHANGED <<results, progress, executor_vars>>

-----------------------------------------------------------------------------
(* The pipeline.                                                           *)

At(t, place) == phase = "pipeline" /\ threads[t].at = place
Goto(t, place) == threads' = [threads EXCEPT ![t].at = place]
Quiet == UNCHANGED <<spec, phase, client, failed, terminal, executor_vars>>

\* cursor.fetch_add().
Claim(t) == /\ At(t, "claim")
            /\ chunk_cursor' = chunk_cursor + 1
            /\ threads' = [threads EXCEPT ![t].at = IF chunk_cursor < chunk_total THEN "look" ELSE "left",
                                          ![t].chunk = chunk_cursor]
            /\ Quiet /\ UNCHANGED <<results, chunk_done, done_candidates, chunk_failure, progress_mutex, progress>>

Look(t) == /\ At(t, "look")
           /\ Goto(t, IF cancel_requested THEN "left" ELSE "analyze")
           /\ Quiet /\ UNCHANGED <<results, shared, progress>>

\* results[begin + offset] = chunk_results[offset].
Stored(t) == [c \in Candidates |-> IF c \in Chunk(threads[t].chunk) THEN c ELSE results[c]]

Analyzed(t) == /\ At(t, "analyze")
               /\ results' = Stored(t)
               /\ Goto(t, "store")
               /\ Quiet /\ UNCHANGED <<shared, progress>>

\* The engine throws when it fails, and when it finds the stop requested.
AnalysisThrows(t) == /\ At(t, "analyze")
                     /\ Goto(t, "threw")
                     /\ failed' = (failed \/ ~cancel_requested)
                     /\ UNCHANGED <<spec, phase, client, terminal, results, shared, progress, executor_vars>>

SetChunkDone(t) == /\ At(t, "store")
                   /\ chunk_done' = chunk_done \cup {threads[t].chunk}
                   /\ Goto(t, "count")
                   /\ Quiet /\ UNCHANGED <<results, chunk_cursor, done_candidates, chunk_failure, progress_mutex, progress>>

\* Mutant: only the counter is protected, not the event that quotes it.
CountUnlocked(t) == /\ At(t, "count")
                    /\ done_candidates' = done_candidates + Cardinality(Chunk(threads[t].chunk))
                    /\ threads' = [threads EXCEPT ![t].at = "emit", ![t].done = done_candidates']
                    /\ Quiet /\ UNCHANGED <<results, chunk_cursor, chunk_done, chunk_failure, progress_mutex, progress>>
\* Under progress_mutex: count the chunk, and say so before anybody else counts.
Count(t) == /\ At(t, "count") /\ progress_mutex = Nobody
            /\ progress_mutex' = t
            /\ done_candidates' = done_candidates + Cardinality(Chunk(threads[t].chunk))
            /\ threads' = [threads EXCEPT ![t].at = "emit", ![t].done = done_candidates']
            /\ Quiet /\ UNCHANGED <<results, chunk_cursor, chunk_done, chunk_failure, progress>>
EmitProgress(t) == /\ At(t, "emit")
                   /\ Reported(threads[t].done)
                   /\ progress_mutex' = Nobody
                   /\ threads' = [threads EXCEPT ![t] = Idle]
                   /\ Quiet /\ UNCHANGED <<results, chunk_cursor, chunk_done, done_candidates, chunk_failure>>

\* The handler: unless the job is cancelled, keep the failure and use up the cursor.
Catch(t) == /\ At(t, "threw")
            /\ Goto(t, "left")
            /\ IF cancel_requested THEN UNCHANGED <<chunk_cursor, chunk_failure>>
               ELSE chunk_failure' = TRUE /\ chunk_cursor' = chunk_total
            /\ Quiet /\ UNCHANGED <<results, chunk_done, done_candidates, progress_mutex, progress>>

\* Mutant: waits for the chunks instead of the threads.
ChunksJoined == chunk_done = Chunks
Joined == \A t \in PipelineThreads : threads[t].at = "left"

\* Mutant: every finished chunk counts, also behind a gap.
LastDone == Max({0} \cup UNION {{c + 1 : c \in Chunk(k)} : k \in chunk_done})
\* How many candidates the leading finished chunks hold.
Prefix == LET gap == Min({k \in 0 .. chunk_total : k \notin chunk_done})
          IN Min({gap * ChunkSize, result_count})

PipelineEnds ==
    /\ phase = "pipeline" /\ Joined
    /\ IF chunk_failure THEN Escape("error")
       ELSE IF cancel_requested THEN PartialCancelled(results, Prefix)
       ELSE Result(results, result_count)
    /\ UNCHANGED <<results, progress, failed, executor_vars>>

-----------------------------------------------------------------------------
\* The client's cancel: Job::request_cancel() sets one after the other; the pool's task has
\* the job's stop token.
RequestCancel == /\ phase # "ended" /\ ~cancel_requested
                 /\ cancel_requested' = TRUE
                 /\ UNCHANGED <<spec, phase, stop_source, results, shared, threads, progress, failed,
                                terminal, executor_vars>>
RequestStop == /\ cancel_requested /\ ~stop_source
               /\ stop_source' = TRUE
               /\ IF caller # "idle" THEN StopTask ELSE UNCHANGED executor_vars
               /\ UNCHANGED <<spec, phase, cancel_requested, results, shared, threads, progress,
                              failed, terminal>>

Thread(t) == Claim(t) \/ Look(t) \/ Analyzed(t) \/ AnalysisThrows(t) \/ SetChunkDone(t)
             \/ Count(t) \/ EmitProgress(t) \/ Catch(t)
Executor == PlanFails \/ PlanCancelled \/ PlanEnds \/ CpuPublishes \/ CpuReturns \/ Returns \/ Throws
            \/ PipelineEnds
Next == Executor \/ Callback \/ RequestCancel \/ RequestStop
        \/ (\E t \in DOMAIN threads : Thread(t))
        \/ (\E w \in Threads : CpuWorks(w))

Spec == Init /\ [][Next]_vars
\* Backends return, and the operating system runs every thread.
FairSpec == Spec /\ WF_vars(Executor)
                 /\ \A t \in 1 .. WorkerCount : WF_vars(t \in DOMAIN threads /\ Thread(t))
                 /\ \A w \in Threads : WF_vars(CpuWorks(w))

-----------------------------------------------------------------------------
\* Whatever order the threads finish in, the progress on the wire never goes back, and
\* no event of the pool or of the pipeline quotes more than has really been analysed.
ProgressOrdered ==
    /\ TypeOK
    /\ \A i \in 2 .. Len(progress) : progress[i - 1] <= progress[i]
    /\ backend = "accelerator" /\ progress # <<>> =>
          Last(progress) <= Cardinality({c \in Candidates : results[c] = c})
    /\ backend = "cpu" /\ progress # <<>> =>
          /\ \A i \in 2 .. Len(progress) : progress[i - 1] < progress[i]
          /\ Last(progress) <= Cardinality(completed[call])

\* The terminal event is the truth: a result has no failure behind it, every candidate under
\* its own id, and progress before it that reached the total (the last two unless the pool
\* counted a thread that was added for this job for a generation it had no part in);
\* a cancelled event has the leading candidates that were analysed, without a gap, and all
\* of them that lead; and no chunk_failure the job suffered before a cancel is lost.
OutcomeFaithful ==
    /\ terminal.type = "result" =>
          /\ ~failed
          /\ ~misreported => /\ terminal.candidates = [i \in 1 .. result_count |-> i - 1]
                             /\ Last(progress) = result_count
    /\ terminal.type = "cancelled" =>
          LET n == Len(terminal.candidates)
          IN /\ cancel_requested
             /\ terminal.candidates = [i \in 1 .. n |-> i - 1]
             /\ terminal.partial = (n > 0)
             /\ n < result_count => results[n] = Blank
    /\ terminal.type = "error" => phase = "ended" /\ (chunk_failure => failed)
    /\ chunk_failure \/ (\E k \in Calls : failure[k]) => terminal.type \in {"none", "error"}

\* The job ends, cancelled, failing or not.
Settles == <>(terminal # NoEvent)
=============================================================================
