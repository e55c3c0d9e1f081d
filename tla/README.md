# GetNative-VF: specifications

GetNative-VF estimates the native resolution of up-scaled video.  It is a desktop
application in three processes' worth of code:

```
 React UI (src/app/src)                    TypeScript, one renderer thread
    | invoke() / events                    job ids, progress, results
 Tauri controller (src/app/src-tauri)      Rust: worker sessions, project store, rings
    | JSON Lines on stdin/stdout           one command, one event per line
 getnative-engine worker (src/engine)      C++: reader thread, executors, analysis threads
```

The engine's worker is where the program is concurrent: one thread reads commands while
two executors run jobs, each with analysis threads, decode sessions and stop callbacks of
its own, and everything meets on a handful of mutexes, condition variables and atomics.
Most modules are about it; `EngineClient` is about the two other parts, which start, restart
and lose engine processes while jobs are on their way.  `PROJECT.json` maps every definition
to the lines it stands for.

## 1. Inventory

| Component | State | Operations | Interacts with | Correct when |
|---|---|---|---|---|
| **Worker session** `engine/src/cli/worker.cpp` `WorkerSession` | two queues, two running jobs, stopping flags, subscribers of an index job | `analyze`, `verify_begin`, `media_begin`, `cancel`, `shutdown`, end of input, `execute_loop`, `media_execute_loop` | client (events), the job bodies | each accepted request is settled exactly once; a shutdown settles everything and is acknowledged last |
| **Streamed verification job** `run_verify_job`, `verify_frame`, `verify_end` | inbox, outbox, counters, end of stream, cancel flag | receive, end, cancel, analyse, count, push, drain, join, settle | reader, analysis threads, executor | every frame is reported once, the terminal event accounts for all, an ended stream settles |
| **Media verification pipeline** `MediaVerifyPipeline` | bounded queue, frames in flight, abort/done flags, failure | `push`, `worker_loop`, `fail`, `run`, stop callback | decode sessions, collector, stop token | bounded, loses no frame, hides no failure, returns |
| **CPU analysis pool** `CpuAnalysisExecutor` | threads, current task, generation, active count | `analyze`, `worker_loop`, `run_task` | one caller per executor | every candidate computed once, no thread outlives a task |
| **Decode range scheduler** `IndexedRangeScheduler` | delivery bitmap, pending intervals, leases | `claim`, `split_tail`, `reserve`, `commit`, `abandon_delivery`, `complete`, `release`, `cancel` | sessions, controller | a frame belongs to one lease at a time and is never forgotten |
| **Adaptive decode** `decode_selected_hardware_indexed` | session threads, assignments, first failure | open, output, deliver, retry, give back, launch, join, split | scheduler, pipeline, stop token | each selected frame is handed over once; a normal return covers all |
| **Verify ring** `verify_ring_attach`, `MappedRing` | shared slots, generations | attach, announce, read, consume | two processes | a slot keeps its frame until it was read; every slot comes back |
| **Media job driver** `run_media_verify_job` | results by seq, batch, fallback chain | index, plan, hardware decode, software resume, collect, report | pipeline, decoders | each frame reported once over both decoders |
| **Analysis job** `run_analyze_job` | results, finished chunks, progress | plan phase, CPU, Metal, single-chunk and pipelined backends | executor, backend | the terminal event tells the truth |
| **Axis plan cache** `planner/axis_plan.cpp` | entries, byte count, builds under way, LRU | `get_or_build_batch`, `lookup_batch`, `publish` | executors, store | consistent, within its limits, one build per key |
| **Cold plan store** `planner/plan_store.cpp`, store writer | pack files, write queue | publish, fetch, remove, sweep | other processes | a job never gets a plan of another request |
| **CUDA engine** `backend/cuda/cuda_backend.cpp` | slots with plans, buffers and frames; shared frames | `analyze_axis_batch` | analysis threads | kernels read the plans and the frame of their own call |
| **Vulkan engine** `backend/vulkan/vulkan_backend.cpp` | slots with plans and fences; the decoder's frame locks | `analyze_axis_batch` | analysis threads, decoder | frame lock and timeline stay in step |
| Media index `media/media_index.cpp` | cached index file | build, replace | decoders | the old or the new file |
| Frame cache and assets | eight entries, mapped files | get, release | executor | a pinned frame is not evicted |
| **Worker session client** `worker/mod.rs`, `worker/session.rs` | the session and its mutex, pending maps, child processes | start, capabilities, analyze, cancel, shutdown, round trip, time-out, exit | engine, client | every waiter is answered or fails |
| Project store `project/store.rs`, `manifest.rs`, `atomic_file.rs` | manifest and run files | save, load, recover | disk | a crash leaves a readable project |
| **UI worker client** `workerClient.ts`, `App.tsx` | tracked jobs and their indexes | connect, restart, submit, cancel, event, exit | controller | a job ends once, as it really ended |
| Run groups and the job tray `executeRunGroup.ts`, `runReducer.ts` | run state | submit members, reduce events | worker client | a run's state is that of its members |
| Preview hook and media service `useMediaPreview.ts`, `media/service.ts` | request counters, object URLs | request, supersede, revoke | controller | a stale answer changes nothing |
| Metal, kernels, geometry, planner arithmetic, codecs, JSON, UI pages, vendored code | | | | outside: numerical code, device and codec calls, presentation |

(In bold: modelled.)  What is hard to test is listed in `PROJECT.json` under `hazards`, each
at its line: wakeups that fall between a predicate and a sleep, two critical sections where
one was meant, subscribers that join a job about to end, bulk corrections of a counter,
objects on the stack of a call that returns, leases that are split while frames are handed
over, device memory that outlives what it was uploaded for, files that change between two
reads of them.

## 2. Modules

| Module | Models | State ↔ code |
|---|---|---|
| `VerifyContract` | what the client of a streamed job is promised | frames received, end declared, frames reported, how it settled |
| `VerifyStream` | the job's threads | `pc[t]` is the place of a thread in `verify_frame`/`verify_end`/`request_cancel`, `worker_body` or `run_verify_job`; the other variables carry the code's names; `delivered` and `terminal` are the events written |
| `VerifyRing` | the shared-memory ring between a producer and the job | `owner`, `generation`, `next` are the producer's, `verify_slot_generations` the engine's; `announced` and `consumed` the two pipes; `item`, `step` the frame a worker has and how far it is |
| `WorkerSession` | the life of jobs on two executors | jobs are named by their requests; `reader`, `executor`, `media_executor` are the places of the three threads; `terminals` the events written |
| `PipelineContract` | what a pipeline is to the job that runs it | `pl` has the frames not pushed, queued, analysed and to be collected, the decoder's end and the first failure; `stop` is the job's stop token |
| `MediaVerifyJob` | a media job from index to terminal event | `pl` and `stop` are the contract's; the other variables carry the code's names |
| `MediaVerifyPipeline` | queue, slots, failures, stop | fields by name; `pc` of workers, decode sessions, the thread in `run()` and the canceller |
| `AnalyzeJob` | an analysis job after its plan phase | `phase` is the backend's path, `threads` the pipeline threads' places and locals, `progress` and `terminal` the events |
| `CpuAnalysisExecutor` | the pool | fields of the pool by name, fields of the calls' `Task`s as functions of the call |
| `AxisPlanCache` | the plan cache, as operators on a cache value | `lru`, `plans`, `bytes` are the list, the map and `resident_bytes` |
| `PlanSupply` | how jobs get plans: cache, store, writer, crashes | `ex` the callers' places and locals, `builder` the holder of `build_mutex`, `files` what the loader would say of each pack |
| `CudaEngine` | the host side of a CUDA call | `call` the callers' places and locals, `slots` the slots' fields by name, `input_cache` the shared frames |
| `VulkanEngine` | the host side of a Vulkan call | as above, with fences, and the frame's lock and timeline shared with the decoder |
| `IndexedRangeScheduler` | the lease scheduler | `states_`, `pending_`, `active_`, `delivered_by_lease_`, `next_lease_`, `cancelled_`, one action per method |
| `AdaptiveDecode` | sessions and controller on top of the scheduler | `pc`, `assignment` and `work` are the slots' threads, leases and locals; `controller` the place of the thread inside the call |
| `EngineClient` | controller, engine processes, reader threads and client | `session`, `lock`, `pc` are the controller's (`pc[f]` the place of a flow that connects or restarts), `pending`, `stdin`, `stdout`, `reader` each session's; `wire` the Tauri events under way; the client's maps carry the code's names, `shown` is what a job's subscribers have seen |
| `*_proof` | theorems about the module of that name; at the end `EngineClient_proof` is about `VerifyRing`, `WorkerSession_proof` about `CudaEngine` and `MediaVerifyJob_proof` about `PlanSupply`, too | |
| `MC*` | instances for TLC: symmetry sets, small functions | |

Conventions.  A critical section is one step.  A wait on a condition variable is three: the
predicate under the mutex (`check`), still holding the mutex (`block`), asleep (`waiting`);
a notification moves sleeping threads to `check`.  No other step that needs the mutex happens
while a thread is in `block`, but a store to an atomic and a notification made without the
mutex do, which is what the observations on cancellation below are about.  `notify_one` wakes
an arbitrary sleeper.  Pixels, scores and texts are abstracted to "the analysis succeeds or
throws", or to the identity of what was read where a property is about it.  Commands a
handler refuses change nothing and are left out unless an answer matters.  Definitions
introduced by a comment `Mutant:` are wrong variants of the one that follows; no
specification uses them, they document which mistake each property would expose.

How the modules compose.  `AdaptiveDecode` extends `IndexedRangeScheduler` and conjoins its
actions with the steps of sessions and controller.  `PlanSupply` extends `AxisPlanCache`.
`VerifyStream` implements `VerifyContract` by the refinement `received <- verify_received`,
`ended <- verify_stream_ended`, `reported <-` the sequence numbers of `delivered`, `settled
<- terminal`.  `MediaVerifyJob` extends `PipelineContract` and runs its pipelines by the
contract's actions; `MediaVerifyPipeline`, the same pipeline with its threads, its mutex and
its counter, implements `PipelineContract` by the refinement `pl <- contract` (the frames by
where the threads have them, the failure by `failure_`), `stop <- stop \/ failure_`: a failure
is a stop from the moment it is recorded, although the stop source is only triggered after the
unlock.  So what is shown of the job holds of the job on top of the threads.  `MediaVerifyPipeline`
takes of the decoder only its calls to `push`, and `AdaptiveDecode` of the pipeline only that
`deliver` returns or throws.  `AnalyzeJob`
extends `CpuAnalysisExecutor`: a job on the CPU takes the pool's own steps, its progress is the
pool's progress callback and its client's cancel is the stop of the pool's task.
`EngineClient` takes of the engine what `WorkerSession` shows of it (a job is rejected or
accepted, and an accepted one ends once) and that it answers in the order of its commands.
`VerifyRing` is the branch of `VerifyStream`'s job that `VerifyStream` leaves out: there, a
frame is the frame announced; here, it is shown to be.

## 3. Runs

| Run | Instance | Shows |
|---|---|---|
| `verify` | 2 workers, 3 frames, batch 2 | `ReportedOnce`, `TerminalAccounts`; `EndedSettles`, `ImplementsContract` |
| `ring` | 2 slots, 2 workers, 4 frames | `RingInv`: a worker reads the frame it was told of, also when a client repeats an announcement; `ProducerReleased`, unless a thread has missed a cancellation (`unaware`) |
| `session` | 1 analysis job, 2 identical index requests, 1 media job | `SettlementInv`; `ShutdownIsLast`, and `CommandsComplete` where the jobs themselves end |
| `media_job` | 3 frames, concurrency 2, batch 2, each backend | `DeliveredOnce`, `TerminalAgrees`; `Settles`, of a job that is not cancelled |
| `pipeline` | 2 workers, 2 decode sessions, 3 frames | `PipelineInv`, `OutcomeFaithful`; `ImplementsContract`, `Returns` |
| `analyze` | 2 or 7 candidates in chunks of 2, 3 pipeline threads or a resident pool of 0 to 2, each backend | `PoolInv`, `ProgressOrdered`, `OutcomeFaithful`; `Settles` |
| `plans` | 2 callers, 3 plans, room for two small or one large, 2 jobs, a crash, a disturbance on disk | `CacheCorrect`, `PlansMatchRequests`; `PlanPhaseEnds` |
| `cuda` | 2 callers, 1 or 2 slots, shared frames on or off, 3 calls, a failing CUDA call, a stop | `ResourcesOwned`, `BytesAccounted`, `ResultFromResident`; `CallsReturn` |
| `cuda_stale_hit` | 1 caller, 1 slot, no shared frames, 3 calls, a failing CUDA call | that `NoStaleHit` is violated: the finding below |
| `vulkan` | 2 callers, 1 or 2 slots, plan caching on or off, 3 calls, a failure, a stop, a decode | `FramesSettled`, `ResultFromBatch`; `CallsReturn` |
| `decode` | 2 slots, 3 frames, a cut before the second, 2 attempts, 1 allocation failure | `RangesConserved`, `LeasesAgree`, `HandedOnce`, `OkCoversAll`; `Returns` |
| `client` | 1 job of a verification, mount and one restart, 2 crashes, time-outs, a cancel, a line that cannot be decoded | `ClientConsistent`, `EndIsTrue`; `WaitsEnd` |

Before the semicolon are invariants, after it action and temporal properties.  Some are
conjunctions of named parts, each with a comment of its own in the module:

* `TerminalAccounts`: `ResultAccountsForAll`, `ResultReportsEverySuccess`,
  `CancelledMatchesDelivered`.
* `SettlementInv`: `SettledOnce`, `DroppedNeverStarts`, `ShutdownSettlesAll`,
  `ExitSettlesOwners`.  `CommandsComplete`: `AcceptedSettles`, `ShutdownAcknowledged`.
* `PipelineInv`: `InflightBounded`; the pipeline's `OutcomeFaithful`: `AcceptedFramesCollected`,
  `FailureNotMasked`.
* `TerminalAgrees`: `ResultComplete`, `CancelledCountsDelivered`.
* `PoolInv`: `CandidateTakenOnce`, and `HeldTaskAlive` and `CompleteHasAll` for as long as
  `misreported` is false (see the observation on the pool below).
* `CacheCorrect`: `CacheConsistent`, `BuiltOnce`.
* `ClientConsistent`: `EndsOnce`, `IndexesAgree`, `CancelNotForgotten`.  `WaitsEnd`: `JobsEnd`,
  `RoundtripsEnd`.
* `RangesConserved`: `RangesDisjoint`, `NothingForgotten`, `ReservedIsLeased`.
* `LeasesAgree`: `CountsAgree`, `LeaseErrorsUnreachable`.

Each run also checks its module's `TypeOK`, by itself or as part of its first invariant.
Deadlock is not checked: every job ends, and a client may fall silent; the liveness
properties say where the system must not stop.

### Observations

Places where the code and what is said of it differ.  Every run but `cuda_stale_hit` holds; the
property named in each case is a definition of the module, and TLC finds it violated when it
is put into the module's configuration.  The first has a run of its own.

| Module | Property | What happens |
|---|---|---|
| `CudaEngine` | `NoStaleHit` (run `cuda_stale_hit`) | `DeviceBuffer::reserve` (cuda_backend.cpp:284) frees a slot's frame buffer and allocates a larger one, and the call that does so (1976-1983) leaves `source_ready` set.  If it fails before its own upload, in that very allocation or in a later one, the slot stays marked with the frame that was in the old buffer.  The next call for that frame hits (2184), uploads nothing, and its kernels read memory that was never written.  The comment at 983-985 says that the comparison cannot produce a stale hit. |
| `VerifyStream` | `CancelSettles` | `request_cancel` (worker.cpp:1348) stores the flag and notifies without `verify_mutex`; a thread that has just found its predicate false misses both.  With no further frame the job never ends (docs/worker-protocol-v1.md:232-234 has it end with `cancelled`). |
| `VerifyStream` | `ResultReportsEveryFrame` | A failed frame is counted (worker.cpp:5649) before its `null` is in the outbox (5677).  If another notification lets the drain loop look in between, it sees every frame counted, drains and ends; the `null` is never sent. |
| `MediaVerifyPipeline` | `StopReturns` | The pipeline's stop callback (worker.cpp:354) notifies without the mutex, with the same gap. |
| `VerifyRing` | `ProducerReleased` without its `unaware` | The same gap, seen by a producer: with the executor or a worker asleep for good, the frames in the inbox are never given back and no terminal event comes, so a producer with a full ring waits for ever. |
| `WorkerSession` | `ExitSettlesAll` | At the end of input a queued media job is reported to its creator only (worker.cpp:1726); requests that joined it get no terminal event, as they do on `shutdown` (2523). |
| `WorkerSession` | `CancelFinishedReported` | `running_` is reset after the terminal event (worker.cpp:2969); a cancel in between is neither a cancellation nor the documented no-op answer. |
| `CpuAnalysisExecutor` | `CompleteHasAll` and `HeldTaskAlive`, as invariants of their own | A thread added for a wider call starts at generation 0 (worker.cpp:1601).  It can wake for the generation of the last call, find no task, be overtaken by the publication of the next, and then be counted for that one: `active_workers_` reaches zero while another thread still works on the `Task`, on the stack of a call that returns without all its candidates.  The ghost `misreported` records such a count; `PoolInv` and `OutcomeFaithful` claim these two parts for as long as there was none, and everything else also afterwards. |
| `AdaptiveDecode` | `EndedMeansDecoder`, with `DecoderReliable = TRUE` | A lease given back half delivered is claimed again; in it, delivered frames are skipped without being flagged, the run never counts as done and the decode fails with "decoder ended before all indexed run frames were produced" (needs `MaxAttempts = 3`). |
| `MediaVerifyJob` | `CancelledTellsPartial` | A cancellation that reaches a software decode as a `WorkerError` leaves `run_media_verify_job` (worker.cpp:5279-5284); `execute_loop` then reports `partial: false` without flushing, whatever was collected (docs/worker-protocol-v1.md:231-234). |
| `MediaVerifyJob` | `CancelledByClient` | A plain exception out of the analysis of a hardware frame has the pipeline request the stop of the whole job; the software decoder that takes over finds it stopped and the job ends as cancelled, though no client asked (docs:514-518 has it continue). |
| `CudaEngine` | `ResultFromResident`, with an `MCProbe` that maps two frames to one value | A slot's frame is recognised by its address and 16 samples (cuda_backend.cpp:983-986): another frame at the same address with equal samples is taken for it.  The code says so; the run assumes that probes tell frames apart. |
| `EngineClient` | `KillsOnlyBusyEngines` | The controller writes `shutdown` without a `request_id` (session.rs:105), which the engine requires (worker.cpp:2497).  It rejects the command and goes on; the controller waits out its five seconds and kills it, an idle engine too (docs/worker-protocol-v1.md:244-245 has the process acknowledge and exit with status 0). |
| `EngineClient` | `ExitFailsDeadWorkersJobs` | `engine-worker-exit` (mod.rs:48) does not name its session.  After a restart the exit of the old engine, handled late, fails a job that the new engine is working on, where workerClient.ts:643-644 speaks of the jobs of a dead worker.  Handlers run late when the main thread waits for the session's mutex, which a restart holds for its round trips. |
| `EngineClient` | `NothingRunsForever`, with two jobs | A line that is not UTF-8 ends the reader thread (session.rs:222) of an engine that lives on and is still given jobs, whose events nobody reads: they "show as running forever", which workerClient.ts:643-644 means to rule out.  `json_escape` (json.cpp:60) passes bytes from 0x80 on as they are, and messages of system exceptions can be in a Windows code page. |

`EndIsTrue` and `WaitsEnd` of `EngineClient` make two exceptions that belong here.  A session
is cut off (`CutOff`) once its reader has met a line it cannot decode: a job may then be shown
as `worker_exit` though it ended, its jobs run unseen, and a command written to it waits for
its time-out.  And `EndIsTrue` speaks only of behaviours in which no event and no cancel of one
session has met a job of another.  The history variable `crossed` records that; besides
`ExitFailsDeadWorkersJobs`, such a meeting can do this:

* The numbers of jobs start again from `job-1` with every process.  A `cancelled` event with
  `not_running` of the old session, which quotes the request of the cancel command and not a
  job's, is resolved by its number and ends the job that has this number in the new session.
* A cancel that was waiting for the mutex during a restart is written to the new session and
  cancels the job that has the number there.
* A job whose invocation was under way when the exit was handled is shown as `worker_exit`
  and then written to the new engine, which runs it unseen.

Seen while modelling, and excluded from the properties by the definition named:

* `CudaEngine`, `outgrown`: a history field of a slot.  It is set when a buffer of a resident
  frame is replaced (the finding above), and by a `Crowded` call: when the shared frames are
  all held and a frame does not fit, the call falls back to its slot's own buffers, which it
  did not reserve because it expected to share (cuda_backend.cpp:1963-1983 and 2183-2196).  An
  upload of a frame clears it.  `ResultFromResident` makes an exception for calls that read
  the buffers of such a slot, and for no others: their plans, and the shared frames, are right
  nonetheless.
* `VulkanEngine`, `Blocked`: a `vkQueueSubmit` that fails after `vkResetFences`
  (vulkan_backend.cpp:2281-2284) leaves the slot's fence unsignalled; whoever gets that slot
  next waits for the fence without end.
* `PlanSupply`, packs of header "twice": a verify job queues its requests without dropping
  duplicates, so that the pack of a square frame has one key twice and is rejected whenever it
  is read (worker.cpp:2868-2870); it costs a rebuild, never a wrong plan.  A short write that
  shows only when the stream is closed has the same effect.
* `MediaVerifyJob`, `IndexFails`: a cancellation during the indexing of a Metal job is rethrown
  outside the handler that turns it into `cancelled` (worker.cpp:4571-4572, 4647-4652) and ends
  as the error `internal`.  The source has this for Metal only.
* `AnalyzeJob`: a cancelled job's progress may have gone beyond the candidates its cancelled
  event lists (chunks behind a gap), and a CPU failure is reported as an error although the
  job is cancelled.

### Bounds

* Three frames with a batch of two give a full batch, a partial one and a final drain; two
  workers give every order of pops, counts and pushes.  `BatchSize` is a parameter: the code
  computes `max(1, min(64, 2 * workers))`, which is the value used with one worker.
* Two slots and four frames use every slot of the ring twice, so that a slot is refilled while
  its generation before is still being given back.
* Two index requests are the owner and a joining subscriber, with a media job to queue behind
  and an analysis job for the other executor.  A third subscriber or job repeats a role.
* With two workers the pipeline's limit is reached by the second frame and exceeded by the
  third if anything is wrong.  `SessionsWithinConcurrency` (no more decode sessions than
  workers) is what `decode_budget` (decode_control.hpp:79-94) enforces; it matters, because
  `push` uses `notify_one` on a condition variable that producers share, and with more
  sessions than workers `Returns` does fail.
* Three frames in `media_job` leave one, two or three to the software decoder, in every
  combination that out-of-order completion allows, and with a batch of two a short one.
* Seven candidates in chunks of two are four chunks, the last one short, for three threads;
  two candidates are the single chunk that is not pipelined.
* The CPU job of `analyze` finds no pool, a pool of one or a pool of two threads, which an earlier
  job left, and asks for one or two: seven candidates for two threads, and threads of the pool
  that the job has no work for.  The pool of one grows in a call that is not its first, so a
  thread that reports for the wrong generation is among the behaviours.
* In `plans`, an analyze grid of two chunks repeats a candidate; its plans do not fit the
  cache together, so a plan prefetched from the store can be gone when its chunk comes.  Two
  verification jobs are a square frame, with its request twice, and a single axis.  One crash
  and one disturbance (damage, removal or publication by another engine) can fall between any
  two steps; two of each only repeat them.
* In `cuda` and `vulkan`, three calls are what it takes for a slot to be filled, refilled by
  another batch or frame and asked for the first again; two callers on one slot wait for each
  other, on two they use one input cache, or one decoder frame, at once.  A larger frame, from
  the host or from the decoder, makes a slot's buffers grow, and a failure can fall between
  any two of the call's allocations and uploads.
* In `client`, a mount and one restart are an old and a new session.  With two crashes both
  can die, each at any step.  A job can be submitted in either, cancelled before or after
  `accepted`, and cross the restart.  Two jobs, which can be open in one session or have the
  same number in two, make 4.6 million states without any crash: `ClientConsistent` and
  `EndIsTrue` hold there too (`Jobs = {a, v}`, `MaxCrashes = 0`, specification `Spec`), and the
  theorems cover both for any number of jobs, restarts and crashes.
* In `decode`, the tail behind the cut has two frames, so it can be half delivered when it is
  given back.  `MaxAttempts` is 2 (3 in the code): one retry and the last attempt.
  `MaxShortages` bounds allocation failures, which could otherwise recur forever.  The
  scheduler's own invariants are proved without any of these bounds.

### Fairness

Weak fairness of every thread that is inside the program: analysis workers, executors,
decode sessions, the controller, a stop callback that has begun, the callers of an engine or
of the plan cache, and the reader while it is inside a handler.  This is the operating
system's scheduling.  No command, frame, cancellation,
stop, crash or disturbance has to happen, so `EndedSettles` starts from an ended stream and
`AcceptedSettles` from an accepted request.  In `ring` the producer is assumed to read the
events it is sent, as a client must.  The analysis of a frame or a candidate is assumed to end,
because the steps that stand for it are fair.

That a whole job ends is not assumed in `session`: a streamed job ends only when its client
sends `verify_end`, and a cancelled one may have a thread that missed the notification.
`FinishJob` and `FinishMediaJob` are not fair there; `CommandsComplete` has the hypothesis
`JobsReturn`, `MediaJobsReturn` or both instead.  So a job that hangs is seen to hold up the
jobs behind it on its own executor, and a shutdown, but never the jobs of the other executor.
Nothing is assumed of what is cancelled either: `Returns` of the pipeline and `Settles` of the
media job are claimed for runs the client does not cancel (the cancelled ones are
`StopReturns`), and in `ring` the executor does not finish while a thread is `unaware`.

`Returns` of `AdaptiveDecode` assumes that `deliver`, a call into the pipeline, returns or
throws; after a stop, `push` may miss its notification and do neither.  `plans` assumes only that, while some caller
can run, one does: jobs are finitely many, so none waits for `build_mutex` for ever.  In `client` the flows and
handlers of controller and interface, the reader threads and the engine processes are fair:
an engine that lives reads its commands and is assumed to end its jobs, which a cancelled
verification with a thread that missed the notification does not.  Nothing makes a time-out strike, an
engine die or the user act; `RoundtripsEnd` therefore shows that no command needs the time-out
unless its session is cut off.
Killing an engine at the deadline is fair, because the deadline passes; it is taken to be
longer than the engine needs to read the commands it was sent (`Kill`).  The controller
of `AdaptiveDecode` must claim an interval only when it has no session left; splitting and
further sessions depend on measurements and are never assumed.

## 4. Proofs

Eight modules hold theorems.  `tlapm` checks every leaf; nothing is assumed but the named
assumptions on the constants, which TLC evaluates in the runs of the same modules.

**`VerifyStream_proof`** (for any number of workers and frames and any batch size; assumptions
`ThreadsDistinct`, the reader, the executor and the workers are different threads,
`BoundsPositive` and `WorkersFinite`).

* `TypesHold`: `Spec => []TypeOK`.
* `ReportedOnceHolds`: `Spec => []ReportedOnce`.  That no frame is reported twice is not
  inductive, because it says nothing of the frames still on their way.  A frame's result moves
  from `verify_outbox` to the local `pending` of the draining thread and from there to the
  events delivered, always at the end; so the three are one sequence, `Produced`, that only
  grows at its end.  The inductive invariant
  `IInv == TypeOK /\ PendingEmpty /\ WorkersUnborn /\ NoFrameTwice` says that the frames
  waiting in the inbox, those in the workers' hands and those in `Produced` never coincide.
  `PendingEmpty` is needed where a batch is replaced, `WorkersUnborn` where the workers start.
* `TerminalAccountsHolds`: `Spec => []TerminalAccounts`.  A second invariant on top of `IInv`,
  `Truthful`, balances the books (`Tally`): a frame received waits in the inbox, is in the hands
  of a worker that has not counted it, or is counted; a frame counted is in `Produced`, but for
  the nulls counted and not pushed yet (`Nulls`).  So when the drain loop sees all frames counted
  and an empty inbox, nobody holds one (`CompleteCounted`), and from then on only nulls reach the
  outbox (`EndDrained`): a `result` misses no success, though it may miss nulls.  A cancelled
  job drains again after the workers have returned (`CancelGone`, `CancelDrained`), so it misses
  nothing.
* `ContractImplemented`: `Spec => ImplementsContract`.  Emitting a batch reports frames received
  and not reported before (from `NoFrameTwice`), and no batch is emitted after the terminal
  event (from `Truthful`).

**`AdaptiveDecode_proof`, first part: the scheduler** (any number of frames, any set of cuts
inside the selection, any client; assumption `CutsInterior`).

* `RangesConservedHolds`: no frame in two intervals, none forgotten, none handed over outside a
  lease (`RangesDisjoint`, `NothingForgotten`, `ReservedIsLeased`) hold of `SchedulerSpec`, in which a client calls any method at any time.  They
  are inductive together with the types (`SchedulerInv`): a split needs intervals that lie in
  the selection, and a claim needs leases below `next_lease`, so that the new one is new.  The
  proof has a lemma per operation, and lemmas on what `Tail`, `Append` and putting an element
  in front do to a sequence.
* `CountsAgreeHolds`: the running count of a lease is the number of delivered frames in its
  interval.  A claim counts what earlier leases left; a split takes away only undelivered
  frames; a commit adds a frame that was not counted, to this lease alone because leases are
  disjoint.

**`AdaptiveDecode_proof`, second part: the decode** (any number of slots, attempts and allocation failures, any anchors;
assumptions `SlotsHaveFirst`, `CutsAreAnchors` and `DecodeBounds` besides).

* `ImplementsScheduler`: `Spec => SchedulerSpec`.  Every step of a session or of the
  controller is a step of the scheduler or leaves it alone, so the four theorems above hold
  of the decode.  What has to be shown is that the decode calls `reserve`, `commit` and
  `abandon_delivery` only for ordinals of the selection.
* `HandedOnceHolds`: `Spec => []HandedOnce`.  Between the delivery of a frame and its commit
  the scheduler does not know yet that the frame is gone.  `HandInv` says that in between the
  frame stays reserved and a single session holds it (`HeldOnce`), and that a frame was handed
  over once if it is delivered or held by a session about to commit, and never otherwise
  (`HandedExactly`).
* `LeasesAgreeHolds`: `Spec => []LeasesAgree`.  `LeaseInv` says what a session knows of its
  lease.  The lease is its own (`OwnedOnce`), still begins where it was claimed and can only
  have been shortened; what lies before the current run, and what the run has flagged, is
  delivered (`SessionOK`).  Hence a session that finished its last run has a complete lease,
  although a split may have moved its end; one that stops because `finished()` says so has
  one because the count is right (`FinishedCompletable`).  A lease that is given back has no
  reserved frame, because each reserved frame is held by some session (`ReservedHeld`), and
  the session that gives up holds none.
* `OkCoversAllHolds`: `Spec => []OkCoversAll`.  While nothing has failed every lease has its
  session (`LeaseOwned`), and a normal end leaves neither a session nor a waiting interval
  (`Ending`); so by `NothingForgotten` every frame is delivered, and by `HandedExactly` handed
  over once.

**`EngineClient_proof`, second part: the ring** (`VerifyRing`, a model of its own that uses nothing
of the client's; any number of slots, workers and frames; assumptions `RingBoundsOK` and
`NoFrameIsNoFrame`).

* `RingIsSafe`: `RingSpec => []RingInv`.  What matters is `SlotStable`: while a worker reads a
  slot, the slot holds the frame it was announced with.  That is inductive only together with
  `OnePlace` (an announcement not given back is on its way, in the inbox, with one worker or
  on its way back, and nowhere twice) and `Awaited` (the producer waits for exactly that
  announcement).  A repeated announcement is refused because its generation is not above the
  one `verify_slot_generations` remembers; were it queued, its `verify_consumed` could free a
  slot that is being read.

**`WorkerSession_proof`** (any set of requests; assumption `RequestsDistinct`).

* `SettlementHolds`: `Spec => []SettlementInv`.  That no request is settled twice and that none
  is left at the end says nothing of the requests in between.  The invariant follows every job
  through the places it can be at: on its way to a queue, in it, taken out of it again by a
  cancel command or the end (`dropped`), running, finishing.  `JobsOnce` says that it is at one
  of them only, `Subscriptions` that a request is of one job only, the one it created or the
  one it joined.  From these follows `Distinct`: two jobs at some place share no request.  Then
  `Unsettled` (a request owed its terminal event has none) and `Covered` (an accepted request
  that has none is owed it by a job at some place) are inductive, with the one exception of the
  code: a request that joined another's job when the commands end.  When the three threads are
  at their ends there is no place left, so nothing is owed and all are settled.  The proof has
  a lemma per action; `Control` relates the places of the threads.
* `ShutdownIsLastHolds`: `Spec => ShutdownIsLast`, an action property.  When the acknowledgement
  is out, `Control` has the reader closed and both executors returned; so every step that
  writes an event is disabled (`NothingFollows`).

**`EngineClient_proof`** (any number of jobs, restarts and crashes; assumptions `JobsFinite`,
`FaultsBounded` and `NamesDistinct`).

* `ClientConsistentHolds`: `Spec => []ClientConsistent`, from a theorem for each part.  The inductive
  invariant is `ControllerOK /\ WorkOK /\ LinesOK /\ ClientOK`.  What the client keeps is
  consistent because a job leaves all indexes at once, and `cleanupTracked` finds the entry by
  engine id through the job's own `engineJobId`.  That it finds the right one needs more than
  the client: a job is written to one engine at most, in one command (`ControllerOK`), so it
  gets one number, and each `accepted` on its way quotes it (`AcceptedTrue` in `LinesOK`).  So
  a second `accepted` cannot leave an entry under a number the job no longer has, even when
  lines of several sessions mix.  That numbers stay within `EngineIds` is a counting argument
  (`WorkOK`): a session has numbered no more jobs than were written to it.

* `EndIsTrueHolds`: `Spec => []EndIsTrue`, from a second invariant on top, `TruthInv`.  What is
  shown must stay true while the engine goes on, so the invariant says more (`ShownOK`):
  `worker_exit` is shown when the process is dead, not merely when it has not ended the job yet,
  and `submit_failed` when the call has returned without an engine.  Lines are read in order and
  events handled in order, which is what makes `worker_exit` true: every end the engine wrote
  is ahead of the exit, in the pipe or on the wire (`EndsSaid`, `WireOK`), so the client has
  ended the job before it gets there.  The answer to a late cancel, which quotes only a number,
  finds the job it means because numbers are not reused (`NumbersOK`, `CommandsOK`) and the job's
  own end is ahead of it (`PipeOK`).

**`AnalyzeJob_proof`** (any number of threads, candidates, chunks and calls; assumptions `BoundsOK`
of the pool and `AnalyzeBoundsOK`).  The pool may grow in every call.  What a thread it grew by
can break is conditional on `misreported` in the properties themselves, and accordingly in the
inductive invariant: `Lifecycle`, `Holding`, `CandidatesOK` and `Fresh` hold always, `Exact`
(`AllPresent`, `Counted`, `Explained`, `CompleteHasAll`) as long as `misreported` is false.
`AllPresent` and `Counted` are what a wrong count would break first: between two calls every
thread of the pool waits, and during one `active_workers_` is the number of those still to report.

* `PoolIsSafe`: `ExecutorSpec => []PoolInv`, for any caller.  The caller
  may return, and a later call reuse the executor's fields, as soon as `active_workers_` is
  zero.  Three parts of the inductive invariant make that right: `Counted`, the count is the
  number of threads of the task that have not left it; `Explained`, a thread leaves a task only
  after a failure, a stop or the cursor's end, and every candidate before the cursor is done or
  in the hands of one thread; `Fresh`, a call not made yet has touched no candidate.
  `Holding` and `CandidatesOK` are about one candidate being in one thread's hands.
* `JobPoolIsSafe`: `Spec => []PoolInv`, the same under the job, whose stops and whose progress
  callback are steps of their own.
* `ProgressOrderedHolds` and `OutcomeFaithfulHolds`: `Spec => []ProgressOrdered` and
  `Spec => []OutcomeFaithful`, from the invariant `JobInv` on top of the pool's.  Results and the
  counter are written by different threads at different times, so the invariant says
  where each chunk is.  It is unclaimed, in the hands of one thread or done (`OwnChunk`,
  `OneHolder`, `NoneLost`); a candidate has its result exactly if its chunk is stored
  (`ResultsStored`); and `done_candidates` counts the candidates of the done chunks, but for those
  that wait for `progress_mutex` (`ProgressCounted`), so what is emitted under the mutex only
  grows.  On the pool, that the last report is the total needs `PoolProgress`: the thread that
  counts the last candidate has reported it or still will, and the call does not return before
  it has.

**`MediaVerifyJob_proof`** (any number of selected frames, any concurrency and batch size;
assumption `JobBoundsOK`).

* `DeliveredOnceHolds`: `Spec => []DeliveredOnce`.  Neither events nor batch alone show that a
  frame is not sent again; together they are what was collected (`Kept`).  A frame is at one
  place of the running pipeline and at none once it is collected (`OnePlace`); this carries over
  from the hardware pipeline to the software pipeline because the latter is given exactly the
  seqs that `finished_seqs` lacks.  The pipeline is the contract's, whatever its threads do.
* `TerminalAgreesHolds`: `Spec => []TerminalAgrees`.  `NoneLost`: every selected frame is
  collected or was given to the running pipeline, which loses none before it fails or is stopped;
  so a normal return has collected all (`AllCollected`).  `ProgressFollows`: a result can be
  collected after that of a later count, but as long as the progress lags behind the latest
  count, the result that carries it is still to be collected.  That `std::sort` by seq then
  leaves each frame at its own place, and that a pipeline can be given its frames in order,
  are lemmas on numbers (`SortedFrames`, `AscendingExists`), proved by least counterexamples.

**`MediaVerifyJob_proof`, second part: the plans** (`PlanSupply`, a model of its own that uses
nothing of the job's; any number of callers, any plan sizes, limits, chunk size, crashes and
disturbances; assumptions `CacheLimitsOK`, `JobsOK`, `SupplyBoundsOK` and `NoneIsNothing`).
The inductive invariant `PlanIInv` has also been checked on the states of the `plans` run.

* `CacheCorrectHolds`: `SupplySpec => []CacheCorrect`.  Each operation of the cache
  is proved to make a good cache of a good one (`GoodCaches`), the byte count included: what
  `BytesOf` is of a sequence that is cut, moved or put together follows from lemmas on recursive
  sums, proved by least counterexamples.  That nothing is built twice is not inductive.
  `CountsOK`: a key that is not resident was lost as often as it was built; and `BuildsOK`: what
  the holder of `build_mutex` is about to build was not resident when it looked, so it has been
  lost as often as it was built, and a fetch that makes it resident meanwhile does not change that.
* `PlansMatchRequestsHolds`: `SupplySpec => []PlansMatchRequests`.  `CallerOK`: the plans
  a caller has answer the first of its requests, those it found ready are of their keys, and it
  never publishes a fetch that was garbled; every resident plan is of its key.

**`MediaVerifyPipeline_proof`** (any number of analysis workers, decode sessions and frames;
assumptions `ThreadsDistinct`, `BoundsOK` and `SessionsWithinConcurrency`).

* `PipelineIsSafe`: `Spec => []PipelineInv`.  `inflight_` is a counter that is changed at five
  places; the invariant says what it counts (`SlotsCounted`): the frames queued and the workers
  that occupy a slot, among them those whose analyzer threw and that never give it back.  For
  the types the frames completed have to be counted too (`FramesCounted`): completed, under
  analysis, queued and about to be pushed, they are no more than the decoder produced.
* `OutcomeFaithfulHolds`: `Spec => []OutcomeFaithful`.  A frame is at one place (`OnePlace`)
  and, while no worker has failed, nothing was given up and no session has thrown, at some place
  (`Everywhere`).  `ExitOrder` says why a worker leaves, `FailureOrder` who raises what, and
  `DecoderOrder` and `RunOrder` relate the threads to where `run()` is.  So when `run()` returns
  without a failure or a stop, every worker left because the decoder was done and the queue
  empty; none holds a frame, no slot is occupied, and the only place left is the collector.
* `PipelineImplementsContract`: `Spec => ImplementsContract`, from the same invariant.  The
  steps that only move a thread, change a counter or wake somebody show the job nothing
  (`Unseen`, `Stutters`); a lemma per remaining action gives the step of the contract.  Three
  facts carry it: that the frames are apart (`SeenOnce`), so a frame that leaves a thread leaves
  the set; that `inflight_` counts no less than the frames the job sees (`ContractBound`), so a
  push is within the concurrency; and `FailureOrder`, so nobody takes a frame after a failure.
  `EndsAsPromised` adds the end: `run()` returns or throws only when the contract's `PipelineOver`
  holds, and as its `Thrown` says.

**`VulkanEngine_proof`** (any number of callers, slots, batches and images, any bounds on
calls, failures and decodes; assumption `VulkanBoundsOK`).  Both properties are about what the device
reads after the host has gone on; the inductive invariant `IInv` ties the two sides together.

* `FramesSettledHolds`: `Spec => []FramesSettled`.  `LocksInv`: the frame is locked by the one call
  that has not submitted its conversion, and that call knows the frame's `sem_value`.  So the next
  submission waits for a value nobody waits for yet, and `ValuesInv` holds: exactly one
  submission, the decoder's or a slot's first, waits for each value from the timeline up to
  `sem_value`.  `ConversionsInv`: the call a pending conversion belongs to has not returned,
  because it waits in `Drained` even when it has failed.
* `ResultFromBatchHolds`: `Spec => []ResultFromBatch`.  A call takes a slot in whatever state
  earlier calls have left it.  `SlotsInv` says what is certain of a slot nonetheless: a
  conversion is the first of its work and an analysis the last, the fence of what is pending is
  not signalled, and plans count as uploaded only if nothing is pending and the device holds
  the plans `resident` names.  `OwnersInv` says that a slot has one caller, and what that caller relies on from its
  packing to its end.

**`WorkerSession_proof`, second part: CUDA** (`CudaEngine`, a model of its own that uses nothing of
the session's; any number of callers, slots, frames and batches, any budget of the input cache,
any bounds on calls and failures; assumption `EngineBoundsOK`).  A slot's buffers, flags and identities are written at different
places of a call that can fail between any two of them, so neither property is inductive.  The
invariant `CudaIInv`, which holds in every state of the `cuda` run too, says what is certain of a
slot at any time.

* `ResourcesOwnedHolds`: `CudaSpec => []ResourcesOwned`.  `CudaOwnersInv`: a slot is busy
  exactly if some call has it, and then only one.  `CacheInv`: no two entries have one
  identity, and the entry a call holds is still in the cache.  An eviction, of a call that
  uploads a frame as of one that adds a transposed frame, removes only entries nobody holds.
* `ResultFromResidentHolds`: `CudaSpec => []ResultFromResident`.  `CudaSlotsInv`: what is
  marked as ready is there.  Ready plans are those `identity` names, and they are staged, too;
  a ready frame has the probe of `source_identity`, and its transposed frame is of that very
  frame, unless the slot is `outgrown`.  `CudaOwnersInv` also says what a call relies on from
  `Prepare` to `Run`: its plans are staged, a hit means that they are on the device, and unless
  it may share the frame the buffers are large enough for it.  `CudaCallsInv`: a shared frame
  a call has taken stands for its own.
* `BytesAccountedHolds`: `CudaSpec => []BytesAccounted`.  `Retained` is a fold that picks
  the entries in an order of its own.  `RetainedWithout` and `RetainedApart` show that the order
  does not matter, by least counterexamples in the number of entries: what is left when entries
  are evicted is the difference, and what is added is added once, because no entry that stays has
  the identity of the one that is added (`CacheInv`).

The three models in a second part are unrelated to the first; their specifications have names of
their own (`RingSpec`, `CudaSpec`, `SupplySpec`), so that one module can extend both.

What stays with TLC: liveness (under fairness), because the prover does not handle `ENABLED`.
Every safety property of a passing run is a theorem.

## 5. Not modelled

The map covers the concurrent and the stateful core; most of the remaining lines are
numerical kernels and their dispatch, decoders that call FFmpeg, NVDEC, Vulkan Video or
VideoToolbox, autotuning and benchmarks, parsing and formatting, user-interface pages and
tests, of which a state machine says little.  In particular:

* *Kernels and numerical planning* (SIMD, CUDA, Vulkan and Metal kernels, the axis planner's
  linear algebra, geometry, throughput estimates): floating point.
* *Codecs and devices*: I/O and pixel conversion.  `AdaptiveDecode` takes of a decoder the
  frames it outputs, its end and its failure; `MediaVerifyJob` the same of a whole decode.
* *The rest of the controller and the interface* (project store, frame assets, run groups,
  reducers, preview hook, media service): they keep files, caches and views, each for one
  thread.
* *Event output*: an event is one step, because `WorkerSession::emit` writes a line under
  `emit_mutex_`; `emit_static_error`, which does not, is listed as a hazard.

Of `EngineClient`'s parts the following is left out: the media jobs of `media/service.ts`,
which have a listener of their own; progress and warning events, which change no index; the
stderr thread; the check of `hello`'s protocol version; `connectPromise`, since every
`connect()` of App.tsx follows the mount or a shutdown; the shutdown event on the client's
side, which this controller cannot cause (`KillsOnlyBusyEngines`).

Of the other modelled parts the following is left out: time accounting, telemetry and warnings
other than those properties mention, the pool's destructor, the fixed-tier start of several
decode sessions, the measurements that decide how many sessions to use, the CUDA engine's
host plan cache (it saves a computation whose result is the same), memory budgets of slots
(a hit may become a miss), device creation and autotuning.

Some data is coarser than the code, where no property depends on it:

* `CudaEngine`: a copy through a pinned buffer that was never allocated (cuda_backend.cpp:2190-2193)
  is undefined and modelled by the outcome that goes unnoticed, garbage in the slot.  A call's end
  is taken to find the stream idle, although `stream_synced` (2520) only says that it was waited
  for once.  The buffer of a transpose that fails (2074) stays allocated and uncounted.
* `AdaptiveDecode`, `RunEnd`: a dense interval is one run and a sparse one a run per keyframe; a
  change of the codec's extra data (media_decode.cpp:1142), which ends a run too, and Vulkan's
  merging of runs with one safe anchor (3304-3317) are left out.
