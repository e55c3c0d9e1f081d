---------------------------- MODULE WorkerSession ----------------------------
(***************************************************************************)
(* The job lifecycle of the engine worker (engine/src/cli/worker.cpp:      *)
(* WorkerSession and run_worker): a reader thread that executes one command *)
(* at a time, an executor that runs analyze and verify jobs, and a media    *)
(* executor that runs media jobs, each with its own queue and mutex.        *)
(*                                                                         *)
(* A job is named by the request that created it.  An index request for a   *)
(* file that is already being indexed joins the existing job and becomes    *)
(* one of its subscribers.  What a job computes is abstracted to the kind   *)
(* of its terminal event (VerifyStream has the inside of a verify job).     *)
(* An emitted line is one step; a critical section is one step.             *)
(* Rejected commands emit an error and change nothing; they are left out.   *)
(***************************************************************************)
EXTENDS Naturals, Sequences, SequencesExt

CONSTANTS JobRequests,     \* analyze, verify_begin, verify_media_begin
          IndexRequests,   \* media_index_begin, all for one file and stream
          MediaRequests,   \* media_frame_window, media_preview_begin, media_asset_batch_begin
          None

Requests == JobRequests \cup IndexRequests \cup MediaRequests

ASSUME RequestsDistinct ==
    /\ None \notin Requests
    /\ JobRequests \cap (IndexRequests \cup MediaRequests) = {}
    /\ IndexRequests \cap MediaRequests = {}

VARIABLES queue_, running_, stopping_,                   \* guarded by mutex_
          media_queue_, media_running_, media_stopping_, \* guarded by media_mutex_
          subscribers, accepting_subscribers,            \* per media job, same mutex
          cancel_requested,                              \* per job
          executor, media_executor,                      \* where the two threads are
          finishing,      \* the media executor's snapshot of subscribers to settle
          media_outcome,  \* and the terminal event it gives them
          reader,         \* where the reader is
          target,         \* the job its current command is about
          dropped,        \* jobs it took from a queue and has to report as cancelled
          told,           \* how many requests of the first of them have been told
          ending,         \* "no", "shutdown" (the command) or "eof"
          \* what was written to the client so far
          accepted,       \* requests whose `accepted` is out
          terminals,      \* the terminal events of each request
          acknowledged,   \* the `shutdown` event is out
          started         \* jobs an executor has taken from its queue

jobs == <<queue_, running_, stopping_, executor, started>>
media == <<media_queue_, media_running_, media_stopping_, subscribers, accepting_subscribers,
           media_executor, finishing, media_outcome>>
dropping == <<dropped, told>>
command == <<reader, target, dropping, ending>>
events == <<accepted, terminals, acknowledged>>
vars == <<jobs, media, cancel_requested, command, events>>

Init == /\ queue_ = <<>> /\ running_ = None /\ stopping_ = FALSE
        /\ media_queue_ = <<>> /\ media_running_ = None /\ media_stopping_ = FALSE
        /\ subscribers = [r \in Requests |-> <<r>>]
        /\ accepting_subscribers = [r \in Requests |-> TRUE]
        /\ cancel_requested = [r \in Requests |-> FALSE]
        /\ executor = "wait" /\ media_executor = "wait"
        /\ finishing = <<>> /\ media_outcome = "none"
        /\ reader = "idle" /\ target = None /\ dropped = <<>> /\ told = 0
        /\ ending = "no"
        /\ accepted = {}
        /\ terminals = [r \in Requests |-> <<>>]
        /\ acknowledged = FALSE
        /\ started = {}

Emit(r, kind) == terminals' = [terminals EXCEPT ![r] = Append(@, kind)]
In(j, q) == \E i \in 1 .. Len(q) : q[i] = j

\* Mutant: accepting_subscribers is not looked at.
JoinableWhileListed(j) == j = media_running_ \/ In(j, media_queue_)

\* An index job a further identical request may join.
Joinable(j) == accepting_subscribers[j] /\ (j = media_running_ \/ In(j, media_queue_))

-----------------------------------------------------------------------------
(* The reader: submitting jobs.                                            *)

\* analyze, verify_begin, verify_media_begin and the media begins: `accepted`
\* goes out before the job becomes visible to its executor.
AcceptJob(r) ==
    /\ reader = "idle"
    /\ r \notin accepted
    /\ r \in IndexRequests => ~\E j \in IndexRequests : Joinable(j)
    /\ accepted' = accepted \cup {r}
    /\ reader' = "enqueue"
    /\ target' = r
    /\ UNCHANGED <<jobs, media, cancel_requested, dropping, ending, terminals, acknowledged>>

Enqueue ==
    /\ reader = "enqueue"
    /\ IF target \in JobRequests
       THEN queue_' = Append(queue_, target) /\ UNCHANGED media_queue_
       ELSE media_queue_' = Append(media_queue_, target) /\ UNCHANGED queue_
    /\ reader' = "idle"
    /\ target' = None
    /\ UNCHANGED <<running_, stopping_, executor, started, media_running_, media_stopping_,
                   subscribers, accepting_subscribers, media_executor, finishing,
                   media_outcome, cancel_requested, dropping, ending, events>>

\* Mutant: the joining request also gets a job of its own.
JoinAndEnqueue(r) ==
    /\ reader = "idle"
    /\ r \in IndexRequests \ accepted
    /\ \E j \in IndexRequests :
         /\ Joinable(j)
         /\ subscribers' = [subscribers EXCEPT ![j] = Append(@, r)]
    /\ media_queue_' = Append(media_queue_, r)
    /\ accepted' = accepted \cup {r}
    /\ UNCHANGED <<jobs, media_running_, media_stopping_, accepting_subscribers,
                   media_executor, finishing, media_outcome, cancel_requested, command,
                   terminals, acknowledged>>

\* media_begin under media_mutex_: an identical index job that still takes
\* subscribers gets one more, and the request is accepted under the same lock.
JoinIndexJob(r) ==
    /\ reader = "idle"
    /\ r \in IndexRequests \ accepted
    /\ \E j \in IndexRequests :
         /\ Joinable(j)
         /\ subscribers' = [subscribers EXCEPT ![j] = Append(@, r)]
    /\ accepted' = accepted \cup {r}
    /\ UNCHANGED <<jobs, media_queue_, media_running_, media_stopping_, accepting_subscribers,
                   media_executor, finishing, media_outcome, cancel_requested, command,
                   terminals, acknowledged>>

-----------------------------------------------------------------------------
(* The reader: cancel.                                                     *)

\* Mutant: the cancelled job is reported but stays in its queue.
StillQueued(q, i) == q

\* The queue without the job that a cancel command took out of it.
Unqueued(q, i) == RemoveAt(q, i)

\* Under mutex_: flag the running job, or take a queued one out.
CancelJob(j) ==
    /\ reader = "idle"
    /\ \/ /\ running_ = j
          /\ cancel_requested' = [cancel_requested EXCEPT ![j] = TRUE]
          /\ UNCHANGED <<queue_, reader, target, dropped>>
       \/ /\ running_ # j
          /\ \E i \in 1 .. Len(queue_) : queue_[i] = j /\ queue_' = Unqueued(queue_, i)
          /\ dropped' = <<j>>
          /\ reader' = "emit_cancelled"
          /\ UNCHANGED <<cancel_requested, target>>
       \/ /\ running_ # j
          /\ ~In(j, queue_)
          /\ reader' = "cancel_media"
          /\ target' = j
          /\ UNCHANGED <<cancel_requested, queue_, dropped>>
    /\ UNCHANGED <<running_, stopping_, executor, started, media, told, ending, events>>

\* Under media_mutex_, for a job the other queue does not have.
CancelMediaJob ==
    /\ reader = "cancel_media"
    /\ \/ /\ media_running_ = target
          /\ cancel_requested' = [cancel_requested EXCEPT ![target] = TRUE]
          /\ reader' = "idle"
          /\ UNCHANGED <<media_queue_, dropped>>
       \/ /\ media_running_ # target
          /\ \E i \in 1 .. Len(media_queue_) :
                media_queue_[i] = target /\ media_queue_' = Unqueued(media_queue_, i)
          /\ dropped' = <<target>>
          /\ reader' = "emit_cancelled"
          /\ UNCHANGED cancel_requested
       \/ /\ media_running_ # target        \* the `not_running` event
          /\ ~In(target, media_queue_)
          /\ reader' = "idle"
          /\ UNCHANGED <<media_queue_, dropped, cancel_requested>>
    /\ target' = None
    /\ UNCHANGED <<jobs, media_running_, media_stopping_, subscribers, accepting_subscribers,
                   media_executor, finishing, media_outcome, told, ending, events>>

\* Mutant: only the request that created a dropped job is told, as request_stop does.
ToldOwner(j) == <<j>>

\* The requests that are told of a dropped job: every subscriber, but only the one that
\* created it when the command stream ends (request_stop).
Told(j) == IF ending = "eof" THEN <<j>> ELSE subscribers[j]

\* One `cancelled` event for each of them.
EmitCancelled ==
    /\ reader = "emit_cancelled"
    /\ IF dropped = <<>>
       THEN /\ reader' = IF ending = "no" THEN "idle" ELSE "join"
            /\ UNCHANGED <<dropping, terminals>>
       ELSE LET requests == Told(Head(dropped))
            IN /\ Emit(requests[told + 1], "dropped")
               /\ IF told + 1 = Len(requests) THEN dropped' = Tail(dropped) /\ told' = 0
                  ELSE told' = told + 1 /\ UNCHANGED dropped
               /\ UNCHANGED reader
    /\ UNCHANGED <<jobs, media, cancel_requested, target, ending, accepted, acknowledged>>

-----------------------------------------------------------------------------
(* The reader: shutdown, and request_stop when the command stream ends.     *)

\* Mutant: the queue is cleared without keeping what it held.
StopUnreported(reason) ==
    /\ reader = "idle"
    /\ stopping_' = TRUE
    /\ queue_' = <<>>
    /\ cancel_requested' = [j \in Requests |-> cancel_requested[j] \/ j = running_]
    /\ reader' = "stop_media"
    /\ ending' = reason
    /\ UNCHANGED <<running_, executor, started, media, target, dropping, events>>

Stop(reason) ==
    /\ reader = "idle"
    /\ stopping_' = TRUE
    /\ dropped' = queue_
    /\ queue_' = <<>>
    /\ cancel_requested' = [j \in Requests |-> cancel_requested[j] \/ j = running_]
    /\ reader' = "stop_media"
    /\ ending' = reason
    /\ UNCHANGED <<running_, executor, started, media, target, told, events>>

\* Mutant: the media executor is not told to stop.
StopMediaUntold ==
    /\ reader = "stop_media"
    /\ media_queue_' = <<>>
    /\ dropped' = dropped \o media_queue_
    /\ cancel_requested' = [j \in Requests |-> cancel_requested[j] \/ j = media_running_]
    /\ reader' = "emit_cancelled"
    /\ UNCHANGED <<jobs, media_running_, media_stopping_, subscribers, accepting_subscribers,
                   media_executor, finishing, media_outcome, target, told, ending, events>>

StopMedia ==
    /\ reader = "stop_media"
    /\ media_stopping_' = TRUE
    /\ media_queue_' = <<>>
    /\ dropped' = dropped \o media_queue_
    /\ cancel_requested' = [j \in Requests |-> cancel_requested[j] \/ j = media_running_]
    /\ reader' = "emit_cancelled"
    /\ UNCHANGED <<jobs, media_running_, subscribers, accepting_subscribers, media_executor,
                   finishing, media_outcome, target, told, ending, events>>

\* Mutant: shutdown joins one executor only.
JoinOneExecutor ==
    /\ reader = "join"
    /\ executor = "exited"
    /\ acknowledged' = (ending = "shutdown")
    /\ reader' = "closed"
    /\ UNCHANGED <<jobs, media, cancel_requested, target, dropping, ending, accepted, terminals>>

\* Both executors have returned: acknowledge a shutdown command, then exit.
JoinExecutors ==
    /\ reader = "join"
    /\ executor = "exited"
    /\ media_executor = "exited"
    /\ acknowledged' = (ending = "shutdown")
    /\ reader' = "closed"
    /\ UNCHANGED <<jobs, media, cancel_requested, target, dropping, ending, accepted, terminals>>

-----------------------------------------------------------------------------
(* execute_loop.                                                           *)

StartJob ==
    /\ executor = "wait"
    /\ ~stopping_
    /\ queue_ # <<>>
    /\ running_' = Head(queue_)
    /\ queue_' = Tail(queue_)
    /\ started' = started \cup {Head(queue_)}
    /\ executor' = "run"
    /\ UNCHANGED <<stopping_, media, cancel_requested, command, events>>

\* run_job ends with its terminal event, `cancelled` only for a flagged job.
FinishJob ==
    /\ executor = "run"
    /\ \E kind \in {"result", "error", "cancelled"} :
          /\ kind = "cancelled" => cancel_requested[running_]
          /\ Emit(running_, kind)
    /\ executor' = "reset"
    /\ UNCHANGED <<queue_, running_, stopping_, started, media, cancel_requested, command,
                   accepted, acknowledged>>

\* Mutant: running_ keeps the finished job.
ResetForgotten ==
    /\ executor = "reset"
    /\ executor' = "wait"
    /\ UNCHANGED <<queue_, running_, stopping_, started, media, cancel_requested, command, events>>

ResetRunning ==
    /\ executor = "reset"
    /\ running_' = None
    /\ executor' = "wait"
    /\ UNCHANGED <<queue_, stopping_, started, media, cancel_requested, command, events>>

ExecutorReturns ==
    /\ executor = "wait"
    /\ stopping_
    /\ executor' = "exited"
    /\ UNCHANGED <<queue_, running_, stopping_, started, media, cancel_requested, command, events>>

Executor == StartJob \/ FinishJob \/ ResetRunning \/ ExecutorReturns

-----------------------------------------------------------------------------
(* media_execute_loop.                                                     *)

StartMediaJob ==
    /\ media_executor = "wait"
    /\ ~media_stopping_
    /\ media_queue_ # <<>>
    /\ media_running_' = Head(media_queue_)
    /\ media_queue_' = Tail(media_queue_)
    /\ started' = started \cup {Head(media_queue_)}
    /\ media_executor' = "run"
    /\ UNCHANGED <<queue_, running_, stopping_, executor, media_stopping_, subscribers,
                   accepting_subscribers, finishing, media_outcome, cancel_requested,
                   command, events>>

\* finish_media_subscribers: no request joins any more, all of them get the event.
FinishMediaJob ==
    /\ media_executor = "run"
    /\ \E kind \in {"result", "error", "cancelled"} :
          /\ kind = "cancelled" => cancel_requested[media_running_]
          /\ media_outcome' = kind
    /\ accepting_subscribers' = [accepting_subscribers EXCEPT ![media_running_] = FALSE]
    /\ finishing' = subscribers[media_running_]
    /\ media_executor' = "emit"
    /\ UNCHANGED <<jobs, media_queue_, media_running_, media_stopping_, subscribers,
                   cancel_requested, command, events>>

EmitMediaTerminal ==
    /\ media_executor = "emit"
    /\ finishing # <<>>
    /\ Emit(Head(finishing), media_outcome)
    /\ finishing' = Tail(finishing)
    /\ UNCHANGED <<jobs, media_queue_, media_running_, media_stopping_, subscribers,
                   accepting_subscribers, media_executor, media_outcome, cancel_requested,
                   command, accepted, acknowledged>>

ResetMediaRunning ==
    /\ media_executor = "emit"
    /\ finishing = <<>>
    /\ media_running_' = None
    /\ media_executor' = "wait"
    /\ UNCHANGED <<jobs, media_queue_, media_stopping_, subscribers, accepting_subscribers,
                   finishing, media_outcome, cancel_requested, command, events>>

MediaExecutorReturns ==
    /\ media_executor = "wait"
    /\ media_stopping_
    /\ media_executor' = "exited"
    /\ UNCHANGED <<jobs, media_queue_, media_running_, media_stopping_, subscribers,
                   accepting_subscribers, finishing, media_outcome, cancel_requested,
                   command, events>>

MediaExecutor == \/ StartMediaJob \/ FinishMediaJob \/ EmitMediaTerminal
                 \/ ResetMediaRunning \/ MediaExecutorReturns

-----------------------------------------------------------------------------
\* The steps of a handler the reader has begun.
ReaderContinues == Enqueue \/ CancelMediaJob \/ EmitCancelled \/ StopMedia \/ JoinExecutors

Next == \/ \E r \in Requests : AcceptJob(r) \/ JoinIndexJob(r) \/ CancelJob(r)
        \/ Stop("shutdown") \/ Stop("eof")
        \/ ReaderContinues \/ Executor \/ MediaExecutor

Spec == Init /\ [][Next]_vars

\* The three threads are scheduled.  No command has to arrive and no job has to end:
\* a verify_begin job waits for its client's verify_end, and a cancelled job whose
\* threads miss the notification waits for ever (FinishJob, FinishMediaJob).
FairSpec ==
    /\ Spec
    /\ WF_vars(ReaderContinues)
    /\ WF_vars(StartJob \/ ResetRunning \/ ExecutorReturns)
    /\ WF_vars(StartMediaJob \/ EmitMediaTerminal \/ ResetMediaRunning \/ MediaExecutorReturns)

-----------------------------------------------------------------------------
\* Every variable keeps its type; an executor is busy exactly while the session
\* names its running job.
TypeOK ==
    /\ queue_ \in Seq(JobRequests)
    /\ running_ \in JobRequests \cup {None}
    /\ media_queue_ \in Seq(IndexRequests \cup MediaRequests)
    /\ media_running_ \in IndexRequests \cup MediaRequests \cup {None}
    /\ stopping_ \in BOOLEAN /\ media_stopping_ \in BOOLEAN
    /\ subscribers \in [Requests -> Seq(Requests)]
    /\ accepting_subscribers \in [Requests -> BOOLEAN]
    /\ cancel_requested \in [Requests -> BOOLEAN]
    /\ executor \in {"wait", "run", "reset", "exited"}
    /\ media_executor \in {"wait", "run", "emit", "exited"}
    /\ executor \in {"run", "reset"} <=> running_ # None
    /\ media_executor \in {"run", "emit"} <=> media_running_ # None
    /\ finishing \in Seq(Requests)
    /\ media_outcome \in {"none", "result", "error", "cancelled"}
    /\ reader \in {"idle", "enqueue", "cancel_media", "emit_cancelled", "stop_media",
                   "join", "closed"}
    /\ target \in Requests \cup {None}
    /\ dropped \in Seq(Requests) /\ told \in Nat
    /\ ending \in {"no", "shutdown", "eof"}
    /\ accepted \subseteq Requests
    /\ terminals \in [Requests -> Seq({"result", "error", "cancelled", "dropped"})]
    /\ acknowledged \in BOOLEAN
    /\ started \subseteq Requests

Settled(r) == Len(terminals[r]) = 1

\* However a job, its cancellation, a joining subscriber and a shutdown
\* interleave, a request is settled at most once, and only after `accepted`.
SettledOnce == \A r \in Requests : terminals[r] # <<>> => r \in accepted /\ Settled(r)

\* A job reported as dropped from a queue is never run by an executor.
DroppedNeverStarts ==
    \A r \in Requests : In("dropped", terminals[r]) => r \notin started

\* When the shutdown acknowledgement is out, every accepted request, whether it
\* owns its job or joined one, has its terminal event.
ShutdownSettlesAll == acknowledged => \A r \in accepted : Settled(r)

Joined == {r \in accepted : \E j \in Requests \ {r} : In(r, subscribers[j])}

\* Every request that owns a job is settled when the process is about to exit.
ExitSettlesOwners == reader = "closed" => \A r \in accepted \ Joined : Settled(r)

\* Every request ends at most once, none that was dropped runs, and neither a shutdown
\* nor the end of the commands leaves a job without its end.
SettlementInv == TypeOK /\ SettledOnce /\ DroppedNeverStarts /\ ShutdownSettlesAll /\ ExitSettlesOwners

\* The shutdown acknowledgement is the last event.
ShutdownIsLast == [][acknowledged => UNCHANGED events]_vars

\* That every job an executor starts ends, for each of the two executors.
JobsReturn == []<>(executor # "run")
MediaJobsReturn == []<>(media_executor # "run")

EachSettles(requests) == \A r \in requests : r \in accepted ~> (Settled(r) \/ ending = "eof")

\* Every accepted request is eventually settled, unless the commands end.  It needs
\* the jobs of its own executor to end, not those of the other one.
AcceptedSettles == /\ JobsReturn => EachSettles(JobRequests)
                   /\ MediaJobsReturn => EachSettles(IndexRequests \cup MediaRequests)

\* A shutdown command is eventually acknowledged: it joins both executors, so it needs
\* the jobs of both to end.
ShutdownAcknowledged == JobsReturn /\ MediaJobsReturn => (ending = "shutdown" ~> acknowledged)

\* The two promises that something happens at all.
CommandsComplete == AcceptedSettles /\ ShutdownAcknowledged

\* worker-protocol-v1.md, 2.8: identical index requests receive separate
\* terminal events; here also when the command stream ends.
ExitSettlesAll == reader = "closed" => \A r \in accepted : Settled(r)

\* worker-protocol-v1.md, 2.4: cancelling a finished job emits `not_running`, so
\* a cancel command silently flags only a job whose end is not yet reported.
CancelFinishedReported ==
    [][\A j \in Requests : (reader = "idle" /\ ending' = "no"
                             /\ cancel_requested[j] # cancel_requested'[j])
                            => terminals[j] = <<>>]_vars
=============================================================================
