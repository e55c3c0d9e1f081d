---------------------------- MODULE EngineClient ----------------------------
(***************************************************************************)
(* The application's side of the engine worker, in three parts that share  *)
(* no lock: the Tauri controller (app/src-tauri/src/worker/mod.rs and      *)
(* session.rs), one reader thread for each engine process, and the client  *)
(* of the interface (app/src/engine/workerClient.ts), whose handlers run   *)
(* one at a time.  App.tsx connects when it is mounted and restarts the    *)
(* engine when the cache directory changes: each such flow starts at most  *)
(* one process, and the session it starts has the flow's name.             *)
(*                                                                         *)
(* The engine is what WorkerSession says it is: it accepts or rejects a    *)
(* job, ends an accepted one once, and answers a cancel command for a job  *)
(* it has ended with `not_running`.  The command line with which the       *)
(* controller asks for a shutdown has no request_id, so the engine rejects *)
(* it.  Progress and warning events, which change nothing here, and the    *)
(* media jobs of media/service.ts are left out.                            *)
(***************************************************************************)
EXTENDS Naturals, Sequences, FiniteSets

CONSTANTS Jobs,         \* the request ids of the jobs the user submits
          VerifyJobs,   \* those that wait for `accepted` (executeVerify.ts)
          CancelJobs,   \* those the user may cancel
          MaxCrashes,   \* bound: how many engine processes die by themselves
          Mount,        \* the flow that connects when the application is mounted
          Restarts,     \* the flows that restart the engine
          Undecodable,  \* whether a line of the engine can be other than UTF-8
          None

Flows == {Mount} \cup Restarts
Sessions == Flows
EngineIds == 1 .. Cardinality(Jobs)

ASSUME JobsFinite == IsFiniteSet(Jobs) /\ VerifyJobs \subseteq Jobs /\ CancelJobs \subseteq Jobs
ASSUME FaultsBounded == MaxCrashes \in Nat /\ Undecodable \in BOOLEAN
ASSUME NamesDistinct == /\ None \notin Flows \cup Jobs
                        /\ Mount \notin Restarts
                        /\ Jobs \cap Flows = {}

VARIABLES
    \* the controller
    session,     \* WorkerManager.session, None when there is none
    lock,        \* the flow that holds its mutex across a round trip
    pc, op,      \* where each flow is, and the command it exchanges
    victim,      \* the session a flow terminates
    pending,     \* per session, the flows that wait for an answer
    answered,    \* the flows whose answer has been sent to them
    call,        \* per job, the invocation that submits it
    cancels,     \* jobs with a cancel invocation on its way
    \* each engine process
    child,       \* "none", "up" or "dead"
    stdin, stdout,
    given,       \* the session a job was written to
    job_id,      \* the engine's number of an accepted job, 0 before
    cancel_requested,
    ended,       \* how the engine ended a job
    reader,      \* the session's reader thread
    wire,        \* Tauri events on their way to the interface
    \* the interface
    jobsByRequest, jobsByEngineId, acceptedWaiters,
    engineJobId, finished, cancelRequested,
    cancelSent,  \* jobs with a cancel invocation so far
    shown,       \* the terminal events subscribers saw of each job
    crashes,     \* processes that died by themselves
    crossed      \* an event or a cancel of one session has met a job of another

controller == <<session, lock, pc, op, victim, pending, answered>>
calls == <<call, cancels>>
work == <<given, job_id, cancel_requested, ended>>
engine == <<child, stdin, stdout, work>>
delivery == <<reader, wire>>
client == <<jobsByRequest, jobsByEngineId, acceptedWaiters, engineJobId, finished,
            cancelRequested, cancelSent, shown>>
faults == <<crashes, crossed>>
vars == <<controller, calls, engine, delivery, client, faults>>

Init ==
    /\ session = None /\ lock = None
    /\ pc = [f \in Flows |-> "idle"] /\ op = [f \in Flows |-> "hello"]
    /\ victim = [f \in Flows |-> None]
    /\ pending = [s \in Sessions |-> {}] /\ answered = {}
    /\ call = [r \in Jobs |-> "none"] /\ cancels = {}
    /\ child = [s \in Sessions |-> "none"] /\ crashes = 0
    /\ stdin = [s \in Sessions |-> <<>>] /\ stdout = [s \in Sessions |-> <<>>]
    /\ given = [r \in Jobs |-> None] /\ job_id = [r \in Jobs |-> 0]
    /\ cancel_requested = {} /\ ended = [r \in Jobs |-> "none"]
    /\ reader = [s \in Sessions |-> "none"] /\ wire = <<>>
    /\ jobsByRequest = {} /\ jobsByEngineId = [i \in EngineIds |-> None]
    /\ acceptedWaiters = {}
    /\ engineJobId = [r \in Jobs |-> 0] /\ finished = {}
    /\ cancelRequested = {} /\ cancelSent = {}
    /\ shown = [r \in Jobs |-> <<>>]
    /\ crossed = FALSE

Alive(s) == s # None /\ child[s] = "up"
Go(f, step) == pc' = [pc EXCEPT ![f] = step]
WriteTo(s, command) == stdin' = [stdin EXCEPT ![s] = Append(@, command)]
Killed(s) == [child EXCEPT ![s] = "dead"]

-----------------------------------------------------------------------------
(* engine_worker_shutdown: the session is taken out under the lock and      *)
(* terminated without it; connect() follows in the same flow.               *)

Begin(f) ==
    /\ pc[f] = "idle"
    /\ Go(f, IF f = Mount THEN "start" ELSE "take")
    /\ UNCHANGED <<session, lock, op, victim, pending, answered, calls, engine, delivery,
                   client, faults>>

TakeSession(f) ==
    /\ pc[f] = "take"
    /\ lock = None
    /\ victim' = [victim EXCEPT ![f] = session]
    /\ session' = None
    /\ Go(f, IF session = None THEN "start" ELSE "tell")
    /\ UNCHANGED <<lock, op, pending, answered, calls, engine, delivery, client, faults>>

\* terminate: a failure to write is ignored.
TellShutdown(f) ==
    /\ pc[f] = "tell"
    /\ IF Alive(victim[f]) THEN WriteTo(victim[f], [type |-> "shutdown"]) ELSE UNCHANGED stdin
    /\ Go(f, "reap")
    /\ UNCHANGED <<session, lock, op, victim, pending, answered, calls, child, stdout, work, delivery, client, faults>>

Reap(f) ==
    /\ pc[f] = "reap"
    /\ ~Alive(victim[f])
    /\ Go(f, "start")
    /\ UNCHANGED <<session, lock, op, victim, pending, answered, calls, engine, delivery,
                   client, faults>>

\* The deadline has passed: it is longer than the engine needs to read its commands.
Kill(f) ==
    /\ pc[f] = "reap"
    /\ Alive(victim[f])
    /\ stdin[victim[f]] = <<>>
    /\ child' = Killed(victim[f])
    /\ Go(f, "start")
    /\ UNCHANGED <<session, lock, op, victim, pending, answered, calls, stdin, stdout, work, delivery, client, faults>>

-----------------------------------------------------------------------------
(* engine_worker_start and engine_worker_capabilities.                      *)

\* A live session is kept; otherwise a process is spawned, under the lock.
Start(f) ==
    /\ pc[f] = "start"
    /\ lock = None
    /\ \/ /\ Alive(session)
          /\ op' = [op EXCEPT ![f] = "capabilities"]
          /\ Go(f, "enter")
          /\ UNCHANGED <<session, lock, child, reader>>
       \/ /\ ~Alive(session)
          /\ session' = None
          /\ lock' = f
          /\ child' = [child EXCEPT ![f] = "up"]
          /\ reader' = [reader EXCEPT ![f] = "reading"]
          /\ Go(f, "insert")
          /\ UNCHANGED op
       \/ /\ ~Alive(session)                \* no engine, or it cannot be spawned
          /\ session' = None
          /\ Go(f, "failed")
          /\ UNCHANGED <<op, lock, child, reader>>
    /\ UNCHANGED <<victim, pending, answered, calls, stdin, stdout, work, wire, client, faults>>

\* with_live_session: a dead session is dropped.
EnterCapabilities(f) ==
    /\ pc[f] = "enter"
    /\ lock = None
    /\ IF Alive(session) THEN lock' = f /\ Go(f, "insert") /\ UNCHANGED session
       ELSE session' = None /\ Go(f, "failed") /\ UNCHANGED lock
    /\ UNCHANGED <<op, victim, pending, answered, calls, engine, delivery, client, faults>>

\* The session a flow exchanges a command with: hello goes to the one it has spawned.
Peer(f) == IF op[f] = "hello" THEN f ELSE session

\* Mutant: the session's mutex stays locked.
FailRoundtripKeepingLock(f) ==
    /\ UNCHANGED lock
    /\ Go(f, "failed")
    /\ child' = IF op[f] = "hello" THEN Killed(f) ELSE child

\* roundtrip fails: a session that did not say hello is dropped, which kills it.
FailRoundtrip(f) ==
    /\ lock' = None
    /\ Go(f, "failed")
    /\ child' = IF op[f] = "hello" THEN Killed(f) ELSE child

InsertWaiter(f) ==
    /\ pc[f] = "insert"
    /\ pending' = [pending EXCEPT ![Peer(f)] = @ \cup {f}]
    /\ Go(f, "write")
    /\ UNCHANGED <<session, lock, op, victim, answered, calls, engine, delivery, client, faults>>

WriteCommand(f) ==
    /\ pc[f] = "write"
    /\ \/ /\ Alive(Peer(f))
          /\ WriteTo(Peer(f), [type |-> op[f], request |-> f])
          /\ Go(f, "wait")
          /\ UNCHANGED <<lock, pending, child>>
       \/ /\ ~Alive(Peer(f))
          /\ FailRoundtrip(f)
          /\ pending' = [pending EXCEPT ![Peer(f)] = @ \ {f}]
          /\ UNCHANGED stdin
    /\ UNCHANGED <<session, op, victim, answered, calls, stdout, work, delivery, client, faults>>

ReceiveAnswer(f) ==
    /\ pc[f] = "wait"
    /\ f \in answered
    /\ answered' = answered \ {f}
    /\ lock' = None
    /\ IF op[f] = "hello"
       THEN session' = f /\ op' = [op EXCEPT ![f] = "capabilities"] /\ Go(f, "enter")
       ELSE Go(f, "done") /\ UNCHANGED <<session, op>>
    /\ UNCHANGED <<victim, pending, calls, engine, delivery, client, faults>>

\* The reader thread has dropped the waiter, or the time-out strikes.
Disconnected(f) ==
    /\ pc[f] = "wait"
    /\ f \notin pending[Peer(f)] \cup answered
    /\ FailRoundtrip(f)
    /\ UNCHANGED <<session, op, victim, pending, answered, calls, stdin, stdout, work, delivery, client, faults>>

TimeOut(f) ==
    /\ pc[f] = "wait"
    /\ f \in pending[Peer(f)]
    /\ FailRoundtrip(f)
    /\ pending' = [pending EXCEPT ![Peer(f)] = @ \ {f}]
    /\ UNCHANGED <<session, op, victim, answered, calls, stdin, stdout, work, delivery, client, faults>>

Flow(f) == \/ TakeSession(f) \/ TellShutdown(f) \/ Reap(f) \/ Kill(f)
           \/ Start(f) \/ EnterCapabilities(f)
           \/ InsertWaiter(f) \/ WriteCommand(f) \/ ReceiveAnswer(f) \/ Disconnected(f)

-----------------------------------------------------------------------------
(* engine_worker_analyze (engine_worker_verify_media_begin is the same) and *)
(* engine_worker_cancel, both with_live_session and write_command.          *)

\* Nothing is written: there is no live session, or it died since it was looked at.
NotWritten == /\ ~Alive(session)
              /\ session' \in {None, session}
              /\ UNCHANGED stdin

Analyze(r) ==
    /\ call[r] = "invoked"
    /\ lock = None
    /\ \/ /\ Alive(session)
          /\ WriteTo(session, [type |-> "analyze", job |-> r])
          /\ given' = [given EXCEPT ![r] = session]
          /\ call' = [call EXCEPT ![r] = "queued"]
          /\ UNCHANGED session
       \/ /\ NotWritten
          /\ call' = [call EXCEPT ![r] = "refused"]
          /\ UNCHANGED given
    /\ UNCHANGED <<lock, pc, op, victim, pending, answered, cancels, child, stdout, job_id,
                   cancel_requested, ended, delivery, client, faults>>

SendCancel(r) ==
    /\ r \in cancels
    /\ lock = None
    /\ cancels' = cancels \ {r}
    /\ \/ /\ Alive(session)
          /\ WriteTo(session, [type |-> "cancel", id |-> engineJobId[r]])
          /\ crossed' = (crossed \/ session # given[r])
          /\ UNCHANGED session
       \/ NotWritten /\ UNCHANGED crossed
    /\ UNCHANGED <<lock, pc, op, victim, pending, answered, call, child, stdout, work, delivery,
                   client, crashes>>

-----------------------------------------------------------------------------
(* An engine process.                                                       *)

\* Once the reader has stopped, the pipe is closed: a line is lost, or kills the engine.
Say(s, line) ==
    \/ /\ reader[s] = "reading"
       /\ stdout' = [stdout EXCEPT ![s] = Append(@, line)]
       /\ UNCHANGED child
    \/ /\ reader[s] # "reading"
       /\ child' \in {child, Killed(s)}
       /\ UNCHANGED stdout

SayNothing == UNCHANGED <<stdout, child>>

Open(s) == {r \in Jobs : given[r] = s /\ job_id[r] # 0 /\ ended[r] = "none"}
\* next_job_: a job that is rejected has used a number too.
NextJob(s) == 1 + Cardinality({r \in Jobs : given[r] = s /\ (job_id[r] # 0 \/ ended[r] # "none")})

ReadCommand(s) ==
    /\ Alive(s)
    /\ stdin[s] # <<>>
    /\ stdin' = [stdin EXCEPT ![s] = Tail(@)]
    /\ LET command == Head(stdin[s])
       IN \/ /\ command.type \in {"hello", "capabilities"}
             /\ Say(s, [type |-> "answer", request |-> command.request])
             /\ UNCHANGED <<job_id, cancel_requested, ended>>
          \/ /\ command.type = "analyze"
             /\ job_id' = [job_id EXCEPT ![command.job] = NextJob(s)]
             /\ Say(s, [type |-> "accepted", request |-> command.job, id |-> NextJob(s)])
             /\ UNCHANGED <<cancel_requested, ended>>
          \/ /\ command.type = "analyze"
             /\ ended' = [ended EXCEPT ![command.job] = "error"]
             /\ Say(s, [type |-> "error", request |-> command.job, id |-> 0])
             /\ UNCHANGED <<job_id, cancel_requested>>
          \/ /\ command.type = "cancel"       \* not_running names the cancel's request, no job's
             /\ LET found == {r \in Open(s) : job_id[r] = command.id}
                IN /\ cancel_requested' = cancel_requested \cup found
                   /\ IF found # {} THEN SayNothing
                      ELSE Say(s, [type |-> "cancelled", request |-> None, id |-> command.id])
             /\ UNCHANGED <<job_id, ended>>
          \/ /\ command.type = "shutdown"      \* missing or invalid string field: request_id
             /\ Say(s, [type |-> "error", request |-> None, id |-> 0])
             /\ UNCHANGED <<job_id, cancel_requested, ended>>
    /\ UNCHANGED <<controller, calls, given, delivery, client, faults>>

\* A job's terminal event; in `error`, a message can hold bytes that are not UTF-8.
EndJob(s) ==
    /\ Alive(s)
    /\ \E r \in Open(s), kind \in {"result", "error", "cancelled"} :
          /\ kind = "cancelled" => r \in cancel_requested
          /\ ended' = [ended EXCEPT ![r] = kind]
          /\ \/ Say(s, [type |-> kind, request |-> r, id |-> job_id[r]])
             \/ Undecodable /\ kind = "error" /\ Say(s, [type |-> "undecodable"])
    /\ UNCHANGED <<controller, calls, stdin, given, job_id, cancel_requested, delivery, client,
                   faults>>

Engine(s) == ReadCommand(s) \/ EndJob(s)

Crash(s) ==
    /\ Alive(s)
    /\ crashes < MaxCrashes
    /\ crashes' = crashes + 1
    /\ child' = Killed(s)
    /\ UNCHANGED <<controller, calls, stdin, stdout, work, delivery, client, crossed>>

-----------------------------------------------------------------------------
(* A session's reader thread.                                               *)

\* The reader cannot go on: the next line is not UTF-8.
Undecoded(s) == stdout[s] # <<>> /\ Head(stdout[s]).type = "undecodable"

\* dispatch_event: to the waiter the line answers, or else to the interface, which does
\* nothing with an answer that comes after its time-out.
DispatchLine(s) ==
    /\ reader[s] = "reading"
    /\ stdout[s] # <<>>
    /\ ~Undecoded(s)
    /\ stdout' = [stdout EXCEPT ![s] = Tail(@)]
    /\ LET line == Head(stdout[s])
       IN IF line.type # "answer"
          THEN wire' = Append(wire, [session |-> s, line |-> line])
               /\ UNCHANGED <<pending, answered>>
          ELSE /\ pending' = [pending EXCEPT ![s] = @ \ {line.request}]
               /\ answered' = answered \cup (pending[s] \cap {line.request})
               /\ UNCHANGED wire
    /\ UNCHANGED <<session, lock, pc, op, victim, calls, child, stdin, work, reader, client, faults>>

\* Mutant: the lines a dead process has left behind are not read.
LinesEndWithProcess(s) == child[s] = "dead" \/ Undecoded(s)

\* The end of the pipe, after every line in it, or a line that cannot be decoded.
LinesEnd(s) == (stdout[s] = <<>> /\ child[s] = "dead") \/ Undecoded(s)

\* Mutant: whoever waits is not told of the end.
ClearPendingNothing(s) ==
    /\ reader[s] = "reading"
    /\ LinesEnd(s)
    /\ reader' = [reader EXCEPT ![s] = "exiting"]
    /\ UNCHANGED <<controller, calls, engine, wire, client, faults>>

ClearPending(s) ==
    /\ reader[s] = "reading"
    /\ LinesEnd(s)
    /\ pending' = [pending EXCEPT ![s] = {}]
    /\ reader' = [reader EXCEPT ![s] = "exiting"]
    /\ UNCHANGED <<session, lock, pc, op, victim, answered, calls, engine, wire, client, faults>>

ReportExit(s) ==
    /\ reader[s] = "exiting"
    /\ reader' = [reader EXCEPT ![s] = "ended"]
    /\ wire' = Append(wire, [session |-> s, line |-> [type |-> "exit"]])
    /\ UNCHANGED <<controller, calls, engine, client, faults>>

Reader(s) == DispatchLine(s) \/ ClearPending(s) \/ ReportExit(s)

-----------------------------------------------------------------------------
(* EngineWorkerClient: the calls of the application.                        *)

\* submitAnalyze and verifyMediaBegin up to the invocation; executeVerify registers
\* its waiter in the onPrepared callback.  A run starts when some capabilities answer has
\* allowed it, and goes on submitting its members whatever happens later.
Submit(r) ==
    /\ call[r] = "none"
    /\ \E f \in Flows : pc[f] = "done"
    /\ call' = [call EXCEPT ![r] = "invoked"]
    /\ jobsByRequest' = jobsByRequest \cup {r}
    /\ acceptedWaiters' = acceptedWaiters \cup (VerifyJobs \cap {r})
    /\ UNCHANGED <<controller, cancels, engine, delivery, jobsByEngineId, engineJobId, finished,
                   cancelRequested, cancelSent, shown, faults>>

\* Mutant: the engine's id still leads to the job.
CleanupTrackedKeepingId(r) ==
    /\ jobsByRequest' = jobsByRequest \ {r}
    /\ acceptedWaiters' = acceptedWaiters \ {r}
    /\ UNCHANGED jobsByEngineId

\* The maps after cleanupTracked.
CleanupTracked(r) ==
    /\ jobsByRequest' = jobsByRequest \ {r}
    /\ jobsByEngineId' = [i \in EngineIds |-> IF i = engineJobId[r] THEN None
                                              ELSE jobsByEngineId[i]]
    /\ acceptedWaiters' = acceptedWaiters \ {r}

\* Mutant: a job the exit has already failed fails again.
SubmissionFailsAgain(r) ==
    /\ call[r] = "refused"
    /\ call' = [call EXCEPT ![r] = "returned"]
    /\ finished' = finished \cup {r}
    /\ shown' = [shown EXCEPT ![r] = Append(@, "submit_failed")]
    /\ CleanupTracked(r)
    /\ UNCHANGED <<controller, cancels, engine, delivery, engineJobId, cancelRequested,
                   cancelSent, faults>>

\* The invocation was rejected: emitSubmissionFailure, then cleanupTracked.
SubmissionFails(r) ==
    /\ call[r] = "refused"
    /\ call' = [call EXCEPT ![r] = "returned"]
    /\ finished' = finished \cup {r}
    /\ shown' = IF r \in finished THEN shown
                ELSE [shown EXCEPT ![r] = Append(@, "submit_failed")]
    /\ CleanupTracked(r)
    /\ UNCHANGED <<controller, cancels, engine, delivery, engineJobId, cancelRequested,
                   cancelSent, faults>>

\* The user cancels (once): the invocation waits until the engine's id of the job is known.
Cancel(r) ==
    /\ r \in (CancelJobs \cap jobsByRequest) \ (finished \cup cancelRequested)
    /\ cancelRequested' = cancelRequested \cup {r}
    /\ LET known == {r} \cap {q \in Jobs : engineJobId[q] # 0}
       IN cancels' = cancels \cup known /\ cancelSent' = cancelSent \cup known
    /\ UNCHANGED <<controller, call, engine, delivery, jobsByRequest, jobsByEngineId,
                   acceptedWaiters, engineJobId, finished, shown, faults>>

-----------------------------------------------------------------------------
(* EngineWorkerClient: the events.                                          *)

\* resolveTracked: by the request id, or else by the engine's job id.
Resolved(line) ==
    IF line.request \in jobsByRequest THEN {line.request}
    ELSE {jobsByEngineId[i] : i \in EngineIds \cap {line.id}} \ {None}

\* Mutant: the deferred cancel is not sent.
HandleAcceptedAlone(line) ==
    /\ line.type = "accepted"
    /\ \/ \E r \in Resolved(line) :
             /\ engineJobId' = [engineJobId EXCEPT ![r] = line.id]
             /\ jobsByEngineId' = [jobsByEngineId EXCEPT ![line.id] = r]
             /\ acceptedWaiters' = acceptedWaiters \ {r}
       \/ /\ Resolved(line) = {}
          /\ UNCHANGED <<engineJobId, jobsByEngineId, acceptedWaiters>>
    /\ UNCHANGED <<jobsByRequest, finished, shown, cancels, cancelSent>>

HandleAccepted(line) ==
    /\ line.type = "accepted"
    /\ \/ \E r \in Resolved(line) :
             /\ engineJobId' = [engineJobId EXCEPT ![r] = line.id]
             /\ jobsByEngineId' = [jobsByEngineId EXCEPT ![line.id] = r]
             /\ acceptedWaiters' = acceptedWaiters \ {r}
             /\ cancels' = cancels \cup (cancelRequested \cap {r})
             /\ cancelSent' = cancelSent \cup (cancelRequested \cap {r})
       \/ /\ Resolved(line) = {}
          /\ UNCHANGED <<engineJobId, jobsByEngineId, acceptedWaiters, cancels, cancelSent>>
    /\ UNCHANGED <<jobsByRequest, finished, shown>>

HandleTerminal(line) ==
    /\ line.type \in {"result", "cancelled", "error"}
    /\ \/ \E r \in Resolved(line) :
             /\ finished' = finished \cup {r}
             /\ shown' = [shown EXCEPT ![r] = Append(@, line.type)]
             /\ CleanupTracked(r)
       \/ /\ Resolved(line) = {}
          /\ UNCHANGED <<finished, shown, jobsByRequest, jobsByEngineId, acceptedWaiters>>
    /\ UNCHANGED <<engineJobId, cancels, cancelSent>>

\* Mutant: only jobs the engine has accepted fail.
HandleExitOfAccepted(line) ==
    /\ line.type = "exit"
    /\ finished' = finished \cup {r \in jobsByRequest : engineJobId[r] # 0}
    /\ shown' = [r \in Jobs |-> IF r \in jobsByRequest \ finished /\ engineJobId[r] # 0
                                THEN Append(shown[r], "worker_exit") ELSE shown[r]]
    /\ jobsByRequest' = {}
    /\ jobsByEngineId' = [i \in EngineIds |-> None]
    /\ acceptedWaiters' = {}
    /\ UNCHANGED <<engineJobId, cancels, cancelSent>>

\* Every unfinished job fails, and every index is cleared.
HandleExit(line) ==
    /\ line.type = "exit"
    /\ finished' = finished \cup jobsByRequest
    /\ shown' = [r \in Jobs |-> IF r \in jobsByRequest \ finished
                                THEN Append(shown[r], "worker_exit") ELSE shown[r]]
    /\ jobsByRequest' = {}
    /\ jobsByEngineId' = [i \in EngineIds |-> None]
    /\ acceptedWaiters' = {}
    /\ UNCHANGED <<engineJobId, cancels, cancelSent>>

HandleEvent ==
    /\ wire # <<>>
    /\ wire' = Tail(wire)
    /\ LET line == Head(wire).line
           touched == IF line.type = "exit" THEN jobsByRequest ELSE Resolved(line)
       IN /\ HandleAccepted(line) \/ HandleTerminal(line) \/ HandleExit(line)
          /\ crossed' = (crossed \/ \E r \in touched : given[r] # Head(wire).session)
    /\ UNCHANGED <<controller, call, engine, reader, cancelRequested, crashes>>

-----------------------------------------------------------------------------
Next == \/ \E f \in Flows : Begin(f) \/ Flow(f) \/ TimeOut(f)
        \/ \E r \in Jobs : Analyze(r) \/ SendCancel(r) \/ Submit(r) \/ SubmissionFails(r)
                           \/ Cancel(r)
        \/ \E s \in Sessions : Engine(s) \/ Crash(s) \/ Reader(s)
        \/ HandleEvent

Spec == Init /\ [][Next]_vars

\* Threads and handlers are scheduled, an engine process reads its commands and ends its
\* jobs.  A time-out, a crash and what the user does need not happen.
FairSpec == /\ Spec
            /\ \A f \in Flows : WF_vars(Flow(f))
            /\ \A r \in Jobs : WF_vars(Analyze(r)) /\ WF_vars(SendCancel(r))
                               /\ WF_vars(SubmissionFails(r))
            /\ \A s \in Sessions : WF_vars(Engine(s)) /\ WF_vars(Reader(s))
            /\ WF_vars(HandleEvent)
-----------------------------------------------------------------------------
Ends == {"result", "error", "cancelled"}

\* Every variable keeps its type; the lock is held exactly during a round trip.
TypeOK ==
    /\ session \in Sessions \cup {None}
    /\ pc \in [Flows -> {"idle", "take", "tell", "reap", "start", "enter", "insert", "write",
                         "wait", "done", "failed"}]
    /\ op \in [Flows -> {"hello", "capabilities"}]
    /\ lock \in Flows \cup {None}
    /\ \A f \in Flows : lock = f <=> pc[f] \in {"insert", "write", "wait"}
    /\ victim \in [Flows -> Sessions \cup {None}]
    /\ pending \in [Sessions -> SUBSET Flows] /\ answered \subseteq Flows
    /\ call \in [Jobs -> {"none", "invoked", "queued", "refused", "returned"}]
    /\ cancels \subseteq cancelSent /\ cancelSent \subseteq cancelRequested
    /\ cancelRequested \subseteq Jobs
    /\ child \in [Sessions -> {"none", "up", "dead"}]
    /\ given \in [Jobs -> Sessions \cup {None}]
    /\ job_id \in [Jobs -> {0} \cup EngineIds]
    /\ cancel_requested \subseteq Jobs
    /\ ended \in [Jobs -> Ends \cup {"none"}]
    /\ reader \in [Sessions -> {"none", "reading", "exiting", "ended"}]
    /\ jobsByRequest \subseteq Jobs /\ acceptedWaiters \subseteq VerifyJobs
    /\ jobsByEngineId \in [EngineIds -> Jobs \cup {None}]
    /\ engineJobId \in [Jobs -> {0} \cup EngineIds]
    /\ finished \subseteq Jobs
    /\ shown \in [Jobs -> Seq(Ends \cup {"submit_failed", "worker_exit"})]
    /\ crashes \in 0 .. MaxCrashes /\ crossed \in BOOLEAN

\* A rejected invocation, the engine's own event and the exit of a process can each end
\* a job, in any order and of several sessions: its subscribers see one of them.
EndsOnce == \A r \in Jobs : Len(shown[r]) <= 1

\* Nothing refers to a job that has ended: a late event finds no job by its engine id, and
\* whoever waits for `accepted` waits for a job that can still be accepted or end.
IndexesAgree ==
    /\ jobsByRequest \cap finished = {}
    /\ acceptedWaiters \subseteq jobsByRequest
    /\ \A i \in EngineIds : jobsByEngineId[i] \in jobsByRequest \cup {None}

\* What the interface shows is what happened, while no event or cancel of one session has
\* met a job of another: the engine's own end of the job; `worker_exit` only for a job no
\* engine has ended, or whose session's reader has stopped at a line it cannot decode;
\* `submit_failed`, which invites a retry, only for a job no engine got.
EndIsTrue ==
    ~crossed => \A r \in Jobs : \A i \in 1 .. Len(shown[r]) :
        CASE shown[r][i] = "submit_failed" -> given[r] = None
          [] shown[r][i] = "worker_exit" -> ended[r] = "none" \/ Undecoded(given[r])
          [] OTHER -> shown[r][i] = ended[r]

\* A cancel is not lost between the two orders of the user's click and `accepted`.
CancelNotForgotten ==
    \A r \in cancelRequested \cap jobsByRequest : engineJobId[r] # 0 => r \in cancelSent

\* Whatever is refused, said, lost or restarted, in any order, the interface's picture of
\* its jobs stays whole.
ClientConsistent == TypeOK /\ EndsOnce /\ IndexesAgree /\ CancelNotForgotten

\* A line its reader cannot decode has cut a session off from the interface.
CutOff(s) == s # None /\ Undecoded(s)

\* Every submitted job ends for its subscribers, whatever dies or restarts meanwhile,
\* unless its session is cut off.
JobsEnd == \A r \in Jobs : call[r] # "none" ~> (shown[r] # <<>> \/ CutOff(given[r]))

\* No command waits for its answer in vain, without help from the time-out: it is
\* answered or the death of its engine fails it, unless its session is cut off.
RoundtripsEnd == \A f \in Flows : pc[f] = "wait" ~> (pc[f] # "wait" \/ CutOff(Peer(f)))

\* Nobody waits for ever, neither for a job nor, with the session locked, for an answer.
WaitsEnd == JobsEnd /\ RoundtripsEnd

\* worker-protocol-v1.md, 2.5: a shutdown ends the process with status 0, and running jobs
\* are cancelled first, so only an engine that is busy with a job has to be killed.
KillsOnlyBusyEngines ==
    [][\A f \in Flows : Kill(f) => Open(victim[f]) # {}]_vars

\* workerClient.ts, handleExit: "A dead worker never finishes its jobs: fail every
\* unfinished one".  The job it fails is one of a dead worker.
ExitFailsDeadWorkersJobs ==
    [][\A r \in Jobs : (shown'[r] # shown[r] /\ shown'[r][Len(shown'[r])] = "worker_exit")
                          => ~Alive(given[r])]_vars

\* The same comment: "so the Job Tray cannot show them as running forever".
NothingRunsForever == \A r \in Jobs : call[r] # "none" ~> shown[r] # <<>>
=============================================================================
