---------------------------- MODULE VerifyStream ----------------------------
(***************************************************************************)
(* One streamed verification job of the engine worker                      *)
(* (engine/src/cli/worker.cpp: run_verify_job, and the reader-side handlers *)
(* verify_frame, verify_end and cancel that feed it).                      *)
(*                                                                         *)
(* Three kinds of threads share the Job:                                   *)
(*   - the reader appends frames to verify_inbox, declares the end of the  *)
(*     stream and raises cancel_requested;                                 *)
(*   - the analysis workers pop frames, analyse them and append entries to *)
(*     verify_outbox;                                                      *)
(*   - the executor drains the outbox into progress events, joins the      *)
(*     workers and emits the terminal event.                               *)
(* verify_mutex guards the stream fields and the single verify_condition   *)
(* wakes both workers and executor.  A wait on it is three steps: evaluate *)
(* the predicate under the mutex ("check"), still holding the mutex        *)
(* ("block"), released and asleep ("waiting").  Every other critical       *)
(* section is one atomic step that needs the mutex to be free.             *)
(* cancel_requested is an atomic that is read under the mutex but written, *)
(* and notified, without it.                                               *)
(*                                                                         *)
(* The pixels are abstracted to whether the analysis of a frame succeeds.  *)
(* Commands the handlers reject change nothing and are left out.           *)
(***************************************************************************)
EXTENDS Integers, Sequences, FiniteSets

CONSTANTS Workers,     \* the analysis threads of the job
          Exec,        \* the executor thread, running the job
          Reader,      \* the thread that reads commands
          MaxFrames,   \* bound on the frames a client sends
          BatchSize    \* result_batch_size

ASSUME ThreadsDistinct == Exec # Reader /\ Exec \notin Workers /\ Reader \notin Workers
ASSUME BoundsPositive == MaxFrames \in Nat /\ BatchSize \in Nat \ {0}
ASSUME WorkersFinite == IsFiniteSet(Workers)

VARIABLES pc,                   \* where each thread is
          item,                 \* the frame each worker holds, or NoSeq
          verify_inbox,         \* frames received and not yet taken
          verify_outbox,        \* entries analysed and not yet drained
          verify_received, verify_completed, verify_failed,
          verify_stream_ended, verify_declared_total,
          cancel_requested,
          pending,              \* drain_outbox's local batch
          finished,             \* the drain loop's local
          delivered,            \* entries of all progress events so far
          terminal              \* "none", or the kind of the terminal event

stream == <<verify_inbox, verify_received, verify_stream_ended, verify_declared_total>>
counters == <<verify_completed, verify_failed>>
output == <<pending, finished, delivered, terminal>>
vars == <<pc, item, stream, verify_outbox, counters, cancel_requested, output>>

Threads == Workers \cup {Exec, Reader}
NoSeq == -1
Seqs == 0 .. MaxFrames - 1
Entry == [seq : Seqs, ok : BOOLEAN]      \* ok = FALSE is the `null` error

ReaderStates == {"idle", "frame", "end", "notify", "notify_mismatch", "cancel", "cancel_notify"}
WorkerStates == {"unborn", "check", "block", "waiting", "analyze", "fail",
                 "push", "push_null", "notify", "exit"}
ExecStates == {"plan", "check", "block", "waiting", "drain", "emit", "join",
               "final_drain", "final_emit", "cancelled", "reset", "gone"}

-----------------------------------------------------------------------------
\* Nobody is between a false predicate and the sleep that releases the mutex.
MutexFree == \A t \in Workers \cup {Exec} : pc[t] # "block"

\* Mutant: a wait without its predicate loop.
NotifiedNoRecheck == [t \in Threads |-> IF pc[t] # "waiting" THEN pc[t]
                                        ELSE IF t = Exec THEN "drain" ELSE "analyze"]

\* The program counters after verify_condition.notify_all().
Notified == [t \in Threads |-> IF pc[t] = "waiting" THEN "check" ELSE pc[t]]

Goto(t, state) == pc' = [pc EXCEPT ![t] = state]

\* A thread whose predicate was false releases the mutex and sleeps.
Block(t) == /\ pc[t] = "block"
            /\ Goto(t, "waiting")
            /\ UNCHANGED <<item, stream, verify_outbox, counters, cancel_requested, output>>

Init == /\ pc = [t \in Threads |-> IF t = Exec THEN "plan"
                                   ELSE IF t = Reader THEN "idle" ELSE "unborn"]
        /\ item = [w \in Workers |-> NoSeq]
        /\ verify_inbox = <<>>
        /\ verify_outbox = <<>>
        /\ verify_received = 0
        /\ verify_completed = 0
        /\ verify_failed = 0
        /\ verify_stream_ended = FALSE
        /\ verify_declared_total = 0
        /\ cancel_requested = FALSE
        /\ pending = <<>>
        /\ finished = FALSE
        /\ delivered = <<>>
        /\ terminal = "none"

-----------------------------------------------------------------------------
(* The reader.  find_verify_job succeeds while the session still lists the  *)
(* job; the handler then works on the shared Job even if it ends meanwhile. *)

FindVerifyJob == /\ pc[Reader] = "idle"
                 /\ pc[Exec] # "gone"
                 /\ \E command \in {"frame", "end"} : Goto(Reader, command)
                 /\ UNCHANGED <<item, stream, verify_outbox, counters, cancel_requested, output>>

\* verify_frame: append the next sequence number, unless the command is refused
\* (after the end, out of sequence, wrong geometry, a stale ring generation).
VerifyFrame ==
    /\ pc[Reader] = "frame"
    /\ MutexFree
    /\ \/ /\ ~verify_stream_ended
          /\ verify_received < MaxFrames
          /\ verify_inbox' = Append(verify_inbox, verify_received)
          /\ verify_received' = verify_received + 1
          /\ Goto(Reader, "notify")
       \/ /\ Goto(Reader, "idle")
          /\ UNCHANGED <<verify_inbox, verify_received>>
    /\ UNCHANGED <<item, verify_stream_ended, verify_declared_total, verify_outbox,
                   counters, cancel_requested, output>>

\* verify_end: reject a second end; a total that does not match cancels the job.
VerifyEnd ==
    /\ pc[Reader] = "end"
    /\ MutexFree
    /\ \/ /\ ~verify_stream_ended
          /\ verify_stream_ended' = TRUE
          /\ verify_declared_total' \in 0 .. MaxFrames
          /\ Goto(Reader, IF verify_declared_total' = verify_received
                          THEN "notify" ELSE "notify_mismatch")
       \/ /\ verify_stream_ended
          /\ Goto(Reader, "idle")
          /\ UNCHANGED <<verify_stream_ended, verify_declared_total>>
    /\ UNCHANGED <<item, verify_inbox, verify_received, verify_outbox, counters,
                   cancel_requested, output>>

\* The notify_all() after verify_frame's or verify_end's critical section.
ReaderNotify ==
    /\ pc[Reader] \in {"notify", "notify_mismatch"}
    /\ pc' = [Notified EXCEPT ![Reader] = IF pc[Reader] = "notify" THEN "idle" ELSE "cancel"]
    /\ UNCHANGED <<item, stream, verify_outbox, counters, cancel_requested, output>>

\* Job::request_cancel, first half: the flag, without verify_mutex.
RequestCancel ==
    /\ \/ pc[Reader] = "idle" /\ pc[Exec] # "gone"     \* a cancel command
       \/ pc[Reader] = "cancel"                        \* a mismatched verify_end
    /\ cancel_requested' = TRUE
    /\ Goto(Reader, "cancel_notify")
    /\ UNCHANGED <<item, stream, verify_outbox, counters, output>>

\* Job::request_cancel, second half: the notification, without verify_mutex.
CancelNotify ==
    /\ pc[Reader] = "cancel_notify"
    /\ pc' = [Notified EXCEPT ![Reader] = "idle"]
    /\ UNCHANGED <<item, stream, verify_outbox, counters, cancel_requested, output>>

ReaderContinues == VerifyFrame \/ VerifyEnd \/ ReaderNotify \/ CancelNotify
                   \/ (pc[Reader] = "cancel" /\ RequestCancel)

-----------------------------------------------------------------------------
(* An analysis worker: worker_body.                                        *)

WorkerWakes == verify_inbox # <<>> \/ verify_stream_ended \/ cancel_requested

\* The wait's predicate, and what follows a true one in the same critical section.
WorkerCheck(w) ==
    /\ pc[w] = "check"
    /\ MutexFree
    /\ \/ /\ ~WorkerWakes
          /\ Goto(w, "block")
          /\ UNCHANGED <<item, verify_inbox>>
       \/ /\ WorkerWakes
          /\ cancel_requested \/ verify_inbox = <<>>
          /\ Goto(w, "exit")
          /\ UNCHANGED <<item, verify_inbox>>
       \/ /\ ~cancel_requested
          /\ verify_inbox # <<>>
          /\ item' = [item EXCEPT ![w] = Head(verify_inbox)]
          /\ verify_inbox' = Tail(verify_inbox)
          /\ Goto(w, "analyze")
    /\ UNCHANGED <<verify_received, verify_stream_ended, verify_declared_total,
                   verify_outbox, counters, cancel_requested, output>>

\* Load and analyse the frame, outside the mutex; either may throw.
Analyze(w) ==
    /\ pc[w] = "analyze"
    /\ \E next \in {"push", "fail"} : Goto(w, next)
    /\ UNCHANGED <<item, stream, verify_outbox, counters, cancel_requested, output>>

\* The catch block counts the failure, then warns, before the entry is pushed.
CountFailure(w) ==
    /\ pc[w] = "fail"
    /\ MutexFree
    /\ verify_failed' = verify_failed + 1
    /\ Goto(w, "push_null")
    /\ UNCHANGED <<item, stream, verify_outbox, verify_completed, cancel_requested, output>>

\* Append the entry; a success is counted in the same critical section.
PushResult(w) ==
    /\ pc[w] \in {"push", "push_null"}
    /\ MutexFree
    /\ verify_outbox' = Append(verify_outbox, [seq |-> item[w], ok |-> pc[w] = "push"])
    /\ verify_completed' = IF pc[w] = "push" THEN verify_completed + 1 ELSE verify_completed
    /\ item' = [item EXCEPT ![w] = NoSeq]
    /\ Goto(w, "notify")
    /\ UNCHANGED <<stream, verify_failed, cancel_requested, output>>

\* Mutant: the entry is pushed but nobody is woken.
WorkerSilent(w) ==
    /\ pc[w] = "notify"
    /\ Goto(w, "check")
    /\ UNCHANGED <<item, stream, verify_outbox, counters, cancel_requested, output>>

WorkerNotify(w) ==
    /\ pc[w] = "notify"
    /\ pc' = [Notified EXCEPT ![w] = "check"]
    /\ UNCHANGED <<item, stream, verify_outbox, counters, cancel_requested, output>>

Worker(w) == \/ WorkerCheck(w) \/ Analyze(w) \/ CountFailure(w) \/ PushResult(w)
             \/ WorkerNotify(w) \/ Block(w)

-----------------------------------------------------------------------------
(* The executor: run_verify_job, then execute_loop's epilogue.              *)

\* Plan building: a cancellation or a planning error ends the job here.
Plan ==
    /\ pc[Exec] = "plan"
    /\ \/ /\ ~cancel_requested
          /\ pc' = [t \in Threads |-> IF t = Reader THEN pc[t] ELSE "check"]
          /\ UNCHANGED terminal
       \/ /\ \E kind \in {"cancelled", "error"} :
                 /\ kind = "cancelled" => cancel_requested
                 /\ terminal' = kind
          /\ Goto(Exec, "reset")
    /\ UNCHANGED <<item, stream, verify_outbox, counters, cancel_requested,
                   pending, finished, delivered>>

\* Mutant: an empty inbox is taken for a completed stream.
AllTaken == verify_stream_ended /\ verify_inbox = <<>>

AllCounted == /\ verify_stream_ended
              /\ verify_completed + verify_failed >= verify_received
              /\ verify_inbox = <<>>

DrainWakes == Len(verify_outbox) >= BatchSize \/ cancel_requested \/ AllCounted

\* Mutant: the declared total is not compared.
StreamDrained == cancel_requested \/ AllCounted

StreamFinished == \/ cancel_requested
                  \/ AllCounted /\ verify_declared_total = verify_received

\* The drain loop's wait, and `finished` computed in the same critical section.
DrainCheck ==
    /\ pc[Exec] = "check"
    /\ MutexFree
    /\ IF DrainWakes
       THEN finished' = StreamFinished /\ Goto(Exec, "drain")
       ELSE Goto(Exec, "block") /\ UNCHANGED finished
    /\ UNCHANGED <<item, stream, verify_outbox, counters, cancel_requested,
                   pending, delivered, terminal>>

\* Mutant: the outbox is copied, not moved.
CopyOutbox ==
    /\ pc[Exec] \in {"drain", "final_drain"}
    /\ MutexFree
    /\ pending' = verify_outbox
    /\ Goto(Exec, IF pc[Exec] = "drain" THEN "emit" ELSE "final_emit")
    /\ UNCHANGED <<item, stream, verify_outbox, counters, cancel_requested,
                   finished, delivered, terminal>>

\* drain_outbox under the mutex: take the whole outbox.
DrainOutbox ==
    /\ pc[Exec] \in {"drain", "final_drain"}
    /\ MutexFree
    /\ pending' = verify_outbox
    /\ verify_outbox' = <<>>
    /\ Goto(Exec, IF pc[Exec] = "drain" THEN "emit" ELSE "final_emit")
    /\ UNCHANGED <<item, stream, counters, cancel_requested, finished, delivered, terminal>>

\* drain_outbox after the mutex: one progress event, unless the batch is empty.
EmitProgress ==
    /\ pc[Exec] \in {"emit", "final_emit"}
    /\ delivered' = delivered \o pending
    /\ pending' = <<>>
    /\ Goto(Exec, IF pc[Exec] = "final_emit" THEN "cancelled"
                  ELSE IF finished THEN "join" ELSE "check")
    /\ UNCHANGED <<item, stream, verify_outbox, counters, cancel_requested, finished, terminal>>

\* Every worker has returned; a cancelled job drains once more.
WorkersReturned == \A w \in Workers : pc[w] = "exit"

\* Mutants: a cancelled job skips the last drain, or announces its end before it.
JoinNoDrain ==
    /\ pc[Exec] = "join"
    /\ WorkersReturned
    /\ IF cancel_requested
       THEN Goto(Exec, "cancelled") /\ UNCHANGED terminal
       ELSE Goto(Exec, "reset") /\ terminal' = "result"
    /\ UNCHANGED <<item, stream, verify_outbox, counters, cancel_requested,
                   pending, finished, delivered>>

JoinEarlyTerminal ==
    /\ pc[Exec] = "join"
    /\ WorkersReturned
    /\ Goto(Exec, IF cancel_requested THEN "final_drain" ELSE "reset")
    /\ terminal' = IF cancel_requested THEN "cancelled" ELSE "result"
    /\ UNCHANGED <<item, stream, verify_outbox, counters, cancel_requested,
                   pending, finished, delivered>>

JoinWorkers ==
    /\ pc[Exec] = "join"
    /\ WorkersReturned
    /\ IF cancel_requested
       THEN Goto(Exec, "final_drain") /\ UNCHANGED terminal
       ELSE Goto(Exec, "reset") /\ terminal' = "result"
    /\ UNCHANGED <<item, stream, verify_outbox, counters, cancel_requested,
                   pending, finished, delivered>>

\* emit_verify_cancelled, after the last progress event.
EmitCancelled ==
    /\ pc[Exec] = "cancelled"
    /\ terminal' = "cancelled"
    /\ Goto(Exec, "reset")
    /\ UNCHANGED <<item, stream, verify_outbox, counters, cancel_requested,
                   pending, finished, delivered>>

\* running_.reset(): the session forgets the job.
ResetRunning == /\ pc[Exec] = "reset"
                /\ Goto(Exec, "gone")
                /\ UNCHANGED <<item, stream, verify_outbox, counters, cancel_requested, output>>

Executor == \/ Plan \/ DrainCheck \/ Block(Exec) \/ DrainOutbox \/ EmitProgress
            \/ JoinWorkers \/ EmitCancelled \/ ResetRunning

-----------------------------------------------------------------------------
Next == \/ FindVerifyJob \/ RequestCancel \/ ReaderContinues
        \/ \E w \in Workers : Worker(w)
        \/ Executor

Spec == Init /\ [][Next]_vars

\* Every thread is scheduled; a reader inside a handler goes on, but no
\* further command has to arrive.
Fairness == /\ WF_vars(ReaderContinues)
            /\ \A w \in Workers : WF_vars(Worker(w))
            /\ WF_vars(Executor)

FairSpec == Spec /\ Fairness

-----------------------------------------------------------------------------
\* Every variable keeps its type, and each thread stays in its own code.
TypeOK ==
    /\ pc \in [Threads -> ReaderStates \cup WorkerStates \cup ExecStates]
    /\ pc[Reader] \in ReaderStates
    /\ pc[Exec] \in ExecStates
    /\ \A w \in Workers : pc[w] \in WorkerStates
    /\ item \in [Workers -> Seqs \cup {NoSeq}]
    /\ verify_inbox \in Seq(Seqs)
    /\ verify_outbox \in Seq(Entry)
    /\ verify_received \in 0 .. MaxFrames
    /\ verify_completed \in Nat
    /\ verify_failed \in Nat
    /\ verify_stream_ended \in BOOLEAN
    /\ verify_declared_total \in Nat
    /\ cancel_requested \in BOOLEAN
    /\ pending \in Seq(Entry)
    /\ finished \in BOOLEAN
    /\ delivered \in Seq(Entry)
    /\ terminal \in {"none", "result", "cancelled", "error"}

SeqsDiffer(entries) == \A i, j \in 1 .. Len(entries) :
                           entries[i].seq = entries[j].seq => i = j

\* No sequence number is reported twice over all progress events of the job,
\* whatever the interleaving of pops, pushes and the two drains.
ReportedOnce == SeqsDiffer(delivered)

\* The frames popped from the inbox and not yet counted by their worker.
Uncounted == {w \in Workers : pc[w] \in {"analyze", "push", "fail"}}

\* A `result` is only emitted for a stream that ended with the total it
\* declared, with every frame of it counted as completed or failed.
ResultAccountsForAll ==
    terminal = "result" => /\ verify_stream_ended
                           /\ verify_declared_total = verify_received
                           /\ verify_completed + verify_failed = verify_received
                           /\ Uncounted = {}

Successes(entries) == Cardinality({i \in 1 .. Len(entries) : entries[i].ok})

\* A `result` never loses the error of a frame that was analysed successfully.
ResultReportsEverySuccess ==
    terminal = "result" => Successes(delivered) = verify_completed

\* worker-protocol-v1.md, 2.6: the last batch drains before the `cancelled`
\* event, so the streamed entries always equal the counters it carries.
CancelledMatchesDelivered ==
    terminal = "cancelled" => /\ Successes(delivered) = verify_completed
                              /\ Len(delivered) = verify_completed + verify_failed

\* The terminal event tells the truth, and goes on to: a worker still running, or an
\* entry sent later, would change what it quoted.
TerminalAccounts == /\ ResultAccountsForAll
                    /\ ResultReportsEverySuccess
                    /\ CancelledMatchesDelivered

-----------------------------------------------------------------------------
\* A stream that ends with the right total settles, unless it is cancelled:
\* no wakeup of a worker or of the drain loop is lost.
EndedSettles ==
    (verify_stream_ended /\ verify_declared_total = verify_received)
        ~> (terminal # "none" \/ cancel_requested)

\* worker-protocol-v1.md, 2.4: a cancelled job ends with a `cancelled` event.
CancelSettles == cancel_requested ~> terminal # "none"

\* worker-protocol-v1.md, 2.6: a failed frame records a null for its seq, so a
\* finished stream has reported every frame it received.
ResultReportsEveryFrame ==
    terminal = "result" => Len(delivered) = verify_received

-----------------------------------------------------------------------------
Contract == INSTANCE VerifyContract WITH
    received <- verify_received,
    ended    <- verify_stream_ended,
    reported <- {delivered[i].seq : i \in 1 .. Len(delivered)},
    settled  <- terminal

\* The threads implement the promise of VerifyContract.
ImplementsContract == Contract!Spec
=============================================================================
