------------------------- MODULE MediaVerifyPipeline -------------------------
(***************************************************************************)
(* The bounded pipeline of a media verification job (class template         *)
(* MediaVerifyPipeline in engine/src/cli/worker.cpp).                       *)
(*                                                                         *)
(* Decode sessions (the producers, threads of decode_selected_indexed)      *)
(* push decoded frames; analysis workers take them; at most Concurrency     *)
(* frames are queued or under analysis.  run() starts the workers, waits    *)
(* for the decoder, joins the workers and returns or throws.  A client's    *)
(* cancellation arrives as a stop request from another thread.              *)
(*                                                                         *)
(* Producers and workers sleep on one condition variable.  A wait is three  *)
(* steps: predicate under the mutex ("check"), still holding it ("block"),  *)
(* asleep ("waiting").  The stop token is read by the predicates and        *)
(* changed, and its callback notifies, without the mutex.                   *)
(* Frames are sequence numbers; the time accounting is left out.            *)
(***************************************************************************)
EXTENDS Integers, Sequences, FiniteSets

CONSTANTS Workers,      \* Concurrency analysis threads
          Producers,    \* decode sessions; decode_budget allows at most Concurrency
          Runner,       \* the thread inside run()
          Canceller,    \* the thread that requests the stop
          MaxFrames,    \* bound on the frames the decoder selects
          MayCancel     \* whether the client may cancel the job

Concurrency == Cardinality(Workers)

ASSUME ThreadsDistinct ==
    /\ Workers \cap Producers = {}
    /\ {Runner, Canceller} \cap (Workers \cup Producers) = {}
    /\ Runner # Canceller
ASSUME BoundsOK == MaxFrames \in Nat /\ MayCancel \in BOOLEAN /\ IsFiniteSet(Workers)
\* decode_budget(): no more decode sessions than analysis_concurrency.  With more,
\* notify_one() could wake a second producer in a worker's place, for good.
ASSUME SessionsWithinConcurrency ==
    IsFiniteSet(Producers) /\ Cardinality(Producers) <= Concurrency

VARIABLES pc,
          frame,            \* the frame each worker or producer holds, or died with
          done,             \* a worker's: how many frames were completed with its own, or 0
          queue_, inflight_, decoding_done_, abort_, failure_,   \* under mutex_
          stop,             \* stop_.stop_requested()
          decode_failure,   \* a decode session, or the decoder, threw
          completed_,
          produced,         \* frames the decoder has handed to push()
          collected,        \* frames whose result reached the collector
          outcome           \* "none", or how run() ended

shared == <<queue_, inflight_, decoding_done_, abort_, failure_>>
decoder == <<decode_failure, produced>>
results == <<completed_, collected>>
vars == <<pc, frame, done, shared, stop, decoder, results, outcome>>

Threads == Workers \cup Producers \cup {Runner, Canceller}
NoFrame == 0
Frames == 1 .. MaxFrames

-----------------------------------------------------------------------------
MutexFree == \A t \in Workers \cup Producers : pc[t] # "block"
Goto(t, state) == pc' = [pc EXCEPT ![t] = state]
Woken(state) == IF state = "waiting" THEN "check" ELSE state

\* The program counters after condition_.notify_all().
NotifiedAll == [t \in Threads |-> Woken(pc[t])]

\* condition_.notify_one(): any one sleeping thread, a worker or a producer.
NotifyOne(self, state) ==
    LET sleeping == {t \in Workers \cup Producers : pc[t] = "waiting"}
    IN  IF sleeping = {} THEN Goto(self, state)
        ELSE \E t \in sleeping : pc' = [pc EXCEPT ![self] = state, ![t] = "check"]

Init == /\ pc = [t \in Threads |-> IF t \in Workers THEN "unborn"
                                   ELSE IF t \in Producers THEN "idle"
                                   ELSE IF t = Runner THEN "spawn" ELSE "idle"]
        /\ frame = [t \in Workers \cup Producers |-> NoFrame]
        /\ done = [w \in Workers |-> 0]
        /\ queue_ = <<>> /\ inflight_ = 0
        /\ decoding_done_ = FALSE /\ abort_ = FALSE /\ failure_ = FALSE
        /\ stop \in {FALSE, MayCancel}
        /\ decode_failure = FALSE /\ produced = 0
        /\ completed_ = 0 /\ collected = {}
        /\ outcome = "none"

Block(t) == /\ pc[t] = "block"
            /\ Goto(t, "waiting")
            /\ UNCHANGED <<frame, done, shared, stop, decoder, results, outcome>>

-----------------------------------------------------------------------------
(* push(), called by each decode session.                                  *)

\* Mutant: one frame too many.
HasRoomForOneMore == inflight_ <= Concurrency

HasRoom == inflight_ < Concurrency

PushWakes == abort_ \/ failure_ \/ stop \/ HasRoom

\* A decode session matches its next selected frame, ends, or throws; it also
\* throws when it sees the stop and returns when another session has failed.
DecodeNext(p) ==
    /\ pc[p] = "decode"
    /\ \/ /\ ~stop /\ ~decode_failure /\ produced < MaxFrames
          /\ produced' = produced + 1
          /\ frame' = [frame EXCEPT ![p] = produced']
          /\ Goto(p, "check")
          /\ UNCHANGED decode_failure
       \/ /\ decode_failure' \in {decode_failure \/ stop, TRUE}
          /\ Goto(p, "ended")
          /\ UNCHANGED <<frame, produced>>
    /\ UNCHANGED <<done, shared, stop, results, outcome>>

PushCheck(p) ==
    /\ pc[p] = "check"
    /\ MutexFree
    /\ \/ /\ ~PushWakes
          /\ Goto(p, "block")
          /\ UNCHANGED <<frame, queue_, inflight_, decode_failure>>
       \/ /\ failure_ \/ abort_ \/ stop
          /\ decode_failure' = TRUE
          /\ Goto(p, "ended")
          /\ UNCHANGED <<frame, queue_, inflight_>>
       \/ /\ ~failure_ /\ ~abort_ /\ ~stop
          /\ HasRoom
          /\ queue_' = Append(queue_, frame[p])
          /\ inflight_' = inflight_ + 1
          /\ frame' = [frame EXCEPT ![p] = NoFrame]
          /\ Goto(p, "notify")
          /\ UNCHANGED decode_failure
    /\ UNCHANGED <<done, decoding_done_, abort_, failure_, stop, produced, results, outcome>>

PushNotify(p) ==
    /\ pc[p] = "notify"
    /\ NotifyOne(p, "decode")
    /\ UNCHANGED <<frame, done, shared, stop, decoder, results, outcome>>

Producer(p) == DecodeNext(p) \/ PushCheck(p) \/ PushNotify(p) \/ Block(p)

-----------------------------------------------------------------------------
(* worker_loop() and fail().                                               *)

\* Mutant: the end of decoding is taken for an empty queue.
DecoderIsDone == decoding_done_

NothingLeft == queue_ = <<>> /\ decoding_done_

WorkerWakes == abort_ \/ stop \/ queue_ # <<>> \/ decoding_done_

WorkerCheck(w) ==
    /\ pc[w] = "check"
    /\ MutexFree
    /\ \/ /\ ~WorkerWakes
          /\ Goto(w, "block")
          /\ UNCHANGED <<frame, queue_>>
       \/ /\ abort_ \/ stop \/ NothingLeft
          /\ Goto(w, "exit")
          /\ UNCHANGED <<frame, queue_>>
       \/ /\ ~abort_ /\ ~stop
          /\ queue_ # <<>>
          /\ frame' = [frame EXCEPT ![w] = Head(queue_)]
          /\ queue_' = Tail(queue_)
          /\ Goto(w, "analyze")
    /\ UNCHANGED <<done, inflight_, decoding_done_, abort_, failure_, stop, decoder, results,
                   outcome>>

\* The analyzer returns an error value.
Analyze(w) ==
    /\ pc[w] = "analyze"
    /\ completed_' = completed_ + 1
    /\ done' = [done EXCEPT ![w] = completed_']
    /\ Goto(w, "release")
    /\ UNCHANGED <<frame, shared, stop, decoder, collected, outcome>>

ReleaseSlot(w) ==
    /\ pc[w] = "release"
    /\ MutexFree
    /\ inflight_' = inflight_ - 1
    /\ Goto(w, "notify")
    /\ UNCHANGED <<frame, done, queue_, decoding_done_, abort_, failure_, stop, decoder,
                   results, outcome>>

\* Mutant: a released slot wakes nobody.
WorkerSilent(w) ==
    /\ pc[w] = "notify"
    /\ Goto(w, "collect")
    /\ UNCHANGED <<frame, done, shared, stop, decoder, results, outcome>>

WorkerNotify(w) ==
    /\ pc[w] = "notify"
    /\ pc' = [NotifiedAll EXCEPT ![w] = "collect"]
    /\ UNCHANGED <<frame, done, shared, stop, decoder, results, outcome>>

\* The collector, under its own mutex.
Collect(w) ==
    /\ pc[w] = "collect"
    /\ collected' = collected \cup {frame[w]}
    /\ frame' = [frame EXCEPT ![w] = NoFrame]
    /\ done' = [done EXCEPT ![w] = 0]
    /\ Goto(w, "check")
    /\ UNCHANGED <<shared, stop, decoder, completed_, outcome>>

\* Mutant: the failing worker gives its slot back again.
FailReleases(t, next) ==
    /\ MutexFree
    /\ failure_' = TRUE
    /\ abort_' = TRUE
    /\ inflight_' = inflight_ - Len(queue_) - 1
    /\ queue_' = <<>>
    /\ Goto(t, next)
    /\ UNCHANGED <<frame, done, decoding_done_, stop, decoder, results, outcome>>

\* fail(): record the failure, give up what is queued.
Fail(t, next) ==
    /\ MutexFree
    /\ failure_' = TRUE
    /\ abort_' = TRUE
    /\ inflight_' = inflight_ - Len(queue_)
    /\ queue_' = <<>>
    /\ Goto(t, next)
    /\ UNCHANGED <<frame, done, decoding_done_, stop, decoder, results, outcome>>

\* The analyzer or the collector throws.
Throws(w) == pc[w] \in {"analyze", "collect"} /\ Fail(w, "fail_stop")

\* stop_decoder_(): the job's stop source.
FailStop(t) ==
    /\ pc[t] = "fail_stop"
    /\ stop' = TRUE
    /\ Goto(t, "fail_notify")
    /\ UNCHANGED <<frame, done, shared, decoder, results, outcome>>

FailNotify(t, next) ==
    /\ pc[t] = "fail_notify"
    /\ pc' = [NotifiedAll EXCEPT ![t] = next]
    /\ UNCHANGED <<frame, done, shared, stop, decoder, results, outcome>>

Worker(w) == \/ WorkerCheck(w) \/ Analyze(w) \/ ReleaseSlot(w) \/ WorkerNotify(w) \/ Collect(w)
             \/ Throws(w) \/ FailStop(w) \/ FailNotify(w, "exit") \/ Block(w)

-----------------------------------------------------------------------------
(* run().                                                                  *)

\* Start one more worker; after the last one, start the decoder.
Spawn(w) ==
    /\ pc[Runner] = "spawn"
    /\ pc[w] = "unborn"
    /\ pc' = [t \in Threads |->
                IF t = w THEN "check"
                ELSE IF \A v \in Workers \ {w} : pc[v] # "unborn"
                     THEN IF t = Runner THEN "decoding"
                          ELSE IF t \in Producers THEN "decode" ELSE pc[t]
                     ELSE pc[t]]
    /\ UNCHANGED <<frame, done, shared, stop, decoder, results, outcome>>

\* A thread cannot be created: fail(), join the ones that were, rethrow.
SpawnFails == pc[Runner] = "spawn" /\ Fail(Runner, "fail_stop")

\* The decoder has returned or thrown, at the latest because frames are missing; a
\* stopped job gives up what is queued.
DecodingDone ==
    /\ pc[Runner] = "decoding"
    /\ \A p \in Producers : pc[p] = "ended"
    /\ MutexFree
    /\ decode_failure' = (decode_failure \/ produced < MaxFrames)
    /\ decoding_done_' = TRUE
    /\ IF stop
       THEN /\ abort_' = TRUE
            /\ inflight_' = inflight_ - Len(queue_)
            /\ queue_' = <<>>
       ELSE UNCHANGED <<abort_, inflight_, queue_>>
    /\ Goto(Runner, "notify")
    /\ UNCHANGED <<frame, done, failure_, stop, produced, results, outcome>>

RunnerNotify ==
    /\ pc[Runner] = "notify"
    /\ pc' = [NotifiedAll EXCEPT ![Runner] = "join"]
    /\ UNCHANGED <<frame, done, shared, stop, decoder, results, outcome>>

\* Mutant: run() does not join its workers.
ReturnUnjoined ==
    /\ pc[Runner] = "join"
    /\ outcome' = IF failure_ THEN "failed"
                  ELSE IF stop THEN "cancelled"
                  ELSE IF decode_failure THEN "decode_failed" ELSE "ok"
    /\ Goto(Runner, "over")
    /\ UNCHANGED <<frame, done, shared, stop, decoder, results>>

\* Mutant: the stop that fail() raised hides the failure.
ReturnStopFirst ==
    /\ pc[Runner] = "join"
    /\ \A w \in Workers : pc[w] \in {"exit", "unborn"}
    /\ outcome' = IF stop THEN "cancelled"
                  ELSE IF failure_ THEN "failed"
                  ELSE IF decode_failure THEN "decode_failed" ELSE "ok"
    /\ Goto(Runner, "over")
    /\ UNCHANGED <<frame, done, shared, stop, decoder, results>>

\* A failure wins over a stop, a stop over a decoder's exception.
Return ==
    /\ pc[Runner] = "join"
    /\ \A w \in Workers : pc[w] \in {"exit", "unborn"}
    /\ outcome' = IF failure_ THEN "failed"
                  ELSE IF stop THEN "cancelled"
                  ELSE IF decode_failure THEN "decode_failed" ELSE "ok"
    /\ Goto(Runner, "over")
    /\ UNCHANGED <<frame, done, shared, stop, decoder, results>>

Run == \/ \E w \in Workers : Spawn(w)
       \/ SpawnFails \/ FailStop(Runner) \/ FailNotify(Runner, "join")
       \/ DecodingDone \/ RunnerNotify \/ Return

\* request_stop() by the client's cancellation, then its callback's notify_all().
RequestStop ==
    /\ MayCancel
    /\ pc[Canceller] = "idle"
    /\ outcome = "none"
    /\ Goto(Canceller, IF stop THEN "done" ELSE "notify")
    /\ stop' = TRUE
    /\ UNCHANGED <<frame, done, shared, decoder, results, outcome>>

StopCallback ==
    /\ pc[Canceller] = "notify"
    /\ pc' = [NotifiedAll EXCEPT ![Canceller] = "done"]
    /\ UNCHANGED <<frame, done, shared, stop, decoder, results, outcome>>

-----------------------------------------------------------------------------
Next == \/ \E p \in Producers : Producer(p)
        \/ \E w \in Workers : Worker(w)
        \/ Run \/ RequestStop \/ StopCallback

Spec == Init /\ [][Next]_vars

\* Every thread of the job is scheduled and the decoder's input is finite.
FairSpec == /\ Spec
            /\ \A p \in Producers : WF_vars(Producer(p))
            /\ \A w \in Workers : WF_vars(Worker(w))
            /\ WF_vars(Run) /\ WF_vars(StopCallback)

-----------------------------------------------------------------------------
\* Every variable keeps its type; the counters of run() stay within the frames
\* the decoder selects.
TypeOK ==
    /\ pc \in [Threads -> {"unborn", "idle", "spawn", "decoding", "decode", "check", "block",
                            "waiting", "analyze", "release", "notify", "collect", "fail_stop",
                            "fail_notify", "exit", "ended", "join", "over", "done"}]
    /\ frame \in [Workers \cup Producers -> Frames \cup {NoFrame}]
    /\ done \in [Workers -> 0 .. MaxFrames]
    /\ queue_ \in Seq(Frames)
    /\ inflight_ \in Nat
    /\ decoding_done_ \in BOOLEAN /\ abort_ \in BOOLEAN /\ failure_ \in BOOLEAN
    /\ stop \in BOOLEAN /\ decode_failure \in BOOLEAN
    /\ completed_ \in 0 .. MaxFrames
    /\ produced \in 0 .. MaxFrames
    /\ collected \subseteq Frames
    /\ outcome \in {"none", "ok", "failed", "cancelled", "decode_failed"}

\* The frames whose slot a worker still holds.
UnderAnalysis == {w \in Workers : pc[w] \in {"analyze", "release"}}

\* worker-protocol-v1.md, 2.7: concurrency is the maximum number of frames
\* queued or being analysed, through every failure, stop and release.
InflightBounded ==
    /\ Len(queue_) + Cardinality(UnderAnalysis) <= inflight_
    /\ inflight_ <= Concurrency

\* A run that ends normally has analysed and collected every frame, and one that ends by
\* the decoder's own exception (the caller then decodes the remaining frames in software)
\* every frame it accepted.
AcceptedFramesCollected ==
    outcome \in {"ok", "decode_failed"} =>
        /\ queue_ = <<>> /\ inflight_ = 0
        /\ Cardinality(collected) = completed_
        /\ outcome = "ok" => collected = Frames

\* A worker's exception is never reported as a cancellation or a fallback,
\* although fail() itself raises the stop request.
FailureNotMasked == outcome # "none" => (failure_ <=> outcome = "failed")

\* The bound that keeps decoded frames from piling up, with the types.
PipelineInv == TypeOK /\ InflightBounded

\* What run() reports is what became of the frames, then and afterwards: a worker that
\* outlived it would disturb the counts.
OutcomeFaithful == AcceptedFramesCollected /\ FailureNotMasked

\* What the job sees of the pipeline: where the frames are and how its parts ended.
Holding(states) == {w \in Workers : pc[w] \in states}
Unpushed == {i \in Frames : i > produced \/ \E p \in Producers : frame[p] = i}
InQueue == {queue_[k] : k \in 1 .. Len(queue_)}
AtWork == {frame[w] : w \in Holding({"analyze"})}
Uncollected == {[frame |-> frame[w], done |-> done[w]] :
                   w \in Holding({"release", "notify", "collect"})}
DecoderState == IF pc[Runner] \in {"spawn", "decoding"} THEN "running"
                ELSE IF decode_failure THEN "failed" ELSE "ended"
FailureState == IF failure_ THEN "std" ELSE "none"
contract ==
    [original |-> [i \in Frames |-> i], left |-> Unpushed, queue |-> InQueue,
     working |-> AtWork, analyzed |-> Uncollected, done |-> completed_,
     decoder |-> DecoderState, failure |-> FailureState]

Contract == INSTANCE PipelineContract WITH pl <- contract, stop <- stop \/ failure_

\* The threads implement the promise of PipelineContract on which the job is built; run()
\* ends when the contract lets it, as the contract says.
EndsAsPromised ==
    outcome' # outcome =>
        /\ Contract!PipelineOver
        /\ outcome' = "failed" <=> contract.failure # "none"
        /\ outcome' = "cancelled" <=> Contract!Thrown = "cancelled"
        /\ outcome' = "ok" <=> Contract!Thrown = "none"
ImplementsContract == Contract!PipelineSpec /\ [][EndsAsPromised]_vars

\* Unless the client cancels, run() returns, whatever fails: a stop it raises
\* itself never leaves a thread asleep.
Returns == <>(outcome # "none" \/ pc[Canceller] # "idle")

\* worker-protocol-v1.md, 2.4: a cancelled job ends.
StopReturns == stop ~> outcome # "none"
=============================================================================
