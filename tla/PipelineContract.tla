-------------------------- MODULE PipelineContract --------------------------
(***************************************************************************)
(* What a media verification pipeline (class template MediaVerifyPipeline   *)
(* in engine/src/cli/worker.cpp) is to the job that runs it, with no        *)
(* threads, no locks and no slots: the frames are pushed, analysed and      *)
(* collected in any order, at most Concurrency of them queued or analysed   *)
(* at a time; the decoder ends or fails, and an analysis, the collector or  *)
(* the start of the workers may fail, which stops the decoder and gives up  *)
(* what is queued.  run() ends when the decoder and the workers have, and   *)
(* throws the first failure, else "cancelled" if a stop was requested, else *)
(* what the decoder threw.                                                 *)
(*                                                                         *)
(* MediaVerifyJob is built on this, MediaVerifyPipeline shown to implement  *)
(* it.  An exception is "cancelled" or "error", WorkerErrors both, or       *)
(* "std", anything else.                                                    *)
(***************************************************************************)
EXTENDS Integers, Sequences, FiniteSets

CONSTANT Concurrency

VARIABLES pl,    \* the pipeline
          stop   \* the stop of its job

\* The frames are the positions of original, which holds their seqs.
NoPipeline == [original |-> <<>>, left |-> {}, queue |-> {}, working |-> {}, analyzed |-> {},
               done |-> 0, decoder |-> "running", failure |-> "none"]
Started(original) == [NoPipeline EXCEPT !.original = original, !.left = DOMAIN original]

Stopped == stop \/ pl.failure # "none"
Failed(error) == IF pl.failure = "none" THEN error ELSE pl.failure

\* run() could not start its threads: it has fail()ed before the decoder is called.
WorkersUnstarted ==
    /\ pl.decoder = "running" /\ pl.left = DOMAIN pl.original
    /\ pl' = [pl EXCEPT !.decoder = "ended", !.failure = "std"]
    /\ stop' = TRUE

PushFrame(i) ==
    /\ pl.decoder = "running" /\ i \in pl.left /\ ~Stopped
    /\ Cardinality(pl.queue \cup pl.working) < Concurrency
    /\ pl' = [pl EXCEPT !.left = @ \ {i}, !.queue = @ \cup {i}]
    /\ UNCHANGED stop

\* A decoder ends when it has pushed all, fails at any time and at the latest when stopped;
\* run() then gives up what is queued if a stop was requested.
EndDecoder ==
    /\ pl.decoder = "running"
    /\ \E end \in {"ended", "failed"} :
          /\ end = "ended" => pl.left = {}
          /\ pl' = [pl EXCEPT !.decoder = end, !.queue = IF stop THEN {} ELSE @]
    /\ UNCHANGED stop

TakeFrame(i) == /\ i \in pl.queue /\ ~Stopped
                /\ pl' = [pl EXCEPT !.queue = @ \ {i}, !.working = @ \cup {i}]
                /\ UNCHANGED stop

\* A frame leaves inflight_ before its result is collected.
FinishFrame(i) ==
    /\ i \in pl.working
    /\ pl' = [pl EXCEPT !.working = @ \ {i}, !.done = @ + 1,
                        !.analyzed = @ \cup {[frame |-> i, done |-> pl.done + 1]}]
    /\ UNCHANGED stop

\* fail() keeps the first failure and requests the stop of the whole job.
FailFrame(i, error) ==
    /\ i \in pl.working
    /\ pl' = [pl EXCEPT !.working = @ \ {i}, !.queue = {}, !.failure = Failed(error)]
    /\ stop' = TRUE

CollectFrame(a) == /\ a \in pl.analyzed
                   /\ pl' = [pl EXCEPT !.analyzed = @ \ {a}]
                   /\ UNCHANGED stop

FailCollect(a, error) ==
    /\ a \in pl.analyzed
    /\ pl' = [pl EXCEPT !.analyzed = @ \ {a}, !.queue = {}, !.failure = Failed(error)]
    /\ stop' = TRUE

StopPipeline == ~stop /\ stop' = TRUE /\ UNCHANGED pl

\* Mutant: the end waits for every frame, also for those that fail.
PipelineCounted == /\ pl.decoder # "running"
                   /\ pl.working = {} /\ pl.analyzed = {}
                   /\ pl.done = Len(pl.original)
\* run() has joined its workers; a stop leaves the queue behind.
PipelineOver == /\ pl.decoder # "running"
                /\ pl.working = {} /\ pl.analyzed = {}
                /\ pl.queue = {} \/ Stopped
Thrown == IF pl.failure # "none" THEN pl.failure
          ELSE IF stop THEN "cancelled"
          ELSE IF pl.decoder = "failed" THEN "std" ELSE "none"

-----------------------------------------------------------------------------
PipelineInit == /\ pl.original \in Seq(Nat) /\ pl = Started(pl.original)
                /\ stop \in BOOLEAN

Errors == {"cancelled", "error", "std"}
FrameMoves(i) == \/ PushFrame(i) \/ TakeFrame(i) \/ FinishFrame(i)
                 \/ \E error \in Errors : FailFrame(i, error)
ResultMoves(a) == CollectFrame(a) \/ \E error \in Errors : FailCollect(a, error)

PipelineNext == \/ WorkersUnstarted \/ EndDecoder \/ StopPipeline
                \/ \E i \in DOMAIN pl.original : FrameMoves(i)
                \/ \E a \in pl.analyzed : ResultMoves(a)

PipelineSpec == PipelineInit /\ [][PipelineNext]_<<pl, stop>>
=============================================================================
