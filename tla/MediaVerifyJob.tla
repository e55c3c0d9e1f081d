--------------------------- MODULE MediaVerifyJob ---------------------------
(***************************************************************************)
(* A media verification job (run_media_verify_job in                        *)
(* engine/src/cli/worker.cpp): index, plan, decode and analyse with the     *)
(* hardware decoder, resume in software what it left unfinished, report.    *)
(*                                                                         *)
(* The pipeline is PipelineContract, which MediaVerifyPipeline implements;  *)
(* the job's collector, append_result, does not throw here (it could only   *)
(* run out of memory).                                                     *)
(***************************************************************************)
EXTENDS PipelineContract, SequencesExt

CONSTANTS SelectedFrames,   \* selected.size()
          BatchSize         \* result_batch_size

ASSUME JobBoundsOK == /\ SelectedFrames \in Nat \ {0}
                      /\ Concurrency \in Nat \ {0} /\ BatchSize \in Nat \ {0}

VARIABLES backend, automatic,   \* spec.backend, and whether it was requested as auto
          phase,
          hardware,             \* use_cuda_decode, use_vulkan_decode or use_metal_decode
          cancel_requested,     \* stop, of the job, and pl are PipelineContract's
          finished_seqs, result_batch, final_frames, completed, progress_completed,
          delivered,            \* the results of the progress events sent
          fallbacks,            \* hardware_decode_fallback warnings sent
          terminal              \* the terminal event, or NoEvent

spec == <<backend, automatic>>
results == <<finished_seqs, result_batch, final_frames, completed, progress_completed>>
events == <<delivered, fallbacks, terminal>>
vars == <<spec, phase, hardware, cancel_requested, stop, pl, results, events>>

Seqs == 0 .. SelectedFrames - 1
NoEvent == [type |-> "none"]

\* A result is its seq and the identity of the frame it was computed from.
Result == [seq : Seqs, identity : Seqs]

TypeOK == /\ phase \in {"index", "plan", "hardware", "software", "ended"}
          /\ pl.failure \in {"none", "cancelled", "error", "std"}
          /\ pl.decoder \in {"running", "ended", "failed"}
          /\ Cardinality(pl.queue \cup pl.working) <= Concurrency
          /\ Len(result_batch) < BatchSize
          /\ {result_batch[i] : i \in DOMAIN result_batch} \subseteq Result
          /\ fallbacks \in 0 .. 1
          /\ terminal.type \in {"none", "result", "error", "cancelled"}

\* Acceptance may have found no usable hardware decoder and warned already.
Init == /\ backend \in {"cpu", "gpu", "metal"} /\ automatic \in BOOLEAN
        /\ fallbacks \in (IF backend = "gpu" THEN {0, 1} ELSE {0})
        /\ hardware = (backend # "cpu" /\ fallbacks = 0)
        /\ phase = "index" /\ cancel_requested = FALSE /\ stop = FALSE /\ pl = NoPipeline
        /\ finished_seqs = {} /\ result_batch = <<>> /\ final_frames = <<>>
        /\ completed = 0 /\ progress_completed = 0
        /\ delivered = <<>> /\ terminal = NoEvent

-----------------------------------------------------------------------------
(* Terminal events.                                                        *)

End(event) == /\ phase' = "ended" /\ terminal' = event
              /\ pl' = NoPipeline
              /\ UNCHANGED <<spec, hardware, cancel_requested, stop, fallbacks>>

\* Out of run_media_verify_job: execute_loop reports the exception.
Escape(error) ==
    /\ End(IF error = "cancelled" THEN [type |-> "cancelled", partial |-> FALSE, frames_completed |-> 0]
           ELSE [type |-> "error"])
    /\ UNCHANGED <<results, delivered>>

Flush == delivered' = delivered \o result_batch /\ result_batch' = <<>>

\* Mutant: the last, short batch is not flushed.
CancelledUnflushed ==
    /\ End([type |-> "cancelled", partial |-> completed > 0, frames_completed |-> completed])
    /\ UNCHANGED <<results, delivered>>
\* emit_verify_cancelled() after flush_results().
Cancelled ==
    /\ End([type |-> "cancelled", partial |-> completed > 0, frames_completed |-> completed])
    /\ Flush /\ UNCHANGED <<finished_seqs, final_frames, completed, progress_completed>>

\* std::sort: the frames rearranged, with ascending seqs.
BySeq(frames) ==
    LET Sorts(p) == /\ IsInjective(p)
                    /\ \A i, j \in DOMAIN frames : i < j => frames[p[i]].seq <= frames[p[j]].seq
        order == CHOOSE p \in [DOMAIN frames -> DOMAIN frames] : Sorts(p)
    IN [i \in DOMAIN frames |-> frames[order[i]]]

\* The end of a decode: a cancellation is looked at once more before the result.
Conclude ==
    IF cancel_requested THEN Cancelled
    ELSE /\ End([type |-> "result", frames |-> BySeq(final_frames), frames_completed |-> completed])
         /\ Flush /\ UNCHANGED <<finished_seqs, final_frames, completed, progress_completed>>

-----------------------------------------------------------------------------
(* Index and plan phases.                                                  *)

Fallback == fallbacks' = fallbacks + 1 /\ hardware' = FALSE

\* ensure_index with the hardware decoder's options fails: software from now on,
\* unless the client asked for metal; without them it is the job that fails.  Of a
\* cancelled job, the exception that VideoToolbox leaves is nobody's "cancelled".
IndexFails ==
    /\ phase = "index"
    /\ IF ~hardware THEN Escape(IF cancel_requested THEN "cancelled" ELSE "error")
       ELSE IF cancel_requested THEN Escape(IF backend = "metal" THEN "error" ELSE "cancelled")
       ELSE IF backend = "metal" /\ ~automatic THEN Escape("error")
       ELSE /\ Fallback
            /\ UNCHANGED <<spec, phase, cancel_requested, stop, pl, results, delivered, terminal>>

IndexEnds == /\ phase = "index"
             /\ IF cancel_requested THEN Escape("cancelled")
                ELSE /\ phase' = "plan"
                     /\ UNCHANGED <<spec, hardware, cancel_requested, stop, pl, results, events>>

\* A changed source, a bad scope or a failing preflight.
PlanFails == phase = "plan" /\ Escape("error")

\* The frames a pipeline decodes are the positions of original, seqs of the selection.
StartPipeline(original) == pl' = Started(original)
Ascending(S) == CHOOSE s \in [1 .. Cardinality(S) -> S] :
                    ToSet(s) = S /\ \A i, j \in DOMAIN s : i < j => s[i] < s[j]

StartDecode ==
    /\ phase = "plan"
    /\ IF cancel_requested THEN Cancelled
       ELSE /\ phase' = IF hardware THEN "hardware" ELSE "software"
            /\ StartPipeline(Ascending(Seqs))
            /\ UNCHANGED <<spec, hardware, cancel_requested, stop, results, events>>

-----------------------------------------------------------------------------
(* The pipeline.                                                           *)

Running == phase \in {"hardware", "software"}
jobs == <<spec, phase, hardware, cancel_requested, results, events>>

WorkersNotStarted == Running /\ WorkersUnstarted /\ UNCHANGED jobs
Push(i) == Running /\ PushFrame(i) /\ UNCHANGED jobs
DecoderEnds == Running /\ EndDecoder /\ UNCHANGED jobs
Take(i) == Running /\ TakeFrame(i) /\ UNCHANGED jobs
Analyzed(i) == Running /\ FinishFrame(i) /\ UNCHANGED jobs

\* The hardware analyzers turn an engine's exception into a WorkerError, "cancelled" when
\* a stop was requested; acquire_for_submit, which prepares a Vulkan frame, is outside
\* that.  analyze_host turns nothing.
Raises == IF phase = "software" THEN {"std", "error"}
          ELSE {IF stop THEN "cancelled" ELSE "error"}
                 \cup (IF backend = "gpu" THEN {"std"} ELSE {})
AnalysisFails(i) == /\ Running
                    /\ \E error \in Raises : FailFrame(i, error)
                    /\ UNCHANGED jobs

\* Mutant: the software decoder's own seq is reported.
PositionAsSeq(i) == i - 1
OriginalSeq(i) == pl.original[i]

\* append_result(); the software pipeline counts on from what is there already.
Collect(a) ==
    LET result == [seq |-> OriginalSeq(a.frame), identity |-> pl.original[a.frame]]
        analyzed == IF phase = "software" THEN completed + 1 ELSE a.done
        batch == Append(result_batch, result)
        full == Len(batch) >= BatchSize
    IN  /\ Running /\ CollectFrame(a)
        /\ final_frames' = Append(final_frames, result)
        /\ finished_seqs' = finished_seqs \cup {result.seq}
        /\ completed' = completed + 1
        /\ progress_completed' = IF analyzed > progress_completed THEN analyzed
                                 ELSE progress_completed
        /\ result_batch' = IF full THEN <<>> ELSE batch
        /\ delivered' = IF full THEN delivered \o batch ELSE delivered
        /\ UNCHANGED <<spec, phase, hardware, cancel_requested, fallbacks, terminal>>

\* Mutant: the frames after as many as were completed, as if they had been the first.
AfterPrefix == {s \in Seqs : s >= completed}
\* remaining_verify_frames().
Remaining == Seqs \ finished_seqs

\* A Metal decode that went through system memory after all is an error, not a result.
Decoded == Conclude \/ (backend = "metal" /\ Escape("error"))

HardwareReturns ==
    /\ phase = "hardware" /\ PipelineOver
    /\ CASE Thrown = "none" -> Decoded
         [] Thrown = "cancelled" \/ (Thrown = "std" /\ cancel_requested) -> Cancelled
         [] Thrown = "error" -> Escape("error")
         [] OTHER ->
              IF backend = "metal" /\ ~automatic THEN Escape("error")
              ELSE /\ Fallback /\ phase' = "software"
                   /\ StartPipeline(Ascending(Remaining))
                   /\ UNCHANGED <<spec, cancel_requested, stop, results, delivered, terminal>>

\* With nothing left for it, the software pipeline is not even started.
SoftwareReturns ==
    /\ phase = "software"
    /\ IF pl.original = <<>> THEN Conclude
       ELSE /\ PipelineOver
            /\ CASE Thrown = "none" -> Conclude
                 [] Thrown = "cancelled" -> Cancelled
                 [] Thrown = "error" -> Escape("error")
                 [] OTHER -> Escape(IF cancel_requested THEN "cancelled" ELSE "error")

-----------------------------------------------------------------------------
\* The client's cancel: Job::request_cancel() sets one after the other.
RequestCancel == /\ phase # "ended" /\ ~cancel_requested
                 /\ cancel_requested' = TRUE
                 /\ UNCHANGED <<spec, phase, hardware, stop, pl, results, events>>
RequestStop == /\ cancel_requested /\ ~stop
               /\ stop' = TRUE
               /\ UNCHANGED <<spec, phase, hardware, cancel_requested, pl, results, events>>

Analyze(i) == Push(i) \/ Take(i) \/ Analyzed(i) \/ AnalysisFails(i)
Job == IndexFails \/ IndexEnds \/ PlanFails \/ StartDecode \/ WorkersNotStarted \/ DecoderEnds
       \/ HardwareReturns \/ SoftwareReturns \/ RequestStop
       \/ (\E i \in 1 .. SelectedFrames : Analyze(i)) \/ (\E a \in pl.analyzed : Collect(a))
Next == Job \/ RequestCancel

Spec == Init /\ [][Next]_vars

\* The threads of the job run until it is cancelled.  Nothing is assumed of a cancelled
\* job: the callback of a stop notifies without the pipeline's mutex, and a thread that
\* misses it may sleep for ever (StopReturns of MediaVerifyPipeline).
FairSpec == Spec /\ WF_vars(~cancel_requested /\ Job)

-----------------------------------------------------------------------------
\* "Result sequence numbers are neither duplicated nor skipped": over both decoders, in
\* whatever order frames complete, no result is sent twice and none under another
\* frame's seq; and hardware_decode_fallback is sent at most once.
DeliveredOnce == /\ TypeOK
                 /\ IsInjective(delivered)
                 /\ \A i \in DOMAIN delivered : delivered[i] \in Result
                                                /\ delivered[i].seq = delivered[i].identity

\* A result event lists every selected frame in order, they have all been sent before it,
\* and the progress it follows has reached the total.
ResultComplete ==
    terminal.type = "result" =>
        /\ terminal.frames = [s \in 1 .. SelectedFrames |-> [seq |-> s - 1, identity |-> s - 1]]
        /\ terminal.frames_completed = SelectedFrames
        /\ ToSet(delivered) = ToSet(terminal.frames)
        /\ progress_completed = SelectedFrames

\* A cancelled event that quotes a count quotes the results sent before it: whatever
\* was collected when the workers stopped is flushed first.
CancelledCountsDelivered ==
    terminal.type = "cancelled" /\ terminal.partial => terminal.frames_completed = Len(delivered)

\* The terminal event agrees with the results sent before it.
TerminalAgrees == ResultComplete /\ CancelledCountsDelivered

\* A job that nobody cancels ends, however its two decoders and its analyses fail.
Settles == <>(terminal # NoEvent \/ cancel_requested)

\* A cancelled event says "partial" when any results were produced.
CancelledTellsPartial ==
    terminal.type = "cancelled" => (terminal.partial <=> final_frames # <<>>)

\* A failed hardware decode "continues with software decode": only a client's cancel
\* makes the job end as cancelled.
CancelledByClient == terminal.type = "cancelled" => cancel_requested
=============================================================================
