----------------------------- MODULE VerifyRing -----------------------------
(***************************************************************************)
(* The shared-memory ring of a streamed verification job                    *)
(* (engine/src/cli/worker.cpp: MappedRing, verify_ring_attach, verify_frame *)
(* and the ring branch of run_verify_job's workers; the producer is any      *)
(* client of docs/worker-protocol-v1.md:345-368).                           *)
(*                                                                         *)
(* The producer writes frame `seq` into a slot it considers free and         *)
(* announces it with the slot's next generation.  A worker of the engine      *)
(* reads the slot without a copy, then emits verify_consumed; that exact     *)
(* tuple gives the slot back to the producer.  Nothing but the protocol      *)
(* keeps the producer from overwriting a slot that is being read.            *)
(*                                                                         *)
(* The pipes keep order: the announcements are handled in the order of their *)
(* seq, and the terminal event comes after every verify_consumed.            *)
(*                                                                         *)
(* The threads of the job wait on verify_condition.  request_cancel sets its *)
(* flag and notifies without verify_mutex, so the thread that holds the      *)
(* mutex between its test of the flag and its sleep misses that notification *)
(* and sleeps until the next one: `unaware`.  The other notifications follow *)
(* a change made under the mutex and are never missed.                      *)
(***************************************************************************)
EXTENDS Integers

CONSTANTS Slots, Workers,
          MaxFrames,   \* bound on the frames of the stream
          NoFrame

Seqs == 0 .. MaxFrames - 1
Frame == [seq : Seqs, slot : Slots, generation : Nat \ {0}]

ASSUME RingBoundsOK == MaxFrames \in Nat
ASSUME ThreadsDiffer == Workers \cap {"executor", "nobody"} = {}
ASSUME NoFrameIsNoFrame == NoFrame \notin Seqs /\ NoFrame \notin Frame

VARIABLES
    ring,                     \* the frame in each slot
    owner,                    \* producer: the announcement a slot waits for, or NoFrame
    generation,               \* producer: the generation given to each slot last
    next,                     \* producer: the next frame
    end_sent,
    terminal_seen,            \* producer: the terminal event arrived
    announced,                \* verify_frame commands on the way to the engine
    verify_ring,              \* whether the job has a ring
    verify_slot_generations, verify_received, verify_stream_ended,
    verify_inbox,
    item, step,               \* per worker: the frame it has and what it does with it
    results,                  \* what the analysis of each frame saw
    consumed,                 \* verify_consumed events on the way to the producer
    refused,                  \* a command was answered with bad_request
    cancelled,                \* the job's cancel_requested
    unaware,                  \* the thread that sleeps and does not know of it, or "nobody"
    terminal

producer == <<ring, owner, generation, next, end_sent, terminal_seen>>
commands == <<verify_ring, verify_slot_generations, verify_received, verify_stream_ended>>
workers == <<item, step, results>>
job == <<refused, cancelled, unaware, terminal>>
ringVars == <<producer, announced, commands, verify_inbox, workers, consumed, job>>

RingInit == /\ ring = [s \in Slots |-> NoFrame] /\ owner = [s \in Slots |-> NoFrame]
            /\ generation = [s \in Slots |-> 0] /\ next = 0
            /\ end_sent = FALSE /\ terminal_seen = FALSE
            /\ announced = {} /\ verify_ring = FALSE
            /\ verify_slot_generations = [s \in Slots |-> 0]
            /\ verify_received = 0 /\ verify_stream_ended = FALSE
            /\ verify_inbox = {}
            /\ item = [w \in Workers |-> NoFrame] /\ step = [w \in Workers |-> "wait"]
            /\ results = [n \in Seqs |-> NoFrame]
            /\ consumed = {} /\ refused = FALSE
            /\ cancelled = FALSE /\ unaware = "nobody" /\ terminal = "none"

-----------------------------------------------------------------------------
(* The producer.                                                           *)

\* The next frame, into a slot that is free.
WriteFrame(s) ==
    /\ verify_ring /\ owner[s] = NoFrame /\ next < MaxFrames /\ ~end_sent /\ ~terminal_seen
    /\ LET frame == [seq |-> next, slot |-> s, generation |-> generation[s] + 1]
       IN /\ ring' = [ring EXCEPT ![s] = next]
          /\ owner' = [owner EXCEPT ![s] = frame]
          /\ announced' = announced \cup {frame}
    /\ generation' = [generation EXCEPT ![s] = @ + 1]
    /\ next' = next + 1
    /\ UNCHANGED <<end_sent, terminal_seen, commands, verify_inbox, workers, consumed, job>>

SendEnd == /\ ~end_sent /\ end_sent' = TRUE
           /\ UNCHANGED <<ring, owner, generation, next, terminal_seen, announced, commands,
                          verify_inbox, workers, consumed, job>>

\* verify_consumed: only the tuple the slot waits for releases it.
SeeConsumed ==
    /\ \E frame \in consumed :
          /\ consumed' = consumed \ {frame}
          /\ owner' = IF owner[frame.slot] = frame THEN [owner EXCEPT ![frame.slot] = NoFrame]
                      ELSE owner
    /\ UNCHANGED <<ring, generation, next, end_sent, terminal_seen, announced, commands,
                   verify_inbox, workers, job>>

SeeTerminal ==
    /\ terminal # "none" /\ consumed = {} /\ ~terminal_seen
    /\ terminal_seen' = TRUE
    /\ UNCHANGED <<ring, owner, generation, next, end_sent, announced, commands, verify_inbox,
                   workers, consumed, job>>

-----------------------------------------------------------------------------
(* The reader of the engine.                                               *)

\* Mutant: a generation may come again.
AcceptsStale(frame) == /\ terminal = "none" /\ ~verify_stream_ended
                       /\ frame.seq = verify_received
                       /\ verify_ring

\* verify_frame refuses what does not continue the stream or repeats a generation.
Accepts(frame) == /\ terminal = "none" /\ ~verify_stream_ended
                  /\ frame.seq = verify_received
                  /\ verify_ring
                  /\ frame.generation > verify_slot_generations[frame.slot]

Refuse == /\ refused' = TRUE
          /\ UNCHANGED <<verify_slot_generations, verify_received, verify_inbox, unaware>>

Enqueue(frame) ==
    /\ verify_slot_generations' = [verify_slot_generations EXCEPT ![frame.slot] = frame.generation]
    /\ verify_inbox' = verify_inbox \cup {frame}
    /\ verify_received' = verify_received + 1
    /\ unaware' = "nobody"
    /\ UNCHANGED refused

VerifyFrame ==
    /\ \E frame \in announced :
          /\ \A other \in announced : frame.seq <= other.seq
          /\ announced' = announced \ {frame}
          /\ IF Accepts(frame) THEN Enqueue(frame) ELSE Refuse
    /\ UNCHANGED <<producer, verify_ring, verify_stream_ended, workers, consumed,
                   cancelled, terminal>>

\* A client that repeats an announcement, for the seq the stream is at.
RepeatedFrame ==
    /\ verify_received < MaxFrames
    /\ \E s \in Slots : \E g \in 1 .. verify_slot_generations[s] :
          LET frame == [seq |-> verify_received, slot |-> s, generation |-> g]
          IN IF Accepts(frame) THEN Enqueue(frame) ELSE Refuse
    /\ UNCHANGED <<producer, announced, verify_ring, verify_stream_ended, workers, consumed,
                   cancelled, terminal>>

\* Once, and before any frame.
VerifyRingAttach ==
    /\ terminal = "none"
    /\ IF verify_ring \/ verify_received # 0 \/ verify_stream_ended
       THEN /\ refused' = TRUE
            /\ UNCHANGED <<verify_ring, verify_slot_generations>>
       ELSE /\ verify_ring' = TRUE
            /\ verify_slot_generations' = [s \in Slots |-> 0]
            /\ UNCHANGED refused
    /\ UNCHANGED <<producer, announced, verify_received, verify_stream_ended, verify_inbox,
                   workers, consumed, cancelled, unaware, terminal>>

\* The threads whose wait has nothing to return for: a worker with an empty inbox, and
\* the executor while a frame is queued or under analysis, or more may come.
Waiting(ended) ==
    {w \in Workers : step[w] = "wait" /\ verify_inbox = {} /\ ~ended}
      \cup {t \in {"executor"} : ~ended \/ verify_inbox # {} \/ \E w \in Workers : step[w] # "wait"}

\* The end of the stream.  A total that is not what was received also cancels the job,
\* and is refused.
VerifyEnd ==
    /\ end_sent /\ announced = {} /\ ~verify_stream_ended /\ terminal = "none"
    /\ verify_stream_ended' = TRUE
    /\ \E total \in 0 .. MaxFrames :
          IF total = verify_received
          THEN /\ unaware' = "nobody"
               /\ UNCHANGED <<refused, cancelled>>
          ELSE /\ refused' = TRUE /\ cancelled' = TRUE
               /\ unaware' \in {"nobody"} \cup IF cancelled THEN {} ELSE Waiting(TRUE)
    /\ UNCHANGED <<producer, announced, verify_ring, verify_slot_generations, verify_received,
                   verify_inbox, workers, consumed, terminal>>

\* Cancel again, and whoever missed the first notification may miss the second.
RequestCancel ==
    /\ terminal = "none"
    /\ cancelled' = TRUE
    /\ unaware' \in {"nobody"} \cup IF cancelled THEN {unaware} ELSE Waiting(verify_stream_ended)
    /\ UNCHANGED <<producer, announced, commands, verify_inbox, workers, consumed, refused, terminal>>

-----------------------------------------------------------------------------
(* The workers.                                                            *)

\* Mutant: the slot is given back as soon as a worker has the frame.
ConsumeAtOnce(w, frame) == /\ item' = [item EXCEPT ![w] = frame]
                           /\ step' = [step EXCEPT ![w] = "read"]
                           /\ consumed' = consumed \cup {frame}

Hold(w, frame) == /\ item' = [item EXCEPT ![w] = frame]
                  /\ step' = [step EXCEPT ![w] = "read"]
                  /\ UNCHANGED consumed

Take(w) ==
    /\ step[w] = "wait" /\ ~cancelled
    /\ \E frame \in verify_inbox :
          /\ \A other \in verify_inbox : frame.seq <= other.seq
          /\ verify_inbox' = verify_inbox \ {frame}
          /\ Hold(w, frame)
    /\ UNCHANGED <<producer, announced, commands, results, job>>

\* The analysis reads the mapped slot, or fails.
AnalyzeSlot(w) ==
    /\ step[w] = "read"
    /\ \/ /\ results' = [results EXCEPT ![item[w].seq] = ring[item[w].slot]]
          /\ step' = [step EXCEPT ![w] = "analyzed"]
       \/ /\ step' = [step EXCEPT ![w] = "failed"]
          /\ UNCHANGED results
    /\ UNCHANGED <<producer, announced, commands, verify_inbox, item, consumed, job>>

\* Mutant: a frame that failed is not given back.
EmitAfterSuccess(w) ==
    consumed' = IF step[w] = "analyzed" THEN consumed \cup {item[w]} ELSE consumed

Emit(w) == consumed' = consumed \cup {item[w]}

\* verify_consumed, whether the analysis failed or not.
Consume(w) ==
    /\ step[w] \in {"analyzed", "failed"}
    /\ Emit(w)
    /\ step' = [step EXCEPT ![w] = "push"]
    /\ UNCHANGED <<producer, announced, commands, verify_inbox, item, results, job>>

\* The entry goes to the outbox, and everybody is told.
Push(w) ==
    /\ step[w] = "push"
    /\ item' = [item EXCEPT ![w] = NoFrame]
    /\ step' = [step EXCEPT ![w] = "wait"]
    /\ unaware' = "nobody"
    /\ UNCHANGED <<producer, announced, commands, verify_inbox, results, consumed,
                   refused, cancelled, terminal>>

\* The executor joined the workers: it and all of them are awake.
Finish ==
    /\ terminal = "none" /\ unaware = "nobody" /\ \A w \in Workers : step[w] = "wait"
    /\ \/ cancelled /\ terminal' = "cancelled"
       \/ ~cancelled /\ verify_stream_ended /\ verify_inbox = {} /\ terminal' = "result"
    /\ UNCHANGED <<producer, announced, commands, verify_inbox, workers, consumed, refused,
                   cancelled, unaware>>

-----------------------------------------------------------------------------
Work(w) == Take(w) \/ AnalyzeSlot(w) \/ Consume(w) \/ Push(w)

RingNext == \/ \E s \in Slots : WriteFrame(s)
            \/ SendEnd \/ SeeConsumed \/ SeeTerminal
            \/ VerifyFrame \/ RepeatedFrame \/ VerifyRingAttach \/ VerifyEnd \/ RequestCancel
            \/ \E w \in Workers : Work(w)
            \/ Finish

RingSpec == RingInit /\ [][RingNext]_ringVars

\* The engine's threads run, the producer reads its events; nobody has to send.
FairRingSpec ==
    /\ RingSpec
    /\ \A w \in Workers : WF_ringVars(Work(w))
    /\ WF_ringVars(VerifyFrame) /\ WF_ringVars(VerifyEnd) /\ WF_ringVars(Finish)
    /\ WF_ringVars(SeeConsumed) /\ WF_ringVars(SeeTerminal)

-----------------------------------------------------------------------------
RingTypeOK ==
    /\ ring \in [Slots -> Seqs \cup {NoFrame}]
    /\ owner \in [Slots -> Frame \cup {NoFrame}]
    /\ generation \in [Slots -> Nat] /\ next \in 0 .. MaxFrames
    /\ verify_slot_generations \in [Slots -> Nat] /\ verify_received \in Nat
    /\ announced \subseteq Frame /\ verify_inbox \subseteq Frame /\ consumed \subseteq Frame
    /\ item \in [Workers -> Frame \cup {NoFrame}]
    /\ step \in [Workers -> {"wait", "read", "analyzed", "failed", "push"}]
    /\ \A w \in Workers : step[w] # "wait" => item[w] \in Frame
    /\ results \in [Seqs -> Seqs \cup {NoFrame}]
    /\ unaware \in Workers \cup {"executor", "nobody"}

\* The frames a worker has and did not give back.
Reading(w) == step[w] \in {"read", "analyzed", "failed"}

\* Where a frame that was announced and not given back is: on its way, queued, with
\* one worker, or given back without the producer knowing.  Until then the slot is
\* the producer's to wait for, and until it is given back it holds the frame.
OnePlace ==
    /\ announced \cap verify_inbox = {} /\ announced \cap consumed = {}
    /\ verify_inbox \cap consumed = {}
    /\ \A w \in Workers : Reading(w) =>
          /\ item[w] \notin announced \cup verify_inbox \cup consumed
          /\ \A v \in Workers : Reading(v) /\ item[v] = item[w] => v = w

Awaited ==
    /\ \A frame \in announced \cup verify_inbox :
          owner[frame.slot] = frame /\ ring[frame.slot] = frame.seq
    /\ \A frame \in consumed : owner[frame.slot] = frame
    /\ \A w \in Workers : Reading(w) =>
          owner[item[w].slot] = item[w] /\ ring[item[w].slot] = item[w].seq

\* worker-protocol-v1.md:363-365.  While a worker has a slot to read, the slot
\* holds the frame it was announced with: the producer did not reuse it, whatever
\* it announced twice.  So every error reported is the error of its own frame.
SlotStable ==
    /\ \A w \in Workers : step[w] = "read" => ring[item[w].slot] = item[w].seq
    /\ \A n \in Seqs : results[n] \in {n, NoFrame}

\* What makes SlotStable inductive.
RingInv == RingTypeOK /\ OnePlace /\ Awaited /\ SlotStable

\* worker-protocol-v1.md:345-368.  A producer whose ring is full gets a slot back or
\* the terminal event, also when the frames fail, the total is wrong or the job is
\* cancelled.  The one exception is a job with a thread that missed the cancel: its
\* producer may be left with a full ring for as long as it sends nothing else.
Full == \A s \in Slots : owner[s] # NoFrame
ProducerReleased == Full ~> (~Full \/ terminal_seen \/ unaware # "nobody")
=============================================================================
