---------------------- MODULE MediaVerifyPipeline_proof ----------------------
(***************************************************************************)
(* Theorems about MediaVerifyPipeline, for any number of analysis workers,  *)
(* decode sessions and frames: no more frames are queued or analysed than   *)
(* the concurrency allows, and what run() reports is what became of the     *)
(* frames.                                                                 *)
(*                                                                         *)
(* inflight_ is a counter kept at five places; the invariant says what it   *)
(* counts (SlotsCounted): the frames queued and the workers that occupy a   *)
(* slot, among them those whose analyzer threw, which never give it back.   *)
(* A frame is at one place (OnePlace) and, while nothing has failed and     *)
(* nothing was given up, at some place (Everywhere); when everybody has     *)
(* returned the only place left is the collector.                           *)
(*                                                                         *)
(* The last part shows that the pipeline implements PipelineContract, on     *)
(* which MediaVerifyJob is built.                                          *)
(***************************************************************************)
EXTENDS MediaVerifyPipeline, FiniteSetTheorems, TLAPS

Holders == Workers \cup Producers

ProducerPlaces == {"idle", "decode", "check", "block", "waiting", "notify", "ended"}
WorkerPlaces == {"unborn", "check", "block", "waiting", "analyze", "release", "notify",
                 "collect", "fail_stop", "fail_notify", "exit"}
RunnerPlaces == {"spawn", "decoding", "notify", "join", "over", "fail_stop", "fail_notify"}

\* Every thread is where its own code can be.
Places == /\ pc \in [Threads -> ProducerPlaces \cup WorkerPlaces \cup RunnerPlaces \cup {"done"}]
          /\ \A p \in Producers : pc[p] \in ProducerPlaces
          /\ \A w \in Workers : pc[w] \in WorkerPlaces
          /\ pc[Runner] \in RunnerPlaces
          /\ pc[Canceller] \in {"idle", "notify", "done"}

\* What a worker in a state holds, and whether it has completed it.
HandsOK(w, state) ==
    /\ state \in {"analyze", "release", "notify", "collect"} => frame[w] # NoFrame
    /\ state \in {"unborn", "check", "block", "waiting"} => frame[w] = NoFrame
    /\ state \in {"release", "notify", "collect"} => done[w] # 0
    /\ state \in {"unborn", "check", "block", "waiting", "analyze"} => done[w] = 0
    /\ done[w] <= completed_

\* Who holds a frame.
FramesHeld ==
    /\ \A p \in Producers :
          /\ pc[p] \in {"check", "block", "waiting"} => frame[p] # NoFrame
          /\ pc[p] \in {"idle", "decode", "notify"} => frame[p] = NoFrame
          /\ pc[p] = "ended" /\ frame[p] # NoFrame => decode_failure
    /\ \A w \in Workers : HandsOK(w, pc[w])

\* A worker occupies a slot from the queue to its release, for good if its analyzer threw.
Occupying == {w \in Workers :
                 \/ pc[w] \in {"analyze", "release"}
                 \/ /\ pc[w] \in {"fail_stop", "fail_notify", "exit"}
                    /\ frame[w] # NoFrame /\ done[w] = 0}

SlotsCounted == /\ inflight_ = Len(queue_) + Cardinality(Occupying)
                /\ inflight_ <= Concurrency

\* A frame that is completed was produced, and is counted once.
Analyzing == {w \in Workers : pc[w] = "analyze"}
Pushing == {p \in Producers : frame[p] # NoFrame}
FramesCounted ==
    completed_ + Cardinality(Analyzing) + Len(queue_) + Cardinality(Pushing) <= produced

Analyzed == {w \in Workers : pc[w] \in {"release", "notify", "collect"}}
CompletedCollected == ~failure_ => completed_ = Cardinality(collected) + Cardinality(Analyzed)

OnePlace ==
    /\ \A i, j \in 1 .. Len(queue_) : queue_[i] = queue_[j] => i = j
    /\ \A s, t \in Holders : frame[s] # NoFrame /\ frame[s] = frame[t] => s = t
    /\ \A i \in 1 .. Len(queue_), t \in Holders : queue_[i] # frame[t]
    /\ \A i \in 1 .. Len(queue_) : queue_[i] <= produced /\ queue_[i] \notin collected
    /\ \A t \in Holders : frame[t] # NoFrame => frame[t] <= produced /\ frame[t] \notin collected
    /\ \A i \in collected : i <= produced

Queued(i) == \E k \in 1 .. Len(queue_) : queue_[k] = i
Held(i) == \E t \in Holders : frame[t] = i
Everywhere == ~abort_ /\ ~decode_failure =>
                 \A i \in 1 .. produced : i \in collected \/ Queued(i) \/ Held(i)

\* A failure aborts and empties the queue; only a failure or a stop aborts; who leaves with
\* a frame has failed.
FailureOrder ==
    /\ failure_ => abort_ /\ queue_ = <<>>
    /\ abort_ => failure_ \/ stop
    /\ \A w \in Workers : /\ pc[w] \in {"fail_stop", "fail_notify"} => failure_
                          /\ pc[w] = "exit" /\ frame[w] # NoFrame => failure_
    /\ pc[Runner] \in {"fail_stop", "fail_notify"} => failure_

\* The decoder runs between the start of the last worker and decoding_done_.
DecoderOrder ==
    /\ pc[Runner] = "spawn" => /\ \A p \in Producers : pc[p] = "idle"
                               /\ produced = 0 /\ ~decode_failure
    /\ pc[Runner] \notin {"spawn", "decoding"} =>
          \A p \in Producers : pc[p] \in {"idle", "ended"}
    /\ decoding_done_ => /\ pc[Runner] \in {"notify", "join", "over"}
                         /\ decode_failure \/ produced = MaxFrames

\* A worker leaves because the job was stopped or nothing is left.
ExitOrder ==
    \A w \in Workers : pc[w] = "exit" => abort_ \/ stop \/ (decoding_done_ /\ queue_ = <<>>)

AllStarted == Workers # {} /\ \A w \in Workers : pc[w] # "unborn"
RunOrder ==
    /\ pc[Runner] = "decoding" => AllStarted
    /\ pc[Runner] \in {"notify", "join", "over"} => failure_ \/ (decoding_done_ /\ AllStarted)
    /\ outcome # "none" <=> pc[Runner] = "over"
    /\ pc[Runner] = "over" => \A w \in Workers : pc[w] \in {"exit", "unborn"}

IInv == /\ TypeOK /\ Places /\ FramesHeld /\ SlotsCounted /\ FramesCounted
        /\ CompletedCollected /\ OnePlace /\ Everywhere
        /\ FailureOrder /\ DecoderOrder /\ ExitOrder /\ RunOrder /\ OutcomeFaithful
-----------------------------------------------------------------------------
(* Where the threads go.                                                   *)

USE ThreadsDistinct, BoundsOK, SessionsWithinConcurrency

\* A thread goes to `state`; beside it, only sleeping threads may be woken.
Step(t, state) ==
    /\ pc' = [u \in Threads |-> pc'[u]]
    /\ pc'[t] = state
    /\ \A u \in Threads \ {t} : pc'[u] = pc[u] \/ (pc[u] = "waiting" /\ pc'[u] = "check")

\* A thread that only goes somewhere wakes nobody.
LEMMA GotoSteps ==
    ASSUME Places, NEW t \in Threads, NEW state, Goto(t, state)
    PROVE  Step(t, state)
  BY DEF Places, Goto, Step

\* notify_one() wakes at most one sleeper.
LEMMA NotifyOneSteps ==
    ASSUME Places, NEW t \in Threads, NEW state, pc[t] # "waiting", NotifyOne(t, state)
    PROVE  Step(t, state)
<1>1. CASE Goto(t, state)
  BY <1>1, GotoSteps
<1>2. CASE \E u \in Holders : pc[u] = "waiting" /\ pc' = [pc EXCEPT ![t] = state, ![u] = "check"]
  BY <1>2 DEF Places, Step, Holders, Threads
<1> QED
  BY <1>1, <1>2 DEF NotifyOne, Holders

\* notify_all() wakes sleepers only.
LEMMA NotifyAllSteps ==
    ASSUME Places, NEW t \in Threads, NEW state, pc' = [NotifiedAll EXCEPT ![t] = state]
    PROVE  Step(t, state)
  BY DEF Places, Step, NotifiedAll, Woken

\* A step to a state of its own kind leaves every thread where it may be.
LEMMA StepPlaces ==
    ASSUME Places, NEW t \in Threads, NEW state, Step(t, state),
           t \in Producers => state \in ProducerPlaces,
           t \in Workers => state \in WorkerPlaces,
           t = Runner => state \in RunnerPlaces,
           t = Canceller => state \in {"idle", "notify", "done"}
    PROVE  Places'
<1>1. /\ \A p \in Producers : pc'[p] \in ProducerPlaces
      /\ \A w \in Workers : pc'[w] \in WorkerPlaces
  BY DEF Places, Step, Threads, ProducerPlaces, WorkerPlaces
<1>2. pc'[Runner] \in RunnerPlaces
  BY DEF Places, Step, Threads, RunnerPlaces
<1>3. pc'[Canceller] \in {"idle", "notify", "done"}
  BY DEF Places, Step, Threads
<1>4. pc' \in [Threads -> ProducerPlaces \cup WorkerPlaces \cup RunnerPlaces \cup {"done"}]
  <2> DEFINE All == ProducerPlaces \cup WorkerPlaces \cup RunnerPlaces \cup {"done"}
  <2>1. {"idle", "notify", "done"} \subseteq All
    BY DEF ProducerPlaces
  <2>2. \A u \in Threads : pc'[u] \in All
    BY <1>1, <1>2, <1>3, <2>1 DEF Threads
  <2> HIDE DEF All
  <2>3. pc' \in [Threads -> All]
    BY <2>2 DEF Step
  <2> QED
    BY <2>3 DEF All
<1> QED
  BY <1>1, <1>2, <1>3, <1>4 DEF Places

\* The sets the invariant counts are finite.
LEMMA CountsFinite ==
    /\ IsFiniteSet(Occupying) /\ Cardinality(Occupying) \in Nat
    /\ IsFiniteSet(Analyzing) /\ Cardinality(Analyzing) \in Nat
    /\ IsFiniteSet(Analyzed) /\ Cardinality(Analyzed) \in Nat
    /\ IsFiniteSet(Pushing) /\ Cardinality(Pushing) \in Nat
    /\ IsFiniteSet(UnderAnalysis) /\ Cardinality(UnderAnalysis) \in Nat
    /\ Concurrency \in Nat
<1>1. \A S \in SUBSET Workers : IsFiniteSet(S) /\ Cardinality(S) \in Nat
  BY FS_Subset, FS_CardinalityType
<1>2. \A S \in SUBSET Producers : IsFiniteSet(S) /\ Cardinality(S) \in Nat
  BY FS_Subset, FS_CardinalityType
<1>3. /\ Occupying \in SUBSET Workers /\ Analyzing \in SUBSET Workers
      /\ Analyzed \in SUBSET Workers /\ UnderAnalysis \in SUBSET Workers
      /\ Pushing \in SUBSET Producers
  BY DEF Occupying, Analyzing, Analyzed, UnderAnalysis, Pushing
<1> QED
  BY <1>1, <1>2, <1>3 DEF Concurrency

\* What the types say of the counters and the frames.
LEMMA TypeFacts ==
    ASSUME TypeOK
    PROVE  /\ queue_ \in Seq(Int) /\ Len(queue_) \in Nat
           /\ \A i \in 1 .. Len(queue_) : queue_[i] \in Int /\ queue_[i] # NoFrame
           /\ inflight_ \in Nat /\ completed_ \in Nat /\ produced \in Nat
           /\ produced <= MaxFrames /\ MaxFrames \in Nat
           /\ \A t \in Holders : frame[t] \in Int
           /\ \A w \in Workers : done[w] \in Nat
           /\ IsFiniteSet(collected) /\ Cardinality(collected) \in Nat
<1>1. \A i \in 1 .. Len(queue_) : queue_[i] \in Frames
  BY DEF TypeOK
<1>2. IsFiniteSet(Frames)
  BY FS_Interval DEF Frames
<1>3. IsFiniteSet(collected) /\ Cardinality(collected) \in Nat
  BY <1>2, FS_Subset, FS_CardinalityType DEF TypeOK
<1>4. \A t \in Holders : frame[t] \in Int
  BY DEF TypeOK, Holders, Frames, NoFrame
<1> QED
  BY <1>1, <1>3, <1>4 DEF TypeOK, Frames, NoFrame

\* The counters are natural numbers.
LEMMA Numbers ==
    ASSUME TypeOK
    PROVE  /\ Len(queue_) \in Nat /\ inflight_ \in Nat /\ completed_ \in Nat /\ produced \in Nat
           /\ Cardinality(Occupying) \in Nat /\ Cardinality(Analyzing) \in Nat
           /\ Cardinality(Analyzed) \in Nat /\ Cardinality(Pushing) \in Nat
           /\ Concurrency \in Nat
  BY CountsFinite, TypeFacts

\* The parts of TypeOK that the other conjuncts do not imply.
DataOK ==
    /\ frame \in [Holders -> Frames \cup {NoFrame}]
    /\ done \in [Workers -> Nat]
    /\ queue_ \in Seq(Frames)
    /\ decoding_done_ \in BOOLEAN /\ abort_ \in BOOLEAN /\ failure_ \in BOOLEAN
    /\ stop \in BOOLEAN /\ decode_failure \in BOOLEAN
    /\ completed_ \in Nat /\ inflight_ \in Int
    /\ produced \in 0 .. MaxFrames
    /\ collected \subseteq Frames
    /\ outcome \in {"none", "ok", "failed", "cancelled", "decode_failed"}

\* The bounds of TypeOK follow from the counts.
LEMMA TypesFromParts ==
    ASSUME DataOK', Places', FramesHeld', SlotsCounted', FramesCounted'
    PROVE  TypeOK'
<1>0. /\ Cardinality(Occupying') \in Nat /\ Cardinality(Analyzing') \in Nat
      /\ Cardinality(Pushing') \in Nat
  <2>1. Occupying' \in SUBSET Workers /\ Analyzing' \in SUBSET Workers /\ Pushing' \in SUBSET Producers
    BY DEF Occupying, Analyzing, Pushing
  <2> QED
    BY <2>1, FS_Subset, FS_CardinalityType
<1>1. /\ Len(queue_') \in Nat /\ produced' \in Int /\ produced' <= MaxFrames /\ completed_' \in Nat
      /\ completed_' + Cardinality(Analyzing') + Len(queue_') + Cardinality(Pushing') <= produced'
  BY DEF DataOK, FramesCounted
<1>2. completed_' \in 0 .. MaxFrames
  BY <1>0, <1>1
<1>3. inflight_' \in Nat
  BY <1>0, <1>1 DEF SlotsCounted
<1>4. done' \in [Workers -> 0 .. MaxFrames]
  BY <1>2 DEF DataOK, FramesHeld, HandsOK
<1> QED
  BY <1>2, <1>3, <1>4
     DEF TypeOK, DataOK, Places, Holders, ProducerPlaces, WorkerPlaces, RunnerPlaces

LEMMA PartsOfTypes == TypeOK => DataOK
  BY DEF TypeOK, DataOK, Holders

-----------------------------------------------------------------------------
(* A producer's steps.                                                     *)

\* No worker moves, but that sleepers may wake.
WorkersRest == /\ \A w \in Workers : \/ pc'[w] = pc[w]
                                     \/ pc[w] = "waiting" /\ pc'[w] = "check"
               /\ \A w \in Workers : frame'[w] = frame[w] /\ done'[w] = done[w]

\* While the workers rest, the sets the invariant counts stay.
LEMMA RestKeepsSets ==
    ASSUME WorkersRest
    PROVE  /\ Occupying' = Occupying /\ Analyzing' = Analyzing /\ Analyzed' = Analyzed
           /\ AllStarted' = AllStarted
<1>1. Occupying' = Occupying
  BY DEF WorkersRest, Occupying
<1>2. Analyzing' = Analyzing /\ Analyzed' = Analyzed
  BY DEF WorkersRest, Analyzing, Analyzed
<1>3. AllStarted' = AllStarted
  BY DEF WorkersRest, AllStarted
<1> QED
  BY <1>1, <1>2, <1>3

\* The orders are kept by a step of a producer while the decoder runs.
LEMMA ProducerOrders ==
    ASSUME IInv, Places', NEW p \in Producers, NEW state, Step(p, state), WorkersRest,
           pc[p] # "idle", pc[p] # "ended",
           queue_' = queue_ \/ ~failure_,
           UNCHANGED <<failure_, abort_, decoding_done_, stop, outcome>>
    PROVE  /\ FailureOrder' /\ DecoderOrder' /\ ExitOrder' /\ RunOrder' /\ OutcomeFaithful'
           /\ pc[Runner] = "decoding" /\ ~decoding_done_
<1>0. /\ FailureOrder /\ DecoderOrder /\ ExitOrder /\ RunOrder /\ Places
      /\ p \in Threads /\ Runner \in Threads /\ p # Runner
  BY DEF IInv, Threads
<1>1. pc'[Runner] = pc[Runner]
  BY <1>0 DEF Step, Places, RunnerPlaces
<1>2. pc[Runner] = "decoding" /\ ~decoding_done_ /\ outcome = "none"
  BY <1>0 DEF DecoderOrder, RunOrder
<1>3. FailureOrder'
  BY <1>0, <1>1 DEF FailureOrder, WorkersRest
<1>4. DecoderOrder'
  BY <1>1, <1>2 DEF DecoderOrder
<1>5. ExitOrder'
  BY <1>0, <1>2 DEF ExitOrder, WorkersRest
<1>6. RunOrder'
  BY <1>0, <1>1, <1>2, RestKeepsSets DEF RunOrder
<1>7. OutcomeFaithful'
  BY <1>2 DEF OutcomeFaithful, AcceptedFramesCollected, FailureNotMasked
<1> QED
  BY <1>2, <1>3, <1>4, <1>5, <1>6, <1>7

\* What a step of a producer does to the places.
LEMMA ProducerSteps ==
    ASSUME IInv, NEW p \in Producers, NEW state \in ProducerPlaces, Step(p, state),
           \A w \in Workers : frame'[w] = frame[w] /\ done'[w] = done[w]
    PROVE  Places' /\ WorkersRest
<1>1. p \in Threads /\ p \notin Workers /\ p # Runner /\ p # Canceller /\ Workers \subseteq Threads
  BY DEF Threads
<1>2. Places'
  BY <1>1, StepPlaces DEF IInv
<1>3. WorkersRest
  BY <1>1 DEF WorkersRest, Step
<1> QED
  BY <1>2, <1>3

\* The decoder matches a frame and calls push() with it.
LEMMA ProduceKeepsInv ==
    ASSUME IInv, NEW p \in Producers, pc[p] = "decode",
           ~stop /\ ~decode_failure /\ produced < MaxFrames,
           produced' = produced + 1,
           frame' = [frame EXCEPT ![p] = produced'],
           Goto(p, "check"),
           UNCHANGED <<done, decode_failure, shared, stop, results, outcome>>
    PROVE  IInv'
<1> USE DEF shared, results
<1>0. /\ TypeOK /\ DataOK /\ Places /\ FramesHeld /\ SlotsCounted /\ FramesCounted
      /\ CompletedCollected /\ OnePlace /\ Everywhere /\ p \in Threads /\ p \in Holders
      /\ p \notin Workers
  BY PartsOfTypes DEF IInv, Threads, Holders
<1>1. Step(p, "check")
  BY <1>0, GotoSteps
<1>2. /\ \A t \in Holders \ {p} : frame'[t] = frame[t]
      /\ frame'[p] = produced' /\ produced' # NoFrame /\ produced \in Int /\ frame[p] = NoFrame
      /\ \A t \in Holders : frame[t] # produced'
      /\ \A i \in 1 .. Len(queue_) : queue_[i] # produced'
  <2>1. frame'[p] = produced' /\ \A t \in Holders \ {p} : frame'[t] = frame[t]
    BY <1>0 DEF DataOK
  <2>2. produced' # NoFrame /\ produced \in Int /\ frame[p] = NoFrame
    BY <1>0 DEF DataOK, NoFrame, FramesHeld, HandsOK
  <2>3. \A t \in Holders : frame[t] # produced'
    BY <1>0, <2>2, TypeFacts DEF OnePlace
  <2>4. \A i \in 1 .. Len(queue_) : queue_[i] # produced'
    BY <1>0, <2>2, TypeFacts DEF OnePlace
  <2> QED
    BY <2>1, <2>2, <2>3, <2>4
<1>3. Places' /\ WorkersRest
  <2>1. \A w \in Workers : frame'[w] = frame[w] /\ done'[w] = done[w]
    BY <1>0, <1>2 DEF Holders
  <2>2. "check" \in ProducerPlaces
    BY DEF ProducerPlaces
  <2> QED
    BY <1>1, <2>1, <2>2, ProducerSteps
<1>4. FailureOrder' /\ DecoderOrder' /\ ExitOrder' /\ RunOrder' /\ OutcomeFaithful'
  BY <1>1, <1>3, ProducerOrders
<1>5. Pushing' = Pushing \cup {p} /\ p \notin Pushing
  BY <1>0, <1>2 DEF Pushing, Holders
<1>6. Cardinality(Pushing') = Cardinality(Pushing) + 1
  BY <1>5, CountsFinite, FS_AddElement
<1>7. FramesCounted' /\ SlotsCounted' /\ CompletedCollected'
  <2>1. /\ Occupying' = Occupying /\ Analyzing' = Analyzing /\ Analyzed' = Analyzed
    BY <1>3, RestKeepsSets
  <2>2. FramesCounted'
    <3>1. completed_ + Cardinality(Analyzing) + Len(queue_) + Cardinality(Pushing) <= produced
      BY <1>0 DEF FramesCounted
    <3>2. completed_ + Cardinality(Analyzing) + Len(queue_) + Cardinality(Pushing') <= produced'
      BY <1>0, <1>6, <3>1, Numbers
    <3> QED
      BY <1>0, <2>1, <3>2 DEF FramesCounted
  <2>3. SlotsCounted'
    BY <1>0, <2>1 DEF SlotsCounted, Concurrency
  <2>4. CompletedCollected'
    BY <1>0, <2>1 DEF CompletedCollected
  <2> QED
    BY <2>2, <2>3, <2>4
<1>8. FramesHeld'
  <2>1. \A q \in Producers :
           /\ pc'[q] \in {"check", "block", "waiting"} => frame'[q] # NoFrame
           /\ pc'[q] \in {"idle", "decode", "notify"} => frame'[q] = NoFrame
           /\ pc'[q] = "ended" /\ frame'[q] # NoFrame => decode_failure
    BY <1>0, <1>1, <1>2 DEF FramesHeld, HandsOK, Step, Holders, Threads
  <2> QED
    BY <1>0, <1>3, <2>1 DEF FramesHeld, HandsOK, WorkersRest
<1>9. OnePlace'
  <2>1. /\ \A s, t \in Holders : frame'[s] # NoFrame /\ frame'[s] = frame'[t] => s = t
        /\ \A i \in 1 .. Len(queue_), t \in Holders : queue_[i] # frame'[t]
    BY <1>0, <1>2 DEF OnePlace
  <2>2. /\ \A i \in 1 .. Len(queue_) : queue_[i] <= produced'
        /\ \A t \in Holders : frame'[t] # NoFrame => frame'[t] <= produced'
    BY <1>0, <1>2, TypeFacts DEF OnePlace
  <2>3. /\ \A t \in Holders : frame'[t] # NoFrame => frame'[t] \notin collected
        /\ \A i \in collected : i <= produced'
    BY <1>0, <1>2, TypeFacts DEF OnePlace, TypeOK, Frames
  <2> QED
    BY <1>0, <2>1, <2>2, <2>3 DEF OnePlace
<1>10. Everywhere'
  <2> SUFFICES ASSUME ~abort_, ~decode_failure, NEW i \in 1 .. produced'
               PROVE  i \in collected \/ Queued(i)' \/ Held(i)'
    BY DEF Everywhere
  <2>1. ~abort_ /\ ~decode_failure
    OBVIOUS
  <2>2. i = produced' \/ i \in 1 .. produced
    BY <1>2
  <2>3. CASE i = produced'
    BY <1>0, <1>2, <2>3 DEF Held
  <2>4. CASE i \in 1 .. produced
    <3>1. i \in collected \/ Queued(i) \/ Held(i)
      BY <1>0, <2>1, <2>4 DEF Everywhere
    <3>2. Held(i) => Held(i)'
      BY <1>2, <2>4, TypeFacts DEF Held, NoFrame
    <3> QED
      BY <3>1, <3>2 DEF Queued
  <2> QED
    BY <2>2, <2>3, <2>4
<1>11. DataOK'
  <2>1. produced' \in Frames /\ produced' \in 0 .. MaxFrames
    BY <1>0 DEF DataOK, Frames
  <2>2. frame' \in [Holders -> Frames \cup {NoFrame}]
    BY <1>0, <2>1 DEF DataOK
  <2> QED
    BY <1>0, <2>1, <2>2 DEF DataOK
<1>12. TypeOK'
  BY <1>3, <1>7, <1>8, <1>11, TypesFromParts
<1> QED
  BY <1>3, <1>4, <1>7, <1>8, <1>9, <1>10, <1>12 DEF IInv

\* The decoder ends or throws, push() waits, wakes the next thread or throws the frame away.
LEMMA ProducerRests ==
    ASSUME IInv, NEW p \in Producers, NEW state \in {"block", "waiting", "decode", "ended"},
           Step(p, state),
           \/ pc[p] = "decode" /\ state = "ended"
           \/ pc[p] = "check" /\ state = "block"
           \/ pc[p] = "check" /\ state = "ended" /\ decode_failure'
           \/ pc[p] = "block" /\ state = "waiting"
           \/ pc[p] = "notify" /\ state = "decode",
           decode_failure' \in BOOLEAN, decode_failure => decode_failure',
           UNCHANGED <<frame, done, shared, stop, produced, results, outcome>>
    PROVE  IInv'
<1> USE DEF shared, results
<1>0. /\ TypeOK /\ DataOK /\ Places /\ FramesHeld /\ SlotsCounted /\ FramesCounted
      /\ CompletedCollected /\ OnePlace /\ Everywhere /\ p \in Threads /\ p \in Holders
      /\ p \notin Workers
  BY PartsOfTypes DEF IInv, Threads, Holders
<1>2. Places' /\ WorkersRest
  <2>1. \A w \in Workers : frame'[w] = frame[w] /\ done'[w] = done[w]
    OBVIOUS
  <2>2. state \in ProducerPlaces
    BY DEF ProducerPlaces
  <2> QED
    BY <2>1, <2>2, ProducerSteps
<1>3. FailureOrder' /\ DecoderOrder' /\ ExitOrder' /\ RunOrder' /\ OutcomeFaithful'
  BY <1>2, ProducerOrders
<1>4. Pushing' = Pushing
  BY DEF Pushing
<1>6. FramesCounted' /\ SlotsCounted' /\ CompletedCollected'
  <2>1. Analyzing' = Analyzing /\ Occupying' = Occupying /\ Analyzed' = Analyzed
    BY <1>2, RestKeepsSets
  <2>2. FramesCounted'
    BY <1>0, <1>4, <2>1 DEF FramesCounted
  <2>3. SlotsCounted' /\ CompletedCollected'
    BY <1>0, <2>1 DEF SlotsCounted, CompletedCollected, Concurrency
  <2> QED
    BY <2>2, <2>3
<1>7. FramesHeld'
  <2>1. \A q \in Producers \ {p} :
           /\ pc'[q] \in {"check", "block", "waiting"} => frame[q] # NoFrame
           /\ pc'[q] \in {"idle", "decode", "notify"} => frame[q] = NoFrame
           /\ pc'[q] = "ended" /\ frame[q] # NoFrame => decode_failure'
    BY <1>0 DEF FramesHeld, HandsOK, Step, Threads
  <2>2. /\ pc'[p] \in {"check", "block", "waiting"} => frame[p] # NoFrame
        /\ pc'[p] \in {"idle", "decode", "notify"} => frame[p] = NoFrame
        /\ pc'[p] = "ended" /\ frame[p] # NoFrame => decode_failure'
    BY <1>0 DEF FramesHeld, HandsOK, Step, Places, ProducerPlaces
  <2> QED
    BY <1>0, <1>2, <2>1, <2>2 DEF FramesHeld, HandsOK, WorkersRest
<1>8. OnePlace'
  BY <1>0 DEF OnePlace
<1>9. Everywhere'
  BY <1>0 DEF Everywhere, Queued, Held
<1>10. DataOK'
  BY <1>0 DEF DataOK
<1>11. TypeOK'
  BY <1>2, <1>6, <1>7, <1>10, TypesFromParts
<1> QED
  BY <1>2, <1>3, <1>6, <1>7, <1>8, <1>9, <1>11 DEF IInv

\* A frame goes from a producer to the end of the queue and takes a slot.
LEMMA PushKeepsInv ==
    ASSUME IInv, NEW p \in Producers, pc[p] = "check", HasRoom,
           queue_' = Append(queue_, frame[p]),
           inflight_' = inflight_ + 1,
           frame' = [frame EXCEPT ![p] = NoFrame],
           Goto(p, "notify"),
           ~failure_,
           UNCHANGED <<done, decoding_done_, abort_, failure_, stop, decoder, results, outcome>>
    PROVE  IInv'
<1> USE DEF decoder, results
<1>0. /\ TypeOK /\ DataOK /\ Places /\ FramesHeld /\ SlotsCounted /\ FramesCounted
      /\ CompletedCollected /\ OnePlace /\ Everywhere /\ p \in Threads /\ p \in Holders
      /\ p \notin Workers
  BY PartsOfTypes DEF IInv, Threads, Holders
<1>1. Step(p, "notify")
  BY <1>0, GotoSteps
<1>2. /\ \A t \in Holders \ {p} : frame'[t] = frame[t]
      /\ frame'[p] = NoFrame /\ frame[p] # NoFrame /\ frame[p] \in Frames /\ frame[p] \in Int
  BY <1>0, TypeFacts DEF DataOK, FramesHeld, HandsOK
<1>3. /\ Len(queue_') = Len(queue_) + 1 /\ queue_' \in Seq(Frames)
      /\ queue_'[Len(queue_) + 1] = frame[p]
      /\ \A i \in 1 .. Len(queue_) : queue_'[i] = queue_[i]
      /\ \A i \in 1 .. Len(queue_') : i \in 1 .. Len(queue_) \/ i = Len(queue_) + 1
      /\ \A i \in 1 .. Len(queue_) : i \in 1 .. Len(queue_')
      /\ Len(queue_) + 1 \in 1 .. Len(queue_')
  BY <1>0, <1>2 DEF DataOK
<1>4. Places' /\ WorkersRest
  <2>1. \A w \in Workers : frame'[w] = frame[w] /\ done'[w] = done[w]
    BY <1>0, <1>2 DEF Holders
  <2>2. "notify" \in ProducerPlaces
    BY DEF ProducerPlaces
  <2> QED
    BY <1>1, <2>1, <2>2, ProducerSteps
<1>5. FailureOrder' /\ DecoderOrder' /\ ExitOrder' /\ RunOrder' /\ OutcomeFaithful'
  BY <1>1, <1>4, ProducerOrders
<1>6. Pushing' = Pushing \ {p} /\ p \in Pushing
  BY <1>2 DEF Pushing, Holders
<1>7. Cardinality(Pushing') = Cardinality(Pushing) - 1
  BY <1>6, CountsFinite, FS_RemoveElement
<1>8. FramesCounted' /\ CompletedCollected'
  <2>1. Analyzing' = Analyzing /\ Analyzed' = Analyzed
    BY <1>4, RestKeepsSets
  <2>2. FramesCounted'
    BY <1>0, <1>3, <1>7, <2>1, Numbers DEF FramesCounted
  <2>3. CompletedCollected'
    BY <1>0, <2>1 DEF CompletedCollected
  <2> QED
    BY <2>2, <2>3
<1>9. SlotsCounted'
  BY <1>0, <1>3, <1>4, RestKeepsSets, Numbers DEF SlotsCounted, HasRoom, Concurrency
<1>10. FramesHeld'
  <2>1. \A q \in Producers :
           /\ pc'[q] \in {"check", "block", "waiting"} => frame'[q] # NoFrame
           /\ pc'[q] \in {"idle", "decode", "notify"} => frame'[q] = NoFrame
           /\ pc'[q] = "ended" /\ frame'[q] # NoFrame => decode_failure
    BY <1>0, <1>1, <1>2 DEF FramesHeld, HandsOK, Step, Holders, Threads
  <2> QED
    BY <1>0, <1>4, <2>1 DEF FramesHeld, HandsOK, WorkersRest
<1>11. OnePlace'
  <2>1. \A i, j \in 1 .. Len(queue_') : queue_'[i] = queue_'[j] => i = j
    BY <1>0, <1>3 DEF OnePlace
  <2>2. \A s, t \in Holders : frame'[s] # NoFrame /\ frame'[s] = frame'[t] => s = t
    BY <1>0, <1>2 DEF OnePlace
  <2>3. \A i \in 1 .. Len(queue_'), t \in Holders : queue_'[i] # frame'[t]
    BY <1>0, <1>2, <1>3, TypeFacts DEF OnePlace
  <2>4. \A i \in 1 .. Len(queue_') : queue_'[i] <= produced /\ queue_'[i] \notin collected
    BY <1>0, <1>2, <1>3 DEF OnePlace
  <2>5. \A t \in Holders : frame'[t] # NoFrame => frame'[t] <= produced /\ frame'[t] \notin collected
    BY <1>0, <1>2 DEF OnePlace
  <2> QED
    BY <1>0, <2>1, <2>2, <2>3, <2>4, <2>5 DEF OnePlace
<1>12. Everywhere'
  <2>2. \A i : Queued(i) => Queued(i)'
    BY <1>3 DEF Queued
  <2>3. \A i : Held(i) => Held(i)' \/ Queued(i)'
    BY <1>2, <1>3 DEF Held, Queued
  <2> QED
    BY <1>0, <2>2, <2>3 DEF Everywhere
<1>13. DataOK'
  BY <1>0, <1>3 DEF DataOK
<1>14. TypeOK'
  BY <1>4, <1>8, <1>9, <1>10, <1>13, TypesFromParts
<1> QED
  BY <1>4, <1>5, <1>8, <1>9, <1>10, <1>11, <1>12, <1>14 DEF IInv

\* Every step of a producer keeps the invariant.
LEMMA ProducerKeepsInv ==
    ASSUME IInv, NEW p \in Producers, Producer(p)
    PROVE  IInv'
<1>0. Places /\ p \in Threads /\ DataOK /\ p \in Holders
  BY PartsOfTypes DEF IInv, Threads, Holders
<1>1. CASE DecodeNext(p)
  <2>1. CASE /\ decode_failure' \in {decode_failure \/ stop, TRUE}
             /\ Goto(p, "ended")
             /\ UNCHANGED <<frame, produced>>
    <3>1. Step(p, "ended")
      BY <1>0, <2>1, GotoSteps
    <3>2. decode_failure' \in BOOLEAN /\ (decode_failure => decode_failure')
      BY <1>0, <2>1 DEF DataOK
    <3> QED
      BY <1>1, <2>1, <3>1, <3>2, ProducerRests DEF DecodeNext
  <2> QED
    BY <1>1, <2>1, ProduceKeepsInv DEF DecodeNext
<1>2. CASE PushCheck(p)
  <2>1. CASE Goto(p, "block") /\ UNCHANGED <<frame, queue_, inflight_, decode_failure>>
    <3>1. Step(p, "block")
      BY <1>0, <2>1, GotoSteps
    <3> QED
      BY <1>0, <1>2, <2>1, <3>1, ProducerRests DEF PushCheck, DataOK, shared
  <2>2. CASE /\ decode_failure' = TRUE
             /\ Goto(p, "ended")
             /\ UNCHANGED <<frame, queue_, inflight_>>
    <3>1. Step(p, "ended")
      BY <1>0, <2>2, GotoSteps
    <3> QED
      BY <1>2, <2>2, <3>1, ProducerRests DEF PushCheck, shared
  <2>3. CASE /\ ~failure_ /\ HasRoom
             /\ queue_' = Append(queue_, frame[p])
             /\ inflight_' = inflight_ + 1
             /\ frame' = [frame EXCEPT ![p] = NoFrame]
             /\ Goto(p, "notify")
             /\ UNCHANGED decode_failure
    BY <1>2, <2>3, PushKeepsInv DEF PushCheck, decoder
  <2> QED
    BY <1>2, <2>1, <2>2, <2>3 DEF PushCheck
<1>3. CASE PushNotify(p)
  <2>1. Step(p, "decode")
    BY <1>0, <1>3, NotifyOneSteps DEF PushNotify
  <2> QED
    BY <1>0, <1>3, <2>1, ProducerRests DEF PushNotify, decoder, DataOK
<1>4. CASE Block(p)
  <2>1. Step(p, "waiting")
    BY <1>0, <1>4, GotoSteps DEF Block
  <2> QED
    BY <1>0, <1>4, <2>1, ProducerRests DEF Block, decoder, DataOK
<1> QED
  BY <1>1, <1>2, <1>3, <1>4 DEF Producer
-----------------------------------------------------------------------------
(* A worker's steps.                                                       *)

\* A worker that is started and has not left is waited for.
Alive(w) == pc[w] \notin {"unborn", "exit"}

\* What a step of a worker does to the places and the orders.
LEMMA WorkerOrders ==
    ASSUME IInv, NEW w \in Workers, NEW state \in WorkerPlaces \ {"unborn"},
           Alive(w), Step(w, state),
           \A v \in Workers \ {w} : frame'[v] = frame[v],
           failure_ => failure_', abort_ => abort_', stop => stop',
           failure_' => abort_', abort_' => failure_' \/ stop',
           queue_ = <<>> => queue_' = <<>>,
           failure_' => queue_' = <<>>,
           UNCHANGED <<decoding_done_, decoder, outcome>>,
           state \in {"fail_stop", "fail_notify"} => failure_',
           state = "exit" => /\ frame'[w] # NoFrame => failure_'
                             /\ abort_' \/ stop' \/ (decoding_done_ /\ queue_' = <<>>)
    PROVE  Places' /\ FailureOrder' /\ DecoderOrder' /\ ExitOrder' /\ RunOrder' /\ OutcomeFaithful'
<1>0. /\ FailureOrder /\ DecoderOrder /\ ExitOrder /\ RunOrder /\ Places
      /\ w \in Threads /\ w # Runner /\ w # Canceller /\ w \notin Producers
      /\ Workers \subseteq Threads /\ Producers \subseteq Threads /\ Runner \in Threads
  BY DEF IInv, Threads
<1>1. Places'
  BY <1>0, StepPlaces
<1>2. pc'[Runner] = pc[Runner] /\ pc[Runner] # "over" /\ outcome = "none"
  BY <1>0 DEF Step, Places, RunnerPlaces, RunOrder, Alive
<1>3. /\ \A v \in Workers \ {w} : pc'[v] = pc[v] \/ (pc[v] = "waiting" /\ pc'[v] = "check")
      /\ \A p \in Producers : pc'[p] = pc[p] \/ (pc[p] = "waiting" /\ pc'[p] = "check")
      /\ pc'[w] = state
  BY <1>0 DEF Step
<1>4. FailureOrder'
  BY <1>0, <1>2, <1>3 DEF FailureOrder
<1>5. DecoderOrder'
  BY <1>0, <1>2, <1>3 DEF DecoderOrder, decoder
<1>6. ExitOrder'
  BY <1>0, <1>3 DEF ExitOrder
<1>7. AllStarted => AllStarted'
  BY <1>3 DEF AllStarted
<1>8. RunOrder'
  BY <1>0, <1>2, <1>7 DEF RunOrder
<1>9. OutcomeFaithful'
  BY <1>2 DEF OutcomeFaithful, AcceptedFramesCollected, FailureNotMasked
<1> QED
  BY <1>1, <1>4, <1>5, <1>6, <1>8, <1>9

\* The frames the others hold stay where they are.
LEMMA OthersHold ==
    ASSUME IInv, NEW w \in Workers, NEW state, Step(w, state),
           \A t \in Holders \ {w} : frame'[t] = frame[t],
           \A v \in Workers \ {w} : done'[v] = done[v],
           decode_failure' = decode_failure,
           completed_ \in Int, completed_' \in {completed_, completed_ + 1},
           \A v \in Workers : done[v] \in Int,
           HandsOK(w, state)'
    PROVE  FramesHeld' /\ Pushing' = Pushing
<1>0. /\ w \in Threads /\ w \notin Producers /\ FramesHeld
      /\ Workers \subseteq Threads /\ Producers \subseteq Threads
  BY DEF IInv, Threads
<1>1. \A t \in Holders \ {w} : pc'[t] = pc[t] \/ (pc[t] = "waiting" /\ pc'[t] = "check")
  BY <1>0 DEF Step, Holders
<1>2. FramesHeld'
  <2>1. \A p \in Producers : p # w /\ frame'[p] = frame[p]
    BY <1>0 DEF Holders
  <2>2. \A v \in Workers \ {w} : frame'[v] = frame[v]
    BY DEF Holders
  <2>3. pc'[w] = state
    BY DEF Step
  <2>4. ASSUME NEW v \in Workers \ {w} PROVE HandsOK(v, pc[v])'
    <3>1. /\ done'[v] = done[v] /\ frame'[v] = frame[v] /\ done[v] \in Int
          /\ pc'[v] = pc[v] \/ (pc[v] = "waiting" /\ pc'[v] = "check")
      BY <1>1, <2>2 DEF Holders
    <3>2. done'[v] <= completed_'
      BY <1>0, <3>1 DEF FramesHeld, HandsOK
    <3> QED
      BY <1>0, <3>1, <3>2 DEF FramesHeld, HandsOK
  <2>5. \A q \in Producers :
           /\ pc'[q] \in {"check", "block", "waiting"} => frame'[q] # NoFrame
           /\ pc'[q] \in {"idle", "decode", "notify"} => frame'[q] = NoFrame
           /\ pc'[q] = "ended" /\ frame'[q] # NoFrame => decode_failure'
    BY <1>0, <1>1, <2>1 DEF FramesHeld, HandsOK, Holders
  <2> QED
    BY <2>3, <2>4, <2>5 DEF FramesHeld, HandsOK
<1>3. Pushing' = Pushing
  BY <1>0 DEF Pushing, Holders
<1> QED
  BY <1>2, <1>3

\* A worker waits, leaves or goes through the handler of its failure; nothing that is
\* counted moves.
LEMMA WorkerRests ==
    ASSUME IInv, NEW w \in Workers, NEW state, Step(w, state),
           \/ pc[w] = "check" /\ state = "block"
           \/ pc[w] = "check" /\ state = "exit" /\ (abort_ \/ stop \/ NothingLeft)
           \/ pc[w] = "block" /\ state = "waiting"
           \/ pc[w] = "notify" /\ state = "collect"
           \/ pc[w] = "fail_stop" /\ state = "fail_notify"
           \/ pc[w] = "fail_notify" /\ state = "exit",
           stop => stop', stop' \in BOOLEAN,
           UNCHANGED <<frame, done, shared, decoder, results, outcome>>
    PROVE  IInv'
<1> USE DEF shared, results, decoder
<1>0. /\ TypeOK /\ DataOK /\ Places /\ FramesHeld /\ SlotsCounted /\ FramesCounted
      /\ CompletedCollected /\ OnePlace /\ Everywhere /\ FailureOrder /\ w \in Threads
      /\ w \in Holders
  BY PartsOfTypes DEF IInv, Threads, Holders
<1>1. /\ \A v \in Workers \ {w} : pc'[v] = pc[v] \/ (pc[v] = "waiting" /\ pc'[v] = "check")
      /\ pc'[w] = state
  BY DEF Step, Threads
<1>2. Places' /\ FailureOrder' /\ DecoderOrder' /\ ExitOrder' /\ RunOrder' /\ OutcomeFaithful'
  <2>1. state \in WorkerPlaces \ {"unborn"} /\ Alive(w)
    BY DEF WorkerPlaces, Alive
  <2>2. state \in {"fail_stop", "fail_notify"} => failure_
    BY <1>0 DEF FailureOrder
  <2>3. state = "exit" => /\ frame[w] # NoFrame => failure_
                          /\ abort_ \/ stop' \/ (decoding_done_ /\ queue_ = <<>>)
    BY <1>0 DEF FailureOrder, FramesHeld, HandsOK, NothingLeft
  <2>4. (failure_ => abort_ /\ queue_ = <<>>) /\ (abort_ => failure_ \/ stop')
    BY <1>0 DEF FailureOrder
  <2> QED
    BY <2>1, <2>2, <2>3, <2>4, WorkerOrders
<1>3. FramesHeld' /\ Pushing' = Pushing
  <2>1. HandsOK(w, state)'
    BY <1>0 DEF FramesHeld, HandsOK
  <2> QED
    BY <1>0, <2>1, OthersHold, TypeFacts
<1>4. Occupying' = Occupying
  <2>1. w \in Occupying' <=> w \in Occupying
    BY <1>0, <1>1 DEF Occupying, FramesHeld, HandsOK
  <2>2. \A v \in Workers \ {w} : v \in Occupying' <=> v \in Occupying
    BY <1>1 DEF Occupying
  <2> QED
    BY <2>1, <2>2 DEF Occupying
<1>5. Analyzing' = Analyzing /\ Analyzed' = Analyzed
  <2>1. Analyzing' = Analyzing
    BY <1>1 DEF Analyzing
  <2>2. \A v \in Workers : v \in Analyzed' <=> v \in Analyzed
    BY <1>1 DEF Analyzed
  <2> QED
    BY <2>1, <2>2 DEF Analyzed
<1>8. FramesCounted'
  BY <1>0, <1>3, <1>5 DEF FramesCounted
<1>9. SlotsCounted' /\ CompletedCollected'
  BY <1>0, <1>4, <1>5 DEF SlotsCounted, CompletedCollected, Concurrency
<1>10. OnePlace' /\ Everywhere'
  BY <1>0 DEF OnePlace, Everywhere, Queued, Held
<1>11. DataOK'
  BY <1>0 DEF DataOK
<1>12. TypeOK'
  BY <1>2, <1>3, <1>8, <1>9, <1>11, TypesFromParts
<1> QED
  BY <1>2, <1>3, <1>8, <1>9, <1>10, <1>12 DEF IInv

\* A frame goes from the front of the queue to a worker, and keeps its slot.
LEMMA TakeKeepsInv ==
    ASSUME IInv, NEW w \in Workers, pc[w] = "check", queue_ # <<>>,
           frame' = [frame EXCEPT ![w] = Head(queue_)],
           queue_' = Tail(queue_),
           Goto(w, "analyze"),
           UNCHANGED <<done, inflight_, decoding_done_, abort_, failure_, stop, decoder, results,
                       outcome>>
    PROVE  IInv'
<1> USE DEF results, decoder
<1>0. /\ TypeOK /\ DataOK /\ Places /\ FramesHeld /\ SlotsCounted /\ FramesCounted
      /\ CompletedCollected /\ OnePlace /\ Everywhere /\ FailureOrder /\ w \in Threads
      /\ w \in Holders
  BY PartsOfTypes DEF IInv, Threads, Holders
<1>1. Step(w, "analyze")
  BY <1>0, GotoSteps
<1>2. /\ \A v \in Workers \ {w} : pc'[v] = pc[v] \/ (pc[v] = "waiting" /\ pc'[v] = "check")
      /\ pc'[w] = "analyze"
  BY <1>1 DEF Step, Threads
<1>3. /\ 1 \in 1 .. Len(queue_) /\ Head(queue_) = queue_[1]
      /\ Len(queue_') = Len(queue_) - 1 /\ queue_' \in Seq(Frames)
      /\ \A i \in 1 .. Len(queue_') : i + 1 \in 1 .. Len(queue_) /\ queue_'[i] = queue_[i + 1]
      /\ \A i \in 1 .. Len(queue_) : i = 1 \/ (i - 1 \in 1 .. Len(queue_') /\ queue_'[i - 1] = queue_[i])
  BY <1>0 DEF DataOK
<1>4. /\ \A t \in Holders \ {w} : frame'[t] = frame[t]
      /\ frame'[w] = queue_[1] /\ queue_[1] # NoFrame /\ frame[w] = NoFrame
      /\ queue_[1] \in Frames
  <2>1. queue_[1] \in Frames
    BY <1>0, <1>3 DEF DataOK
  <2> QED
    BY <1>0, <1>3, <2>1, TypeFacts DEF DataOK, FramesHeld, HandsOK
<1>5. Places' /\ FailureOrder' /\ DecoderOrder' /\ ExitOrder' /\ RunOrder' /\ OutcomeFaithful'
  <2>1. Alive(w) /\ "analyze" \in WorkerPlaces \ {"unborn"}
    BY DEF Alive, WorkerPlaces
  <2>2. ~failure_ /\ (abort_ => failure_ \/ stop)
    BY <1>0 DEF FailureOrder
  <2>3. \A v \in Workers \ {w} : frame'[v] = frame[v]
    BY <1>4 DEF Holders
  <2> QED
    BY <1>1, <2>1, <2>2, <2>3, WorkerOrders
<1>6. FramesHeld' /\ Pushing' = Pushing
  <2>1. HandsOK(w, "analyze")'
    BY <1>0, <1>4 DEF FramesHeld, HandsOK
  <2> QED
    BY <1>0, <1>1, <1>4, <2>1, OthersHold, TypeFacts
<1>7. /\ Occupying' = Occupying \cup {w} /\ w \notin Occupying
      /\ Analyzing' = Analyzing \cup {w} /\ w \notin Analyzing
      /\ Analyzed' = Analyzed
  <2>1. \A v \in Workers \ {w} : frame'[v] = frame[v]
    BY <1>4 DEF Holders
  <2>2. Occupying' = Occupying \cup {w} /\ w \notin Occupying
    BY <1>0, <1>2, <2>1 DEF Occupying
  <2>3. Analyzing' = Analyzing \cup {w} /\ w \notin Analyzing
    BY <1>2 DEF Analyzing
  <2>4. Analyzed' = Analyzed
    BY <1>2 DEF Analyzed
  <2> QED
    BY <2>2, <2>3, <2>4
<1>8. /\ Cardinality(Occupying') = Cardinality(Occupying) + 1
      /\ Cardinality(Analyzing') = Cardinality(Analyzing) + 1
  BY <1>7, CountsFinite, FS_AddElement
<1>10. FramesCounted'
  BY <1>0, <1>3, <1>6, <1>8, Numbers DEF FramesCounted
<1>11. SlotsCounted'
  BY <1>0, <1>3, <1>8, Numbers DEF SlotsCounted, Concurrency
<1>12. CompletedCollected'
  BY <1>0, <1>7 DEF CompletedCollected
<1>13. OnePlace'
  <2>1. \A i, j \in 1 .. Len(queue_') : queue_'[i] = queue_'[j] => i = j
    <3>1. \A i, j \in 1 .. Len(queue_') : i + 1 = j + 1 => i = j
      OBVIOUS
    <3> QED
      BY <1>0, <1>3, <3>1 DEF OnePlace
  <2>2. \A s, t \in Holders : frame'[s] # NoFrame /\ frame'[s] = frame'[t] => s = t
    BY <1>0, <1>3, <1>4 DEF OnePlace
  <2>3. \A i \in 1 .. Len(queue_') : i + 1 # 1
    OBVIOUS
  <2>4. \A i \in 1 .. Len(queue_'), t \in Holders : queue_'[i] # frame'[t]
    BY <1>0, <1>3, <1>4, <2>3 DEF OnePlace
  <2>5. \A i \in 1 .. Len(queue_') : queue_'[i] <= produced /\ queue_'[i] \notin collected
    BY <1>0, <1>3 DEF OnePlace
  <2>6. \A t \in Holders : frame'[t] # NoFrame => frame'[t] <= produced /\ frame'[t] \notin collected
    BY <1>0, <1>3, <1>4 DEF OnePlace
  <2> QED
    BY <1>0, <2>1, <2>2, <2>4, <2>5, <2>6 DEF OnePlace
<1>14. Everywhere'
  <2>1. \A i : Queued(i) => Queued(i)' \/ Held(i)'
    BY <1>0, <1>3, <1>4 DEF Queued, Held
  <2>2. ASSUME NEW i \in 1 .. produced, Held(i) PROVE Held(i)'
    <3>1. i # NoFrame
      BY DEF NoFrame
    <3> QED
      BY <1>4, <2>2, <3>1 DEF Held
  <2> QED
    BY <1>0, <2>1, <2>2 DEF Everywhere
<1>15. DataOK'
  BY <1>0, <1>3, <1>4 DEF DataOK
<1>16. TypeOK'
  BY <1>5, <1>6, <1>10, <1>11, <1>15, TypesFromParts
<1> QED
  BY <1>5, <1>6, <1>10, <1>11, <1>12, <1>13, <1>14, <1>16 DEF IInv

\* The analysis is over: the frame is completed and its slot still occupied.
LEMMA AnalyzedKeepsInv ==
    ASSUME IInv, NEW w \in Workers, pc[w] = "analyze",
           completed_' = completed_ + 1,
           done' = [done EXCEPT ![w] = completed_'],
           Goto(w, "release"),
           UNCHANGED <<frame, shared, stop, decoder, collected, outcome>>
    PROVE  IInv'
<1> USE DEF shared, decoder
<1>0. /\ TypeOK /\ DataOK /\ Places /\ FramesHeld /\ SlotsCounted /\ FramesCounted
      /\ CompletedCollected /\ OnePlace /\ Everywhere /\ FailureOrder /\ w \in Threads
      /\ w \in Holders
  BY PartsOfTypes DEF IInv, Threads, Holders
<1>1. Step(w, "release")
  BY <1>0, GotoSteps
<1>2. /\ \A v \in Workers \ {w} : pc'[v] = pc[v] \/ (pc[v] = "waiting" /\ pc'[v] = "check")
      /\ pc'[w] = "release"
  BY <1>1 DEF Step, Threads
<1>3. Places' /\ FailureOrder' /\ DecoderOrder' /\ ExitOrder' /\ RunOrder' /\ OutcomeFaithful'
  <2>1. Alive(w) /\ "release" \in WorkerPlaces \ {"unborn"}
    BY DEF Alive, WorkerPlaces
  <2>2. (failure_ => abort_ /\ queue_ = <<>>) /\ (abort_ => failure_ \/ stop)
    BY <1>0 DEF FailureOrder
  <2> QED
    BY <1>1, <2>1, <2>2, WorkerOrders
<1>4. FramesHeld' /\ Pushing' = Pushing
  <2>1. done'[w] = completed_ + 1 /\ \A v \in Workers \ {w} : done'[v] = done[v]
    BY <1>0 DEF DataOK
  <2>2. HandsOK(w, "release")'
    BY <1>0, <2>1, TypeFacts DEF FramesHeld, HandsOK
  <2> QED
    BY <1>0, <1>1, <2>1, <2>2, OthersHold, TypeFacts
<1>5. /\ Occupying' = Occupying
      /\ Analyzing' = Analyzing \ {w} /\ w \in Analyzing
      /\ Analyzed' = Analyzed \cup {w} /\ w \notin Analyzed
  <2>0. \A v \in Workers \ {w} : done'[v] = done[v]
    BY <1>0 DEF DataOK
  <2>1. \A v \in Workers : v \in Occupying' <=> v \in Occupying
    BY <1>2, <2>0 DEF Occupying
  <2>2. Occupying' = Occupying
    BY <2>1 DEF Occupying
  <2>3. Analyzing' = Analyzing \ {w} /\ w \in Analyzing
    BY <1>2 DEF Analyzing
  <2>4. Analyzed' = Analyzed \cup {w} /\ w \notin Analyzed
    BY <1>2 DEF Analyzed
  <2> QED
    BY <2>2, <2>3, <2>4
<1>6. /\ Cardinality(Analyzing') = Cardinality(Analyzing) - 1
      /\ Cardinality(Analyzed') = Cardinality(Analyzed) + 1
  BY <1>5, CountsFinite, FS_AddElement, FS_RemoveElement
<1>8. FramesCounted'
  BY <1>0, <1>4, <1>6, Numbers DEF FramesCounted
<1>9. SlotsCounted'
  BY <1>0, <1>5 DEF SlotsCounted, Concurrency
<1>10. CompletedCollected'
  <2>1. ~failure_ => completed_ = Cardinality(collected) + Cardinality(Analyzed)
    BY <1>0 DEF CompletedCollected
  <2>2. Cardinality(collected) \in Nat /\ collected' = collected
    BY <1>0, TypeFacts
  <2>3. ~failure_ => completed_' = Cardinality(collected) + Cardinality(Analyzed')
    BY <1>0, <1>6, <2>1, <2>2, Numbers
  <2> QED
    BY <2>2, <2>3 DEF CompletedCollected
<1>11. OnePlace' /\ Everywhere'
  BY <1>0 DEF OnePlace, Everywhere, Queued, Held
<1>12. DataOK'
  BY <1>0 DEF DataOK
<1>13. TypeOK'
  BY <1>3, <1>4, <1>8, <1>9, <1>12, TypesFromParts
<1> QED
  BY <1>3, <1>4, <1>8, <1>9, <1>10, <1>11, <1>13 DEF IInv

\* The slot is given back; the worker keeps the frame for the collector.
LEMMA ReleaseKeepsInv ==
    ASSUME IInv, NEW w \in Workers, ReleaseSlot(w)
    PROVE  IInv'
<1> USE DEF decoder, results
<1>0. /\ TypeOK /\ DataOK /\ Places /\ FramesHeld /\ SlotsCounted /\ FramesCounted
      /\ CompletedCollected /\ OnePlace /\ Everywhere /\ FailureOrder /\ w \in Threads
      /\ w \in Holders /\ pc[w] = "release"
      /\ UNCHANGED <<frame, done, queue_, decoding_done_, abort_, failure_, stop, decoder,
                     results, outcome>>
  BY PartsOfTypes DEF IInv, Threads, Holders, ReleaseSlot
<1>1. Step(w, "notify")
  BY <1>0, GotoSteps DEF ReleaseSlot
<1>2. /\ \A v \in Workers \ {w} : pc'[v] = pc[v] \/ (pc[v] = "waiting" /\ pc'[v] = "check")
      /\ pc'[w] = "notify"
  BY <1>1 DEF Step, Threads
<1>3. Places' /\ FailureOrder' /\ DecoderOrder' /\ ExitOrder' /\ RunOrder' /\ OutcomeFaithful'
  <2>1. Alive(w) /\ "notify" \in WorkerPlaces \ {"unborn"}
    BY <1>0 DEF Alive, WorkerPlaces
  <2>2. (failure_ => abort_ /\ queue_ = <<>>) /\ (abort_ => failure_ \/ stop)
    BY <1>0 DEF FailureOrder
  <2> QED
    BY <1>0, <1>1, <2>1, <2>2, WorkerOrders
<1>4. FramesHeld' /\ Pushing' = Pushing
  <2>1. HandsOK(w, "notify")'
    BY <1>0 DEF FramesHeld, HandsOK
  <2> QED
    BY <1>0, <1>1, <2>1, OthersHold, TypeFacts
<1>5. /\ Occupying' = Occupying \ {w} /\ w \in Occupying
      /\ Analyzing' = Analyzing /\ Analyzed' = Analyzed
  <2>1. Occupying' = Occupying \ {w} /\ w \in Occupying
    BY <1>0, <1>2 DEF Occupying
  <2>2. Analyzing' = Analyzing
    BY <1>0, <1>2 DEF Analyzing
  <2>3. Analyzed' = Analyzed
    BY <1>0, <1>2 DEF Analyzed
  <2> QED
    BY <2>1, <2>2, <2>3
<1>6. Cardinality(Occupying') = Cardinality(Occupying) - 1
  BY <1>5, CountsFinite, FS_RemoveElement
<1>8. FramesCounted' /\ CompletedCollected'
  BY <1>0, <1>4, <1>5 DEF FramesCounted, CompletedCollected
<1>9. SlotsCounted'
  <2>1. inflight_' = inflight_ - 1
    BY DEF ReleaseSlot
  <2> QED
    BY <1>0, <1>6, <2>1, Numbers DEF SlotsCounted, Concurrency
<1>10. OnePlace' /\ Everywhere'
  BY <1>0 DEF OnePlace, Everywhere, Queued, Held
<1>11. DataOK'
  BY <1>0 DEF DataOK, ReleaseSlot
<1>12. TypeOK'
  BY <1>3, <1>4, <1>8, <1>9, <1>11, TypesFromParts
<1> QED
  BY <1>3, <1>4, <1>8, <1>9, <1>10, <1>12 DEF IInv

\* The frame goes to the collector; the worker's hands are empty.
LEMMA CollectKeepsInv ==
    ASSUME IInv, NEW w \in Workers, Collect(w)
    PROVE  IInv'
<1> USE DEF decoder, shared
<1>0. /\ TypeOK /\ DataOK /\ Places /\ FramesHeld /\ SlotsCounted /\ FramesCounted
      /\ CompletedCollected /\ OnePlace /\ Everywhere /\ FailureOrder /\ w \in Threads
      /\ w \in Holders /\ pc[w] = "collect"
      /\ frame' = [frame EXCEPT ![w] = NoFrame]
      /\ done' = [done EXCEPT ![w] = 0]
      /\ collected' = collected \cup {frame[w]}
      /\ UNCHANGED <<shared, stop, decoder, completed_, outcome>>
  BY PartsOfTypes DEF IInv, Threads, Holders, Collect
<1>1. Step(w, "check")
  BY <1>0, GotoSteps DEF Collect
<1>2. /\ \A v \in Workers \ {w} : pc'[v] = pc[v] \/ (pc[v] = "waiting" /\ pc'[v] = "check")
      /\ pc'[w] = "check"
  BY <1>1 DEF Step, Threads
<1>3. /\ \A t \in Holders \ {w} : frame'[t] = frame[t]
      /\ frame'[w] = NoFrame /\ frame[w] # NoFrame /\ frame[w] \in Frames
      /\ \A v \in Workers \ {w} : done'[v] = done[v]
      /\ done'[w] = 0
  BY <1>0 DEF DataOK, FramesHeld, HandsOK
<1>4. Places' /\ FailureOrder' /\ DecoderOrder' /\ ExitOrder' /\ RunOrder' /\ OutcomeFaithful'
  <2>1. Alive(w) /\ "check" \in WorkerPlaces \ {"unborn"}
    BY <1>0 DEF Alive, WorkerPlaces
  <2>2. (failure_ => abort_ /\ queue_ = <<>>) /\ (abort_ => failure_ \/ stop)
    BY <1>0 DEF FailureOrder
  <2>3. \A v \in Workers \ {w} : frame'[v] = frame[v]
    BY <1>3 DEF Holders
  <2> QED
    BY <1>0, <1>1, <2>1, <2>2, <2>3, WorkerOrders
<1>5. FramesHeld' /\ Pushing' = Pushing
  <2>1. HandsOK(w, "check")'
    BY <1>0, <1>3, TypeFacts DEF HandsOK
  <2> QED
    BY <1>0, <1>1, <1>3, <2>1, OthersHold, TypeFacts
<1>6. /\ Occupying' = Occupying /\ Analyzing' = Analyzing
      /\ Analyzed' = Analyzed \ {w} /\ w \in Analyzed
  <2>0. \A v \in Workers \ {w} : frame'[v] = frame[v]
    BY <1>3 DEF Holders
  <2>1. Occupying' = Occupying
    BY <1>0, <1>2, <1>3, <2>0 DEF Occupying
  <2>2. Analyzing' = Analyzing
    BY <1>0, <1>2 DEF Analyzing
  <2>3. Analyzed' = Analyzed \ {w} /\ w \in Analyzed
    BY <1>0, <1>2 DEF Analyzed
  <2> QED
    BY <2>1, <2>2, <2>3
<1>7. Cardinality(Analyzed') = Cardinality(Analyzed) - 1
  BY <1>6, CountsFinite, FS_RemoveElement
<1>9. FramesCounted' /\ SlotsCounted'
  BY <1>0, <1>5, <1>6 DEF FramesCounted, SlotsCounted, Concurrency
<1>10. CompletedCollected'
  <2> SUFFICES ASSUME ~failure_
               PROVE  completed_' = Cardinality(collected') + Cardinality(Analyzed')
    BY <1>0 DEF CompletedCollected
  <2>1. frame[w] \notin collected
    BY <1>0, <1>3 DEF OnePlace, Holders
  <2>2. Cardinality(collected') = Cardinality(collected) + 1
    BY <1>0, <2>1, TypeFacts, FS_AddElement
  <2> QED
    BY <1>0, <1>7, <2>2, TypeFacts, Numbers DEF CompletedCollected
<1>11. collected' \subseteq collected \cup {frame[w]}
  BY <1>0
<1>12. OnePlace'
  <2>1. /\ \A s, t \in Holders : frame'[s] # NoFrame /\ frame'[s] = frame'[t] => s = t
        /\ \A i \in 1 .. Len(queue_), t \in Holders : queue_[i] # frame'[t]
    BY <1>0, <1>3, TypeFacts DEF OnePlace
  <2>2. \A i \in 1 .. Len(queue_) : queue_[i] <= produced /\ queue_[i] \notin collected'
    BY <1>0, <1>11 DEF OnePlace
  <2>3. \A t \in Holders : frame'[t] # NoFrame => frame'[t] <= produced /\ frame'[t] \notin collected'
    BY <1>0, <1>3, <1>11 DEF OnePlace
  <2>4. \A i \in collected' : i <= produced
    BY <1>0, <1>3, <1>11 DEF OnePlace
  <2> QED
    BY <1>0, <2>1, <2>2, <2>3, <2>4 DEF OnePlace
<1>13. Everywhere'
  <2>1. \A i : Held(i) => Held(i)' \/ i \in collected'
    BY <1>0, <1>3 DEF Held
  <2>2. collected \subseteq collected'
    BY <1>0
  <2> QED
    BY <1>0, <2>1, <2>2 DEF Everywhere, Queued
<1>14. DataOK'
  BY <1>0, <1>3, <1>11 DEF DataOK
<1>15. TypeOK'
  BY <1>4, <1>5, <1>9, <1>14, TypesFromParts
<1> QED
  BY <1>4, <1>5, <1>9, <1>10, <1>12, <1>13, <1>15 DEF IInv

\* What is queued is given up, with its slots.
LEMMA DropKeepsCounts ==
    ASSUME TypeOK, SlotsCounted, FramesCounted, OnePlace,
           queue_' = <<>>, inflight_' = inflight_ - Len(queue_),
           Occupying' = Occupying, Analyzing' \in SUBSET Analyzing, Pushing' = Pushing,
           UNCHANGED <<frame, produced, results>>
    PROVE  SlotsCounted' /\ FramesCounted' /\ OnePlace' /\ inflight_' \in Int
<1>1. Len(queue_') = 0
  OBVIOUS
<1>2. SlotsCounted'
  BY <1>1, Numbers DEF SlotsCounted, Concurrency
<1>3. FramesCounted'
  <2>1. Cardinality(Analyzing') <= Cardinality(Analyzing) /\ Cardinality(Analyzing') \in Nat
    BY CountsFinite, FS_Subset, FS_CardinalityType
  <2> QED
    BY <1>1, <2>1, Numbers DEF FramesCounted, results
<1>4. OnePlace'
  BY <1>1 DEF OnePlace, results
<1> QED
  BY <1>2, <1>3, <1>4, TypeFacts

\* fail() by a worker.
LEMMA WorkerFailKeepsInv ==
    ASSUME IInv, NEW w \in Workers, Throws(w)
    PROVE  IInv'
<1> USE DEF decoder, results
<1>0. /\ TypeOK /\ DataOK /\ Places /\ FramesHeld /\ SlotsCounted /\ FramesCounted
      /\ OnePlace /\ w \in Threads /\ w \in Holders
      /\ pc[w] \in {"analyze", "collect"}
      /\ failure_' = TRUE /\ abort_' = TRUE
      /\ inflight_' = inflight_ - Len(queue_) /\ queue_' = <<>>
      /\ UNCHANGED <<frame, done, decoding_done_, stop, decoder, results, outcome>>
  BY PartsOfTypes DEF IInv, Threads, Holders, Throws, Fail
<1>1. Step(w, "fail_stop")
  BY <1>0, GotoSteps DEF Throws, Fail
<1>2. /\ \A v \in Workers \ {w} : pc'[v] = pc[v] \/ (pc[v] = "waiting" /\ pc'[v] = "check")
      /\ pc'[w] = "fail_stop"
  BY <1>1 DEF Step, Threads
<1>3. Places' /\ FailureOrder' /\ DecoderOrder' /\ ExitOrder' /\ RunOrder' /\ OutcomeFaithful'
  <2>1. Alive(w) /\ "fail_stop" \in WorkerPlaces \ {"unborn"}
    BY <1>0 DEF Alive, WorkerPlaces
  <2> QED
    BY <1>0, <1>1, <2>1, WorkerOrders
<1>4. FramesHeld' /\ Pushing' = Pushing
  <2>1. HandsOK(w, "fail_stop")'
    BY <1>0 DEF FramesHeld, HandsOK
  <2> QED
    BY <1>0, <1>1, <2>1, OthersHold, TypeFacts
<1>5. Occupying' = Occupying /\ Analyzing' \in SUBSET Analyzing
  <2>1. Occupying' = Occupying
    BY <1>0, <1>2 DEF Occupying, FramesHeld, HandsOK
  <2>2. Analyzing' \in SUBSET Analyzing
    BY <1>2 DEF Analyzing
  <2> QED
    BY <2>1, <2>2
<1>6. SlotsCounted' /\ FramesCounted' /\ OnePlace' /\ inflight_' \in Int
  BY <1>0, <1>4, <1>5, DropKeepsCounts
<1>7. CompletedCollected' /\ Everywhere'
  BY <1>0 DEF CompletedCollected, Everywhere
<1>8. DataOK'
  BY <1>0, <1>6 DEF DataOK
<1>9. TypeOK'
  BY <1>3, <1>4, <1>6, <1>8, TypesFromParts
<1> QED
  BY <1>3, <1>4, <1>6, <1>7, <1>9 DEF IInv

\* Every step of a worker keeps the invariant.
LEMMA WorkerKeepsInv ==
    ASSUME IInv, NEW w \in Workers, Worker(w)
    PROVE  IInv'
<1>0. Places /\ w \in Threads /\ DataOK
  BY PartsOfTypes DEF IInv, Threads
<1> USE DEF shared, results, decoder
<1>1. CASE WorkerCheck(w)
  <2>1. CASE Goto(w, "block") /\ UNCHANGED <<frame, queue_>>
    <3>1. Step(w, "block")
      BY <1>0, <2>1, GotoSteps
    <3> QED
      BY <1>0, <1>1, <2>1, <3>1, WorkerRests DEF WorkerCheck, DataOK
  <2>2. CASE (abort_ \/ stop \/ NothingLeft) /\ Goto(w, "exit") /\ UNCHANGED <<frame, queue_>>
    <3>1. Step(w, "exit")
      BY <1>0, <2>2, GotoSteps
    <3> QED
      BY <1>0, <1>1, <2>2, <3>1, WorkerRests DEF WorkerCheck, DataOK
  <2>3. CASE /\ queue_ # <<>>
             /\ frame' = [frame EXCEPT ![w] = Head(queue_)]
             /\ queue_' = Tail(queue_)
             /\ Goto(w, "analyze")
    BY <1>1, <2>3, TakeKeepsInv DEF WorkerCheck
  <2> QED
    BY <1>1, <2>1, <2>2, <2>3 DEF WorkerCheck
<1>2. CASE Analyze(w)
  BY <1>2, AnalyzedKeepsInv DEF Analyze
<1>3. CASE ReleaseSlot(w)
  BY <1>3, ReleaseKeepsInv
<1>4. CASE WorkerNotify(w)
  <2>1. Step(w, "collect")
    BY <1>0, <1>4, NotifyAllSteps DEF WorkerNotify
  <2> QED
    BY <1>0, <1>4, <2>1, WorkerRests DEF WorkerNotify, DataOK
<1>5. CASE Collect(w)
  BY <1>5, CollectKeepsInv
<1>6. CASE Throws(w)
  BY <1>6, WorkerFailKeepsInv
<1>7. CASE FailStop(w)
  <2>1. Step(w, "fail_notify")
    BY <1>0, <1>7, GotoSteps DEF FailStop
  <2> QED
    BY <1>0, <1>7, <2>1, WorkerRests DEF FailStop, DataOK
<1>8. CASE FailNotify(w, "exit")
  <2>1. Step(w, "exit")
    BY <1>0, <1>8, NotifyAllSteps DEF FailNotify
  <2> QED
    BY <1>0, <1>8, <2>1, WorkerRests DEF FailNotify, DataOK
<1>9. CASE Block(w)
  <2>1. Step(w, "waiting")
    BY <1>0, <1>9, GotoSteps DEF Block
  <2> QED
    BY <1>0, <1>9, <2>1, WorkerRests DEF Block, DataOK
<1> QED
  BY <1>1, <1>2, <1>3, <1>4, <1>5, <1>6, <1>7, <1>8, <1>9 DEF Worker
-----------------------------------------------------------------------------
(* The steps of run() and of the canceller: they move no frame, but may give *)
(* up what is queued.                                                      *)

\* Workers and producers only wake or are started.
Bystanders ==
    /\ \A w \in Workers : \/ pc'[w] = pc[w]
                          \/ pc[w] \in {"waiting", "unborn"} /\ pc'[w] = "check"
    /\ \A p \in Producers : \/ pc'[p] = pc[p]
                            \/ pc[p] = "waiting" /\ pc'[p] = "check"
                            \/ pc[p] = "idle" /\ pc'[p] = "decode"
    /\ frame' = frame /\ done' = done /\ completed_' = completed_

\* A step beside the workers and producers leaves the frames and the counted sets.
LEMMA BystandersHold ==
    ASSUME FramesHeld, Bystanders, decode_failure => decode_failure'
    PROVE  /\ FramesHeld' /\ Pushing' = Pushing
           /\ Occupying' = Occupying /\ Analyzing' = Analyzing /\ Analyzed' = Analyzed
<1>1. FramesHeld'
  BY DEF FramesHeld, HandsOK, Bystanders
<1>2. Pushing' = Pushing
  BY DEF Pushing, Bystanders
<1>3. Occupying' = Occupying
  BY DEF Occupying, Bystanders
<1>4. Analyzing' = Analyzing
  BY DEF Analyzing, Bystanders
<1>5. Analyzed' = Analyzed
  BY DEF Analyzed, Bystanders
<1> QED
  BY <1>1, <1>2, <1>3, <1>4, <1>5

\* The flags of the job are only ever raised, and what is queued may be given up.
Given ==
    /\ \/ UNCHANGED <<queue_, inflight_>>
       \/ queue_' = <<>> /\ inflight_' = inflight_ - Len(queue_) /\ abort_'
    /\ failure_' \in BOOLEAN /\ abort_' \in BOOLEAN /\ stop' \in BOOLEAN
    /\ decoding_done_' \in BOOLEAN
    /\ (failure_ => failure_') /\ (abort_ => abort_') /\ (stop => stop')
    /\ (decoding_done_ => decoding_done_')
    /\ (failure_' => abort_' /\ queue_' = <<>>) /\ (abort_' => failure_' \/ stop')
    /\ decode_failure' \in BOOLEAN /\ (decode_failure => decode_failure')
    /\ UNCHANGED <<produced, results>>

\* A step of run() or of the canceller keeps the invariant if it keeps the orders.
LEMMA BystandersKeepInv ==
    ASSUME IInv, Bystanders, Given, Places', DecoderOrder', RunOrder', OutcomeFaithful',
           pc'[Runner] \in {"fail_stop", "fail_notify"} => failure_',
           outcome' \in {"none", "ok", "failed", "cancelled", "decode_failed"}
    PROVE  IInv'
<1>0. /\ TypeOK /\ DataOK /\ FramesHeld /\ SlotsCounted /\ FramesCounted /\ CompletedCollected
      /\ OnePlace /\ Everywhere /\ FailureOrder /\ ExitOrder
  BY PartsOfTypes DEF IInv
<1>1. /\ FramesHeld' /\ Pushing' = Pushing
      /\ Occupying' = Occupying /\ Analyzing' = Analyzing /\ Analyzed' = Analyzed
  BY <1>0, BystandersHold DEF Given
<1>2. frame' = frame /\ UNCHANGED <<produced, results>>
  BY DEF Bystanders, Given
<1>3. SlotsCounted' /\ FramesCounted' /\ OnePlace' /\ inflight_' \in Int
  <2>1. CASE UNCHANGED <<queue_, inflight_>>
    BY <1>0, <1>1, <1>2, <2>1, TypeFacts
       DEF SlotsCounted, FramesCounted, OnePlace, Concurrency, results
  <2>2. CASE queue_' = <<>> /\ inflight_' = inflight_ - Len(queue_)
    BY <1>0, <1>1, <1>2, <2>2, DropKeepsCounts
  <2> QED
    BY <2>1, <2>2 DEF Given
<1>4. CompletedCollected'
  BY <1>0, <1>1, <1>2 DEF CompletedCollected, Given, results
<1>5. Everywhere'
  <2>1. CASE UNCHANGED <<queue_, inflight_>>
    BY <1>0, <1>1, <1>2, <2>1 DEF Everywhere, Given, Queued, Held, results
  <2>2. CASE abort_'
    BY <2>2 DEF Everywhere
  <2> QED
    BY <2>1, <2>2 DEF Given
<1>6. FailureOrder'
  BY <1>0, <1>2 DEF FailureOrder, Bystanders, Given
<1>7. ExitOrder'
  BY <1>0 DEF ExitOrder, Bystanders, Given
<1>8. DataOK'
  <2>1. queue_' \in Seq(Frames)
    <3>1. queue_' = queue_ \/ queue_' = <<>>
      BY DEF Given
    <3>2. queue_ \in Seq(Frames) /\ <<>> \in Seq(Frames)
      BY <1>0 DEF DataOK
    <3> QED
      BY <3>1, <3>2
  <2>2. /\ produced' = produced /\ completed_' = completed_ /\ collected' = collected
        /\ frame' = frame /\ done' = done
    BY <1>2 DEF results, Bystanders
  <2>3. /\ failure_' \in BOOLEAN /\ abort_' \in BOOLEAN /\ stop' \in BOOLEAN
        /\ decoding_done_' \in BOOLEAN /\ decode_failure' \in BOOLEAN
    BY DEF Given
  <2> QED
    BY <1>0, <1>3, <2>1, <2>2, <2>3 DEF DataOK
<1>9. TypeOK'
  BY <1>1, <1>3, <1>8, TypesFromParts
<1> QED
  BY <1>1, <1>3, <1>4, <1>5, <1>6, <1>7, <1>9 DEF IInv

\* The runner and the canceller disturb nobody by a step of their own.
LEMMA OutsideSteps ==
    ASSUME Places, NEW t \in {Runner, Canceller}, NEW state, Step(t, state), UNCHANGED <<frame, done, completed_>>,
           t = Runner => state \in RunnerPlaces,
           t = Canceller => state \in {"idle", "notify", "done"}
    PROVE  /\ Places' /\ Bystanders
           /\ t = Runner => pc'[Runner] = state
           /\ t = Canceller => pc'[Runner] = pc[Runner]
           /\ \A p \in Producers : pc'[p] \in {"idle", "ended"} <=> pc[p] \in {"idle", "ended"}
           /\ \A p \in Producers : pc'[p] = "idle" <=> pc[p] = "idle"
           /\ AllStarted' = AllStarted
           /\ \A w \in Workers : pc'[w] \in {"exit", "unborn"} <=> pc[w] \in {"exit", "unborn"}
<1>0. t \in Threads /\ t \notin Producers /\ t \notin Workers
  BY DEF Threads
<1>1. Places'
  BY <1>0, StepPlaces
<1>2. /\ \A u \in Workers \cup Producers :
             pc'[u] = pc[u] \/ (pc[u] = "waiting" /\ pc'[u] = "check")
      /\ t = Runner => pc'[Runner] = state
      /\ t = Canceller => pc'[Runner] = pc[Runner]
  BY <1>0 DEF Step, Threads, Places, RunnerPlaces
<1>3. Bystanders
  BY <1>2 DEF Bystanders
<1>4. AllStarted' = AllStarted
  BY <1>2 DEF AllStarted
<1> QED
  BY <1>1, <1>2, <1>3, <1>4

\* After the last worker the decoder is started.
LEMMA SpawnKeepsInv ==
    ASSUME IInv, NEW w \in Workers, Spawn(w)
    PROVE  IInv'
<1> USE DEF decoder, results
<1>0. /\ Places /\ DataOK /\ DecoderOrder /\ FailureOrder /\ RunOrder /\ FramesHeld
      /\ pc[Runner] = "spawn" /\ pc[w] = "unborn"
      /\ outcome = "none"
      /\ UNCHANGED <<frame, done, shared, stop, decoder, results, outcome>>
  BY PartsOfTypes DEF IInv, Spawn, RunOrder
<1> DEFINE last == \A v \in Workers \ {w} : pc[v] # "unborn"
<1>1. /\ \A v \in Workers : pc'[v] = IF v = w THEN "check" ELSE pc[v]
      /\ \A p \in Producers : pc'[p] = IF last THEN "decode" ELSE pc[p]
      /\ pc'[Runner] = IF last THEN "decoding" ELSE "spawn"
      /\ pc'[Canceller] = pc[Canceller]
      /\ pc' = [u \in Threads |-> pc'[u]]
  <2>1. \A v \in Workers : v \in Threads /\ v # Runner /\ v \notin Producers
    BY DEF Threads
  <2>2. \A p \in Producers : p \in Threads /\ p # Runner /\ p # w
    BY DEF Threads
  <2>3. Runner \in Threads /\ Runner # w
    BY DEF Threads
  <2>4. Canceller \in Threads /\ Canceller # w /\ Canceller # Runner /\ Canceller \notin Producers
    BY DEF Threads
  <2> QED
    BY <1>0, <2>1, <2>2, <2>3, <2>4 DEF Spawn
<1> HIDE DEF last
<1>2. \A p \in Producers : pc[p] = "idle"
  BY <1>0 DEF DecoderOrder
<1>3. Bystanders
  BY <1>0, <1>1, <1>2 DEF Bystanders
<1>4. Places'
  <2>1. /\ \A p \in Producers : pc'[p] \in ProducerPlaces
        /\ \A v \in Workers : pc'[v] \in WorkerPlaces
        /\ pc'[Runner] \in RunnerPlaces
        /\ pc'[Canceller] \in {"idle", "notify", "done"}
    BY <1>0, <1>1 DEF Places, ProducerPlaces, WorkerPlaces, RunnerPlaces
  <2> DEFINE All == ProducerPlaces \cup WorkerPlaces \cup RunnerPlaces \cup {"done"}
  <2>2. {"idle", "notify", "done"} \subseteq All
    BY DEF ProducerPlaces
  <2>3. \A u \in Threads : pc'[u] \in All
    BY <2>1, <2>2 DEF Threads
  <2> HIDE DEF All
  <2>4. pc' \in [Threads -> All]
    BY <1>1, <2>3
  <2> QED
    BY <2>1, <2>4 DEF Places, All
<1>5. DecoderOrder'
  BY <1>0, <1>1, <1>2 DEF DecoderOrder, shared
<1>6. RunOrder'
  <2>1. last => AllStarted'
    BY <1>1 DEF AllStarted, last
  <2> QED
    BY <1>0, <1>1, <2>1 DEF RunOrder
<1>7. OutcomeFaithful'
  BY <1>0 DEF OutcomeFaithful, AcceptedFramesCollected, FailureNotMasked
<1>8. Given
  BY <1>0 DEF Given, shared, DataOK, FailureOrder
<1> QED
  BY <1>0, <1>1, <1>3, <1>4, <1>5, <1>6, <1>7, <1>8, BystandersKeepInv

\* The threads that were created are joined; what failed is recorded first.
LEMMA SpawnFailsKeepsInv ==
    ASSUME IInv, SpawnFails
    PROVE  IInv'
<1> USE DEF decoder, results
<1>0. /\ Places /\ DataOK /\ DecoderOrder /\ RunOrder /\ outcome = "none" /\ Runner \in Threads
      /\ pc[Runner] = "spawn" /\ Goto(Runner, "fail_stop")
      /\ failure_' = TRUE /\ abort_' = TRUE
      /\ inflight_' = inflight_ - Len(queue_) /\ queue_' = <<>>
      /\ UNCHANGED <<frame, done, decoding_done_, stop, decoder, results, outcome>>
  BY PartsOfTypes DEF IInv, SpawnFails, Fail, RunOrder, Threads
<1>1. Step(Runner, "fail_stop")
  BY <1>0, GotoSteps
<1>2. "fail_stop" \in RunnerPlaces
  BY DEF RunnerPlaces
<1>3. /\ Places' /\ Bystanders /\ pc'[Runner] = "fail_stop"
      /\ \A p \in Producers : pc'[p] \in {"idle", "ended"} <=> pc[p] \in {"idle", "ended"}
  BY <1>0, <1>1, <1>2, OutsideSteps
<1>4. DecoderOrder' /\ RunOrder'
  BY <1>0, <1>3 DEF DecoderOrder, RunOrder
<1>5. OutcomeFaithful'
  BY <1>0 DEF OutcomeFaithful, AcceptedFramesCollected, FailureNotMasked
<1>6. Given
  BY <1>0 DEF Given, DataOK
<1> QED
  BY <1>0, <1>3, <1>4, <1>5, <1>6, BystandersKeepInv

\* The other steps of the runner before it returns go on to a place after the decoder.
LEMMA RunnerRests ==
    ASSUME IInv, NEW state \in {"fail_notify", "join", "notify"}, Step(Runner, state),
           pc[Runner] \notin {"spawn", "over"},
           Given, UNCHANGED <<frame, done, outcome, failure_>>,
           decoding_done_' => decode_failure' \/ produced = MaxFrames,
           \A p \in Producers : pc[p] \in {"idle", "ended"},
           state = "fail_notify" => failure_ /\ ~decoding_done_',
           state # "fail_notify" => failure_ \/ (decoding_done_' /\ AllStarted)
    PROVE  IInv'
<1>0. /\ Places /\ DataOK /\ DecoderOrder /\ RunOrder /\ outcome = "none"
  BY PartsOfTypes DEF IInv, RunOrder
<1>1. state \in RunnerPlaces
  BY DEF RunnerPlaces
<1>2. /\ Places' /\ Bystanders /\ pc'[Runner] = state /\ AllStarted' = AllStarted
      /\ \A p \in Producers : pc'[p] \in {"idle", "ended"} <=> pc[p] \in {"idle", "ended"}
  BY <1>0, <1>1, OutsideSteps DEF Given, results
<1>3. DecoderOrder'
  BY <1>2 DEF DecoderOrder, Given
<1>4. RunOrder'
  BY <1>0, <1>2 DEF RunOrder
<1>5. OutcomeFaithful'
  BY <1>0 DEF OutcomeFaithful, AcceptedFramesCollected, FailureNotMasked
<1> QED
  BY <1>0, <1>2, <1>3, <1>4, <1>5, BystandersKeepInv DEF DataOK

\* Everybody has returned and nothing was given up: the frames are with the collector.
LEMMA ReturnIsFaithful ==
    ASSUME IInv, Return
    PROVE  OutcomeFaithful'
<1> USE DEF shared, decoder, results
<1>0. /\ TypeOK /\ Places /\ FramesHeld /\ SlotsCounted /\ CompletedCollected /\ OnePlace
      /\ Everywhere /\ FailureOrder /\ DecoderOrder /\ ExitOrder /\ RunOrder
      /\ pc[Runner] = "join"
      /\ \A w \in Workers : pc[w] \in {"exit", "unborn"}
      /\ UNCHANGED <<frame, done, shared, stop, decoder, results>>
      /\ outcome' = IF failure_ THEN "failed"
                    ELSE IF stop THEN "cancelled"
                    ELSE IF decode_failure THEN "decode_failed" ELSE "ok"
  BY DEF IInv, Return
<1>1. FailureNotMasked'
  BY <1>0 DEF FailureNotMasked
<1>2. ASSUME ~failure_, ~stop
      PROVE  /\ queue_ = <<>> /\ inflight_ = 0 /\ Cardinality(collected) = completed_
             /\ ~decode_failure => collected = Frames
  <2>1. ~abort_ /\ decoding_done_ /\ AllStarted
    BY <1>0, <1>2 DEF FailureOrder, RunOrder
  <2>2. \A w \in Workers : pc[w] = "exit" /\ frame[w] = NoFrame
    BY <1>0, <1>2, <2>1 DEF AllStarted, FailureOrder
  <2>3. queue_ = <<>> /\ Len(queue_) = 0
    <3>1. \E w \in Workers : TRUE
      BY <2>1 DEF AllStarted
    <3>2. queue_ = <<>>
      BY <1>0, <1>2, <2>1, <2>2, <3>1 DEF ExitOrder
    <3> QED
      BY <3>2
  <2>4. Occupying = {} /\ Analyzed = {}
    BY <2>2 DEF Occupying, Analyzed
  <2>5. inflight_ = 0 /\ Cardinality(collected) = completed_
    BY <1>0, <1>2, <2>3, <2>4, FS_EmptySet, TypeFacts DEF SlotsCounted, CompletedCollected
  <2>6. ASSUME ~decode_failure PROVE collected = Frames
    <3>1. \A p \in Producers : frame[p] = NoFrame
      BY <1>0, <2>6 DEF FramesHeld, HandsOK, DecoderOrder
    <3>2. \A i \in 1 .. produced : ~Held(i) /\ ~Queued(i)
      BY <2>2, <2>3, <3>1, TypeFacts, <1>0 DEF Held, Queued, Holders, NoFrame
    <3>3. \A i \in 1 .. produced : i \in collected
      BY <1>0, <2>1, <2>6, <3>2 DEF Everywhere
    <3>4. produced = MaxFrames /\ collected \subseteq Frames
      BY <1>0, <2>1, <2>6 DEF DecoderOrder, TypeOK
    <3> QED
      BY <3>3, <3>4 DEF Frames
  <2> QED
    BY <2>3, <2>5, <2>6
<1>3. AcceptedFramesCollected'
  BY <1>0, <1>2 DEF AcceptedFramesCollected
<1> QED
  BY <1>1, <1>3 DEF OutcomeFaithful

\* run() returns or throws.
LEMMA ReturnKeepsInv ==
    ASSUME IInv, Return
    PROVE  IInv'
<1> USE DEF shared, decoder, results
<1>0. /\ Places /\ DataOK /\ DecoderOrder /\ RunOrder /\ FailureOrder /\ Runner \in Threads
      /\ pc[Runner] = "join" /\ Goto(Runner, "over")
      /\ \A w \in Workers : pc[w] \in {"exit", "unborn"}
      /\ UNCHANGED <<frame, done, shared, stop, decoder, results>>
      /\ outcome' \in {"ok", "failed", "cancelled", "decode_failed"}
  BY PartsOfTypes DEF IInv, Return, Threads
<1>1. Step(Runner, "over")
  BY <1>0, GotoSteps
<1>2. "over" \in RunnerPlaces
  BY DEF RunnerPlaces
<1>3. /\ Places' /\ Bystanders /\ pc'[Runner] = "over" /\ AllStarted' = AllStarted
      /\ \A p \in Producers : pc'[p] \in {"idle", "ended"} <=> pc[p] \in {"idle", "ended"}
      /\ \A w \in Workers : pc'[w] \in {"exit", "unborn"} <=> pc[w] \in {"exit", "unborn"}
  BY <1>0, <1>1, <1>2, OutsideSteps
<1>4. DecoderOrder'
  BY <1>0, <1>3 DEF DecoderOrder
<1>5. RunOrder'
  BY <1>0, <1>3 DEF RunOrder
<1>6. Given
  BY <1>0 DEF Given, DataOK, FailureOrder
<1> QED
  BY <1>0, <1>3, <1>4, <1>5, <1>6, ReturnIsFaithful, BystandersKeepInv

\* Every step of run() keeps the invariant.
LEMMA RunKeepsInv ==
    ASSUME IInv, Run
    PROVE  IInv'
<1> USE DEF shared, decoder, results
<1>0. Places /\ DataOK /\ DecoderOrder /\ RunOrder /\ FailureOrder /\ Runner \in Threads
  BY PartsOfTypes DEF IInv, Threads
<1>1. CASE \E w \in Workers : Spawn(w)
  BY <1>1, SpawnKeepsInv
<1>2. CASE SpawnFails
  BY <1>2, SpawnFailsKeepsInv
<1>3. CASE FailStop(Runner)
  <2>1. Step(Runner, "fail_notify")
    BY <1>0, <1>3, GotoSteps DEF FailStop
  <2>2. failure_ /\ ~decoding_done_ /\ \A p \in Producers : pc[p] \in {"idle", "ended"}
    BY <1>0, <1>3 DEF FailStop, FailureOrder, DecoderOrder
  <2>3. Given
    BY <1>0, <1>3 DEF FailStop, Given, DataOK, FailureOrder
  <2> QED
    BY <1>3, <2>1, <2>2, <2>3, RunnerRests DEF FailStop
<1>4. CASE FailNotify(Runner, "join")
  <2>1. Step(Runner, "join")
    BY <1>0, <1>4, NotifyAllSteps DEF FailNotify
  <2>2. failure_ /\ \A p \in Producers : pc[p] \in {"idle", "ended"}
    BY <1>0, <1>4 DEF FailNotify, FailureOrder, DecoderOrder
  <2>3. Given
    BY <1>0, <1>4 DEF FailNotify, Given, DataOK, FailureOrder
  <2> QED
    BY <1>0, <1>4, <2>1, <2>2, <2>3, RunnerRests DEF FailNotify, DecoderOrder
<1>5. CASE DecodingDone
  <2>1. Step(Runner, "notify")
    BY <1>0, <1>5, GotoSteps DEF DecodingDone
  <2>2. decoding_done_' /\ AllStarted /\ \A p \in Producers : pc[p] \in {"idle", "ended"}
    BY <1>0, <1>5 DEF DecodingDone, RunOrder
  <2>3. /\ decode_failure' = (decode_failure \/ produced < MaxFrames)
        /\ UNCHANGED <<frame, done, failure_, stop, produced, results, outcome>>
    BY <1>5 DEF DecodingDone
  <2>4. decode_failure' \/ produced = MaxFrames
    <3>1. produced < MaxFrames \/ produced = MaxFrames
      BY <1>0 DEF DataOK
    <3> QED
      BY <2>3, <3>1
  <2>5. decode_failure' \in BOOLEAN /\ (decode_failure => decode_failure')
    BY <1>0, <2>3 DEF DataOK
  <2>6. Given
    <3>1. CASE stop
      BY <1>0, <1>5, <2>3, <2>5, <3>1 DEF DecodingDone, Given, DataOK, FailureOrder
    <3>2. CASE ~stop
      BY <1>0, <1>5, <2>3, <2>5, <3>2 DEF DecodingDone, Given, DataOK, FailureOrder
    <3> QED
      BY <1>0, <3>1, <3>2 DEF DataOK
  <2> QED
    BY <1>5, <2>1, <2>2, <2>3, <2>4, <2>6, RunnerRests DEF DecodingDone
<1>6. CASE RunnerNotify
  <2>1. Step(Runner, "join")
    BY <1>0, <1>6, NotifyAllSteps DEF RunnerNotify
  <2>2. /\ failure_ \/ (decoding_done_ /\ AllStarted)
        /\ \A p \in Producers : pc[p] \in {"idle", "ended"}
    BY <1>0, <1>6 DEF RunnerNotify, DecoderOrder, RunOrder
  <2>3. Given
    BY <1>0, <1>6 DEF RunnerNotify, Given, DataOK, FailureOrder
  <2> QED
    BY <1>0, <1>6, <2>1, <2>2, <2>3, RunnerRests DEF RunnerNotify, DecoderOrder
<1>7. CASE Return
  BY <1>7, ReturnKeepsInv
<1> QED
  BY <1>1, <1>2, <1>3, <1>4, <1>5, <1>6, <1>7 DEF Run

\* The client's stop request and its callback change nothing the invariant counts.
LEMMA CancellerKeepsInv ==
    ASSUME IInv, RequestStop \/ StopCallback
    PROVE  IInv'
<1> USE DEF shared, decoder, results
<1>0. /\ Places /\ DataOK /\ DecoderOrder /\ RunOrder /\ FailureOrder /\ OutcomeFaithful
      /\ Canceller \in Threads
  BY PartsOfTypes DEF IInv, Threads
<1>1. PICK state \in {"notify", "done"} : Step(Canceller, state)
  <2>1. CASE RequestStop
    BY <1>0, <2>1, GotoSteps DEF RequestStop
  <2>2. CASE StopCallback
    BY <1>0, <2>2, NotifyAllSteps DEF StopCallback
  <2> QED
    BY <2>1, <2>2
<1>2. /\ UNCHANGED <<frame, done, shared, decoder, results, outcome>>
      /\ stop' \in BOOLEAN /\ (stop => stop')
      /\ stop' = stop \/ outcome = "none"
  BY <1>0 DEF RequestStop, StopCallback, DataOK
<1>3. /\ Places' /\ Bystanders /\ pc'[Runner] = pc[Runner] /\ AllStarted' = AllStarted
      /\ \A p \in Producers : pc'[p] \in {"idle", "ended"} <=> pc[p] \in {"idle", "ended"}
      /\ \A p \in Producers : pc'[p] = "idle" <=> pc[p] = "idle"
      /\ \A w \in Workers : pc'[w] \in {"exit", "unborn"} <=> pc[w] \in {"exit", "unborn"}
  BY <1>0, <1>1, <1>2, OutsideSteps
<1>4. DecoderOrder'
  BY <1>0, <1>2, <1>3 DEF DecoderOrder
<1>5. RunOrder'
  BY <1>0, <1>2, <1>3 DEF RunOrder
<1>6. OutcomeFaithful'
  BY <1>0, <1>2 DEF OutcomeFaithful, AcceptedFramesCollected, FailureNotMasked
<1>7. Given
  BY <1>0, <1>2 DEF Given, DataOK, FailureOrder
<1> QED
  BY <1>0, <1>2, <1>3, <1>4, <1>5, <1>6, <1>7, BystandersKeepInv DEF FailureOrder, DataOK

-----------------------------------------------------------------------------

\* The invariant holds at first.
LEMMA InitIInv == Init => IInv
<1> SUFFICES ASSUME Init PROVE IInv
  OBVIOUS
<1>0. /\ pc = [t \in Threads |-> IF t \in Workers THEN "unborn"
                                 ELSE IF t \in Producers THEN "idle"
                                 ELSE IF t = Runner THEN "spawn" ELSE "idle"]
      /\ frame = [t \in Holders |-> NoFrame]
      /\ done = [w \in Workers |-> 0]
      /\ queue_ = <<>> /\ inflight_ = 0 /\ Len(queue_) = 0
      /\ decoding_done_ = FALSE /\ abort_ = FALSE /\ failure_ = FALSE
      /\ stop \in BOOLEAN /\ decode_failure = FALSE /\ produced = 0
      /\ completed_ = 0 /\ collected = {} /\ outcome = "none"
  BY DEF Init, Holders
<1>1. /\ \A w \in Workers : pc[w] = "unborn" /\ frame[w] = NoFrame /\ done[w] = 0
      /\ \A p \in Producers : pc[p] = "idle" /\ frame[p] = NoFrame
      /\ pc[Runner] = "spawn" /\ pc[Canceller] = "idle"
      /\ \A t \in Holders : frame[t] = NoFrame
  BY <1>0 DEF Threads, Holders
<1>2. Places
  BY <1>0, <1>1 DEF Places, ProducerPlaces, WorkerPlaces, RunnerPlaces
<1>3. FramesHeld
  BY <1>0, <1>1 DEF FramesHeld, HandsOK
<1>4. /\ Occupying = {} /\ Analyzing = {} /\ Pushing = {} /\ Analyzed = {}
      /\ Cardinality({}) = 0
  BY <1>1, FS_EmptySet DEF Occupying, Analyzing, Pushing, Analyzed
<1>5. SlotsCounted /\ FramesCounted /\ CompletedCollected
  BY <1>0, <1>4, CountsFinite DEF SlotsCounted, FramesCounted, CompletedCollected
<1>6. OnePlace /\ Everywhere
  BY <1>0, <1>1 DEF OnePlace, Everywhere
<1>7. FailureOrder /\ DecoderOrder /\ ExitOrder /\ RunOrder /\ OutcomeFaithful
  BY <1>0, <1>1 DEF FailureOrder, DecoderOrder, ExitOrder, RunOrder, OutcomeFaithful,
                    AcceptedFramesCollected, FailureNotMasked
<1>8. TypeOK
  <2>1. queue_ \in Seq(Frames)
    BY <1>0
  <2>2. frame \in [Holders -> Frames \cup {NoFrame}]
    BY <1>0
  <2>3. completed_ \in 0 .. MaxFrames /\ produced \in 0 .. MaxFrames /\ inflight_ \in Nat
    BY <1>0
  <2> QED
    BY <1>0, <1>2, <2>1, <2>2, <2>3
       DEF TypeOK, Places, Holders, ProducerPlaces, WorkerPlaces, RunnerPlaces
<1> QED
  BY <1>2, <1>3, <1>5, <1>6, <1>7, <1>8 DEF IInv

\* A step of somebody else keeps it.
LEMMA StutterKeepsInv ==
    ASSUME IInv, UNCHANGED vars
    PROVE  IInv'
<1> USE DEF vars, shared, decoder, results
<1>1. /\ Occupying' = Occupying /\ Analyzing' = Analyzing /\ Pushing' = Pushing
      /\ Analyzed' = Analyzed
  BY DEF Occupying, Analyzing, Pushing, Analyzed
<1>2. TypeOK' /\ Places' /\ FramesHeld'
  BY DEF IInv, TypeOK, Places, FramesHeld, HandsOK
<1>3. SlotsCounted' /\ FramesCounted' /\ CompletedCollected'
  BY <1>1 DEF IInv, SlotsCounted, FramesCounted, CompletedCollected, Concurrency
<1>4. OnePlace' /\ Everywhere'
  BY <1>1 DEF IInv, OnePlace, Everywhere, Queued, Held
<1>5. FailureOrder' /\ DecoderOrder' /\ ExitOrder' /\ RunOrder' /\ OutcomeFaithful'
  BY DEF IInv, FailureOrder, DecoderOrder, ExitOrder, RunOrder, AllStarted, OutcomeFaithful,
         AcceptedFramesCollected, FailureNotMasked
<1> QED
  BY <1>2, <1>3, <1>4, <1>5 DEF IInv

\* Every step of the pipeline keeps it.
LEMMA NextIInv == IInv /\ [Next]_vars => IInv'
<1> SUFFICES ASSUME IInv, [Next]_vars PROVE IInv'
  OBVIOUS
<1>1. CASE \E p \in Producers : Producer(p)
  BY <1>1, ProducerKeepsInv
<1>2. CASE \E w \in Workers : Worker(w)
  BY <1>2, WorkerKeepsInv
<1>3. CASE Run
  BY <1>3, RunKeepsInv
<1>4. CASE RequestStop \/ StopCallback
  BY <1>4, CancellerKeepsInv
<1>5. CASE UNCHANGED vars
  BY <1>5, StutterKeepsInv
<1> QED
  BY <1>1, <1>2, <1>3, <1>4, <1>5 DEF Next

\* So it always holds.
LEMMA IInvHolds == Spec => []IInv
  BY InitIInv, NextIInv, PTL DEF Spec

\* No more frames are queued or analysed than there are analysis workers, and the counter
\* that push() compares with the concurrency never falls below what it counts, through
\* every failure, stop and release (push(), worker_loop(), fail() and run() of the
\* pipeline), for any number of workers, decode sessions and frames.
THEOREM PipelineIsSafe == Spec => []PipelineInv
<1>1. ASSUME IInv PROVE PipelineInv
  <2>1. UnderAnalysis \subseteq Occupying
    BY DEF UnderAnalysis, Occupying
  <2>2. Cardinality(UnderAnalysis) <= Cardinality(Occupying)
    BY <2>1, CountsFinite, FS_Subset
  <2>3. TypeOK /\ SlotsCounted
    BY <1>1 DEF IInv
  <2>4. InflightBounded
    BY <2>2, <2>3, CountsFinite, Numbers DEF InflightBounded, SlotsCounted
  <2> QED
    BY <2>3, <2>4 DEF PipelineInv
<1> QED
  BY <1>1, IInvHolds, PTL

\* When run() returns, what it reports is what became of the frames: a job that ends
\* normally has collected every frame the decoder produced, one that falls back every
\* frame it accepted, and a worker's failure is reported as such although fail() itself
\* raises the stop; for any number of workers, decode sessions and frames.
THEOREM OutcomeFaithfulHolds == Spec => []OutcomeFaithful
<1>1. IInv => OutcomeFaithful
  BY DEF IInv
<1> QED
  BY <1>1, IInvHolds, PTL
-----------------------------------------------------------------------------
(* The implementation of PipelineContract.                                 *)

\* The image of a finite set is no larger.
LEMMA ImageBound ==
    ASSUME NEW S, IsFiniteSet(S), NEW f
    PROVE  IsFiniteSet({f[x] : x \in S}) /\ Cardinality({f[x] : x \in S}) <= Cardinality(S)
<1> DEFINE T == {f[x] : x \in S}
           g == [x \in S |-> f[x]]
<1>1. g \in Surjection(S, T)
  BY DEF Surjection
<1> HIDE DEF g, T
<1>2. IsFiniteSet(T) /\ Cardinality(T) <= Cardinality(S)
  BY <1>1, FS_Surjection
<1> QED
  BY <1>2 DEF T

\* The slots bound the frames that are queued or analysed.
LEMMA ContractBound ==
    ASSUME IInv
    PROVE  /\ IsFiniteSet(InQueue \cup AtWork)
           /\ Cardinality(InQueue \cup AtWork) \in Nat
           /\ Cardinality(InQueue \cup AtWork) <= inflight_
<1>0. TypeOK /\ SlotsCounted
  BY DEF IInv
<1>1. IsFiniteSet(InQueue) /\ Cardinality(InQueue) <= Len(queue_)
  <2>0. Len(queue_) \in Nat
    BY <1>0, TypeFacts
  <2>1. /\ IsFiniteSet(1 .. Len(queue_))
        /\ Cardinality(1 .. Len(queue_)) = IF 1 > Len(queue_) THEN 0 ELSE Len(queue_) - 1 + 1
    BY <2>0, FS_Interval, SMTT(20)
  <2>2. Cardinality(1 .. Len(queue_)) = Len(queue_)
    BY <2>0, <2>1
  <2> QED
    BY <2>1, <2>2, ImageBound DEF InQueue
<1>2. IsFiniteSet(AtWork) /\ Cardinality(AtWork) <= Cardinality(Occupying)
  <2>1. Analyzing \subseteq Occupying /\ Holding({"analyze"}) = Analyzing
    BY DEF Analyzing, Occupying, Holding
  <2>2. Cardinality(Analyzing) <= Cardinality(Occupying)
    BY <2>1, CountsFinite, FS_Subset
  <2>3. IsFiniteSet(AtWork) /\ Cardinality(AtWork) <= Cardinality(Analyzing)
    BY <2>1, CountsFinite, ImageBound DEF AtWork
  <2>4. Cardinality(AtWork) \in Nat
    BY <2>3, FS_CardinalityType
  <2> QED
    BY <2>2, <2>3, <2>4, CountsFinite
<1>3. /\ IsFiniteSet(InQueue \cup AtWork)
      /\ Cardinality(InQueue \cup AtWork)
            = Cardinality(InQueue) + Cardinality(AtWork) - Cardinality(InQueue \cap AtWork)
  BY <1>1, <1>2, FS_Union
<1>4. /\ Cardinality(InQueue) \in Nat /\ Cardinality(AtWork) \in Nat
      /\ Cardinality(InQueue \cap AtWork) \in Nat /\ Cardinality(InQueue \cup AtWork) \in Nat
  <2>1. IsFiniteSet(InQueue \cap AtWork)
    BY <1>1, FS_Subset
  <2> QED
    BY <1>1, <1>2, <1>3, <2>1, FS_CardinalityType
<1> QED
  BY <1>0, <1>1, <1>2, <1>3, <1>4, Numbers DEF SlotsCounted

\* The contract, part by part, before and after a step.
LEMMA ContractParts ==
    /\ contract = [original |-> [i \in Frames |-> i], left |-> Unpushed, queue |-> InQueue,
                   working |-> AtWork, analyzed |-> Uncollected, done |-> completed_,
                   decoder |-> DecoderState, failure |-> FailureState]
    /\ contract' = [original |-> [i \in Frames |-> i], left |-> Unpushed', queue |-> InQueue',
                    working |-> AtWork', analyzed |-> Uncollected', done |-> completed_',
                    decoder |-> DecoderState', failure |-> FailureState']
  BY DEF contract

IsFcn(f) == f = [x \in DOMAIN f |-> f[x]]
Fields == {"original", "left", "queue", "working", "analyzed", "done", "decoder", "failure"}

LEMMA ContractFields ==
    /\ IsFcn(contract) /\ DOMAIN contract = Fields
    /\ contract.original = [i \in Frames |-> i] /\ DOMAIN contract.original = Frames
    /\ contract.left = Unpushed /\ contract.queue = InQueue /\ contract.working = AtWork
    /\ contract.analyzed = Uncollected /\ contract.done = completed_
    /\ contract.decoder = DecoderState /\ contract.failure = FailureState
    /\ IsFcn(contract') /\ DOMAIN contract' = Fields
    /\ contract'.original = [i \in Frames |-> i]
    /\ contract'.left = Unpushed' /\ contract'.queue = InQueue' /\ contract'.working = AtWork'
    /\ contract'.analyzed = Uncollected' /\ contract'.done = completed_'
    /\ contract'.decoder = DecoderState' /\ contract'.failure = FailureState'
  BY DEF contract, IsFcn, Fields

\* It is the same record but for the fields that a step changes.
LEMMA ContractShape ==
    /\ IsFcn(contract) /\ IsFcn(contract')
    /\ DOMAIN contract = Fields /\ DOMAIN contract' = DOMAIN contract
  BY ContractFields

\* The contract counts as this module does.
LEMMA ContractCounts == \A S : Contract!Cardinality(S) = Cardinality(S)
  BY DEF Contract!Cardinality, Cardinality

\* What a worker holds and the job may see.
Visible == {"analyze", "release", "notify", "collect"}
Completed == {"release", "notify", "collect"}

\* A frame is seen at one place.
LEMMA SeenOnce ==
    ASSUME IInv
    PROVE  /\ \A w \in Holding(Visible) : frame[w] \in Frames
           /\ \A v, w \in Holding(Visible) : frame[v] = frame[w] => v = w
           /\ \A w \in Holding(Visible) : frame[w] \notin InQueue
           /\ InQueue \subseteq Frames
           /\ \A i \in InQueue : i \notin Unpushed
<1>0. /\ TypeOK /\ FramesHeld /\ OnePlace /\ DataOK
  BY PartsOfTypes DEF IInv
<1>1. \A w \in Holding(Visible) : w \in Holders /\ frame[w] # NoFrame
  BY <1>0 DEF Holding, Visible, Holders, FramesHeld, HandsOK
<1>2. \A w \in Holding(Visible) : frame[w] \in Frames
  BY <1>0, <1>1 DEF DataOK
<1>3. \A v, w \in Holding(Visible) : frame[v] = frame[w] => v = w
  BY <1>0, <1>1 DEF OnePlace
<1>4. \A w \in Holding(Visible) : frame[w] \notin InQueue
  BY <1>0, <1>1 DEF OnePlace, InQueue
<1>5. \A k \in 1 .. Len(queue_) : queue_[k] \in Frames
  BY <1>0 DEF DataOK
<1>6. ASSUME NEW i \in InQueue PROVE i \in Frames /\ i \notin Unpushed
  <2>1. PICK k \in 1 .. Len(queue_) : i = queue_[k]
    BY DEF InQueue
  <2>2. i \in Frames /\ i <= produced /\ \A p \in Producers : frame[p] # i
    BY <1>0, <1>5, <2>1 DEF OnePlace, Holders
  <2> QED
    BY <1>0, <2>2 DEF Unpushed, Frames, DataOK
<1> QED
  BY <1>2, <1>3, <1>4, <1>6

\* A step after which the workers hold and have completed what they did shows the job nothing.
LEMMA Unseen ==
    ASSUME \A w \in Workers : /\ pc'[w] = "analyze" <=> pc[w] = "analyze"
                              /\ pc'[w] \in Completed <=> pc[w] \in Completed
                              /\ pc[w] \in Visible => frame'[w] = frame[w] /\ done'[w] = done[w]
    PROVE  AtWork' = AtWork /\ Uncollected' = Uncollected
<1>1. /\ Holding({"analyze"})' = Holding({"analyze"})
      /\ Holding(Completed)' = Holding(Completed)
  BY DEF Holding, Completed
<1>2. \A w \in Holding({"analyze"}) : frame'[w] = frame[w]
  BY DEF Holding, Visible
<1>3. \A w \in Holding(Completed) : frame'[w] = frame[w] /\ done'[w] = done[w]
  BY DEF Holding, Visible, Completed
<1>4. AtWork' = AtWork
  BY <1>1, <1>2 DEF AtWork
<1>5. Uncollected' = Uncollected
  BY <1>1, <1>3 DEF Uncollected, Completed
<1> QED
  BY <1>4, <1>5

StopSeen == stop \/ failure_
Refines == [Contract!PipelineNext]_<<contract, StopSeen>>

\* So it is a stutter, if it also leaves the rest.
LEMMA Stutters ==
    ASSUME AtWork' = AtWork, Uncollected' = Uncollected, Unpushed' = Unpushed,
           DecoderState' = DecoderState, UNCHANGED <<queue_, completed_, failure_>>,
           StopSeen' = StopSeen
    PROVE  Refines
<1>1. InQueue' = InQueue
  BY DEF InQueue
<1>2. FailureState' = FailureState
  BY DEF FailureState
<1>3. contract' = contract
  BY <1>1, <1>2, ContractParts
<1> QED
  BY <1>3 DEF Refines

\* Threads that go elsewhere leave the runner where it is, and the others but to wake.
LEMMA StepElsewhere ==
    ASSUME Places, NEW t \in Holders, NEW state, Step(t, state)
    PROVE  /\ pc'[Runner] = pc[Runner] /\ pc'[t] = state
           /\ \A w \in Workers \ {t} : \/ pc'[w] = pc[w]
                                       \/ pc[w] = "waiting" /\ pc'[w] = "check"
<1>1. t \in Threads /\ Runner \in Threads \ {t} /\ pc[Runner] # "waiting"
  BY DEF Holders, Threads, Places, RunnerPlaces
<1> QED
  BY <1>1 DEF Step, Threads

\* A producer that holds back its frame, gets one or ends shows the job nothing.
LEMMA ProducerUnseen ==
    ASSUME IInv, NEW p \in Producers, NEW state, Step(p, state),
           Unpushed' = Unpushed,
           \A w \in Workers : frame'[w] = frame[w],
           decode_failure' = decode_failure \/ pc[p] \notin {"idle", "ended"},
           UNCHANGED <<done, queue_, completed_, failure_, stop>>
    PROVE  Refines
<1>0. Places /\ DecoderOrder /\ p \in Holders /\ p \notin Workers
  BY DEF IInv, Holders
<1>1. /\ pc'[Runner] = pc[Runner]
      /\ \A w \in Workers : pc'[w] = pc[w] \/ (pc[w] = "waiting" /\ pc'[w] = "check")
  BY <1>0, StepElsewhere
<1>2. AtWork' = AtWork /\ Uncollected' = Uncollected
  BY <1>1, Unseen DEF Completed, Visible
<1>3. DecoderState' = DecoderState
  BY <1>0, <1>1 DEF DecoderState, DecoderOrder
<1> QED
  BY <1>2, <1>3, Stutters DEF StopSeen

\* The decoder's next frame is with its session.
LEMMA ProduceUnseen ==
    ASSUME IInv, NEW p \in Producers, pc[p] = "decode",
           ~stop /\ ~decode_failure /\ produced < MaxFrames,
           frame' = [frame EXCEPT ![p] = produced'],
           produced' = produced + 1,
           Goto(p, "check"),
           UNCHANGED <<done, decode_failure, shared, stop, results, outcome>>
    PROVE  Refines
<1>0. TypeOK /\ DataOK /\ Places /\ FramesHeld /\ p \in Threads /\ p \in Holders /\ p \notin Workers
  BY PartsOfTypes DEF IInv, Threads, Holders
<1>1. Step(p, "check")
  BY <1>0, GotoSteps
<1>2. /\ frame'[p] = produced + 1 /\ frame[p] = NoFrame
      /\ \A t \in Holders \ {p} : frame'[t] = frame[t]
  BY <1>0 DEF DataOK, FramesHeld
<1>3. \A i \in Frames : i > produced' \/ i = produced + 1 <=> i > produced
  BY <1>0 DEF Frames, DataOK
<1>4. \A i \in Frames : i # NoFrame
  BY DEF Frames, NoFrame
<1>5. Unpushed' = Unpushed
  <2>1. ASSUME NEW i \in Frames
        PROVE  (i > produced' \/ \E q \in Producers : frame'[q] = i)
                  <=> (i > produced \/ \E q \in Producers : frame[q] = i)
    <3>1. (\E q \in Producers : frame'[q] = i)
             <=> (i = produced + 1 \/ \E q \in Producers : frame[q] = i)
      BY <1>2, <1>4 DEF Holders
    <3> QED
      BY <1>3, <3>1
  <2> QED
    BY <2>1 DEF Unpushed
<1>6. \A w \in Workers : frame'[w] = frame[w]
  BY <1>0, <1>2 DEF Holders
<1> QED
  BY <1>1, <1>5, <1>6, ProducerUnseen DEF shared, results

\* A frame is pushed.
LEMMA PushRefines ==
    ASSUME IInv, NEW p \in Producers, pc[p] = "check", HasRoom,
           queue_' = Append(queue_, frame[p]),
           inflight_' = inflight_ + 1,
           frame' = [frame EXCEPT ![p] = NoFrame],
           Goto(p, "notify"),
           ~failure_, ~abort_, ~stop,
           UNCHANGED <<done, decoding_done_, abort_, failure_, stop, decoder, results, outcome>>
    PROVE  Refines
<1>0. /\ TypeOK /\ DataOK /\ Places /\ FramesHeld /\ OnePlace /\ DecoderOrder
      /\ p \in Threads /\ p \in Holders /\ p \notin Workers
  BY PartsOfTypes DEF IInv, Threads, Holders
<1>1. Step(p, "notify")
  BY <1>0, GotoSteps
<1>2. PICK i \in Frames : i = frame[p]
  BY <1>0 DEF DataOK, FramesHeld
<1>3. /\ frame'[p] = NoFrame /\ \A t \in Holders \ {p} : frame'[t] = frame[t] /\ frame[t] # i
      /\ \A j \in Frames : j # NoFrame
      /\ i <= produced
  BY <1>0, <1>2 DEF DataOK, FramesHeld, OnePlace, Frames, NoFrame
<1>4. Unpushed' = Unpushed \ {i} /\ i \in Unpushed
  <2>1. \A j \in Frames : (\E q \in Producers : frame'[q] = j)
                             <=> (j # i /\ \E q \in Producers : frame[q] = j)
    BY <1>2, <1>3 DEF Holders
  <2>2. ~(i > produced)
    BY <1>0, <1>3 DEF DataOK, Frames
  <2>3. produced' = produced
    BY DEF decoder
  <2>4. Unpushed' = Unpushed \ {i}
    BY <2>1, <2>2, <2>3 DEF Unpushed
  <2> QED
    BY <1>2, <2>4 DEF Unpushed
<1>5. InQueue' = InQueue \cup {i}
  <2>1. /\ Len(queue_') = Len(queue_) + 1
        /\ queue_'[Len(queue_) + 1] = i
        /\ \A k \in 1 .. Len(queue_) : queue_'[k] = queue_[k]
        /\ 1 .. Len(queue_') = (1 .. Len(queue_)) \cup {Len(queue_) + 1}
    BY <1>0, <1>2 DEF DataOK
  <2> QED
    BY <2>1 DEF InQueue
<1>6. AtWork' = AtWork /\ Uncollected' = Uncollected /\ pc'[Runner] = pc[Runner]
  <2>1. /\ pc'[Runner] = pc[Runner]
        /\ \A w \in Workers : pc'[w] = pc[w] \/ (pc[w] = "waiting" /\ pc'[w] = "check")
    BY <1>0, <1>1, StepElsewhere
  <2>2. \A w \in Workers : frame'[w] = frame[w] /\ done'[w] = done[w]
    BY <1>0, <1>3 DEF Holders
  <2> QED
    BY <2>1, <2>2, Unseen DEF Completed, Visible
<1>7. pc[Runner] \in {"spawn", "decoding"}
  BY <1>0 DEF DecoderOrder
<1>8. DecoderState = "running" /\ DecoderState' = "running"
  BY <1>6, <1>7 DEF DecoderState
<1>9. Contract!Cardinality(InQueue \cup AtWork) < Concurrency
  BY <1>0, ContractBound, ContractCounts, Numbers DEF HasRoom
<1>10. completed_' = completed_
  BY DEF results
<1>11. Contract!PushFrame(i)
  <2>1. ~Contract!Stopped
    BY ContractFields DEF Contract!Stopped, FailureState
  <2>2. contract' = [contract EXCEPT !.left = contract.left \ {i}, !.queue = contract.queue \cup {i}]
    <3>1. FailureState' = FailureState /\ DecoderState' = DecoderState
      BY <1>8 DEF FailureState
    <3>2. /\ contract'["left"] = contract.left \ {i}
          /\ contract'["queue"] = contract.queue \cup {i}
          /\ \A z \in DOMAIN contract \ {"left", "queue"} : contract'[z] = contract[z]
      BY <1>4, <1>5, <1>6, <1>10, <3>1, ContractFields DEF Fields
    <3> QED
      BY <3>2, ContractShape DEF IsFcn
  <2>3. (stop \/ failure_)' = (stop \/ failure_)
    OBVIOUS
  <2> QED
    BY <1>4, <1>8, <1>9, <2>1, <2>2, <2>3, ContractFields DEF Contract!PushFrame
<1>12. i \in DOMAIN contract.original
  BY ContractFields
<1> QED
  BY <1>11, <1>12 DEF Refines, Contract!PipelineNext, Contract!FrameMoves

\* Every step of a producer is one of the contract, or shows the job nothing.
LEMMA ProducerRefines ==
    ASSUME IInv, NEW p \in Producers, Producer(p)
    PROVE  Refines
<1>0. Places /\ p \in Threads /\ DataOK
  BY PartsOfTypes DEF IInv, Threads
<1> USE DEF shared, results, decoder
<1>1. CASE DecodeNext(p)
  <2>1. CASE /\ decode_failure' \in {decode_failure \/ stop, TRUE}
             /\ Goto(p, "ended")
             /\ UNCHANGED <<frame, produced>>
    <3>1. Step(p, "ended") /\ Unpushed' = Unpushed
      BY <1>0, <2>1, GotoSteps DEF Unpushed
    <3> QED
      BY <1>0, <1>1, <2>1, <3>1, ProducerUnseen DEF DecodeNext, DataOK
  <2> QED
    BY <1>1, <2>1, ProduceUnseen DEF DecodeNext
<1>2. CASE PushCheck(p)
  <2>1. CASE Goto(p, "block") /\ UNCHANGED <<frame, queue_, inflight_, decode_failure>>
    <3>1. Step(p, "block") /\ Unpushed' = Unpushed
      BY <1>0, <1>2, <2>1, GotoSteps DEF Unpushed, PushCheck
    <3> QED
      BY <1>0, <1>2, <2>1, <3>1, ProducerUnseen DEF PushCheck, DataOK
  <2>2. CASE /\ decode_failure' = TRUE
             /\ Goto(p, "ended")
             /\ UNCHANGED <<frame, queue_, inflight_>>
    <3>1. Step(p, "ended") /\ Unpushed' = Unpushed
      BY <1>0, <1>2, <2>2, GotoSteps DEF Unpushed, PushCheck
    <3> QED
      BY <1>0, <1>2, <2>2, <3>1, ProducerUnseen DEF PushCheck, DataOK
  <2>3. CASE /\ ~failure_ /\ ~abort_ /\ ~stop /\ HasRoom
             /\ queue_' = Append(queue_, frame[p])
             /\ inflight_' = inflight_ + 1
             /\ frame' = [frame EXCEPT ![p] = NoFrame]
             /\ Goto(p, "notify")
             /\ UNCHANGED decode_failure
    BY <1>2, <2>3, PushRefines DEF PushCheck
  <2> QED
    BY <1>2, <2>1, <2>2, <2>3 DEF PushCheck
<1>3. CASE PushNotify(p)
  <2>1. Step(p, "decode") /\ Unpushed' = Unpushed
    BY <1>0, <1>3, NotifyOneSteps DEF PushNotify, Unpushed
  <2> QED
    BY <1>0, <1>3, <2>1, ProducerUnseen DEF PushNotify, DataOK
<1>4. CASE Block(p)
  <2>1. Step(p, "waiting") /\ Unpushed' = Unpushed
    BY <1>0, <1>4, GotoSteps DEF Block, Unpushed
  <2> QED
    BY <1>0, <1>4, <2>1, ProducerUnseen DEF Block, DataOK
<1> QED
  BY <1>1, <1>2, <1>3, <1>4 DEF Producer

\* What no step of a worker changes.
WorkerLeaves == UNCHANGED <<produced, decode_failure>> /\ \A p \in Producers : frame'[p] = frame[p]
LEMMA WorkerFrame ==
    ASSUME IInv, NEW w \in Workers, NEW state, Step(w, state), WorkerLeaves
    PROVE  /\ Unpushed' = Unpushed /\ DecoderState' = DecoderState
           /\ pc'[Runner] = pc[Runner] /\ pc'[w] = state
           /\ \A v \in Workers \ {w} : \/ pc'[v] = pc[v]
                                       \/ pc[v] = "waiting" /\ pc'[v] = "check"
<1>1. /\ pc'[Runner] = pc[Runner] /\ pc'[w] = state
      /\ \A v \in Workers \ {w} : \/ pc'[v] = pc[v]
                                  \/ pc[v] = "waiting" /\ pc'[v] = "check"
  BY StepElsewhere DEF IInv, Holders
<1>2. Unpushed' = Unpushed
  BY DEF Unpushed, WorkerLeaves
<1>3. DecoderState' = DecoderState
  BY <1>1 DEF DecoderState, WorkerLeaves
<1> QED
  BY <1>1, <1>2, <1>3

\* A worker that waits, leaves, releases its slot or handles a failure shows the job nothing.
LEMMA WorkerUnseen ==
    ASSUME IInv, NEW w \in Workers, NEW state, Step(w, state),
           pc[w] = "analyze" <=> state = "analyze",
           pc[w] \in Completed <=> state \in Completed,
           StopSeen' = StopSeen,
           UNCHANGED <<frame, done, queue_, completed_, failure_, produced, decode_failure>>
    PROVE  Refines
<1>1. /\ Unpushed' = Unpushed /\ DecoderState' = DecoderState
      /\ pc'[w] = state
      /\ \A v \in Workers \ {w} : \/ pc'[v] = pc[v]
                                  \/ pc[v] = "waiting" /\ pc'[v] = "check"
  BY WorkerFrame DEF WorkerLeaves
<1>2. AtWork' = AtWork /\ Uncollected' = Uncollected
  BY <1>1, Unseen DEF Completed
<1> QED
  BY <1>1, <1>2, Stutters

\* A worker takes the frame at the front of the queue.
LEMMA TakeRefines ==
    ASSUME IInv, NEW w \in Workers, pc[w] = "check", queue_ # <<>>, ~abort_, ~stop,
           frame' = [frame EXCEPT ![w] = Head(queue_)],
           queue_' = Tail(queue_),
           Goto(w, "analyze"),
           UNCHANGED <<done, inflight_, decoding_done_, abort_, failure_, stop, decoder, results,
                       outcome>>
    PROVE  Refines
<1> USE DEF decoder, results
<1>0. /\ TypeOK /\ DataOK /\ Places /\ FramesHeld /\ OnePlace /\ FailureOrder
      /\ w \in Threads /\ w \in Holders /\ w \notin Producers
  BY PartsOfTypes DEF IInv, Threads, Holders
<1>1. Step(w, "analyze")
  BY <1>0, GotoSteps
<1>2. /\ 1 \in 1 .. Len(queue_) /\ Head(queue_) = queue_[1]
      /\ Len(queue_') = Len(queue_) - 1
      /\ \A k \in 1 .. Len(queue_') : k + 1 \in 1 .. Len(queue_) /\ queue_'[k] = queue_[k + 1]
      /\ \A k \in 1 .. Len(queue_) : k = 1 \/ (k - 1 \in 1 .. Len(queue_') /\ queue_'[k - 1] = queue_[k])
  BY <1>0 DEF DataOK
<1>3. PICK i : i = queue_[1]
  OBVIOUS
<1>4. InQueue' = InQueue \ {i} /\ i \in InQueue /\ i \in Frames
  <2>1. i \in InQueue /\ i \in Frames
    BY <1>0, <1>2, <1>3 DEF InQueue, DataOK
  <2>2. \A k \in 1 .. Len(queue_) : queue_[k] = i => k = 1
    BY <1>0, <1>2, <1>3 DEF OnePlace
  <2>3. ASSUME NEW j \in InQueue' PROVE j \in InQueue \ {i}
    <3>1. PICK k \in 1 .. Len(queue_') : j = queue_'[k]
      BY <2>3 DEF InQueue
    <3>2. k + 1 \in 1 .. Len(queue_) /\ j = queue_[k + 1] /\ k + 1 # 1
      BY <1>2, <3>1
    <3> QED
      BY <2>2, <3>2 DEF InQueue
  <2>4. ASSUME NEW j \in InQueue \ {i} PROVE j \in InQueue'
    <3>1. PICK k \in 1 .. Len(queue_) : j = queue_[k]
      BY DEF InQueue
    <3>2. k # 1
      BY <1>3, <3>1
    <3>3. k - 1 \in 1 .. Len(queue_') /\ queue_'[k - 1] = j
      BY <1>2, <3>1, <3>2
    <3> QED
      BY <3>3 DEF InQueue
  <2> QED
    BY <2>1, <2>3, <2>4
<1>5. /\ \A t \in Holders \ {w} : frame'[t] = frame[t]
      /\ frame'[w] = i
  BY <1>0, <1>2, <1>3 DEF DataOK
<1>6. /\ Unpushed' = Unpushed /\ DecoderState' = DecoderState
      /\ pc'[w] = "analyze"
      /\ \A v \in Workers \ {w} : pc'[v] = pc[v] \/ (pc[v] = "waiting" /\ pc'[v] = "check")
  <2>1. WorkerLeaves
    BY <1>0, <1>5 DEF WorkerLeaves, Holders
  <2> QED
    BY <1>1, <2>1, WorkerFrame
<1>7. AtWork' = AtWork \cup {i}
  <2>1. Holding({"analyze"})' = Holding({"analyze"}) \cup {w} /\ w \notin Holding({"analyze"})
    BY <1>6 DEF Holding
  <2>2. \A v \in Holding({"analyze"}) : frame'[v] = frame[v]
    BY <1>5, <2>1 DEF Holding, Holders
  <2> QED
    BY <1>5, <2>1, <2>2 DEF AtWork
<1>8. Uncollected' = Uncollected
  <2>1. Holding(Completed)' = Holding(Completed) /\ w \notin Holding(Completed)
    BY <1>6 DEF Holding, Completed
  <2>2. \A v \in Holding(Completed) : frame'[v] = frame[v] /\ done'[v] = done[v]
    BY <1>5, <2>1 DEF Holding, Holders
  <2> QED
    BY <2>1, <2>2 DEF Uncollected, Completed
<1>9. ~failure_
  BY <1>0 DEF FailureOrder
<1>10. contract' = [contract EXCEPT !.queue = contract.queue \ {i},
                                    !.working = contract.working \cup {i}]
  <2>1. FailureState' = FailureState
    BY DEF FailureState
  <2>2. /\ contract'["queue"] = contract.queue \ {i}
        /\ contract'["working"] = contract.working \cup {i}
        /\ \A z \in DOMAIN contract \ {"queue", "working"} : contract'[z] = contract[z]
    BY <1>4, <1>6, <1>7, <1>8, <2>1, ContractFields DEF Fields
  <2> QED
    BY <2>2, ContractShape DEF IsFcn
<1>11. Contract!TakeFrame(i)
  <2>1. ~Contract!Stopped
    BY <1>9, ContractFields DEF Contract!Stopped, FailureState
  <2>2. (stop \/ failure_)' = (stop \/ failure_)
    OBVIOUS
  <2> QED
    BY <1>4, <1>10, <2>1, <2>2, ContractFields DEF Contract!TakeFrame
<1> QED
  BY <1>4, <1>11, ContractFields DEF Refines, Contract!PipelineNext, Contract!FrameMoves

\* A frame that leaves the analyzer, and a result that leaves its worker.
LEMMA LeavesWork ==
    ASSUME IInv, NEW w \in Workers, pc[w] = "analyze", NEW state, Step(w, state),
           state \notin {"analyze"}, \A v \in Workers : frame'[v] = frame[v]
    PROVE  frame[w] \in AtWork /\ AtWork' = AtWork \ {frame[w]} /\ frame[w] \in Frames
<1>1. /\ pc'[w] = state
      /\ \A v \in Workers \ {w} : pc'[v] = pc[v] \/ (pc[v] = "waiting" /\ pc'[v] = "check")
  BY StepElsewhere DEF IInv, Holders
<1>2. Holding({"analyze"})' = Holding({"analyze"}) \ {w} /\ w \in Holding({"analyze"})
  BY <1>1 DEF Holding
<1>3. /\ \A v \in Holding({"analyze"}) : frame[v] = frame[w] => v = w
      /\ frame[w] \in Frames
  BY <1>2, SeenOnce DEF Holding, Visible
<1>4. \A v \in Holding({"analyze"}) : frame'[v] = frame[v]
  BY DEF Holding
<1> QED
  BY <1>2, <1>3, <1>4 DEF AtWork
Result(w) == [frame |-> frame[w], done |-> done[w]]
LEMMA LeavesCompleted ==
    ASSUME IInv, NEW w \in Workers, pc[w] \in Completed, NEW state, Step(w, state),
           state \notin Completed,
           \A v \in Workers \ {w} : frame'[v] = frame[v] /\ done'[v] = done[v]
    PROVE  Result(w) \in Uncollected /\ Uncollected' = Uncollected \ {Result(w)}
<1>1. /\ pc'[w] = state
      /\ \A v \in Workers \ {w} : pc'[v] = pc[v] \/ (pc[v] = "waiting" /\ pc'[v] = "check")
  BY StepElsewhere DEF IInv, Holders
<1>2. Holding(Completed)' = Holding(Completed) \ {w} /\ w \in Holding(Completed)
  BY <1>1 DEF Holding, Completed
<1>3. \A v \in Holding(Completed) : frame[v] = frame[w] => v = w
  BY <1>2, SeenOnce DEF Holding, Visible, Completed
<1>4. \A v \in Holding(Completed) : Result(v) = Result(w) => v = w
  BY <1>3 DEF Result
<1>5. \A v \in Holding(Completed) \ {w} : [frame |-> frame'[v], done |-> done'[v]] = Result(v)
  BY DEF Holding, Result
<1>6. /\ Uncollected = {Result(v) : v \in Holding(Completed)}
      /\ Uncollected' = {[frame |-> frame'[v], done |-> done'[v]] : v \in Holding(Completed)'}
  BY DEF Uncollected, Completed, Result
<1> QED
  BY <1>2, <1>4, <1>5, <1>6

\* A frame's analysis is finished.
LEMMA FinishRefines ==
    ASSUME IInv, NEW w \in Workers, Analyze(w)
    PROVE  Refines
<1> USE DEF shared, decoder
<1>0. /\ TypeOK /\ DataOK /\ Places /\ w \in Threads /\ w \in Holders
      /\ pc[w] = "analyze" /\ UNCHANGED <<frame, queue_, failure_, stop, produced, decode_failure>>
      /\ completed_' = completed_ + 1 /\ done' = [done EXCEPT ![w] = completed_']
  BY PartsOfTypes DEF IInv, Threads, Holders, Analyze
<1>1. Step(w, "release")
  BY <1>0, GotoSteps DEF Analyze
<1>2. /\ Unpushed' = Unpushed /\ DecoderState' = DecoderState /\ pc'[w] = "release"
      /\ \A v \in Workers \ {w} : pc'[v] = pc[v] \/ (pc[v] = "waiting" /\ pc'[v] = "check")
  BY <1>0, <1>1, WorkerFrame DEF WorkerLeaves
<1>3. PICK i : i = frame[w]
  OBVIOUS
<1>4. i \in AtWork /\ AtWork' = AtWork \ {i} /\ i \in Frames
  BY <1>0, <1>1, <1>3, LeavesWork
<1>5. Uncollected' = Uncollected \cup {[frame |-> i, done |-> completed_ + 1]}
  <2>1. Holding(Completed)' = Holding(Completed) \cup {w} /\ w \notin Holding(Completed)
    BY <1>0, <1>2 DEF Holding, Completed
  <2>2. /\ \A v \in Holding(Completed) : frame'[v] = frame[v] /\ done'[v] = done[v]
        /\ frame'[w] = i /\ done'[w] = completed_ + 1
    BY <1>0, <1>3, <2>1 DEF Holding, DataOK
  <2>3. /\ Uncollected = {[frame |-> frame[v], done |-> done[v]] : v \in Holding(Completed)}
        /\ Uncollected' = {[frame |-> frame'[v], done |-> done'[v]] : v \in Holding(Completed)'}
    BY DEF Uncollected, Completed
  <2> QED
    BY <2>1, <2>2, <2>3
<1>6. InQueue' = InQueue /\ FailureState' = FailureState
  BY <1>0 DEF InQueue, FailureState
<1>7. contract' = [contract EXCEPT
                      !.working = contract.working \ {i}, !.done = contract.done + 1,
                      !.analyzed = contract.analyzed
                                      \cup {[frame |-> i, done |-> contract.done + 1]}]
  <2>1. /\ contract'["working"] = contract.working \ {i}
        /\ contract'["done"] = contract.done + 1
        /\ contract'["analyzed"] = contract.analyzed
                                      \cup {[frame |-> i, done |-> contract.done + 1]}
        /\ \A z \in DOMAIN contract \ {"working", "done", "analyzed"} :
              contract'[z] = contract[z]
    BY <1>0, <1>2, <1>4, <1>5, <1>6, ContractFields DEF Fields
  <2> QED
    BY <2>1, ContractShape DEF IsFcn
<1>8. Contract!FinishFrame(i)
  <2>1. (stop \/ failure_)' = (stop \/ failure_)
    BY <1>0
  <2> QED
    BY <1>4, <1>7, <2>1, ContractFields DEF Contract!FinishFrame
<1> QED
  BY <1>4, <1>8, ContractFields DEF Refines, Contract!PipelineNext, Contract!FrameMoves

\* A result is collected.
LEMMA CollectRefines ==
    ASSUME IInv, NEW w \in Workers, Collect(w)
    PROVE  Refines
<1> USE DEF shared, decoder
<1>0. /\ TypeOK /\ DataOK /\ Places /\ w \in Threads /\ w \in Holders /\ w \notin Producers
      /\ pc[w] = "collect"
      /\ UNCHANGED <<queue_, failure_, stop, produced, decode_failure, completed_>>
      /\ \A t \in Holders \ {w} : frame'[t] = frame[t]
      /\ \A v \in Workers \ {w} : done'[v] = done[v]
  BY PartsOfTypes DEF IInv, Threads, Holders, Collect, DataOK
<1>1. Step(w, "check")
  BY <1>0, GotoSteps DEF Collect
<1>2. /\ Unpushed' = Unpushed /\ DecoderState' = DecoderState /\ pc'[w] = "check"
      /\ \A v \in Workers \ {w} : pc'[v] = pc[v] \/ (pc[v] = "waiting" /\ pc'[v] = "check")
  <2>1. WorkerLeaves
    BY <1>0 DEF WorkerLeaves, Holders
  <2> QED
    BY <1>0, <1>1, <2>1, WorkerFrame
<1>3. PICK a : a = Result(w)
  OBVIOUS
<1>4. a \in Uncollected /\ Uncollected' = Uncollected \ {a}
  BY <1>0, <1>1, <1>3, LeavesCompleted DEF Completed, Holders
<1>5. AtWork' = AtWork
  <2>1. Holding({"analyze"})' = Holding({"analyze"}) /\ w \notin Holding({"analyze"})
    BY <1>0, <1>2 DEF Holding
  <2>2. \A v \in Holding({"analyze"}) : frame'[v] = frame[v]
    BY <1>0, <2>1 DEF Holding, Holders
  <2> QED
    BY <2>1, <2>2 DEF AtWork
<1>6. InQueue' = InQueue /\ FailureState' = FailureState
  BY <1>0 DEF InQueue, FailureState
<1>7. contract' = [contract EXCEPT !.analyzed = contract.analyzed \ {a}]
  <2>1. /\ contract'["analyzed"] = contract.analyzed \ {a}
        /\ \A z \in DOMAIN contract \ {"analyzed"} : contract'[z] = contract[z]
    BY <1>0, <1>2, <1>4, <1>5, <1>6, ContractFields DEF Fields
  <2> QED
    BY <2>1, ContractShape DEF IsFcn
<1>8. Contract!CollectFrame(a)
  <2>1. (stop \/ failure_)' = (stop \/ failure_)
    BY <1>0
  <2> QED
    BY <1>4, <1>7, <2>1, ContractFields DEF Contract!CollectFrame
<1> QED
  BY <1>4, <1>8, ContractFields DEF Refines, Contract!PipelineNext, Contract!ResultMoves

\* The analyzer or the collector throws.
LEMMA ThrowsRefines ==
    ASSUME IInv, NEW w \in Workers, Throws(w)
    PROVE  Refines
<1> USE DEF shared, decoder, results
<1>0. /\ TypeOK /\ DataOK /\ Places /\ w \in Threads /\ w \in Holders
      /\ queue_' = <<>> /\ failure_' = TRUE /\ Goto(w, "fail_stop")
      /\ UNCHANGED <<frame, done, stop, produced, decode_failure, completed_>>
  BY PartsOfTypes DEF IInv, Threads, Holders, Throws, Fail
<1>1. Step(w, "fail_stop")
  BY <1>0, GotoSteps
<1>2. /\ Unpushed' = Unpushed /\ DecoderState' = DecoderState /\ pc'[w] = "fail_stop"
      /\ \A v \in Workers \ {w} : pc'[v] = pc[v] \/ (pc[v] = "waiting" /\ pc'[v] = "check")
  BY <1>0, <1>1, WorkerFrame DEF WorkerLeaves
<1>3. /\ InQueue' = {} /\ FailureState' = "std"
      /\ Contract!Failed("std") = "std"
  <2>1. 1 .. Len(queue_') = {}
    BY <1>0
  <2>2. contract.failure \in {"none", "std"}
    BY ContractFields DEF FailureState
  <2> QED
    BY <1>0, <2>1, <2>2 DEF InQueue, FailureState, Contract!Failed
<1>4. (stop \/ failure_)' = TRUE
  BY <1>0
<1>5. CASE pc[w] = "analyze"
  <2>1. PICK i : i = frame[w]
    OBVIOUS
  <2>2. i \in AtWork /\ AtWork' = AtWork \ {i} /\ i \in Frames
    BY <1>0, <1>1, <1>5, <2>1, LeavesWork
  <2>3. Uncollected' = Uncollected
    <3>1. Holding(Completed)' = Holding(Completed)
      BY <1>2, <1>5 DEF Holding, Completed
    <3> QED
      BY <1>0, <3>1 DEF Uncollected, Completed
  <2>4. contract' = [contract EXCEPT !.working = contract.working \ {i}, !.queue = {},
                                     !.failure = Contract!Failed("std")]
    <3>1. /\ contract'["working"] = contract.working \ {i} /\ contract'["queue"] = {}
          /\ contract'["failure"] = Contract!Failed("std")
          /\ \A z \in DOMAIN contract \ {"working", "queue", "failure"} :
                contract'[z] = contract[z]
      BY <1>0, <1>2, <1>3, <2>2, <2>3, ContractFields DEF Fields
    <3> QED
      BY <3>1, ContractShape DEF IsFcn
  <2>5. Contract!FailFrame(i, "std")
    BY <1>4, <2>2, <2>4, ContractFields DEF Contract!FailFrame
  <2>6. Contract!FrameMoves(i)
    BY <2>5 DEF Contract!FrameMoves, Contract!Errors
  <2> QED
    BY <2>2, <2>6, ContractFields DEF Refines, Contract!PipelineNext
<1>6. CASE pc[w] = "collect"
  <2>1. PICK a : a = Result(w)
    OBVIOUS
  <2>2. a \in Uncollected /\ Uncollected' = Uncollected \ {a}
    BY <1>0, <1>1, <1>6, <2>1, LeavesCompleted DEF Completed
  <2>3. AtWork' = AtWork
    <3>1. Holding({"analyze"})' = Holding({"analyze"})
      BY <1>2, <1>6 DEF Holding
    <3> QED
      BY <1>0, <3>1 DEF AtWork
  <2>4. contract' = [contract EXCEPT !.analyzed = contract.analyzed \ {a}, !.queue = {},
                                     !.failure = Contract!Failed("std")]
    <3>1. /\ contract'["analyzed"] = contract.analyzed \ {a} /\ contract'["queue"] = {}
          /\ contract'["failure"] = Contract!Failed("std")
          /\ \A z \in DOMAIN contract \ {"analyzed", "queue", "failure"} :
                contract'[z] = contract[z]
      BY <1>0, <1>2, <1>3, <2>2, <2>3, ContractFields DEF Fields
    <3> QED
      BY <3>1, ContractShape DEF IsFcn
  <2>5. Contract!FailCollect(a, "std")
    BY <1>4, <2>2, <2>4, ContractFields DEF Contract!FailCollect
  <2>6. Contract!ResultMoves(a)
    BY <2>5 DEF Contract!ResultMoves, Contract!Errors
  <2> QED
    BY <2>2, <2>6, ContractFields DEF Refines, Contract!PipelineNext
<1> QED
  BY <1>5, <1>6 DEF Throws

\* Every step of a worker is one of the contract, or shows the job nothing.
LEMMA WorkerRefines ==
    ASSUME IInv, NEW w \in Workers, Worker(w)
    PROVE  Refines
<1>0. Places /\ w \in Threads /\ FailureOrder
  BY DEF IInv, Threads
<1> USE DEF shared, results, decoder, StopSeen, Completed
<1>1. CASE WorkerCheck(w)
  <2>1. CASE Goto(w, "block") /\ UNCHANGED <<frame, queue_>>
    BY <1>0, <1>1, <2>1, GotoSteps, WorkerUnseen DEF WorkerCheck
  <2>2. CASE Goto(w, "exit") /\ UNCHANGED <<frame, queue_>>
    BY <1>0, <1>1, <2>2, GotoSteps, WorkerUnseen DEF WorkerCheck
  <2>3. CASE /\ ~abort_ /\ ~stop
             /\ queue_ # <<>>
             /\ frame' = [frame EXCEPT ![w] = Head(queue_)]
             /\ queue_' = Tail(queue_)
             /\ Goto(w, "analyze")
    BY <1>1, <2>3, TakeRefines DEF WorkerCheck
  <2> QED
    BY <1>1, <2>1, <2>2, <2>3 DEF WorkerCheck
<1>2. CASE Analyze(w)
  BY <1>2, FinishRefines
<1>3. CASE ReleaseSlot(w)
  BY <1>0, <1>3, GotoSteps, WorkerUnseen DEF ReleaseSlot
<1>4. CASE WorkerNotify(w)
  BY <1>0, <1>4, NotifyAllSteps, WorkerUnseen DEF WorkerNotify
<1>5. CASE Collect(w)
  BY <1>5, CollectRefines
<1>6. CASE Throws(w)
  BY <1>6, ThrowsRefines
<1>7. CASE FailStop(w)
  <2>1. failure_ /\ failure_' = failure_
    BY <1>0, <1>7 DEF FailStop, FailureOrder
  <2>2. StopSeen' = StopSeen
    BY <2>1
  <2> QED
    BY <1>0, <1>7, <2>2, GotoSteps, WorkerUnseen DEF FailStop
<1>8. CASE FailNotify(w, "exit")
  BY <1>0, <1>8, NotifyAllSteps, WorkerUnseen DEF FailNotify
<1>9. CASE Block(w)
  BY <1>0, <1>9, GotoSteps, WorkerUnseen DEF Block
<1> QED
  BY <1>1, <1>2, <1>3, <1>4, <1>5, <1>6, <1>7, <1>8, <1>9 DEF Worker

\* A step of the runner or the canceller leaves the frames where they are.
LEMMA BystanderUnseen ==
    ASSUME IInv, NEW t \in {Runner, Canceller}, NEW state, Step(t, state),
           UNCHANGED <<frame, done, produced>>
    PROVE  /\ AtWork' = AtWork /\ Uncollected' = Uncollected /\ Unpushed' = Unpushed
           /\ pc'[t] = state
           /\ t = Canceller => pc'[Runner] = pc[Runner]
<1>0. Places /\ t \in Threads /\ t \notin Workers /\ Workers \subseteq Threads /\ Runner \in Threads
  BY DEF IInv, Threads
<1>1. \A w \in Workers : pc'[w] = pc[w] \/ (pc[w] = "waiting" /\ pc'[w] = "check")
  BY <1>0 DEF Step
<1>2. AtWork' = AtWork /\ Uncollected' = Uncollected
  BY <1>1, Unseen DEF Completed, Visible
<1>3. Unpushed' = Unpushed
  BY DEF Unpushed
<1>4. pc[Runner] # "waiting"
  BY <1>0 DEF Places, RunnerPlaces
<1> QED
  BY <1>0, <1>2, <1>3, <1>4 DEF Step

\* So it is a stutter, if it also leaves the rest and the decoder runs, or has run, as before.
LEMMA BystanderStutters ==
    ASSUME IInv, NEW t \in {Runner, Canceller}, NEW state, Step(t, state),
           t = Runner => (pc[Runner] \in {"spawn", "decoding"} <=> state \in {"spawn", "decoding"}),
           UNCHANGED <<frame, done, produced, queue_, completed_, failure_, decode_failure>>,
           StopSeen' = StopSeen
    PROVE  Refines
<1>1. /\ AtWork' = AtWork /\ Uncollected' = Uncollected /\ Unpushed' = Unpushed
      /\ pc'[t] = state
      /\ t = Canceller => pc'[Runner] = pc[Runner]
  BY BystanderUnseen
<1>2. pc'[Runner] \in {"spawn", "decoding"} <=> pc[Runner] \in {"spawn", "decoding"}
  BY <1>1
<1>3. DecoderState' = DecoderState
  BY <1>2 DEF DecoderState
<1> QED
  BY <1>1, <1>3, Stutters

\* A worker starts.
LEMMA SpawnRefines ==
    ASSUME IInv, NEW w \in Workers, Spawn(w)
    PROVE  Refines
<1>0. Places /\ Runner \in Threads /\ Runner # w /\ Workers \subseteq Threads
      /\ Workers \cap Producers = {} /\ Runner \notin Workers
  BY DEF IInv, Threads
<1>1. \A v \in Workers : pc'[v] = pc[v] \/ (v = w /\ pc[v] = "unborn" /\ pc'[v] = "check")
  BY <1>0 DEF Spawn
<1>2. AtWork' = AtWork /\ Uncollected' = Uncollected
  BY <1>1, Unseen DEF Completed, Visible, Spawn
<1>3. Unpushed' = Unpushed
  BY DEF Unpushed, Spawn, decoder
<1>4. pc[Runner] = "spawn" /\ pc'[Runner] \in {"spawn", "decoding"}
  BY <1>0 DEF Spawn
<1>5. DecoderState' = DecoderState
  BY <1>4 DEF DecoderState
<1> QED
  BY <1>2, <1>3, <1>5, Stutters DEF Spawn, shared, results, StopSeen

\* The workers cannot be started.
LEMMA SpawnFailsRefines ==
    ASSUME IInv, SpawnFails
    PROVE  Refines
<1> USE DEF shared, decoder, results
<1>0. /\ TypeOK /\ DataOK /\ Places /\ DecoderOrder /\ OnePlace /\ FramesHeld /\ Runner \in Threads
      /\ pc[Runner] = "spawn"
      /\ queue_' = <<>> /\ failure_' = TRUE /\ Goto(Runner, "fail_stop")
      /\ UNCHANGED <<frame, done, stop, produced, decode_failure, completed_>>
  BY PartsOfTypes DEF IInv, Threads, SpawnFails, Fail
<1>1. Step(Runner, "fail_stop")
  BY <1>0, GotoSteps
<1>2. /\ AtWork' = AtWork /\ Uncollected' = Uncollected /\ Unpushed' = Unpushed
      /\ pc'[Runner] = "fail_stop"
  <2>1. Runner \in {Runner, Canceller}
    OBVIOUS
  <2> QED
    BY <1>0, <1>1, <2>1, BystanderUnseen
<1>3. produced = 0 /\ ~decode_failure
  BY <1>0 DEF DecoderOrder
<1>4. Unpushed = Frames
  BY <1>3 DEF Unpushed, Frames
<1>5. InQueue = {} /\ InQueue' = {}
  <2>1. \A k \in 1 .. Len(queue_) : queue_[k] \in Frames /\ queue_[k] <= 0
    BY <1>0, <1>3 DEF OnePlace, DataOK
  <2>2. \A k \in 1 .. Len(queue_) : FALSE
    BY <2>1 DEF Frames
  <2>3. 1 .. Len(queue_') = {}
    BY <1>0
  <2> QED
    BY <2>2, <2>3 DEF InQueue
<1>6. /\ FailureState' = "std" /\ DecoderState = "running" /\ DecoderState' = "ended"
  BY <1>0, <1>2, <1>3 DEF FailureState, DecoderState
<1>7. contract' = [contract EXCEPT !.decoder = "ended", !.failure = "std"]
  <2>1. InQueue' = InQueue /\ completed_' = completed_
    BY <1>0, <1>5
  <2>2. /\ contract'["decoder"] = "ended" /\ contract'["failure"] = "std"
        /\ \A z \in DOMAIN contract \ {"decoder", "failure"} : contract'[z] = contract[z]
    BY <1>2, <1>6, <2>1, ContractFields DEF Fields
  <2> QED
    BY <2>2, ContractShape DEF IsFcn
<1>8. (stop \/ failure_)' = TRUE
  BY <1>0
<1>9. Contract!WorkersUnstarted
  BY <1>4, <1>6, <1>7, <1>8, ContractFields DEF Contract!WorkersUnstarted
<1> QED
  BY <1>9 DEF Refines, Contract!PipelineNext

\* The decoder ends.
LEMMA DecodingDoneRefines ==
    ASSUME IInv, DecodingDone
    PROVE  Refines
<1> USE DEF shared, results
<1>0. /\ TypeOK /\ DataOK /\ Places /\ FramesHeld /\ FailureOrder /\ Runner \in Threads
      /\ pc[Runner] = "decoding" /\ \A p \in Producers : pc[p] = "ended"
      /\ decode_failure' = (decode_failure \/ produced < MaxFrames)
      /\ Goto(Runner, "notify")
      /\ UNCHANGED <<frame, done, stop, failure_, produced, completed_>>
  BY PartsOfTypes DEF IInv, Threads, DecodingDone
<1>1. Step(Runner, "notify")
  BY <1>0, GotoSteps
<1>2. /\ AtWork' = AtWork /\ Uncollected' = Uncollected /\ Unpushed' = Unpushed
      /\ pc'[Runner] = "notify"
  <2>1. Runner \in {Runner, Canceller}
    OBVIOUS
  <2> QED
    BY <1>0, <1>1, <2>1, BystanderUnseen
<1>3. PICK end \in {"ended", "failed"} : end = IF decode_failure' THEN "failed" ELSE "ended"
  OBVIOUS
<1>4. end = "ended" => Unpushed = {}
  <2>1. SUFFICES ASSUME ~decode_failure' PROVE Unpushed = {}
    BY <1>3
  <2>2. ~decode_failure /\ produced = MaxFrames
    <3>1. ~(decode_failure \/ produced < MaxFrames)
      BY <1>0, <2>1
    <3>2. produced \in 0 .. MaxFrames /\ MaxFrames \in Nat
      BY <1>0 DEF DataOK
    <3>3. produced = MaxFrames
      BY <3>1, <3>2
    <3> QED
      BY <3>1, <3>3
  <2>3. \A p \in Producers : frame[p] = NoFrame
    BY <1>0, <2>2 DEF FramesHeld
  <2>4. \A i \in Frames : ~(i > produced) /\ i # NoFrame
    BY <2>2 DEF Frames, NoFrame
  <2> QED
    BY <2>3, <2>4 DEF Unpushed
<1>5. InQueue' = IF stop \/ failure_ THEN {} ELSE InQueue
  <2>1. CASE stop
    <3>1. 1 .. Len(queue_') = {}
      BY <2>1 DEF DecodingDone
    <3> QED
      BY <2>1, <3>1 DEF InQueue
  <2>2. CASE ~stop
    <3>1. queue_' = queue_
      BY <2>2 DEF DecodingDone
    <3>2. failure_ => 1 .. Len(queue_) = {}
      BY <1>0 DEF FailureOrder
    <3> QED
      BY <2>2, <3>1, <3>2 DEF InQueue
  <2> QED
    BY <2>1, <2>2
<1>6. FailureState' = FailureState /\ DecoderState = "running" /\ DecoderState' = end
  BY <1>0, <1>2, <1>3 DEF FailureState, DecoderState
<1>7. contract' = [contract EXCEPT !.decoder = end,
                                   !.queue = IF stop \/ failure_ THEN {} ELSE contract.queue]
  <2>1. PICK q : q = IF stop \/ failure_ THEN {} ELSE contract.queue
    OBVIOUS
  <2>2. contract'["queue"] = q
    BY <1>5, <2>1, ContractFields
  <2>3. /\ contract'["decoder"] = end
        /\ \A z \in DOMAIN contract \ {"decoder", "queue"} : contract'[z] = contract[z]
    <3>1. completed_' = completed_
      BY <1>0
    <3> QED
      BY <1>2, <1>6, <3>1, ContractFields DEF Fields
  <2>4. contract' = [contract EXCEPT !.decoder = end, !.queue = q]
    BY <2>2, <2>3, ContractShape DEF IsFcn
  <2> QED
    BY <2>1, <2>4
<1>8. (stop \/ failure_)' = (stop \/ failure_)
  BY <1>0
<1>9. Contract!EndDecoder
  BY <1>4, <1>6, <1>7, <1>8, ContractFields DEF Contract!EndDecoder
<1> QED
  BY <1>9 DEF Refines, Contract!PipelineNext

\* Every step of run() is one of the contract, or shows the job nothing.
LEMMA RunRefines ==
    ASSUME IInv, Run
    PROVE  Refines
<1>0. Places /\ Runner \in Threads /\ FailureOrder
  BY DEF IInv, Threads
<1> USE DEF shared, results, decoder, StopSeen
<1>1. CASE \E w \in Workers : Spawn(w)
  BY <1>1, SpawnRefines
<1>2. CASE SpawnFails
  BY <1>2, SpawnFailsRefines
<1>3. CASE FailStop(Runner)
  <2>1. failure_ /\ failure_' = failure_
    BY <1>0, <1>3 DEF FailStop, FailureOrder
  <2>2. StopSeen' = StopSeen
    BY <2>1
  <2> QED
    BY <1>0, <1>3, <2>2, GotoSteps, BystanderStutters DEF FailStop
<1>4. CASE FailNotify(Runner, "join")
  BY <1>0, <1>4, NotifyAllSteps, BystanderStutters DEF FailNotify
<1>5. CASE DecodingDone
  BY <1>5, DecodingDoneRefines
<1>6. CASE RunnerNotify
  BY <1>0, <1>6, NotifyAllSteps, BystanderStutters DEF RunnerNotify
<1>7. CASE Return
  BY <1>0, <1>7, GotoSteps, BystanderStutters DEF Return
<1> QED
  BY <1>1, <1>2, <1>3, <1>4, <1>5, <1>6, <1>7 DEF Run

\* The client's stop is the contract's, unless a failure has raised it already.
LEMMA RequestStopRefines ==
    ASSUME IInv, RequestStop
    PROVE  Refines
<1> USE DEF shared, results, decoder
<1>0. /\ Places /\ DataOK /\ Canceller \in Threads
      /\ pc[Canceller] = "idle" /\ stop' = TRUE
      /\ UNCHANGED <<frame, done, produced, queue_, completed_, failure_, decode_failure>>
  BY PartsOfTypes DEF IInv, Threads, RequestStop
<1>1. PICK state : state = IF stop THEN "done" ELSE "notify"
  OBVIOUS
<1>2. Step(Canceller, state)
  BY <1>0, <1>1, GotoSteps DEF RequestStop
<1>3. CASE StopSeen
  <2>1. StopSeen' = StopSeen
    BY <1>0, <1>3 DEF StopSeen, DataOK
  <2> QED
    BY <1>0, <1>2, <2>1, BystanderStutters
<1>4. CASE ~StopSeen
  <2>1. /\ AtWork' = AtWork /\ Uncollected' = Uncollected /\ Unpushed' = Unpushed
        /\ pc'[Runner] = pc[Runner]
    <3>1. Canceller \in {Runner, Canceller}
      OBVIOUS
    <3> QED
      BY <1>0, <1>2, <3>1, BystanderUnseen
  <2>2. DecoderState' = DecoderState /\ FailureState' = FailureState /\ InQueue' = InQueue
    BY <1>0, <2>1 DEF DecoderState, FailureState, InQueue
  <2>3. contract' = contract
    BY <1>0, <2>1, <2>2, ContractParts
  <2>4. (stop \/ failure_)' = TRUE
    BY <1>0
  <2>5. Contract!StopPipeline
    BY <1>4, <2>3, <2>4 DEF Contract!StopPipeline, StopSeen
  <2> QED
    BY <2>5 DEF Refines, Contract!PipelineNext
<1> QED
  BY <1>3, <1>4

-----------------------------------------------------------------------------
(* The theorem.                                                            *)

LEMMA StepRefines == IInv /\ [Next]_vars => Refines
<1> SUFFICES ASSUME IInv, [Next]_vars PROVE Refines
  OBVIOUS
<1>1. CASE \E p \in Producers : Producer(p)
  BY <1>1, ProducerRefines
<1>2. CASE \E w \in Workers : Worker(w)
  BY <1>2, WorkerRefines
<1>3. CASE Run
  BY <1>3, RunRefines
<1>4. CASE RequestStop
  BY <1>4, RequestStopRefines
<1>5. CASE StopCallback
  <2>1. Places /\ Canceller \in Threads
    BY DEF IInv, Threads
  <2> QED
    BY <1>5, <2>1, NotifyAllSteps, BystanderStutters
       DEF StopCallback, shared, results, decoder, StopSeen
<1>6. CASE UNCHANGED vars
  <2>1. /\ Unpushed' = Unpushed /\ AtWork' = AtWork /\ Uncollected' = Uncollected
        /\ DecoderState' = DecoderState
    BY <1>6 DEF vars, decoder, Unpushed, AtWork, Uncollected, Holding, DecoderState
  <2> QED
    BY <1>6, <2>1, Stutters DEF vars, shared, results, StopSeen
<1> QED
  BY <1>1, <1>2, <1>3, <1>4, <1>5, <1>6 DEF Next

\* run() starts as the contract says.
LEMMA InitRefines == Init => Contract!PipelineInit
<1> SUFFICES ASSUME Init PROVE Contract!PipelineInit
  OBVIOUS
<1>1. contract.original = [i \in Frames |-> i] /\ contract.original \in Seq(Nat)
  BY ContractFields DEF Frames
<1>2. Unpushed = Frames
  <2>1. \A i \in Frames : i > produced
    BY DEF Init, Frames
  <2> QED
    BY <2>1 DEF Unpushed
<1>3. InQueue = {}
  BY DEF Init, InQueue
<1>4. AtWork = {} /\ Uncollected = {}
  BY DEF Init, AtWork, Uncollected, Holding, Threads
<1>5. DecoderState = "running" /\ FailureState = "none"
  BY DEF Init, DecoderState, FailureState, Threads
<1>6. contract = Contract!Started(contract.original)
  <2>1. contract = [original |-> contract.original, left |-> DOMAIN contract.original,
                    queue |-> {}, working |-> {}, analyzed |-> {}, done |-> 0,
                    decoder |-> "running", failure |-> "none"]
    BY <1>2, <1>3, <1>4, <1>5, ContractFields, ContractParts DEF Init
  <2>2. PICK o : o = contract.original
    OBVIOUS
  <2>3. Contract!Started(o) = [original |-> o, left |-> DOMAIN o,
                    queue |-> {}, working |-> {}, analyzed |-> {}, done |-> 0,
                    decoder |-> "running", failure |-> "none"]
    <3>1. PICK r, s : /\ r = Contract!NoPipeline
                      /\ s = [original |-> o, left |-> DOMAIN o,
                              queue |-> {}, working |-> {}, analyzed |-> {}, done |-> 0,
                              decoder |-> "running", failure |-> "none"]
      OBVIOUS
    <3>2. IsFcn(r) /\ DOMAIN r = Fields
      BY <3>1 DEF Contract!NoPipeline, IsFcn, Fields
    <3>3. IsFcn(s) /\ DOMAIN s = Fields
      BY <3>1 DEF IsFcn, Fields
    <3>4. /\ s["original"] = o /\ s["left"] = DOMAIN o
          /\ \A z \in Fields \ {"original", "left"} : s[z] = r[z]
      <4>1. s.original = o /\ s.left = DOMAIN o
        BY <3>1
      <4>2. /\ s.queue = r.queue /\ s.working = r.working /\ s.analyzed = r.analyzed
            /\ s.done = r.done /\ s.decoder = r.decoder /\ s.failure = r.failure
        BY <3>1 DEF Contract!NoPipeline
      <4> QED
        BY <4>1, <4>2 DEF Fields
    <3>5. s = [r EXCEPT !.original = o, !.left = DOMAIN o]
      BY <3>2, <3>3, <3>4 DEF IsFcn
    <3> QED
      BY <3>1, <3>5 DEF Contract!Started
  <2> QED
    BY <2>1, <2>2, <2>3
<1>7. (stop \/ failure_) \in BOOLEAN
  BY DEF Init
<1> QED
  BY <1>1, <1>6, <1>7 DEF Contract!PipelineInit

\* run() ends when the contract lets it, as the contract says.
LEMMA StepEndsAsPromised == IInv /\ [Next]_vars => [EndsAsPromised]_vars
<1> SUFFICES ASSUME IInv, Next, outcome' # outcome PROVE EndsAsPromised
  BY DEF vars, EndsAsPromised
<1>1. Return
  BY DEF Next, Producer, Worker, Run, DecodeNext, PushCheck, PushNotify, Block, WorkerCheck,
         Analyze, ReleaseSlot, WorkerNotify, Collect, Throws, Fail, FailStop, FailNotify,
         Spawn, SpawnFails, DecodingDone, RunnerNotify, RequestStop, StopCallback
<1>2. /\ pc[Runner] = "join" /\ \A w \in Workers : pc[w] \in {"exit", "unborn"}
      /\ outcome' = IF failure_ THEN "failed"
                    ELSE IF stop THEN "cancelled"
                    ELSE IF decode_failure THEN "decode_failed" ELSE "ok"
  BY <1>1 DEF Return
<1>3. FailureOrder /\ ExitOrder /\ RunOrder
  BY DEF IInv
<1>4. AtWork = {} /\ Uncollected = {}
  BY <1>2 DEF AtWork, Uncollected, Holding
<1>5. queue_ = <<>> \/ stop \/ failure_
  <2>1. SUFFICES ASSUME ~failure_, ~stop PROVE queue_ = <<>>
    OBVIOUS
  <2>2. AllStarted /\ ~abort_
    BY <1>2, <1>3, <2>1 DEF RunOrder, FailureOrder
  <2>3. PICK w \in Workers : pc[w] = "exit"
    BY <1>2, <2>2 DEF AllStarted
  <2> QED
    BY <1>3, <2>1, <2>2, <2>3 DEF ExitOrder
<1>6. InQueue = {} \/ stop \/ failure_
  BY <1>5 DEF InQueue
<1>7. /\ DecoderState = (IF decode_failure THEN "failed" ELSE "ended")
      /\ FailureState = (IF failure_ THEN "std" ELSE "none")
  BY <1>2 DEF DecoderState, FailureState
<1>8. Contract!PipelineOver
  BY <1>4, <1>6, <1>7, ContractFields DEF Contract!PipelineOver, Contract!Stopped
<1>9. outcome' = "failed" <=> contract.failure # "none"
  BY <1>2, <1>7, ContractFields
<1>10. Contract!Thrown = IF failure_ THEN "std"
                         ELSE IF stop THEN "cancelled"
                         ELSE IF decode_failure THEN "std" ELSE "none"
  BY <1>7, ContractFields DEF Contract!Thrown
<1>11. /\ outcome' = "cancelled" <=> Contract!Thrown = "cancelled"
       /\ outcome' = "ok" <=> Contract!Thrown = "none"
  BY <1>2, <1>10
<1> QED
  BY <1>8, <1>9, <1>11 DEF EndsAsPromised

\* What the job relies on is what the threads do: the pipeline with its mutex, its condition
\* variable and its counter implements the contract, and run() ends as the contract says,
\* with any number of workers, decode sessions and frames.
THEOREM PipelineImplementsContract == Spec => ImplementsContract
<1>1. Init => Contract!PipelineInit
  BY InitRefines
<1>2. IInv /\ [Next]_vars => [Contract!PipelineNext]_<<contract, stop \/ failure_>>
  BY StepRefines DEF Refines, StopSeen
<1>3. IInv /\ [Next]_vars => [EndsAsPromised]_vars
  BY StepEndsAsPromised
<1> QED
  BY <1>1, <1>2, <1>3, IInvHolds, PTL DEF Spec, ImplementsContract, Contract!PipelineSpec
=============================================================================
