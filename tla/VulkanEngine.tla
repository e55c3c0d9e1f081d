---------------------------- MODULE VulkanEngine ----------------------------
(***************************************************************************)
(* The host side of the Vulkan analysis engine                             *)
(* (engine/src/backend/vulkan/vulkan_backend.cpp: analyze_axis_batch_impl)  *)
(* and the decoded images it reads (engine/src/media/media_decode.cpp).     *)
(*                                                                         *)
(* Threads call the engine concurrently.  A call owns an execution slot: a  *)
(* command buffer for the conversion of a decoded image, one for the        *)
(* analysis, a fence for each, and the plans it left on the device.  A      *)
(* decoded image is shared with FFmpeg: its AVVkFrame has a lock, and a      *)
(* timeline semaphore on which every user waits for the value recorded last  *)
(* and signals the next one.  A call holds the lock from before it waits for  *)
(* a slot until the conversion is submitted.                               *)
(*                                                                         *)
(* The device executes what a slot submitted in order.  Kernels are what     *)
(* they read.  Any Vulkan call of the host may fail.                        *)
(***************************************************************************)
EXTENDS Integers, Sequences, FiniteSets, FiniteSetsExt

CONSTANTS Callers,       \* threads, numbered
          SlotCounts,    \* the values of options.execution_slots
          Images,        \* the decoder's images
          Host,          \* "the image" of a call with a host frame
          Batches,
          Inputs,        \* the calls' arguments: <<image, batch>>
          CachePlans,    \* the values of options.cache_plans
          MaxCalls,      \* bound on the calls
          MaxFailures,   \* bound on the Vulkan calls that fail
          MaxDecodes,    \* bound on the decoder's submissions
          None

ASSUME VulkanBoundsOK == /\ Callers \subseteq Nat
                         /\ SlotCounts \subseteq Nat \ {0}
                         /\ CachePlans \subseteq BOOLEAN
                         /\ Inputs \subseteq (Images \cup {Host}) \X Batches
                         /\ Host \notin Images
                         /\ None \notin Nat \cup Batches \cup {"ok", "error", "cancelled"}
                         /\ {MaxCalls, MaxFailures, MaxDecodes} \subseteq Nat

VARIABLES call, slots,
          queue,            \* what each slot submitted and the device did not finish
          images,           \* per image: lock, sem_value, and timeline, the device's value
          decoding,         \* the decoder's submissions the device did not finish
          cache_plans,
          stop, calls, failures, decodes

bounds == <<cache_plans, calls, failures, decodes>>
vars == <<call, slots, queue, images, decoding, stop, bounds>>

Slots == DOMAIN slots

IdleCall == [pc |-> "idle", image |-> None, batch |-> None, slot |-> None, semaphore_value |-> 0,
             upload_plan |-> FALSE, conversion_submitted |-> FALSE, outcome |-> None]
NewSlot == [busy |-> FALSE, fence |-> TRUE, conversion_fence |-> TRUE,
            resident |-> None, uploaded |-> FALSE,
            host_plan |-> None, device_plan |-> None, device_source |-> None, partials |-> None]

Init == /\ call = [c \in Callers |-> IdleCall]
        /\ \E n \in SlotCounts : slots = [s \in 1 .. n |-> NewSlot]
        /\ queue = [s \in Slots |-> <<>>]
        /\ images = [i \in Images |-> [lock |-> None, sem_value |-> 0, timeline |-> 0]]
        /\ decoding = {}
        /\ cache_plans \in CachePlans
        /\ stop = FALSE /\ calls = 0 /\ failures = 0 /\ decodes = 0

At(c, pc) == call[c].pc = pc
Slot(c) == slots[call[c].slot]
SetSlot(c, slot) == slots' = [slots EXCEPT ![call[c].slot] = slot]
Finish(c, outcome) == call' = [call EXCEPT ![c].pc = "release", ![c].outcome = outcome]
Decoded(c) == call[c].image # Host

-----------------------------------------------------------------------------
(* The callers and the frame lock.                                         *)

\* Threads are alike: the first idle one makes the next call.
Call(c) ==
    /\ At(c, "idle") /\ \A other \in Callers : other < c => ~At(other, "idle")
    /\ calls < MaxCalls /\ ~stop
    /\ calls' = calls + 1
    /\ \E input \in Inputs :
          call' = [call EXCEPT ![c] = [IdleCall EXCEPT
                      !.image = input[1], !.batch = input[2],
                      !.pc = IF input[1] = Host THEN "acquire" ELSE "lock"]]
    /\ UNCHANGED <<slots, queue, images, decoding, stop, cache_plans, failures, decodes>>

RequestStop == /\ ~stop /\ stop' = TRUE
               /\ UNCHANGED <<call, slots, queue, images, decoding, bounds>>

\* acquire_vulkan_submission: the lock, then what the frame says.
LockFrame(c) ==
    /\ At(c, "lock")
    /\ images[call[c].image].lock = None
    /\ images' = [images EXCEPT ![call[c].image].lock = c]
    /\ call' = [call EXCEPT ![c].pc = "acquire",
                            ![c].semaphore_value = images[call[c].image].sem_value]
    /\ UNCHANGED <<slots, queue, decoding, stop, bounds>>

\* Mutant: an exceptional exit keeps the frame.
KeptLocked(c) == images

\* The frame lock if `c` has it, unlocked: release_without_submit, or nothing.
Unlocked(c) == [i \in Images |-> IF images[i].lock = c THEN [images[i] EXCEPT !.lock = None]
                                 ELSE images[i]]

\* The decoder uses the image as a reference or for its next picture.
DecoderSubmits(i) ==
    /\ decodes < MaxDecodes /\ images[i].lock = None
    /\ decodes' = decodes + 1
    /\ decoding' = decoding \cup {[image |-> i, wait |-> images[i].sem_value]}
    /\ images' = [images EXCEPT ![i].sem_value = @ + 1]
    /\ UNCHANGED <<call, slots, queue, stop, cache_plans, calls, failures>>

-----------------------------------------------------------------------------
(* The slot.                                                               *)

Free == {s \in Slots : ~slots[s].busy}

\* A stop is seen before a free slot is.
AcquireSlot(c) ==
    /\ At(c, "acquire")
    /\ \/ /\ ~stop /\ Free # {}
          /\ slots' = [slots EXCEPT ![Min(Free)].busy = TRUE]
          /\ call' = [call EXCEPT ![c].pc = "pack", ![c].slot = Min(Free)]
          /\ UNCHANGED images
       \/ /\ stop
          /\ call' = [call EXCEPT ![c] = IdleCall]
          /\ images' = Unlocked(c)
          /\ UNCHANGED slots
    /\ UNCHANGED <<queue, decoding, stop, bounds>>

\* Mutant: an exceptional exit does not wait for the conversion.
DrainedAnyway(c) == TRUE

\* An exceptional exit waits for a conversion that was submitted.
Drained(c) == call[c].outcome = "error" /\ call[c].conversion_submitted => Slot(c).conversion_fence

\* The scope exits: the conversion, the slot, the frame.
Release(c) ==
    /\ At(c, "release") /\ Drained(c)
    /\ SetSlot(c, [Slot(c) EXCEPT !.busy = FALSE])
    /\ images' = Unlocked(c)
    /\ call' = [call EXCEPT ![c] = IdleCall]
    /\ UNCHANGED <<queue, decoding, stop, bounds>>

-----------------------------------------------------------------------------
(* Plans, conversion, analysis.                                            *)

Resident(c) == cache_plans /\ Slot(c).resident = call[c].batch

\* Mutant: plans count as uploaded once they are packed.
PackedUploaded(c) ==
    [Slot(c) EXCEPT !.host_plan = IF Resident(c) /\ Slot(c).uploaded THEN @ ELSE call[c].batch,
                    !.resident = IF cache_plans THEN call[c].batch ELSE @,
                    !.uploaded = TRUE]

\* The plans of the batch in the staging buffer, unless the device has them.  Until
\* the analysis is over it does not count as having them.
Packed(c) ==
    [Slot(c) EXCEPT !.host_plan = IF Resident(c) /\ Slot(c).uploaded THEN @ ELSE call[c].batch,
                    !.resident = IF cache_plans THEN call[c].batch ELSE @,
                    !.uploaded = FALSE]

\* Mutant: the slot is used as soon as it is free.
FenceIgnored(c) == TRUE

\* What the slot ran before has to be over.
FenceSignalled(c) == Slot(c).fence

Pack(c) ==
    /\ At(c, "pack") /\ FenceSignalled(c)
    /\ SetSlot(c, Packed(c))
    /\ IF stop THEN Finish(c, "cancelled")
       ELSE call' = [call EXCEPT ![c].pc = IF Decoded(c) THEN "convert" ELSE "analyze",
                                 ![c].upload_plan = ~(Resident(c) /\ Slot(c).uploaded)]
    /\ UNCHANGED <<queue, images, decoding, stop, bounds>>

\* Submitted with a wait for the recorded value; mark_submitted records the next
\* one and unlocks.
SubmitConversion(c) ==
    /\ At(c, "convert")
    /\ SetSlot(c, [Slot(c) EXCEPT !.conversion_fence = FALSE])
    /\ queue' = [queue EXCEPT ![call[c].slot] =
                    Append(@, [kind |-> "conversion", image |-> call[c].image,
                               wait |-> call[c].semaphore_value, upload |-> call[c].upload_plan])]
    /\ images' = [images EXCEPT ![call[c].image].sem_value = call[c].semaphore_value + 1,
                                ![call[c].image].lock = None]
    /\ call' = [call EXCEPT ![c].pc = "analyze", ![c].conversion_submitted = TRUE]
    /\ UNCHANGED <<decoding, stop, bounds>>

SubmitAnalysis(c) ==
    /\ At(c, "analyze")
    /\ SetSlot(c, [Slot(c) EXCEPT !.fence = FALSE])
    /\ queue' = [queue EXCEPT ![call[c].slot] =
                    Append(@, [kind |-> "analysis", image |-> call[c].image, wait |-> 0,
                               upload |-> call[c].upload_plan /\ ~Decoded(c)])]
    /\ call' = [call EXCEPT ![c].pc = "wait"]
    /\ UNCHANGED <<images, decoding, stop, bounds>>

\* The results are read back; the device has the plans.
WaitAnalysis(c) ==
    /\ At(c, "wait") /\ Slot(c).fence
    /\ SetSlot(c, [Slot(c) EXCEPT !.uploaded = TRUE])
    /\ Finish(c, IF stop THEN "cancelled" ELSE "ok")
    /\ UNCHANGED <<queue, images, decoding, stop, bounds>>

\* A Vulkan call throws: the wait for the fence, the pack or a buffer, a recording
\* or a submission, whose fence is reset by then, or the wait for the analysis.
Fails(c) ==
    /\ failures < MaxFailures /\ failures' = failures + 1
    /\ \/ At(c, "pack") /\ (UNCHANGED slots \/ (FenceSignalled(c) /\ SetSlot(c, Packed(c))))
       \/ At(c, "convert") /\ (UNCHANGED slots \/ SetSlot(c, [Slot(c) EXCEPT !.conversion_fence = FALSE]))
       \/ At(c, "analyze") /\ (UNCHANGED slots \/ SetSlot(c, [Slot(c) EXCEPT !.fence = FALSE]))
       \/ At(c, "wait") /\ UNCHANGED slots
    /\ Finish(c, "error")
    /\ UNCHANGED <<queue, images, decoding, stop, cache_plans, calls, decodes>>

-----------------------------------------------------------------------------
(* The device.                                                             *)

\* What a command buffer leaves in the slot's buffers.
Executed(s, work) ==
    LET slot == slots[s]
        plan == IF work.upload THEN slot.host_plan ELSE slot.device_plan
    IN IF work.kind = "conversion"
       THEN [slot EXCEPT !.device_plan = plan, !.device_source = work.image,
                         !.conversion_fence = TRUE]
       ELSE LET source == IF work.image = Host THEN Host ELSE slot.device_source
            IN [slot EXCEPT !.device_plan = plan, !.device_source = source, !.fence = TRUE,
                            !.partials = [plan |-> plan, source |-> source]]

Execute(s) ==
    /\ queue[s] # <<>>
    /\ LET work == Head(queue[s])
       IN /\ work.kind = "conversion" => images[work.image].timeline = work.wait
          /\ slots' = [slots EXCEPT ![s] = Executed(s, work)]
          /\ images' = IF work.kind = "conversion"
                       THEN [images EXCEPT ![work.image].timeline = work.wait + 1] ELSE images
    /\ queue' = [queue EXCEPT ![s] = Tail(@)]
    /\ UNCHANGED <<call, decoding, stop, bounds>>

DecoderExecutes ==
    /\ \E work \in decoding :
          /\ images[work.image].timeline = work.wait
          /\ images' = [images EXCEPT ![work.image].timeline = @ + 1]
          /\ decoding' = decoding \ {work}
    /\ UNCHANGED <<call, slots, queue, stop, bounds>>

-----------------------------------------------------------------------------
Work(c) == \/ LockFrame(c) \/ AcquireSlot(c) \/ Pack(c) \/ SubmitConversion(c)
           \/ SubmitAnalysis(c) \/ WaitAnalysis(c) \/ Release(c)

Next == \/ \E c \in Callers : Call(c) \/ Work(c) \/ Fails(c)
        \/ RequestStop
        \/ \E i \in Images : DecoderSubmits(i)
        \/ \E s \in Slots : Execute(s)
        \/ DecoderExecutes

Spec == Init /\ [][Next]_vars

\* The threads are scheduled, and the device executes what was submitted.
FairSpec == /\ Spec
            /\ \A c \in Callers : WF_vars(Work(c))
            /\ WF_vars(\E s \in Slots : Execute(s)) /\ WF_vars(DecoderExecutes)

-----------------------------------------------------------------------------
TypeOK == /\ \A c \in Callers : /\ call[c].slot \in Slots \cup {None}
                                /\ call[c].outcome \in {None, "ok", "error", "cancelled"}
          /\ \A i \in Images : images[i].lock \in Callers \cup {None}
          /\ \A s \in Slots : /\ slots[s].fence \in BOOLEAN /\ slots[s].uploaded \in BOOLEAN
                              /\ slots[s].resident \in Batches \cup {None}
          /\ stop \in BOOLEAN /\ cache_plans \in BOOLEAN
          /\ calls \in 0 .. MaxCalls /\ failures \in 0 .. MaxFailures /\ decodes \in 0 .. MaxDecodes

\* The conversions of an image the device did not finish.
Conversions(i) == {u \in Slots \X (1 .. 3) : /\ u[2] \in DOMAIN queue[u[1]]
                                              /\ queue[u[1]][u[2]].kind = "conversion"
                                              /\ queue[u[1]][u[2]].image = i}

\* vulkan_analysis.hpp:107-113.  A decoded image is locked by the one call that has
\* not submitted its conversion yet; every submission waits for a value of its own
\* below the recorded one, so that none waits for ever; and when the call that
\* submitted it is over, so is the conversion: the image may be freed.
FramesSettled ==
    /\ TypeOK
    /\ \A i \in Images :
          LET users == {work \in decoding : work.image = i}
              waits == {queue[u[1]][u[2]].wait : u \in Conversions(i)} \cup {w.wait : w \in users}
          IN /\ waits = images[i].timeline .. images[i].sem_value - 1
             /\ Cardinality(waits) = Cardinality(Conversions(i)) + Cardinality(users)
             /\ \A u \in Conversions(i) :
                   \E c \in Callers : call[c].slot = u[1] /\ call[c].image = i /\ call[c].outcome \in {None, "error"}
    /\ \A i \in Images, c \in Callers :
          images[i].lock = c => call[c].image = i /\ ~call[c].conversion_submitted

\* The staging buffers and the command buffers of a slot are written while the
\* device is done with them; and the results of a successful call were computed
\* from the plans of its batch and from its frame, also when they stayed on the
\* device or the call before failed half way.
ResultFromBatch ==
    \A c \in Callers :
        /\ At(c, "convert") => queue[call[c].slot] = <<>>
        /\ call[c].outcome = "ok" =>
              Slot(c).partials = [plan |-> call[c].batch, source |-> call[c].image]

\* A submission was refused after its fence was reset: nothing will signal it.
Refused(s) == ~slots[s].fence /\ \A n \in DOMAIN queue[s] : queue[s][n].kind # "analysis"

\* A call that waits for such a fence, or for the slot or the frame of one that does.
HeldUp(c) == \/ At(c, "pack") /\ Refused(call[c].slot)
             \/ At(c, "acquire") /\ \A s \in Slots : slots[s].busy /\ Refused(s)
Blocked(c) == \/ HeldUp(c)
              \/ At(c, "lock") /\ \E d \in Callers : HeldUp(d) /\ call[d].image = call[c].image

\* Every call returns, whatever fails, unless the analysis of an earlier call
\* in its slot was refused by the driver.
CallsReturn == \A c \in Callers : call[c].pc \in {"lock", "acquire"} ~> (At(c, "idle") \/ Blocked(c))
=============================================================================
