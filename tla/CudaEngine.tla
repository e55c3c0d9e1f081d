----------------------------- MODULE CudaEngine -----------------------------
(***************************************************************************)
(* The host side of the CUDA analysis engine                               *)
(* (engine/src/backend/cuda/cuda_backend.cpp: analyze_axis_batch_impl).     *)
(*                                                                         *)
(* Threads call the engine concurrently with a frame and a batch of         *)
(* candidates.  A call owns one execution slot from acquire_slot to         *)
(* release_slot.  What a slot uploaded stays on the device and is used      *)
(* again when the next call asks for the same thing: the plans of a batch,   *)
(* recognised by their shared pointers, and the frame, recognised by its    *)
(* host address and a probe of 16 samples.  One cache serves all slots: the *)
(* frames on the device (input_cache), whose entries a call holds while its *)
(* kernels run.  host_plan_cache is left out: it saves a pack, whose result *)
(* is the same.                                                             *)
(*                                                                         *)
(* A frame is abstracted to its content, its size and its probe; a batch to *)
(* its identity, the frame size it is for, and whether a candidate of it    *)
(* needs the transposed frame.  Kernels are what they read, and a buffer    *)
(* that was replaced reads Garbage.  Any CUDA call may fail.                *)
(***************************************************************************)
EXTENDS Integers, FiniteSets, FiniteSetsExt

CONSTANTS Callers,          \* threads, numbered
          SlotCounts,       \* the values of options.execution_slots
          Frames,           \* contents of frames
          Addresses,        \* where host frames are
          Batches,
          Inputs,           \* the calls' arguments: <<address, frame, batch>>
          Horizontal,       \* the batches with packed.has_horizontal
          Bytes,            \* the bytes of a frame, or of the frames a batch is for
          Probe,            \* source_probe of a frame
          InputBudgets,     \* the values of GETNATIVE_CUDA_INPUT_CACHE_BYTES
          MaxCalls,         \* bound on the calls
          MaxFailures,      \* bound on the CUDA calls that fail
          Device,           \* the "address" of a frame the decoder left on the device
          Absent, Garbage

ASSUME EngineBoundsOK == /\ Callers \subseteq Nat
                         /\ SlotCounts \subseteq 1 .. 8
                         /\ InputBudgets \subseteq Nat
                         /\ Horizontal \subseteq Batches
                         /\ Bytes \in [Frames \cup Batches -> Nat \ {0}]
                         /\ DOMAIN Probe = Frames
                         /\ Device \notin Addresses
                         /\ Inputs \subseteq (Addresses \cup {Device}) \X Frames \X Batches
                         /\ \A i \in Inputs : Bytes[i[2]] = Bytes[i[3]]
                         /\ {Absent, Garbage} \cap (Frames \cup Batches) = {} /\ Absent # Garbage
                         /\ Absent \notin Nat \cup {"ok", "error", "cancelled"}
                         /\ {MaxCalls, MaxFailures} \subseteq Nat

VARIABLES call, slots,
          input_cache,        \* entries, each with the time of its last use
          input_cache_bytes, input_cache_clock, input_cache_budget,
          stop,               \* the callers' stop token
          calls, failures

cache == <<input_cache, input_cache_bytes, input_cache_clock>>
bounds == <<input_cache_budget, calls, failures>>
cudaVars == <<call, slots, cache, stop, bounds>>

Slots == DOMAIN slots

\* The identity of a resident frame: the pointer, the geometry, the probe.
Identity(c) == [data |-> call[c].address, bytes |-> Bytes[call[c].frame],
                probe |-> Probe[call[c].frame]]

NoRead == [source |-> Absent, transposed |-> Absent, plan |-> Absent]
NoSource == [identity |-> Absent, source |-> Absent, transposed |-> Absent]
IdleCall == [pc |-> "idle", address |-> Absent, frame |-> Absent, batch |-> Absent, slot |-> Absent,
             plan_cache_hit |-> FALSE, shared_source |-> NoSource, read |-> NoRead,
             outcome |-> Absent]
\* `outgrown` is history: a buffer of a resident frame was replaced by a larger one, or
\* had no room for the frame of a crowded call, and no frame has been uploaded since.
NewSlot == [busy |-> FALSE,
            plan_ready |-> FALSE, identity |-> Absent, pinned_plan |-> Absent, device_plan |-> Absent,
            source_ready |-> FALSE, source_identity |-> Absent,
            pinned_bytes |-> 0, device_source |-> Absent, device_bytes |-> 0,
            transposed_source_ready |-> FALSE, transposed |-> Absent, transposed_bytes |-> 0,
            outgrown |-> FALSE]

CudaInit == /\ call = [c \in Callers |-> IdleCall]
            /\ \E n \in SlotCounts : slots = [s \in 1 .. n |-> NewSlot]
            /\ input_cache = {} /\ input_cache_bytes = 0 /\ input_cache_clock = 0
            /\ input_cache_budget \in InputBudgets
            /\ stop = FALSE /\ calls = 0 /\ failures = 0

Slot(c) == slots[call[c].slot]
At(c, pc) == call[c].pc = pc
SetSlot(c, slot) == slots' = [slots EXCEPT ![call[c].slot] = slot]
OnDevice(c) == call[c].address = Device
NeedsTransposed(c) == call[c].batch \in Horizontal

-----------------------------------------------------------------------------
(* The caller, and the slot.                                               *)

Busy == {c \in Callers : ~At(c, "idle")}

\* A host address may be given to another frame once nobody analyses it.  Threads
\* are alike: the first idle one makes the next call.
Call(c) ==
    /\ c \notin Busy /\ \A other \in Callers : other < c => other \in Busy
    /\ calls < MaxCalls /\ ~stop
    /\ calls' = calls + 1
    /\ \E i \in Inputs :
          /\ i[1] # Device =>
                \A other \in Busy : call[other].address = i[1] => call[other].frame = i[2]
          /\ call' = [call EXCEPT ![c] = [IdleCall EXCEPT !.pc = "acquire", !.address = i[1],
                                                          !.frame = i[2], !.batch = i[3]]]
    /\ UNCHANGED <<slots, cache, input_cache_budget, stop, failures>>

\* request_stop() of the callers' job.
RequestStop == ~stop /\ stop' = TRUE /\ UNCHANGED <<call, slots, cache, bounds>>

Free == {s \in Slots : ~slots[s].busy}

\* The free slots whose plans are the batch's already.
Resident(b) == {s \in Free : slots[s].plan_ready /\ slots[s].identity = b}

\* Poll for a slot, the one that holds the plans first.
AcquireSlot(c) ==
    /\ At(c, "acquire")
    /\ LET candidates == IF Resident(call[c].batch) # {} THEN Resident(call[c].batch) ELSE Free
       IN \/ /\ candidates # {}
             /\ slots' = [slots EXCEPT ![Min(candidates)].busy = TRUE]
             /\ call' = [call EXCEPT ![c].pc = "prepare", ![c].slot = Min(candidates)]
          \/ /\ candidates = {} /\ stop
             /\ call' = [call EXCEPT ![c] = IdleCall]
             /\ UNCHANGED slots
    /\ UNCHANGED <<cache, stop, bounds>>

\* Mutant: the slot comes back on the error paths only.
ReleaseAfterFailure(c) ==
    /\ At(c, "release")
    /\ SetSlot(c, [Slot(c) EXCEPT !.busy = call[c].outcome = "ok"])
    /\ call' = [call EXCEPT ![c] = IdleCall]
    /\ UNCHANGED <<cache, stop, bounds>>

\* The scope exit of a call: the shared frame is let go.  The stream is waited for unless
\* it has been once (stream_synced), and is taken to be idle here.
ReleaseSlot(c) ==
    /\ At(c, "release")
    /\ SetSlot(c, [Slot(c) EXCEPT !.busy = FALSE])
    /\ call' = [call EXCEPT ![c] = IdleCall]
    /\ UNCHANGED <<cache, stop, bounds>>

Finish(c, outcome) == call' = [call EXCEPT ![c].pc = "release", ![c].outcome = outcome]

-----------------------------------------------------------------------------
(* The slot's plans and buffers.                                           *)

PlanHit(c) == Slot(c).plan_ready /\ Slot(c).identity = call[c].batch

\* The slot's own plans, or new ones packed.
Planned(c) == IF PlanHit(c) THEN Slot(c)
              ELSE [Slot(c) EXCEPT !.plan_ready = FALSE, !.identity = call[c].batch,
                                   !.pinned_plan = call[c].batch, !.device_plan = Garbage]

ResetPlanBuffers(slot) == [slot EXCEPT !.device_plan = Garbage, !.plan_ready = FALSE]

\* Frame and transposed frame, of a batch that needs both.
SharedBytes(c) == Bytes[call[c].frame] * (IF NeedsTransposed(c) THEN 2 ELSE 1)

UsesSharedSource(c) == ~OnDevice(c) /\ SharedBytes(c) <= input_cache_budget

\* The bytes the call asks of the slot's own buffers.
SourceBytes(c) == IF UsesSharedSource(c) THEN 0 ELSE Bytes[call[c].frame]
TransposedBytes(c) == IF NeedsTransposed(c) THEN SourceBytes(c) ELSE 0
PinnedBytes(c) == IF OnDevice(c) THEN 0 ELSE SourceBytes(c)

\* A buffer that is too small is freed, then allocated larger; the second may fail.
Larger(bytes, needed) == IF needed > bytes THEN needed ELSE bytes
Attempts(bytes, needed) == IF needed > bytes THEN {bytes, 0, needed} ELSE {bytes}

Resized(slot, bytes, transposed_bytes) ==
    [slot EXCEPT
        !.device_bytes = bytes, !.transposed_bytes = transposed_bytes,
        !.device_source = IF bytes = slot.device_bytes THEN @ ELSE Garbage,
        !.transposed = IF transposed_bytes = slot.transposed_bytes THEN @ ELSE Garbage,
        !.outgrown = \/ @
                     \/ slot.source_ready /\ bytes # slot.device_bytes
                     \/ slot.transposed_source_ready /\ transposed_bytes # slot.transposed_bytes]

Staging(c, slot) == [slot EXCEPT !.pinned_bytes = Larger(@, PinnedBytes(c))]

Grown(c, slot) ==
    Resized(Staging(c, slot), Larger(slot.device_bytes, SourceBytes(c)),
            Larger(slot.transposed_bytes, TransposedBytes(c)))

\* What a failed allocation leaves: the frame's buffer comes first.
GrownPartly(c, slot) ==
    {slot, Grown(c, slot)}
    \cup {Resized(Staging(c, slot), bytes, slot.transposed_bytes) :
             bytes \in Attempts(slot.device_bytes, SourceBytes(c))}
    \cup {Resized(Staging(c, slot), Larger(slot.device_bytes, SourceBytes(c)), bytes) :
             bytes \in Attempts(slot.transposed_bytes, TransposedBytes(c))}

-----------------------------------------------------------------------------
(* The shared frames, under input_cache_mutex.                             *)

Held == {call[c].shared_source.identity : c \in Callers}

\* Mutant: the least recently used entry goes, held or not.
EvictableAny(kept) == {entry \in input_cache : entry.identity # kept}

\* The entries nobody holds.
Evictable(kept) == {entry \in input_cache : entry.identity \notin Held \cup {kept}}

RetainedBytes(entry) == entry.retained_bytes
Retained(entries) == MapThenSumSet(RetainedBytes, entries)

\* Entries go, the least recently used first, until `bytes` fit or all the rest is held.
Evicted(bytes, kept) ==
    {entry \in Evictable(kept) :
        LET before == {other \in Evictable(kept) : other.last_use < entry.last_use}
        IN input_cache_bytes - Retained(before) > input_cache_budget - bytes}

\* Mutant: the bytes of a transposed frame that is added later are not counted.
UsedUncounted(entry, bytes) ==
    [entry EXCEPT !.last_use = input_cache_clock + 1,
                  !.transposed = IF bytes > 0 THEN entry.source ELSE @]

\* The entry, used now; `bytes` are those of a transposed frame that is added.
Used(entry, bytes) ==
    [entry EXCEPT !.last_use = input_cache_clock + 1, !.retained_bytes = @ + bytes,
                  !.transposed = IF bytes > 0 THEN entry.source ELSE @]

Source(entry) == [identity |-> entry.identity, source |-> entry.source,
                  transposed |-> entry.transposed]

\* What becomes of the cache, and the call's frame in it, if any; `tried` when CUDA calls
\* were made, which were successful if `done`.
Shared(entries, bytes, clock, source, tried) ==
    [entries |-> entries, bytes |-> bytes, clock |-> clock, source |-> source, tried |-> tried]

\* A cached frame, which a batch may be the first to want transposed, if that fits.  What a
\* failure then leaves allocated is not counted, and not here.
FoundShared(c, entry, done) ==
    LET upgrade == NeedsTransposed(c) /\ entry.transposed = Absent
        bytes == IF upgrade THEN Bytes[call[c].frame] ELSE 0
        gone == IF upgrade THEN Evicted(bytes, entry.identity) ELSE {}
        left == input_cache_bytes - Retained(gone)
        fits == upgrade => left <= input_cache_budget - bytes
        used == Used(entry, IF fits /\ done THEN bytes ELSE 0)
    IN Shared((input_cache \ (gone \cup {entry})) \cup {used},
              IF fits /\ done THEN left + bytes ELSE left, input_cache_clock + 1,
              IF fits THEN Source(used) ELSE NoSource, upgrade /\ fits)

\* A frame that is uploaded for every slot, if it fits once the unused ones are gone.
MissShared(c, done) ==
    LET gone == Evicted(SharedBytes(c), Absent)
        left == input_cache_bytes - Retained(gone)
        fits == left <= input_cache_budget - SharedBytes(c)
        frame == call[c].frame
        entry == [identity |-> Identity(c), source |-> frame,
                  transposed |-> IF NeedsTransposed(c) THEN frame ELSE Absent,
                  retained_bytes |-> SharedBytes(c), last_use |-> input_cache_clock + 1]
    IN IF fits /\ done
       THEN Shared((input_cache \ gone) \cup {entry}, left + SharedBytes(c),
                   input_cache_clock + 1, Source(entry), TRUE)
       ELSE Shared(input_cache \ gone, left, input_cache_clock, NoSource, fits)

\* The one way it goes.
SharedSource(c, done) ==
    LET found == {entry \in input_cache : entry.identity = Identity(c)}
    IN IF ~UsesSharedSource(c)
       THEN {Shared(input_cache, input_cache_bytes, input_cache_clock, NoSource, FALSE)}
       ELSE IF found = {} THEN {MissShared(c, done)}
       ELSE {FoundShared(c, entry, done) : entry \in found}

SetCache(shared) == /\ input_cache' = shared.entries
                    /\ input_cache_bytes' = shared.bytes
                    /\ input_cache_clock' = shared.clock

-----------------------------------------------------------------------------
\* Plans, buffers and shared frame.  The buffers' retained capacities, which are
\* not modelled, may exceed the slot's budget: a hit becomes a miss.  Only the
\* shared frame is visible to other calls.
Prepare(c) ==
    /\ At(c, "prepare")
    /\ \E within \in BOOLEAN, shared \in SharedSource(c, TRUE) :
          /\ SetSlot(c, Grown(c, IF within THEN Planned(c) ELSE ResetPlanBuffers(Planned(c))))
          /\ SetCache(shared)
          /\ call' = [call EXCEPT ![c].pc = "run", ![c].shared_source = shared.source,
                                  ![c].plan_cache_hit = within /\ PlanHit(c)]
    /\ UNCHANGED <<stop, bounds>>

\* The pack, a check of a limit, an allocation or the upload of a shared frame throws.
PrepareFails(c) ==
    /\ At(c, "prepare") /\ failures < MaxFailures
    /\ failures' = failures + 1
    /\ \/ /\ ~PlanHit(c)
          /\ SetSlot(c, [Slot(c) EXCEPT !.plan_ready = FALSE, !.pinned_plan = Garbage])
          /\ UNCHANGED cache
       \/ /\ \E planned \in {Planned(c), ResetPlanBuffers(Planned(c))} :
                \E slot \in GrownPartly(c, planned) : SetSlot(c, slot)
          /\ UNCHANGED cache
       \/ /\ \E planned \in {Planned(c), ResetPlanBuffers(Planned(c))} :
                SetSlot(c, Grown(c, planned))
          /\ \E shared \in SharedSource(c, FALSE) : shared.tried /\ SetCache(shared)
    /\ Finish(c, "error")
    /\ UNCHANGED <<stop, calls, input_cache_budget>>

-----------------------------------------------------------------------------
(* The device.                                                             *)

Shares(c) == call[c].shared_source # NoSource

\* The shared frames in use left no room for the call's.  Its frame is then staged in the
\* slot's buffers, which were not reserved for it.
Crowded(c) == UsesSharedSource(c) /\ ~Shares(c)

SlotHit(c) == Slot(c).source_ready /\ Slot(c).source_identity = Identity(c)

\* The copy of a frame the staging or the device buffer is too small for is undefined (the
\* pinned buffer may not exist at all); the outcome that can go unnoticed is garbage.
Copied(c) == IF Slot(c).pinned_bytes >= Bytes[call[c].frame]
                /\ Slot(c).device_bytes >= Bytes[call[c].frame]
             THEN call[c].frame ELSE Garbage

\* Mutant: a converted luma plane leaves the slot marked with the host frame before.
SourceKept(c) ==
    CASE Shares(c) \/ (~OnDevice(c) /\ SlotHit(c)) -> Slot(c)
      [] ~Shares(c) /\ OnDevice(c) ->
            [Slot(c) EXCEPT !.device_source = call[c].frame, !.transposed_source_ready = FALSE,
                            !.outgrown = FALSE]
      [] OTHER ->
            [Slot(c) EXCEPT !.device_source = Copied(c), !.source_identity = Identity(c),
                            !.source_ready = TRUE, !.transposed_source_ready = FALSE,
                            !.outgrown = Crowded(c) /\ Copied(c) = Garbage]

\* The frame in the slot: nothing to do, the one that is there already, a converted
\* luma plane, or a new upload.
SourceUploaded(c) ==
    CASE Shares(c) \/ (~OnDevice(c) /\ SlotHit(c)) -> Slot(c)
      [] ~Shares(c) /\ OnDevice(c) ->
            [Slot(c) EXCEPT !.device_source = call[c].frame, !.source_ready = FALSE,
                            !.transposed_source_ready = FALSE, !.outgrown = FALSE]
      [] OTHER ->
            [Slot(c) EXCEPT !.device_source = Copied(c), !.source_identity = Identity(c),
                            !.source_ready = TRUE, !.transposed_source_ready = FALSE,
                            !.outgrown = Crowded(c) /\ Copied(c) = Garbage]

\* Then the plans and the transposed frame.
Uploaded(c) ==
    LET slot == SourceUploaded(c)
        transposes == ~Shares(c) /\ NeedsTransposed(c) /\ ~slot.transposed_source_ready
        small == slot.transposed_bytes < Bytes[call[c].frame]
    IN [slot EXCEPT
           !.device_plan = IF call[c].plan_cache_hit THEN @ ELSE slot.pinned_plan,
           !.transposed = IF ~transposes THEN @ ELSE IF small THEN Garbage ELSE slot.device_source,
           !.transposed_source_ready = @ \/ transposes,
           !.outgrown = @ \/ (Crowded(c) /\ transposes /\ small)]

\* What the kernels of a call read.
Read(c, slot) ==
    LET frame == IF Shares(c) THEN call[c].shared_source.source ELSE slot.device_source
        transposed == IF Shares(c) THEN call[c].shared_source.transposed ELSE slot.transposed
    IN [source |-> frame, plan |-> slot.device_plan,
        transposed |-> IF NeedsTransposed(c) THEN transposed ELSE Absent]

\* The uploads and the tiles; a stop is seen after a tile.
Run(c) ==
    /\ At(c, "run")
    /\ \/ /\ SetSlot(c, [Uploaded(c) EXCEPT !.plan_ready = TRUE])
          /\ call' = [call EXCEPT ![c].pc = "release", ![c].outcome = "ok",
                                  ![c].read = Read(c, Uploaded(c))]
       \/ /\ stop
          /\ SetSlot(c, Uploaded(c))
          /\ Finish(c, "cancelled")
    /\ UNCHANGED <<cache, stop, bounds>>

\* A CUDA call throws: before the frame is there, then, or after the other uploads.
RunFails(c) ==
    /\ At(c, "run") /\ failures < MaxFailures
    /\ failures' = failures + 1
    /\ \E slot \in {Slot(c), SourceUploaded(c), Uploaded(c)} : SetSlot(c, slot)
    /\ Finish(c, "error")
    /\ UNCHANGED <<cache, stop, calls, input_cache_budget>>

-----------------------------------------------------------------------------
Work(c) == AcquireSlot(c) \/ Prepare(c) \/ Run(c) \/ ReleaseSlot(c)

Failure(c) == PrepareFails(c) \/ RunFails(c)

CudaNext == \/ \E c \in Callers : Call(c) \/ Work(c) \/ Failure(c)
            \/ RequestStop

CudaSpec == CudaInit /\ [][CudaNext]_cudaVars

\* The calling threads are scheduled and the driver's calls return.
FairCudaSpec == CudaSpec /\ \A c \in Callers : WF_cudaVars(Work(c) \/ Failure(c))

-----------------------------------------------------------------------------
CudaTypeOK == /\ \A c \in Callers : /\ call[c].address \in Addresses \cup {Device, Absent}
                                    /\ call[c].outcome \in {Absent, "ok", "error", "cancelled"}
                                    /\ call[c].slot \in Slots \cup {Absent}
              /\ \A s \in Slots : slots[s].identity \in Batches \cup {Absent}
              /\ stop \in BOOLEAN /\ calls \in 0 .. MaxCalls /\ failures \in 0 .. MaxFailures

\* A slot is busy exactly while one call has it; no frame is shared twice, and
\* those in use are not evicted (the budget counts them).
ResourcesOwned ==
    /\ CudaTypeOK
    /\ \A s \in Slots : Cardinality({c \in Callers : call[c].slot = s})
                            = (IF slots[s].busy THEN 1 ELSE 0)
    /\ \A e, f \in input_cache : e.identity = f.identity => e = f
    /\ Held \ {Absent} \subseteq {e.identity : e \in input_cache}

\* The bytes of the shared frames are those of the entries, whatever was evicted,
\* transposed later or not added after all, and within the budget.
BytesAccounted ==
    /\ input_cache_bytes = Retained(input_cache)
    /\ input_cache_bytes <= input_cache_budget

Succeeded(c) == At(c, "release") /\ call[c].outcome = "ok"

\* Whatever was resident, evicted, reset or left by a call that failed, the
\* kernels of a successful call read the plans of its batch, and a frame that has the
\* probe of the frame the call was given, transposed from the same frame; unless a call
\* that failed has outgrown the slot's frame, or the shared frames left no room for it.
ResultFromResident ==
    \A c \in Callers : Succeeded(c) =>
        LET read == call[c].read
        IN /\ read.plan = call[c].batch
           /\ \/ ~Shares(c) /\ Slot(c).outgrown
              \/ /\ read.source \in Frames
                 /\ Probe[read.source] = Probe[call[c].frame]
                 /\ NeedsTransposed(c) => read.transposed = read.source
                 /\ OnDevice(c) => read.source = call[c].frame

\* cuda_backend.cpp:983-985: "The pointer and geometry are checked along with a
\* 16-sample content probe so a recycled host address with different content cannot
\* produce a stale hit."  A successful call has read its own frame.
NoStaleHit ==
    \A c \in Callers : Succeeded(c) => call[c].read.source = call[c].frame

\* Every call ends: a slot comes free again, whatever became of the call in it.
CallsReturn == \A c \in Callers : At(c, "acquire") ~> At(c, "idle")
=============================================================================
