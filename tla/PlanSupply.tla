---------------------------- MODULE PlanSupply ----------------------------
(***************************************************************************)
(* How the engine's jobs get their axis plans: the plan cache, the cold     *)
(* plan store on disk (engine/src/planner/plan_store.cpp) and its writer    *)
(* thread, with the plan phase of run_analyze_job, run_verify_job and       *)
(* run_media_verify_job in engine/src/cli/worker.cpp.                       *)
(*                                                                         *)
(* A job prefetches its grid from the store into the cache and asks the     *)
(* cache for a batch, which builds what is missing; an analyze job goes     *)
(* chunk by chunk and tops up first.  What had to be built is queued for    *)
(* the writer.  The session runs its jobs on one executor; the cache        *)
(* promises more (axis_plan.hpp, and the single-flight test of              *)
(* plan_store_test.cpp), so a set of threads calls it here.  The process    *)
(* may be killed and started again.  The disk may damage a pack, and        *)
(* another engine that shares the directory may publish or remove one.      *)
(*                                                                         *)
(* A grid is its set of keys (grid_hash drops duplicates, collisions are    *)
(* left out).  A file is what the loader would say of it.                   *)
(***************************************************************************)
EXTENDS AxisPlanCache, FiniteSets

CONSTANTS Callers,                  \* threads that run plan phases
          Jobs,                     \* [requests, chunked]: chunked for analyze jobs
          ChunkSize,                \* kPlanChunkSize
          MaximumPacks,             \* PlanStore::Limits, packs being of one size
          MaxJobs, MaxCrashes, MaxDisturbances,    \* bounds
          None

\* header and chunks: whether load_pack_header and decode_chunk accept them.
\* The index has a key twice when the published requests had ("twice").
Pack == [header : {"ok", "bad", "twice"}, chunks : {"ok", "bad"}]

Grid(keys) == ToSet(keys)
Grids == {Grid(j.requests) : j \in Jobs}

ASSUME JobsOK == \A j \in Jobs : j.requests \in Seq(Keys) \ {<<>>} /\ j.chunked \in BOOLEAN
ASSUME SupplyBoundsOK == /\ ChunkSize \in Nat \ {0} /\ MaximumPacks \in Nat
                         /\ {MaxJobs, MaxCrashes, MaxDisturbances} \subseteq Nat

ASSUME NoneIsNothing == None \notin Callers \cup Pack

VARIABLES cache,        \* plan_cache_
          builder,      \* who holds build_mutex, or None
          store,        \* plan_store_attempted_ and plan_store_
          files,        \* [Grids -> a pack or NoPack]: the *.gnpk files
          store_queue_, \* publications waiting for the writer
          writer,       \* the writer thread: where it is and what it publishes
          ex,           \* the callers: where they are and their locals
          builds, losses,   \* per key: built, and evicted or not retained
          started, crashes, disturbances

disk == <<store, files>>
writing == <<store_queue_, writer>>
counts == <<builds, losses>>
bounds == <<started, crashes, disturbances>>
supplyVars == <<cache, builder, disk, writing, ex, counts, bounds>>

NoPack == None
Plan == Keys \cup {"garbage"}

NoWriter == [pc |-> "idle"]
NoJob == [requests |-> <<>>, chunked |-> FALSE]
Idle == [pc |-> "idle", job |-> NoJob, stored |-> FALSE, todo |-> <<>>, next |-> "idle",
         ready |-> <<>>, got |-> <<>>, built |-> 0, garbled |-> FALSE]

SupplyTypeOK == /\ cache.lru \in Seq(Keys) /\ Range(cache.plans) \subseteq Plan /\ cache.bytes \in Nat
                /\ builder \in Callers \cup {None}
                /\ store \in {"untried", "open", "disabled"}
                /\ files \in [Grids -> Pack \cup {NoPack}]
                /\ store_queue_ \in Seq(Seq(Keys))
                /\ writer.pc \in {"idle", "write", "rename"}
                /\ \A e \in Callers :
                      /\ ex[e].pc \in {"idle", "open", "fetch", "decode", "remove", "publish",
                                       "lookup", "batch", "flight", "build", "finish"}
                      /\ ex[e].todo \in Seq(Keys) /\ Range(ex[e].got) \subseteq Plan
                /\ builds \in [Keys -> Nat] /\ losses \in [Keys -> Nat]

SupplyInit == /\ cache = EmptyCache /\ builder = None
              /\ store = "untried" /\ files = [g \in Grids |-> NoPack]
              /\ store_queue_ = <<>> /\ writer = NoWriter
              /\ ex = [e \in Callers |-> Idle]
              /\ builds = [k \in Keys |-> 0] /\ losses = [k \in Keys |-> 0]
              /\ started = 0 /\ crashes = 0 /\ disturbances = 0

-----------------------------------------------------------------------------
Set(e, r) == ex' = [ex EXCEPT ![e] = r]
JobGrid(e) == Grid(ex[e].job.requests)

\* The cache becomes c after the keys in tried were offered to it.
CacheBecomes(c, tried) ==
    /\ cache' = c
    /\ losses' = [k \in Keys |->
                    IF (k \in Resident(cache) \cup tried) /\ k \notin Resident(cache')
                    THEN losses[k] + 1 ELSE losses[k]]

\* The requests of the chunk that begins after the plans the job has got.
Chunk(r) == LET begin == Len(r.got)
                end == IF r.job.chunked /\ begin + ChunkSize < Len(r.job.requests)
                       THEN begin + ChunkSize ELSE Len(r.job.requests)
            IN  SubSeq(r.job.requests, begin + 1, end)

\* The first step of the plan phase after the prefetch, and of every chunk.
ChunkStart(r) == IF r.job.chunked /\ r.stored THEN "lookup" ELSE "batch"
Fetch(r, keys, next) == [r EXCEPT !.pc = "fetch", !.todo = keys, !.next = next]
\* An analyze job publishes in reverse, so that the plans it needs first are evicted last.
Prefetch(r) == Fetch(r, IF r.job.chunked THEN Reverse(r.job.requests) ELSE r.job.requests,
                     ChunkStart(r))

StartJob(e, job) ==
    /\ ex[e].pc = "idle" /\ started < MaxJobs
    /\ started' = started + 1
    /\ Set(e, [Idle EXCEPT !.job = job, !.pc = "open"])
    /\ UNCHANGED <<cache, builder, disk, writing, counts, crashes, disturbances>>

Packs(fs) == {g \in Grids : fs[g] # NoPack}

\* plan_store_or_null(): the first call constructs the store, which may fail, and
\* sweep() removes the oldest packs while there are too many.  Modification times
\* are not kept: any pack may be the oldest.
OpenStore ==
    /\ store = "untried"
    /\ \/ store' = "disabled" /\ UNCHANGED files
       \/ /\ store' = "open"
          /\ \E swept \in SUBSET Packs(files) :
                /\ Cardinality(swept) = LET n == Cardinality(Packs(files)) - MaximumPacks
                                        IN  IF n > 0 THEN n ELSE 0
                /\ files' = [g \in Grids |-> IF g \in swept THEN NoPack ELSE files[g]]

BeginPlans(e) ==
    /\ ex[e].pc = "open"
    /\ IF store = "untried" THEN OpenStore ELSE UNCHANGED disk
    /\ Set(e, IF store' = "open" THEN Prefetch([ex[e] EXCEPT !.stored = TRUE])
              ELSE [ex[e] EXCEPT !.pc = "batch"])
    /\ UNCHANGED <<cache, builder, writing, counts, bounds>>

-----------------------------------------------------------------------------
(* PlanStore::read_plans() and fetch_from_store().                         *)

\* load_pack_header: no file is a miss, a bad one an error.
ReadHeader(e) ==
    LET file == files[JobGrid(e)]
    IN  /\ ex[e].pc = "fetch"
        /\ Set(e, [ex[e] EXCEPT !.pc = IF file = NoPack THEN ex[e].next
                                       ELSE IF file.header = "ok" THEN "decode" ELSE "remove"])
        /\ UNCHANGED <<cache, builder, disk, writing, counts, bounds>>

\* Mutant: the checksum of the chunk's content is not compared.
DecodesUnchecked(file) == file # NoPack
\* decode_chunk opens the path again, which may have another file by now.
Decodes(file) == file # NoPack /\ file.header # "twice" /\ file.chunks = "ok"

DecodeChunks(e) ==
    LET file == files[JobGrid(e)]
    IN  /\ ex[e].pc = "decode"
        /\ Set(e, IF Decodes(file)
                  THEN [ex[e] EXCEPT !.pc = "publish", !.garbled = file.chunks = "bad"]
                  ELSE [ex[e] EXCEPT !.pc = "remove"])
        /\ UNCHANGED <<cache, builder, disk, writing, counts, bounds>>

\* fail(): removes whatever file has the name now.
RemovePack(e) ==
    /\ ex[e].pc = "remove"
    /\ files' = [files EXCEPT ![JobGrid(e)] = NoPack]
    /\ Set(e, [ex[e] EXCEPT !.pc = ex[e].next])
    /\ UNCHANGED <<cache, builder, store, writing, counts, bounds>>

\* One publish() per fetched plan, each under the cache's mutex.
PublishFetched(e) ==
    LET k == Head(ex[e].todo)
        rest == Tail(ex[e].todo)
    IN  /\ ex[e].pc = "publish"
        /\ CacheBecomes(Publish(cache, k, IF ex[e].garbled THEN "garbage" ELSE k), {k})
        /\ Set(e, [ex[e] EXCEPT !.todo = rest,
                                !.pc = IF rest = <<>> THEN ex[e].next ELSE "publish"])
        /\ UNCHANGED <<builder, disk, writing, builds, bounds>>

-----------------------------------------------------------------------------
(* lookup_batch() and get_or_build_batch().                                *)

\* The keys of a sequence that are in a set.
Select(keys, wanted) ==
    LET selected[n \in 0 .. Len(keys)] ==
          IF n = 0 THEN <<>>
          ELSE IF keys[n] \in wanted THEN Append(selected[n - 1], keys[n])
          ELSE selected[n - 1]
    IN  selected[Len(keys)]

\* A batch handles a repeated key once, where it comes first.
UniqueKeys(keys) ==
    LET unique[n \in 0 .. Len(keys)] ==
          IF n = 0 THEN <<>>
          ELSE IF \E i \in 1 .. n - 1 : keys[i] = keys[n] THEN unique[n - 1]
          ELSE Append(unique[n - 1], keys[n])
    IN  unique[Len(keys)]

\* Tops up what the cache has lost of the chunk since the prefetch.  A cancelled
\* job ends here, before its next chunk.
LookUp(e) ==
    LET chunk == Chunk(ex[e])
        evicted == Select(chunk, Keys \ Resident(cache))
    IN  /\ ex[e].pc = "lookup"
        /\ CacheBecomes(TouchAll(cache, chunk), {})
        /\ Set(e, IF evicted = <<>> THEN [ex[e] EXCEPT !.pc = "batch"]
                  ELSE Fetch(ex[e], evicted, "batch"))
        /\ UNCHANGED <<builder, disk, writing, builds, bounds>>

CancelChunk(e) == /\ ex[e].pc = ChunkStart(ex[e]) /\ ex[e].job.chunked
                  /\ Set(e, Idle)
                  /\ UNCHANGED <<cache, builder, disk, writing, counts, bounds>>

\* The plans of a batch found in the cache: ready maps unique keys to plans.
Found(ready, keys) ==
    [k \in DOMAIN ready \cup (keys \cap Resident(cache)) |->
        IF k \in DOMAIN ready THEN ready[k] ELSE cache.plans[k]]
Missing(r) == ToSet(Chunk(r)) \ DOMAIN r.ready

LookUpReady(e) ==
    /\ ex[e].pc = "batch"
    /\ CacheBecomes(TouchAll(cache, UniqueKeys(Chunk(ex[e]))), {})
    /\ Set(e, [ex[e] EXCEPT !.pc = "flight", !.ready = Found(<<>>, ToSet(Chunk(ex[e])))])
    /\ UNCHANGED <<builder, disk, writing, builds, bounds>>

\* Mutant: the cache is not looked at again once build_mutex is held.
LockUnchecked(e) ==
    /\ ex[e].pc = "flight" /\ builder = None
    /\ builder' = e
    /\ Set(e, [ex[e] EXCEPT !.pc = "build"])
    /\ UNCHANGED <<cache, disk, writing, counts, bounds>>
\* Takes build_mutex, which makes misses single-flight, and looks again.
LockAndRecheck(e) ==
    /\ ex[e].pc = "flight" /\ builder = None
    /\ builder' = e
    /\ CacheBecomes(TouchAll(cache, Select(UniqueKeys(Chunk(ex[e])), Missing(ex[e]))), {})
    /\ Set(e, [ex[e] EXCEPT !.pc = "build", !.ready = Found(ex[e].ready, Missing(ex[e]))])
    /\ UNCHANGED <<disk, writing, builds, bounds>>

\* Mutant: the lock outlives the failure.
BuildFailsLocked(e) == /\ ex[e].pc = "build" /\ Missing(ex[e]) # {}
                       /\ Set(e, Idle)
                       /\ UNCHANGED <<cache, builder, disk, writing, counts, bounds>>
\* build_axis_plans() throws: nothing is admitted, the lock is released, the job fails.
BuildFails(e) == /\ ex[e].pc = "build" /\ Missing(ex[e]) # {}
                 /\ builder' = None /\ Set(e, Idle)
                 /\ UNCHANGED <<cache, disk, writing, counts, bounds>>

\* Builds what is missing and offers it to the cache; a plan that a fetch has made
\* resident meanwhile is used instead of the one just built.
BuildAndPublish(e) ==
    LET r == ex[e]
        missing == Select(UniqueKeys(Chunk(r)), Missing(r))
        plan(k) == IF k \in DOMAIN r.ready THEN r.ready[k]
                   ELSE IF k \in Resident(cache) THEN cache.plans[k] ELSE k
        got == r.got \o [i \in 1 .. Len(Chunk(r)) |-> plan(Chunk(r)[i])]
        built == r.built + Len(missing)
    IN  /\ r.pc = "build" /\ builder' = None
        /\ CacheBecomes(PublishAll(cache, missing), Missing(r))
        /\ builds' = [k \in Keys |-> IF k \in Missing(r) THEN builds[k] + 1 ELSE builds[k]]
        /\ Set(e, [r EXCEPT !.got = got, !.built = built, !.ready = <<>>,
                            !.pc = IF Len(got) = Len(r.job.requests) THEN "finish"
                                   ELSE ChunkStart(r)])
        /\ UNCHANGED <<disk, writing, bounds>>

\* queue_store_publish(), if anything was built and the store is open; an analyze
\* job drops duplicate requests first.
FinishPlans(e) ==
    LET keys == ex[e].job.requests
    IN  /\ ex[e].pc = "finish"
        /\ store_queue_' =
             IF ex[e].built > 0 /\ store = "open"
             THEN Append(store_queue_, IF ex[e].job.chunked THEN SetToSeq(ToSet(keys)) ELSE keys)
             ELSE store_queue_
        /\ Set(e, Idle)
        /\ UNCHANGED <<cache, builder, disk, writer, counts, bounds>>

-----------------------------------------------------------------------------
(* store_write_loop() and PlanStore::publish_grid().                       *)

\* A pack is never replaced.
TakePublication ==
    /\ writer.pc = "idle" /\ store_queue_ # <<>>
    /\ store_queue_' = Tail(store_queue_)
    /\ writer' = IF files[Grid(Head(store_queue_))] = NoPack
                 THEN [pc |-> "write", requests |-> Head(store_queue_)] ELSE writer
    /\ UNCHANGED <<cache, builder, disk, ex, counts, bounds>>

\* The temporary file is written and closed.  The last bytes leave the stream when it
\* closes, and a failure then goes unnoticed: the pack is short.
Writable(keys) ==
    [header : IF IsInjective(keys) THEN {"ok", "bad"} ELSE {"twice", "bad"}, chunks : {"ok", "bad"}]
WriteTemporary ==
    /\ writer.pc = "write"
    /\ \/ \E pack \in Writable(writer.requests) :
             writer' = [pc |-> "rename", requests |-> writer.requests, pack |-> pack]
       \/ writer' = NoWriter
    /\ UNCHANGED <<cache, builder, disk, store_queue_, ex, counts, bounds>>

\* The rename takes effect or fails, and then the temporary file is removed.
RenameTemporary ==
    /\ writer.pc = "rename"
    /\ writer' = NoWriter
    /\ \/ files' = [files EXCEPT ![Grid(writer.requests)] = writer.pack]
       \/ UNCHANGED files
    /\ UNCHANGED <<cache, builder, store, store_queue_, ex, counts, bounds>>

-----------------------------------------------------------------------------
\* The process is killed; another one starts with what is on the disk.
Crash == /\ crashes < MaxCrashes /\ crashes' = crashes + 1
         /\ cache' = EmptyCache /\ builder' = None /\ store' = "untried"
         /\ store_queue_' = <<>> /\ writer' = NoWriter
         /\ ex' = [e \in Callers |-> Idle]
         /\ builds' = [k \in Keys |-> 0] /\ losses' = [k \in Keys |-> 0]
         /\ UNCHANGED <<files, started, disturbances>>

\* Damage to a pack, or another engine's sweep(), fail() or publish_grid().
Disturb == /\ disturbances < MaxDisturbances /\ disturbances' = disturbances + 1
           /\ \E g \in Grids :
                 \/ /\ files[g] # NoPack
                    /\ \E part \in {"header", "chunks"} :
                          files' = [files EXCEPT ![g][part] = "bad"]
                 \/ files[g] # NoPack /\ files' = [files EXCEPT ![g] = NoPack]
                 \/ \E header \in {"ok", "twice"} :
                       files' = [files EXCEPT ![g] = [header |-> header, chunks |-> "ok"]]
           /\ UNCHANGED <<cache, builder, store, writing, ex, counts, started, crashes>>

Work(e) == \/ BeginPlans(e) \/ ReadHeader(e) \/ DecodeChunks(e) \/ RemovePack(e)
           \/ PublishFetched(e) \/ LookUp(e) \/ CancelChunk(e) \/ LookUpReady(e)
           \/ LockAndRecheck(e) \/ BuildFails(e) \/ BuildAndPublish(e) \/ FinishPlans(e)
Write == TakePublication \/ WriteTemporary \/ RenameTemporary

SupplyNext == \/ \E e \in Callers : Work(e) \/ \E job \in Jobs : StartJob(e, job)
              \/ Write \/ Crash \/ Disturb

SupplySpec == SupplyInit /\ [][SupplyNext]_supplyVars
\* As long as some thread can run, one does.
FairSupplySpec == SupplySpec /\ WF_supplyVars(\E e \in Callers : Work(e))

-----------------------------------------------------------------------------
\* Batches, fetches and evictions change the cache between each other's critical
\* sections: its list, map and byte count must describe the same entries, within both
\* limits, after every one of them.
CacheConsistent == SupplyTypeOK /\ Consistent(cache)

\* "Concurrent callers never duplicate construction": a key is built again only after
\* its plan was evicted or not retained, also when two callers miss it at once and
\* a fetch from the store publishes it meanwhile.
BuiltOnce == \A k \in Keys : builds[k] <= losses[k] + 1

\* The cache is consistent and saves every construction it can.
CacheCorrect == CacheConsistent /\ BuiltOnce

\* Whatever the disk does to a pack between its header and its chunks, and whichever
\* way a write ends, the plans a job goes on with answer its requests, one by one.
PlansMatchRequests ==
    \A e \in Callers : \A i \in DOMAIN ex[e].got : ex[e].got[i] = ex[e].job.requests[i]

\* A job's plan phase ends: neither build_mutex nor the store can hold it for ever.
PlanPhaseEnds == \A e \in Callers : ex[e].pc # "idle" ~> ex[e].pc = "idle"
=============================================================================
