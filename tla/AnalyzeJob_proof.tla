-------------------------- MODULE AnalyzeJob_proof --------------------------
(***************************************************************************)
(* Proofs about AnalyzeJob and the pool it runs on, CpuAnalysisExecutor, for *)
(* any number of candidates, chunks, threads and calls, each of which may    *)
(* grow the pool.                                                           *)
(*                                                                         *)
(* The pool (IInv).  Whatever its threads report, they take each candidate   *)
(* of the call that waits once (CandidatesOK), and nobody touches what has   *)
(* not been published (Holding, Fresh).  The rest needs the count of the     *)
(* threads that have not reported (Exact), and that is right until a thread  *)
(* is counted for a generation it had no part in: it is the number of the    *)
(* Outstanding threads (Counted).  A thread of the task that is not          *)
(* outstanding has left it for a reason (Explained), and every candidate     *)
(* before the cursor is done or in somebody's hands.                         *)
(*                                                                         *)
(* The job (JobInv).  What its end says of the results rests on what every   *)
(* step before it says of the chunks: a chunk is in the hands of one thread  *)
(* or done, and is missing only for a failure or a cancel (NoneLost); a      *)
(* candidate has its result exactly if its chunk is stored (ResultsStored);  *)
(* and the counter that progress quotes is the number of the candidates      *)
(* whose thread has had the mutex (ProgressCounted).  On the pool, whoever   *)
(* counts the last candidate still has to report it (PoolProgress), so no    *)
(* call returns complete before it is reported.                              *)
(***************************************************************************)
EXTENDS AnalyzeJob, TLAPS, FiniteSetTheorems, WellFoundedInduction

Born(w) == w < pool
Settled(w) == worker[w] = "wait" /\ observed[w] = generation_
Outstanding == {w \in Threads : Born(w) /\ ~Settled(w)}
Computes(w) == worker[w] = "compute" /\ held[w] = call

\* The caller, and how far the threads of the pool have got.
Lifecycle ==
    /\ \A w \in Threads : Born(w) <=> worker[w] # "unborn"
    /\ \A w \in Threads : observed[w] <= generation_
    /\ pool = 0 => call = 0
    /\ generation_ = IF caller = "publish" THEN call - 1 ELSE call
    /\ caller # "idle" => call # 0
    /\ task_ = IF caller = "await" THEN call ELSE NoTask
    /\ caller # "await" => active_workers_ = 0
    /\ caller # "idle" => worker_count[call] \in 1 .. pool

\* A thread holds a task from Wake to LeaveTask, and never one that is not published.
Holding ==
    \A w \in Threads :
        /\ held[w] # NoTask <=> worker[w] \in {"take", "compute", "progress"}
        /\ held[w] # NoTask => held[w] <= call
        /\ held[w] # NoTask /\ held[w] = call => caller # "publish"

\* The candidates of the call that waits.
CandidatesOK ==
    caller = "await" =>
        /\ \A i \in completed[call] : i < cursor[call] /\ i < size[call]
        /\ \A w \in Threads : Computes(w) =>
              index[w] < cursor[call] /\ index[w] < size[call] /\ index[w] \notin completed[call]
        /\ \A v, w \in Threads : Computes(v) /\ Computes(w) /\ v # w => index[v] # index[w]

\* A call that has not been published has touched nothing.
Fresh ==
    \A k \in Calls :
        /\ k > call \/ (k = call /\ caller = "publish") =>
              cursor[k] = 0 /\ completed[k] = {} /\ ~failure[k]
        /\ k > call \/ (k = call /\ caller # "idle") => returned[k] = "no"

\* Between two calls all threads wait, and in one they work on no other task.
AllPresent ==
    \A w \in Threads :
        /\ Born(w) /\ caller = "idle" => Settled(w)
        /\ held[w] # NoTask =>
              caller = "await" /\ held[w] = call /\ w < worker_count[call] /\ observed[w] = generation_

Counted == caller = "await" => active_workers_ = Cardinality(Outstanding)

Explained ==
    caller = "await" =>
        \/ failure[call]
        \/ /\ \A i \in 0 .. size[call] - 1 : i < cursor[call] =>
                 i \in completed[call] \/ \E w \in Threads : Computes(w) /\ index[w] = i
           /\ \A w \in Threads :
                 w < worker_count[call] /\ observed[w] = generation_ /\ held[w] = NoTask
                    => stop[call] \/ cursor[call] >= size[call]

Exact == AllPresent /\ Counted /\ Explained /\ CompleteHasAll

IInv == /\ ExecutorTypeOK /\ Lifecycle /\ Holding /\ CandidatesOK /\ Fresh
        /\ ~misreported => Exact

-----------------------------------------------------------------------------
LEMMA OutstandingFinite ==
    ASSUME ExecutorTypeOK
    PROVE  /\ IsFiniteSet(Outstanding)
           /\ Cardinality(Outstanding) \in Nat
           /\ Cardinality(Outstanding) = 0 <=> Outstanding = {}
  <1>1. IsFiniteSet(Threads)
    BY BoundsOK, FS_Interval DEF Threads
  <1>2. IsFiniteSet(Outstanding)
    BY <1>1, FS_Subset DEF Outstanding
  <1> QED BY <1>2, FS_CardinalityType, FS_EmptySet

\* Between two calls of a pool of any size.
LEMMA ResidentHolds ==
    ASSUME NEW p \in 0 .. MaxWorkers, Resident(p)
    PROVE  IInv
  <1>1. ExecutorTypeOK
    <2>1. /\ call \in 0 .. MaxCalls /\ generation_ = call /\ 0 \in 0 .. MaxCalls
          /\ 0 \in 0 .. MaxWorkers /\ 0 \in 0 .. MaxCandidates /\ 0 \in 0 .. MaxCandidates - 1
      BY BoundsOK DEF Resident
    <2> QED BY <2>1 DEF Resident, ExecutorTypeOK, Threads, Calls, NoTask
  <1>2. Lifecycle
    BY BoundsOK DEF Resident, Lifecycle, Born, Threads, NoTask
  <1>3. Holding /\ Fresh /\ CompleteHasAll /\ AllPresent
    BY BoundsOK DEF Resident, Holding, Fresh, CompleteHasAll, AllPresent, Born, Settled, Calls,
                    Threads, NoTask
  <1>4. Counted /\ CandidatesOK /\ Explained
    BY DEF Resident, Counted, CandidatesOK, Explained
  <1> QED BY <1>1, <1>2, <1>3, <1>4 DEF IInv, Exact

LEMMA InitHolds == ExecutorInit => IInv
  BY BoundsOK, ResidentHolds DEF ExecutorInit

\* A call begins, and may add threads, which have observed no generation.
LEMMA BeginKeeps ==
    ASSUME IInv, NEW n \in 1 .. MaxCandidates, NEW c \in 1 .. MaxWorkers,
           NEW s \in BOOLEAN, Begin(n, c, s)
    PROVE  IInv'
  <1> DEFINE count == IF c < n THEN c ELSE n
  <1> USE BoundsOK
  <1>1. /\ count \in 1 .. MaxWorkers
        /\ caller = "idle" /\ caller' = "publish" /\ call < MaxCalls /\ call' = call + 1
        /\ pool' = (IF pool < count THEN count ELSE pool)
    BY DEF Begin
  <1>2. /\ call \in 0 .. MaxCalls /\ call' \in Calls /\ pool \in 0 .. MaxWorkers
        /\ pool' \in 0 .. MaxWorkers /\ count \in 1 .. pool' /\ generation_ = call
    BY <1>1 DEF IInv, ExecutorTypeOK, Lifecycle, Calls
  <1>4. \A w \in Threads : worker'[w] = IF pool <= w /\ w < count THEN "wait" ELSE worker[w]
    BY DEF Begin
  <1>5. /\ worker_count' = [worker_count EXCEPT ![call'] = count]
        /\ size' = [size EXCEPT ![call'] = n]
        /\ UNCHANGED <<task_, generation_, active_workers_, misreported, observed, held, index,
                       counted, cursor, completed, last_reported, failure, returned>>
        /\ stop' = [stop EXCEPT ![call'] = s]
    BY DEF Begin
  <1>3. ExecutorTypeOK'
    <2>1. worker' \in [Threads -> {"unborn", "wait", "take", "compute", "progress", "report"}]
      BY DEF IInv, ExecutorTypeOK, Begin
    <2>2. /\ worker_count' \in [Calls -> 0 .. MaxWorkers]
          /\ size' \in [Calls -> 0 .. MaxCandidates]
      BY <1>1, <1>2, <1>5 DEF IInv, ExecutorTypeOK
    <2>3. call' \in 0 .. MaxCalls
      BY <1>2 DEF Calls
    <2> QED BY <1>1, <1>2, <1>5, <2>1, <2>2, <2>3 DEF IInv, ExecutorTypeOK
  <1>6. Lifecycle'
    <2>1. worker_count'[call'] = count
      BY <1>2, <1>5 DEF IInv, ExecutorTypeOK
    <2>2. \A w \in Threads : w < pool' <=> worker'[w] # "unborn"
      BY <1>1, <1>2, <1>4 DEF IInv, Lifecycle, Born, Threads
    <2> QED BY <1>1, <1>2, <1>5, <2>1, <2>2 DEF IInv, Lifecycle, Born
  <1>7. CandidatesOK' /\ Counted' /\ Explained'
    BY <1>1 DEF CandidatesOK, Counted, Explained
  <1>8. Holding'
    <2>1. \A w \in Threads : pool <= w => worker[w] = "unborn" /\ held[w] = NoTask
      <3> SUFFICES ASSUME NEW w \in Threads, pool <= w
                   PROVE  worker[w] = "unborn" /\ held[w] = NoTask
        OBVIOUS
      <3>1. ~Born(w)
        BY <1>2 DEF Born, Threads
      <3> QED BY <3>1 DEF IInv, Lifecycle, Holding
    <2>2. \A w \in Threads : held[w] # NoTask => held[w] <= call' /\ held[w] # call'
      BY <1>1, <1>2 DEF IInv, ExecutorTypeOK, Holding
    <2> QED BY <1>4, <1>5, <2>1, <2>2 DEF IInv, Holding, Threads
  <1>9. Fresh'
    BY <1>1, <1>2, <1>5 DEF IInv, Fresh, Calls
  <1>10. ASSUME ~misreported PROVE AllPresent' /\ CompleteHasAll'
    <2>1. returned[call'] = "no"
      BY <1>1, <1>2 DEF IInv, Fresh
    <2>2. \A k \in Calls : k # call' => size'[k] = size[k]
      BY <1>5 DEF IInv, ExecutorTypeOK
    <2>3. CompleteHasAll'
      BY <1>5, <1>10, <2>1, <2>2 DEF IInv, Exact, CompleteHasAll
    <2>4. \A w \in Threads : held[w] = NoTask
      BY <1>1, <1>10 DEF IInv, Exact, AllPresent
    <2>5. AllPresent'
      BY <1>1, <1>5, <2>4 DEF AllPresent
    <2> QED BY <2>3, <2>5
  <1> QED BY <1>3, <1>5, <1>6, <1>7, <1>8, <1>9, <1>10 DEF IInv, Exact

\* The task is published to all threads of the pool, and all are outstanding.
LEMMA PublishKeeps ==
    ASSUME IInv, Publish
    PROVE  IInv'
  <1> USE BoundsOK
  <1>1. /\ caller = "publish" /\ caller' = "await" /\ task_' = call /\ active_workers_' = pool
        /\ generation_' = generation_ + 1
        /\ UNCHANGED <<call, pool, misreported, worker, observed, held, index, counted, size,
                       worker_count, cursor, completed, last_reported, failure, stop, returned>>
    BY DEF Publish, thread_vars, task_vars
  <1>2. call \in Calls /\ generation_ = call - 1 /\ generation_' = call
    BY <1>1 DEF IInv, ExecutorTypeOK, Lifecycle, Calls
  <1>3. ExecutorTypeOK'
    BY <1>1, <1>2 DEF IInv, ExecutorTypeOK, Calls
  <1>5. \A w \in Threads : observed[w] <= generation_ /\ observed[w] # generation_'
    BY <1>1, <1>2 DEF IInv, ExecutorTypeOK, Lifecycle
  <1>4. Lifecycle'
    <2>1. \A w \in Threads : observed[w] <= generation_'
      BY <1>1, <1>2, <1>5 DEF IInv, ExecutorTypeOK
    <2> QED BY <1>1, <1>2, <2>1 DEF IInv, Lifecycle, Born, ExecutorTypeOK, NoTask
  <1>6. \A w \in Threads : ~(Computes(w)) /\ ~(Computes(w)')
    BY <1>1, <1>2 DEF IInv, Holding, Computes, Calls, NoTask
  <1>7. Holding'
    BY <1>1, <1>2 DEF IInv, Holding
  <1>8. cursor[call] = 0 /\ completed[call] = {}
    BY <1>1, <1>2 DEF IInv, Fresh
  <1>9. CandidatesOK'
    BY <1>1, <1>6, <1>8 DEF CandidatesOK
  <1>11. Fresh'
    BY <1>1 DEF IInv, Fresh
  <1>12. ASSUME ~misreported PROVE Exact'
    <2>1. \A w \in Threads : held[w] = NoTask
      BY <1>1, <1>12 DEF IInv, Exact, AllPresent
    <2>2. AllPresent'
      BY <1>1, <2>1 DEF AllPresent
    <2>3. Counted'
      <3>1. Outstanding' = 0 .. pool - 1
        BY SMTT(20), <1>1, <1>5 DEF Outstanding, Born, Settled, Threads, IInv, ExecutorTypeOK
      <3>2. Cardinality(0 .. pool - 1) = pool
        BY FS_Interval DEF IInv, ExecutorTypeOK
      <3> QED BY <1>1, <3>1, <3>2 DEF Counted
    <2>4. Explained'
      <3>1. \A i \in 0 .. size[call] - 1 : ~(i < cursor[call])
        BY <1>2, <1>8 DEF IInv, ExecutorTypeOK
      <3> QED BY <1>1, <1>5, <3>1 DEF Explained
    <2>5. CompleteHasAll'
      BY <1>1, <1>12 DEF IInv, Exact, CompleteHasAll
    <2> QED BY <2>2, <2>3, <2>4, <2>5 DEF Exact
  <1> QED BY <1>1, <1>3, <1>4, <1>7, <1>9, <1>11, <1>12 DEF IInv

\* Nobody is outstanding: thread 0 had the task and left it, so if nothing failed and
\* nobody stopped it no candidate is left, and nobody computes one.
LEMMA ReturnKeeps ==
    ASSUME IInv, Return
    PROVE  IInv'
  <1> USE BoundsOK
  <1>1. /\ caller = "await" /\ caller' = "idle" /\ task_' = NoTask /\ active_workers_ = 0
        /\ returned' = [returned EXCEPT ![call] =
                            IF failure[call] THEN "threw"
                            ELSE IF stop[call] THEN "cancelled" ELSE "complete"]
        /\ UNCHANGED <<call, pool, generation_, active_workers_, misreported, worker, observed, held,
                       index, counted, size, worker_count, cursor, completed, last_reported, failure, stop>>
    BY DEF Return, AllReported, thread_vars, task_vars
  <1>2. call \in Calls
    BY <1>1 DEF IInv, ExecutorTypeOK, Lifecycle, Calls
  <1>3. ExecutorTypeOK'
    BY <1>1, <1>2 DEF IInv, ExecutorTypeOK, NoTask
  <1>4. Lifecycle' /\ Holding'
    BY <1>1 DEF IInv, Lifecycle, Holding, Born
  <1>5. CandidatesOK' /\ Counted' /\ Explained'
    BY <1>1 DEF CandidatesOK, Counted, Explained
  <1>6. Fresh'
    BY <1>1, <1>2 DEF IInv, Fresh, ExecutorTypeOK, Calls
  <1>7. ASSUME ~misreported PROVE AllPresent' /\ CompleteHasAll'
    <2>1. \A w \in Threads : Born(w) => Settled(w)
      BY <1>1, <1>7, OutstandingFinite DEF IInv, Exact, Counted, Outstanding
    <2>2. \A w \in Threads : held[w] = NoTask /\ worker[w] # "compute"
      BY <1>7, <2>1 DEF IInv, Lifecycle, Holding, Born, Settled
    <2>3. AllPresent'
      BY <1>1, <2>1, <2>2 DEF AllPresent, Born, Settled
    <2>4. ASSUME ~failure[call], ~stop[call]
          PROVE  completed[call] = 0 .. size[call] - 1
      <3>1. 0 \in Threads /\ Born(0) /\ 0 < worker_count[call]
        BY <1>1, <1>2 DEF IInv, ExecutorTypeOK, Lifecycle, Born, Threads
      <3>2. cursor[call] >= size[call]
        BY <1>1, <1>7, <2>1, <2>2, <2>4, <3>1 DEF IInv, Exact, Explained, Settled
      <3>3. \A i \in 0 .. size[call] - 1 : i \in completed[call]
        BY <1>1, <1>2, <1>7, <2>2, <2>4, <3>2 DEF IInv, Exact, ExecutorTypeOK, Explained, Computes
      <3>4. \A i \in completed[call] : i \in 0 .. size[call] - 1
        BY <1>1, <1>2 DEF IInv, ExecutorTypeOK, CandidatesOK
      <3> QED BY <3>3, <3>4
    <2>5. \A k \in Calls : k # call => returned'[k] = returned[k]
      BY <1>1 DEF IInv, ExecutorTypeOK
    <2>6. returned'[call] = "complete" => ~failure[call] /\ ~stop[call]
      BY <1>1, <1>2 DEF IInv, ExecutorTypeOK
    <2>7. CompleteHasAll'
      BY <1>1, <1>7, <2>4, <2>5, <2>6 DEF IInv, Exact, CompleteHasAll
    <2> QED BY <2>3, <2>7
  <1> QED BY <1>1, <1>3, <1>4, <1>5, <1>6, <1>7 DEF IInv, Exact

LEMMA StopTaskKeeps ==
    ASSUME IInv, StopTask
    PROVE  IInv'
  <1>1. /\ call \in Calls
        /\ stop' = [stop EXCEPT ![call] = TRUE]
        /\ UNCHANGED <<caller, call, pool, task_, generation_, active_workers_, misreported, worker,
                       observed, held, index, counted, size, worker_count, cursor, completed,
                       last_reported, failure, returned>>
    BY BoundsOK DEF StopTask, IInv, ExecutorTypeOK, Lifecycle, Calls, pool_vars, thread_vars, task_vars
  <1>2. ExecutorTypeOK'
    BY <1>1 DEF IInv, ExecutorTypeOK
  <1>3. Lifecycle' /\ Holding' /\ CandidatesOK' /\ Fresh'
    BY <1>1 DEF IInv, Lifecycle, Born, Holding, CandidatesOK, Computes, Fresh
  <1>4. stop'[call] = TRUE
    BY <1>1 DEF IInv, ExecutorTypeOK
  <1>5. ASSUME ~misreported PROVE Exact'
    <2>1. AllPresent' /\ Counted' /\ CompleteHasAll'
      BY <1>1, <1>5 DEF IInv, Exact, AllPresent, Counted, Outstanding, Born, Settled, CompleteHasAll
    <2>2. Explained'
      BY <1>1, <1>4, <1>5 DEF IInv, Exact, Explained, Computes
    <2> QED BY <2>1, <2>2 DEF Exact
  <1> QED BY <1>1, <1>2, <1>3, <1>5 DEF IInv

-----------------------------------------------------------------------------
\* A thread with a task: its task has been published; and it is the call's own, as long as
\* the reports are right.
LEMMA TaskOfHolder ==
    ASSUME IInv, NEW w \in Threads, worker[w] \in {"take", "compute", "progress"}
    PROVE  /\ held[w] \in Calls /\ held[w] <= call /\ call \in Calls /\ Born(w) /\ ~Settled(w)
           /\ held[w] # call \/ caller \in {"idle", "await"}
           /\ ~misreported => /\ held[w] = call /\ caller = "await" /\ w < worker_count[call]
                              /\ observed[w] = generation_
  <1>1. held[w] # NoTask /\ held[w] <= call
    BY DEF IInv, Holding
  <1>2. held[w] \in Calls /\ call \in Calls
    BY <1>1 DEF IInv, ExecutorTypeOK, Calls, NoTask
  <1>3. Born(w) /\ ~Settled(w)
    BY DEF IInv, Lifecycle, Settled
  <1>4. held[w] # call \/ caller \in {"idle", "await"}
    BY <1>1 DEF IInv, ExecutorTypeOK, Holding
  <1>5. ASSUME ~misreported
        PROVE  /\ held[w] = call /\ caller = "await" /\ w < worker_count[call]
               /\ observed[w] = generation_
    BY <1>1, <1>5 DEF IInv, Exact, AllPresent
  <1> QED BY <1>1, <1>2, <1>3, <1>4, <1>5

LEMMA WakeKeeps ==
    ASSUME IInv, NEW w \in Threads, Wake(w)
    PROVE  IInv'
  <1>1. /\ worker[w] = "wait" /\ generation_ # observed[w]
        /\ observed' = [observed EXCEPT ![w] = generation_]
        /\ UNCHANGED <<caller, call, pool, task_, generation_, active_workers_, misreported, index,
                       counted, size, worker_count, cursor, completed, last_reported, failure, stop,
                       returned>>
    BY DEF Wake, pool_vars, task_vars
  <1>2. Born(w) /\ ~Settled(w) /\ held[w] = NoTask
    BY <1>1 DEF IInv, Lifecycle, Holding, Settled
  <1>3. /\ caller = "await" => task_ = call /\ call \in Calls /\ call # NoTask
        /\ caller # "await" => task_ = NoTask
    BY DEF IInv, ExecutorTypeOK, Lifecycle, Calls, NoTask
  <1>4. \/ /\ caller = "await" /\ w < worker_count[call]
           /\ held' = [held EXCEPT ![w] = call]
           /\ worker' = [worker EXCEPT ![w] = "take"]
        \/ /\ ~(caller = "await" /\ w < worker_count[call])
           /\ worker' = [worker EXCEPT ![w] = "report"]
           /\ held' = held
    BY <1>3 DEF Wake
  <1>5. /\ \A v \in Threads : v # w => /\ worker'[v] = worker[v] /\ observed'[v] = observed[v]
                                       /\ held'[v] = held[v]
        /\ observed'[w] = generation_
        /\ \/ /\ caller = "await" /\ w < worker_count[call]
              /\ worker'[w] = "take" /\ held'[w] = call
           \/ /\ ~(caller = "await" /\ w < worker_count[call])
              /\ worker'[w] = "report" /\ held'[w] = NoTask
    BY <1>1, <1>2, <1>4 DEF IInv, ExecutorTypeOK
  <1>6. ExecutorTypeOK'
    BY <1>1, <1>3, <1>4 DEF IInv, ExecutorTypeOK, Calls
  <1>7. Lifecycle'
    <2>1. \A v \in Threads : observed'[v] <= generation_
      BY <1>5 DEF IInv, ExecutorTypeOK, Lifecycle
    <2> QED BY <1>1, <1>2, <1>5, <2>1 DEF IInv, Lifecycle, Born
  <1>8. Holding'
    <2> SUFFICES ASSUME NEW v \in Threads
                 PROVE  /\ held'[v] # NoTask <=> worker'[v] \in {"take", "compute", "progress"}
                        /\ held'[v] # NoTask => held'[v] <= call
                        /\ held'[v] # NoTask /\ held'[v] = call => caller # "publish"
      BY <1>1 DEF Holding
    <2>1. call <= call
      BY DEF IInv, ExecutorTypeOK
    <2>2. CASE v = w
      BY <1>3, <1>5, <2>1, <2>2
    <2>3. CASE v # w
      BY <1>5, <2>3 DEF IInv, Holding
    <2> QED BY <2>2, <2>3
  <1>9. \A v \in Threads : Computes(v)' <=> Computes(v)
    BY <1>1, <1>5 DEF Computes
  <1>10. CandidatesOK'
    BY <1>1, <1>9 DEF IInv, CandidatesOK
  <1>11. Fresh'
    BY <1>1 DEF IInv, Fresh
  <1>12. ASSUME ~misreported PROVE Exact'
    <2>1. Outstanding' = Outstanding
      BY <1>1, <1>2, <1>5 DEF Outstanding, Born, Settled
    <2>2. Counted'
      BY <1>1, <1>12, <2>1 DEF IInv, Exact, Counted
    <2>3. AllPresent'
      <3>1. caller # "idle"
        BY <1>2, <1>12 DEF IInv, Exact, AllPresent
      <3> QED BY <1>1, <1>5, <1>12, <3>1 DEF IInv, Exact, AllPresent
    <2>4. Explained'
      BY <1>1, <1>3, <1>5, <1>9, <1>12 DEF IInv, Exact, Explained
    <2>5. CompleteHasAll'
      BY <1>1, <1>12 DEF IInv, Exact, CompleteHasAll
    <2> QED BY <2>2, <2>3, <2>4, <2>5 DEF Exact
  <1> QED BY <1>1, <1>6, <1>7, <1>8, <1>10, <1>11, <1>12 DEF IInv

\* The parts that are about threads, when one of them stays in its task or leaves it.
LEMMA StepInTask ==
    ASSUME IInv, NEW w \in Threads, worker[w] \in {"take", "compute", "progress"},
           UNCHANGED <<caller, call, pool, task_, generation_, active_workers_, misreported, observed,
                       worker_count, returned, size>>,
           \/ /\ worker' \in {[worker EXCEPT ![w] = "take"], [worker EXCEPT ![w] = "compute"],
                             [worker EXCEPT ![w] = "progress"]}
              /\ held' = held
           \/ LeaveTask(w),
           \A k \in Calls : k # held[w] =>
               cursor'[k] = cursor[k] /\ completed'[k] = completed[k] /\ failure'[k] = failure[k]
    PROVE  /\ Lifecycle' /\ Holding' /\ Fresh'
           /\ ~misreported => AllPresent' /\ Counted' /\ CompleteHasAll'
  <1>1. /\ held[w] \in Calls /\ held[w] <= call /\ call \in Calls /\ held[w] # NoTask
        /\ Born(w) /\ ~Settled(w)
    BY TaskOfHolder DEF Calls, NoTask
  <1>2. /\ \A v \in Threads : v # w => worker'[v] = worker[v] /\ held'[v] = held[v]
        /\ \/ worker'[w] \in {"take", "compute", "progress"} /\ held'[w] = held[w]
           \/ worker'[w] = "report" /\ held'[w] = NoTask
    BY <1>1 DEF LeaveTask, IInv, ExecutorTypeOK
  <1>3. Lifecycle'
    BY <1>1, <1>2 DEF IInv, Lifecycle, Born
  <1>4. Holding'
    BY <1>1, <1>2 DEF IInv, Holding
  <1>5. Fresh'
    <2>1. \A k \in Calls : k > call \/ (k = call /\ caller = "publish") => k # held[w]
      BY <1>1 DEF IInv, Holding, Calls
    <2> QED BY <2>1 DEF IInv, Fresh
  <1>6. ASSUME ~misreported PROVE AllPresent' /\ Counted' /\ CompleteHasAll'
    <2>1. /\ held[w] = call /\ caller = "await" /\ w < worker_count[call]
          /\ observed[w] = generation_
      BY <1>6, TaskOfHolder
    <2>2. Outstanding' = Outstanding
      BY <1>1, <1>2 DEF Outstanding, Born, Settled
    <2>3. Counted'
      BY <1>6, <2>2 DEF IInv, Exact, Counted
    <2>4. AllPresent'
      BY <1>2, <1>6, <2>1 DEF IInv, Exact, AllPresent
    <2>5. returned[call] = "no"
      BY <1>1, <2>1 DEF IInv, Fresh
    <2>6. CompleteHasAll'
      BY <1>6, <2>1, <2>5 DEF IInv, Exact, CompleteHasAll
    <2> QED BY <2>3, <2>4, <2>6
  <1> QED BY <1>3, <1>4, <1>5, <1>6

\* The candidates of the call stay as they are when the thread's task is another one's, and
\* when it begins no candidate and the others' do not change.
LEMMA SameCandidates ==
    ASSUME IInv, UNCHANGED <<caller, call, size>>,
           \A v \in Threads : Computes(v)' => Computes(v) /\ index'[v] = index[v],
           caller = "await" => cursor'[call] = cursor[call] /\ completed'[call] = completed[call]
    PROVE  CandidatesOK'
  BY DEF IInv, CandidatesOK

LEMMA TakeKeeps ==
    ASSUME IInv, NEW w \in Threads, Take(w)
    PROVE  IInv'
  <1> USE BoundsOK
  <1> DEFINE k == held[w]
  <1>1. worker[w] = "take"
    BY DEF Take
  <1>2. /\ k \in Calls /\ k <= call /\ call \in Calls
        /\ ~misreported => /\ k = call /\ caller = "await" /\ w < worker_count[call]
                           /\ observed[w] = generation_
    BY <1>1, TaskOfHolder
  <1>3. UNCHANGED <<caller, call, pool, task_, generation_, active_workers_, misreported, observed,
                    counted, size, worker_count, completed, last_reported, failure, stop, returned>>
    BY DEF Take, pool_vars
  <1>4. /\ cursor[k] \in Nat /\ size[k] \in 0 .. MaxCandidates
        /\ cursor[call] \in Nat /\ size[call] \in 0 .. MaxCandidates
    BY <1>2 DEF IInv, ExecutorTypeOK
  <1>5. CASE stop[k] /\ LeaveTask(w) /\ UNCHANGED <<index, cursor>>
    <2>1. /\ worker' = [worker EXCEPT ![w] = "report"] /\ held' = [held EXCEPT ![w] = NoTask]
      BY <1>5 DEF LeaveTask
    <2>2. ExecutorTypeOK'
      BY <1>3, <1>5, <2>1 DEF IInv, ExecutorTypeOK, NoTask
    <2>3. /\ Lifecycle' /\ Holding' /\ Fresh'
          /\ ~misreported => AllPresent' /\ Counted' /\ CompleteHasAll'
      BY <1>1, <1>3, <1>5, StepInTask
    <2>4. \A v \in Threads : Computes(v)' <=> Computes(v)
      BY <1>1, <1>3, <2>1 DEF IInv, ExecutorTypeOK, Computes
    <2>5. CandidatesOK'
      BY <1>3, <1>5, <2>4, SameCandidates
    <2>6. ASSUME ~misreported PROVE Explained'
      BY <1>2, <1>3, <1>5, <2>1, <2>4, <2>6 DEF IInv, Exact, ExecutorTypeOK, Explained
    <2> QED BY <1>3, <2>2, <2>3, <2>5, <2>6 DEF IInv, Exact
  <1>6. CASE /\ cursor' = [cursor EXCEPT ![k] = @ + 1]
             /\ Exhausted(k) /\ LeaveTask(w) /\ UNCHANGED index
    <2>1. /\ worker' = [worker EXCEPT ![w] = "report"] /\ held' = [held EXCEPT ![w] = NoTask]
      BY <1>6 DEF LeaveTask
    <2>2. /\ cursor'[k] = cursor[k] + 1 /\ cursor[k] >= size[k]
          /\ \A i \in Calls : i # k => cursor'[i] = cursor[i]
      BY <1>2, <1>6 DEF IInv, ExecutorTypeOK, Exhausted
    <2>3. ExecutorTypeOK'
      <3>1. cursor' \in [Calls -> Nat]
        BY <1>2, <1>4, <1>6 DEF IInv, ExecutorTypeOK
      <3> QED BY <1>3, <1>6, <2>1, <3>1 DEF IInv, ExecutorTypeOK, NoTask
    <2>4. /\ Lifecycle' /\ Holding' /\ Fresh'
          /\ ~misreported => AllPresent' /\ Counted' /\ CompleteHasAll'
      BY <1>1, <1>3, <1>6, <2>2, StepInTask
    <2>5. \A v \in Threads : Computes(v)' <=> Computes(v)
      BY <1>1, <1>3, <2>1 DEF IInv, ExecutorTypeOK, Computes
    <2>6. CandidatesOK'
      <3>1. \A i \in 0 .. MaxCandidates - 1 : i < cursor[call] => i < cursor'[call]
        BY <1>2, <1>4, <2>2
      <3>2. /\ completed[call] \subseteq 0 .. MaxCandidates - 1
            /\ \A v \in Threads : index[v] \in 0 .. MaxCandidates - 1
        BY <1>2 DEF IInv, ExecutorTypeOK
      <3> QED BY <1>2, <1>3, <1>6, <2>5, <3>1, <3>2 DEF IInv, CandidatesOK
    <2>7. ASSUME ~misreported PROVE Explained'
      <3>1. cursor'[call] >= size[call] /\ \A i \in 0 .. size[call] - 1 : i < cursor[call]
        BY <1>2, <1>4, <2>2, <2>7
      <3> QED BY <1>2, <1>3, <1>6, <2>5, <2>7, <3>1 DEF IInv, Exact, Explained
    <2> QED BY <1>3, <2>3, <2>4, <2>6, <2>7 DEF IInv, Exact
  <1>7. CASE /\ cursor' = [cursor EXCEPT ![k] = @ + 1]
             /\ ~Exhausted(k)
             /\ index' = [index EXCEPT ![w] = cursor[k]]
             /\ worker' = [worker EXCEPT ![w] = "compute"]
             /\ UNCHANGED held
    <2>1. /\ cursor'[k] = cursor[k] + 1 /\ cursor[k] < size[k]
          /\ index'[w] = cursor[k] /\ worker'[w] = "compute"
          /\ \A v \in Threads : v # w => index'[v] = index[v] /\ worker'[v] = worker[v]
          /\ \A i \in Calls : i # k => cursor'[i] = cursor[i]
      BY <1>2, <1>4, <1>7 DEF IInv, ExecutorTypeOK, Exhausted
    <2>2. cursor[k] \in 0 .. MaxCandidates - 1
      BY <1>4, <2>1
    <2>3. ExecutorTypeOK'
      <3>1. cursor' \in [Calls -> Nat] /\ index' \in [Threads -> 0 .. MaxCandidates - 1]
        BY <1>2, <1>4, <1>7, <2>2 DEF IInv, ExecutorTypeOK
      <3> QED BY <1>3, <1>7, <3>1 DEF IInv, ExecutorTypeOK
    <2>4. /\ Lifecycle' /\ Holding' /\ Fresh'
          /\ ~misreported => AllPresent' /\ Counted' /\ CompleteHasAll'
      BY <1>1, <1>3, <1>7, <2>1, StepInTask
    <2>5. caller = "await" =>
              /\ \A i \in completed[call] : i \in Nat /\ i < cursor[call] /\ i < size[call]
              /\ \A v \in Threads : Computes(v) =>
                    /\ index[v] \in Nat /\ index[v] < cursor[call] /\ index[v] < size[call]
                    /\ index[v] \notin completed[call]
      BY <1>2 DEF IInv, ExecutorTypeOK, CandidatesOK
    <2>6. CASE k # call
      <3>1. \A v \in Threads : Computes(v)' => Computes(v) /\ index'[v] = index[v]
        BY <1>3, <1>7, <2>1, <2>6 DEF Computes
      <3>2. CandidatesOK'
        BY <1>2, <1>3, <2>1, <2>6, <3>1, SameCandidates
      <3> QED BY <1>2, <1>3, <2>3, <2>4, <2>6, <3>2 DEF IInv
    <2>7. CASE k = call
      <3>1. \A v \in Threads : Computes(v)' <=> v = w \/ Computes(v)
        BY <1>3, <1>7, <2>1, <2>7 DEF Computes
      <3>2. CandidatesOK'
        <4> SUFFICES ASSUME caller = "await" PROVE CandidatesOK'
          BY <1>3 DEF CandidatesOK
        <4>1. /\ \A i \in completed[call] : i < cursor'[call] /\ i < size[call]
              /\ cursor[call] \notin completed[call]
          BY <1>4, <2>1, <2>5, <2>7
        <4>2. \A v \in Threads : Computes(v)' =>
                  index'[v] < cursor'[call] /\ index'[v] < size[call] /\ index'[v] \notin completed[call]
          BY <1>4, <2>1, <2>5, <2>7, <3>1, <4>1
        <4>3. \A u, v \in Threads : Computes(u)' /\ Computes(v)' /\ u # v => index'[u] # index'[v]
          BY <1>4, <2>1, <2>5, <2>7, <3>1 DEF IInv, CandidatesOK
        <4> QED BY <1>3, <4>1, <4>2, <4>3 DEF CandidatesOK
      <3>3. ASSUME ~misreported PROVE Explained'
        <4>1. ASSUME ~failure[call], NEW i \in 0 .. size[call] - 1, i < cursor'[call]
              PROVE  i \in completed[call] \/ \E v \in Threads : Computes(v)' /\ index'[v] = i
          <5>1. CASE i = cursor[call]
            BY <2>1, <2>7, <3>1, <5>1
          <5>2. CASE i < cursor[call]
            <6>1. i \in completed[call] \/ \E v \in Threads : Computes(v) /\ index[v] = i
              BY <1>2, <3>3, <4>1, <5>2 DEF IInv, Exact, Explained
            <6>2. ~Computes(w)
              BY <1>1 DEF Computes
            <6> QED BY <2>1, <3>1, <6>1, <6>2
          <5> QED BY <1>4, <2>1, <2>7, <4>1, <5>1, <5>2
        <4>2. ASSUME ~failure[call], NEW v \in Threads, v < worker_count[call],
                     observed[v] = generation_, held[v] = NoTask
              PROVE  stop[call] \/ cursor'[call] >= size[call]
          <5>1. stop[call] \/ cursor[call] >= size[call]
            BY <1>2, <3>3, <4>2 DEF IInv, Exact, Explained
          <5> QED BY <1>4, <2>1, <2>7, <5>1
        <4> QED BY <1>3, <1>7, <4>1, <4>2 DEF Explained
      <3> QED BY <1>3, <2>3, <2>4, <3>2, <3>3 DEF IInv, Exact
    <2> QED BY <2>6, <2>7
  <1> QED BY <1>5, <1>6, <1>7 DEF Take

LEMMA ComputeKeeps ==
    ASSUME IInv, NEW w \in Threads, Compute(w)
    PROVE  IInv'
  <1> USE BoundsOK
  <1> DEFINE k == held[w]
  <1>1. worker[w] = "compute"
    BY DEF Compute
  <1>2. /\ k \in Calls /\ k <= call /\ call \in Calls
        /\ ~misreported => /\ k = call /\ caller = "await" /\ w < worker_count[call]
                           /\ observed[w] = generation_
    BY <1>1, TaskOfHolder
  <1>3. UNCHANGED <<caller, call, pool, task_, generation_, active_workers_, misreported, observed,
                    index, size, worker_count, last_reported, stop, returned>>
    BY DEF Compute, pool_vars
  <1>4. cursor[k] \in Nat /\ size[k] \in 0 .. MaxCandidates
    BY <1>2 DEF IInv, ExecutorTypeOK
  <1>5. CASE /\ completed' = [completed EXCEPT ![k] = @ \cup {index[w]}]
             /\ counted' = [counted EXCEPT ![w] = Cardinality(completed'[k])]
             /\ worker' = [worker EXCEPT ![w] = "progress"]
             /\ UNCHANGED <<held, cursor, failure>>
    <2>1. /\ completed'[k] = completed[k] \cup {index[w]}
          /\ \A i \in Calls : i # k => completed'[i] = completed[i]
          /\ worker'[w] = "progress" /\ \A v \in Threads : v # w => worker'[v] = worker[v]
      BY <1>2, <1>5 DEF IInv, ExecutorTypeOK
    <2>2. ExecutorTypeOK'
      <3>1. completed' \in [Calls -> SUBSET (0 .. MaxCandidates - 1)]
        BY <1>2, <1>5 DEF IInv, ExecutorTypeOK
      <3>2. Cardinality(completed'[k]) \in Nat
        <4>1. completed'[k] \subseteq 0 .. MaxCandidates - 1
          BY <1>2, <3>1
        <4>2. IsFiniteSet(0 .. MaxCandidates - 1)
          BY FS_Interval
        <4> QED BY <4>1, <4>2, FS_Subset, FS_CardinalityType
      <3>3. counted' \in [Threads -> Nat]
        BY <1>5, <3>2 DEF IInv, ExecutorTypeOK
      <3> QED BY <1>3, <1>5, <3>1, <3>3 DEF IInv, ExecutorTypeOK
    <2>3. /\ Lifecycle' /\ Holding' /\ Fresh'
          /\ ~misreported => AllPresent' /\ Counted' /\ CompleteHasAll'
      BY <1>1, <1>3, <1>5, <2>1, StepInTask
    <2>4. \A v \in Threads : Computes(v)' <=> Computes(v) /\ v # w
      BY <1>3, <1>5, <2>1 DEF Computes
    <2>5. CandidatesOK'
      <3>1. CASE k # call
        <4>1. \A v \in Threads : Computes(v)' => Computes(v) /\ index'[v] = index[v]
          BY <1>3, <2>4
        <4> QED BY <1>2, <1>3, <1>5, <2>1, <3>1, <4>1, SameCandidates
      <3>2. CASE k = call
        <4>1. Computes(w)
          BY <1>1, <3>2 DEF Computes
        <4> QED BY <1>2, <1>3, <1>5, <2>1, <2>4, <3>2, <4>1 DEF IInv, CandidatesOK
      <3> QED BY <3>1, <3>2
    <2>6. ASSUME ~misreported PROVE Explained'
      BY <1>1, <1>2, <1>3, <1>5, <2>1, <2>4, <2>6 DEF IInv, Exact, Explained
    <2> QED BY <1>3, <2>2, <2>3, <2>5, <2>6 DEF IInv, Exact
  <1>6. CASE /\ failure' = [failure EXCEPT ![k] = TRUE]
             /\ cursor' = [cursor EXCEPT ![k] = size[k]]
             /\ LeaveTask(w)
             /\ UNCHANGED <<completed, counted>>
    <2>1. /\ worker' = [worker EXCEPT ![w] = "report"] /\ held' = [held EXCEPT ![w] = NoTask]
          /\ failure'[k] = TRUE /\ cursor'[k] = size[k]
          /\ \A i \in Calls : i # k => cursor'[i] = cursor[i] /\ failure'[i] = failure[i]
      BY <1>2, <1>6 DEF IInv, ExecutorTypeOK, LeaveTask
    <2>2. ExecutorTypeOK'
      <3>1. cursor' \in [Calls -> Nat] /\ failure' \in [Calls -> BOOLEAN]
        BY <1>2, <1>4, <1>6 DEF IInv, ExecutorTypeOK
      <3> QED BY <1>3, <1>6, <2>1, <3>1 DEF IInv, ExecutorTypeOK, NoTask
    <2>3. /\ Lifecycle' /\ Holding' /\ Fresh'
          /\ ~misreported => AllPresent' /\ Counted' /\ CompleteHasAll'
      BY <1>1, <1>3, <1>6, <2>1, StepInTask
    <2>4. \A v \in Threads : Computes(v)' => Computes(v)
      BY <1>3, <2>1 DEF IInv, ExecutorTypeOK, Computes
    <2>5. CandidatesOK'
      <3>1. CASE k # call
        BY <1>2, <1>3, <1>6, <2>1, <2>4, <3>1, SameCandidates
      <3>2. CASE k = call
        BY <1>2, <1>3, <1>6, <2>1, <2>4, <3>2 DEF IInv, CandidatesOK
      <3> QED BY <3>1, <3>2
    <2>6. ASSUME ~misreported PROVE Explained'
      BY <1>2, <1>3, <2>1, <2>6 DEF Explained
    <2> QED BY <1>3, <2>2, <2>3, <2>5, <2>6 DEF IInv, Exact
  <1> QED BY <1>5, <1>6 DEF Compute

\* What has been counted is reported or not: the candidates stay as they are.
LEMMA ReportCountKeeps ==
    ASSUME IInv, NEW w \in Threads, ReportCount(w)
    PROVE  IInv'
  <1>1. worker[w] = "progress"
    BY DEF ReportCount
  <1>2. held[w] \in Calls
    BY <1>1, TaskOfHolder
  <1>3. /\ worker' = [worker EXCEPT ![w] = "take"]
        /\ UNCHANGED <<caller, call, pool, task_, generation_, active_workers_, misreported, observed,
                       held, index, counted, size, worker_count, cursor, completed, failure, stop,
                       returned>>
    BY DEF ReportCount, pool_vars
  <1>4. \/ last_reported' = last_reported
        \/ last_reported' = [last_reported EXCEPT ![held[w]] = counted[w]]
    BY DEF ReportCount
  <1>5. ExecutorTypeOK'
    BY <1>2, <1>3, <1>4 DEF IInv, ExecutorTypeOK
  <1>6. /\ Lifecycle' /\ Holding' /\ Fresh'
        /\ ~misreported => AllPresent' /\ Counted' /\ CompleteHasAll'
    BY <1>1, <1>3, StepInTask
  <1>7. \A v \in Threads : Computes(v)' <=> Computes(v)
    BY <1>1, <1>3 DEF IInv, ExecutorTypeOK, Computes
  <1>8. CandidatesOK'
    BY <1>3, <1>7, SameCandidates
  <1>9. ASSUME ~misreported PROVE Explained'
    BY <1>3, <1>7, <1>9 DEF IInv, Exact, Explained
  <1> QED BY <1>3, <1>5, <1>6, <1>8, <1>9 DEF IInv, Exact

\* The thread that reports is the one that is no longer outstanding, unless the count is
\* misreported by this very step.
LEMMA ReportKeeps ==
    ASSUME IInv, NEW w \in Threads, Report(w)
    PROVE  IInv'
  <1>1. /\ worker[w] = "report"
        /\ active_workers_' = IF active_workers_ > 0 THEN active_workers_ - 1 ELSE 0
        /\ misreported' = (misreported \/ (active_workers_ > 0 /\ observed[w] # generation_))
        /\ worker' = [worker EXCEPT ![w] = "wait"]
        /\ UNCHANGED <<caller, call, pool, task_, generation_, observed, held, index, counted, size,
                       worker_count, cursor, completed, last_reported, failure, stop, returned>>
    BY DEF Report, task_vars
  <1>2. Born(w) /\ ~Settled(w)
    BY <1>1 DEF IInv, Lifecycle, Settled
  <1>3. worker'[w] = "wait" /\ \A v \in Threads : v # w => worker'[v] = worker[v]
    BY <1>1 DEF IInv, ExecutorTypeOK
  <1>4. ExecutorTypeOK'
    <2>1. active_workers_' \in 0 .. MaxWorkers /\ misreported' \in BOOLEAN
      BY <1>1, BoundsOK DEF IInv, ExecutorTypeOK
    <2> QED BY <1>1, <2>1 DEF IInv, ExecutorTypeOK
  <1>5. Lifecycle'
    <2>1. caller # "await" => active_workers_' = 0
      BY <1>1 DEF IInv, Lifecycle
    <2> QED BY <1>1, <1>2, <1>3, <2>1 DEF IInv, Lifecycle, Born
  <1>6. Holding'
    BY <1>1, <1>3 DEF IInv, Holding
  <1>7. \A v \in Threads : Computes(v)' <=> Computes(v)
    BY <1>1, <1>3 DEF Computes
  <1>8. CandidatesOK' /\ Fresh'
    BY <1>1, <1>7 DEF IInv, CandidatesOK, Fresh
  <1>9. ASSUME ~misreported' PROVE Exact'
    <2>1. Exact
      BY <1>1, <1>9 DEF IInv
    <2>2. AllPresent'
      BY <1>1, <1>3, <2>1 DEF Exact, AllPresent, Born, Settled
    <2>3. Explained' /\ CompleteHasAll'
      BY <1>1, <1>7, <2>1 DEF Exact, Explained, CompleteHasAll
    <2>4. ASSUME caller = "await" PROVE Counted'
      <3>1. w \in Outstanding
        BY <1>2 DEF Outstanding
      <3>2. /\ IsFiniteSet(Outstanding) /\ Cardinality(Outstanding) \in Nat
            /\ active_workers_ = Cardinality(Outstanding) /\ active_workers_ # 0
        BY <2>1, <2>4, <3>1, OutstandingFinite DEF IInv, Exact, Counted
      <3>3. observed[w] = generation_
        <4>1. active_workers_ > 0
          BY <3>2
        <4>2. ~(active_workers_ > 0 /\ observed[w] # generation_)
          BY Zenon, <1>1, <1>9
        <4> QED BY <4>1, <4>2
      <3>4. Outstanding' = Outstanding \ {w}
        BY <1>1, <1>3, <3>3 DEF Outstanding, Born, Settled
      <3>5. Cardinality(Outstanding') = Cardinality(Outstanding) - 1
        BY <3>1, <3>2, <3>4, FS_RemoveElement
      <3> QED BY <1>1, <3>2, <3>5 DEF Counted
    <2>5. Counted'
      BY <1>1, <2>4 DEF Counted
    <2> QED BY <2>2, <2>3, <2>5 DEF Exact
  <1> QED BY <1>4, <1>5, <1>6, <1>8, <1>9 DEF IInv

-----------------------------------------------------------------------------
LEMMA ExecutorStutters ==
    ASSUME IInv, UNCHANGED executor_vars
    PROVE  IInv'
  BY DEF executor_vars, pool_vars, thread_vars, task_vars, IInv, ExecutorTypeOK, Lifecycle, Holding,
         CandidatesOK, Fresh, Exact, AllPresent, Counted, Explained, CompleteHasAll, Outstanding,
         Born, Settled, Computes

\* What the invariant says of the pool.
LEMMA PoolInvFollows == IInv => PoolInv
  <1> SUFFICES ASSUME IInv PROVE PoolInv
    OBVIOUS
  <1>1. ~misreported => HeldTaskAlive
    BY DEF IInv, Exact, AllPresent, HeldTaskAlive
  <1>2. CandidateTakenOnce
    BY DEF IInv, CandidatesOK, CandidateTakenOnce, Computes
  <1> QED BY <1>1, <1>2 DEF IInv, Exact, PoolInv

\* PoolInv, for any number of threads, candidates and calls, and for calls that grow the
\* pool as they like: no two threads compute one candidate of the call that waits; and until
\* a thread is counted for a generation it had no part in, no thread holds the Task of a call
\* that has returned and a call that reports completion has every candidate.
THEOREM PoolIsSafe == ExecutorSpec => []PoolInv
  <1>1. IInv /\ [ExecutorNext]_executor_vars => IInv'
    <2> SUFFICES ASSUME IInv, [ExecutorNext]_executor_vars PROVE IInv'
      OBVIOUS
    <2>1. CASE \E n \in 1 .. MaxCandidates, c \in 1 .. MaxWorkers, s \in BOOLEAN : Begin(n, c, s)
      BY <2>1, BeginKeeps
    <2>2. CASE Caller
      BY <2>2, PublishKeeps, ReturnKeeps DEF Caller
    <2>3. CASE StopTask
      BY <2>3, StopTaskKeeps
    <2>4. CASE \E w \in Threads : Worker(w)
      BY <2>4, WakeKeeps, TakeKeeps, ComputeKeeps, ReportCountKeeps, ReportKeeps DEF Worker
    <2>5. CASE UNCHANGED executor_vars
      BY <2>5, ExecutorStutters
    <2> QED BY <2>1, <2>2, <2>3, <2>4, <2>5 DEF ExecutorNext
  <1> QED BY <1>1, InitHolds, PoolInvFollows, PTL DEF ExecutorSpec
-----------------------------------------------------------------------------
(* The job.                                                                *)

Places == {"claim", "look", "analyze", "store", "count", "emit", "threw", "left"}

ThreadType == [PipelineThreads -> [at : Places, chunk : Nat, done : 0 .. result_count]]

JobTypes ==
    /\ TypeOK
    /\ backend \in {"cpu", "metal", "accelerator"} /\ result_count \in ResultCounts
    /\ cancel_requested \in BOOLEAN /\ stop_source \in BOOLEAN /\ failed \in BOOLEAN
    /\ progress \in Seq(0 .. result_count)
    /\ threads = <<>> \/ threads \in ThreadType

\* Only the pipeline, and what ends a job, leave anything behind.
Phases ==
    /\ phase = "cpu" <=> caller # "idle"
    /\ phase = "cpu" => backend = "cpu" /\ size[call] = result_count
    /\ stop_source => cancel_requested
    /\ phase = "cpu" /\ stop[call] => stop_source
    /\ \A w \in Threads : held[w] # NoTask => held[w] = call /\ phase \in {"cpu", "ended"}
    /\ phase = "metal" => backend = "metal"
    /\ phase \in {"single", "pipeline"} => backend = "accelerator"
    /\ phase \in {"plan", "single"} => progress = <<>>
    /\ phase \notin {"pipeline", "ended"} =>
          /\ results = [c \in Candidates |-> Blank]
          /\ chunk_cursor = 0 /\ chunk_done = {} /\ done_candidates = 0 /\ ~chunk_failure
          /\ progress_mutex = Nobody /\ threads = <<>> /\ ~failed
    /\ terminal.type = "none" <=> phase # "ended"
    /\ \A k \in Calls : failure[k] =>
          /\ k = call
          /\ phase \in {"cpu", "ended"} /\ (phase = "ended" => terminal.type = "error")

\* Whoever counts the last candidate of the call reports it.
PoolProgress ==
    /\ phase = "plan" => \A k \in Calls : last_reported[k] = 0
    /\ phase = "cpu" =>
          /\ last_reported[call] = IF progress = <<>> THEN 0 ELSE Last(progress)
          /\ last_reported[call] <= Cardinality(completed[call])
          /\ \A w \in Threads : worker[w] = "progress" => counted[w] <= Cardinality(completed[call])
          /\ Cardinality(completed[call]) = size[call] =>
                \/ last_reported[call] = size[call]
                \/ \E w \in Threads : worker[w] = "progress" /\ counted[w] = size[call]

HoldsChunk(t) == threads[t].at \in {"look", "analyze", "store", "count"}
Pending(t) == threads[t].at \in {"look", "analyze", "store"}
\* A chunk is not claimed, or in the hands of one thread, or done; or a failure or a cancel
\* keeps it from being done.
OwnChunk ==
    \A t \in PipelineThreads :
        /\ HoldsChunk(t) => threads[t].chunk < chunk_total /\ threads[t].chunk < chunk_cursor
        /\ Pending(t) => threads[t].chunk \notin chunk_done
        /\ threads[t].at = "count" => threads[t].chunk \in chunk_done
        /\ threads[t].at = "threw" => failed \/ cancel_requested
        /\ threads[t].at = "left" => chunk_cursor >= chunk_total \/ cancel_requested
OneHolder ==
    \A t, u \in PipelineThreads :
        HoldsChunk(t) /\ HoldsChunk(u) /\ threads[t].chunk = threads[u].chunk => t = u
NoneLost ==
    /\ \A k \in chunk_done : k < chunk_cursor
    /\ \A k \in Chunks : k < chunk_cursor =>
          \/ k \in chunk_done \/ failed \/ cancel_requested
          \/ \E t \in PipelineThreads : Pending(t) /\ threads[t].chunk = k

FailureKept ==
    /\ failed => chunk_failure \/ cancel_requested \/ \E t \in PipelineThreads : threads[t].at = "threw"
    /\ chunk_failure => failed

\* A candidate has its result once its chunk is stored.
InStore(k) == \E t \in PipelineThreads : threads[t].at = "store" /\ threads[t].chunk = k
ResultsStored ==
    \A c \in Candidates :
        results[c] = IF c \div ChunkSize \in chunk_done \/ InStore(c \div ChunkSize) THEN c ELSE Blank

\* The candidates of the done chunks, but for those that are still to be counted.
InCount(k) == \E t \in PipelineThreads : threads[t].at = "count" /\ threads[t].chunk = k
CountedCandidates ==
    {c \in Candidates : c \div ChunkSize \in chunk_done /\ ~InCount(c \div ChunkSize)}
ProgressCounted ==
    /\ done_candidates = Cardinality(CountedCandidates)
    /\ \A t \in PipelineThreads :
          /\ threads[t].at = "emit" <=> progress_mutex = t
          /\ threads[t].at = "emit" => threads[t].done = done_candidates
    /\ progress # <<>> => Last(progress) <= done_candidates
    /\ progress_mutex = Nobody => done_candidates = IF progress = <<>> THEN 0 ELSE Last(progress)

PipelineOK ==
    phase = "pipeline" =>
        /\ threads \in ThreadType
        /\ OwnChunk /\ OneHolder /\ NoneLost /\ FailureKept /\ ResultsStored /\ ProgressCounted

JobInv == /\ IInv /\ JobTypes /\ Phases /\ PoolProgress /\ PipelineOK
          /\ ProgressOrdered /\ OutcomeFaithful

-----------------------------------------------------------------------------
\* A non-empty set of natural numbers has a least element.
LEMMA LeastNat ==
    ASSUME NEW S, S \subseteq Nat, S # {}
    PROVE  \E x \in S : \A y \in S : x <= y
<1>1. PICK x \in S : \A y \in S : ~ (<<y, x>> \in OpToRel(<, Nat))
  BY NatLessThanWellFounded, WFMin
<1>2. \A y \in S : ~(y < x)
  BY <1>1 DEF OpToRel
<1> QED
  BY <1>2

\* What Min and Max return, when there is something to return.
LEMMA MinFacts ==
    ASSUME NEW S, S \subseteq Nat, S # {}
    PROVE  Min(S) \in S /\ \A y \in S : Min(S) <= y
  BY LeastNat DEF Min

LEMMA MaxFacts ==
    ASSUME NEW n \in Nat, NEW S, S \subseteq 0 .. n, S # {}
    PROVE  Max(S) \in S /\ \A y \in S : Max(S) >= y
<1> DEFINE above == {u \in Nat : \A y \in S : y <= u}
<1>1. n \in above
  OBVIOUS
<1>2. PICK u \in above : \A v \in above : u <= v
  BY <1>1, LeastNat
<1>3. u \in S
  <2>0. PICK z \in S : z \in 0 .. n /\ z <= u
    BY <1>2
  <2>1. CASE u = 0
    <3>1. z = u
      BY <2>0, <2>1
    <3> QED BY <3>1
  <2>2. CASE u # 0 /\ u \notin S
    <3>1. u - 1 \in Nat /\ \A y \in S : y <= u - 1
      BY <1>2, <2>2
    <3> QED BY <1>2, <3>1
  <2> QED BY <2>1, <2>2
<1>4. \E x \in S : \A y \in S : x >= y
  BY <1>2, <1>3
<1> QED BY <1>4 DEF Max

\* How the candidates fall into chunks.
LEMMA ChunkFacts ==
    ASSUME result_count \in ResultCounts
    PROVE  /\ result_count \in 1 .. MaxCandidates /\ MaxCandidates \in Nat
           /\ ChunkSize \in Nat \ {0}
           /\ chunk_total \in Nat \ {0}
           /\ chunk_total * ChunkSize >= result_count
           /\ \A c \in Candidates : c \div ChunkSize \in Chunks
           /\ \A c \in Candidates, g \in Nat :
                 /\ c < g * ChunkSize => c \div ChunkSize < g
                 /\ c = g * ChunkSize => c \div ChunkSize = g
           /\ thread_count \in 1 .. WorkerCount
           /\ thread_count \in Nat \ {0}
           /\ IsFiniteSet(Candidates) /\ Cardinality(Candidates) = result_count
<1>1. /\ result_count \in 1 .. MaxCandidates /\ MaxCandidates \in Nat
      /\ ChunkSize \in Nat \ {0} /\ WorkerCount \in Nat \ {0}
  BY BoundsOK, AnalyzeBoundsOK
<1> DEFINE s == ChunkSize  n == result_count
<1>2. \A c \in 0 .. n - 1 : c \div s \in Nat /\ c \div s < (n + s - 1) \div s
  <2> SUFFICES ASSUME NEW c \in 0 .. n - 1 PROVE c \div s \in Nat /\ c \div s < (n + s - 1) \div s
    OBVIOUS
  <2>1. c \in Nat /\ c < n /\ s \in Nat \ {0} /\ n \in Nat
    BY <1>1
  <2> HIDE DEF s, n
  <2> QED BY <2>1
<1>3. (n + s - 1) \div s \in Nat \ {0} /\ ((n + s - 1) \div s) * s >= n
  <2>1. s \in Nat \ {0} /\ n \in Nat \ {0}
    BY <1>1
  <2> HIDE DEF s, n
  <2> QED BY <2>1
<1>4. \A c \in Candidates, g \in Nat : /\ c < g * ChunkSize => c \div ChunkSize < g
                                       /\ c = g * ChunkSize => c \div ChunkSize = g
  <2> SUFFICES ASSUME NEW c \in Candidates, NEW g \in Nat
               PROVE  /\ c < g * ChunkSize => c \div ChunkSize < g
                      /\ c = g * ChunkSize => c \div ChunkSize = g
    OBVIOUS
  <2>1. c \in Nat /\ ChunkSize \in Nat \ {0}
    BY <1>1 DEF Candidates
  <2>2. c < g * ChunkSize => c \div ChunkSize < g
    BY <2>1
  <2>3. (g * ChunkSize) \div ChunkSize = g
    BY <2>1
  <2> QED BY <2>2, <2>3
<1>5. thread_count \in {WorkerCount, chunk_total} /\ thread_count <= WorkerCount
  <2>1. {WorkerCount, chunk_total} \subseteq Nat
    BY <1>1, <1>3 DEF chunk_total
  <2> QED BY <2>1, MinFacts DEF thread_count
<1>6. IsFiniteSet(Candidates) /\ Cardinality(Candidates) = result_count
  BY <1>1, FS_Interval DEF Candidates
<1>7. chunk_total \in Nat \ {0} /\ chunk_total * ChunkSize >= result_count
  BY <1>3 DEF chunk_total
<1>8. \A c \in Candidates : c \div ChunkSize \in Chunks
  BY <1>2, <1>7 DEF Candidates, Chunks, chunk_total
<1> QED BY <1>1, <1>4, <1>5, <1>6, <1>7, <1>8

\* The sets of candidates that progress is compared with.
LEMMA CandidateSets ==
    ASSUME JobTypes, NEW S \in SUBSET Candidates
    PROVE  /\ IsFiniteSet(S) /\ Cardinality(S) \in 0 .. result_count
           /\ \A R \in SUBSET S : Cardinality(R) <= Cardinality(S)
<1>1. IsFiniteSet(Candidates) /\ Cardinality(Candidates) = result_count /\ result_count \in Nat
  BY ChunkFacts DEF JobTypes
<1>2. IsFiniteSet(S) /\ Cardinality(S) <= result_count /\ Cardinality(S) \in Nat
  BY <1>1, FS_Subset, FS_CardinalityType
<1>3. \A R \in SUBSET S : Cardinality(R) <= Cardinality(S)
  BY <1>2, FS_Subset
<1> QED BY <1>1, <1>2, <1>3

\* The last of a sequence is one of it.
LEMMA LastFacts ==
    ASSUME NEW S, NEW s \in Seq(S), s # <<>>
    PROVE  Len(s) \in 1 .. Len(s) /\ Last(s) = s[Len(s)] /\ Last(s) \in S
<1>1. Len(s) \in Nat /\ Len(s) # 0
  OBVIOUS
<1> QED BY <1>1 DEF Last

\* What appending to progress does.
LEMMA ReportedFacts ==
    ASSUME JobTypes, NEW done \in 0 .. result_count, Reported(done)
    PROVE  /\ progress' \in Seq(0 .. result_count) /\ progress' # <<>>
           /\ Last(progress') = done
           /\ Len(progress') = Len(progress) + 1
           /\ \A i \in 2 .. Len(progress') : 
                 \/ i \in 2 .. Len(progress) /\ progress'[i] = progress[i] /\ progress'[i - 1] = progress[i - 1]
                 \/ i = Len(progress') /\ progress # <<>> /\ progress'[i] = done /\ progress'[i - 1] = Last(progress)
<1>1. progress \in Seq(0 .. result_count) /\ progress' = Append(progress, done)
  BY DEF JobTypes, Reported
<1> QED BY <1>1 DEF Last

\* While the job runs its outcome is open.
LEMMA NoOutcome ==
    ASSUME terminal'.type = "none"
    PROVE  OutcomeFaithful'
  BY DEF OutcomeFaithful

-----------------------------------------------------------------------------
(* The pipeline.                                                           *)

\* A step of a thread of the pipeline concerns nobody but the pipeline.
LEMMA InPipeline ==
    ASSUME JobInv, phase = "pipeline", JobTypes',
           UNCHANGED <<backend, result_count, phase, cancel_requested, stop_source, terminal>>,
           UNCHANGED executor_vars
    PROVE  IInv' /\ Phases' /\ PoolProgress' /\ OutcomeFaithful'
<1>1. IInv'
  BY ExecutorStutters DEF JobInv
<1>2. UNCHANGED <<caller, call, size, failure, last_reported, completed, worker, counted, held>>
  BY DEF executor_vars, thread_vars, task_vars
<1>3. Phases'
  BY <1>2 DEF JobInv, Phases
<1>4. PoolProgress'
  BY DEF PoolProgress
<1>5. OutcomeFaithful'
  <2>1. terminal'.type = "none"
    BY DEF JobInv, Phases
  <2> QED BY <2>1, NoOutcome
<1> QED BY <1>1, <1>3, <1>4, <1>5

\* What the pipeline has said is behind what is stored.
LEMMA PipelineProgress ==
    ASSUME JobTypes, JobTypes', UNCHANGED <<backend, result_count>>,
           PipelineOK', phase' = "pipeline", backend = "accelerator",
           \A i \in 2 .. Len(progress') : progress'[i - 1] <= progress'[i]
    PROVE  ProgressOrdered'
<1> DEFINE kept == {c \in Candidates : results'[c] = c}
<1>1. Candidates' = Candidates
  BY DEF Candidates
<1>2. CountedCandidates' \subseteq kept
  BY <1>1 DEF PipelineOK, ResultsStored, CountedCandidates
<1>3. done_candidates' <= Cardinality(kept) /\ done_candidates' \in Nat /\ Cardinality(kept) \in Nat
  <2>1. kept \in SUBSET Candidates /\ CountedCandidates' \in SUBSET kept
    BY <1>2
  <2>2. result_count \in Nat
    BY ChunkFacts DEF JobTypes
  <2>3. Cardinality(CountedCandidates') <= Cardinality(kept) /\ Cardinality(kept) \in Nat
    BY <2>1, <2>2, CandidateSets
  <2> QED BY <2>2, <2>3 DEF PipelineOK, ProgressCounted, JobTypes, TypeOK
<1>4. progress' # <<>> => Last(progress') <= Cardinality(kept)
  <2> SUFFICES ASSUME progress' # <<>> PROVE Last(progress') <= Cardinality(kept)
    OBVIOUS
  <2>1. Last(progress') <= done_candidates'
    BY DEF PipelineOK, ProgressCounted
  <2>2. Last(progress') \in Nat
    <3>1. progress' \in Seq(0 .. result_count)
      BY DEF JobTypes
    <3>2. Last(progress') \in 0 .. result_count
      BY <3>1, LastFacts
    <3>3. result_count \in Nat
      BY ChunkFacts DEF JobTypes
    <3> QED BY <3>2, <3>3
  <2> QED BY <1>3, <2>1, <2>2
<1> QED BY <1>1, <1>4 DEF ProgressOrdered, JobTypes

\* Where a thread goes.
LEMMA Moves ==
    ASSUME JobTypes, PipelineOK, phase = "pipeline", NEW t \in DOMAIN threads, NEW place \in Places,
           NEW k \in Nat, NEW n \in 0 .. result_count,
           \/ threads' = [threads EXCEPT ![t].at = place] /\ k = threads[t].chunk /\ n = threads[t].done
           \/ threads' = [threads EXCEPT ![t].at = place, ![t].chunk = k] /\ n = threads[t].done
           \/ threads' = [threads EXCEPT ![t].at = place, ![t].done = n] /\ k = threads[t].chunk
           \/ threads' = [threads EXCEPT ![t] = [at |-> place, chunk |-> k, done |-> n]],
           UNCHANGED result_count
    PROVE  /\ t \in PipelineThreads /\ PipelineThreads' = PipelineThreads
           /\ threads' \in ThreadType /\ threads' \in ThreadType'
           /\ threads'[t].at = place /\ threads'[t].chunk = k /\ threads'[t].done = n
           /\ \A u \in PipelineThreads : u # t => threads'[u] = threads[u]
<1>1. threads \in ThreadType
  BY DEF JobTypes, PipelineOK, ThreadType
<1>2. PipelineThreads' = PipelineThreads
  BY DEF PipelineThreads, thread_count, chunk_total
<1>3. t \in PipelineThreads /\ threads[t] \in [at : Places, chunk : Nat, done : 0 .. result_count]
  BY <1>1 DEF ThreadType
<1>4. CASE threads' = [threads EXCEPT ![t].at = place] /\ k = threads[t].chunk /\ n = threads[t].done
  BY <1>1, <1>2, <1>3, <1>4 DEF ThreadType
<1>5. CASE threads' = [threads EXCEPT ![t].at = place, ![t].chunk = k] /\ n = threads[t].done
  BY <1>1, <1>2, <1>3, <1>5 DEF ThreadType
<1>6. CASE threads' = [threads EXCEPT ![t].at = place, ![t].done = n] /\ k = threads[t].chunk
  BY <1>1, <1>2, <1>3, <1>6 DEF ThreadType
<1>7. CASE threads' = [threads EXCEPT ![t] = [at |-> place, chunk |-> k, done |-> n]]
  BY <1>1, <1>2, <1>3, <1>7 DEF ThreadType
<1> QED BY <1>4, <1>5, <1>6, <1>7

\* Claim: a new chunk, which nobody else can have.
LEMMA ClaimKeeps ==
    ASSUME JobInv, NEW t \in DOMAIN threads, Claim(t)
    PROVE  JobInv'
<1>1. /\ phase = "pipeline" /\ threads[t].at = "claim" /\ backend = "accelerator"
      /\ chunk_cursor' = chunk_cursor + 1
      /\ UNCHANGED <<backend, result_count, phase, cancel_requested, stop_source, failed, terminal,
                     results, chunk_done, done_candidates, chunk_failure, progress_mutex, progress>>
      /\ UNCHANGED executor_vars
  BY DEF Claim, At, Quiet, spec, client, JobInv, Phases
<1> DEFINE place == IF chunk_cursor < chunk_total THEN "look" ELSE "left"
<1>2. JobTypes /\ PipelineOK /\ chunk_cursor \in Nat /\ chunk_total \in Nat
  BY ChunkFacts DEF JobInv, JobTypes, TypeOK
<1>3. threads \in ThreadType
  BY <1>1, <1>2 DEF PipelineOK
<1>4. threads' = [threads EXCEPT ![t].at = place, ![t].chunk = chunk_cursor]
  BY DEF Claim
<1>5. place \in Places /\ threads[t].done \in 0 .. result_count
  BY <1>3 DEF Places, ThreadType
<1> HIDE DEF place
<1>6. /\ t \in PipelineThreads /\ PipelineThreads' = PipelineThreads
      /\ threads' \in ThreadType /\ threads' \in ThreadType'
      /\ threads'[t].at = place /\ threads'[t].chunk = chunk_cursor /\ threads'[t].done = threads[t].done
      /\ \A u \in PipelineThreads : u # t => threads'[u] = threads[u]
  BY ZenonT(40), <1>1, <1>2, <1>4, <1>5, Moves
<1>7. chunk_total' = chunk_total /\ Chunks' = Chunks /\ Candidates' = Candidates
  BY <1>1 DEF chunk_total, Chunks, Candidates
<1>8. JobTypes'
  BY <1>1, <1>2, <1>6, <1>7 DEF JobTypes, TypeOK, ThreadType, Places
<1>9. OwnChunk' /\ OneHolder' /\ NoneLost'
  <2>1. \A u \in PipelineThreads :
           /\ HoldsChunk(u)' <=> HoldsChunk(u) \/ (u = t /\ chunk_cursor < chunk_total)
           /\ Pending(u)' <=> Pending(u) \/ (u = t /\ chunk_cursor < chunk_total)
    BY <1>1, <1>6 DEF place, HoldsChunk, Pending
  <2>2. OwnChunk'
    <3>1. chunk_cursor \notin chunk_done
      BY <1>1, <1>2 DEF PipelineOK, NoneLost
    <3>2. \A u \in PipelineThreads : u # t => threads[u].chunk \in Nat
      BY <1>3 DEF ThreadType
    <3>3. ASSUME NEW u \in PipelineThreads, u # t
          PROVE  /\ HoldsChunk(u)' => threads'[u].chunk < chunk_total' /\ threads'[u].chunk < chunk_cursor'
                 /\ Pending(u)' => threads'[u].chunk \notin chunk_done'
                 /\ threads'[u].at = "count" => threads'[u].chunk \in chunk_done'
                 /\ threads'[u].at = "threw" => failed' \/ cancel_requested'
                 /\ threads'[u].at = "left" => chunk_cursor' >= chunk_total' \/ cancel_requested'
      BY <1>1, <1>2, <1>6, <1>7, <2>1, <3>2, <3>3 DEF PipelineOK, OwnChunk
    <3>4. /\ HoldsChunk(t)' => chunk_cursor < chunk_total
          /\ threads'[t].at \in {"look", "left"} /\ (threads'[t].at = "left" => chunk_cursor >= chunk_total)
      BY <1>2, <1>6 DEF place, HoldsChunk
    <3> QED BY <1>1, <1>2, <1>6, <1>7, <3>1, <3>3, <3>4 DEF OwnChunk
  <2>3. OneHolder'
    BY <1>1, <1>2, <1>3, <1>6, <2>1 DEF place, PipelineOK, OwnChunk, OneHolder, ThreadType
  <2>4. NoneLost'
    <3>1. chunk_done \subseteq Chunks
      BY <1>2 DEF JobTypes, TypeOK
    <3>2. \A k \in chunk_done' : k < chunk_cursor'
      BY <1>1, <1>2, <3>1 DEF PipelineOK, NoneLost, Chunks
    <3>3. ASSUME NEW k \in Chunks, k < chunk_cursor', ~(k \in chunk_done \/ failed \/ cancel_requested)
          PROVE  \E u \in PipelineThreads : Pending(u)' /\ threads'[u].chunk = k
      <4>1. CASE k < chunk_cursor
        BY <1>1, <1>2, <1>6, <2>1, <3>3, <4>1 DEF PipelineOK, NoneLost, Pending
      <4>2. CASE ~(k < chunk_cursor)
        <5>1. k = chunk_cursor /\ chunk_cursor < chunk_total
          BY <1>1, <1>2, <3>3, <4>2 DEF Chunks
        <5> QED BY <1>6, <2>1, <5>1
      <4> QED BY <4>1, <4>2
    <3> QED BY <1>1, <1>6, <1>7, <3>2, <3>3 DEF NoneLost
  <2> QED BY <2>2, <2>3, <2>4
<1>10. FailureKept'
  BY <1>1, <1>2, <1>6 DEF place, PipelineOK, FailureKept
<1>11. \A k \in Nat : (InStore(k)' <=> InStore(k)) /\ (InCount(k)' <=> InCount(k))
  BY <1>1, <1>6 DEF place, InStore, InCount
<1>17. \A c \in Candidates : c \div ChunkSize \in Nat
  BY <1>2, ChunkFacts DEF JobTypes, Chunks
<1>12. ResultsStored'
  BY <1>1, <1>2, <1>7, <1>11, <1>17 DEF PipelineOK, ResultsStored
<1>13. ProgressCounted'
  <2>1. CountedCandidates' = CountedCandidates
    BY <1>1, <1>7, <1>11, <1>17 DEF CountedCandidates
  <2> QED BY <1>1, <1>2, <1>6, <2>1 DEF place, PipelineOK, ProgressCounted
<1>14. PipelineOK'
  BY <1>1, <1>2, <1>6, <1>7, <1>9, <1>10, <1>12, <1>13 DEF PipelineOK
<1>15. ProgressOrdered'
  BY <1>1, <1>2, <1>8, <1>14, PipelineProgress DEF JobInv, ProgressOrdered
<1>16. IInv' /\ Phases' /\ PoolProgress' /\ OutcomeFaithful'
  BY <1>1, <1>8, InPipeline
<1> QED BY <1>8, <1>14, <1>15, <1>16 DEF JobInv

\* Look: a cancel makes the thread leave.
LEMMA LookKeeps ==
    ASSUME JobInv, NEW t \in DOMAIN threads, Look(t)
    PROVE  JobInv'
<1>1. /\ phase = "pipeline" /\ threads[t].at = "look" /\ backend = "accelerator"
      /\ UNCHANGED <<backend, result_count, phase, cancel_requested, stop_source, terminal, failed, results, chunk_cursor, chunk_done, done_candidates, chunk_failure, progress_mutex, progress>>
      /\ UNCHANGED executor_vars
  BY DEF Look, At, Quiet, spec, client, shared, JobInv, Phases
<1>2. JobTypes /\ PipelineOK /\ chunk_cursor \in Nat /\ chunk_total \in Nat
  BY ChunkFacts DEF JobInv, JobTypes, TypeOK
<1>3. threads \in ThreadType
  BY <1>1, <1>2 DEF PipelineOK
<1> DEFINE place == IF cancel_requested THEN "left" ELSE "analyze"
<1>4. threads' = [threads EXCEPT ![t].at = place]
  BY <1>1 DEF Look, Goto, Idle
<1>5. place \in Places /\ threads[t].chunk \in Nat /\ threads[t].done \in 0 .. result_count
  BY <1>3 DEF Places, ThreadType
<1> HIDE DEF place
<1>6. /\ t \in PipelineThreads /\ PipelineThreads' = PipelineThreads
      /\ threads' \in ThreadType /\ threads' \in ThreadType'
      /\ threads'[t].at = place /\ threads'[t].chunk = threads[t].chunk /\ threads'[t].done = threads[t].done
      /\ \A u \in PipelineThreads : u # t => threads'[u] = threads[u]
  BY <1>1, <1>2, <1>4, <1>5, Moves
<1>7. chunk_total' = chunk_total /\ Chunks' = Chunks /\ Candidates' = Candidates
  BY <1>1 DEF chunk_total, Chunks, Candidates
<1>17. \A c \in Candidates : c \div ChunkSize \in Nat
  BY <1>2, ChunkFacts DEF JobTypes, Chunks
<1>8. JobTypes'
  BY <1>1, <1>2, <1>6, <1>7 DEF JobTypes, TypeOK, ThreadType, Places
<1>9. OwnChunk' /\ OneHolder' /\ NoneLost'
  <2>1. \A u \in PipelineThreads : (HoldsChunk(u)' => HoldsChunk(u)) /\ (Pending(u)' => Pending(u))
    BY <1>1, <1>6 DEF place, HoldsChunk, Pending
  <2>2. OwnChunk'
    BY <1>1, <1>2, <1>6, <1>7, <2>1 DEF place, PipelineOK, OwnChunk, HoldsChunk, Pending
  <2>3. OneHolder'
    BY <1>1, <1>2, <1>6, <2>1 DEF PipelineOK, OneHolder
  <2>4. NoneLost'
    BY <1>1, <1>2, <1>6, <1>7 DEF place, PipelineOK, NoneLost, Pending
  <2> QED BY <2>2, <2>3, <2>4
<1>10. FailureKept'
  BY <1>1, <1>2, <1>6 DEF place, PipelineOK, FailureKept, OwnChunk
<1>11. \A k \in Nat : InStore(k)' <=> InStore(k)
  BY <1>1, <1>6 DEF place, InStore
<1>12. ResultsStored'
  BY <1>1, <1>2, <1>7, <1>11, <1>17 DEF PipelineOK, ResultsStored
<1>13. ProgressCounted'
  <2>1. \A k \in Nat : InCount(k)' <=> InCount(k)
    BY <1>1, <1>6 DEF place, InCount
  <2>2. CountedCandidates' = CountedCandidates
    BY <1>1, <1>7, <1>17, <2>1 DEF CountedCandidates
  <2> QED BY <1>1, <1>2, <1>6, <2>2 DEF place, PipelineOK, ProgressCounted
<1>14. PipelineOK'
  BY <1>1, <1>2, <1>6, <1>7, <1>9, <1>10, <1>12, <1>13 DEF PipelineOK
<1>15. ProgressOrdered'
  BY <1>1, <1>2, <1>8, <1>14, PipelineProgress DEF JobInv, ProgressOrdered
<1>16. IInv' /\ Phases' /\ PoolProgress' /\ OutcomeFaithful'
  BY <1>1, <1>8, InPipeline
<1> QED BY <1>8, <1>14, <1>15, <1>16 DEF JobInv

\* Analyzed: the results of the chunk are stored, and nobody else's.
LEMMA AnalyzedKeeps ==
    ASSUME JobInv, NEW t \in DOMAIN threads, Analyzed(t)
    PROVE  JobInv'
<1>1. /\ phase = "pipeline" /\ threads[t].at = "analyze" /\ backend = "accelerator"
      /\ results' = Stored(t)
      /\ UNCHANGED <<backend, result_count, phase, cancel_requested, stop_source, terminal, failed, chunk_cursor, chunk_done, done_candidates, chunk_failure, progress_mutex, progress>>
      /\ UNCHANGED executor_vars
  BY DEF Analyzed, At, Quiet, spec, client, shared, JobInv, Phases
<1>2. JobTypes /\ PipelineOK /\ chunk_cursor \in Nat /\ chunk_total \in Nat
  BY ChunkFacts DEF JobInv, JobTypes, TypeOK
<1>3. threads \in ThreadType
  BY <1>1, <1>2 DEF PipelineOK
<1>4. threads' = [threads EXCEPT ![t].at = "store"]
  BY <1>1 DEF Analyzed, Goto, Idle
<1>5. "store" \in Places /\ threads[t].chunk \in Nat /\ threads[t].done \in 0 .. result_count
  BY <1>3 DEF Places, ThreadType
<1>6. /\ t \in PipelineThreads /\ PipelineThreads' = PipelineThreads
      /\ threads' \in ThreadType /\ threads' \in ThreadType'
      /\ threads'[t].at = "store" /\ threads'[t].chunk = threads[t].chunk /\ threads'[t].done = threads[t].done
      /\ \A u \in PipelineThreads : u # t => threads'[u] = threads[u]
  BY <1>1, <1>2, <1>4, <1>5, Moves
<1>7. chunk_total' = chunk_total /\ Chunks' = Chunks /\ Candidates' = Candidates
  BY <1>1 DEF chunk_total, Chunks, Candidates
<1>17. \A c \in Candidates : c \div ChunkSize \in Nat
  BY <1>2, ChunkFacts DEF JobTypes, Chunks
<1>18. results' \in [Candidates -> Candidates \cup {Blank}]
  BY <1>1, <1>2 DEF JobTypes, TypeOK, Stored
<1>8. JobTypes'
  BY <1>1, <1>2, <1>6, <1>7, <1>18 DEF JobTypes, TypeOK, ThreadType, Places
<1>9. OwnChunk' /\ OneHolder' /\ NoneLost'
  <2>1. \A u \in PipelineThreads : (HoldsChunk(u)' <=> HoldsChunk(u)) /\ (Pending(u)' <=> Pending(u))
    BY <1>1, <1>6 DEF HoldsChunk, Pending
  <2>2. OwnChunk'
    BY <1>1, <1>2, <1>6, <1>7, <2>1 DEF PipelineOK, OwnChunk
  <2>3. OneHolder'
    BY <1>1, <1>2, <1>6, <2>1 DEF PipelineOK, OneHolder
  <2>4. NoneLost'
    BY <1>1, <1>2, <1>6, <1>7, <2>1 DEF PipelineOK, NoneLost
  <2> QED BY <2>2, <2>3, <2>4
<1>10. FailureKept'
  BY <1>1, <1>2, <1>6 DEF PipelineOK, FailureKept, OwnChunk
<1>11. \A k \in Nat : InStore(k)' <=> InStore(k) \/ k = threads[t].chunk
  BY <1>1, <1>6 DEF InStore
<1>12. ResultsStored'
  <2> SUFFICES ASSUME NEW c \in Candidates
               PROVE  results'[c] = IF c \div ChunkSize \in chunk_done \/ InStore(c \div ChunkSize)' THEN c ELSE Blank
    BY <1>1, <1>7 DEF ResultsStored
  <2>1. results'[c] = IF c \div ChunkSize = threads[t].chunk THEN c ELSE results[c]
    BY <1>1 DEF Stored, Chunk
  <2> QED BY <1>1, <1>2, <1>11, <1>17, <2>1 DEF PipelineOK, ResultsStored
<1>13. ProgressCounted'
  <2>1. \A k \in Nat : InCount(k)' <=> InCount(k)
    BY <1>1, <1>6 DEF InCount
  <2>2. CountedCandidates' = CountedCandidates
    BY <1>1, <1>7, <1>17, <2>1 DEF CountedCandidates
  <2> QED BY <1>1, <1>2, <1>6, <2>2 DEF PipelineOK, ProgressCounted
<1>14. PipelineOK'
  BY <1>1, <1>2, <1>6, <1>7, <1>9, <1>10, <1>12, <1>13 DEF PipelineOK
<1>15. ProgressOrdered'
  BY <1>1, <1>2, <1>8, <1>14, PipelineProgress DEF JobInv, ProgressOrdered
<1>16. IInv' /\ Phases' /\ PoolProgress' /\ OutcomeFaithful'
  BY <1>1, <1>8, InPipeline
<1> QED BY <1>8, <1>14, <1>15, <1>16 DEF JobInv

\* AnalysisThrows: the chunk is lost, and that is remembered.
LEMMA AnalysisThrowsKeeps ==
    ASSUME JobInv, NEW t \in DOMAIN threads, AnalysisThrows(t)
    PROVE  JobInv'
<1>1. /\ phase = "pipeline" /\ threads[t].at = "analyze" /\ backend = "accelerator"
      /\ failed' = (failed \/ ~cancel_requested)
      /\ UNCHANGED <<backend, result_count, phase, cancel_requested, stop_source, terminal, results, chunk_cursor, chunk_done, done_candidates, chunk_failure, progress_mutex, progress>>
      /\ UNCHANGED executor_vars
  BY DEF AnalysisThrows, At, Quiet, spec, client, shared, JobInv, Phases
<1>2. JobTypes /\ PipelineOK /\ chunk_cursor \in Nat /\ chunk_total \in Nat
  BY ChunkFacts DEF JobInv, JobTypes, TypeOK
<1>3. threads \in ThreadType
  BY <1>1, <1>2 DEF PipelineOK
<1>4. threads' = [threads EXCEPT ![t].at = "threw"]
  BY <1>1 DEF AnalysisThrows, Goto, Idle
<1>5. "threw" \in Places /\ threads[t].chunk \in Nat /\ threads[t].done \in 0 .. result_count
  BY <1>3 DEF Places, ThreadType
<1>6. /\ t \in PipelineThreads /\ PipelineThreads' = PipelineThreads
      /\ threads' \in ThreadType /\ threads' \in ThreadType'
      /\ threads'[t].at = "threw" /\ threads'[t].chunk = threads[t].chunk /\ threads'[t].done = threads[t].done
      /\ \A u \in PipelineThreads : u # t => threads'[u] = threads[u]
  BY <1>1, <1>2, <1>4, <1>5, Moves
<1>7. chunk_total' = chunk_total /\ Chunks' = Chunks /\ Candidates' = Candidates
  BY <1>1 DEF chunk_total, Chunks, Candidates
<1>17. \A c \in Candidates : c \div ChunkSize \in Nat
  BY <1>2, ChunkFacts DEF JobTypes, Chunks
<1>18. failed' \in BOOLEAN /\ (failed => failed') /\ (failed' \/ cancel_requested)
  BY <1>1, <1>2 DEF JobTypes
<1>8. JobTypes'
  BY <1>1, <1>2, <1>6, <1>7, <1>18 DEF JobTypes, TypeOK, ThreadType, Places
<1>9. OwnChunk' /\ OneHolder' /\ NoneLost'
  <2>1. \A u \in PipelineThreads : (HoldsChunk(u)' => HoldsChunk(u)) /\ (Pending(u)' => Pending(u))
    BY <1>1, <1>6 DEF HoldsChunk, Pending
  <2>2. OwnChunk'
    BY <1>1, <1>2, <1>6, <1>7, <2>1, <1>18 DEF PipelineOK, OwnChunk, HoldsChunk, Pending
  <2>3. OneHolder'
    BY <1>1, <1>2, <1>6, <2>1 DEF PipelineOK, OneHolder
  <2>4. NoneLost'
    BY <1>1, <1>2, <1>6, <1>7, <1>18 DEF PipelineOK, NoneLost, Pending
  <2> QED BY <2>2, <2>3, <2>4
<1>10. FailureKept'
  BY <1>1, <1>2, <1>6, <1>18 DEF PipelineOK, FailureKept
<1>11. \A k \in Nat : InStore(k)' <=> InStore(k)
  BY <1>1, <1>6 DEF InStore
<1>12. ResultsStored'
  BY <1>1, <1>2, <1>7, <1>11, <1>17 DEF PipelineOK, ResultsStored
<1>13. ProgressCounted'
  <2>1. \A k \in Nat : InCount(k)' <=> InCount(k)
    BY <1>1, <1>6 DEF InCount
  <2>2. CountedCandidates' = CountedCandidates
    BY <1>1, <1>7, <1>17, <2>1 DEF CountedCandidates
  <2> QED BY <1>1, <1>2, <1>6, <2>2 DEF PipelineOK, ProgressCounted
<1>14. PipelineOK'
  BY <1>1, <1>2, <1>6, <1>7, <1>9, <1>10, <1>12, <1>13 DEF PipelineOK
<1>15. ProgressOrdered'
  BY <1>1, <1>2, <1>8, <1>14, PipelineProgress DEF JobInv, ProgressOrdered
<1>16. IInv' /\ Phases' /\ PoolProgress' /\ OutcomeFaithful'
  BY <1>1, <1>8, InPipeline
<1> QED BY <1>8, <1>14, <1>15, <1>16 DEF JobInv

\* SetChunkDone: the chunk is done before it is counted.
LEMMA SetChunkDoneKeeps ==
    ASSUME JobInv, NEW t \in DOMAIN threads, SetChunkDone(t)
    PROVE  JobInv'
<1>1. /\ phase = "pipeline" /\ threads[t].at = "store" /\ backend = "accelerator"
      /\ chunk_done' = chunk_done \cup {threads[t].chunk}
      /\ UNCHANGED <<backend, result_count, phase, cancel_requested, stop_source, terminal, failed, results, chunk_cursor, done_candidates, chunk_failure, progress_mutex, progress>>
      /\ UNCHANGED executor_vars
  BY DEF SetChunkDone, At, Quiet, spec, client, shared, JobInv, Phases
<1>2. JobTypes /\ PipelineOK /\ chunk_cursor \in Nat /\ chunk_total \in Nat
  BY ChunkFacts DEF JobInv, JobTypes, TypeOK
<1>3. threads \in ThreadType
  BY <1>1, <1>2 DEF PipelineOK
<1>4. threads' = [threads EXCEPT ![t].at = "count"]
  BY <1>1 DEF SetChunkDone, Goto, Idle
<1>5. "count" \in Places /\ threads[t].chunk \in Nat /\ threads[t].done \in 0 .. result_count
  BY <1>3 DEF Places, ThreadType
<1>6. /\ t \in PipelineThreads /\ PipelineThreads' = PipelineThreads
      /\ threads' \in ThreadType /\ threads' \in ThreadType'
      /\ threads'[t].at = "count" /\ threads'[t].chunk = threads[t].chunk /\ threads'[t].done = threads[t].done
      /\ \A u \in PipelineThreads : u # t => threads'[u] = threads[u]
  BY <1>1, <1>2, <1>4, <1>5, Moves
<1>7. chunk_total' = chunk_total /\ Chunks' = Chunks /\ Candidates' = Candidates
  BY <1>1 DEF chunk_total, Chunks, Candidates
<1>17. \A c \in Candidates : c \div ChunkSize \in Nat
  BY <1>2, ChunkFacts DEF JobTypes, Chunks
<1>18. threads[t].chunk \in Chunks /\ threads[t].chunk < chunk_cursor /\ threads[t].chunk \notin chunk_done
  BY <1>1, <1>2, <1>5, <1>6 DEF PipelineOK, OwnChunk, HoldsChunk, Pending, Chunks
<1>8. JobTypes'
  BY <1>1, <1>2, <1>6, <1>7, <1>18 DEF JobTypes, TypeOK, ThreadType, Places
<1>9. OwnChunk' /\ OneHolder' /\ NoneLost'
  <2>1. \A u \in PipelineThreads : /\ HoldsChunk(u)' <=> HoldsChunk(u)
                                   /\ Pending(u)' <=> Pending(u) /\ u # t
    BY <1>1, <1>6 DEF HoldsChunk, Pending
  <2>2. OwnChunk'
    <3>1. \A u \in PipelineThreads : Pending(u)' => threads[u].chunk # threads[t].chunk
      BY <1>1, <1>2, <1>6, <2>1 DEF PipelineOK, OneHolder, Pending, HoldsChunk
    <3> QED BY <1>1, <1>2, <1>6, <1>7, <2>1, <3>1 DEF PipelineOK, OwnChunk
  <2>3. OneHolder'
    BY <1>1, <1>2, <1>6, <2>1 DEF PipelineOK, OneHolder
  <2>4. NoneLost'
    BY <1>1, <1>2, <1>6, <1>7, <1>18, <2>1 DEF PipelineOK, NoneLost
  <2> QED BY <2>2, <2>3, <2>4
<1>10. FailureKept'
  BY <1>1, <1>2, <1>6 DEF PipelineOK, FailureKept, OwnChunk
<1>11. \A k \in Nat : k \in chunk_done' \/ InStore(k)' <=> k \in chunk_done \/ InStore(k)
  BY <1>1, <1>6 DEF InStore
<1>12. ResultsStored'
  BY <1>1, <1>2, <1>7, <1>11, <1>17 DEF PipelineOK, ResultsStored
<1>13. ProgressCounted'
  <2>1. \A k \in Nat : k \in chunk_done' /\ ~InCount(k)' <=> k \in chunk_done /\ ~InCount(k)
    <3>1. \A k \in Nat : InCount(k)' <=> InCount(k) \/ k = threads[t].chunk
      BY <1>1, <1>6 DEF InCount
    <3> QED BY <1>1, <1>18, <3>1
  <2>2. CountedCandidates' = CountedCandidates
    BY <1>1, <1>7, <1>17, <2>1 DEF CountedCandidates
  <2> QED BY <1>1, <1>2, <1>6, <2>2 DEF PipelineOK, ProgressCounted
<1>14. PipelineOK'
  BY <1>1, <1>2, <1>6, <1>7, <1>9, <1>10, <1>12, <1>13 DEF PipelineOK
<1>15. ProgressOrdered'
  BY <1>1, <1>2, <1>8, <1>14, PipelineProgress DEF JobInv, ProgressOrdered
<1>16. IInv' /\ Phases' /\ PoolProgress' /\ OutcomeFaithful'
  BY <1>1, <1>8, InPipeline
<1> QED BY <1>8, <1>14, <1>15, <1>16 DEF JobInv

\* Count: the chunk is counted once, by the thread that has the mutex.
LEMMA CountKeeps ==
    ASSUME JobInv, NEW t \in DOMAIN threads, Count(t)
    PROVE  JobInv'
<1>1. /\ phase = "pipeline" /\ threads[t].at = "count" /\ backend = "accelerator"
      /\ progress_mutex = Nobody /\ progress_mutex' = t
      /\ done_candidates' = done_candidates + Cardinality(Chunk(threads[t].chunk))
      /\ UNCHANGED <<backend, result_count, phase, cancel_requested, stop_source, terminal, failed, results, chunk_cursor, chunk_done, chunk_failure, progress>>
      /\ UNCHANGED executor_vars
  BY DEF Count, At, Quiet, spec, client, shared, JobInv, Phases
<1>2. JobTypes /\ PipelineOK /\ chunk_cursor \in Nat /\ chunk_total \in Nat
  BY ChunkFacts DEF JobInv, JobTypes, TypeOK
<1>3. threads \in ThreadType
  BY <1>1, <1>2 DEF PipelineOK
<1>4. threads' = [threads EXCEPT ![t].at = "emit", ![t].done = done_candidates']
  BY <1>1 DEF Count, Goto, Idle
<1>5. "emit" \in Places /\ threads[t].chunk \in Nat /\ threads[t].done \in 0 .. result_count
  BY <1>3 DEF Places, ThreadType
<1> DEFINE mine == threads[t].chunk
           grown == CountedCandidates \cup Chunk(mine)
<1>18. t \in PipelineThreads /\ t # Nobody
  BY <1>2, <1>3, ChunkFacts DEF JobTypes, ThreadType, PipelineThreads, Nobody
<1>19. /\ done_candidates' = Cardinality(grown) /\ done_candidates' \in 0 .. result_count
       /\ done_candidates <= done_candidates' /\ done_candidates \in Nat /\ result_count \in Nat
  <2>1. CountedCandidates \in SUBSET Candidates /\ Chunk(mine) \in SUBSET Candidates /\ grown \in SUBSET Candidates
    BY DEF CountedCandidates, Chunk
  <2>2. CountedCandidates \cap Chunk(mine) = {}
    BY <1>1, <1>18 DEF CountedCandidates, Chunk, InCount
  <2>3. IsFiniteSet(CountedCandidates) /\ IsFiniteSet(Chunk(mine))
    BY <1>2, <2>1, CandidateSets
  <2>4. Cardinality(grown) = Cardinality(CountedCandidates) + Cardinality(Chunk(mine)) - Cardinality({})
    BY <2>2, <2>3, FS_Union
  <2>5. Cardinality({}) = 0
    BY FS_EmptySet
  <2>6. done_candidates = Cardinality(CountedCandidates)
    BY <1>1, <1>2 DEF PipelineOK, ProgressCounted
  <2>7. /\ Cardinality(CountedCandidates) \in 0 .. result_count /\ Cardinality(Chunk(mine)) \in 0 .. result_count
        /\ Cardinality(grown) \in 0 .. result_count
    BY <1>2, <2>1, CandidateSets
  <2>8. result_count \in Nat
    BY <1>2, ChunkFacts DEF JobTypes
  <2> HIDE DEF grown, mine
  <2>9. done_candidates' = done_candidates + Cardinality(Chunk(mine))
    BY <1>1 DEF mine
  <2> QED BY <2>4, <2>5, <2>6, <2>7, <2>8, <2>9
<1>6. /\ t \in PipelineThreads /\ PipelineThreads' = PipelineThreads
      /\ threads' \in ThreadType /\ threads' \in ThreadType'
      /\ threads'[t].at = "emit" /\ threads'[t].chunk = threads[t].chunk /\ threads'[t].done = done_candidates'
      /\ \A u \in PipelineThreads : u # t => threads'[u] = threads[u]
  BY <1>1, <1>2, <1>4, <1>5, <1>18, <1>19, Moves
<1>7. chunk_total' = chunk_total /\ Chunks' = Chunks /\ Candidates' = Candidates
  BY <1>1 DEF chunk_total, Chunks, Candidates
<1>17. \A c \in Candidates : c \div ChunkSize \in Nat
  BY <1>2, ChunkFacts DEF JobTypes, Chunks
<1>8. JobTypes'
  BY <1>1, <1>2, <1>6, <1>7, <1>18, <1>19 DEF JobTypes, TypeOK, ThreadType, Places
<1>9. OwnChunk' /\ OneHolder' /\ NoneLost'
  <2>1. \A u \in PipelineThreads : (HoldsChunk(u)' => HoldsChunk(u)) /\ (Pending(u)' => Pending(u))
    BY <1>1, <1>6 DEF HoldsChunk, Pending
  <2>2. OwnChunk'
    BY <1>1, <1>2, <1>6, <1>7, <2>1 DEF PipelineOK, OwnChunk, HoldsChunk, Pending
  <2>3. OneHolder'
    BY <1>1, <1>2, <1>6, <2>1 DEF PipelineOK, OneHolder
  <2>4. NoneLost'
    BY <1>1, <1>2, <1>6, <1>7 DEF PipelineOK, NoneLost, Pending
  <2> QED BY <2>2, <2>3, <2>4
<1>10. FailureKept'
  BY <1>1, <1>2, <1>6 DEF PipelineOK, FailureKept, OwnChunk
<1>11. \A k \in Nat : InStore(k)' <=> InStore(k)
  BY <1>1, <1>6 DEF InStore
<1>12. ResultsStored'
  BY <1>1, <1>2, <1>7, <1>11, <1>17 DEF PipelineOK, ResultsStored
<1>13. ProgressCounted'
  <2>1. CountedCandidates' = grown
    <3>1. \A h \in Nat : InCount(h)' <=> InCount(h) /\ h # mine
      <4>1. \A u \in PipelineThreads : u # t /\ threads[u].at = "count" => threads[u].chunk # mine
        BY <1>1, <1>2, <1>18 DEF PipelineOK, OneHolder, HoldsChunk
      <4> QED BY <1>1, <1>6, <4>1 DEF InCount
    <3>2. mine \in chunk_done
      BY <1>1, <1>2, <1>6 DEF PipelineOK, OwnChunk
    <3> QED BY <1>1, <1>7, <1>17, <3>1, <3>2 DEF CountedCandidates, Chunk
  <2>2. progress # <<>> => Last(progress) <= done_candidates'
    <3>1. progress # <<>> => Last(progress) = done_candidates
      BY <1>1, <1>2 DEF PipelineOK, ProgressCounted
    <3> QED BY <1>19, <3>1
  <2>3. \A u \in PipelineThreads : u # t => threads[u].at # "emit"
    <3>1. \A u \in PipelineThreads : u # Nobody
      BY <1>2, ChunkFacts DEF JobTypes, PipelineThreads, Nobody
    <3> QED BY <1>1, <1>2, <3>1 DEF PipelineOK, ProgressCounted
  <2>4. done_candidates' = Cardinality(CountedCandidates')
    BY <1>19, <2>1
  <2> QED BY <1>1, <1>6, <1>18, <2>2, <2>3, <2>4 DEF PipelineOK, ProgressCounted
<1>14. PipelineOK'
  BY <1>1, <1>2, <1>6, <1>7, <1>9, <1>10, <1>12, <1>13 DEF PipelineOK
<1>15. ProgressOrdered'
  BY <1>1, <1>2, <1>8, <1>14, PipelineProgress DEF JobInv, ProgressOrdered
<1>16. IInv' /\ Phases' /\ PoolProgress' /\ OutcomeFaithful'
  BY <1>1, <1>8, InPipeline
<1> QED BY <1>8, <1>14, <1>15, <1>16 DEF JobInv

\* EmitProgress: what the thread counted, and nobody has counted since.
LEMMA EmitProgressKeeps ==
    ASSUME JobInv, NEW t \in DOMAIN threads, EmitProgress(t)
    PROVE  JobInv'
<1>1. /\ phase = "pipeline" /\ threads[t].at = "emit" /\ backend = "accelerator"
      /\ Reported(threads[t].done) /\ progress_mutex' = Nobody
      /\ UNCHANGED <<backend, result_count, phase, cancel_requested, stop_source, terminal, failed, results, chunk_cursor, chunk_done, done_candidates, chunk_failure>>
      /\ UNCHANGED executor_vars
  BY DEF EmitProgress, At, Quiet, spec, client, shared, JobInv, Phases
<1>2. JobTypes /\ PipelineOK /\ chunk_cursor \in Nat /\ chunk_total \in Nat
  BY ChunkFacts DEF JobInv, JobTypes, TypeOK
<1>3. threads \in ThreadType
  BY <1>1, <1>2 DEF PipelineOK
<1>4. threads' = [threads EXCEPT ![t] = [at |-> "claim", chunk |-> 0, done |-> 0]]
  BY <1>1 DEF EmitProgress, Goto, Idle
<1>5. "claim" \in Places /\ threads[t].chunk \in Nat /\ threads[t].done \in 0 .. result_count
  BY <1>3 DEF Places, ThreadType
<1>20. 0 \in Nat /\ 0 \in 0 .. result_count
  BY <1>2, ChunkFacts DEF JobTypes
<1>6. /\ t \in PipelineThreads /\ PipelineThreads' = PipelineThreads
      /\ threads' \in ThreadType /\ threads' \in ThreadType'
      /\ threads'[t].at = "claim" /\ threads'[t].chunk = 0 /\ threads'[t].done = 0
      /\ \A u \in PipelineThreads : u # t => threads'[u] = threads[u]
  BY <1>1, <1>2, <1>4, <1>5, <1>20, Moves
<1>7. chunk_total' = chunk_total /\ Chunks' = Chunks /\ Candidates' = Candidates
  BY <1>1 DEF chunk_total, Chunks, Candidates
<1>17. \A c \in Candidates : c \div ChunkSize \in Nat
  BY <1>2, ChunkFacts DEF JobTypes, Chunks
<1>18. threads[t].done = done_candidates /\ done_candidates \in 0 .. result_count
  BY <1>1, <1>2, <1>5, <1>6 DEF PipelineOK, ProgressCounted
<1>19. /\ progress' \in Seq(0 .. result_count) /\ progress' # <<>> /\ Last(progress') = done_candidates
       /\ \A i \in 2 .. Len(progress') :
             \/ i \in 2 .. Len(progress) /\ progress'[i] = progress[i] /\ progress'[i - 1] = progress[i - 1]
             \/ i = Len(progress') /\ progress # <<>> /\ progress'[i] = done_candidates
                /\ progress'[i - 1] = Last(progress)
  BY <1>1, <1>2, <1>18, ReportedFacts
<1>8. JobTypes'
  BY <1>1, <1>2, <1>6, <1>7, <1>19 DEF JobTypes, TypeOK, ThreadType, Places
<1>9. OwnChunk' /\ OneHolder' /\ NoneLost'
  <2>1. \A u \in PipelineThreads : (HoldsChunk(u)' => HoldsChunk(u)) /\ (Pending(u)' => Pending(u))
    BY <1>1, <1>6 DEF HoldsChunk, Pending
  <2>2. OwnChunk'
    <3>1. ~HoldsChunk(t)' /\ ~Pending(t)'
      BY <1>6 DEF HoldsChunk, Pending
    <3> QED BY <1>1, <1>2, <1>6, <1>7, <2>1, <3>1 DEF PipelineOK, OwnChunk
  <2>3. OneHolder'
    <3>1. \A u \in PipelineThreads : HoldsChunk(u)' => HoldsChunk(u) /\ u # t
      BY <1>6, <2>1 DEF HoldsChunk
    <3> QED BY <1>1, <1>2, <1>6, <3>1 DEF PipelineOK, OneHolder
  <2>4. NoneLost'
    <3>1. \A u \in PipelineThreads : (Pending(u)' <=> Pending(u)) /\ (Pending(u) => threads'[u] = threads[u])
      BY <1>1, <1>6 DEF Pending
    <3> QED BY <1>1, <1>2, <1>6, <1>7, <3>1 DEF PipelineOK, NoneLost
  <2> QED BY <2>2, <2>3, <2>4
<1>10. FailureKept'
  BY <1>1, <1>2, <1>6 DEF PipelineOK, FailureKept, OwnChunk
<1>11. \A k \in Nat : InStore(k)' <=> InStore(k)
  BY <1>1, <1>6 DEF InStore
<1>12. ResultsStored'
  BY <1>1, <1>2, <1>7, <1>11, <1>17 DEF PipelineOK, ResultsStored
<1>13. ProgressCounted'
  <2>1. \A k \in Nat : InCount(k)' <=> InCount(k)
    BY <1>1, <1>6 DEF InCount
  <2>2. CountedCandidates' = CountedCandidates
    BY <1>1, <1>7, <1>17, <2>1 DEF CountedCandidates
  <2>3. \A u \in PipelineThreads : u # Nobody /\ (u # t => threads[u].at # "emit")
    <3>1. \A u \in PipelineThreads : u # Nobody
      BY <1>2, ChunkFacts DEF JobTypes, PipelineThreads, Nobody
    <3>2. progress_mutex = t
      BY <1>1, <1>2, <1>6 DEF PipelineOK, ProgressCounted
    <3> QED BY <1>1, <1>2, <3>1, <3>2 DEF PipelineOK, ProgressCounted
  <2>4. done_candidates = Cardinality(CountedCandidates)
    BY <1>1, <1>2 DEF PipelineOK, ProgressCounted
  <2>5. Last(progress') <= done_candidates
    BY <1>18, <1>19
  <2> QED BY <1>1, <1>6, <1>19, <2>2, <2>3, <2>4, <2>5 DEF ProgressCounted
<1>14. PipelineOK'
  BY <1>1, <1>2, <1>6, <1>7, <1>9, <1>10, <1>12, <1>13 DEF PipelineOK
<1>15. ProgressOrdered'
  <2>1. progress # <<>> => Last(progress) <= done_candidates
    BY <1>1, <1>2 DEF PipelineOK, ProgressCounted
  <2>2. \A i \in 2 .. Len(progress') : progress'[i - 1] <= progress'[i]
    BY <1>19, <2>1 DEF JobInv, ProgressOrdered
  <2> QED BY <1>1, <1>2, <1>8, <1>14, <2>2, PipelineProgress
<1>16. IInv' /\ Phases' /\ PoolProgress' /\ OutcomeFaithful'
  BY <1>1, <1>8, InPipeline
<1> QED BY <1>8, <1>14, <1>15, <1>16 DEF JobInv

\* Catch: the failure is kept, unless the job is cancelled.
LEMMA CatchKeeps ==
    ASSUME JobInv, NEW t \in DOMAIN threads, Catch(t)
    PROVE  JobInv'
<1>1. /\ phase = "pipeline" /\ threads[t].at = "threw" /\ backend = "accelerator"
      /\ UNCHANGED <<backend, result_count, phase, cancel_requested, stop_source, terminal, failed, results, chunk_done, done_candidates, progress_mutex, progress>>
      /\ UNCHANGED executor_vars
  BY DEF Catch, At, Quiet, spec, client, shared, JobInv, Phases
<1>2. JobTypes /\ PipelineOK /\ chunk_cursor \in Nat /\ chunk_total \in Nat
  BY ChunkFacts DEF JobInv, JobTypes, TypeOK
<1>3. threads \in ThreadType
  BY <1>1, <1>2 DEF PipelineOK
<1>4. threads' = [threads EXCEPT ![t].at = "left"]
  BY <1>1 DEF Catch, Goto, Idle
<1>5. "left" \in Places /\ threads[t].chunk \in Nat /\ threads[t].done \in 0 .. result_count
  BY <1>3 DEF Places, ThreadType
<1>6. /\ t \in PipelineThreads /\ PipelineThreads' = PipelineThreads
      /\ threads' \in ThreadType /\ threads' \in ThreadType'
      /\ threads'[t].at = "left" /\ threads'[t].chunk = threads[t].chunk /\ threads'[t].done = threads[t].done
      /\ \A u \in PipelineThreads : u # t => threads'[u] = threads[u]
  BY <1>1, <1>2, <1>4, <1>5, Moves
<1>7. chunk_total' = chunk_total /\ Chunks' = Chunks /\ Candidates' = Candidates
  BY <1>1 DEF chunk_total, Chunks, Candidates
<1>17. \A c \in Candidates : c \div ChunkSize \in Nat
  BY <1>2, ChunkFacts DEF JobTypes, Chunks
<1>18. IF cancel_requested THEN UNCHANGED <<chunk_cursor, chunk_failure>>
       ELSE chunk_failure' = TRUE /\ chunk_cursor' = chunk_total
  BY DEF Catch
<1>19. chunk_cursor' \in Nat /\ chunk_failure' \in BOOLEAN
  BY <1>2, <1>18 DEF JobTypes, TypeOK
<1>8. JobTypes'
  BY <1>1, <1>2, <1>6, <1>7, <1>19 DEF JobTypes, TypeOK, ThreadType, Places
<1>20. failed \/ cancel_requested
  BY <1>1, <1>2, <1>6 DEF PipelineOK, OwnChunk
<1>9. OwnChunk' /\ OneHolder' /\ NoneLost'
  <2>1. \A u \in PipelineThreads : (HoldsChunk(u)' <=> HoldsChunk(u)) /\ (Pending(u)' <=> Pending(u))
    BY <1>1, <1>6 DEF HoldsChunk, Pending
  <2>2. OwnChunk'
    BY <1>1, <1>2, <1>6, <1>7, <1>18, <2>1 DEF PipelineOK, OwnChunk
  <2>3. OneHolder'
    BY <1>1, <1>2, <1>6, <2>1 DEF PipelineOK, OneHolder
  <2>4. NoneLost'
    <3>1. \A h \in chunk_done : h < chunk_total
      BY <1>2 DEF JobTypes, TypeOK, Chunks
    <3> QED BY <1>1, <1>2, <1>6, <1>7, <1>18, <1>20, <3>1 DEF PipelineOK, NoneLost
  <2> QED BY <2>2, <2>3, <2>4
<1>10. FailureKept'
  BY <1>1, <1>2, <1>6, <1>18, <1>20 DEF PipelineOK, FailureKept
<1>11. \A k \in Nat : InStore(k)' <=> InStore(k)
  BY <1>1, <1>6 DEF InStore
<1>12. ResultsStored'
  BY <1>1, <1>2, <1>7, <1>11, <1>17 DEF PipelineOK, ResultsStored
<1>13. ProgressCounted'
  <2>1. \A k \in Nat : InCount(k)' <=> InCount(k)
    BY <1>1, <1>6 DEF InCount
  <2>2. CountedCandidates' = CountedCandidates
    BY <1>1, <1>7, <1>17, <2>1 DEF CountedCandidates
  <2> QED BY <1>1, <1>2, <1>6, <2>2 DEF PipelineOK, ProgressCounted
<1>14. PipelineOK'
  BY <1>1, <1>2, <1>6, <1>7, <1>9, <1>10, <1>12, <1>13 DEF PipelineOK
<1>15. ProgressOrdered'
  BY <1>1, <1>2, <1>8, <1>14, PipelineProgress DEF JobInv, ProgressOrdered
<1>16. IInv' /\ Phases' /\ PoolProgress' /\ OutcomeFaithful'
  BY <1>1, <1>8, InPipeline
<1> QED BY <1>8, <1>14, <1>15, <1>16 DEF JobInv

-----------------------------------------------------------------------------
(* The steps of the executor that end the job.                             *)

\* Nothing is left to be said but the outcome.
LEMMA Ends ==
    ASSUME JobInv, IInv', phase # "ended", phase' = "ended", caller' = "idle", UNCHANGED <<call, held>>,
           UNCHANGED <<backend, result_count, cancel_requested, stop_source, chunk_cursor, chunk_done,
                       done_candidates, chunk_failure, progress_mutex, threads>>,
           results' \in [Candidates -> Candidates \cup {Blank}], failed' \in BOOLEAN,
           progress' \in Seq(0 .. result_count),
           terminal'.type \in {"result", "error", "cancelled"},
           \A k \in Calls : failure'[k] => k = call' /\ terminal'.type = "error"
    PROVE  JobTypes' /\ Phases' /\ PoolProgress' /\ PipelineOK'
<1>1. Candidates' = Candidates /\ Chunks' = Chunks /\ PipelineThreads' = PipelineThreads
  BY DEF Candidates, Chunks, PipelineThreads, thread_count, chunk_total
<1>2. JobTypes'
  BY <1>1 DEF JobInv, JobTypes, TypeOK, ThreadType
<1>3. Phases'
  BY DEF JobInv, Phases
<1> QED BY <1>2, <1>3 DEF PoolProgress, PipelineOK

\* The first n candidates under their own ids.
LEMMA FirstOfFacts ==
    ASSUME NEW n \in Nat, NEW values, \A c \in 0 .. n - 1 : values[c] = c
    PROVE  FirstOf(values, n) = [i \in 1 .. n |-> i - 1] /\ Len(FirstOf(values, n)) = n
<1>1. \A i \in 1 .. n : values[i - 1] = i - 1
  OBVIOUS
<1>2. [i \in 1 .. n |-> values[i - 1]] = [i \in 1 .. n |-> i - 1]
  BY <1>1
<1>3. Len([i \in 1 .. n |-> i - 1]) = n
  OBVIOUS
<1> QED BY <1>2, <1>3 DEF FirstOf

\* A cancelled job reports n leading candidates, and n is the first that it does not have.
LEMMA CancelledTruth ==
    ASSUME result_count \in ResultCounts, UNCHANGED result_count, NEW n \in 0 .. result_count, cancel_requested',
           NEW values, \A c \in 0 .. n - 1 : values[c] = c,
           n < result_count => results'[n] = Blank,
           terminal' = [type |-> "cancelled", partial |-> n > 0, candidates |-> FirstOf(values, n)],
           ~chunk_failure', \A k \in Calls : ~failure'[k]
    PROVE  OutcomeFaithful'
<1>1. result_count \in Nat
  BY ChunkFacts
<1>2. FirstOf(values, n) = [i \in 1 .. n |-> i - 1] /\ Len(FirstOf(values, n)) = n
  BY <1>1, FirstOfFacts
<1>3. /\ terminal'.type = "cancelled" /\ terminal'.partial = (n > 0)
      /\ terminal'.candidates = [i \in 1 .. n |-> i - 1] /\ Len(terminal'.candidates) = n
  BY <1>2
<1> QED BY <1>3 DEF OutcomeFaithful

\* A cancel that leaves nothing to report.
LEMMA CancelledEmpty ==
    ASSUME JobTypes, UNCHANGED result_count, cancel_requested', results'[0] = Blank,
           terminal' = [type |-> "cancelled", partial |-> FALSE, candidates |-> <<>>],
           ~chunk_failure', \A k \in Calls : ~failure'[k]
    PROVE  OutcomeFaithful'
<1>1. Len(<<>>) = 0 /\ [i \in 1 .. 0 |-> i - 1] = <<>>
  OBVIOUS
<1>2. result_count \in ResultCounts /\ 0 \in 0 .. result_count
  BY ChunkFacts DEF JobTypes
<1>3. /\ terminal'.type = "cancelled" /\ terminal'.partial = FALSE /\ terminal'.candidates = <<>>
  OBVIOUS
<1>4. (0 > 0) = FALSE
  OBVIOUS
<1> QED BY <1>1, <1>2, <1>3, <1>4 DEF OutcomeFaithful

\* A result has every candidate.
LEMMA ResultTruth ==
    ASSUME JobTypes, UNCHANGED result_count, NEW values,
           ~misreported' => Last(progress') = result_count /\ \A c \in Candidates : values[c] = c,
           terminal' = [type |-> "result", candidates |-> FirstOf(values, result_count)],
           ~failed', ~chunk_failure', \A k \in Calls : ~failure'[k]
    PROVE  OutcomeFaithful'
<1>1. result_count \in Nat
  BY ChunkFacts DEF JobTypes
<1>2. ~misreported' => FirstOf(values, result_count) = [i \in 1 .. result_count |-> i - 1]
  BY <1>1, FirstOfFacts DEF Candidates
<1>3. /\ terminal'.type = "result"
      /\ ~misreported' => terminal'.candidates = [i \in 1 .. result_count |-> i - 1]
  BY <1>2
<1> QED BY <1>3 DEF OutcomeFaithful

\* An error hides nothing.
LEMMA ErrorTruth ==
    ASSUME terminal'.type = "error", phase' = "ended", chunk_failure' => failed'
    PROVE  OutcomeFaithful'
  BY DEF OutcomeFaithful

\* PlanFails and PlanCancelled: nothing has been analysed yet.
LEMMA PlanFailsKeeps ==
    ASSUME JobInv, PlanFails
    PROVE  JobInv'
<1>1. /\ phase = "plan" /\ phase' = "ended" /\ terminal' = [type |-> "error"]
      /\ UNCHANGED <<backend, result_count, cancel_requested, stop_source, chunk_cursor, chunk_done,
                     done_candidates, chunk_failure, progress_mutex, threads, results, progress, failed>>
      /\ UNCHANGED executor_vars
  BY DEF PlanFails, Escape, End, spec, client, shared
<1>2. UNCHANGED <<caller, call, failure, completed, held>>
  BY <1>1 DEF executor_vars, task_vars, thread_vars
<1>3. /\ caller = "idle" /\ ~chunk_failure /\ terminal'.type = "error"
      /\ \A k \in Calls : ~failure[k]
      /\ results \in [Candidates -> Candidates \cup {Blank}] /\ failed \in BOOLEAN
      /\ progress \in Seq(0 .. result_count)
  BY <1>1 DEF JobInv, Phases, JobTypes, TypeOK
<1>4. IInv'
  BY <1>1, ExecutorStutters DEF JobInv
<1>5. JobTypes' /\ Phases' /\ PoolProgress' /\ PipelineOK'
  BY <1>1, <1>2, <1>3, <1>4, Ends
<1>6. OutcomeFaithful'
  BY <1>1, <1>3, ErrorTruth
<1>7. ProgressOrdered'
  BY <1>1, <1>2, <1>5 DEF JobInv, ProgressOrdered, JobTypes, Candidates
<1> QED BY <1>4, <1>5, <1>6, <1>7 DEF JobInv

LEMMA PlanCancelledKeeps ==
    ASSUME JobInv, PlanCancelled
    PROVE  JobInv'
<1>1. /\ phase = "plan" /\ phase' = "ended" /\ cancel_requested
      /\ terminal' = [type |-> "cancelled", partial |-> FALSE, candidates |-> <<>>]
      /\ UNCHANGED <<backend, result_count, cancel_requested, stop_source, chunk_cursor, chunk_done,
                     done_candidates, chunk_failure, progress_mutex, threads, results, progress, failed>>
      /\ UNCHANGED executor_vars
  BY DEF PlanCancelled, Escape, End, spec, client, shared
<1>2. UNCHANGED <<caller, call, failure, completed, held>>
  BY <1>1 DEF executor_vars, task_vars, thread_vars
<1>3. /\ caller = "idle" /\ ~chunk_failure /\ terminal'.type = "cancelled"
      /\ \A k \in Calls : ~failure[k]
      /\ results \in [Candidates -> Candidates \cup {Blank}] /\ failed \in BOOLEAN
      /\ progress \in Seq(0 .. result_count)
  BY <1>1 DEF JobInv, Phases, JobTypes, TypeOK
<1>4. IInv'
  BY <1>1, ExecutorStutters DEF JobInv
<1>5. JobTypes' /\ Phases' /\ PoolProgress' /\ PipelineOK'
  BY <1>1, <1>2, <1>3, <1>4, Ends
<1>6. OutcomeFaithful'
  <2>1. 0 \in Candidates
    BY ChunkFacts DEF JobInv, JobTypes, Candidates
  <2>2. results'[0] = Blank
    BY <1>1, <2>1 DEF JobInv, Phases
  <2> QED BY <1>1, <1>2, <1>3, <2>2, CancelledEmpty DEF JobInv
<1>7. ProgressOrdered'
  BY <1>1, <1>2, <1>5 DEF JobInv, ProgressOrdered, JobTypes, Candidates
<1> QED BY <1>4, <1>5, <1>6, <1>7 DEF JobInv

\* What the backend leaves when it returns everything.
LEMMA AllFilled ==
    ASSUME JobTypes
    PROVE  /\ Filled(Candidates) \in [Candidates -> Candidates \cup {Blank}]
           /\ \A c \in Candidates : Filled(Candidates)[c] = c
  BY DEF Filled

\* Returns: every candidate at once, cancelled or not.
LEMMA ReturnsKeeps ==
    ASSUME JobInv, Returns
    PROVE  JobInv'
<1>1. /\ phase \in {"metal", "single"} /\ phase' = "ended"
      /\ UNCHANGED <<backend, result_count, cancel_requested, stop_source, chunk_cursor, chunk_done,
                     done_candidates, chunk_failure, progress_mutex, threads, failed>>
      /\ UNCHANGED executor_vars
      /\ results' = Filled(Candidates)
      /\ \/ /\ cancel_requested /\ progress' = progress
            /\ terminal' = [type |-> "cancelled", partial |-> result_count > 0,
                            candidates |-> FirstOf(results', result_count)]
         \/ /\ ~cancel_requested /\ Reported(result_count)
            /\ terminal' = [type |-> "result", candidates |-> FirstOf(results', result_count)]
  BY DEF Returns, PartialCancelled, Result, End, spec, client, shared
<1>2. UNCHANGED <<caller, call, failure, completed, held>>
  BY <1>1 DEF executor_vars, task_vars, thread_vars
<1>3. /\ caller = "idle" /\ ~chunk_failure /\ terminal'.type \in {"cancelled", "result"}
      /\ \A k \in Calls : ~failure[k]
      /\ failed \in BOOLEAN /\ ~failed /\ JobTypes
      /\ result_count \in ResultCounts /\ result_count \in 0 .. result_count /\ result_count \in Nat
      /\ backend \in {"metal", "accelerator"}
  BY <1>1, ChunkFacts DEF JobInv, Phases, JobTypes, TypeOK
<1>4. IInv'
  BY <1>1, ExecutorStutters DEF JobInv
<1>5. /\ results' \in [Candidates -> Candidates \cup {Blank}]
      /\ \A c \in Candidates : results'[c] = c
  BY <1>1, <1>3, AllFilled
<1>6. /\ progress' \in Seq(0 .. result_count)
      /\ \A i \in 2 .. Len(progress') : progress'[i - 1] <= progress'[i]
      /\ terminal'.type = "result" => Last(progress') = result_count
      /\ progress' # <<>> => Last(progress') \in 0 .. result_count
  <2>1. CASE cancel_requested
    <3>1. progress' = progress /\ terminal'.type = "cancelled" /\ progress \in Seq(0 .. result_count)
      BY <1>1, <2>1 DEF JobInv, JobTypes
    <3> QED BY <3>1, LastFacts DEF JobInv, ProgressOrdered
  <2>2. CASE ~cancel_requested
    <3>1. Reported(result_count)
      BY <1>1, <2>2
    <3>2. progress # <<>> => Last(progress) \in 0 .. result_count
      BY LastFacts DEF JobInv, JobTypes
    <3>3. /\ progress' \in Seq(0 .. result_count) /\ progress' # <<>> /\ Last(progress') = result_count
          /\ \A i \in 2 .. Len(progress') :
                \/ i \in 2 .. Len(progress) /\ progress'[i] = progress[i] /\ progress'[i - 1] = progress[i - 1]
                \/ i = Len(progress') /\ progress # <<>> /\ progress'[i] = result_count
                   /\ progress'[i - 1] = Last(progress)
      BY <1>3, <3>1, ReportedFacts
    <3>4. \A i \in 2 .. Len(progress') : progress'[i - 1] <= progress'[i]
      BY <1>3, <3>2, <3>3 DEF JobInv, ProgressOrdered
    <3> QED BY <1>3, <3>3, <3>4
  <2> QED BY <2>1, <2>2
<1>7. JobTypes' /\ Phases' /\ PoolProgress' /\ PipelineOK'
  BY <1>1, <1>2, <1>3, <1>4, <1>5, <1>6, Ends
<1>8. OutcomeFaithful'
  <2>1. CASE terminal'.type = "result"
    <3>1. terminal' = [type |-> "result", candidates |-> FirstOf(results', result_count)]
      BY <1>1, <2>1
    <3> QED BY <1>1, <1>2, <1>3, <1>5, <1>6, <2>1, <3>1, ResultTruth
  <2>2. CASE terminal'.type = "cancelled"
    <3>1. /\ terminal' = [type |-> "cancelled", partial |-> result_count > 0,
                          candidates |-> FirstOf(results', result_count)]
          /\ cancel_requested
      BY <1>1, <2>2
    <3>2. \A c \in 0 .. result_count - 1 : results'[c] = c
      BY <1>5 DEF Candidates
    <3>3. ~(result_count < result_count)
      BY <1>3
    <3> QED BY <1>1, <1>2, <1>3, <3>1, <3>2, <3>3, CancelledTruth
  <2> QED BY <1>3, <2>1, <2>2
<1>9. ProgressOrdered'
  <2>1. Candidates' = Candidates /\ {c \in Candidates : results'[c] = c} = Candidates
    BY <1>1, <1>5 DEF Candidates
  <2>2. Cardinality(Candidates) = result_count
    BY <1>3, ChunkFacts
  <2>3. progress' # <<>> => Last(progress') <= result_count
    BY <1>3, <1>6
  <2> QED BY <1>1, <1>3, <1>6, <1>7, <2>1, <2>2, <2>3 DEF ProgressOrdered, JobTypes
<1> QED BY <1>4, <1>7, <1>8, <1>9 DEF JobInv

\* Throws: nothing is kept of a call that failed.
LEMMA ThrowsKeeps ==
    ASSUME JobInv, Throws
    PROVE  JobInv'
<1>1. /\ phase \in {"metal", "single"} /\ phase' = "ended" /\ failed' = ~cancel_requested
      /\ terminal' = (IF cancel_requested
                      THEN [type |-> "cancelled", partial |-> FALSE, candidates |-> <<>>]
                      ELSE [type |-> "error"])
      /\ UNCHANGED <<backend, result_count, cancel_requested, stop_source, chunk_cursor, chunk_done,
                     done_candidates, chunk_failure, progress_mutex, threads, results, progress>>
      /\ UNCHANGED executor_vars
  BY DEF Throws, EscapeFrom, Escape, End, spec, client, shared
<1>2. UNCHANGED <<caller, call, failure, completed, held>>
  BY <1>1 DEF executor_vars, task_vars, thread_vars
<1>3. /\ caller = "idle" /\ ~chunk_failure /\ terminal'.type \in {"cancelled", "error"}
      /\ \A k \in Calls : ~failure[k]
      /\ results \in [Candidates -> Candidates \cup {Blank}]
      /\ progress \in Seq(0 .. result_count)
  BY <1>1 DEF JobInv, Phases, JobTypes, TypeOK
<1>4. IInv'
  BY <1>1, ExecutorStutters DEF JobInv
<1>10. failed' \in BOOLEAN
  BY <1>1 DEF JobInv, JobTypes
<1>5. JobTypes' /\ Phases' /\ PoolProgress' /\ PipelineOK'
  BY <1>1, <1>2, <1>3, <1>4, <1>10, Ends
<1>6. OutcomeFaithful'
  <2>1. CASE cancel_requested
    <3>1. 0 \in Candidates
      BY ChunkFacts DEF JobInv, JobTypes, Candidates
    <3>2. results'[0] = Blank
      BY <1>1, <3>1 DEF JobInv, Phases
    <3> QED BY <1>1, <1>2, <1>3, <2>1, <3>2, CancelledEmpty DEF JobInv
  <2>2. CASE ~cancel_requested
    BY <1>1, <1>3, <2>2, ErrorTruth
  <2> QED BY <2>1, <2>2
<1>7. ProgressOrdered'
  BY <1>1, <1>2, <1>5 DEF JobInv, ProgressOrdered, JobTypes, Candidates
<1> QED BY <1>4, <1>5, <1>6, <1>7 DEF JobInv

\* When every thread has left, nothing of the chunks is open: without a failure or a cancel
\* they are all done and counted, and a cancelled job has those before the first gap.
LEMMA PipelineEndsKeeps ==
    ASSUME JobInv, PipelineEnds
    PROVE  JobInv'
<1>1. /\ phase = "pipeline" /\ phase' = "ended" /\ backend = "accelerator"
      /\ \A t \in PipelineThreads : threads[t].at = "left"
      /\ UNCHANGED <<backend, result_count, cancel_requested, stop_source, chunk_cursor, chunk_done,
                     done_candidates, chunk_failure, progress_mutex, threads, results, progress, failed>>
      /\ UNCHANGED executor_vars
      /\ \/ chunk_failure /\ terminal' = [type |-> "error"]
         \/ /\ ~chunk_failure /\ cancel_requested
            /\ terminal' = [type |-> "cancelled", partial |-> Prefix > 0,
                            candidates |-> FirstOf(results, Prefix)]
         \/ /\ ~chunk_failure /\ ~cancel_requested
            /\ terminal' = [type |-> "result", candidates |-> FirstOf(results, result_count)]
  BY DEF PipelineEnds, Joined, Escape, PartialCancelled, Result, End, spec, client, shared, JobInv, Phases
<1>2. UNCHANGED <<caller, call, failure, completed, held>>
  BY <1>1 DEF executor_vars, task_vars, thread_vars
<1>3. /\ caller = "idle" /\ terminal'.type \in {"cancelled", "result", "error"}
      /\ \A k \in Calls : ~failure[k]
      /\ results \in [Candidates -> Candidates \cup {Blank}] /\ failed \in BOOLEAN
      /\ progress \in Seq(0 .. result_count)
      /\ JobTypes /\ PipelineOK
  BY <1>1 DEF JobInv, Phases, JobTypes, TypeOK
<1>4. IInv'
  BY <1>1, ExecutorStutters DEF JobInv
<1>5. JobTypes' /\ Phases' /\ PoolProgress' /\ PipelineOK'
  BY <1>1, <1>2, <1>3, <1>4, Ends
<1>6. /\ result_count \in ResultCounts /\ result_count \in 1 .. MaxCandidates /\ MaxCandidates \in Nat
      /\ result_count \in Nat
      /\ ChunkSize \in Nat \ {0} /\ chunk_total \in Nat \ {0} /\ 1 \in PipelineThreads
      /\ chunk_total * ChunkSize >= result_count
      /\ \A c \in Candidates : c \div ChunkSize \in Chunks
      /\ chunk_done \subseteq Chunks /\ chunk_cursor \in Nat
  BY <1>3, ChunkFacts DEF JobTypes, TypeOK, PipelineThreads
<1>7. \A c \in Candidates : results[c] = IF c \div ChunkSize \in chunk_done THEN c ELSE Blank
  BY <1>1, <1>3 DEF PipelineOK, ResultsStored, InStore
<1>8. OutcomeFaithful'
  <2>1. CASE chunk_failure /\ terminal' = [type |-> "error"]
    BY <1>1, <1>3, <2>1, ErrorTruth DEF PipelineOK, FailureKept
  <2>2. CASE /\ ~chunk_failure /\ cancel_requested
             /\ terminal' = [type |-> "cancelled", partial |-> Prefix > 0,
                             candidates |-> FirstOf(results, Prefix)]
    <3> DEFINE gaps == {k \in 0 .. chunk_total : k \notin chunk_done}
               gap == Min(gaps)
    <3>1. chunk_total \in gaps /\ gaps \subseteq Nat
      BY <1>6 DEF Chunks
    <3>2. gap \in gaps /\ \A k \in gaps : gap <= k
      BY <3>1, MinFacts
    <3>3. gap \in 0 .. chunk_total /\ gap \notin chunk_done /\ \A k \in Chunks : k < gap => k \in chunk_done
      BY SMTT(20), <1>6, <3>2 DEF Chunks
    <3> HIDE DEF gap, gaps
    <3>4. gap * ChunkSize \in Nat
      BY <1>6, <3>3
    <3>5. Prefix = Min({gap * ChunkSize, result_count})
      BY DEF Prefix, gap, gaps
    <3>6. Prefix \in {gap * ChunkSize, result_count} /\ Prefix <= gap * ChunkSize /\ Prefix <= result_count
      <4>1. {gap * ChunkSize, result_count} \subseteq Nat
        BY <1>6, <3>4
      <4> QED BY <3>5, <4>1, MinFacts
    <3>7. Prefix \in 0 .. result_count /\ Prefix \in Nat
      BY <1>6, <3>4, <3>6
    <3>8. \A c \in 0 .. Prefix - 1 : results[c] = c
      <4> SUFFICES ASSUME NEW c \in 0 .. Prefix - 1 PROVE results[c] = c
        OBVIOUS
      <4>1. c \in Candidates /\ c < gap * ChunkSize
        BY <1>6, <3>4, <3>6, <3>7 DEF Candidates
      <4>2. c \div ChunkSize < gap /\ c \div ChunkSize \in Chunks
        BY <1>6, <3>3, <4>1, ChunkFacts
      <4> QED BY <1>7, <3>3, <4>1, <4>2
    <3>9. Prefix < result_count => results'[Prefix] = Blank
      <4> SUFFICES ASSUME Prefix < result_count PROVE results[Prefix] = Blank
        BY <1>1
      <4>1. Prefix = gap * ChunkSize /\ Prefix \in Candidates
        BY <1>6, <3>6, <3>7 DEF Candidates
      <4>2. Prefix \div ChunkSize = gap
        BY <1>6, <3>3, <4>1, ChunkFacts
      <4> QED BY <1>7, <3>3, <4>1, <4>2
    <3> QED BY <1>1, <1>2, <1>3, <1>6, <2>2, <3>7, <3>8, <3>9, CancelledTruth
  <2>3. CASE /\ ~chunk_failure /\ ~cancel_requested
             /\ terminal' = [type |-> "result", candidates |-> FirstOf(results, result_count)]
    <3>1. ~failed
      BY <1>1, <1>3, <2>3 DEF PipelineOK, FailureKept
    <3>2. chunk_cursor >= chunk_total
      BY <1>1, <1>3, <1>6, <2>3 DEF PipelineOK, OwnChunk
    <3>3. \A k \in Chunks : k \in chunk_done
      <4>1. \A k \in Chunks : k < chunk_cursor
        BY <1>6, <3>2 DEF Chunks
      <4> QED BY <1>1, <1>3, <2>3, <3>1, <4>1 DEF PipelineOK, NoneLost, Pending
    <3>4. \A c \in Candidates : results[c] = c
      BY <1>6, <1>7, <3>3
    <3>5. done_candidates = result_count
      <4>1. CountedCandidates = Candidates
        BY <1>1, <1>6, <3>3 DEF CountedCandidates, InCount
      <4> QED BY <1>1, <1>3, <1>6, <4>1, ChunkFacts DEF PipelineOK, ProgressCounted
    <3>6. Last(progress) = result_count
      <4>1. progress_mutex = Nobody
        BY <1>1, <1>3 DEF PipelineOK, ProgressCounted, JobTypes, TypeOK
      <4> QED BY <1>1, <1>3, <1>6, <3>5, <4>1 DEF PipelineOK, ProgressCounted
    <3> QED BY <1>1, <1>2, <1>3, <2>3, <3>1, <3>4, <3>6, ResultTruth
  <2> QED BY <1>1, <2>1, <2>2, <2>3
<1>9. ProgressOrdered'
  BY <1>1, <1>2, <1>5 DEF JobInv, ProgressOrdered, JobTypes, Candidates
<1> QED BY <1>4, <1>5, <1>8, <1>9 DEF JobInv

-----------------------------------------------------------------------------
(* The other steps.                                                        *)

\* PlanEnds: all threads of the pipeline are idle, or the pool has its call.
LEMMA PlanEndsKeeps ==
    ASSUME JobInv, PlanEnds
    PROVE  JobInv'
<1>1. /\ phase = "plan" /\ phase' \in {"cpu", "metal", "pipeline", "single"}
      /\ phase' = "cpu" <=> backend = "cpu"
      /\ phase' = "metal" <=> backend = "metal"
      /\ threads' = (IF phase' = "pipeline" THEN [t \in PipelineThreads |-> Idle] ELSE threads)
      /\ UNCHANGED <<backend, result_count, cancel_requested, stop_source, results, chunk_cursor, chunk_done,
                     done_candidates, chunk_failure, progress_mutex, progress, failed, terminal>>
  BY DEF PlanEnds, spec, client, shared, JobInv, JobTypes
<1>2. IF phase' = "cpu"
      THEN \E cpu_worker_count \in 1 .. MaxWorkers : Begin(result_count, cpu_worker_count, stop_source)
      ELSE UNCHANGED executor_vars
  BY DEF PlanEnds
<1>3. /\ JobTypes /\ caller = "idle" /\ progress = <<>> /\ terminal.type = "none" /\ ~chunk_failure
      /\ results = [c \in Candidates |-> Blank] /\ ~failed /\ (stop_source => cancel_requested)
      /\ chunk_cursor = 0 /\ chunk_done = {} /\ done_candidates = 0 /\ progress_mutex = Nobody /\ threads = <<>>
      /\ \A k \in Calls : ~failure[k] /\ last_reported[k] = 0
      /\ \A w \in Threads : held[w] = NoTask
  BY <1>1 DEF JobInv, Phases, PoolProgress
<1>4. /\ result_count \in 1 .. MaxCandidates /\ stop_source \in BOOLEAN
      /\ result_count \in Nat /\ chunk_total \in Nat
  BY <1>3, ChunkFacts DEF JobTypes
<1>5. Candidates' = Candidates /\ Chunks' = Chunks /\ PipelineThreads' = PipelineThreads /\ ThreadType' = ThreadType
      /\ chunk_total' = chunk_total
  BY <1>1 DEF Candidates, Chunks, PipelineThreads, thread_count, chunk_total, ThreadType
<1>6. /\ IInv'
      /\ failure' = failure /\ last_reported' = last_reported
      /\ IF phase' = "cpu" THEN /\ caller' = "publish" /\ size'[call'] = result_count
                                /\ stop'[call'] = stop_source
                                /\ completed'[call'] = {} /\ call' \in Calls
                                /\ \A w \in Threads : worker'[w] # "progress"
         ELSE caller' = "idle"
      /\ \A w \in Threads : held'[w] = NoTask
  <2>1. CASE phase' = "cpu"
    <3>1. PICK c \in 1 .. MaxWorkers : Begin(result_count, c, stop_source)
      BY <1>2, <2>1
    <3>2. IInv'
      BY <1>4, <3>1, BeginKeeps DEF JobInv
    <3>3. /\ caller' = "publish" /\ call' = call + 1 /\ call < MaxCalls /\ call \in 0 .. MaxCalls
          /\ size' = [size EXCEPT ![call'] = result_count]
          /\ stop' = [stop EXCEPT ![call'] = stop_source]
          /\ UNCHANGED <<failure, last_reported, completed>>
      BY <3>1 DEF Begin, JobInv, IInv, ExecutorTypeOK
    <3>4. call' \in Calls
      BY <3>3, BoundsOK DEF Calls
    <3>5. size'[call'] = result_count /\ stop'[call'] = stop_source
      BY <3>3, <3>4 DEF JobInv, IInv, ExecutorTypeOK
    <3>6. completed'[call'] = {}
      BY <3>2, <3>3, <3>4 DEF IInv, Fresh
    <3>8. \A w \in Threads : held'[w] = NoTask
      BY <1>3, <3>1 DEF Begin
    <3>7. \A w \in Threads : worker'[w] # "progress"
      BY <3>2, <3>8 DEF IInv, Holding
    <3> QED BY <2>1, <3>2, <3>3, <3>4, <3>5, <3>6, <3>7, <3>8
  <2>2. CASE phase' # "cpu"
    <3>1. UNCHANGED executor_vars
      BY <1>2, <2>2
    <3> QED BY <1>3, <2>2, <3>1, ExecutorStutters DEF JobInv, executor_vars, task_vars, thread_vars
  <2> QED BY <2>1, <2>2
<1>7. threads' = <<>> \/ threads' \in ThreadType
  <2>1. 0 \in 0 .. result_count
    BY <1>4
  <2> QED BY <1>1, <1>3, <2>1 DEF ThreadType, Idle, Places
<1>8. JobTypes'
  <2>1. \A t \in DOMAIN threads' :
            threads'[t].at \in {"claim", "look", "analyze", "store", "count", "emit", "threw", "left"}
    BY <1>1, <1>3 DEF Idle
  <2> QED BY <1>1, <1>3, <1>5, <1>7, <2>1 DEF JobTypes, TypeOK
<1>9. Phases'
  BY <1>1, <1>3, <1>5, <1>6 DEF JobInv, JobTypes, Phases
<1>10. PoolProgress'
  <2>1. CASE phase' = "cpu"
    <3>1. Cardinality({}) = 0
      BY FS_EmptySet
    <3>2. /\ last_reported'[call'] = 0 /\ progress' = <<>> /\ Cardinality(completed'[call']) = 0
          /\ size'[call'] # 0
      <4>1. call' \in Calls /\ size'[call'] = result_count /\ completed'[call'] = {}
        BY <1>6, <2>1
      <4>2. last_reported'[call'] = 0
        BY <1>3, <1>6, <4>1
      <4> QED BY <1>1, <1>3, <1>4, <3>1, <4>1, <4>2
    <3> QED BY <1>1, <1>6, <2>1, <3>2 DEF PoolProgress
  <2>2. CASE phase' # "cpu"
    BY <1>1, <2>2 DEF PoolProgress
  <2> QED BY <2>1, <2>2
<1>11. PipelineOK'
  <2> SUFFICES ASSUME phase' = "pipeline" PROVE PipelineOK'
    BY DEF PipelineOK
  <2>1. \A t \in PipelineThreads : threads'[t].at = "claim"
    BY <1>1 DEF Idle
  <2>2. threads' \in ThreadType'
    <3>1. 0 \in 0 .. result_count
      BY <1>4
    <3> QED BY <1>1, <1>5, <3>1 DEF ThreadType, Idle, Places
  <2>3. OwnChunk' /\ OneHolder' /\ FailureKept'
    BY <1>1, <1>3, <1>5, <2>1 DEF OwnChunk, OneHolder, FailureKept, HoldsChunk, Pending
  <2>4. NoneLost'
    BY <1>1, <1>3, <1>4, <1>5 DEF NoneLost, Chunks
  <2>5. ResultsStored'
    BY <1>1, <1>3, <1>5, <2>1 DEF ResultsStored, InStore
  <2>6. ProgressCounted'
    <3>1. CountedCandidates' = {}
      BY <1>1, <1>3 DEF CountedCandidates
    <3>2. \A t \in PipelineThreads : t # Nobody
      BY <1>3, ChunkFacts DEF JobTypes, PipelineThreads, Nobody
    <3> QED BY <1>1, <1>3, <1>5, <2>1, <3>1, <3>2, FS_EmptySet DEF ProgressCounted
  <2> QED BY <2>2, <2>3, <2>4, <2>5, <2>6 DEF PipelineOK
<1>12. OutcomeFaithful'
  BY <1>1, <1>3, NoOutcome
<1>13. ProgressOrdered'
  <2>1. Len(progress') = 0 /\ progress' = <<>>
    BY <1>1, <1>3
  <2> QED BY <1>8, <2>1 DEF ProgressOrdered, JobTypes
<1> QED BY <1>6, <1>8, <1>9, <1>10, <1>11, <1>12, <1>13 DEF JobInv

\* Callback: Metal counts upwards.
LEMMA CallbackKeeps ==
    ASSUME JobInv, Callback
    PROVE  JobInv'
<1>1. PICK done \in Candidates : (progress # <<>> => done + 1 > Last(progress)) /\ Reported(done + 1)
  BY DEF Callback
<1>2. /\ phase = "metal" /\ backend = "metal"
      /\ UNCHANGED <<backend, result_count, phase, cancel_requested, stop_source, chunk_cursor, chunk_done,
                     done_candidates, chunk_failure, progress_mutex, threads, results, failed, terminal>>
      /\ UNCHANGED executor_vars
  BY DEF Callback, spec, client, shared, JobInv, Phases
<1>3. UNCHANGED <<caller, call, failure, completed, size, stop, held>>
  BY <1>2 DEF executor_vars, task_vars, thread_vars
<1>4. JobTypes /\ result_count \in Nat
  BY ChunkFacts DEF JobInv, JobTypes
<1>5. done + 1 \in 0 .. result_count
  BY <1>4 DEF Candidates
<1>6. /\ progress' \in Seq(0 .. result_count) /\ progress' # <<>>
      /\ \A i \in 2 .. Len(progress') :
            \/ i \in 2 .. Len(progress) /\ progress'[i] = progress[i] /\ progress'[i - 1] = progress[i - 1]
            \/ i = Len(progress') /\ progress # <<>> /\ progress'[i] = done + 1
               /\ progress'[i - 1] = Last(progress)
  BY <1>1, <1>4, <1>5, ReportedFacts
<1>7. \A i \in 2 .. Len(progress') : progress'[i - 1] <= progress'[i]
  <2>1. progress # <<>> => Last(progress) <= done + 1
    <3>1. progress # <<>> => Last(progress) \in 0 .. result_count
      BY <1>4, LastFacts DEF JobTypes
    <3> QED BY <1>1, <1>4, <1>5, <3>1
  <2> QED BY <1>6, <2>1 DEF JobInv, ProgressOrdered
<1>8. Candidates' = Candidates /\ Chunks' = Chunks /\ PipelineThreads' = PipelineThreads
  BY <1>2 DEF Candidates, Chunks, PipelineThreads, thread_count, chunk_total
<1>9. JobTypes'
  BY <1>2, <1>4, <1>6, <1>8 DEF JobTypes, TypeOK, ThreadType
<1>10. Phases'
  BY <1>2, <1>3, <1>8 DEF JobInv, Phases
<1>11. PoolProgress' /\ PipelineOK'
  BY <1>2 DEF PoolProgress, PipelineOK
<1>12. OutcomeFaithful'
  BY <1>2, NoOutcome DEF JobInv, Phases
<1>13. ProgressOrdered'
  BY <1>2, <1>7, <1>9 DEF ProgressOrdered, JobTypes
<1>14. IInv'
  BY <1>2, ExecutorStutters DEF JobInv
<1> QED BY <1>9, <1>10, <1>11, <1>12, <1>13, <1>14 DEF JobInv

\* A cancel is asked for while the job runs; what it excuses is only more.
LEMMA RequestCancelKeeps ==
    ASSUME JobInv, RequestCancel
    PROVE  JobInv'
<1>1. /\ phase # "ended" /\ cancel_requested' = TRUE
      /\ UNCHANGED <<backend, result_count, phase, stop_source, chunk_cursor, chunk_done, progress,
                     done_candidates, chunk_failure, progress_mutex, threads, results, failed, terminal>>
      /\ UNCHANGED executor_vars
  BY DEF RequestCancel, spec, shared
<1>2. UNCHANGED <<caller, call, failure, completed, size, stop, last_reported, worker, counted, held,
                  misreported>>
  BY <1>1 DEF executor_vars, task_vars, thread_vars, pool_vars
<1>3. /\ Candidates' = Candidates /\ Chunks' = Chunks /\ PipelineThreads' = PipelineThreads
      /\ ThreadType' = ThreadType /\ chunk_total' = chunk_total
  BY <1>1 DEF Candidates, Chunks, PipelineThreads, thread_count, chunk_total, ThreadType
<1>4. JobTypes'
  BY <1>1, <1>3 DEF JobInv, JobTypes, TypeOK
<1>5. Phases' /\ PoolProgress'
  BY <1>1, <1>2, <1>3 DEF JobInv, Phases, PoolProgress
<1>6. PipelineOK'
  <2> SUFFICES ASSUME phase = "pipeline" PROVE PipelineOK'
    BY <1>1 DEF PipelineOK
  <2>1. PipelineOK
    BY DEF JobInv
  <2>2. OwnChunk' /\ OneHolder' /\ NoneLost' /\ FailureKept'
    BY <1>1, <1>3, <2>1 DEF PipelineOK, OwnChunk, OneHolder, NoneLost, FailureKept, HoldsChunk, Pending
  <2>3. ResultsStored' /\ ProgressCounted'
    BY <1>1, <1>3, <2>1 DEF PipelineOK, ResultsStored, InStore, ProgressCounted, CountedCandidates, InCount
  <2> QED BY <1>1, <1>3, <2>1, <2>2, <2>3 DEF PipelineOK
<1>7. OutcomeFaithful'
  BY <1>1, NoOutcome DEF JobInv, Phases
<1>8. ProgressOrdered'
  BY <1>1, <1>2, <1>3, <1>4 DEF JobInv, ProgressOrdered, JobTypes
<1>9. IInv'
  BY <1>1, ExecutorStutters DEF JobInv
<1> QED BY <1>4, <1>5, <1>6, <1>7, <1>8, <1>9 DEF JobInv

\* The stop source follows the cancel, and the pool's task sees it.
LEMMA RequestStopKeeps ==
    ASSUME JobInv, RequestStop
    PROVE  JobInv'
<1>1. /\ cancel_requested /\ stop_source' = TRUE
      /\ UNCHANGED <<backend, result_count, phase, cancel_requested, chunk_cursor, chunk_done, progress,
                     done_candidates, chunk_failure, progress_mutex, threads, results, failed, terminal>>
      /\ IF caller # "idle" THEN StopTask ELSE UNCHANGED executor_vars
  BY DEF RequestStop, spec, shared
<1>2. /\ UNCHANGED <<caller, call, failure, completed, size, last_reported, worker, counted, held,
                     misreported>>
      /\ IInv'
  <2>1. CASE caller # "idle"
    <3>1. StopTask
      BY <1>1, <2>1
    <3> QED BY <3>1, StopTaskKeeps DEF JobInv, StopTask, task_vars, thread_vars, pool_vars
  <2>2. CASE caller = "idle"
    <3>1. UNCHANGED executor_vars
      BY <1>1, <2>2
    <3> QED BY <3>1, ExecutorStutters DEF JobInv, executor_vars, task_vars, thread_vars, pool_vars
  <2> QED BY <2>1, <2>2
<1>3. /\ Candidates' = Candidates /\ Chunks' = Chunks /\ PipelineThreads' = PipelineThreads
      /\ ThreadType' = ThreadType /\ chunk_total' = chunk_total
  BY <1>1 DEF Candidates, Chunks, PipelineThreads, thread_count, chunk_total, ThreadType
<1>4. JobTypes'
  BY <1>1, <1>3 DEF JobInv, JobTypes, TypeOK
<1>5. Phases' /\ PoolProgress'
  BY <1>1, <1>2, <1>3 DEF JobInv, Phases, PoolProgress
<1>6. PipelineOK'
  <2> SUFFICES ASSUME phase = "pipeline" PROVE PipelineOK'
    BY <1>1 DEF PipelineOK
  <2>1. PipelineOK
    BY DEF JobInv
  <2>2. OwnChunk' /\ OneHolder' /\ NoneLost' /\ FailureKept'
    BY <1>1, <1>3, <2>1 DEF PipelineOK, OwnChunk, OneHolder, NoneLost, FailureKept, HoldsChunk, Pending
  <2>3. ResultsStored' /\ ProgressCounted'
    BY <1>1, <1>3, <2>1 DEF PipelineOK, ResultsStored, InStore, ProgressCounted, CountedCandidates, InCount
  <2> QED BY <1>1, <1>3, <2>1, <2>2, <2>3 DEF PipelineOK
<1>7. OutcomeFaithful'
  BY <1>1, <1>2 DEF JobInv, OutcomeFaithful
<1>8. ProgressOrdered'
  BY <1>1, <1>2, <1>3, <1>4 DEF JobInv, ProgressOrdered, JobTypes
<1> QED BY <1>2, <1>4, <1>5, <1>6, <1>7, <1>8 DEF JobInv

-----------------------------------------------------------------------------
(* The job on the pool.                                                    *)

\* The call that the job waits for.
LEMMA CallFacts ==
    ASSUME JobInv, phase = "cpu"
    PROVE  /\ call \in Calls /\ caller \in {"publish", "await"} /\ backend = "cpu" /\ terminal.type = "none"
           /\ size[call] = result_count /\ result_count \in Nat \ {0}
           /\ completed[call] \in SUBSET (0 .. result_count - 1)
           /\ IsFiniteSet(completed[call]) /\ Cardinality(completed[call]) \in 0 .. result_count
           /\ last_reported[call] \in Nat
<1>1. caller # "idle" /\ backend = "cpu" /\ size[call] = result_count /\ terminal.type = "none"
  BY DEF JobInv, Phases
<1>2. call \in Calls /\ caller \in {"publish", "await"}
  BY <1>1, BoundsOK DEF JobInv, IInv, ExecutorTypeOK, Lifecycle, Calls
<1>3. result_count \in Nat \ {0} /\ IsFiniteSet(Candidates) /\ Cardinality(Candidates) = result_count
  BY ChunkFacts DEF JobInv, JobTypes
<1>4. completed[call] \subseteq 0 .. result_count - 1
  <2>1. \A i \in completed[call] : i \in Nat
    BY <1>2 DEF JobInv, IInv, ExecutorTypeOK
  <2>2. caller = "publish" => completed[call] = {}
    BY <1>2 DEF JobInv, IInv, Fresh
  <2>3. caller = "await" => \A i \in completed[call] : i < size[call]
    BY DEF JobInv, IInv, CandidatesOK
  <2> QED BY <1>1, <1>2, <1>3, <2>1, <2>2, <2>3
<1>5. IsFiniteSet(completed[call]) /\ Cardinality(completed[call]) \in 0 .. result_count
  BY <1>4, CandidateSets DEF JobInv, Candidates
<1>6. last_reported[call] \in Nat
  BY <1>2 DEF JobInv, IInv, ExecutorTypeOK
<1> QED BY <1>1, <1>2, <1>3, <1>4, <1>5, <1>6

\* While the call lasts, a thread with a task has the call's.
LEMMA HolderInJob ==
    ASSUME JobInv, phase = "cpu", NEW w \in Threads, worker[w] \in {"take", "compute", "progress"}
    PROVE  held[w] = call /\ call \in Calls /\ caller = "await"
<1>1. held[w] # NoTask /\ held[w] = call
  BY DEF JobInv, IInv, Holding, Phases
<1> QED BY <1>1, CallFacts DEF JobInv, IInv, Holding

\* A step of the call that reports no count.
LEMMA QuietPoolStep ==
    ASSUME JobInv, IInv', phase = "cpu", caller' # "idle",
           \A w \in Threads : held'[w] # NoTask => held'[w] = call,
           UNCHANGED <<backend, result_count, phase, cancel_requested, stop_source, chunk_cursor, chunk_done,
                       progress, done_candidates, chunk_failure, progress_mutex, threads, results, failed,
                       terminal>>,
           UNCHANGED <<call, size, last_reported, stop>>,
           \A k \in Calls : failure'[k] => failure[k] \/ k = call,
           completed[call] \subseteq completed'[call],
           Cardinality(completed[call]) <= Cardinality(completed'[call]),
           \A w \in Threads : worker'[w] = "progress" =>
              \/ worker[w] = "progress" /\ counted'[w] = counted[w]
              \/ counted'[w] = Cardinality(completed'[call]),
           \/ /\ completed'[call] = completed[call]
              /\ \A w \in Threads : worker[w] = "progress" => worker'[w] = "progress" /\ counted'[w] = counted[w]
           \/ \E w \in Threads : worker'[w] = "progress" /\ counted'[w] = Cardinality(completed'[call]),
           Cardinality(completed'[call]) \in Nat
    PROVE  JobInv'
<1>1. /\ call \in Calls /\ backend = "cpu" /\ Cardinality(completed[call]) \in Nat /\ last_reported[call] \in Nat
      /\ terminal.type = "none"
  BY CallFacts
<1>2. /\ Candidates' = Candidates /\ Chunks' = Chunks /\ PipelineThreads' = PipelineThreads
      /\ ThreadType' = ThreadType
  BY DEF Candidates, Chunks, PipelineThreads, thread_count, chunk_total, ThreadType
<1>3. JobTypes'
  BY <1>2 DEF JobInv, JobTypes, TypeOK
<1>4. Phases'
  BY <1>1, <1>2 DEF JobInv, Phases
<1>5. PoolProgress'
  <2>1. /\ last_reported'[call'] = IF progress' = <<>> THEN 0 ELSE Last(progress')
        /\ last_reported'[call'] <= Cardinality(completed'[call'])
    <3>1. /\ last_reported[call] = IF progress = <<>> THEN 0 ELSE Last(progress)
          /\ last_reported[call] <= Cardinality(completed[call])
      BY DEF JobInv, PoolProgress
    <3> QED BY <1>1, <3>1
  <2>2. \A w \in Threads : worker'[w] = "progress" => counted'[w] <= Cardinality(completed'[call'])
    <3>1. \A w \in Threads : worker[w] = "progress" => counted[w] <= Cardinality(completed[call])
      BY DEF JobInv, PoolProgress
    <3>2. counted \in [Threads -> Nat]
      BY DEF JobInv, IInv, ExecutorTypeOK
    <3> QED BY <1>1, <3>1, <3>2
  <2>3. Cardinality(completed'[call']) = size'[call'] =>
           \/ last_reported'[call'] = size'[call']
           \/ \E w \in Threads : worker'[w] = "progress" /\ counted'[w] = size'[call']
    BY DEF JobInv, PoolProgress
  <2> QED BY <2>1, <2>2, <2>3 DEF PoolProgress
<1>6. PipelineOK'
  BY DEF PipelineOK
<1>7. OutcomeFaithful'
  BY <1>1, NoOutcome
<1>8. ProgressOrdered'
  <2>1. progress # <<>> => Last(progress) <= Cardinality(completed'[call])
    <3>1. progress # <<>> => Last(progress) <= Cardinality(completed[call]) /\ Last(progress) = last_reported[call]
      BY <1>1 DEF JobInv, ProgressOrdered, PoolProgress
    <3> QED BY <1>1, <3>1
  <2> QED BY <1>1, <1>3, <2>1 DEF JobInv, ProgressOrdered, JobTypes
<1> QED BY <1>3, <1>4, <1>5, <1>6, <1>7, <1>8 DEF JobInv

\* Publish: nothing has been computed yet.
LEMMA CpuPublishesKeeps ==
    ASSUME JobInv, CpuPublishes
    PROVE  JobInv'
<1>1. /\ phase = "cpu" /\ Publish
      /\ UNCHANGED <<backend, result_count, phase, cancel_requested, stop_source, chunk_cursor, chunk_done,
                     done_candidates, chunk_failure, progress_mutex, threads, results, failed, terminal>>
      /\ last_reported' = last_reported => progress' = progress
  BY DEF CpuPublishes, PoolStep, spec, client, shared
<1>2. /\ caller' = "await"
      /\ UNCHANGED <<call, size, last_reported, stop, failure, completed, worker, counted, held>>
      /\ progress' = progress
  BY <1>1 DEF Publish, task_vars, thread_vars
<1>3. IInv'
  BY <1>1, PublishKeeps DEF JobInv
<1>4. Cardinality(completed[call]) \in 0 .. result_count
  BY <1>1, CallFacts
<1>5. Cardinality(completed'[call]) \in Nat /\ Cardinality(completed[call]) <= Cardinality(completed'[call])
  BY <1>2, <1>4
<1>6. \A w \in Threads : held'[w] # NoTask => held'[w] = call
  BY <1>2 DEF JobInv, Phases
<1> QED BY <1>1, <1>2, <1>3, <1>5, <1>6, QuietPoolStep

\* Wake, Take, Compute and Report leave the count that was reported.
LEMMA CpuQuietKeeps ==
    ASSUME JobInv, NEW w \in Threads, PoolStep(Wake(w) \/ Take(w) \/ Compute(w) \/ Report(w))
    PROVE  JobInv'
<1>1. /\ phase = "cpu" /\ (Wake(w) \/ Take(w) \/ Compute(w) \/ Report(w))
      /\ UNCHANGED <<backend, result_count, phase, cancel_requested, stop_source, chunk_cursor, chunk_done,
                     done_candidates, chunk_failure, progress_mutex, threads, results, failed, terminal>>
      /\ last_reported' = last_reported => progress' = progress
  BY DEF PoolStep, spec, client, shared
<1>2. /\ UNCHANGED <<caller, call, size, last_reported, stop>> /\ progress' = progress
  BY <1>1 DEF Wake, Take, Compute, Report, pool_vars, task_vars
<1>3. IInv'
  BY <1>1, WakeKeeps, TakeKeeps, ComputeKeeps, ReportKeeps DEF JobInv
<1>4. /\ caller # "idle" /\ caller' # "idle"
      /\ \A v \in Threads : held'[v] # NoTask => held'[v] = call
  <2>1. caller # "idle" /\ \A v \in Threads : held[v] # NoTask => held[v] = call
    BY <1>1 DEF JobInv, Phases
  <2>2. \/ held' \in {held, [held EXCEPT ![w] = NoTask]}
        \/ task_ # NoTask /\ held' = [held EXCEPT ![w] = task_]
    BY <1>1 DEF Wake, Take, Compute, Report, LeaveTask
  <2>3. task_ # NoTask => task_ = call
    BY DEF JobInv, IInv, Lifecycle
  <2>4. held \in [Threads -> 0 .. MaxCalls]
    BY DEF JobInv, IInv, ExecutorTypeOK
  <2>5. \A v \in Threads : held'[v] \in {held[v], NoTask, call}
    BY <2>2, <2>3, <2>4
  <2> QED BY <1>2, <2>1, <2>5
<1>5. /\ call \in Calls /\ Cardinality(completed[call]) \in Nat /\ IsFiniteSet(completed[call])
      /\ worker \in [Threads -> {"unborn", "wait", "take", "compute", "progress", "report"}]
      /\ counted \in [Threads -> Nat]
  BY <1>1, CallFacts DEF JobInv, IInv, ExecutorTypeOK
<1>6. CASE Wake(w) \/ Take(w) \/ Report(w)
  <2>1. UNCHANGED <<completed, failure, counted>>
    BY <1>6 DEF Wake, Take, Report, task_vars
  <2>2. \A v \in Threads : worker'[v] = "progress" <=> worker[v] = "progress"
    <3>1. CASE Wake(w)
      BY <1>5, <3>1 DEF Wake
    <3>2. CASE Take(w)
      BY <1>5, <3>2 DEF Take, LeaveTask
    <3>3. CASE Report(w)
      BY <1>5, <3>3 DEF Report
    <3> QED BY <1>6, <3>1, <3>2, <3>3
  <2> QED BY <1>1, <1>2, <1>3, <1>4, <1>5, <2>1, <2>2, QuietPoolStep
<1>7. CASE Compute(w)
  <2>1. worker[w] = "compute" /\ held[w] = call
    BY <1>1, <1>7, HolderInJob DEF Compute
  <2>2. \/ /\ completed' = [completed EXCEPT ![call] = @ \cup {index[w]}]
           /\ counted' = [counted EXCEPT ![w] = Cardinality(completed'[call])]
           /\ worker' = [worker EXCEPT ![w] = "progress"]
           /\ failure' = failure
        \/ /\ failure' = [failure EXCEPT ![call] = TRUE]
           /\ worker' = [worker EXCEPT ![w] = "report"]
           /\ UNCHANGED <<completed, counted>>
    BY <1>7, <2>1 DEF Compute, LeaveTask
  <2>3. CASE /\ completed' = [completed EXCEPT ![call] = @ \cup {index[w]}]
             /\ counted' = [counted EXCEPT ![w] = Cardinality(completed'[call])]
             /\ worker' = [worker EXCEPT ![w] = "progress"]
             /\ failure' = failure
    <3>1. completed'[call] = completed[call] \cup {index[w]}
      BY <1>5, <2>3 DEF JobInv, IInv, ExecutorTypeOK
    <3>2. /\ IsFiniteSet(completed'[call]) /\ Cardinality(completed'[call]) \in Nat
          /\ Cardinality(completed[call]) <= Cardinality(completed'[call])
      BY <1>5, <3>1, FS_AddElement, FS_Subset, FS_CardinalityType
    <3>3. /\ worker'[w] = "progress" /\ counted'[w] = Cardinality(completed'[call])
          /\ \A v \in Threads : v # w => worker'[v] = worker[v] /\ counted'[v] = counted[v]
      BY <1>5, <2>3
    <3> QED BY <1>1, <1>2, <1>3, <1>4, <2>3, <3>1, <3>2, <3>3, QuietPoolStep
  <2>4. CASE /\ failure' = [failure EXCEPT ![call] = TRUE]
             /\ worker' = [worker EXCEPT ![w] = "report"]
             /\ UNCHANGED <<completed, counted>>
    <3>1. \A k \in Calls : failure'[k] => failure[k] \/ k = call
      BY <2>4 DEF JobInv, IInv, ExecutorTypeOK
    <3>2. \A v \in Threads : worker'[v] = "progress" <=> worker[v] = "progress"
      BY <1>5, <2>1, <2>4
    <3> QED BY <1>1, <1>2, <1>3, <1>4, <1>5, <2>4, <3>1, <3>2, QuietPoolStep
  <2> QED BY <2>2, <2>3, <2>4
<1> QED BY <1>1, <1>6, <1>7

\* ReportCount: later than the last report, and no more than is done.
LEMMA CpuReportKeeps ==
    ASSUME JobInv, NEW w \in Threads, PoolStep(ReportCount(w))
    PROVE  JobInv'
<1>1. /\ phase = "cpu" /\ ReportCount(w)
      /\ UNCHANGED <<backend, result_count, phase, cancel_requested, stop_source, chunk_cursor, chunk_done,
                     done_candidates, chunk_failure, progress_mutex, threads, results, failed, terminal>>
      /\ IF last_reported' = last_reported THEN UNCHANGED progress ELSE Reported(last_reported'[call])
  BY DEF PoolStep, spec, client, shared
<1>2. worker[w] = "progress" /\ held[w] = call /\ call \in Calls /\ caller = "await"
  BY <1>1, HolderInJob DEF ReportCount
<1>3. /\ UNCHANGED <<caller, call, size, stop, failure, completed, counted, held>>
      /\ worker' = [worker EXCEPT ![w] = "take"]
      /\ last_reported' = IF Due(call, counted[w]) THEN [last_reported EXCEPT ![call] = counted[w]]
                          ELSE last_reported
  BY <1>1, <1>2 DEF ReportCount
<1>4. IInv'
  BY <1>1, ReportCountKeeps DEF JobInv
<1> DEFINE done == counted[w]
           all == Cardinality(completed[call])
<1>5. /\ done \in Nat /\ done <= all /\ all \in 0 .. result_count /\ result_count \in Nat \ {0}
      /\ last_reported[call] \in Nat /\ last_reported[call] <= all
      /\ last_reported[call] = IF progress = <<>> THEN 0 ELSE Last(progress)
      /\ size[call] = result_count /\ backend = "cpu" /\ terminal.type = "none"
  <2>1. done \in Nat
    BY DEF JobInv, IInv, ExecutorTypeOK
  <2> QED BY <1>1, <1>2, <2>1, CallFacts DEF JobInv, PoolProgress
<1>6. last_reported \in [Calls -> Nat] /\ worker \in [Threads -> {"unborn", "wait", "take", "compute", "progress", "report"}]
  BY DEF JobInv, IInv, ExecutorTypeOK
<1> HIDE DEF done, all
<1>7. \/ /\ done > last_reported[call] /\ last_reported'[call] = done /\ Reported(done)
      \/ /\ ~Due(call, done) /\ last_reported'[call] = last_reported[call] /\ progress' = progress
  <2>1. CASE Due(call, done)
    <3>1. last_reported'[call] = done
      BY <1>2, <1>3, <1>6, <2>1 DEF done
    <3>2. done > last_reported[call]
      BY <2>1 DEF Due
    <3>3. last_reported' # last_reported
      BY <1>5, <3>1, <3>2
    <3> QED BY <1>1, <1>3, <3>1, <3>2, <3>3
  <2>2. CASE ~Due(call, done)
    BY <1>1, <1>3, <2>2 DEF done
  <2> QED BY <2>1, <2>2
<1>8. /\ progress' \in Seq(0 .. result_count)
      /\ \A i \in 2 .. Len(progress') : progress'[i - 1] < progress'[i]
      /\ last_reported'[call] = IF progress' = <<>> THEN 0 ELSE Last(progress')
      /\ last_reported'[call] <= all
  <2>1. \A i \in 2 .. Len(progress) : progress[i - 1] < progress[i]
    BY <1>5 DEF JobInv, ProgressOrdered
  <2>2. CASE done > last_reported[call] /\ last_reported'[call] = done /\ Reported(done)
    <3>1. done \in 0 .. result_count /\ JobTypes
      BY <1>5 DEF JobInv
    <3>2. /\ progress' \in Seq(0 .. result_count) /\ progress' # <<>> /\ Last(progress') = done
          /\ \A i \in 2 .. Len(progress') :
                \/ i \in 2 .. Len(progress) /\ progress'[i] = progress[i] /\ progress'[i - 1] = progress[i - 1]
                \/ i = Len(progress') /\ progress # <<>> /\ progress'[i] = done /\ progress'[i - 1] = Last(progress)
      BY <2>2, <3>1, ReportedFacts
    <3>3. progress # <<>> => Last(progress) < done
      BY <1>5, <2>2
    <3> QED BY <1>5, <2>1, <2>2, <3>2, <3>3
  <2>3. CASE last_reported'[call] = last_reported[call] /\ progress' = progress
    BY <1>5, <2>1, <2>3 DEF JobInv, JobTypes
  <2> QED BY <1>7, <2>2, <2>3
<1>9. /\ Candidates' = Candidates /\ Chunks' = Chunks /\ PipelineThreads' = PipelineThreads
      /\ ThreadType' = ThreadType
  BY <1>1 DEF Candidates, Chunks, PipelineThreads, thread_count, chunk_total, ThreadType
<1>10. JobTypes'
  BY <1>1, <1>8, <1>9 DEF JobInv, JobTypes, TypeOK
<1>11. Phases'
  BY <1>1, <1>2, <1>3, <1>5, <1>9 DEF JobInv, Phases
<1>12. PoolProgress'
  <2>1. \A v \in Threads : worker'[v] = "progress" <=> worker[v] = "progress" /\ v # w
    BY <1>3, <1>6
  <2>2. \A v \in Threads : worker[v] = "progress" => counted[v] <= all
    BY <1>1 DEF all, JobInv, PoolProgress
  <2>3. all = size[call] =>
           \/ last_reported'[call] = size[call]
           \/ \E v \in Threads : worker'[v] = "progress" /\ counted[v] = size[call]
    <3> SUFFICES ASSUME all = size[call], last_reported'[call] # size[call]
                 PROVE  \E v \in Threads : worker'[v] = "progress" /\ counted[v] = size[call]
      OBVIOUS
    <3>1. last_reported[call] # size[call]
      BY <1>5, <1>7
    <3>2. PICK v \in Threads : worker[v] = "progress" /\ counted[v] = size[call]
      BY <1>1, <3>1 DEF all, JobInv, PoolProgress
    <3>3. v # w
      <4> SUFFICES ASSUME v = w PROVE FALSE
        OBVIOUS
      <4>1. done = size[call] /\ done > last_reported[call]
        BY <1>5, <3>1, <3>2 DEF done
      <4>2. Due(call, done)
        BY <4>1 DEF Due
      <4> QED BY <1>7, <4>1, <4>2
    <3> QED BY <2>1, <3>2, <3>3
  <2> QED BY <1>1, <1>3, <1>8, <2>1, <2>2, <2>3 DEF all, PoolProgress
<1>13. PipelineOK'
  BY <1>1 DEF PipelineOK
<1>14. OutcomeFaithful'
  BY <1>1, <1>5, NoOutcome
<1>15. ProgressOrdered'
  <2>1. progress' # <<>> => Last(progress') <= all
    BY <1>8
  <2>2. \A i \in 2 .. Len(progress') : progress'[i - 1] <= progress'[i]
    <3>1. \A i \in 2 .. Len(progress') : progress'[i - 1] \in Nat /\ progress'[i] \in Nat
      BY <1>5, <1>8
    <3> QED BY <1>8, <3>1
  <2> QED BY <1>1, <1>3, <1>5, <1>8, <1>10, <2>1, <2>2 DEF all, ProgressOrdered, JobTypes
<1> QED BY <1>4, <1>10, <1>11, <1>12, <1>13, <1>14, <1>15 DEF JobInv

\* CpuReturns: the leading candidates of a stopped call, or all of a complete one, whose last
\* count has been reported as no thread is still on its way to report it.
LEMMA CpuReturnsKeeps ==
    ASSUME JobInv, CpuReturns
    PROVE  JobInv'
<1>1. /\ phase = "cpu" /\ phase' = "ended" /\ Return
      /\ UNCHANGED <<backend, result_count, cancel_requested, stop_source, chunk_cursor, chunk_done,
                     done_candidates, chunk_failure, progress_mutex, threads, progress>>
      /\ \/ /\ failure[call] /\ terminal' = [type |-> "error"] /\ failed' = TRUE /\ results' = results
         \/ /\ ~failure[call] /\ results' = Filled(completed[call]) /\ failed' = failed
            /\ \/ /\ stop[call] \/ cancel_requested
                  /\ terminal' = [type |-> "cancelled", partial |-> CompletedPrefix(completed[call]) > 0,
                                  candidates |-> FirstOf(results', CompletedPrefix(completed[call]))]
               \/ /\ ~stop[call]
                  /\ terminal' = [type |-> "result", candidates |-> FirstOf(results', result_count)]
  BY DEF CpuReturns, Escape, PartialCancelled, Result, End, spec, client, shared
<1>2. /\ caller' = "idle"
      /\ UNCHANGED <<call, failure, completed, size, worker, last_reported, held, misreported>>
      /\ returned' = [returned EXCEPT ![call] =
                        IF failure[call] THEN "threw" ELSE IF stop[call] THEN "cancelled" ELSE "complete"]
  BY <1>1 DEF Return, task_vars, thread_vars
<1>3. IInv'
  BY <1>1, ReturnKeeps DEF JobInv
<1>4. /\ call \in Calls /\ size[call] = result_count /\ result_count \in Nat \ {0} /\ backend = "cpu"
      /\ completed[call] \in SUBSET (0 .. result_count - 1)
      /\ Candidates = 0 .. result_count - 1 /\ Candidates' = Candidates
  BY <1>1, CallFacts DEF Candidates
<1>5. /\ JobTypes /\ ~failed /\ ~chunk_failure /\ results = [c \in Candidates |-> Blank]
      /\ result_count \in ResultCounts /\ progress \in Seq(0 .. result_count)
      /\ stop[call] => cancel_requested
      /\ \A k \in Calls : failure[k] => k = call
  BY <1>1 DEF JobInv, Phases, JobTypes
<1>6. /\ results' \in [Candidates -> Candidates \cup {Blank}] /\ failed' \in BOOLEAN
      /\ terminal'.type \in {"result", "error", "cancelled"}
      /\ \A k \in Calls : failure'[k] => k = call' /\ terminal'.type = "error"
  <2>1. results' \in [Candidates -> Candidates \cup {Blank}]
    BY <1>1, <1>5 DEF Filled
  <2>2. failed' \in BOOLEAN
    BY <1>1, <1>5 DEF JobTypes
  <2>3. terminal'.type \in {"result", "error", "cancelled"} /\ (failure[call] => terminal'.type = "error")
    BY <1>1
  <2> QED BY <1>2, <1>5, <2>1, <2>2, <2>3
<1>7. JobTypes' /\ Phases' /\ PoolProgress' /\ PipelineOK'
  BY <1>1, <1>2, <1>3, <1>5, <1>6, Ends
<1>8. ASSUME ~failure[call]
      PROVE  \A k \in Calls : ~failure'[k]
  BY <1>2, <1>5, <1>8
<1>9. OutcomeFaithful'
  <2>1. CASE failure[call] /\ terminal' = [type |-> "error"] /\ failed' = TRUE
    BY <1>1, <2>1, ErrorTruth
  <2>2. CASE /\ ~failure[call] /\ results' = Filled(completed[call]) /\ cancel_requested
             /\ terminal' = [type |-> "cancelled", partial |-> CompletedPrefix(completed[call]) > 0,
                             candidates |-> FirstOf(results', CompletedPrefix(completed[call]))]
    <3> DEFINE leads == {n \in 0 .. result_count : 0 .. n - 1 \subseteq completed[call]}
               lead == Max(leads)
    <3>1. 0 \in leads
      BY <1>4
    <3>2. lead \in leads /\ \A n \in leads : lead >= n
      BY <1>4, <3>1, MaxFacts
    <3>3. CompletedPrefix(completed[call]) = lead
      BY DEF CompletedPrefix
    <3> HIDE DEF lead
    <3>4. lead \in 0 .. result_count /\ 0 .. lead - 1 \subseteq completed[call]
      BY <3>2
    <3>5. lead < result_count => lead \notin completed[call]
      <4> SUFFICES ASSUME lead < result_count, lead \in completed[call] PROVE FALSE
        OBVIOUS
      <4>1. lead + 1 \in 0 .. result_count /\ \A i \in 0 .. (lead + 1) - 1 : i = lead \/ i \in 0 .. lead - 1
        BY <1>4, <3>4
      <4>2. lead + 1 \in leads
        BY <3>4, <4>1
      <4> QED BY <1>4, <3>2, <3>4, <4>2
    <3> HIDE DEF leads
    <3>6. \A c \in 0 .. lead - 1 : results'[c] = c
      BY <1>4, <2>2, <3>4 DEF Filled
    <3>7. lead < result_count => results'[lead] = Blank
      BY <1>4, <1>5, <2>2, <3>4, <3>5 DEF Filled
    <3> QED BY <1>1, <1>5, <1>8, <2>2, <3>3, <3>4, <3>6, <3>7, CancelledTruth
  <2>3. CASE /\ ~failure[call] /\ results' = Filled(completed[call]) /\ failed' = failed /\ ~stop[call]
             /\ terminal' = [type |-> "result", candidates |-> FirstOf(results', result_count)]
    <3>1. ASSUME ~misreported'
          PROVE  Last(progress') = result_count /\ \A c \in Candidates : results'[c] = c
      <4>1. completed[call] = 0 .. result_count - 1
        <5>1. returned'[call] = "complete"
          BY <1>2, <1>4, <2>3 DEF JobInv, IInv, ExecutorTypeOK
        <5> QED BY <1>2, <1>3, <1>4, <3>1, <5>1 DEF IInv, Exact, CompleteHasAll
      <4>2. \A c \in Candidates : results'[c] = c
        BY <1>4, <2>3, <4>1 DEF Filled
      <4>3. Cardinality(completed[call]) = size[call]
        BY <1>4, <1>5, <4>1, ChunkFacts
      <4>4. \A w \in Threads : worker[w] # "progress"
        BY <1>2, <1>3, <3>1 DEF IInv, Exact, AllPresent, Holding
      <4>5. last_reported[call] = size[call] /\ last_reported[call] = IF progress = <<>> THEN 0 ELSE Last(progress)
        BY <1>1, <4>3, <4>4 DEF JobInv, PoolProgress
      <4> QED BY <1>1, <1>4, <4>2, <4>5
    <3> QED BY <1>1, <1>5, <1>8, <2>3, <3>1, ResultTruth
  <2> QED BY <1>1, <1>5, <2>1, <2>2, <2>3
<1>10. ProgressOrdered'
  BY <1>1, <1>2, <1>4, <1>7 DEF JobInv, ProgressOrdered, JobTypes
<1> QED BY <1>3, <1>7, <1>9, <1>10 DEF JobInv

-----------------------------------------------------------------------------
\* The job begins beside a pool of any size.
LEMMA JobInit == Init => JobInv
<1> SUFFICES ASSUME Init PROVE JobInv
  OBVIOUS
<1>1. PICK p \in 0 .. MaxWorkers : Resident(p)
  BY DEF Init
<1>2. IInv
  BY <1>1, ResidentHolds
<1>3. /\ caller = "idle" /\ \A k \in Calls : ~failure[k] /\ last_reported[k] = 0
      /\ \A w \in Threads : held[w] = NoTask
  BY <1>1 DEF Resident
<1>4. result_count \in Nat \ {0}
  BY ChunkFacts DEF Init
<1>5. JobTypes
  <2>1. TypeOK
    <3>1. \A t \in DOMAIN threads : FALSE
      BY DEF Init
    <3>2. /\ phase \in {"plan", "cpu", "metal", "single", "pipeline", "ended"}
          /\ results \in [Candidates -> Candidates \cup {Blank}]
          /\ chunk_cursor \in Nat /\ chunk_done \subseteq Chunks /\ chunk_failure \in BOOLEAN
          /\ progress_mutex \in PipelineThreads \cup {Nobody}
      BY DEF Init
    <3>3. done_candidates \in 0 .. result_count /\ terminal.type = "none"
      BY <1>4 DEF Init, NoEvent
    <3> QED BY <3>1, <3>2, <3>3 DEF TypeOK
  <2>2. progress \in Seq(0 .. result_count)
    BY DEF Init
  <2> QED BY <2>1, <2>2 DEF Init, JobTypes
<1>6. Phases /\ PoolProgress /\ PipelineOK
  BY <1>3 DEF Init, Phases, PoolProgress, PipelineOK, NoEvent
<1>7. ProgressOrdered
  <2>1. Len(progress) = 0 /\ progress = <<>>
    BY DEF Init
  <2> QED BY <1>5, <2>1 DEF ProgressOrdered, JobTypes
<1>8. OutcomeFaithful
  BY DEF Init, OutcomeFaithful, NoEvent
<1> QED BY <1>2, <1>5, <1>6, <1>7, <1>8 DEF JobInv

\* What a step that changes nothing keeps.
LEMMA JobStays == JobInv /\ UNCHANGED vars => JobInv'
<1> SUFFICES ASSUME JobInv, UNCHANGED vars PROVE JobInv'
  OBVIOUS
<1>1. /\ UNCHANGED <<backend, result_count, phase, cancel_requested, stop_source, chunk_cursor, chunk_done, progress,
                     done_candidates, chunk_failure, progress_mutex, threads, results, failed, terminal>>
      /\ UNCHANGED executor_vars
  BY DEF vars, spec, client, shared
<1>2. UNCHANGED <<caller, call, failure, completed, size, stop, last_reported, worker, counted, held,
                  misreported>>
  BY <1>1 DEF executor_vars, task_vars, thread_vars, pool_vars
<1>3. /\ Candidates' = Candidates /\ Chunks' = Chunks /\ PipelineThreads' = PipelineThreads
      /\ ThreadType' = ThreadType /\ chunk_total' = chunk_total
  BY <1>1 DEF Candidates, Chunks, PipelineThreads, thread_count, chunk_total, ThreadType
<1>4. JobTypes' /\ Phases' /\ PoolProgress' /\ OutcomeFaithful'
  BY <1>1, <1>2, <1>3 DEF JobInv, JobTypes, TypeOK, Phases, PoolProgress, OutcomeFaithful
<1>5. PipelineOK'
  BY <1>1, <1>3 DEF JobInv, PipelineOK, OwnChunk, OneHolder, NoneLost, FailureKept, HoldsChunk, Pending,
                    ResultsStored, InStore, ProgressCounted, CountedCandidates, InCount
<1>6. ProgressOrdered'
  BY <1>1, <1>2, <1>3, <1>4 DEF JobInv, ProgressOrdered, JobTypes
<1>7. IInv'
  BY <1>1, ExecutorStutters DEF JobInv
<1> QED BY <1>4, <1>5, <1>6, <1>7 DEF JobInv

\* JobInv is inductive.
LEMMA JobHolds == Spec => []JobInv
<1>1. JobInv /\ [Next]_vars => JobInv'
  <2> SUFFICES ASSUME JobInv, [Next]_vars PROVE JobInv'
    OBVIOUS
  <2>1. CASE Executor
    BY <2>1, PlanFailsKeeps, PlanCancelledKeeps, PlanEndsKeeps, CpuPublishesKeeps, CpuReturnsKeeps,
       ReturnsKeeps, ThrowsKeeps, PipelineEndsKeeps DEF Executor
  <2>2. CASE Callback \/ RequestCancel \/ RequestStop
    BY <2>2, CallbackKeeps, RequestCancelKeeps, RequestStopKeeps
  <2>3. CASE \E t \in DOMAIN threads : Thread(t)
    BY <2>3, ClaimKeeps, LookKeeps, AnalyzedKeeps, AnalysisThrowsKeeps, SetChunkDoneKeeps, CountKeeps,
       EmitProgressKeeps, CatchKeeps DEF Thread
  <2>4. CASE \E w \in Threads : CpuWorks(w)
    <3>1. PICK w \in Threads : PoolStep(Worker(w))
      BY <2>4 DEF CpuWorks
    <3>2. PoolStep(Wake(w) \/ Take(w) \/ Compute(w) \/ Report(w)) \/ PoolStep(ReportCount(w))
      BY <3>1 DEF PoolStep, Worker
    <3> QED BY <3>2, CpuQuietKeeps, CpuReportKeeps
  <2>5. CASE UNCHANGED vars
    BY <2>5, JobStays
  <2> QED BY <2>1, <2>2, <2>3, <2>4, <2>5 DEF Next
<1> QED BY <1>1, JobInit, PTL DEF Spec

\* ProgressOrdered, for any number of candidates, chunks, threads of the pipeline and of the
\* pool: on every backend the progress on the wire goes up, and never ahead of the work.
THEOREM ProgressOrderedHolds == Spec => []ProgressOrdered
<1>1. JobInv => ProgressOrdered
  BY DEF JobInv
<1> QED BY <1>1, JobHolds, PTL

\* OutcomeFaithful, in the same generality: a result has every candidate, unless the pool has
\* miscounted a thread that was added for this job, and no failure behind it, a cancelled event
\* the leading candidates and not one less, and no failure is lost.
THEOREM OutcomeFaithfulHolds == Spec => []OutcomeFaithful
<1>1. JobInv => OutcomeFaithful
  BY DEF JobInv
<1> QED BY <1>1, JobHolds, PTL

\* PoolInv, for the pool as a job finds and uses it, whatever size an earlier job left it in.
THEOREM JobPoolIsSafe == Spec => []PoolInv
<1>1. JobInv => PoolInv
  BY PoolInvFollows DEF JobInv
<1> QED BY <1>1, JobHolds, PTL

=============================================================================
