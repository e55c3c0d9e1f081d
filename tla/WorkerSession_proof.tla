------------------------ MODULE WorkerSession_proof ------------------------
(***************************************************************************)
(* Proofs about WorkerSession, for any set of requests.                     *)
(*                                                                         *)
(* That a request is settled at most once says nothing of the requests that *)
(* are still to be settled.  The inductive invariant follows every job      *)
(* through the places it can be at (on its way into a queue, in it, taken   *)
(* out again, running, finishing) and says that it is at one of them only;  *)
(* that a request belongs to one job only, the one it created or the one it *)
(* joined; and that a request that is not settled is owed its terminal      *)
(* event by a job at one of those places, and one that is settled by none.  *)
(*                                                                         *)
(* A second part, at the end, is about CudaEngine.                          *)
(***************************************************************************)
EXTENDS WorkerSession, CudaEngine, FiniteSetTheorems, WellFoundedInduction, TLAPS

Once(q) == \A i, k \in 1 .. Len(q) : q[i] = q[k] => i = k

\* A job that was accepted and that no executor has taken.
Waiting(j) == (reader = "enqueue" /\ target = j) \/ In(j, queue_) \/ In(j, media_queue_)

Running(j) == (executor = "run" /\ running_ = j) \/ (media_executor = "run" /\ media_running_ = j)

\* The i-th request to be told of dropped job j has not been told.
Untold(j, i) == /\ In(j, dropped) /\ i \in 1 .. Len(Told(j))
                /\ j = Head(dropped) => i > told

\* A request that joined another request's job.
IsJoiner(r) == \E k \in Requests : \E i \in 2 .. Len(subscribers[k]) : subscribers[k][i] = r

Owed(r) == \/ \E j \in Requests : (Waiting(j) \/ Running(j)) /\ In(r, subscribers[j])
           \/ \E j \in Requests, i \in Nat : Untold(j, i) /\ Told(j)[i] = r
           \/ In(r, finishing)

\* What the places of the three threads say of each other.
Control ==
    /\ reader = "enqueue" => target \in accepted
    /\ dropped # <<>> => reader \in {"emit_cancelled", "stop_media"}
    /\ reader # "emit_cancelled" \/ dropped = <<>> => told = 0
    /\ dropped # <<>> => told < Len(Told(Head(dropped)))
    /\ reader \in {"idle", "enqueue", "cancel_media"} => ending = "no"
    /\ reader \in {"stop_media", "join", "closed"} => ending # "no"
    /\ ending # "no" => stopping_ /\ queue_ = <<>>
    /\ ending # "no" /\ reader # "stop_media" => media_stopping_ /\ media_queue_ = <<>>
    /\ reader = "closed" => executor = "exited" /\ media_executor = "exited"
    /\ acknowledged => reader = "closed" /\ ending = "shutdown"
    /\ media_executor # "emit" => finishing = <<>>
    /\ media_executor = "emit" => /\ media_outcome \in {"result", "error", "cancelled"}
                                  /\ ~accepting_subscribers[media_running_]

\* A job is at one place only.
JobsOnce ==
    /\ Once(queue_) /\ Once(media_queue_) /\ Once(dropped)
    /\ reader = "enqueue" => ~In(target, queue_) /\ ~In(target, media_queue_)
    /\ \A j \in Requests : Waiting(j) => j \in accepted /\ j \notin started
    /\ \A j \in Requests : In(j, dropped) => j \in accepted /\ j \notin started /\ ~Waiting(j)
    /\ started \subseteq accepted
    /\ running_ # None => running_ \in started
    /\ media_running_ # None => media_running_ \in started

\* A request is of one job only.
Subscriptions ==
    /\ \A j \in Requests : Len(subscribers[j]) > 0 /\ subscribers[j][1] = j
    /\ \A j \in Requests : \A i \in 2 .. Len(subscribers[j]) :
          j \in IndexRequests \cap accepted /\ subscribers[j][i] \in accepted
    /\ \A j, k \in Requests : \A i \in 2 .. Len(subscribers[j]), l \in 2 .. Len(subscribers[k]) :
          subscribers[j][i] = subscribers[k][l] => j = k /\ i = l
    /\ \A r \in Requests : IsJoiner(r) =>
          ~Waiting(r) /\ ~In(r, dropped) /\ r \notin started /\ Len(subscribers[r]) = 1

\* A request that is owed its terminal event has none.
Unsettled ==
    /\ \A r \in Requests : /\ Len(terminals[r]) <= 1
                           /\ r \notin accepted => terminals[r] = <<>>
    /\ \A j \in Requests : Waiting(j) \/ Running(j) =>
          \A i \in 1 .. Len(subscribers[j]) : terminals[subscribers[j][i]] = <<>>
    /\ \A j \in Requests, i \in Nat : Untold(j, i) => terminals[Told(j)[i]] = <<>>
    /\ Once(finishing)
    /\ \A r \in Requests : In(r, finishing) =>
          In(r, subscribers[media_running_]) /\ terminals[r] = <<>>
    /\ DroppedNeverStarts

\* A request that has none is owed it, unless it joined a job and the commands ended.
Covered == \A r \in accepted : Settled(r) \/ Owed(r) \/ (ending = "eof" /\ IsJoiner(r))

IInv == TypeOK /\ Control /\ JobsOnce /\ Subscriptions /\ Unsettled /\ Covered

-----------------------------------------------------------------------------
(* What the session does with its queues.                                  *)

\* A queue with one more element.
LEMMA AppendFacts ==
    ASSUME NEW S, NEW q \in Seq(S), NEW e \in S
    PROVE  /\ Append(q, e) \in Seq(S)
           /\ \A x : In(x, Append(q, e)) <=> In(x, q) \/ x = e
           /\ Once(q) /\ ~In(e, q) => Once(Append(q, e))
  <1>1. Len(Append(q, e)) = Len(q) + 1 /\ Len(q) \in Nat
    OBVIOUS
  <1>2. /\ \A i \in 1 .. Len(q) : Append(q, e)[i] = q[i]
        /\ Append(q, e)[Len(q) + 1] = e
    OBVIOUS
  <1> QED BY <1>1, <1>2 DEF In, Once

\* A queue without its first element.
LEMMA TailFacts ==
    ASSUME NEW S, NEW q \in Seq(S), q # <<>>
    PROVE  /\ Head(q) \in S /\ Tail(q) \in Seq(S)
           /\ \A x : In(x, q) <=> In(x, Tail(q)) \/ x = Head(q)
           /\ Once(q) => Once(Tail(q)) /\ ~In(Head(q), Tail(q))
  <1>1. Len(Tail(q)) = Len(q) - 1 /\ Len(q) \in Nat \ {0} /\ Head(q) = q[1]
    OBVIOUS
  <1>2. \A i \in 1 .. Len(Tail(q)) : Tail(q)[i] = q[i + 1]
    OBVIOUS
  <1>3. \A i \in 1 .. Len(q) : i = 1 \/ (i - 1 \in 1 .. Len(Tail(q)) /\ Tail(q)[i - 1] = q[i])
    BY <1>1, <1>2
  <1>4. \A x : In(x, q) <=> In(x, Tail(q)) \/ x = Head(q)
    <2>1. ASSUME NEW x, In(x, q) PROVE In(x, Tail(q)) \/ x = Head(q)
      BY <1>1, <1>3, <2>1 DEF In
    <2>2. ASSUME NEW x, In(x, Tail(q)) PROVE In(x, q)
      <3>1. PICK i \in 1 .. Len(Tail(q)) : Tail(q)[i] = x
        BY <2>2 DEF In
      <3>2. i + 1 \in 1 .. Len(q) /\ q[i + 1] = x
        BY <1>1, <1>2, <3>1
      <3> QED BY <3>2 DEF In
    <2>3. In(Head(q), q)
      BY <1>1 DEF In
    <2> QED BY <2>1, <2>2, <2>3
  <1>5. Once(q) => Once(Tail(q)) /\ ~In(Head(q), Tail(q))
    BY <1>1, <1>2 DEF In, Once
  <1> QED BY <1>1, <1>4, <1>5

\* One queue behind another.
LEMMA ConcatFacts ==
    ASSUME NEW S, NEW q \in Seq(S), NEW p \in Seq(S)
    PROVE  /\ q \o p \in Seq(S)
           /\ \A x : In(x, q \o p) <=> In(x, q) \/ In(x, p)
           /\ q # <<>> => Head(q \o p) = Head(q)
           /\ Once(q) /\ Once(p) /\ (\A x \in S : ~(In(x, q) /\ In(x, p))) => Once(q \o p)
  <1>1. Len(q \o p) = Len(q) + Len(p) /\ Len(q) \in Nat /\ Len(p) \in Nat /\ q \o p \in Seq(S)
    OBVIOUS
  <1>2. /\ \A i \in 1 .. Len(q) : (q \o p)[i] = q[i]
        /\ \A i \in 1 .. Len(p) : (q \o p)[Len(q) + i] = p[i]
    OBVIOUS
  <1>3. \A i \in 1 .. Len(q \o p) :
           i \in 1 .. Len(q) \/ (i - Len(q) \in 1 .. Len(p) /\ (q \o p)[i] = p[i - Len(q)])
    BY <1>1, <1>2
  <1>4. \A x : In(x, q \o p) <=> In(x, q) \/ In(x, p)
    <2>1. ASSUME NEW x, In(x, q \o p) PROVE In(x, q) \/ In(x, p)
      BY <1>2, <1>3, <2>1 DEF In
    <2>2. ASSUME NEW x, In(x, q) PROVE In(x, q \o p)
      BY <1>1, <1>2, <2>2 DEF In
    <2>3. ASSUME NEW x, In(x, p) PROVE In(x, q \o p)
      <3>1. PICK i \in 1 .. Len(p) : p[i] = x
        BY <2>3 DEF In
      <3>2. Len(q) + i \in 1 .. Len(q \o p) /\ (q \o p)[Len(q) + i] = x
        BY <1>1, <1>2, <3>1
      <3> QED BY <3>2 DEF In
    <2> QED BY <2>1, <2>2, <2>3
  <1>5. ASSUME Once(q), Once(p), \A x \in S : ~(In(x, q) /\ In(x, p))
        PROVE  Once(q \o p)
    <2>1. \A i \in 1 .. Len(q), k \in 1 .. Len(p) : q[i] # p[k]
      BY <1>5 DEF In
    <2> QED BY <1>1, <1>2, <1>3, <1>5, <2>1 DEF Once
  <1>6. q # <<>> => Head(q \o p) = Head(q)
    OBVIOUS
  <1> QED BY <1>1, <1>4, <1>5, <1>6

\* The queue a cancelled job was taken out of.
LEMMA RemoveFacts ==
    ASSUME NEW S, NEW q \in Seq(S), NEW i \in 1 .. Len(q), Once(q)
    PROVE  /\ Unqueued(q, i) \in Seq(S)
           /\ \A x : In(x, Unqueued(q, i)) <=> In(x, q) /\ x # q[i]
           /\ Once(Unqueued(q, i))
  <1> DEFINE p == Unqueued(q, i)
             a == SubSeq(q, 1, i - 1)
             b == SubSeq(q, i + 1, Len(q))
  <1>1. /\ a \in Seq(S) /\ Len(a) = i - 1
        /\ b \in Seq(S) /\ Len(b) = Len(q) - i
        /\ i \in Nat /\ Len(q) \in Nat
    OBVIOUS
  <1>2. /\ \A k \in 1 .. i - 1 : a[k] = q[k]
        /\ \A k \in 1 .. Len(q) - i : b[k] = q[k + i]
    OBVIOUS
  <1>3. p = a \o b /\ p \in Seq(S) /\ Len(p) = Len(q) - 1
    <2>1. p = a \o b
      BY DEF Unqueued, RemoveAt
    <2> HIDE DEF p, a, b
    <2>2. /\ a \o b \in Seq(S) /\ Len(a \o b) = Len(a) + Len(b)
          /\ \A k \in 1 .. Len(a) : (a \o b)[k] = a[k]
          /\ \A k \in 1 .. Len(b) : (a \o b)[Len(a) + k] = b[k]
      <3>1. a \o b \in Seq(S) /\ Len(a \o b) = Len(a) + Len(b)
        BY <1>1
      <3>2. \A k \in 1 .. Len(a) : (a \o b)[k] = a[k]
        BY <1>1
      <3>3. \A k \in 1 .. Len(b) : (a \o b)[Len(a) + k] = b[k]
        BY <1>1
      <3> QED BY <3>1, <3>2, <3>3
    <2>3. Len(p) = (i - 1) + (Len(q) - i)
      BY <1>1, <2>1, <2>2
    <2> QED BY <1>1, <2>1, <2>2, <2>3
  <1> HIDE DEF p, a, b
  <1>4. \A k \in 1 .. Len(p) : p[k] = IF k < i THEN q[k] ELSE q[k + 1]
    <2> SUFFICES ASSUME NEW k \in 1 .. Len(p)
                 PROVE  p[k] = IF k < i THEN q[k] ELSE q[k + 1]
      OBVIOUS
    <2>1. CASE k < i
      BY <1>1, <1>2, <1>3, <2>1
    <2>2. CASE ~(k < i)
      <3>1. p[k] = b[k - (i - 1)] /\ k - (i - 1) \in 1 .. Len(q) - i
        BY <1>1, <1>3, <2>2
      <3> QED BY <1>1, <1>2, <2>2, <3>1
    <2> QED BY <2>1, <2>2
  <1>5. \A k \in 1 .. Len(q) : k = i \/ (k < i /\ p[k] = q[k] /\ k \in 1 .. Len(p))
                             \/ (k > i /\ p[k - 1] = q[k] /\ k - 1 \in 1 .. Len(p))
    <2> SUFFICES ASSUME NEW k \in 1 .. Len(q), k # i
                 PROVE  \/ k < i /\ p[k] = q[k] /\ k \in 1 .. Len(p)
                        \/ k > i /\ p[k - 1] = q[k] /\ k - 1 \in 1 .. Len(p)
      OBVIOUS
    <2>1. CASE k < i
      <3>1. k \in 1 .. Len(p)
        BY <1>1, <1>3, <2>1
      <3> QED BY <1>4, <2>1, <3>1
    <2>2. CASE k > i
      <3>1. k - 1 \in 1 .. Len(p) /\ ~(k - 1 < i)
        BY <1>1, <1>3, <2>2
      <3>2. p[k - 1] = q[(k - 1) + 1]
        BY <1>4, <3>1
      <3>3. (k - 1) + 1 = k
        OBVIOUS
      <3> QED BY <2>2, <3>1, <3>2, <3>3
    <2> QED BY <1>1, <2>1, <2>2
  <1>6. \A x : In(x, p) <=> In(x, q) /\ x # q[i]
    <2>1. ASSUME NEW x, In(x, p) PROVE In(x, q) /\ x # q[i]
      <3>1. PICK k \in 1 .. Len(p) : p[k] = x
        BY <2>1 DEF In
      <3>2. CASE k < i
        <4>1. q[k] = x
          BY <1>4, <3>1, <3>2
        <4>2. k \in 1 .. Len(q) /\ k # i
          BY <1>1, <1>3, <3>2
        <4> QED BY <4>1, <4>2 DEF In, Once
      <3>3. CASE ~(k < i)
        <4>1. q[k + 1] = x
          BY <1>4, <3>1, <3>3
        <4>2. k + 1 \in 1 .. Len(q) /\ k + 1 # i
          BY <1>1, <1>3, <3>3
        <4> QED BY <4>1, <4>2 DEF In, Once
      <3> QED BY <3>2, <3>3
    <2>2. ASSUME NEW x, In(x, q), x # q[i] PROVE In(x, p)
      BY <1>5, <2>2 DEF In
    <2> QED BY <2>1, <2>2
  <1>7. Once(p)
    <2>1. \A k \in 1 .. Len(p) : /\ k < i => k \in 1 .. Len(q) /\ p[k] = q[k]
                                 /\ ~(k < i) => k + 1 \in 1 .. Len(q) /\ p[k] = q[k + 1]
      <3>1. ASSUME NEW n \in Nat, NEW m \in Nat, m = n - 1, NEW k \in 1 .. m
            PROVE  k \in 1 .. n /\ k + 1 \in 1 .. n
        BY <3>1
      <3>2. \A k \in 1 .. Len(p) : k \in 1 .. Len(q) /\ k + 1 \in 1 .. Len(q)
        BY <1>1, <1>3, <3>1
      <3> QED BY <1>4, <3>2
    <2> SUFFICES ASSUME NEW k \in 1 .. Len(p), NEW l \in 1 .. Len(p), p[k] = p[l]
                 PROVE  k = l
      BY DEF Once
    <2>2. CASE k < i /\ l < i
      BY <2>1, <2>2 DEF Once
    <2>3. CASE k < i /\ ~(l < i)
      <3>1. k = l + 1
        BY <2>1, <2>3 DEF Once
      <3> QED BY <1>1, <2>3, <3>1
    <2>4. CASE ~(k < i) /\ l < i
      <3>1. k + 1 = l
        BY <2>1, <2>4 DEF Once
      <3> QED BY <1>1, <2>4, <3>1
    <2>5. CASE ~(k < i) /\ ~(l < i)
      <3>1. k + 1 = l + 1
        BY <2>1, <2>5 DEF Once
      <3> QED BY <3>1
    <2> QED BY <2>2, <2>3, <2>4, <2>5
  <1> QED BY <1>3, <1>6, <1>7 DEF p

\* A range from two that is empty ends at one.
LEMMA OnlyOne ==
    ASSUME NEW n \in Nat, n > 0, \A i \in 2 .. n : FALSE
    PROVE  n = 1
  <1>1. n < 2 \/ 2 \in 2 .. n
    OBVIOUS
  <1> QED BY <1>1

-----------------------------------------------------------------------------
(* Consequences of the invariant.                                          *)

\* Two jobs that joined no other share no request.
LEMMA Distinct ==
    ASSUME TypeOK, Subscriptions, NEW j \in Requests, NEW k \in Requests,
           ~IsJoiner(j), ~IsJoiner(k),
           NEW i \in 1 .. Len(subscribers[j]), NEW l \in 1 .. Len(subscribers[k]),
           subscribers[j][i] = subscribers[k][l]
    PROVE  j = k /\ i = l
  <1>0. Len(subscribers[j]) \in Nat /\ Len(subscribers[k]) \in Nat
    BY DEF TypeOK
  <1>1. CASE i = 1 /\ l = 1
    BY <1>1 DEF Subscriptions
  <1>2. CASE i = 1 /\ l # 1
    BY <1>0, <1>2 DEF Subscriptions, IsJoiner
  <1>3. CASE i # 1 /\ l = 1
    BY <1>0, <1>3 DEF Subscriptions, IsJoiner
  <1>4. CASE i # 1 /\ l # 1
    BY <1>0, <1>4 DEF Subscriptions
  <1> QED BY <1>1, <1>2, <1>3, <1>4

\* The jobs at some place joined no other.
LEMMA PlacedOwns ==
    ASSUME TypeOK, JobsOnce, Subscriptions, NEW j \in Requests,
           Waiting(j) \/ Running(j) \/ In(j, dropped) \/ j \in started
    PROVE  ~IsJoiner(j) /\ j \in accepted
<1>1. Waiting(j) \/ In(j, dropped) \/ j \in started
  <2>1. Running(j) => j \in started
    BY RequestsDistinct DEF JobsOnce, Running
  <2> QED BY <2>1
<1>2. ~IsJoiner(j)
  BY <1>1 DEF Subscriptions
<1>3. j \in accepted
  BY <1>1 DEF JobsOnce
<1> QED BY <1>2, <1>3

\* A job that was dropped is told to some of its subscribers, and to all but at the end.
LEMMA ToldFacts ==
    ASSUME TypeOK, Subscriptions, NEW j \in Requests
    PROVE  /\ Told(j) \in Seq(Requests) /\ Len(Told(j)) > 0 /\ Len(Told(j)) \in Nat
           /\ \A i \in 1 .. Len(Told(j)) : /\ i \in 1 .. Len(subscribers[j])
                                            /\ Told(j)[i] = subscribers[j][i]
           /\ ending # "eof" => Told(j) = subscribers[j]
  <1>1. subscribers[j] \in Seq(Requests) /\ Len(subscribers[j]) > 0 /\ subscribers[j][1] = j
    BY DEF TypeOK, Subscriptions
  <1> QED BY <1>1 DEF Told

\* Steps that leave the subscriptions alone.
LEMMA SubscriptionsKept ==
    ASSUME Subscriptions, UNCHANGED subscribers, accepted \subseteq accepted',
           \A x \in Requests : IsJoiner(x) => ~Waiting(x)' /\ ~In(x, dropped)' /\ x \notin started'
    PROVE  Subscriptions'
  <1>1. \A j \in Requests : Len(subscribers'[j]) > 0 /\ subscribers'[j][1] = j
    BY DEF Subscriptions
  <1>2. \A j \in Requests : \A i \in 2 .. Len(subscribers'[j]) :
           j \in IndexRequests \cap accepted' /\ subscribers'[j][i] \in accepted'
    BY DEF Subscriptions
  <1>3. \A j, k \in Requests :
           \A i \in 2 .. Len(subscribers'[j]), l \in 2 .. Len(subscribers'[k]) :
              subscribers'[j][i] = subscribers'[k][l] => j = k /\ i = l
    BY DEF Subscriptions
  <1>4. \A x \in Requests : IsJoiner(x)' =>
           ~Waiting(x)' /\ ~In(x, dropped)' /\ x \notin started' /\ Len(subscribers'[x]) = 1
    <2>1. \A x : IsJoiner(x)' <=> IsJoiner(x)
      BY DEF IsJoiner
    <2> QED BY <2>1 DEF Subscriptions
  <1> QED BY <1>1, <1>2, <1>3, <1>4 DEF Subscriptions

-----------------------------------------------------------------------------
(* The steps that leave every job where it is.                             *)

\* If no job changes its place and nothing is emitted, the invariant stays.
LEMMA NothingMoves ==
    ASSUME TypeOK, JobsOnce, Subscriptions, Unsettled, Covered,
           UNCHANGED <<queue_, media_queue_, dropped, told, subscribers, terminals, accepted,
                       started, finishing, ending>>,
           reader' = "enqueue" <=> reader = "enqueue",
           reader = "enqueue" => target' = target,
           \A j : Running(j)' <=> Running(j),
           running_' \in {running_, None}, media_running_' \in {media_running_, None},
           finishing = <<>> \/ media_running_' = media_running_
    PROVE  JobsOnce' /\ Subscriptions' /\ Unsettled' /\ Covered'
  <1>1. /\ \A j : Waiting(j)' <=> Waiting(j)
        /\ \A j : Told(j)' = Told(j)
        /\ \A j, i : Untold(j, i)' <=> Untold(j, i)
        /\ \A r : IsJoiner(r)' <=> IsJoiner(r)
        /\ \A r : Settled(r)' <=> Settled(r)
        /\ \A r, q : In(r, q)' <=> In(r, q)
    BY DEF Waiting, Untold, Told, IsJoiner, Settled, In
  <1>2. \A r : Owed(r)' <=> Owed(r)
    BY <1>1 DEF Owed
  <1>3. JobsOnce'
    BY <1>1 DEF JobsOnce, Once, In
  <1>4. Subscriptions'
    <2>1. \A x \in Requests : IsJoiner(x) =>
             ~Waiting(x)' /\ ~In(x, dropped)' /\ x \notin started'
      BY <1>1 DEF Subscriptions, In
    <2> QED BY <1>1, <2>1, SubscriptionsKept
  <1>5. Unsettled'
    <2>1. finishing = <<>> => \A r : ~In(r, finishing)
      BY DEF In
    <2>2. DroppedNeverStarts'
      BY DEF Unsettled, DroppedNeverStarts, In
    <2> QED BY <1>1, <2>1, <2>2 DEF Unsettled, Once, In
  <1>6. Covered'
    BY <1>1, <1>2 DEF Covered
  <1> QED BY <1>3, <1>4, <1>5, <1>6

\* The steps between two jobs and the returns of the threads.
LEMMA ResetKeeps ==
    ASSUME IInv, ResetRunning \/ ExecutorReturns \/ ResetMediaRunning \/ MediaExecutorReturns
                 \/ JoinExecutors
    PROVE  IInv'
  <1>1. TypeOK' /\ Control'
    <2>1. CASE ResetRunning
      BY <2>1 DEF IInv, TypeOK, Control, Told, ResetRunning, media, command, dropping, events
    <2>2. CASE ExecutorReturns
      BY <2>2 DEF IInv, TypeOK, Control, Told, ExecutorReturns, media, command, dropping, events
    <2>3. CASE ResetMediaRunning
      BY <2>3 DEF IInv, TypeOK, Control, Told, ResetMediaRunning, jobs, command, dropping, events
    <2>4. CASE MediaExecutorReturns
      BY <2>4 DEF IInv, TypeOK, Control, Told, MediaExecutorReturns, jobs, command, dropping, events
    <2>5. CASE JoinExecutors
      BY <2>5 DEF IInv, TypeOK, Control, Told, JoinExecutors, jobs, media, dropping
    <2> QED BY <2>1, <2>2, <2>3, <2>4, <2>5
  <1>2. /\ UNCHANGED <<queue_, media_queue_, dropped, told, subscribers, terminals, accepted,
                       started, finishing, ending, target>>
        /\ reader' = "enqueue" <=> reader = "enqueue"
        /\ running_' \in {running_, None} /\ media_running_' \in {media_running_, None}
        /\ finishing = <<>> \/ media_running_' = media_running_
        /\ \A j : Running(j)' <=> Running(j)
    BY DEF ResetRunning, ExecutorReturns, ResetMediaRunning, MediaExecutorReturns, JoinExecutors,
           jobs, media, command, dropping, events, Running
  <1> QED BY <1>1, <1>2, NothingMoves DEF IInv

-----------------------------------------------------------------------------
(* Accepting and joining.                                                  *)

\* An accepted request is a job on its way to a queue.
LEMMA AcceptKeeps ==
    ASSUME IInv, NEW r \in Requests, AcceptJob(r)
    PROVE  IInv'
  <1>0. TypeOK /\ Control /\ JobsOnce /\ Subscriptions /\ Unsettled /\ Covered
    BY DEF IInv
  <1>1. /\ reader = "idle" /\ r \notin accepted
        /\ accepted' = accepted \cup {r} /\ reader' = "enqueue" /\ target' = r
        /\ UNCHANGED <<queue_, running_, stopping_, executor, started, media_queue_, media_running_,
                       media_stopping_, subscribers, accepting_subscribers, media_executor,
                       finishing, media_outcome, cancel_requested, dropped, told, ending,
                       terminals, acknowledged>>
    BY DEF AcceptJob, jobs, media, dropping
  <1>2. /\ \A j : Waiting(j)' <=> Waiting(j) \/ j = r
        /\ \A j : Running(j)' <=> Running(j)
        /\ \A j : Told(j)' = Told(j)
        /\ \A j, i : Untold(j, i)' <=> Untold(j, i)
        /\ \A x : IsJoiner(x)' <=> IsJoiner(x)
        /\ \A x : Settled(x)' <=> Settled(x)
    BY <1>1 DEF Waiting, Running, Untold, Told, IsJoiner, Settled, In
  <1>3. /\ ~Waiting(r) /\ ~In(r, dropped) /\ r \notin started /\ ~IsJoiner(r)
        /\ ~In(r, queue_) /\ ~In(r, media_queue_)
    BY <1>0, <1>1 DEF JobsOnce, Subscriptions, IsJoiner, Waiting
  <1>4. Len(subscribers[r]) = 1 /\ subscribers[r][1] = r
    <2>1. Len(subscribers[r]) \in Nat /\ Len(subscribers[r]) > 0 /\ subscribers[r][1] = r
      BY <1>0 DEF Subscriptions, TypeOK
    <2>2. \A i \in 2 .. Len(subscribers[r]) : FALSE
      BY <1>0, <1>1 DEF Subscriptions
    <2>3. \A n \in Nat : n > 0 /\ (\A i \in 2 .. n : FALSE) => n = 1
      BY OnlyOne
    <2> QED BY <2>1, <2>2, <2>3
  <1>5. TypeOK' /\ Control'
    BY <1>0, <1>1 DEF TypeOK, Control, Told
  <1>6. JobsOnce'
    BY <1>0, <1>1, <1>2, <1>3 DEF JobsOnce, Once, In
  <1>7. Subscriptions'
    <2>1. \A x \in Requests : IsJoiner(x) =>
             ~Waiting(x)' /\ ~In(x, dropped)' /\ x \notin started'
      BY <1>0, <1>1, <1>2, <1>3, <1>4 DEF Subscriptions, In
    <2> QED BY <1>0, <1>1, <1>2, <1>3, <1>4, <2>1, SubscriptionsKept
  <1>8. Unsettled'
    <2>1. terminals[r] = <<>>
      BY <1>0, <1>1 DEF Unsettled
    <2>2. DroppedNeverStarts'
      BY <1>0, <1>1 DEF Unsettled, DroppedNeverStarts, In
    <2> QED BY <1>0, <1>1, <1>2, <1>4, <2>1, <2>2 DEF Unsettled, Once, In
  <1>9. Covered'
    <2>1. \A x : Owed(x) => Owed(x)'
      BY <1>1, <1>2 DEF Owed, In
    <2>2. Owed(r)'
      BY <1>1, <1>2, <1>4 DEF Owed, In
    <2> QED BY <1>0, <1>1, <1>2, <2>1, <2>2 DEF Covered
  <1> QED BY <1>5, <1>6, <1>7, <1>8, <1>9 DEF IInv

\* The job reaches its queue.
LEMMA EnqueueKeeps ==
    ASSUME IInv, Enqueue
    PROVE  IInv'
  <1>0. TypeOK /\ Control /\ JobsOnce /\ Subscriptions /\ Unsettled /\ Covered
    BY DEF IInv
  <1>1. /\ reader = "enqueue" /\ reader' = "idle" /\ target' = None
        /\ \/ target \in JobRequests /\ queue_' = Append(queue_, target) /\ UNCHANGED media_queue_
           \/ /\ target \in IndexRequests \cup MediaRequests
              /\ media_queue_' = Append(media_queue_, target) /\ UNCHANGED queue_
        /\ UNCHANGED <<running_, stopping_, executor, started, media_running_, media_stopping_,
                       subscribers, accepting_subscribers, media_executor, finishing,
                       media_outcome, cancel_requested, dropped, told, ending, accepted,
                       terminals, acknowledged>>
    BY <1>0 DEF Enqueue, dropping, events, Control, TypeOK, Requests
  <1>2. /\ queue_' \in Seq(JobRequests) /\ media_queue_' \in Seq(IndexRequests \cup MediaRequests)
        /\ Once(queue_') /\ Once(media_queue_')
        /\ \A j : In(j, queue_') \/ In(j, media_queue_') <=>
                     In(j, queue_) \/ In(j, media_queue_) \/ j = target
    <2>1. queue_ \in Seq(JobRequests) /\ media_queue_ \in Seq(IndexRequests \cup MediaRequests)
          /\ Once(queue_) /\ Once(media_queue_) /\ ~In(target, queue_) /\ ~In(target, media_queue_)
      BY <1>0, <1>1 DEF TypeOK, JobsOnce
    <2>2. CASE target \in JobRequests /\ queue_' = Append(queue_, target) /\ UNCHANGED media_queue_
      <3>1. /\ Append(queue_, target) \in Seq(JobRequests)
            /\ \A x : In(x, Append(queue_, target)) <=> In(x, queue_) \/ x = target
            /\ Once(Append(queue_, target))
        BY <2>1, <2>2, AppendFacts
      <3> QED BY <2>1, <2>2, <3>1
    <2>3. CASE /\ target \in IndexRequests \cup MediaRequests
               /\ media_queue_' = Append(media_queue_, target) /\ UNCHANGED queue_
      <3>1. /\ Append(media_queue_, target) \in Seq(IndexRequests \cup MediaRequests)
            /\ \A x : In(x, Append(media_queue_, target)) <=> In(x, media_queue_) \/ x = target
            /\ Once(Append(media_queue_, target))
        BY <2>1, <2>3, AppendFacts
      <3> QED BY <2>1, <2>3, <3>1
    <2> QED BY <1>1, <2>2, <2>3
  <1>3. /\ \A j : Waiting(j)' <=> Waiting(j)
        /\ \A j : Running(j)' <=> Running(j)
        /\ \A j : Told(j)' = Told(j)
        /\ \A j, i : Untold(j, i)' <=> Untold(j, i)
        /\ \A x : IsJoiner(x)' <=> IsJoiner(x)
        /\ \A x : Settled(x)' <=> Settled(x)
    <2>1. \A j : Waiting(j)' <=> Waiting(j)
      BY <1>1, <1>2 DEF Waiting, In
    <2> QED BY <1>1, <2>1 DEF Running, Untold, Told, IsJoiner, Settled, In
  <1>4. TypeOK' /\ Control'
    <2>1. TypeOK'
      BY <1>0, <1>1, <1>2 DEF TypeOK
    <2>2. Control'
      BY <1>0, <1>1 DEF Control, Told
    <2> QED BY <2>1, <2>2
  <1>5. JobsOnce'
    BY <1>0, <1>1, <1>2, <1>3 DEF JobsOnce, Once, In
  <1>6. Subscriptions'
    <2>1. \A x \in Requests : IsJoiner(x) =>
             ~Waiting(x)' /\ ~In(x, dropped)' /\ x \notin started'
      BY <1>0, <1>1, <1>3 DEF Subscriptions, In
    <2> QED BY <1>0, <1>1, <1>3, <2>1, SubscriptionsKept
  <1>7. Unsettled'
    <2>1. DroppedNeverStarts'
      BY <1>0, <1>1 DEF Unsettled, DroppedNeverStarts, In
    <2> QED BY <1>0, <1>1, <1>3, <2>1 DEF Unsettled, Once, In
  <1>8. Covered'
    <2>1. \A x : Owed(x)' <=> Owed(x)
      BY <1>1, <1>3 DEF Owed, In
    <2> QED BY <1>0, <1>1, <1>3, <2>1 DEF Covered
  <1> QED BY <1>4, <1>5, <1>6, <1>7, <1>8 DEF IInv

\* A joining request is owed its event by the job it joined.
LEMMA JoinKeeps ==
    ASSUME IInv, NEW r \in Requests, JoinIndexJob(r)
    PROVE  IInv'
  <1>0. TypeOK /\ Control /\ JobsOnce /\ Subscriptions /\ Unsettled /\ Covered
    BY DEF IInv
  <1>1. PICK j \in IndexRequests : Joinable(j) /\ subscribers' = [subscribers EXCEPT ![j] = Append(@, r)]
    BY DEF JoinIndexJob
  <1>2. /\ reader = "idle" /\ r \notin accepted
        /\ accepted' = accepted \cup {r}
        /\ UNCHANGED <<queue_, running_, stopping_, executor, started, media_queue_, media_running_,
                       media_stopping_, accepting_subscribers, media_executor, finishing,
                       media_outcome, cancel_requested, dropped, told, ending, reader, target,
                       terminals, acknowledged>>
    BY DEF JoinIndexJob, jobs, command, dropping
  <1>3. /\ Waiting(j) \/ Running(j)
        /\ j \in Requests
    BY <1>0, <1>1, RequestsDistinct DEF Joinable, Waiting, Running, TypeOK, Control, Requests
  <1>4. ~IsJoiner(j) /\ j \in accepted /\ j # r /\ dropped = <<>>
    BY <1>0, <1>2, <1>3, PlacedOwns DEF Control
  <1>5. /\ ~Waiting(r) /\ r \notin started /\ terminals[r] = <<>>
        /\ subscribers[r] \in Seq(Requests) /\ Len(subscribers[r]) = 1
    <2>1. subscribers[r] \in Seq(Requests) /\ Len(subscribers[r]) \in Nat /\ Len(subscribers[r]) > 0
      BY <1>0 DEF Subscriptions, TypeOK
    <2>2. \A i \in 2 .. Len(subscribers[r]) : FALSE
      BY <1>0, <1>2 DEF Subscriptions
    <2>3. \A m \in Nat : m > 0 /\ (\A i \in 2 .. m : FALSE) => m = 1
      BY OnlyOne
    <2>4. Len(subscribers[r]) = 1
      BY <2>1, <2>2, <2>3
    <2> QED BY <1>0, <1>2, <2>1, <2>4 DEF JobsOnce, Unsettled
  <1> DEFINE n == Len(subscribers[j]) + 1
  <1>6. /\ \A k \in Requests : subscribers[k] \in Seq(Requests) /\ subscribers'[k] \in Seq(Requests)
        /\ \A k \in Requests : k # j => subscribers'[k] = subscribers[k]
        /\ Len(subscribers'[j]) = n /\ n \in Nat /\ n > 1
        /\ subscribers'[j][n] = r
        /\ \A i \in 1 .. n - 1 : subscribers'[j][i] = subscribers[j][i]
        /\ n - 1 = Len(subscribers[j])
    <2>1. /\ subscribers \in [Requests -> Seq(Requests)] /\ Len(subscribers[j]) > 0
          /\ subscribers[j] \in Seq(Requests)
      BY <1>0, <1>3 DEF TypeOK, Subscriptions
    <2>2. /\ subscribers'[j] = Append(subscribers[j], r)
          /\ \A k \in Requests : k # j => subscribers'[k] = subscribers[k]
      BY <1>1, <1>3, <2>1
    <2>3. ASSUME NEW q \in Seq(Requests), Len(q) > 0
          PROVE  /\ Append(q, r) \in Seq(Requests)
                 /\ Len(Append(q, r)) = Len(q) + 1 /\ Len(q) + 1 \in Nat /\ Len(q) + 1 > 1
                 /\ Append(q, r)[Len(q) + 1] = r
                 /\ \A i \in 1 .. (Len(q) + 1) - 1 : Append(q, r)[i] = q[i]
                 /\ (Len(q) + 1) - 1 = Len(q)
      BY <2>3
    <2> QED BY <2>1, <2>2, <2>3
  <1> HIDE DEF n
  <1>7. /\ \A k : Waiting(k)' <=> Waiting(k)
        /\ \A k : Running(k)' <=> Running(k)
        /\ \A x : Settled(x)' <=> Settled(x)
        /\ \A x : ~In(x, dropped)
        /\ \A k, i : ~Untold(k, i) /\ ~Untold(k, i)'
    BY <1>2, <1>4 DEF Waiting, Running, Settled, Untold, In
  <1>8. \A x : IsJoiner(x)' <=> IsJoiner(x) \/ x = r
    <2>1. ASSUME NEW x, IsJoiner(x) PROVE IsJoiner(x)'
      <3>1. PICK k \in Requests : \E i \in 2 .. Len(subscribers[k]) : subscribers[k][i] = x
        BY <2>1 DEF IsJoiner
      <3>0. PICK i \in 2 .. Len(subscribers[k]) : subscribers[k][i] = x
        BY <3>1
      <3>2. i \in 2 .. Len(subscribers'[k]) /\ subscribers'[k][i] = x
        BY <1>6, <3>0
      <3> QED BY <3>2 DEF IsJoiner
    <2>2. IsJoiner(r)'
      BY <1>3, <1>6 DEF IsJoiner
    <2>3. ASSUME NEW x, IsJoiner(x)', x # r PROVE IsJoiner(x)
      <3>1. PICK k \in Requests : \E i \in 2 .. Len(subscribers'[k]) : subscribers'[k][i] = x
        BY <2>3 DEF IsJoiner
      <3>0. PICK i \in 2 .. Len(subscribers'[k]) : subscribers'[k][i] = x
        BY <3>1
      <3>2. i \in 2 .. Len(subscribers[k]) /\ subscribers[k][i] = x
        BY <1>6, <2>3, <3>0
      <3> QED BY <3>2 DEF IsJoiner
    <2> QED BY <2>1, <2>2, <2>3
  <1>9. TypeOK' /\ Control'
    <2>1. subscribers' \in [Requests -> Seq(Requests)]
      BY <1>0, <1>1, <1>6 DEF TypeOK
    <2> QED BY <1>0, <1>2, <1>4, <2>1 DEF TypeOK, Control
  <1>10. JobsOnce'
    BY <1>0, <1>2, <1>7 DEF JobsOnce, Once, In
  <1>11. Subscriptions'
    <2>1. \A k \in Requests : Len(subscribers'[k]) > 0 /\ subscribers'[k][1] = k
      <3>1. \A k \in Requests : Len(subscribers[k]) > 0 /\ subscribers[k][1] = k
        BY <1>0 DEF Subscriptions
      <3>2. 1 \in 1 .. n - 1
        BY <1>6
      <3>3. Len(subscribers'[j]) > 0 /\ subscribers'[j][1] = j
        BY <1>3, <1>6, <3>1, <3>2
      <3> QED BY <1>6, <3>1, <3>3
    <2>2. ASSUME NEW k \in Requests, NEW i \in 2 .. Len(subscribers'[k])
          PROVE  \/ k = j /\ i = n /\ subscribers'[k][i] = r
                 \/ /\ i \in 2 .. Len(subscribers[k]) /\ subscribers'[k][i] = subscribers[k][i]
                    /\ subscribers'[k][i] # r
      BY <1>0, <1>2, <1>6 DEF Subscriptions
    <2>3. \A k \in Requests : \A i \in 2 .. Len(subscribers'[k]) :
             k \in IndexRequests \cap accepted' /\ subscribers'[k][i] \in accepted'
      BY <1>0, <1>1, <1>2, <1>4, <2>2 DEF Subscriptions
    <2>4. ASSUME NEW k \in Requests, NEW m \in Requests,
                 NEW i \in 2 .. Len(subscribers'[k]), NEW l \in 2 .. Len(subscribers'[m]),
                 subscribers'[k][i] = subscribers'[m][l]
          PROVE  k = m /\ i = l
      <3>1. CASE k = j /\ i = n /\ subscribers'[k][i] = r
        BY <2>2, <2>4, <3>1
      <3>2. CASE /\ i \in 2 .. Len(subscribers[k]) /\ subscribers'[k][i] = subscribers[k][i]
                 /\ subscribers'[k][i] # r
        <4>1. l \in 2 .. Len(subscribers[m]) /\ subscribers'[m][l] = subscribers[m][l]
          BY <2>2, <2>4, <3>2
        <4>2. subscribers[k][i] = subscribers[m][l]
          BY <2>4, <3>2, <4>1
        <4> QED BY <1>0, <3>2, <4>1, <4>2 DEF Subscriptions
      <3> QED BY <2>2, <3>1, <3>2
    <2>5. \A x \in Requests : IsJoiner(x)' =>
             ~Waiting(x)' /\ ~In(x, dropped)' /\ x \notin started' /\ Len(subscribers'[x]) = 1
      BY <1>0, <1>2, <1>4, <1>5, <1>6, <1>7, <1>8 DEF Subscriptions
    <2> QED BY <2>1, <2>3, <2>4, <2>5 DEF Subscriptions
  <1>12. Unsettled'
    <2>1. DroppedNeverStarts'
      BY <1>0, <1>2 DEF Unsettled, DroppedNeverStarts, In
    <2>2. ASSUME NEW k \in Requests, Waiting(k)' \/ Running(k)', NEW i \in 1 .. Len(subscribers'[k])
          PROVE  terminals'[subscribers'[k][i]] = <<>>
      <3>1. CASE k = j /\ i = n
        BY <1>2, <1>5, <1>6, <3>1
      <3>2. CASE ~(k = j /\ i = n)
        <4>1. i \in 1 .. Len(subscribers[k]) /\ subscribers'[k][i] = subscribers[k][i]
          <5>1. CASE k # j
            BY <1>6, <5>1
          <5>2. CASE k = j
            BY <1>6, <3>2, <5>2
          <5> QED BY <5>1, <5>2
        <4>2. terminals[subscribers[k][i]] = <<>>
          <5>1. Waiting(k) \/ Running(k)
            BY <1>7, <2>2
          <5> QED BY <1>0, <4>1, <5>1 DEF Unsettled
        <4> QED BY <1>2, <4>1, <4>2
      <3> QED BY <3>1, <3>2
    <2>3. ASSUME NEW x \in Requests, In(x, finishing)'
          PROVE  In(x, subscribers[media_running_])' /\ terminals'[x] = <<>>
      <3>1. In(x, finishing) /\ finishing # <<>>
        BY <1>2, <2>3 DEF In
      <3>2. media_running_ \in Requests
        BY <1>0, <3>1 DEF Control, TypeOK, Requests
      <3>3. In(x, subscribers[media_running_]) /\ terminals[x] = <<>>
        BY <1>0, <3>1 DEF Unsettled
      <3>4. PICK i \in 1 .. Len(subscribers[media_running_]) : subscribers[media_running_][i] = x
        BY <3>3 DEF In
      <3>5. i \in 1 .. Len(subscribers'[media_running_]) /\ subscribers'[media_running_][i] = x
        BY <1>6, <3>2, <3>4
      <3> QED BY <1>2, <3>3, <3>5 DEF In
    <2> QED BY <1>0, <1>2, <1>7, <2>1, <2>2, <2>3 DEF Unsettled, Once
  <1>13. Covered'
    <2>1. ASSUME NEW x, NEW k \in Requests, In(x, subscribers[k]) PROVE In(x, subscribers[k])'
      <3>1. PICK i \in 1 .. Len(subscribers[k]) : subscribers[k][i] = x
        BY <2>1 DEF In
      <3>2. i \in 1 .. Len(subscribers'[k]) /\ subscribers'[k][i] = x
        BY <1>6, <3>1
      <3> QED BY <3>2 DEF In
    <2>2. ASSUME NEW x, Owed(x) PROVE Owed(x)'
      BY <1>2, <1>7, <2>1, <2>2 DEF Owed, In
    <2>3. Owed(r)'
      <3>1. In(r, subscribers[j])'
        BY <1>6 DEF In
      <3> QED BY <1>3, <1>7, <3>1 DEF Owed
    <2> QED BY <1>0, <1>2, <1>7, <1>8, <2>2, <2>3 DEF Covered
  <1> QED BY <1>9, <1>10, <1>11, <1>12, <1>13 DEF IInv

-----------------------------------------------------------------------------
(* The executors.                                                          *)

\* A started job leaves its queue for the executor.
LEMMA StartKeeps ==
    ASSUME IInv, StartJob \/ StartMediaJob
    PROVE  IInv'
  <1>0. TypeOK /\ Control /\ JobsOnce /\ Subscriptions /\ Unsettled /\ Covered
    BY DEF IInv
  <1>1. PICK h \in Requests :
           /\ Waiting(h)
           /\ started' = started \cup {h}
           /\ \A x : Waiting(x)' <=> Waiting(x) /\ x # h
           /\ \A x : Running(x)' <=> Running(x) \/ x = h
           /\ Once(queue_') /\ Once(media_queue_')
           /\ queue_' \in Seq(JobRequests) /\ media_queue_' \in Seq(IndexRequests \cup MediaRequests)
           /\ \A x : In(x, queue_') => In(x, queue_)
           /\ \A x : In(x, media_queue_') => In(x, media_queue_)
           /\ \/ executor = "wait" /\ executor' = "run" /\ running_' = h /\ h \in JobRequests
                 /\ ~stopping_ /\ UNCHANGED <<media_queue_, media_executor, media_running_>>
              \/ media_executor = "wait" /\ media_executor' = "run" /\ media_running_' = h
                 /\ h \in IndexRequests \cup MediaRequests
                 /\ ~media_stopping_ /\ UNCHANGED <<queue_, executor, running_>>
    <2>0. /\ queue_ \in Seq(JobRequests) /\ media_queue_ \in Seq(IndexRequests \cup MediaRequests)
          /\ Once(queue_) /\ Once(media_queue_)
      BY <1>0 DEF TypeOK, JobsOnce
    <2>1. CASE StartJob
      <3>1. /\ queue_ # <<>> /\ queue_' = Tail(queue_) /\ executor = "wait" /\ executor' = "run"
            /\ running_' = Head(queue_) /\ started' = started \cup {Head(queue_)} /\ ~stopping_
            /\ UNCHANGED <<reader, target, media_queue_, media_executor, media_running_>>
        BY <2>1 DEF StartJob, media, command
      <3>2. /\ Head(queue_) \in JobRequests /\ Tail(queue_) \in Seq(JobRequests)
            /\ \A x : In(x, queue_) <=> In(x, Tail(queue_)) \/ x = Head(queue_)
            /\ Once(Tail(queue_)) /\ ~In(Head(queue_), Tail(queue_))
        BY <2>0, <3>1, TailFacts
      <3>3. ~In(Head(queue_), media_queue_) /\ Head(queue_) \in Requests
        BY <2>0, <3>2, RequestsDistinct DEF In, Requests
      <3>4. reader = "enqueue" => target # Head(queue_)
        BY <1>0, <3>2 DEF JobsOnce
      <3>5. \A x : Waiting(x)' <=> Waiting(x) /\ x # Head(queue_)
        BY <3>1, <3>2, <3>3, <3>4 DEF Waiting, In
      <3>6. \A x : Running(x)' <=> Running(x) \/ x = Head(queue_)
        BY <3>1 DEF Running
      <3>7. Waiting(Head(queue_))
        BY <3>2 DEF Waiting
      <3> QED BY <2>0, <3>1, <3>2, <3>3, <3>5, <3>6, <3>7
    <2>2. CASE StartMediaJob
      <3>1. /\ media_queue_ # <<>> /\ media_queue_' = Tail(media_queue_)
            /\ media_executor = "wait" /\ media_executor' = "run"
            /\ media_running_' = Head(media_queue_) /\ ~media_stopping_
            /\ started' = started \cup {Head(media_queue_)}
            /\ UNCHANGED <<reader, target, queue_, executor, running_>>
        BY <2>2 DEF StartMediaJob, command
      <3>2. /\ Head(media_queue_) \in IndexRequests \cup MediaRequests
            /\ Tail(media_queue_) \in Seq(IndexRequests \cup MediaRequests)
            /\ \A x : In(x, media_queue_) <=> In(x, Tail(media_queue_)) \/ x = Head(media_queue_)
            /\ Once(Tail(media_queue_)) /\ ~In(Head(media_queue_), Tail(media_queue_))
        BY <2>0, <3>1, TailFacts
      <3>3. ~In(Head(media_queue_), queue_) /\ Head(media_queue_) \in Requests
        BY <2>0, <3>2, RequestsDistinct DEF In, Requests
      <3>4. reader = "enqueue" => target # Head(media_queue_)
        BY <1>0, <3>2 DEF JobsOnce
      <3>5. \A x : Waiting(x)' <=> Waiting(x) /\ x # Head(media_queue_)
        BY <3>1, <3>2, <3>3, <3>4 DEF Waiting, In
      <3>6. \A x : Running(x)' <=> Running(x) \/ x = Head(media_queue_)
        BY <3>1 DEF Running
      <3>7. Waiting(Head(media_queue_))
        BY <3>2 DEF Waiting
      <3> QED BY <2>0, <3>1, <3>2, <3>3, <3>5, <3>6, <3>7
    <2> QED BY <2>1, <2>2
  <1>2. UNCHANGED <<stopping_, media_stopping_, subscribers, accepting_subscribers, finishing,
                    media_outcome, cancel_requested, reader, target, dropped, told, ending,
                    accepted, terminals, acknowledged>>
    BY DEF StartJob, StartMediaJob, media, command, dropping, events
  <1>3. /\ \A j : Told(j)' = Told(j)
        /\ \A j, i : Untold(j, i)' <=> Untold(j, i)
        /\ \A x : IsJoiner(x)' <=> IsJoiner(x)
        /\ \A x : Settled(x)' <=> Settled(x)
    BY <1>2 DEF Untold, Told, IsJoiner, Settled, In
  <1>4. /\ h \in accepted /\ h \notin started /\ ~In(h, dropped) /\ ~IsJoiner(h)
        /\ terminals[h] = <<>> /\ h # None
    <2>1. 1 \in 1 .. Len(subscribers[h]) /\ subscribers[h][1] = h
      BY <1>0 DEF Subscriptions, TypeOK
    <2> QED BY <1>0, <1>1, <2>1, PlacedOwns, RequestsDistinct DEF JobsOnce, Unsettled
  <1>5. TypeOK' /\ Control'
    <2>1. TypeOK'
      BY <1>0, <1>1, <1>2, <1>4 DEF TypeOK
    <2>2. Control'
      BY <1>0, <1>1, <1>2 DEF Control, TypeOK, Told
    <2> QED BY <2>1, <2>2
  <1>6. JobsOnce'
    <2>1. \A x : In(x, dropped)' <=> In(x, dropped)
      BY <1>2 DEF In
    <2>2. started' \subseteq accepted'
      BY <1>0, <1>1, <1>2, <1>4 DEF JobsOnce
    <2>3. /\ running_' # None => running_' \in started'
          /\ media_running_' # None => media_running_' \in started'
      BY <1>0, <1>1 DEF JobsOnce
    <2>4. reader' = "enqueue" => ~In(target, queue_)' /\ ~In(target, media_queue_)'
      <3>1. ~In(target, queue_)' <=> ~In(target, queue_')
        BY <1>2 DEF In
      <3>2. ~In(target, media_queue_)' <=> ~In(target, media_queue_')
        BY <1>2 DEF In
      <3> QED BY <1>0, <1>1, <1>2, <3>1, <3>2 DEF JobsOnce
    <2>5. \A j \in Requests : Waiting(j)' => j \in accepted' /\ j \notin started'
      BY <1>0, <1>1, <1>2 DEF JobsOnce
    <2>6. \A j \in Requests : In(j, dropped)' =>
                j \in accepted' /\ j \notin started' /\ ~Waiting(j)'
      BY <1>0, <1>1, <1>2, <1>4, <2>1 DEF JobsOnce
    <2>7. Once(queue_)' /\ Once(media_queue_)' /\ Once(dropped)'
      BY <1>0, <1>1, <1>2 DEF JobsOnce, Once
    <2> QED BY <2>2, <2>3, <2>4, <2>5, <2>6, <2>7 DEF JobsOnce
  <1>7. Subscriptions'
    <2>1. \A x \in Requests : IsJoiner(x) =>
             ~Waiting(x)' /\ ~In(x, dropped)' /\ x \notin started'
      BY <1>0, <1>1, <1>2, <1>3, <1>4 DEF Subscriptions, In
    <2> QED BY <1>0, <1>1, <1>2, <1>3, <1>4, <2>1, SubscriptionsKept
  <1>8. Unsettled'
    <2>1. DroppedNeverStarts'
      BY <1>0, <1>1, <1>2, <1>4 DEF Unsettled, DroppedNeverStarts, In
    <2>2. finishing # <<>> => media_running_' = media_running_
      BY <1>0, <1>1 DEF Control
    <2>3. \A x : In(x, finishing) => finishing # <<>>
      BY DEF In
    <2>4. \A j \in Requests : Waiting(j)' \/ Running(j)' =>
             \A i \in 1 .. Len(subscribers'[j]) : terminals'[subscribers'[j][i]] = <<>>
      BY <1>0, <1>1, <1>2 DEF Unsettled
    <2>5. \A j \in Requests, i \in Nat : Untold(j, i)' => terminals'[Told(j)'[i]] = <<>>
      BY <1>0, <1>2, <1>3 DEF Unsettled
    <2>6. Once(finishing)' <=> Once(finishing)
      BY <1>2 DEF Once
    <2>7. \A x \in Requests : In(x, finishing)' =>
             In(x, subscribers[media_running_])' /\ terminals'[x] = <<>>
      <3>1. \A x : In(x, finishing)' <=> In(x, finishing)
        BY <1>2 DEF In
      <3>2. finishing # <<>> => \A x : In(x, subscribers[media_running_])'
                                        <=> In(x, subscribers[media_running_])
        BY <1>2, <2>2 DEF In
      <3> QED BY <1>0, <1>2, <2>3, <3>1, <3>2 DEF Unsettled
    <2>8. \A x \in Requests : Len(terminals'[x]) <= 1 /\ (x \notin accepted' => terminals'[x] = <<>>)
      BY <1>0, <1>2 DEF Unsettled
    <2> QED BY <1>0, <2>1, <2>4, <2>5, <2>6, <2>7, <2>8 DEF Unsettled
  <1>9. Covered'
    <2>1. \A x : Owed(x) => Owed(x)'
      BY <1>1, <1>2, <1>3 DEF Owed, In
    <2> QED BY <1>0, <1>2, <1>3, <2>1 DEF Covered
  <1> QED BY <1>5, <1>6, <1>7, <1>8, <1>9 DEF IInv

-----------------------------------------------------------------------------
(* Terminal events.                                                        *)

\* A first terminal event of a request settles it and no other.
LEMMA EmitFacts ==
    ASSUME TypeOK, Unsettled, NEW r \in Requests, r \in accepted, terminals[r] = <<>>,
           NEW kind \in {"result", "error", "cancelled", "dropped"}, Emit(r, kind)
    PROVE  /\ terminals' \in [Requests -> Seq({"result", "error", "cancelled", "dropped"})]
           /\ \A x \in Requests : x # r => terminals'[x] = terminals[x] /\ (Settled(x)' <=> Settled(x))
           /\ Settled(r)'
           /\ \A x \in Requests : /\ Len(terminals'[x]) <= 1
                                  /\ x \notin accepted => terminals'[x] = <<>>
           /\ \A x \in Requests : In("dropped", terminals'[x]) =>
                 In("dropped", terminals[x]) \/ (x = r /\ kind = "dropped")
  <1> DEFINE K == {"result", "error", "cancelled", "dropped"}
  <1>1. terminals \in [Requests -> Seq(K)]
    BY DEF TypeOK
  <1>2. terminals'[r] = Append(terminals[r], kind)
    BY <1>1 DEF Emit
  <1>3. \A x \in Requests : x # r => terminals'[x] = terminals[x]
    BY <1>1 DEF Emit
  <1>4. /\ Append(<<>>, kind) \in Seq(K) /\ Len(Append(<<>>, kind)) = 1
        /\ \A i \in 1 .. 1 : Append(<<>>, kind)[i] = kind
    OBVIOUS
  <1>5. terminals' \in [Requests -> Seq(K)]
    BY <1>1, <1>2, <1>4 DEF Emit
  <1>6. Len(terminals'[r]) = 1 /\ \A x : In(x, terminals'[r]) => x = kind
    BY <1>2, <1>4 DEF In
  <1> HIDE DEF K
  <1>7. \A x \in Requests : Len(terminals'[x]) <= 1 /\ (x \notin accepted => terminals'[x] = <<>>)
    <2>1. \A x \in Requests : Len(terminals[x]) <= 1 /\ (x \notin accepted => terminals[x] = <<>>)
      BY DEF Unsettled
    <2>2. Len(terminals'[r]) <= 1
      BY <1>6
    <2> QED BY <1>3, <2>1, <2>2
  <1>8. \A x \in Requests : x # r => (Settled(x)' <=> Settled(x))
    BY <1>3 DEF Settled
  <1>9. Settled(r)'
    BY <1>6 DEF Settled
  <1>10. \A x \in Requests : In("dropped", terminals'[x]) =>
             In("dropped", terminals[x]) \/ (x = r /\ kind = "dropped")
    BY <1>3, <1>6
  <1> QED BY <1>3, <1>5, <1>7, <1>8, <1>9, <1>10 DEF K

\* The subscribers of an accepted job are accepted.
LEMMA SubscribersAccepted ==
    ASSUME TypeOK, Subscriptions, NEW j \in Requests, j \in accepted,
           NEW i \in 1 .. Len(subscribers[j])
    PROVE  subscribers[j][i] \in accepted
  <1>1. i = 1 \/ i \in 2 .. Len(subscribers[j])
    BY DEF TypeOK
  <1> QED BY <1>1 DEF Subscriptions

\* Only its own request subscribes to an analyze or a verify job.
LEMMA JobAlone ==
    ASSUME TypeOK, Subscriptions, NEW j \in JobRequests
    PROVE  j \in Requests /\ Len(subscribers[j]) = 1 /\ subscribers[j][1] = j
  <1>1. j \in Requests /\ j \notin IndexRequests
    BY RequestsDistinct DEF Requests
  <1>2. Len(subscribers[j]) \in Nat /\ Len(subscribers[j]) > 0 /\ subscribers[j][1] = j
    BY <1>1 DEF TypeOK, Subscriptions
  <1>3. \A i \in 2 .. Len(subscribers[j]) : FALSE
    BY <1>1 DEF Subscriptions
  <1>4. \A n \in Nat : n > 0 /\ (\A i \in 2 .. n : FALSE) => n = 1
    BY OnlyOne
  <1> QED BY <1>1, <1>2, <1>3, <1>4

\* A finished job settles the one request it has.
LEMMA FinishKeeps ==
    ASSUME IInv, FinishJob
    PROVE  IInv'
  <1>0. TypeOK /\ Control /\ JobsOnce /\ Subscriptions /\ Unsettled /\ Covered
    BY DEF IInv
  <1>1. /\ executor = "run" /\ executor' = "reset"
        /\ UNCHANGED <<queue_, running_, stopping_, started, media_queue_, media_running_,
                       media_stopping_, subscribers, accepting_subscribers, media_executor,
                       finishing, media_outcome, cancel_requested, reader, target, dropped, told,
                       ending, accepted, acknowledged>>
    BY DEF FinishJob, media, command, dropping
  <1>r. PICK r \in JobRequests : r = running_
    BY <1>0, <1>1 DEF TypeOK
  <1>2. /\ r \in JobRequests /\ r \in Requests /\ r \in started /\ r \in accepted /\ Running(r)
        /\ Len(subscribers[r]) = 1 /\ subscribers[r][1] = r
    <2>1. r \in JobRequests /\ r # None
      BY <1>0, <1>1, <1>r DEF TypeOK
    <2>2. r \in started /\ r \in accepted /\ Running(r)
      BY <1>0, <1>1, <1>r, <2>1 DEF JobsOnce, Running
    <2> QED BY <1>0, <2>1, <2>2, JobAlone
  <1>3. terminals[r] = <<>> /\ ~IsJoiner(r)
    BY <1>0, <1>2, PlacedOwns DEF Unsettled
  <1>4. PICK kind \in {"result", "error", "cancelled"} : Emit(r, kind)
    BY <1>r DEF FinishJob
  <1>5. /\ terminals' \in [Requests -> Seq({"result", "error", "cancelled", "dropped"})]
        /\ \A x \in Requests : x # r => terminals'[x] = terminals[x] /\ (Settled(x)' <=> Settled(x))
        /\ Settled(r)'
        /\ \A x \in Requests : /\ Len(terminals'[x]) <= 1
                               /\ x \notin accepted => terminals'[x] = <<>>
        /\ \A x \in Requests : In("dropped", terminals'[x]) => In("dropped", terminals[x])
    <2>1. kind \in {"result", "error", "cancelled", "dropped"} /\ kind # "dropped"
      OBVIOUS
    <2> QED BY <1>0, <1>2, <1>3, <1>4, <2>1, EmitFacts
  <1>6. /\ \A x : Waiting(x)' <=> Waiting(x)
        /\ \A x : Running(x)' <=> Running(x) /\ x # r
        /\ \A j : Told(j)' = Told(j)
        /\ \A j, i : Untold(j, i)' <=> Untold(j, i)
        /\ \A x : IsJoiner(x)' <=> IsJoiner(x)
    <2>1. media_running_ # r
      BY <1>0, <1>2, RequestsDistinct DEF TypeOK
    <2> QED BY <1>1, <1>r, <2>1 DEF Waiting, Running, Untold, Told, IsJoiner, In
  <1>7. TypeOK' /\ Control'
    <2>1. TypeOK'
      BY <1>0, <1>1, <1>5 DEF TypeOK
    <2>2. Control'
      BY <1>0, <1>1 DEF Control, Told
    <2> QED BY <2>1, <2>2
  <1>8. JobsOnce'
    BY <1>0, <1>1, <1>6 DEF JobsOnce, Once, In
  <1>9. Subscriptions'
    <2>1. \A x \in Requests : IsJoiner(x) =>
             ~Waiting(x)' /\ ~In(x, dropped)' /\ x \notin started'
      BY <1>0, <1>1, <1>6 DEF Subscriptions, In
    <2> QED BY <1>0, <1>1, <1>6, <2>1, SubscriptionsKept
  <1>10. Unsettled'
    <2>1. DroppedNeverStarts'
      BY <1>0, <1>1, <1>5 DEF Unsettled, DroppedNeverStarts
    <2>2. ASSUME NEW j \in Requests, Waiting(j) \/ Running(j) \/ In(j, dropped), j # r,
                 NEW i \in 1 .. Len(subscribers[j])
          PROVE  subscribers[j][i] # r /\ subscribers[j][i] \in Requests
      <3>1. ~IsJoiner(j)
        BY <1>0, <2>2, PlacedOwns
      <3>2. 1 \in 1 .. Len(subscribers[r])
        BY <1>2
      <3>3. subscribers[j][i] \in Requests
        BY <1>0 DEF TypeOK
      <3>4. subscribers[j][i] # subscribers[r][1]
        BY <1>0, <1>2, <1>3, <2>2, <3>1, <3>2, Distinct
      <3> QED BY <1>2, <3>3, <3>4
    <2>3. ASSUME NEW j \in Requests, Waiting(j)' \/ Running(j)', NEW i \in 1 .. Len(subscribers'[j])
          PROVE  terminals'[subscribers'[j][i]] = <<>>
      <3>1. j # r /\ (Waiting(j) \/ Running(j)) /\ i \in 1 .. Len(subscribers[j])
        BY <1>0, <1>1, <1>2, <1>6, <2>3 DEF JobsOnce
      <3>2. terminals[subscribers[j][i]] = <<>>
        BY <1>0, <3>1 DEF Unsettled
      <3> QED BY <1>1, <1>5, <2>2, <3>1, <3>2
    <2>4. ASSUME NEW j \in Requests, NEW i \in Nat, Untold(j, i)'
          PROVE  terminals'[Told(j)'[i]] = <<>>
      <3>1. In(j, dropped) /\ i \in 1 .. Len(Told(j)) /\ Untold(j, i)
        BY <1>6, <2>4 DEF Untold
      <3>2. i \in 1 .. Len(subscribers[j]) /\ Told(j)[i] = subscribers[j][i] /\ j # r
        BY <1>0, <1>2, <3>1, ToldFacts DEF JobsOnce
      <3>3. terminals[Told(j)[i]] = <<>>
        BY <1>0, <3>1 DEF Unsettled
      <3>4. subscribers[j][i] # r /\ subscribers[j][i] \in Requests
        BY <2>2, <3>1, <3>2
      <3> QED BY <1>5, <1>6, <3>2, <3>3, <3>4
    <2>5. ASSUME NEW x \in Requests, In(x, finishing)'
          PROVE  In(x, subscribers[media_running_])' /\ terminals'[x] = <<>>
      <3>1. In(x, finishing) /\ finishing # <<>>
        BY <1>1, <2>5 DEF In
      <3>2. /\ media_running_ \in Requests /\ media_running_ # r /\ media_running_ # None
        BY <1>0, <1>2, <3>1, RequestsDistinct DEF Control, TypeOK, Requests
      <3>3. In(x, subscribers[media_running_]) /\ terminals[x] = <<>>
        BY <1>0, <3>1 DEF Unsettled
      <3>4. x # r
        <4>1. PICK i \in 1 .. Len(subscribers[media_running_]) : subscribers[media_running_][i] = x
          BY <3>3 DEF In
        <4>2. ~IsJoiner(media_running_)
          BY <1>0, <3>2, PlacedOwns DEF JobsOnce
        <4>3. 1 \in 1 .. Len(subscribers[r])
          BY <1>2
        <4>4. subscribers[media_running_][i] # subscribers[r][1]
          BY <1>0, <1>2, <1>3, <3>2, <4>2, <4>3, Distinct
        <4> QED BY <1>2, <4>1, <4>4
      <3> QED BY <1>1, <1>5, <3>3, <3>4 DEF In
    <2>6. Once(finishing)'
      BY <1>0, <1>1 DEF Unsettled, Once
    <2>7. \A x \in Requests : Len(terminals'[x]) <= 1 /\ (x \notin accepted' => terminals'[x] = <<>>)
      BY <1>1, <1>5
    <2> QED BY <2>1, <2>3, <2>4, <2>5, <2>6, <2>7 DEF Unsettled
  <1>11. Covered'
    <2>1. ASSUME NEW x \in Requests, Owed(x), x # r PROVE Owed(x)'
      <3>1. ASSUME NEW j \in Requests, Waiting(j) \/ Running(j), In(x, subscribers[j])
            PROVE  Owed(x)'
        <4>1. j # r
          BY <1>2, <2>1, <3>1 DEF In
        <4> QED BY <1>1, <1>6, <3>1, <4>1 DEF Owed, In
      <3>2. ASSUME NEW j \in Requests, NEW i \in Nat, Untold(j, i), Told(j)[i] = x
            PROVE  Owed(x)'
        BY <1>6, <3>2 DEF Owed
      <3>3. ASSUME In(x, finishing) PROVE Owed(x)'
        BY <1>1, <3>3 DEF Owed, In
      <3> QED BY <2>1, <3>1, <3>2, <3>3 DEF Owed
    <2>2. accepted \subseteq Requests
      BY <1>0 DEF TypeOK
    <2>3. ASSUME NEW x \in accepted
          PROVE  Settled(x)' \/ Owed(x)' \/ (ending' = "eof" /\ IsJoiner(x)')
      <3>1. Settled(x) \/ Owed(x) \/ (ending = "eof" /\ IsJoiner(x))
        BY <1>0 DEF Covered
      <3> QED BY <1>1, <1>5, <1>6, <2>1, <2>2, <3>1
    <2> QED BY <1>1, <2>3 DEF Covered
  <1> QED BY <1>7, <1>8, <1>9, <1>10, <1>11 DEF IInv

\* A finished media job owes its event to the snapshot of its subscribers.
LEMMA FinishMediaKeeps ==
    ASSUME IInv, FinishMediaJob
    PROVE  IInv'
  <1>0. TypeOK /\ Control /\ JobsOnce /\ Subscriptions /\ Unsettled /\ Covered
    BY DEF IInv
  <1>1. /\ media_executor = "run" /\ media_executor' = "emit"
        /\ media_outcome' \in {"result", "error", "cancelled"}
        /\ accepting_subscribers' = [accepting_subscribers EXCEPT ![media_running_] = FALSE]
        /\ finishing' = subscribers[media_running_]
        /\ UNCHANGED <<queue_, running_, stopping_, executor, started, media_queue_, media_running_,
                       media_stopping_, subscribers, cancel_requested, reader, target, dropped,
                       told, ending, accepted, terminals, acknowledged>>
    BY DEF FinishMediaJob, jobs, command, dropping, events
  <1>2. PICK r \in Requests : r = media_running_ /\ Running(r) /\ r \in started /\ ~IsJoiner(r)
    <2>1. media_running_ \in Requests /\ media_running_ # None
      BY <1>0, <1>1 DEF TypeOK, Requests
    <2>2. Running(media_running_) /\ media_running_ \in started
      BY <1>0, <1>1, <2>1 DEF Running, JobsOnce
    <2> QED BY <1>0, <2>1, <2>2, PlacedOwns
  <1>3. finishing = <<>> /\ finishing' \in Seq(Requests) /\ finishing' = subscribers[r]
    BY <1>0, <1>1, <1>2 DEF Control, TypeOK
  <1>4. /\ \A x : Waiting(x)' <=> Waiting(x)
        /\ \A x : Running(x)' => Running(x)
        /\ \A x : Running(x) => Running(x)' \/ x = r
        /\ \A j : Told(j)' = Told(j)
        /\ \A j, i : Untold(j, i)' <=> Untold(j, i)
        /\ \A x : IsJoiner(x)' <=> IsJoiner(x)
        /\ \A x : Settled(x)' <=> Settled(x)
    BY <1>1, <1>2 DEF Waiting, Running, Untold, Told, IsJoiner, Settled, In
  <1>5. TypeOK' /\ Control'
    <2>1. accepting_subscribers' \in [Requests -> BOOLEAN] /\ ~accepting_subscribers'[media_running_]
      BY <1>0, <1>1, <1>2 DEF TypeOK
    <2>2. TypeOK'
      BY <1>0, <1>1, <1>3, <2>1 DEF TypeOK
    <2>3. Control'
      BY <1>0, <1>1, <2>1 DEF Control, Told
    <2> QED BY <2>2, <2>3
  <1>6. JobsOnce'
    BY <1>0, <1>1, <1>4 DEF JobsOnce, Once, In
  <1>7. Subscriptions'
    <2>1. \A x \in Requests : IsJoiner(x) =>
             ~Waiting(x)' /\ ~In(x, dropped)' /\ x \notin started'
      BY <1>0, <1>1, <1>4 DEF Subscriptions, In
    <2> QED BY <1>0, <1>1, <1>4, <2>1, SubscriptionsKept
  <1>8. Unsettled'
    <2>1. DroppedNeverStarts'
      BY <1>0, <1>1 DEF Unsettled, DroppedNeverStarts
    <2>2. Once(finishing)'
      <3>1. \A i, k \in 1 .. Len(subscribers[r]) : subscribers[r][i] = subscribers[r][k] => i = k
        BY <1>0, <1>2, Distinct
      <3> QED BY <1>3, <3>1 DEF Once
    <2>3. ASSUME NEW x \in Requests, In(x, finishing)'
          PROVE  In(x, subscribers[media_running_])' /\ terminals'[x] = <<>>
      <3>1. In(x, subscribers[r])
        BY <1>3, <2>3 DEF In
      <3>2. terminals[x] = <<>>
        BY <1>0, <1>2, <3>1 DEF Unsettled, In
      <3> QED BY <1>1, <1>2, <3>1, <3>2 DEF In
    <2> QED BY <1>0, <1>1, <1>4, <2>1, <2>2, <2>3 DEF Unsettled
  <1>9. Covered'
    <2>1. ASSUME NEW x, Owed(x) PROVE Owed(x)'
      <3>1. ASSUME NEW j \in Requests, Waiting(j) \/ Running(j), In(x, subscribers[j])
            PROVE  Owed(x)'
        <4>1. CASE j = r
          BY <1>3, <3>1, <4>1 DEF Owed, In
        <4>2. CASE j # r
          BY <1>1, <1>4, <3>1, <4>2 DEF Owed, In
        <4> QED BY <4>1, <4>2
      <3>2. ASSUME NEW j \in Requests, NEW i \in Nat, Untold(j, i), Told(j)[i] = x
            PROVE  Owed(x)'
        BY <1>4, <3>2 DEF Owed
      <3>3. ~In(x, finishing)
        BY <1>3 DEF In
      <3> QED BY <2>1, <3>1, <3>2, <3>3 DEF Owed
    <2> QED BY <1>0, <1>1, <1>4, <2>1 DEF Covered
  <1> QED BY <1>5, <1>6, <1>7, <1>8, <1>9 DEF IInv

\* One of them after the other is settled.
LEMMA EmitMediaTerminalKeeps ==
    ASSUME IInv, EmitMediaTerminal
    PROVE  IInv'
  <1>0. TypeOK /\ Control /\ JobsOnce /\ Subscriptions /\ Unsettled /\ Covered
    BY DEF IInv
  <1>1. /\ media_executor = "emit" /\ finishing # <<>> /\ finishing' = Tail(finishing)
        /\ UNCHANGED <<queue_, running_, stopping_, executor, started, media_queue_, media_running_,
                       media_stopping_, subscribers, accepting_subscribers, media_executor,
                       media_outcome, cancel_requested, reader, target, dropped,
                       told, ending, accepted, acknowledged>>
    BY DEF EmitMediaTerminal, jobs, command, dropping
  <1>2. PICK r \in Requests : r = Head(finishing)
    BY <1>0, <1>1 DEF TypeOK
  <1>3. PICK m \in Requests : m = media_running_ /\ m \in started /\ m \in accepted /\ ~IsJoiner(m)
                              /\ m \notin JobRequests
    <2>1. media_running_ \in Requests /\ media_running_ # None /\ media_running_ \notin JobRequests
      BY <1>0, <1>1, RequestsDistinct DEF TypeOK, Requests
    <2>2. media_running_ \in started /\ media_running_ \in accepted
      BY <1>0, <2>1 DEF JobsOnce
    <2> QED BY <1>0, <2>1, <2>2, PlacedOwns
  <1>4. /\ finishing' \in Seq(Requests)
        /\ \A x : In(x, finishing') <=> In(x, finishing) /\ x # r
        /\ Once(finishing') /\ In(r, finishing)
    <2>1. finishing \in Seq(Requests) /\ Once(finishing)
      BY <1>0 DEF TypeOK, Unsettled
    <2>2. /\ Tail(finishing) \in Seq(Requests)
          /\ \A x : In(x, finishing) <=> In(x, Tail(finishing)) \/ x = r
          /\ Once(Tail(finishing)) /\ ~In(r, Tail(finishing))
      BY <1>1, <1>2, <2>1, TailFacts
    <2> QED BY <1>1, <2>2
  <1>5. PICK l \in 1 .. Len(subscribers[m]) : subscribers[m][l] = r
    BY <1>0, <1>3, <1>4 DEF Unsettled, In
  <1>6. r \in accepted /\ terminals[r] = <<>>
    BY <1>0, <1>3, <1>4, <1>5, SubscribersAccepted DEF Unsettled
  <1>7. PICK kind \in {"result", "error", "cancelled"} : Emit(r, kind)
    BY <1>0, <1>1, <1>2 DEF EmitMediaTerminal, Control
  <1>8. /\ terminals' \in [Requests -> Seq({"result", "error", "cancelled", "dropped"})]
        /\ \A x \in Requests : x # r => terminals'[x] = terminals[x] /\ (Settled(x)' <=> Settled(x))
        /\ Settled(r)'
        /\ \A x \in Requests : /\ Len(terminals'[x]) <= 1
                               /\ x \notin accepted => terminals'[x] = <<>>
        /\ \A x \in Requests : In("dropped", terminals'[x]) => In("dropped", terminals[x])
    <2>1. kind \in {"result", "error", "cancelled", "dropped"} /\ kind # "dropped"
      OBVIOUS
    <2> QED BY <1>0, <1>6, <1>7, <2>1, EmitFacts
  <1>9. /\ \A x : Waiting(x)' <=> Waiting(x)
        /\ \A x : Running(x)' <=> Running(x)
        /\ \A j : Told(j)' = Told(j)
        /\ \A j, i : Untold(j, i)' <=> Untold(j, i)
        /\ \A x : IsJoiner(x)' <=> IsJoiner(x)
    BY <1>1 DEF Waiting, Running, Untold, Told, IsJoiner, In
  <1>10. ASSUME NEW j \in Requests, Waiting(j) \/ Running(j) \/ In(j, dropped),
                NEW i \in 1 .. Len(subscribers[j])
         PROVE  subscribers[j][i] # r /\ subscribers[j][i] \in Requests
    <2>1. ~IsJoiner(j)
      BY <1>0, <1>10, PlacedOwns
    <2>2. j # m
      BY <1>0, <1>1, <1>3, <1>10 DEF JobsOnce, Running, TypeOK
    <2>3. subscribers[j][i] \in Requests
      BY <1>0 DEF TypeOK
    <2> QED BY <1>0, <1>3, <1>5, <2>1, <2>2, <2>3, Distinct
  <1>11. TypeOK' /\ Control'
    <2>1. TypeOK'
      <3>1. /\ finishing' \in Seq(Requests)
            /\ terminals' \in [Requests -> Seq({"result", "error", "cancelled", "dropped"})]
        BY <1>4, <1>8
      <3>2. UNCHANGED <<queue_, running_, stopping_, executor, started, media_queue_,
                        media_running_, media_stopping_, subscribers, accepting_subscribers,
                        media_executor, media_outcome, cancel_requested, reader, target,
                        dropped, told, ending, accepted, acknowledged>>
        BY <1>1
      <3> QED BY <1>0, <3>1, <3>2, SMTT(40) DEF TypeOK
    <2>2. Control'
      BY <1>0, <1>1 DEF Control, Told
    <2> QED BY <2>1, <2>2
  <1>12. JobsOnce'
    BY <1>0, <1>1, <1>9 DEF JobsOnce, Once, In
  <1>13. Subscriptions'
    <2>1. \A x \in Requests : IsJoiner(x) =>
             ~Waiting(x)' /\ ~In(x, dropped)' /\ x \notin started'
      BY <1>0, <1>1, <1>9 DEF Subscriptions, In
    <2> QED BY <1>0, <1>1, <1>9, <2>1, SubscriptionsKept
  <1>14. Unsettled'
    <2>1. DroppedNeverStarts'
      BY <1>0, <1>1, <1>8 DEF Unsettled, DroppedNeverStarts
    <2>2. ASSUME NEW j \in Requests, Waiting(j)' \/ Running(j)', NEW i \in 1 .. Len(subscribers'[j])
          PROVE  terminals'[subscribers'[j][i]] = <<>>
      <3>1. (Waiting(j) \/ Running(j)) /\ i \in 1 .. Len(subscribers[j])
        BY <1>1, <1>9, <2>2
      <3>2. terminals[subscribers[j][i]] = <<>>
        BY <1>0, <3>1 DEF Unsettled
      <3> QED BY <1>1, <1>8, <1>10, <3>1, <3>2
    <2>3. ASSUME NEW j \in Requests, NEW i \in Nat, Untold(j, i)'
          PROVE  terminals'[Told(j)'[i]] = <<>>
      <3>1. In(j, dropped) /\ i \in 1 .. Len(Told(j)) /\ Untold(j, i)
        BY <1>9, <2>3 DEF Untold
      <3>2. i \in 1 .. Len(subscribers[j]) /\ Told(j)[i] = subscribers[j][i]
        BY <1>0, <3>1, ToldFacts
      <3>3. terminals[Told(j)[i]] = <<>>
        BY <1>0, <3>1 DEF Unsettled
      <3>4. subscribers[j][i] # r /\ subscribers[j][i] \in Requests
        BY <1>10, <3>1, <3>2
      <3> QED BY <1>8, <1>9, <3>2, <3>3, <3>4
    <2>4. ASSUME NEW x \in Requests, In(x, finishing)'
          PROVE  In(x, subscribers[media_running_])' /\ terminals'[x] = <<>>
      <3>1. In(x, finishing) /\ x # r
        BY <1>4, <2>4 DEF In
      <3>2. In(x, subscribers[media_running_]) /\ terminals[x] = <<>>
        BY <1>0, <3>1 DEF Unsettled
      <3> QED BY <1>1, <1>8, <3>1, <3>2 DEF In
    <2>5. Once(finishing)'
      BY <1>4 DEF Once
    <2>6. \A x \in Requests : Len(terminals'[x]) <= 1 /\ (x \notin accepted' => terminals'[x] = <<>>)
      BY <1>1, <1>8
    <2> QED BY <2>1, <2>2, <2>3, <2>4, <2>5, <2>6 DEF Unsettled
  <1>15. Covered'
    <2>1. ASSUME NEW x \in Requests, Owed(x), x # r PROVE Owed(x)'
      <3>1. ASSUME NEW j \in Requests, Waiting(j) \/ Running(j), In(x, subscribers[j])
            PROVE  Owed(x)'
        BY <1>1, <1>9, <3>1 DEF Owed, In
      <3>2. ASSUME NEW j \in Requests, NEW i \in Nat, Untold(j, i), Told(j)[i] = x
            PROVE  Owed(x)'
        BY <1>9, <3>2 DEF Owed
      <3>3. ASSUME In(x, finishing) PROVE Owed(x)'
        BY <1>4, <2>1, <3>3 DEF Owed, In
      <3> QED BY <2>1, <3>1, <3>2, <3>3 DEF Owed
    <2>2. accepted \subseteq Requests
      BY <1>0 DEF TypeOK
    <2>3. ASSUME NEW x \in accepted
          PROVE  Settled(x)' \/ Owed(x)' \/ (ending' = "eof" /\ IsJoiner(x)')
      <3>1. Settled(x) \/ Owed(x) \/ (ending = "eof" /\ IsJoiner(x))
        BY <1>0 DEF Covered
      <3> QED BY <1>1, <1>8, <1>9, <2>1, <2>2, <3>1
    <2> QED BY <1>1, <2>3 DEF Covered
  <1> QED BY <1>11, <1>12, <1>13, <1>14, <1>15 DEF IInv

-----------------------------------------------------------------------------
(* The reader: cancel, shutdown and the end of the commands.               *)

\* No dropped job is left to report.
LEMMA NoneDroppedKeeps ==
    ASSUME IInv, EmitCancelled, dropped = <<>>
    PROVE  IInv'
  <1>0. TypeOK /\ Control /\ JobsOnce /\ Subscriptions /\ Unsettled /\ Covered
    BY DEF IInv
  <1>1. /\ reader = "emit_cancelled" /\ reader' = IF ending = "no" THEN "idle" ELSE "join"
        /\ UNCHANGED <<queue_, running_, stopping_, executor, started, media_queue_, media_running_,
                       media_stopping_, subscribers, accepting_subscribers, media_executor, finishing,
                       media_outcome, cancel_requested, target, dropped, told, ending, accepted,
                       terminals, acknowledged>>
    BY DEF EmitCancelled, jobs, media, dropping
  <1>2. TypeOK' /\ Control'
    BY <1>0, <1>1 DEF TypeOK, Control, Told
  <1>3. \A j : Running(j)' <=> Running(j)
    BY <1>1 DEF Running
  <1>4. JobsOnce' /\ Subscriptions' /\ Unsettled' /\ Covered'
    <2>1. (reader' = "enqueue" <=> reader = "enqueue") /\ reader # "enqueue"
      BY <1>1
    <2> QED BY <1>0, <1>1, <1>3, <2>1, NothingMoves
  <1> QED BY <1>2, <1>4 DEF IInv

\* The next request of the first dropped job is told.
LEMMA EmitCancelledKeeps ==
    ASSUME IInv, EmitCancelled, dropped # <<>>
    PROVE  IInv'
  <1>0. TypeOK /\ Control /\ JobsOnce /\ Subscriptions /\ Unsettled /\ Covered
    BY DEF IInv
  <1>1. /\ reader = "emit_cancelled"
        /\ UNCHANGED <<queue_, running_, stopping_, executor, started, media_queue_, media_running_,
                       media_stopping_, subscribers, accepting_subscribers, media_executor, finishing,
                       media_outcome, cancel_requested, reader, target, ending, accepted,
                       acknowledged>>
        /\ told \in Nat /\ dropped \in Seq(Requests)
    BY <1>0 DEF EmitCancelled, jobs, media, TypeOK
  <1>2. /\ Tail(dropped) \in Seq(Requests) /\ Once(Tail(dropped))
        /\ Head(dropped) \in Requests
        /\ \A x : In(x, dropped) <=> In(x, Tail(dropped)) \/ x = Head(dropped)
        /\ ~In(Head(dropped), Tail(dropped))
    BY <1>0, <1>1, TailFacts DEF JobsOnce
  <1>3. PICK h \in Requests : h = Head(dropped)
    BY <1>2
  <1>4. /\ Told(h) \in Seq(Requests) /\ Len(Told(h)) \in Nat
        /\ told + 1 \in 1 .. Len(Told(h))
        /\ told + 1 \in 1 .. Len(subscribers[h]) /\ Told(h)[told + 1] = subscribers[h][told + 1]
    <2>1. told < Len(Told(h))
      BY <1>0, <1>3 DEF Control
    <2>2. /\ Told(h) \in Seq(Requests) /\ Len(Told(h)) \in Nat
          /\ \A i \in 1 .. Len(Told(h)) : /\ i \in 1 .. Len(subscribers[h])
                                           /\ Told(h)[i] = subscribers[h][i]
      BY <1>0, ToldFacts
    <2>3. told + 1 \in 1 .. Len(Told(h))
      BY <1>1, <2>1, <2>2
    <2> QED BY <2>2, <2>3
  <1>5. PICK u \in Nat, r \in Requests : u = told + 1 /\ r = Told(h)[u]
    BY <1>1, <1>4
  <1>6. /\ Emit(r, "dropped")
        /\ \/ u = Len(Told(h)) /\ dropped' = Tail(dropped) /\ told' = 0
           \/ u # Len(Told(h)) /\ told' = u /\ UNCHANGED dropped
    BY <1>3, <1>5 DEF EmitCancelled
  <1>7. u \in 1 .. Len(Told(h)) /\ u \in 1 .. Len(subscribers[h]) /\ r = subscribers[h][u]
    BY <1>4, <1>5
  <1>8. /\ In(h, dropped) /\ Untold(h, u) /\ h \in accepted /\ h \notin started /\ ~Waiting(h)
        /\ ~IsJoiner(h)
    <2>1. In(h, dropped)
      BY <1>2, <1>3
    <2>2. Untold(h, u)
      BY <1>1, <1>3, <1>5, <1>7, <2>1 DEF Untold
    <2> QED BY <1>0, <2>1, <2>2, PlacedOwns DEF JobsOnce
  <1>9. /\ r \in accepted /\ terminals[r] = <<>> /\ r \notin started
    <2>1. r \in accepted /\ terminals[r] = <<>>
      BY <1>0, <1>5, <1>7, <1>8, SubscribersAccepted DEF Unsettled
    <2>2. CASE u = 1
      BY <1>0, <1>7, <1>8, <2>1, <2>2 DEF Subscriptions
    <2>3. CASE u # 1
      <3>1. u \in 2 .. Len(subscribers[h])
        BY <1>7, <2>3
      <3> QED BY <1>0, <1>7, <2>1, <3>1 DEF Subscriptions, IsJoiner
    <2> QED BY <2>2, <2>3
  <1>10. /\ terminals' \in [Requests -> Seq({"result", "error", "cancelled", "dropped"})]
         /\ \A x \in Requests : x # r => terminals'[x] = terminals[x] /\ (Settled(x)' <=> Settled(x))
         /\ Settled(r)'
         /\ \A x \in Requests : /\ Len(terminals'[x]) <= 1
                                /\ x \notin accepted => terminals'[x] = <<>>
         /\ \A x \in Requests : In("dropped", terminals'[x]) => In("dropped", terminals[x]) \/ x = r
    BY <1>0, <1>6, <1>9, EmitFacts
  <1>11. /\ dropped' \in Seq(Requests) /\ told' \in Nat
         /\ Once(dropped') /\ \A x : In(x, dropped') => In(x, dropped)
         /\ dropped' # <<>> => told' < Len(Told(Head(dropped))')
         /\ dropped' = <<>> => told' = 0
    <2>1. CASE dropped' = Tail(dropped) /\ told' = 0
      <3>1. dropped' \in Seq(Requests)
        BY <1>2, <2>1
      <3>2. dropped' # <<>> => Head(dropped') \in Requests
        BY <3>1
      <3>3. dropped' # <<>> => 0 < Len(Told(Head(dropped))')
        <4>1. Told(Head(dropped))' = Told(Head(dropped'))
          BY <1>1 DEF Told
        <4> QED BY <1>0, <3>2, <4>1, ToldFacts
      <3> QED BY <1>2, <2>1, <3>1, <3>2, <3>3
    <2>2. CASE u # Len(Told(h)) /\ told' = u /\ UNCHANGED dropped
      <3>1. Told(Head(dropped))' = Told(h)
        BY <1>1, <1>3, <2>2 DEF Told
      <3>2. u < Len(Told(h))
        BY <1>4, <1>7, <2>2
      <3> QED BY <1>0, <1>1, <1>3, <2>2, <3>1, <3>2 DEF JobsOnce
    <2> QED BY <1>6, <2>1, <2>2
  <1>12. /\ \A x : Waiting(x)' <=> Waiting(x)
         /\ \A x : Running(x)' <=> Running(x)
         /\ \A j : Told(j)' = Told(j)
         /\ \A x : IsJoiner(x)' <=> IsJoiner(x)
    BY <1>1 DEF Waiting, Running, Told, IsJoiner, In
  <1>13. \A j, i : i \in Nat => (Untold(j, i)' <=> Untold(j, i) /\ ~(j = h /\ i = u))
    <2> SUFFICES ASSUME NEW j, NEW i \in Nat
                 PROVE  Untold(j, i)' <=> Untold(j, i) /\ ~(j = h /\ i = u)
      OBVIOUS
    <2>1. Untold(j, i)' <=> /\ In(j, dropped') /\ i \in 1 .. Len(Told(j))
                            /\ j = Head(dropped') => i > told'
      BY <1>12 DEF Untold, In
    <2>2. Untold(j, i) <=> /\ In(j, dropped) /\ i \in 1 .. Len(Told(j))
                           /\ j = h => i >= u
      BY <1>1, <1>3, <1>5 DEF Untold
    <2>3. CASE u = Len(Told(h)) /\ dropped' = Tail(dropped) /\ told' = 0
      <3>1. CASE j = h
        BY <1>2, <1>3, <1>4, <1>5, <2>1, <2>2, <2>3, <3>1
      <3>2. CASE j # h
        BY <1>2, <1>3, <2>1, <2>2, <2>3, <3>2
      <3> QED BY <3>1, <3>2
    <2>4. CASE told' = u /\ UNCHANGED dropped
      BY <1>3, <1>5, <2>1, <2>2, <2>4
    <2> QED BY <1>6, <2>3, <2>4
  <1>14. ASSUME NEW j \in Requests, Waiting(j) \/ Running(j) \/ In(j, dropped),
                NEW i \in 1 .. Len(subscribers[j]), ~(j = h /\ i = u)
         PROVE  subscribers[j][i] # r /\ subscribers[j][i] \in Requests
    <2>1. ~IsJoiner(j)
      BY <1>0, <1>14, PlacedOwns
    <2>2. subscribers[j][i] \in Requests
      BY <1>0 DEF TypeOK
    <2> QED BY <1>0, <1>7, <1>8, <1>14, <2>1, <2>2, Distinct
  <1>15. TypeOK' /\ Control'
    <2>1. TypeOK'
      <3>1. /\ dropped' \in Seq(Requests) /\ told' \in Nat
            /\ terminals' \in [Requests -> Seq({"result", "error", "cancelled", "dropped"})]
        BY <1>10, <1>11
      <3> QED BY <1>0, <1>1, <3>1, SMTT(40) DEF TypeOK
    <2>2. Control'
      BY <1>0, <1>1, <1>11 DEF Control
    <2> QED BY <2>1, <2>2
  <1>16. JobsOnce'
    <2>1. \A x : In(x, dropped)' => In(x, dropped)
      BY <1>11 DEF In
    <2>2. Once(dropped)'
      BY <1>11 DEF Once
    <2>3. /\ \A x : In(x, queue_)' <=> In(x, queue_)
          /\ \A x : In(x, media_queue_)' <=> In(x, media_queue_)
          /\ Once(queue_)' <=> Once(queue_)
          /\ Once(media_queue_)' <=> Once(media_queue_)
      BY <1>1 DEF In, Once
    <2>4. reader' # "enqueue"
      BY <1>1
    <2> QED BY <1>0, <1>1, <1>12, <2>1, <2>2, <2>3, <2>4 DEF JobsOnce
  <1>17. Subscriptions'
    <2>1. \A x \in Requests : IsJoiner(x) =>
             ~Waiting(x)' /\ ~In(x, dropped)' /\ x \notin started'
      BY <1>0, <1>1, <1>11, <1>12 DEF Subscriptions, In
    <2> QED BY <1>0, <1>1, <1>11, <1>12, <2>1, SubscriptionsKept
  <1>18. Unsettled'
    <2>1. DroppedNeverStarts'
      BY <1>0, <1>1, <1>9, <1>10 DEF Unsettled, DroppedNeverStarts
    <2>2. ASSUME NEW j \in Requests, Waiting(j)' \/ Running(j)', NEW i \in 1 .. Len(subscribers'[j])
          PROVE  terminals'[subscribers'[j][i]] = <<>>
      <3>1. (Waiting(j) \/ Running(j)) /\ i \in 1 .. Len(subscribers[j])
        BY <1>1, <1>12, <2>2
      <3>2. terminals[subscribers[j][i]] = <<>>
        BY <1>0, <3>1 DEF Unsettled
      <3>3. j # h
        BY <1>0, <1>8, <3>1 DEF JobsOnce, Running, TypeOK
      <3> QED BY <1>1, <1>10, <1>14, <3>1, <3>2, <3>3
    <2>3. ASSUME NEW j \in Requests, NEW i \in Nat, Untold(j, i)'
          PROVE  terminals'[Told(j)'[i]] = <<>>
      <3>1. Untold(j, i) /\ ~(j = h /\ i = u)
        BY <1>13, <2>3
      <3>2. In(j, dropped) /\ i \in 1 .. Len(Told(j))
        BY <3>1 DEF Untold
      <3>3. i \in 1 .. Len(subscribers[j]) /\ Told(j)[i] = subscribers[j][i]
        BY <1>0, <3>2, ToldFacts
      <3>4. terminals[Told(j)[i]] = <<>>
        BY <1>0, <3>1 DEF Unsettled
      <3>5. subscribers[j][i] # r /\ subscribers[j][i] \in Requests
        BY <1>14, <3>1, <3>2, <3>3
      <3> QED BY <1>10, <1>12, <3>3, <3>4, <3>5
    <2>4. ASSUME NEW x \in Requests, In(x, finishing)'
          PROVE  In(x, subscribers[media_running_])' /\ terminals'[x] = <<>>
      <3>1. In(x, finishing) /\ finishing # <<>>
        BY <1>1, <2>4 DEF In
      <3>2. PICK m \in Requests : m = media_running_ /\ m \in started
        BY <1>0, <3>1 DEF Control, TypeOK, JobsOnce, Requests
      <3>3. In(x, subscribers[m]) /\ terminals[x] = <<>>
        BY <1>0, <3>1, <3>2 DEF Unsettled
      <3>4. PICK i \in 1 .. Len(subscribers[m]) : subscribers[m][i] = x
        BY <3>3 DEF In
      <3>5. m # h /\ ~IsJoiner(m)
        BY <1>0, <1>8, <3>2, PlacedOwns
      <3>6. x # r
        BY <1>0, <1>7, <1>8, <3>4, <3>5, Distinct
      <3> QED BY <1>1, <1>10, <3>2, <3>3, <3>6 DEF In
    <2>5. Once(finishing)'
      BY <1>0, <1>1 DEF Unsettled, Once
    <2>6. \A x \in Requests : Len(terminals'[x]) <= 1 /\ (x \notin accepted' => terminals'[x] = <<>>)
      BY <1>1, <1>10
    <2> QED BY <2>1, <2>2, <2>3, <2>4, <2>5, <2>6 DEF Unsettled
  <1>19. Covered'
    <2>1. ASSUME NEW x \in Requests, Owed(x), x # r PROVE Owed(x)'
      <3>1. ASSUME NEW j \in Requests, Waiting(j) \/ Running(j), In(x, subscribers[j])
            PROVE  Owed(x)'
        BY <1>1, <1>12, <3>1 DEF Owed, In
      <3>2. ASSUME NEW j \in Requests, NEW i \in Nat, Untold(j, i), Told(j)[i] = x
            PROVE  Owed(x)'
        <4>1. ~(j = h /\ i = u)
          BY <1>5, <2>1, <3>2
        <4>2. Untold(j, i)' /\ Told(j)'[i] = x
          BY <1>12, <1>13, <3>2, <4>1
        <4> QED BY <4>2 DEF Owed
      <3>3. ASSUME In(x, finishing) PROVE Owed(x)'
        BY <1>1, <3>3 DEF Owed, In
      <3> QED BY <2>1, <3>1, <3>2, <3>3 DEF Owed
    <2>2. accepted \subseteq Requests
      BY <1>0 DEF TypeOK
    <2>3. ASSUME NEW x \in accepted
          PROVE  Settled(x)' \/ Owed(x)' \/ (ending' = "eof" /\ IsJoiner(x)')
      <3>1. Settled(x) \/ Owed(x) \/ (ending = "eof" /\ IsJoiner(x))
        BY <1>0 DEF Covered
      <3> QED BY <1>1, <1>10, <1>12, <2>1, <2>2, <3>1
    <2> QED BY <1>1, <2>3 DEF Covered
  <1> QED BY <1>15, <1>16, <1>17, <1>18, <1>19 DEF IInv

\* A cancel command takes a job out of its queue.
LEMMA DropKeeps ==
    ASSUME IInv, NEW j \in Requests, reader \in {"idle", "cancel_media"},
           In(j, queue_) \/ In(j, media_queue_),
           dropped' = <<j>>, reader' = "emit_cancelled",
           target' \in Requests \cup {None},
           queue_' \in Seq(JobRequests), Once(queue_'),
           media_queue_' \in Seq(IndexRequests \cup MediaRequests), Once(media_queue_'),
           \A x : In(x, queue_') <=> In(x, queue_) /\ x # j,
           \A x : In(x, media_queue_') <=> In(x, media_queue_) /\ x # j,
           UNCHANGED <<running_, stopping_, executor, started, media_running_, media_stopping_,
                       subscribers, accepting_subscribers, media_executor, finishing,
                       media_outcome, cancel_requested, told, ending, accepted, terminals,
                       acknowledged>>
    PROVE  IInv'
  <1>0. TypeOK /\ Control /\ JobsOnce /\ Subscriptions /\ Unsettled /\ Covered
    BY DEF IInv
  <1>1. Waiting(j) /\ ending = "no" /\ told = 0 /\ reader # "enqueue" /\ dropped = <<>>
    BY <1>0 DEF Waiting, Control
  <1>2. /\ \A x : Waiting(x)' <=> Waiting(x) /\ x # j
        /\ \A x : Running(x)' <=> Running(x)
        /\ \A k : Told(k)' = subscribers[k]
        /\ \A x : IsJoiner(x)' <=> IsJoiner(x)
        /\ \A x : Settled(x)' <=> Settled(x)
        /\ \A x : In(x, dropped)' <=> x = j
        /\ \A k, i : ~Untold(k, i)
    <2>1. Len(<<j>>) = 1 /\ <<j>>[1] = j
      OBVIOUS
    <2>2. \A x : In(x, dropped)' <=> x = j
      BY <2>1 DEF In
    <2>3. \A x : Waiting(x)' <=> Waiting(x) /\ x # j
      BY <1>1 DEF Waiting, In
    <2>4. /\ \A x : Running(x)' <=> Running(x)
          /\ \A k : Told(k)' = subscribers[k]
          /\ \A x : IsJoiner(x)' <=> IsJoiner(x)
          /\ \A x : Settled(x)' <=> Settled(x)
      BY <1>1 DEF Running, Told, IsJoiner, Settled
    <2>5. \A k, i : ~Untold(k, i)
      BY <1>1 DEF Untold, In
    <2> QED BY <2>2, <2>3, <2>4, <2>5
  <1>3. \A k, i : Untold(k, i)' <=> k = j /\ i \in 1 .. Len(subscribers[k])
    <2>1. \A k, i : Untold(k, i)' <=> /\ k = j /\ i \in 1 .. Len(subscribers[k])
                                      /\ k = Head(dropped') => i > told'
      BY <1>2 DEF Untold
    <2>2. \A i \in 1 .. Len(subscribers[j]) : i > told'
      BY <1>0, <1>1 DEF TypeOK
    <2> QED BY <2>1, <2>2
  <1>4. TypeOK' /\ Control'
    <2>1. dropped' \in Seq(Requests) /\ Head(dropped') = j
      OBVIOUS
    <2>2. Len(Told(Head(dropped))') > 0
      <3>1. Told(Head(dropped))' = subscribers[j]
        BY <1>1, <2>1 DEF Told
      <3> QED BY <1>0, <3>1 DEF Subscriptions
    <2>3. TypeOK'
      BY <1>0, <2>1 DEF TypeOK
    <2>4. Control'
      BY <1>0, <1>1, <2>2 DEF Control
    <2> QED BY <2>3, <2>4
  <1>5. j \in accepted /\ j \notin started /\ ~IsJoiner(j)
    BY <1>0, <1>1, PlacedOwns DEF JobsOnce
  <1>6. JobsOnce'
    <2>1. Once(dropped)'
      <3>1. Len(dropped') = 1
        OBVIOUS
      <3> QED BY <3>1 DEF Once
    <2>2. Once(queue_)' /\ Once(media_queue_)'
      BY DEF Once
    <2>3. reader' # "enqueue"
      OBVIOUS
    <2>4. UNCHANGED <<started, accepted, running_, media_running_>>
      OBVIOUS
    <2> QED BY <1>0, <1>2, <1>5, <2>1, <2>2, <2>3, <2>4 DEF JobsOnce
  <1>7. Subscriptions'
    <2>1. \A x \in Requests : IsJoiner(x) =>
             ~Waiting(x)' /\ ~In(x, dropped)' /\ x \notin started'
      BY <1>0, <1>2, <1>5 DEF Subscriptions, In
    <2> QED BY <1>0, <1>2, <1>5, <2>1, SubscriptionsKept
  <1>8. Unsettled'
    <2>1. DroppedNeverStarts'
      BY <1>0 DEF Unsettled, DroppedNeverStarts, In
    <2>2. \A k \in Requests, i \in Nat : Untold(k, i)' => terminals'[Told(k)'[i]] = <<>>
      BY <1>0, <1>1, <1>2, <1>3 DEF Unsettled
    <2>3. \A k \in Requests : Waiting(k)' \/ Running(k)' =>
             \A i \in 1 .. Len(subscribers'[k]) : terminals'[subscribers'[k][i]] = <<>>
      BY <1>0, <1>2 DEF Unsettled
    <2>4. Once(finishing)' <=> Once(finishing)
      BY DEF Once
    <2>5. \A x \in Requests : In(x, finishing)' =>
             In(x, subscribers[media_running_])' /\ terminals'[x] = <<>>
      BY <1>0 DEF Unsettled, In
    <2>6. \A x \in Requests : Len(terminals'[x]) <= 1 /\ (x \notin accepted' => terminals'[x] = <<>>)
      BY <1>0 DEF Unsettled
    <2> QED BY <1>0, <2>1, <2>2, <2>3, <2>4, <2>5, <2>6 DEF Unsettled
  <1>9. Covered'
    <2>1. ASSUME NEW x, Owed(x) PROVE Owed(x)'
      <3>1. ASSUME NEW k \in Requests, Waiting(k) \/ Running(k), In(x, subscribers[k])
            PROVE  Owed(x)'
        <4>1. CASE k = j
          <5>1. PICK i \in 1 .. Len(subscribers[j]) : subscribers[j][i] = x
            BY <3>1, <4>1 DEF In
          <5>2. i \in Nat /\ Untold(j, i)' /\ Told(j)'[i] = x
            BY <1>2, <1>3, <5>1
          <5> QED BY <5>2 DEF Owed
        <4>2. CASE k # j
          BY <1>2, <3>1, <4>2 DEF Owed, In
        <4> QED BY <4>1, <4>2
      <3>2. ASSUME In(x, finishing) PROVE Owed(x)'
        BY <3>2 DEF Owed, In
      <3> QED BY <1>2, <2>1, <3>1, <3>2 DEF Owed
    <2> QED BY <1>0, <1>2, <2>1 DEF Covered
  <1> QED BY <1>4, <1>6, <1>7, <1>8, <1>9 DEF IInv

\* The cancel command flags a running job, or finds none.
LEMMA FlagKeeps ==
    ASSUME IInv, reader \in {"idle", "cancel_media"}, reader' \in {"idle", "cancel_media"},
           target' \in Requests \cup {None},
           cancel_requested' \in [Requests -> BOOLEAN],
           UNCHANGED <<queue_, running_, stopping_, executor, started, media_queue_, media_running_,
                       media_stopping_, subscribers, accepting_subscribers, media_executor,
                       finishing, media_outcome, dropped, told, ending, accepted, terminals,
                       acknowledged>>
    PROVE  IInv'
  <1>0. TypeOK /\ Control /\ JobsOnce /\ Subscriptions /\ Unsettled /\ Covered
    BY DEF IInv
  <1>1. TypeOK' /\ Control'
    <2>1. TypeOK'
      BY <1>0 DEF TypeOK
    <2>2. Control'
      BY <1>0 DEF Control, Told
    <2> QED BY <2>1, <2>2
  <1>2. \A j : Running(j)' <=> Running(j)
    BY DEF Running
  <1>3. JobsOnce' /\ Subscriptions' /\ Unsettled' /\ Covered'
    <2>1. (reader' = "enqueue" <=> reader = "enqueue") /\ reader # "enqueue"
      OBVIOUS
    <2> QED BY <1>0, <1>2, <2>1, NothingMoves
  <1> QED BY <1>1, <1>3 DEF IInv

\* A cancel command among the analyze and verify jobs.
LEMMA CancelKeeps ==
    ASSUME IInv, NEW j \in Requests, CancelJob(j)
    PROVE  IInv'
  <1>0. TypeOK /\ Control /\ JobsOnce
    BY DEF IInv
  <1>1. /\ reader = "idle"
        /\ UNCHANGED <<running_, stopping_, executor, started, media_queue_, media_running_,
                       media_stopping_, subscribers, accepting_subscribers, media_executor,
                       finishing, media_outcome, told, ending, accepted, terminals, acknowledged>>
    BY DEF CancelJob, media, events
  <1>2. CASE /\ cancel_requested' = [cancel_requested EXCEPT ![j] = TRUE]
             /\ UNCHANGED <<queue_, reader, target, dropped>>
    <2>1. cancel_requested' \in [Requests -> BOOLEAN] /\ target' \in Requests \cup {None}
      BY <1>0, <1>2 DEF TypeOK
    <2> QED BY <1>1, <1>2, <2>1, FlagKeeps
  <1>3. CASE /\ \E i \in 1 .. Len(queue_) : queue_[i] = j /\ queue_' = Unqueued(queue_, i)
             /\ dropped' = <<j>> /\ reader' = "emit_cancelled"
             /\ UNCHANGED <<cancel_requested, target>>
    <2>1. PICK i \in 1 .. Len(queue_) : queue_[i] = j /\ queue_' = Unqueued(queue_, i)
      BY <1>3
    <2>2. /\ queue_ \in Seq(JobRequests) /\ Once(queue_)
          /\ media_queue_ \in Seq(IndexRequests \cup MediaRequests) /\ Once(media_queue_)
          /\ target' \in Requests \cup {None}
      BY <1>0, <1>3 DEF TypeOK, JobsOnce
    <2>3. /\ Unqueued(queue_, i) \in Seq(JobRequests) /\ Once(Unqueued(queue_, i))
          /\ \A x : In(x, Unqueued(queue_, i)) <=> In(x, queue_) /\ x # queue_[i]
      BY <2>2, RemoveFacts
    <2>4. In(j, queue_) /\ j \in JobRequests
      BY <2>1, <2>2 DEF In
    <2>5. ~In(j, media_queue_)
      BY <2>2, <2>4, RequestsDistinct DEF In
    <2> QED BY <1>1, <1>3, <2>1, <2>2, <2>3, <2>4, <2>5, DropKeeps
  <1>4. CASE /\ reader' = "cancel_media" /\ target' = j
             /\ UNCHANGED <<cancel_requested, queue_, dropped>>
    <2>1. cancel_requested' \in [Requests -> BOOLEAN]
      BY <1>0, <1>4 DEF TypeOK
    <2> QED BY <1>1, <1>4, <2>1, FlagKeeps
  <1> QED BY <1>2, <1>3, <1>4 DEF CancelJob

\* A cancel command among the media jobs.
LEMMA CancelMediaKeeps ==
    ASSUME IInv, CancelMediaJob
    PROVE  IInv'
  <1>0. TypeOK /\ Control /\ JobsOnce
    BY DEF IInv
  <1>1. /\ reader = "cancel_media" /\ target' = None
        /\ UNCHANGED <<queue_, running_, stopping_, executor, started, media_running_,
                       media_stopping_, subscribers, accepting_subscribers, media_executor,
                       finishing, media_outcome, told, ending, accepted, terminals, acknowledged>>
    BY DEF CancelMediaJob, jobs, events
  <1>2. CASE /\ cancel_requested' = [cancel_requested EXCEPT ![target] = TRUE]
             /\ reader' = "idle" /\ UNCHANGED <<media_queue_, dropped>>
    <2>1. cancel_requested' \in [Requests -> BOOLEAN]
      BY <1>0, <1>2 DEF TypeOK
    <2> QED BY <1>1, <1>2, <2>1, FlagKeeps
  <1>3. CASE /\ \E i \in 1 .. Len(media_queue_) :
                   media_queue_[i] = target /\ media_queue_' = Unqueued(media_queue_, i)
             /\ dropped' = <<target>> /\ reader' = "emit_cancelled" /\ UNCHANGED cancel_requested
    <2>1. PICK i \in 1 .. Len(media_queue_) :
             media_queue_[i] = target /\ media_queue_' = Unqueued(media_queue_, i)
      BY <1>3
    <2>2. /\ queue_ \in Seq(JobRequests) /\ Once(queue_)
          /\ media_queue_ \in Seq(IndexRequests \cup MediaRequests) /\ Once(media_queue_)
      BY <1>0 DEF TypeOK, JobsOnce
    <2>3. PICK j \in IndexRequests \cup MediaRequests : j = target
      BY <2>1, <2>2
    <2>4. /\ Unqueued(media_queue_, i) \in Seq(IndexRequests \cup MediaRequests)
          /\ Once(Unqueued(media_queue_, i))
          /\ \A x : In(x, Unqueued(media_queue_, i)) <=> In(x, media_queue_) /\ x # media_queue_[i]
      BY <2>2, RemoveFacts
    <2>5. In(j, media_queue_) /\ j \in Requests
      BY <2>1, <2>2, <2>3 DEF In, Requests
    <2>6. ~In(j, queue_)
      BY <2>2, <2>3, RequestsDistinct DEF In
    <2> QED BY <1>1, <1>3, <2>1, <2>2, <2>3, <2>4, <2>5, <2>6, DropKeeps
  <1>4. CASE reader' = "idle" /\ UNCHANGED <<media_queue_, dropped, cancel_requested>>
    <2>1. cancel_requested' \in [Requests -> BOOLEAN]
      BY <1>0, <1>4 DEF TypeOK
    <2> QED BY <1>1, <1>4, <2>1, FlagKeeps
  <1> QED BY <1>2, <1>3, <1>4 DEF CancelMediaJob

\* At the end, what waits for the executor is dropped.
LEMMA StopKeeps ==
    ASSUME IInv, NEW reason \in {"shutdown", "eof"}, Stop(reason)
    PROVE  IInv'
  <1>0. TypeOK /\ Control /\ JobsOnce /\ Subscriptions /\ Unsettled /\ Covered
    BY DEF IInv
  <1>1. /\ reader = "idle" /\ reader' = "stop_media" /\ ending' = reason
        /\ stopping_' = TRUE /\ dropped' = queue_ /\ queue_' = <<>>
        /\ cancel_requested' = [j \in Requests |-> cancel_requested[j] \/ j = running_]
        /\ UNCHANGED <<running_, executor, started, media_queue_, media_running_, media_stopping_,
                       subscribers, accepting_subscribers, media_executor, finishing,
                       media_outcome, target, told, accepted, terminals, acknowledged>>
    BY DEF Stop, media, events
  <1>2. /\ ending = "no" /\ told = 0 /\ dropped = <<>> /\ ~acknowledged
        /\ queue_ \in Seq(JobRequests) /\ queue_ \in Seq(Requests) /\ Once(queue_)
    BY <1>0, <1>1 DEF Control, TypeOK, JobsOnce, Requests
  <1>3. \A j : In(j, queue_) => /\ j \in Requests /\ j \in JobRequests /\ ~In(j, media_queue_)
                                 /\ Len(subscribers[j]) = 1 /\ subscribers[j][1] = j
    <2>1. \A j : In(j, queue_) => j \in JobRequests /\ ~In(j, media_queue_)
      BY <1>0, <1>2, RequestsDistinct DEF In, TypeOK
    <2> QED BY <1>0, <2>1, JobAlone
  <1>4. /\ \A x : Waiting(x)' <=> Waiting(x) /\ ~In(x, queue_)
        /\ \A x : In(x, queue_) => Waiting(x)
        /\ \A x : Running(x)' <=> Running(x)
        /\ \A x : IsJoiner(x)' <=> IsJoiner(x)
        /\ \A x : Settled(x)' <=> Settled(x)
        /\ \A x : In(x, dropped)' <=> In(x, queue_)
        /\ \A j, i : ~Untold(j, i)
    <2>1. \A x : Waiting(x)' <=> Waiting(x) /\ ~In(x, queue_)
      <3>1. \A x : ~In(x, queue_)' /\ (In(x, media_queue_)' <=> In(x, media_queue_))
        BY <1>1 DEF In
      <3> QED BY <1>1, <1>3, <3>1 DEF Waiting
    <2>2. \A j, i : ~Untold(j, i)
      BY <1>2 DEF Untold, In
    <2>3. \A x : In(x, dropped)' <=> In(x, queue_)
      BY <1>1 DEF In
    <2>4. \A x : In(x, queue_) => Waiting(x)
      BY DEF Waiting
    <2> QED BY <1>1, <2>1, <2>2, <2>3, <2>4 DEF Running, IsJoiner, Settled
  <1>5. \A j : In(j, queue_) => Len(Told(j)') = 1 /\ Told(j)'[1] = j
    <2>1. \A j : Len(<<j>>) = 1 /\ <<j>>[1] = j
      OBVIOUS
    <2> QED BY <1>1, <1>3, <2>1 DEF Told
  <1>6. \A j, i : Untold(j, i)' <=> In(j, queue_) /\ i = 1
    <2>1. \A j, i : Untold(j, i)' <=> /\ In(j, queue_) /\ i \in 1 .. Len(Told(j)')
                                      /\ j = Head(queue_) => i > 0
      BY <1>1, <1>2, <1>4 DEF Untold
    <2>2. \A j : In(j, queue_) => \A i : i \in 1 .. Len(Told(j)') <=> i = 1
      <3>1. \A n : n = 1 => \A i : i \in 1 .. n <=> i = 1
        OBVIOUS
      <3> QED BY <1>5, <3>1
    <2> QED BY <2>1, <2>2
  <1>7. TypeOK' /\ Control'
    <2>1. cancel_requested' \in [Requests -> BOOLEAN] /\ queue_' \in Seq(JobRequests)
      BY <1>0, <1>1 DEF TypeOK
    <2>2. TypeOK'
      BY <1>0, <1>1, <1>2, <2>1 DEF TypeOK
    <2>3. queue_ # <<>> => In(Head(queue_), queue_)
      BY <1>2, TailFacts
    <2>4. Told(Head(dropped))' = (IF ending' = "eof" THEN <<Head(queue_)>>
                                  ELSE subscribers[Head(queue_)])
      BY <1>1 DEF Told
    <2>5. dropped' # <<>> => told' < Len(Told(Head(dropped))')
      <3>1. Len(<<Head(queue_)>>) = 1
        OBVIOUS
      <3> QED BY <1>1, <1>2, <1>3, <2>3, <2>4, <3>1
    <2>6. Control'
      BY <1>0, <1>1, <1>2, <2>5 DEF Control
    <2> QED BY <2>2, <2>6
  <1>8. JobsOnce'
    <2>1. Once(queue_)' /\ Once(dropped)' /\ (Once(media_queue_)' <=> Once(media_queue_))
      BY <1>1, <1>2 DEF Once
    <2>2. UNCHANGED <<started, accepted, running_, media_running_>> /\ reader' # "enqueue"
      BY <1>1
    <2> QED BY <1>0, <1>4, <2>1, <2>2 DEF JobsOnce
  <1>9. Subscriptions'
    <2>1. \A x \in Requests : IsJoiner(x) =>
             ~Waiting(x)' /\ ~In(x, dropped)' /\ x \notin started'
      BY <1>0, <1>1, <1>4 DEF Subscriptions, In
    <2> QED BY <1>0, <1>1, <1>4, <2>1, SubscriptionsKept
  <1>10. Unsettled'
    <2>1. DroppedNeverStarts'
      BY <1>0, <1>1 DEF Unsettled, DroppedNeverStarts, In
    <2>2. \A k \in Requests, i \in Nat : Untold(k, i)' => terminals'[Told(k)'[i]] = <<>>
      <3>1. \A k : In(k, queue_) => terminals[k] = <<>>
        BY <1>0, <1>3, <1>4 DEF Unsettled
      <3> QED BY <1>1, <1>5, <1>6, <3>1
    <2>3. \A k \in Requests : Waiting(k)' \/ Running(k)' =>
             \A i \in 1 .. Len(subscribers'[k]) : terminals'[subscribers'[k][i]] = <<>>
      BY <1>0, <1>1, <1>4 DEF Unsettled
    <2>4. Once(finishing)' <=> Once(finishing)
      BY <1>1 DEF Once
    <2>5. \A x \in Requests : In(x, finishing)' =>
             In(x, subscribers[media_running_])' /\ terminals'[x] = <<>>
      BY <1>0, <1>1 DEF Unsettled, In
    <2>6. \A x \in Requests : Len(terminals'[x]) <= 1 /\ (x \notin accepted' => terminals'[x] = <<>>)
      BY <1>0, <1>1 DEF Unsettled
    <2> QED BY <1>0, <2>1, <2>2, <2>3, <2>4, <2>5, <2>6 DEF Unsettled
  <1>11. Covered'
    <2>1. ASSUME NEW x, Owed(x) PROVE Owed(x)'
      <3>1. ASSUME NEW k \in Requests, Waiting(k) \/ Running(k), In(x, subscribers[k])
            PROVE  Owed(x)'
        <4>1. CASE In(k, queue_)
          <5>1. x = k
            BY <1>3, <3>1, <4>1 DEF In
          <5>2. Untold(k, 1)' /\ Told(k)'[1] = x
            BY <1>5, <1>6, <4>1, <5>1
          <5> QED BY <5>2 DEF Owed
        <4>2. CASE ~In(k, queue_)
          BY <1>1, <1>4, <3>1, <4>2 DEF Owed, In
        <4> QED BY <4>1, <4>2
      <3>2. ASSUME In(x, finishing) PROVE Owed(x)'
        BY <1>1, <3>2 DEF Owed, In
      <3> QED BY <1>4, <2>1, <3>1, <3>2 DEF Owed
    <2> QED BY <1>0, <1>1, <1>2, <1>4, <2>1 DEF Covered
  <1> QED BY <1>7, <1>8, <1>9, <1>10, <1>11 DEF IInv

\* What waits for the media executor is dropped too, and at the end of the commands the
\* requests that joined it are forgotten.
LEMMA StopMediaKeeps ==
    ASSUME IInv, StopMedia
    PROVE  IInv'
  <1>0. TypeOK /\ Control /\ JobsOnce /\ Subscriptions /\ Unsettled /\ Covered
    BY DEF IInv
  <1>1. /\ reader = "stop_media" /\ reader' = "emit_cancelled"
        /\ media_stopping_' = TRUE /\ dropped' = dropped \o media_queue_ /\ media_queue_' = <<>>
        /\ cancel_requested' = [j \in Requests |-> cancel_requested[j] \/ j = media_running_]
        /\ UNCHANGED <<queue_, running_, stopping_, executor, started, media_running_,
                       subscribers, accepting_subscribers, media_executor, finishing,
                       media_outcome, target, told, ending, accepted, terminals, acknowledged>>
    BY DEF StopMedia, jobs, events
  <1>2. /\ ending # "no" /\ told = 0 /\ queue_ = <<>> /\ ~acknowledged /\ dropped \in Seq(Requests)
        /\ media_queue_ \in Seq(Requests) /\ Once(media_queue_) /\ Once(dropped)
    BY <1>0, <1>1 DEF Control, TypeOK, JobsOnce, Requests
  <1>3. /\ \A x : Waiting(x) <=> In(x, media_queue_)
        /\ \A x : ~Waiting(x)'
        /\ \A x : In(x, media_queue_) => x \in Requests
    BY <1>1, <1>2 DEF Waiting, In
  <1>4. /\ dropped' \in Seq(Requests) /\ Once(dropped')
        /\ \A x : In(x, dropped') <=> In(x, dropped) \/ Waiting(x)
    <2>1. \A x \in Requests : ~(In(x, dropped) /\ In(x, media_queue_))
      BY <1>0, <1>3 DEF JobsOnce
    <2>2. /\ dropped \o media_queue_ \in Seq(Requests) /\ Once(dropped \o media_queue_)
          /\ \A x : In(x, dropped \o media_queue_) <=> In(x, dropped) \/ In(x, media_queue_)
      BY <1>2, <2>1, ConcatFacts
    <2> QED BY <1>1, <1>3, <2>2
  <1>5. /\ \A x : Running(x)' <=> Running(x)
        /\ \A x : Told(x)' = Told(x)
        /\ \A x : IsJoiner(x)' <=> IsJoiner(x)
        /\ \A x : Settled(x)' <=> Settled(x)
        /\ \A x : In(x, dropped)' <=> In(x, dropped) \/ Waiting(x)
    <2>1. \A x : In(x, dropped)' <=> In(x, dropped')
      BY DEF In
    <2> QED BY <1>1, <1>4, <2>1 DEF Running, Told, IsJoiner, Settled
  <1>6. \A j, i : Untold(j, i)' <=> Untold(j, i) \/ (Waiting(j) /\ i \in 1 .. Len(Told(j)))
    <2>1. \A j, i : Untold(j, i)' <=> /\ In(j, dropped) \/ Waiting(j)
                                      /\ i \in 1 .. Len(Told(j))
                                      /\ j = Head(dropped') => i > 0
      BY <1>1, <1>2, <1>5 DEF Untold
    <2>2. \A j, i : Untold(j, i) <=> /\ In(j, dropped) /\ i \in 1 .. Len(Told(j))
                                     /\ j = Head(dropped) => i > 0
      BY <1>2 DEF Untold
    <2>3. \A j : \A i \in 1 .. Len(Told(j)) : i > 0
      OBVIOUS
    <2> QED BY <2>1, <2>2, <2>3
  <1>7. TypeOK' /\ Control'
    <2>1. cancel_requested' \in [Requests -> BOOLEAN]
          /\ media_queue_' \in Seq(IndexRequests \cup MediaRequests)
      BY <1>0, <1>1 DEF TypeOK
    <2>2. TypeOK'
      BY <1>0, <1>1, <1>4, <2>1 DEF TypeOK
    <2>3. dropped' # <<>> => told' < Len(Told(Head(dropped))')
      <3>1. Told(Head(dropped))' = Told(Head(dropped'))
        BY <1>1 DEF Told
      <3>2. dropped' # <<>> => Head(dropped') \in Requests
        BY <1>4, TailFacts
      <3> QED BY <1>0, <1>1, <1>2, <3>1, <3>2, ToldFacts
    <2>4. Control'
      BY <1>0, <1>1, <1>2, <2>3 DEF Control
    <2> QED BY <2>2, <2>4
  <1>8. JobsOnce'
    <2>1. (Once(queue_)' <=> Once(queue_)) /\ Once(dropped)' /\ Once(media_queue_)'
      BY <1>1, <1>4 DEF Once
    <2>2. UNCHANGED <<started, accepted, running_, media_running_>> /\ reader' # "enqueue"
      BY <1>1
    <2> QED BY <1>0, <1>3, <1>5, <2>1, <2>2 DEF JobsOnce
  <1>9. Subscriptions'
    <2>1. \A x \in Requests : IsJoiner(x) =>
             ~Waiting(x)' /\ ~In(x, dropped)' /\ x \notin started'
      BY <1>0, <1>1, <1>3, <1>5 DEF Subscriptions, In
    <2> QED BY <1>0, <1>1, <1>3, <1>5, <2>1, SubscriptionsKept
  <1>10. Unsettled'
    <2>1. DroppedNeverStarts'
      BY <1>0, <1>1 DEF Unsettled, DroppedNeverStarts, In
    <2>2. ASSUME NEW k \in Requests, NEW i \in Nat, Untold(k, i)'
          PROVE  terminals'[Told(k)'[i]] = <<>>
      <3>1. CASE Untold(k, i)
        BY <1>0, <1>1, <1>5, <3>1 DEF Unsettled
      <3>2. CASE Waiting(k) /\ i \in 1 .. Len(Told(k))
        <4>1. i \in 1 .. Len(subscribers[k]) /\ Told(k)[i] = subscribers[k][i]
          BY <1>0, <3>2, ToldFacts
        <4> QED BY <1>0, <1>1, <1>5, <3>2, <4>1 DEF Unsettled
      <3> QED BY <1>6, <2>2, <3>1, <3>2
    <2>3. \A k \in Requests : Waiting(k)' \/ Running(k)' =>
             \A i \in 1 .. Len(subscribers'[k]) : terminals'[subscribers'[k][i]] = <<>>
      BY <1>0, <1>1, <1>3, <1>5 DEF Unsettled
    <2>4. Once(finishing)' <=> Once(finishing)
      BY <1>1 DEF Once
    <2>5. \A x \in Requests : In(x, finishing)' =>
             In(x, subscribers[media_running_])' /\ terminals'[x] = <<>>
      BY <1>0, <1>1 DEF Unsettled, In
    <2>6. \A x \in Requests : Len(terminals'[x]) <= 1 /\ (x \notin accepted' => terminals'[x] = <<>>)
      BY <1>0, <1>1 DEF Unsettled
    <2> QED BY <1>0, <2>1, <2>2, <2>3, <2>4, <2>5, <2>6 DEF Unsettled
  <1>11. Covered'
    <2>1. ASSUME NEW x, Owed(x) PROVE Owed(x)' \/ (ending = "eof" /\ IsJoiner(x))
      <3>1. ASSUME NEW k \in Requests, Waiting(k), In(x, subscribers[k])
            PROVE  Owed(x)' \/ (ending = "eof" /\ IsJoiner(x))
        <4>1. PICK i \in 1 .. Len(subscribers[k]) : subscribers[k][i] = x
          BY <3>1 DEF In
        <4>2. CASE ending # "eof"
          <5>1. Told(k)' = subscribers[k] /\ Told(k) = subscribers[k]
            BY <1>5, <4>2 DEF Told
          <5>2. i \in Nat /\ Untold(k, i)' /\ Told(k)'[i] = x
            BY <1>6, <3>1, <4>1, <5>1
          <5> QED BY <5>2 DEF Owed
        <4>3. CASE ending = "eof" /\ i = 1
          <5>1. x = k
            BY <1>0, <4>1, <4>3 DEF Subscriptions
          <5>2. Told(k) = <<k>> /\ Len(<<k>>) = 1 /\ <<k>>[1] = k
            BY <4>3 DEF Told
          <5>3. Untold(k, 1)' /\ Told(k)'[1] = x
            BY <1>5, <1>6, <3>1, <5>1, <5>2
          <5> QED BY <5>3 DEF Owed
        <4>4. CASE ending = "eof" /\ i # 1
          <5>1. i \in 2 .. Len(subscribers[k])
            BY <4>1, <4>4
          <5> QED BY <4>1, <4>4, <5>1 DEF IsJoiner
        <4> QED BY <4>2, <4>3, <4>4
      <3>2. ASSUME NEW k \in Requests, Running(k), In(x, subscribers[k])
            PROVE  Owed(x)'
        BY <1>1, <1>5, <3>2 DEF Owed, In
      <3>3. ASSUME NEW k \in Requests, NEW i \in Nat, Untold(k, i), Told(k)[i] = x
            PROVE  Owed(x)'
        BY <1>5, <1>6, <3>3 DEF Owed
      <3>4. ASSUME In(x, finishing) PROVE Owed(x)'
        BY <1>1, <3>4 DEF Owed, In
      <3> QED BY <2>1, <3>1, <3>2, <3>3, <3>4 DEF Owed
    <2> QED BY <1>0, <1>1, <1>5, <2>1 DEF Covered
  <1> QED BY <1>7, <1>8, <1>9, <1>10, <1>11 DEF IInv

-----------------------------------------------------------------------------
(* The theorem.                                                            *)

\* Nothing is accepted at first.
LEMMA InitInv == Init => IInv
  <1> SUFFICES ASSUME Init PROVE IInv
    OBVIOUS
  <1>1. /\ \A r \in Requests : subscribers[r] = <<r>>
        /\ \A r : Len(<<r>>) = 1 /\ <<r>>[1] = r
        /\ \A r \in Requests : <<r>> \in Seq(Requests)
    BY DEF Init
  <1>2. /\ queue_ = <<>> /\ media_queue_ = <<>> /\ dropped = <<>> /\ finishing = <<>>
        /\ \A x : ~In(x, <<>>)
        /\ Once(<<>>)
    BY DEF Init, In, Once
  <1>3. \A x : ~IsJoiner(x) /\ ~Waiting(x) /\ ~Running(x) /\ \A i : ~Untold(x, i)
    BY <1>1, <1>2 DEF IsJoiner, Waiting, Running, Untold, Init
  <1>4. TypeOK
    <2>1. subscribers \in [Requests -> Seq(Requests)]
      BY <1>1 DEF Init
    <2>2. terminals \in [Requests -> Seq({"result", "error", "cancelled", "dropped"})]
      BY DEF Init
    <2>3. /\ queue_ \in Seq(JobRequests) /\ media_queue_ \in Seq(IndexRequests \cup MediaRequests)
          /\ finishing \in Seq(Requests) /\ dropped \in Seq(Requests) /\ told \in Nat
      BY DEF Init
    <2>4. /\ accepting_subscribers \in [Requests -> BOOLEAN]
          /\ cancel_requested \in [Requests -> BOOLEAN]
          /\ stopping_ \in BOOLEAN /\ media_stopping_ \in BOOLEAN /\ acknowledged \in BOOLEAN
      BY DEF Init
    <2> HIDE DEF Requests
    <2> QED BY <2>1, <2>2, <2>3, <2>4 DEF Init, TypeOK
  <1>5. Control
    BY DEF Init, Control
  <1>6. JobsOnce
    BY <1>2, <1>3 DEF Init, JobsOnce
  <1>7. Subscriptions
    <2>1. \A j \in Requests : Len(subscribers[j]) = 1 /\ subscribers[j][1] = j
      BY <1>1
    <2>2. \A j \in Requests : \A i \in 2 .. Len(subscribers[j]) : FALSE
      <3>1. \A n : n = 1 => \A i \in 2 .. n : FALSE
        OBVIOUS
      <3> QED BY <2>1, <3>1
    <2> QED BY <1>3, <2>1, <2>2 DEF Subscriptions
  <1>8. Unsettled
    <2>1. \A r \in Requests : terminals[r] = <<>>
      BY DEF Init
    <2>2. DroppedNeverStarts
      BY <1>2, <2>1 DEF DroppedNeverStarts
    <2>3. Len(<<>>) = 0
      OBVIOUS
    <2>4. \A r \in Requests : Len(terminals[r]) <= 1
      BY <2>1, <2>3
    <2> QED BY <1>2, <1>3, <2>1, <2>2, <2>4 DEF Unsettled
  <1>9. Covered
    BY DEF Init, Covered
  <1> QED BY <1>4, <1>5, <1>6, <1>7, <1>8, <1>9 DEF IInv

\* Every step of every thread preserves the invariant.
LEMMA NextInv == IInv /\ [Next]_vars => IInv'
  <1> SUFFICES ASSUME IInv, [Next]_vars PROVE IInv'
    OBVIOUS
  <1>1. ASSUME NEW r \in Requests, AcceptJob(r) \/ JoinIndexJob(r) \/ CancelJob(r) PROVE IInv'
    BY <1>1, AcceptKeeps, JoinKeeps, CancelKeeps
  <1>2. CASE Stop("shutdown") \/ Stop("eof")
    BY <1>2, StopKeeps
  <1>3. CASE ReaderContinues
    BY <1>3, EnqueueKeeps, CancelMediaKeeps, NoneDroppedKeeps, EmitCancelledKeeps, StopMediaKeeps,
       ResetKeeps DEF ReaderContinues
  <1>4. CASE Executor
    BY <1>4, StartKeeps, FinishKeeps, ResetKeeps DEF Executor
  <1>5. CASE MediaExecutor
    BY <1>5, StartKeeps, FinishMediaKeeps, EmitMediaTerminalKeeps, ResetKeeps DEF MediaExecutor
  <1>6. CASE UNCHANGED vars
    <2>1. UNCHANGED <<queue_, running_, stopping_, executor, started, media_queue_, media_running_,
                      media_stopping_, subscribers, accepting_subscribers, media_executor, finishing,
                      media_outcome, cancel_requested, reader, target, dropped, told, ending,
                      accepted, terminals, acknowledged>>
      BY <1>6 DEF vars, jobs, media, command, dropping, events
    <2>2. TypeOK /\ Control /\ JobsOnce /\ Subscriptions /\ Unsettled /\ Covered
      BY DEF IInv
    <2>3. TypeOK' /\ Control'
      <3>1. TypeOK'
        BY <2>1, <2>2 DEF TypeOK
      <3>2. Control'
        BY <2>1, <2>2 DEF Control, Told
      <3> QED BY <3>1, <3>2
    <2>4. \A j : Running(j)' <=> Running(j)
      BY <2>1 DEF Running
    <2>5. JobsOnce' /\ Subscriptions' /\ Unsettled' /\ Covered'
      <3>1. (reader' = "enqueue" <=> reader = "enqueue") /\ (reader = "enqueue" => target' = target)
        BY <2>1
      <3> QED BY <2>1, <2>2, <2>4, <3>1, NothingMoves
    <2> QED BY <2>3, <2>5 DEF IInv
  <1> QED BY <1>1, <1>2, <1>3, <1>4, <1>5, <1>6 DEF Next

\* What the invariant says when the three threads have come to their ends.
LEMMA InvImplies == IInv => SettlementInv
  <1> SUFFICES ASSUME IInv PROVE SettlementInv
    OBVIOUS
  <1>0. TypeOK /\ Control /\ JobsOnce /\ Subscriptions /\ Unsettled /\ Covered
    BY DEF IInv
  <1>1. SettledOnce
    <2>1. ASSUME NEW r \in Requests, terminals[r] # <<>> PROVE r \in accepted /\ Settled(r)
      <3>1. r \in accepted /\ Len(terminals[r]) <= 1
        BY <1>0, <2>1 DEF Unsettled
      <3>2. terminals[r] \in Seq({"result", "error", "cancelled", "dropped"})
        BY <1>0 DEF TypeOK
      <3>3. Len(terminals[r]) # 0 /\ Len(terminals[r]) \in Nat
        BY <2>1, <3>2
      <3>4. Len(terminals[r]) = 1
        <4>1. \A n \in Nat : n # 0 /\ n <= 1 => n = 1
          OBVIOUS
        <4> QED BY <3>1, <3>3, <4>1
      <3> QED BY <3>1, <3>4 DEF Settled
    <2> QED BY <2>1 DEF SettledOnce
  <1>2. ASSUME reader = "closed" PROVE \A r : ~Owed(r)
    <2>1. /\ queue_ = <<>> /\ media_queue_ = <<>> /\ dropped = <<>> /\ finishing = <<>>
          /\ executor = "exited" /\ media_executor = "exited"
      BY <1>0, <1>2 DEF Control
    <2>2. \A j, i : ~Waiting(j) /\ ~Running(j) /\ ~Untold(j, i) /\ ~In(j, finishing)
      BY <1>2, <2>1 DEF Waiting, Running, Untold, In
    <2> QED BY <2>2 DEF Owed
  <1>3. ShutdownSettlesAll
    BY <1>0, <1>2 DEF Control, Covered, ShutdownSettlesAll
  <1>4. ExitSettlesOwners
    <2>1. ASSUME NEW r \in accepted, r \notin Joined PROVE ~IsJoiner(r)
      <3>1. SUFFICES ASSUME NEW k \in Requests, NEW i \in 2 .. Len(subscribers[k]),
                            subscribers[k][i] = r
                     PROVE  FALSE
        BY DEF IsJoiner
      <3>2. In(r, subscribers[k]) /\ IsJoiner(r) /\ r \in Requests
        BY <1>0, <3>1 DEF In, IsJoiner, TypeOK
      <3>3. k = r
        BY <2>1, <3>2 DEF Joined
      <3>4. Len(subscribers[r]) = 1
        BY <1>0, <3>2 DEF Subscriptions
      <3> QED BY <3>1, <3>3, <3>4
    <2> QED BY <1>0, <1>2, <2>1 DEF Covered, ExitSettlesOwners
  <1> QED BY <1>0, <1>1, <1>3, <1>4 DEF SettlementInv, Unsettled

\* However submissions, cancellations, joining subscribers, the two executors and the end
\* of the session interleave, for any number of requests: a request is settled at most once
\* and only after `accepted`; a job reported as dropped never runs; at the shutdown
\* acknowledgement every accepted request is settled, and when the process exits every
\* request that owns its job is.
THEOREM SettlementHolds == Spec => []SettlementInv
  <1>1. Init => IInv
    BY InitInv
  <1>2. IInv /\ [Next]_vars => IInv'
    BY NextInv
  <1>3. IInv => SettlementInv
    BY InvImplies
  <1> QED BY <1>1, <1>2, <1>3, PTL DEF Spec

\* Once the acknowledgement of a shutdown is out nobody is left to write: the reader has
\* closed the session after both executors returned.
LEMMA NothingFollows == IInv /\ [Next]_vars => [acknowledged => UNCHANGED events]_vars
  <1> SUFFICES ASSUME IInv, Next, acknowledged PROVE UNCHANGED events
    OBVIOUS
  <1>0. TypeOK /\ Control
    BY DEF IInv
  <1>1. reader = "closed" /\ executor = "exited" /\ media_executor = "exited"
    BY <1>0 DEF Control
  <1>2. ~Executor
    BY <1>1 DEF Executor, StartJob, FinishJob, ResetRunning, ExecutorReturns
  <1>3. ~MediaExecutor
    BY <1>1 DEF MediaExecutor, StartMediaJob, FinishMediaJob, EmitMediaTerminal,
       ResetMediaRunning, MediaExecutorReturns
  <1>4. ~ReaderContinues
    BY <1>1 DEF ReaderContinues, Enqueue, CancelMediaJob, EmitCancelled, StopMedia, JoinExecutors
  <1>5. ~(Stop("shutdown") \/ Stop("eof"))
    BY <1>1 DEF Stop
  <1>6. \A r \in Requests : ~(AcceptJob(r) \/ JoinIndexJob(r) \/ CancelJob(r))
    BY <1>1 DEF AcceptJob, JoinIndexJob, CancelJob
  <1> QED BY <1>2, <1>3, <1>4, <1>5, <1>6 DEF Next

\* The shutdown acknowledgement is the last event: no `accepted` and no terminal event of
\* any thread follows it.
THEOREM ShutdownIsLastHolds == Spec => ShutdownIsLast
  <1>1. Init => IInv
    BY InitInv
  <1>2. IInv /\ [Next]_vars => IInv'
    BY NextInv
  <1>3. IInv /\ [Next]_vars => [acknowledged => UNCHANGED events]_vars
    BY NothingFollows
  <1> QED BY <1>1, <1>2, <1>3, PTL DEF Spec, ShutdownIsLast

-----------------------------------------------------------------------------
(***************************************************************************)
(* The CUDA engine (CudaEngine), for any number of callers, slots, frames,   *)
(* batches and sizes, any probe and any budget of the shared frames.  It is  *)
(* a model of its own: the theorems are about CudaSpec and use nothing of    *)
(* WorkerSession's.                                                        *)
(*                                                                         *)
(* What a successful call has read was put into its slot by calls before it, *)
(* some of which failed.  CudaIInv therefore says of every slot, whoever     *)
(* used it last, that what it marks as ready is there; of a call that runs,  *)
(* that its slot has its plans and room for its frame; and of every shared   *)
(* frame that it is what its identity names, and stays while a call has it.  *)
(***************************************************************************)
Content == Frames \cup {Absent, Garbage}
CudaPlan == Batches \cup {Absent, Garbage}
Identities == [data : Addresses \cup {Device}, bytes : Nat, probe : {Probe[f] : f \in Frames}]

CudaCallType == [pc : {"idle", "acquire", "prepare", "run", "release"},
                 address : Addresses \cup {Device, Absent}, frame : Frames \cup {Absent},
                 batch : Batches \cup {Absent}, slot : Nat \cup {Absent}, plan_cache_hit : BOOLEAN,
                 shared_source : [identity : Identities \cup {Absent}, source : Content,
                                  transposed : Content],
                 read : [source : Content, transposed : Content, plan : CudaPlan],
                 outcome : {Absent, "ok", "error", "cancelled"}]
CudaSlotType == [busy : BOOLEAN, plan_ready : BOOLEAN, identity : Batches \cup {Absent},
                 pinned_plan : CudaPlan, device_plan : CudaPlan, source_ready : BOOLEAN,
                 source_identity : Identities \cup {Absent}, pinned_bytes : Nat,
                 device_source : Content, device_bytes : Nat, transposed_source_ready : BOOLEAN,
                 transposed : Content, transposed_bytes : Nat, outgrown : BOOLEAN]
EntryType == [identity : Identities, source : Frames, transposed : Frames \cup {Absent},
              retained_bytes : Nat, last_use : Nat]

CudaTypes == /\ call \in [Callers -> CudaCallType]
             /\ Slots \subseteq Nat /\ slots \in [Slots -> CudaSlotType]
             /\ input_cache \subseteq EntryType /\ input_cache_clock \in Nat
             /\ input_cache_budget \in Nat
             /\ stop \in BOOLEAN /\ calls \in 0 .. MaxCalls /\ failures \in 0 .. MaxFailures

\* Identity, UsesSharedSource and NeedsTransposed of a call's record.
Named(k) == [data |-> k.address, bytes |-> Bytes[k.frame], probe |-> Probe[k.frame]]
Horizontally(k) == k.batch \in Horizontal
Sharing(k) == /\ k.address # Device
              /\ Bytes[k.frame] * (IF Horizontally(k) THEN 2 ELSE 1) <= input_cache_budget

\* A frame that may stand for the call's, with the transposed frame if that is needed.
Stands(k, source, transposed) ==
    /\ source \in Frames /\ Probe[source] = Probe[k.frame]
    /\ Horizontally(k) => transposed = source

CudaCallShape(k) ==
    /\ k.pc = "idle" => k = IdleCall
    /\ k.pc # "idle" => /\ k.address \in Addresses \cup {Device}
                        /\ k.frame \in Frames /\ k.batch \in Batches
    /\ k.slot # Absent <=> k.pc \in {"prepare", "run", "release"}
    /\ k.outcome # Absent <=> k.pc = "release"
    /\ k.shared_source # NoSource =>
          /\ k.pc \in {"run", "release"} /\ k.address # Device
          /\ k.shared_source.identity = Named(k)
          /\ Stands(k, k.shared_source.source, k.shared_source.transposed)

\* What is marked ready is there.
CudaSlotShape(slot) ==
    /\ slot.plan_ready => /\ slot.device_plan = slot.identity
                          /\ slot.pinned_plan = slot.identity
    /\ slot.source_ready /\ ~slot.outgrown =>
          /\ slot.device_source \in Frames
          /\ Probe[slot.device_source] = slot.source_identity.probe
          /\ slot.transposed_source_ready => slot.transposed = slot.device_source

\* What the call that owns a slot relies on.
CudaOwnerShape(k, slot) ==
    /\ slot.busy
    /\ k.pc = "run" =>
          /\ slot.identity = k.batch /\ slot.pinned_plan = k.batch
          /\ k.plan_cache_hit => slot.device_plan = k.batch
          /\ ~Sharing(k) =>
                /\ slot.device_bytes >= Bytes[k.frame]
                /\ k.address # Device => slot.pinned_bytes >= Bytes[k.frame]
                /\ Horizontally(k) => slot.transposed_bytes >= Bytes[k.frame]
    /\ k.outcome = "ok" =>
          /\ k.read.plan = k.batch
          /\ \/ k.shared_source = NoSource /\ slot.outgrown
             \/ /\ Stands(k, k.read.source, k.read.transposed)
                /\ k.address = Device => k.read.source = k.frame

CudaCallsInv == \A c \in Callers : CudaCallShape(call[c])
CudaSlotsInv == \A s \in Slots : CudaSlotShape(slots[s])
CudaOwnersInv ==
    /\ \A c \in Callers : call[c].slot # Absent =>
          call[c].slot \in Slots /\ CudaOwnerShape(call[c], slots[call[c].slot])
    /\ \A c, d \in Callers : call[c].slot # Absent /\ call[c].slot = call[d].slot => c = d
    /\ \A s \in Slots : slots[s].busy => \E c \in Callers : call[c].slot = s

\* A shared frame is its identity's, and one that is in use is not evicted.
CacheInv ==
    /\ \A e \in input_cache : /\ Probe[e.source] = e.identity.probe
                              /\ e.transposed \in {Absent, e.source}
    /\ \A e, f \in input_cache : e.identity = f.identity => e = f
    /\ \A c \in Callers : call[c].shared_source # NoSource =>
          \E e \in input_cache : e.identity = call[c].shared_source.identity

CudaIInv == CudaTypes /\ CudaCallsInv /\ CudaSlotsInv /\ CudaOwnersInv /\ CacheInv

-----------------------------------------------------------------------------
(* What a step leaves alone.                                               *)

\* The owner of a slot goes on with it.
LEMMA CudaOwnStep ==
    ASSUME CudaIInv, NEW c \in Callers, call[c].slot # Absent, NEW k \in CudaCallType,
           NEW r \in CudaSlotType,
           call' = [call EXCEPT ![c] = k], slots' = [slots EXCEPT ![call[c].slot] = r],
           k.slot = call[c].slot, input_cache_budget' = input_cache_budget,
           CudaCallShape(k), CudaSlotShape(r), CudaOwnerShape(k, r)
    PROVE  /\ call' \in [Callers -> CudaCallType]
           /\ slots' \in [Slots -> CudaSlotType] /\ Slots' = Slots
           /\ CudaCallsInv' /\ CudaSlotsInv' /\ CudaOwnersInv'
<1>1. /\ call \in [Callers -> CudaCallType] /\ slots \in [Slots -> CudaSlotType]
      /\ call[c].slot \in Slots
  BY DEF CudaIInv, CudaTypes, CudaOwnersInv
<1>2. /\ call' \in [Callers -> CudaCallType] /\ call'[c] = k
      /\ \A d \in Callers : d # c => call'[d] = call[d]
  BY <1>1
<1>3. /\ slots' \in [Slots -> CudaSlotType] /\ Slots' = Slots
      /\ slots'[call[c].slot] = r
      /\ \A s \in Slots : s # call[c].slot => slots'[s] = slots[s]
  BY <1>1 DEF Slots
<1>4. CudaCallsInv'
  BY <1>2 DEF CudaIInv, CudaCallsInv, CudaCallShape
<1>5. CudaSlotsInv'
  <2> SUFFICES ASSUME NEW s \in Slots
               PROVE  CudaSlotShape(slots'[s])
    BY <1>3 DEF CudaSlotsInv, CudaSlotShape
  <2> QED
    BY <1>3 DEF CudaIInv, CudaSlotsInv
<1>6. CudaOwnersInv'
  <2>1. ASSUME NEW d \in Callers, call'[d].slot # Absent
        PROVE  call'[d].slot \in Slots /\ CudaOwnerShape(call'[d], slots'[call'[d].slot])
    <3>1. CASE d = c
      BY <1>1, <1>2, <1>3, <3>1
    <3>2. CASE d # c
      <4>1. /\ call'[d] = call[d] /\ call[d].slot \in Slots /\ call[d].slot # call[c].slot
            /\ CudaOwnerShape(call[d], slots[call[d].slot])
        BY <1>2, <2>1, <3>2 DEF CudaIInv, CudaOwnersInv
      <4> QED
        BY <1>3, <4>1
    <3> QED
      BY <3>1, <3>2
  <2>2. \A d, e \in Callers : call'[d].slot # Absent /\ call'[d].slot = call'[e].slot => d = e
    BY <1>2 DEF CudaIInv, CudaOwnersInv
  <2>3. \A s \in Slots : slots'[s].busy => \E d \in Callers : call'[d].slot = s
    <3> SUFFICES ASSUME NEW s \in Slots, slots'[s].busy
                 PROVE  \E d \in Callers : call'[d].slot = s
      OBVIOUS
    <3>1. CASE s = call[c].slot
      BY <1>2, <3>1
    <3>2. CASE s # call[c].slot
      BY <1>2, <1>3, <3>2 DEF CudaIInv, CudaOwnersInv
    <3> QED
      BY <3>1, <3>2
  <2>4. ASSUME NEW d \in Callers
        PROVE  CudaOwnerShape(call'[d], slots'[call'[d].slot])
                   <=> CudaOwnerShape(call[d], slots[call[d].slot])'
    BY DEF CudaOwnerShape, Sharing
  <2> QED
    BY <1>3, <2>1, <2>2, <2>3, <2>4 DEF CudaOwnersInv
<1> QED
  BY <1>2, <1>3, <1>4, <1>5, <1>6

\* The shared frames are left alone, and no call takes one.
LEMMA CacheKeeps ==
    ASSUME CudaIInv, UNCHANGED input_cache,
           \A d \in Callers : call'[d].shared_source \in {NoSource, call[d].shared_source}
    PROVE  CacheInv'
  BY DEF CudaIInv, CacheInv, NoSource

\* A non-empty set of naturals has a least element, so Min is defined on it.
LEMMA LeastNat ==
    ASSUME NEW S, S \subseteq Nat, S # {}
    PROVE  \E x \in S : \A y \in S : x <= y
<1>1. PICK x \in S : \A y \in S : ~ (<<y, x>> \in OpToRel(<, Nat))
  BY NatLessThanWellFounded, WFMin
<1>2. \A y \in S : ~(y < x)
  BY <1>1 DEF OpToRel
<1> QED
  BY <1>2

-----------------------------------------------------------------------------
(* The shared frames.                                                      *)

LEMMA BytesAre ==
    ASSUME NEW x \in Frames \cup Batches
    PROVE  Bytes[x] \in Nat /\ Bytes[x] > 0
  BY EngineBoundsOK

\* What the call's place says of its record.
LEMMA CallFacts ==
    ASSUME CudaIInv, NEW c \in Callers, ~At(c, "idle")
    PROVE  /\ call[c] \in CudaCallType /\ CudaCallShape(call[c])
           /\ call[c].address \in Addresses \cup {Device}
           /\ call[c].frame \in Frames /\ call[c].batch \in Batches
           /\ Identity(c) = Named(call[c]) /\ Identity(c) \in Identities
           /\ Identity(c).probe = Probe[call[c].frame]
           /\ UsesSharedSource(c) <=> Sharing(call[c])
           /\ NeedsTransposed(c) <=> Horizontally(call[c])
           /\ Bytes[call[c].frame] \in Nat /\ Bytes[call[c].frame] > 0
           /\ SharedBytes(c) \in Nat
<1>1. /\ call[c] \in CudaCallType /\ CudaCallShape(call[c])
      /\ call[c].address \in Addresses \cup {Device}
      /\ call[c].frame \in Frames /\ call[c].batch \in Batches
  BY DEF CudaIInv, CudaTypes, CudaCallsInv, CudaCallShape, At
<1>2. Bytes[call[c].frame] \in Nat /\ Bytes[call[c].frame] > 0
  BY <1>1, BytesAre
<1>3. Identity(c) = Named(call[c]) /\ Identity(c).probe = Probe[call[c].frame]
  BY DEF Identity, Named
<1>4. Identity(c) \in Identities
  BY <1>1, <1>2 DEF Identity, Identities
<1>5. SharedBytes(c) \in Nat
  BY <1>2 DEF SharedBytes
<1>6. UsesSharedSource(c) <=> Sharing(call[c])
  BY DEF UsesSharedSource, Sharing, OnDevice, SharedBytes, NeedsTransposed,
         Horizontally
<1>7. NeedsTransposed(c) <=> Horizontally(call[c])
  BY DEF NeedsTransposed, Horizontally
<1> QED
  BY <1>1, <1>2, <1>3, <1>4, <1>5, <1>6, <1>7

\* What keeps the shared frames right: `more` comes in, used by those who use `less`.
LEMMA EntriesKept ==
    ASSUME CudaIInv, NEW kept, NEW gone, gone \subseteq Evictable(kept)
    PROVE  /\ input_cache \ gone \subseteq EntryType
           /\ \A d \in Callers : call[d].shared_source # NoSource =>
                 \E e \in input_cache \ gone : e.identity = call[d].shared_source.identity
  BY DEF CudaIInv, CudaTypes, CacheInv, Evictable, Held

LEMMA EntryUpdated ==
    ASSUME NEW entry \in EntryType, NEW use \in Nat, NEW bytes \in Nat,
           NEW transposed \in Frames \cup {Absent}
    PROVE  [entry EXCEPT !.last_use = use, !.retained_bytes = bytes, !.transposed = transposed]
               \in EntryType
  BY DEF EntryType

\* The way a call finds its frame or has it uploaded, or fails to.
LEMMA SharedFacts ==
    ASSUME CudaIInv, NEW c \in Callers, At(c, "prepare"), NEW done \in BOOLEAN,
           NEW shared \in SharedSource(c, done)
    PROVE  /\ shared.entries \subseteq EntryType /\ shared.clock \in Nat
           /\ \A e \in shared.entries : /\ Probe[e.source] = e.identity.probe
                                        /\ e.transposed \in {Absent, e.source}
           /\ \A e, f \in shared.entries : e.identity = f.identity => e = f
           /\ \A d \in Callers : call[d].shared_source # NoSource =>
                 \E e \in shared.entries : e.identity = call[d].shared_source.identity
           /\ shared.source # NoSource =>
                 /\ shared.source \in [identity : Identities, source : Frames,
                                       transposed : Frames \cup {Absent}]
                 /\ Sharing(call[c]) /\ shared.source.identity = Named(call[c])
                 /\ done => Stands(call[c], shared.source.source, shared.source.transposed)
                 /\ done => \E e \in shared.entries : e.identity = shared.source.identity
<1> DEFINE k == call[c]
           id == Identity(c)
<1>1. /\ k \in CudaCallType /\ k.frame \in Frames /\ id = Named(k) /\ id \in Identities
      /\ id.probe = Probe[k.frame]
      /\ UsesSharedSource(c) <=> Sharing(k)
      /\ NeedsTransposed(c) <=> Horizontally(k)
      /\ Bytes[k.frame] \in Nat /\ Bytes[k.frame] > 0 /\ SharedBytes(c) \in Nat
  BY CallFacts DEF At
<1>2. /\ input_cache \subseteq EntryType /\ input_cache_clock \in Nat
      /\ \A e \in input_cache : /\ Probe[e.source] = e.identity.probe
                                /\ e.transposed \in {Absent, e.source}
      /\ \A e, f \in input_cache : e.identity = f.identity => e = f
      /\ \A d \in Callers : call[d].shared_source # NoSource =>
            \E e \in input_cache : e.identity = call[d].shared_source.identity
  BY DEF CudaIInv, CudaTypes, CacheInv
<1>3. CASE ~UsesSharedSource(c)
  <2>1. shared = Shared(input_cache, input_cache_bytes, input_cache_clock,
                            NoSource, FALSE)
    BY <1>3 DEF SharedSource
  <2> QED
    BY <1>2, <2>1 DEF Shared
<1>4. CASE UsesSharedSource(c) /\ \E e \in input_cache : e.identity = id
  <2>1. PICK entry \in input_cache :
           entry.identity = id /\ shared = FoundShared(c, entry, done)
    BY <1>4 DEF SharedSource
  <2> DEFINE upgrade == NeedsTransposed(c) /\ entry.transposed = Absent
             bytes == IF upgrade THEN Bytes[k.frame] ELSE 0
             gone == IF upgrade THEN Evicted(bytes, entry.identity) ELSE {}
             left == input_cache_bytes - Retained(gone)
             fits == upgrade => left <= input_cache_budget - bytes
             added == IF fits /\ done THEN bytes ELSE 0
             used == Used(entry, added)
  <2>2. /\ shared.entries = (input_cache \ (gone \cup {entry})) \cup {used}
        /\ shared.clock = input_cache_clock + 1
        /\ shared.source = IF fits THEN Source(used) ELSE NoSource
    BY <2>1 DEF FoundShared, Shared
  <2>3. gone \subseteq Evictable(entry.identity)
    BY DEF Evicted
  <2> HIDE DEF gone, left, fits
  <2>4. added \in Nat /\ (added > 0 <=> upgrade /\ fits /\ done)
    BY <1>1
  <2> HIDE DEF added
  <2>5. /\ entry \in EntryType /\ Probe[entry.source] = id.probe
        /\ entry.transposed \in {Absent, entry.source}
    BY <1>2, <2>1
  <2>6. /\ used.identity = id /\ used.source = entry.source
        /\ used.transposed = IF added > 0 THEN entry.source ELSE entry.transposed
    BY <2>1, <2>5 DEF Used, EntryType
  <2>7. used \in EntryType
    <3>1. /\ input_cache_clock + 1 \in Nat /\ entry.retained_bytes + added \in Nat
          /\ (IF added > 0 THEN entry.source ELSE entry.transposed) \in Frames \cup {Absent}
      BY <1>2, <2>4, <2>5 DEF EntryType
    <3> QED
      BY <2>5, <3>1, EntryUpdated DEF Used
  <2> HIDE DEF used
  <2>8. shared.source # NoSource => /\ fits /\ shared.source = Source(used)
    BY <2>2
  <2>9. /\ shared.source # NoSource => shared.source.identity = id
        /\ shared.source # NoSource => shared.source.source = entry.source
        /\ shared.source # NoSource => shared.source.transposed = used.transposed
        /\ shared.source # NoSource =>
              shared.source \in [identity : Identities, source : Frames,
                                                               transposed : Frames \cup {Absent}]
    BY <2>6, <2>7, <2>8 DEF Source, EntryType
  <2>10. shared.source # NoSource /\ done =>
            Stands(k, shared.source.source, shared.source.transposed)
    BY <1>1, <2>4, <2>5, <2>6, <2>8, <2>9 DEF Stands, EntryType
  <2>11. shared.entries \subseteq EntryType
    BY <1>2, <2>2, <2>7
  <2>12. /\ \A e \in shared.entries : Probe[e.source] = e.identity.probe
         /\ \A e \in shared.entries : e.transposed \in {Absent, e.source}
    BY <1>2, <2>2, <2>5, <2>6
  <2>13. \A e, f \in shared.entries : e.identity = f.identity => e = f
    BY <1>2, <2>1, <2>2, <2>6
  <2>14. ASSUME NEW d \in Callers, call[d].shared_source # NoSource
         PROVE  \E e \in shared.entries : e.identity = call[d].shared_source.identity
    <3>1. PICK e \in input_cache \ gone : e.identity = call[d].shared_source.identity
      BY <2>3, <2>14, EntriesKept
    <3> QED
      BY <2>1, <2>2, <2>6, <3>1
  <2>15. \E e \in shared.entries : e.identity = id
    BY <2>2, <2>6
  <2> QED
    BY <1>1, <1>2, <1>4, <2>2, <2>9, <2>10, <2>11, <2>12, <2>13, <2>14, <2>15
<1>5. CASE UsesSharedSource(c) /\ ~\E e \in input_cache : e.identity = id
  <2>1. shared = MissShared(c, done)
    BY <1>5 DEF SharedSource
  <2> DEFINE gone == Evicted(SharedBytes(c), Absent)
             left == input_cache_bytes - Retained(gone)
             fits == left <= input_cache_budget - SharedBytes(c)
             entry == [identity |-> id, source |-> k.frame,
                       transposed |-> IF NeedsTransposed(c) THEN k.frame ELSE Absent,
                       retained_bytes |-> SharedBytes(c), last_use |-> input_cache_clock + 1]
  <2>2. shared = IF fits /\ done
                 THEN Shared((input_cache \ gone) \cup {entry}, left + SharedBytes(c),
                                  input_cache_clock + 1, Source(entry), TRUE)
                 ELSE Shared(input_cache \ gone, left, input_cache_clock, NoSource, fits)
    BY <2>1 DEF MissShared
  <2>3. gone \subseteq Evictable(Absent)
    BY DEF Evicted
  <2>4. /\ input_cache \ gone \subseteq EntryType
        /\ \A d \in Callers : call[d].shared_source # NoSource =>
              \E e \in input_cache \ gone : e.identity = call[d].shared_source.identity
    BY <2>3, EntriesKept
  <2> HIDE DEF gone, left, fits
  <2>5. entry \in EntryType
    BY <1>1, <1>2 DEF EntryType
  <2>6. /\ entry.identity = id /\ entry.source = k.frame
        /\ entry.transposed = IF NeedsTransposed(c) THEN k.frame ELSE Absent
    OBVIOUS
  <2> HIDE DEF entry
  <2>7. CASE fits /\ done
    <3>1. /\ shared.entries = (input_cache \ gone) \cup {entry}
          /\ shared.clock = input_cache_clock + 1 /\ shared.source = Source(entry)
      BY <2>2, <2>7 DEF Shared
    <3>2. /\ shared.source.identity = id /\ shared.source.source = k.frame
          /\ shared.source.transposed = entry.transposed
          /\ shared.source \in [identity : Identities, source : Frames,
                                transposed : Frames \cup {Absent}]
      BY <2>5, <2>6, <3>1 DEF Source, EntryType
    <3>3. Stands(k, shared.source.source, shared.source.transposed)
      BY <1>1, <2>6, <3>2 DEF Stands
    <3>4. /\ \A e \in shared.entries : Probe[e.source] = e.identity.probe
          /\ \A e \in shared.entries : e.transposed \in {Absent, e.source}
      BY <1>1, <1>2, <2>6, <3>1
    <3>5. \A e, f \in shared.entries : e.identity = f.identity => e = f
      BY <1>2, <1>5, <2>6, <3>1
    <3> QED
      BY <1>1, <1>2, <1>5, <2>4, <2>5, <2>6, <3>1, <3>2, <3>3, <3>4, <3>5
  <2>8. CASE ~(fits /\ done)
    <3>1. /\ shared.entries = input_cache \ gone
          /\ shared.clock = input_cache_clock /\ shared.source = NoSource
      BY <2>2, <2>8 DEF Shared
    <3> QED
      BY <1>2, <2>4, <3>1
  <2> QED
    BY <2>7, <2>8
<1> QED
  BY <1>3, <1>4, <1>5

-----------------------------------------------------------------------------
(* The slot of a call.                                                     *)

LEMMA CudaOwnerFacts ==
    ASSUME CudaIInv, NEW c \in Callers, call[c].pc \in {"prepare", "run", "release"}
    PROVE  /\ call[c] \in CudaCallType /\ CudaCallShape(call[c])
           /\ call[c].slot \in Slots /\ call[c].slot # Absent
           /\ Slot(c) \in CudaSlotType /\ CudaSlotShape(Slot(c))
           /\ CudaOwnerShape(call[c], Slot(c))
<1>1. call[c] \in CudaCallType /\ CudaCallShape(call[c])
  BY DEF CudaIInv, CudaTypes, CudaCallsInv
<1>2. call[c].slot # Absent
  BY <1>1 DEF CudaCallShape
<1>3. call[c].slot \in Slots /\ CudaOwnerShape(call[c], slots[call[c].slot])
  BY <1>2 DEF CudaIInv, CudaOwnersInv
<1>4. slots[call[c].slot] \in CudaSlotType /\ CudaSlotShape(slots[call[c].slot])
  BY <1>3 DEF CudaIInv, CudaTypes, CudaSlotsInv
<1> QED
  BY <1>1, <1>2, <1>3, <1>4 DEF Slot

\* A slot that has been given the plans of a batch.
ReadyFor(batch, slot) ==
    /\ slot \in CudaSlotType /\ CudaSlotShape(slot) /\ slot.busy
    /\ slot.identity = batch /\ slot.pinned_plan = batch

LEMMA PlannedFacts ==
    ASSUME CudaIInv, NEW c \in Callers, At(c, "prepare")
    PROVE  /\ ReadyFor(call[c].batch, Planned(c))
           /\ PlanHit(c) => Planned(c).device_plan = call[c].batch
           /\ ReadyFor(call[c].batch, ResetPlanBuffers(Planned(c)))
<1> DEFINE b == call[c].batch
           old == Slot(c)
           packed == [old EXCEPT !.plan_ready = FALSE, !.identity = b,
                                 !.pinned_plan = b, !.device_plan = Garbage]
<1>1. b \in Batches /\ old \in CudaSlotType /\ CudaSlotShape(old) /\ old.busy
  BY CallFacts, CudaOwnerFacts DEF At, CudaOwnerShape
<1>2. ASSUME PlanHit(c)
      PROVE  ReadyFor(b, Planned(c)) /\ Planned(c).device_plan = b
  BY <1>1, <1>2 DEF Planned, PlanHit, ReadyFor, CudaSlotShape
<1>3. ASSUME ~PlanHit(c)
      PROVE  ReadyFor(b, Planned(c))
  <2>1. Planned(c) = packed
    BY <1>3 DEF Planned
  <2> HIDE DEF b, old
  <2>2. packed \in CudaSlotType
    BY <1>1 DEF CudaSlotType, CudaPlan
  <2>3. /\ packed.busy /\ ~packed.plan_ready /\ packed.identity = b /\ packed.pinned_plan = b
        /\ packed.source_ready = old.source_ready /\ packed.outgrown = old.outgrown
        /\ packed.device_source = old.device_source
        /\ packed.source_identity = old.source_identity
        /\ packed.transposed_source_ready = old.transposed_source_ready
        /\ packed.transposed = old.transposed
    BY <1>1 DEF CudaSlotType
  <2>4. CudaSlotShape(packed)
    BY <1>1, <2>3 DEF CudaSlotShape
  <2> QED
    BY <2>1, <2>2, <2>3, <2>4 DEF ReadyFor
<1>4. ASSUME NEW slot, ReadyFor(b, slot)
      PROVE  ReadyFor(b, ResetPlanBuffers(slot))
  <2> DEFINE new == ResetPlanBuffers(slot)
  <2> HIDE DEF b
  <2>1. new \in CudaSlotType
    BY <1>4 DEF ResetPlanBuffers, ReadyFor, CudaSlotType, CudaPlan
  <2>2. /\ new.busy /\ ~new.plan_ready /\ new.identity = b /\ new.pinned_plan = b
        /\ new.source_ready = slot.source_ready /\ new.outgrown = slot.outgrown
        /\ new.device_source = slot.device_source
        /\ new.source_identity = slot.source_identity
        /\ new.transposed_source_ready = slot.transposed_source_ready
        /\ new.transposed = slot.transposed
    BY <1>4 DEF ResetPlanBuffers, ReadyFor, CudaSlotType
  <2>3. CudaSlotShape(new)
    BY <1>4, <2>2 DEF ReadyFor, CudaSlotShape
  <2> QED
    BY <2>1, <2>2, <2>3 DEF ReadyFor
<1> QED
  BY <1>2, <1>3, <1>4

\* Buffers that are replaced leave a frame outgrown, never marked as there.
LEMMA ResizedFacts ==
    ASSUME NEW batch, NEW slot, ReadyFor(batch, slot), NEW pinned_bytes \in Nat,
           NEW bytes \in Nat, NEW transposed_bytes \in Nat
    PROVE  LET new == Resized([slot EXCEPT !.pinned_bytes = pinned_bytes], bytes,
                                   transposed_bytes)
           IN /\ ReadyFor(batch, new) /\ new.device_plan = slot.device_plan
              /\ new.pinned_bytes = pinned_bytes
              /\ new.device_bytes = bytes /\ new.transposed_bytes = transposed_bytes
<1> DEFINE staged == [slot EXCEPT !.pinned_bytes = pinned_bytes]
           new == Resized(staged, bytes, transposed_bytes)
<1>1. /\ staged \in CudaSlotType /\ staged.pinned_bytes = pinned_bytes
      /\ staged.busy /\ staged.identity = batch /\ staged.pinned_plan = batch
      /\ staged.plan_ready = slot.plan_ready /\ staged.device_plan = slot.device_plan
      /\ staged.source_ready = slot.source_ready /\ staged.outgrown = slot.outgrown
      /\ staged.device_source = slot.device_source
      /\ staged.source_identity = slot.source_identity
      /\ staged.transposed_source_ready = slot.transposed_source_ready
      /\ staged.transposed = slot.transposed
      /\ staged.device_bytes = slot.device_bytes
      /\ staged.transposed_bytes = slot.transposed_bytes
  BY DEF ReadyFor, CudaSlotType
<1>2. CudaSlotShape(staged)
  BY <1>1 DEF ReadyFor, CudaSlotShape
<1> HIDE DEF staged
<1>3. PICK o \in BOOLEAN, d \in Content, t \in Content :
         /\ o = \/ staged.outgrown
                \/ staged.source_ready /\ bytes # staged.device_bytes
                \/ staged.transposed_source_ready /\ transposed_bytes # staged.transposed_bytes
         /\ d = IF bytes = staged.device_bytes THEN staged.device_source ELSE Garbage
         /\ t = IF transposed_bytes = staged.transposed_bytes THEN staged.transposed ELSE Garbage
  BY ZenonT(40), <1>1 DEF CudaSlotType, Content
<1>4. new = [staged EXCEPT !.device_bytes = bytes, !.transposed_bytes = transposed_bytes,
                           !.device_source = d, !.transposed = t, !.outgrown = o]
  BY <1>1, <1>3 DEF Resized
<1>5. new \in CudaSlotType
  BY ZenonT(40), <1>1, <1>3, <1>4 DEF CudaSlotType
<1>6. /\ new.busy /\ new.identity = batch /\ new.pinned_plan = batch
      /\ new.plan_ready = staged.plan_ready /\ new.device_plan = staged.device_plan
      /\ new.source_ready = staged.source_ready /\ new.outgrown = o
      /\ new.device_source = d /\ new.source_identity = staged.source_identity
      /\ new.transposed_source_ready = staged.transposed_source_ready
      /\ new.transposed = t /\ new.pinned_bytes = pinned_bytes
      /\ new.device_bytes = bytes /\ new.transposed_bytes = transposed_bytes
  BY <1>1, <1>4 DEF CudaSlotType
<1> HIDE DEF new
<1>7. CudaSlotShape(new)
  <2>1. ~o /\ staged.source_ready =>
           /\ ~staged.outgrown /\ d = staged.device_source
           /\ staged.transposed_source_ready => t = staged.transposed
    BY <1>3
  <2>2. new.plan_ready => new.device_plan = new.identity /\ new.pinned_plan = new.identity
    BY <1>1, <1>2, <1>6 DEF CudaSlotShape
  <2>3. ASSUME new.source_ready /\ ~new.outgrown
        PROVE  /\ new.device_source \in Frames
               /\ Probe[new.device_source] = new.source_identity.probe
               /\ new.transposed_source_ready => new.transposed = new.device_source
    BY <1>2, <1>6, <2>1, <2>3 DEF CudaSlotShape
  <2> QED
    BY <2>2, <2>3 DEF CudaSlotShape
<1> QED
  BY <1>1, <1>5, <1>6, <1>7 DEF ReadyFor, new, staged

LEMMA LargerFacts ==
    ASSUME NEW bytes \in Nat, NEW needed \in Nat
    PROVE  /\ Larger(bytes, needed) \in Nat
           /\ Larger(bytes, needed) >= bytes /\ Larger(bytes, needed) >= needed
           /\ Attempts(bytes, needed) \subseteq Nat
  BY DEF Larger, Attempts

LEMMA NeededFacts ==
    ASSUME CudaIInv, NEW c \in Callers, ~At(c, "idle")
    PROVE  /\ SourceBytes(c) \in Nat /\ TransposedBytes(c) \in Nat
           /\ PinnedBytes(c) \in Nat
           /\ ~Sharing(call[c]) =>
                 /\ SourceBytes(c) = Bytes[call[c].frame]
                 /\ call[c].address # Device => PinnedBytes(c) = Bytes[call[c].frame]
                 /\ Horizontally(call[c]) => TransposedBytes(c) = Bytes[call[c].frame]
  BY CallFacts DEF SourceBytes, TransposedBytes, PinnedBytes, OnDevice

\* A slot whose buffers have room for the call's frame, unless it shares one.
RoomFor(k, slot) ==
    ~Sharing(k) =>
       /\ slot.device_bytes >= Bytes[k.frame]
       /\ k.address # Device => slot.pinned_bytes >= Bytes[k.frame]
       /\ Horizontally(k) => slot.transposed_bytes >= Bytes[k.frame]

LEMMA GrownFacts ==
    ASSUME CudaIInv, NEW c \in Callers, ~At(c, "idle"),
           NEW batch, NEW slot, ReadyFor(batch, slot)
    PROVE  /\ ReadyFor(batch, Grown(c, slot))
           /\ Grown(c, slot).device_plan = slot.device_plan
           /\ RoomFor(call[c], Grown(c, slot))
           /\ \A partly \in GrownPartly(c, slot) : ReadyFor(batch, partly)
<1>1. PICK pinned \in Nat, bytes \in Nat, transposed \in Nat :
         /\ pinned = Larger(slot.pinned_bytes, PinnedBytes(c))
         /\ bytes = Larger(slot.device_bytes, SourceBytes(c))
         /\ transposed = Larger(slot.transposed_bytes, TransposedBytes(c))
         /\ pinned >= PinnedBytes(c) /\ bytes >= SourceBytes(c)
         /\ transposed >= TransposedBytes(c)
  <2>1. /\ slot.pinned_bytes \in Nat /\ slot.device_bytes \in Nat
        /\ slot.transposed_bytes \in Nat
    BY DEF ReadyFor, CudaSlotType
  <2> QED
    BY <2>1, LargerFacts, NeededFacts
<1>2. /\ slot.device_bytes \in Nat /\ slot.transposed_bytes \in Nat
      /\ SourceBytes(c) \in Nat /\ TransposedBytes(c) \in Nat
  BY NeededFacts DEF ReadyFor, CudaSlotType
<1>3. Staging(c, slot) = [slot EXCEPT !.pinned_bytes = pinned]
  BY <1>1 DEF Staging
<1>4. Grown(c, slot) = Resized([slot EXCEPT !.pinned_bytes = pinned], bytes, transposed)
  BY <1>1, <1>3 DEF Grown
<1>5. /\ ReadyFor(batch, Grown(c, slot)) /\ Grown(c, slot).device_plan = slot.device_plan
      /\ Grown(c, slot).pinned_bytes = pinned
      /\ Grown(c, slot).device_bytes = bytes
      /\ Grown(c, slot).transposed_bytes = transposed
  BY <1>4, ResizedFacts
<1>6. RoomFor(call[c], Grown(c, slot))
  BY <1>1, <1>5, NeededFacts DEF RoomFor
<1>7. ASSUME NEW partly \in GrownPartly(c, slot)
      PROVE  ReadyFor(batch, partly)
  <2>1. CASE partly \in {slot, Grown(c, slot)}
    BY <1>5, <2>1
  <2>2. CASE \E some \in Attempts(slot.device_bytes, SourceBytes(c)) :
                partly = Resized([slot EXCEPT !.pinned_bytes = pinned], some,
                                      slot.transposed_bytes)
    <3>1. PICK some \in Nat :
             partly = Resized([slot EXCEPT !.pinned_bytes = pinned], some,
                                   slot.transposed_bytes)
      BY <1>2, <2>2, LargerFacts
    <3> QED
      BY <1>2, <3>1, ResizedFacts
  <2>3. CASE \E some \in Attempts(slot.transposed_bytes, TransposedBytes(c)) :
                partly = Resized([slot EXCEPT !.pinned_bytes = pinned], bytes, some)
    <3>1. PICK some \in Nat :
             partly = Resized([slot EXCEPT !.pinned_bytes = pinned], bytes, some)
      BY <1>2, <2>3, LargerFacts
    <3> QED
      BY <3>1, ResizedFacts
  <2> QED
    BY <1>1, <1>3, <2>1, <2>2, <2>3 DEF GrownPartly
<1> QED
  BY <1>5, <1>6, <1>7

-----------------------------------------------------------------------------
(* What the kernels read.                                                  *)

\* The frame is in the slot, or the call shares one.
LEMMA SourceUploadedFacts ==
    ASSUME CudaIInv, NEW c \in Callers, At(c, "run")
    PROVE  LET slot == SourceUploaded(c)
           IN /\ ReadyFor(call[c].batch, slot)
              /\ slot.plan_ready = Slot(c).plan_ready
              /\ slot.device_plan = Slot(c).device_plan
              /\ slot.transposed_bytes = Slot(c).transposed_bytes
              /\ ~Shares(c) /\ ~slot.outgrown =>
                    /\ slot.device_source \in Frames
                    /\ Probe[slot.device_source] = Probe[call[c].frame]
                    /\ OnDevice(c) => slot.device_source = call[c].frame
                    /\ OnDevice(c) => ~slot.transposed_source_ready
                    /\ slot.transposed_source_ready => slot.transposed = slot.device_source
<1>1. PICK k \in CudaCallType : k = call[c]
  BY DEF CudaIInv, CudaTypes
<1>2. PICK old \in CudaSlotType : old = Slot(c)
  BY CudaOwnerFacts DEF At
<1>3. /\ CudaCallShape(k) /\ k.pc = "run" /\ CudaSlotShape(old) /\ CudaOwnerShape(k, old)
      /\ k.frame \in Frames /\ Identity(c) \in Identities
      /\ Identity(c).probe = Probe[k.frame]
      /\ UsesSharedSource(c) <=> Sharing(k)
      /\ Bytes[k.frame] \in Nat
  BY <1>1, <1>2, CallFacts, CudaOwnerFacts DEF At
<1>4. ReadyFor(k.batch, old)
  BY <1>3 DEF CudaOwnerShape, ReadyFor
<1>5. OnDevice(c) <=> k.address = Device
  BY <1>1 DEF OnDevice
<1>6. Frames \subseteq Content /\ Garbage \in Content
  BY DEF Content
<1>7. CASE Shares(c) \/ (~OnDevice(c) /\ SlotHit(c))
  <2>1. SourceUploaded(c) = old
    BY <1>2, <1>7 DEF SourceUploaded
  <2>2. ~Shares(c) => /\ ~OnDevice(c) /\ old.source_ready
                           /\ old.source_identity = Identity(c)
    BY <1>2, <1>7 DEF SlotHit
  <2>3. ~Shares(c) /\ ~old.outgrown =>
           /\ old.device_source \in Frames /\ Probe[old.device_source] = Probe[k.frame]
           /\ old.transposed_source_ready => old.transposed = old.device_source
    BY <1>3, <2>2 DEF CudaSlotShape
  <2> QED
    BY <1>1, <1>2, <1>4, <2>1, <2>2, <2>3
<1>8. CASE ~Shares(c) /\ OnDevice(c)
  <2>1. PICK new : new = [old EXCEPT !.device_source = k.frame, !.source_ready = FALSE,
                                     !.transposed_source_ready = FALSE, !.outgrown = FALSE]
    OBVIOUS
  <2>2. SourceUploaded(c) = new
    BY <1>1, <1>2, <1>8, <2>1 DEF SourceUploaded
  <2>3. new \in CudaSlotType
    BY <1>3, <1>6, <2>1 DEF CudaSlotType
  <2>4. /\ new.busy = old.busy /\ new.identity = old.identity
        /\ new.pinned_plan = old.pinned_plan /\ new.plan_ready = old.plan_ready
        /\ new.device_plan = old.device_plan /\ ~new.source_ready
        /\ ~new.transposed_source_ready /\ new.device_source = k.frame
        /\ new.transposed_bytes = old.transposed_bytes
    BY <2>1 DEF CudaSlotType
  <2>5. CudaSlotShape(new)
    BY <1>3, <2>4 DEF CudaSlotShape
  <2> QED
    BY <1>1, <1>2, <1>3, <1>4, <2>2, <2>3, <2>4, <2>5 DEF ReadyFor
<1>9. CASE ~Shares(c) /\ ~OnDevice(c) /\ ~SlotHit(c)
  <2>1. PICK f \in Content, o \in BOOLEAN :
           f = Copied(c) /\ o = (Crowded(c) /\ Copied(c) = Garbage)
    BY <1>1, <1>3, <1>6 DEF Copied
  <2>2. ~o => f = k.frame
    <3>1. ~Crowded(c) => f = k.frame
      BY <1>1, <1>2, <1>3, <1>5, <1>9, <2>1 DEF Crowded, Copied, CudaOwnerShape
    <3>2. f = k.frame \/ f = Garbage
      BY <1>1, <2>1 DEF Copied
    <3> QED
      BY <2>1, <3>1, <3>2
  <2>3. PICK new : new = [old EXCEPT !.device_source = f, !.source_identity = Identity(c),
                                     !.source_ready = TRUE, !.transposed_source_ready = FALSE,
                                     !.outgrown = o]
    OBVIOUS
  <2>4. SourceUploaded(c) = new
    BY <1>2, <1>9, <2>1, <2>3 DEF SourceUploaded
  <2>5. new \in CudaSlotType
    BY <1>3, <2>3 DEF CudaSlotType
  <2>6. /\ new.busy = old.busy /\ new.identity = old.identity
        /\ new.pinned_plan = old.pinned_plan /\ new.plan_ready = old.plan_ready
        /\ new.device_plan = old.device_plan /\ new.source_ready
        /\ new.source_identity = Identity(c) /\ new.outgrown = o
        /\ ~new.transposed_source_ready /\ new.device_source = f
        /\ new.transposed_bytes = old.transposed_bytes
    BY <2>3 DEF CudaSlotType
  <2>7. CudaSlotShape(new)
    BY <1>3, <2>2, <2>6 DEF CudaSlotShape
  <2> QED
    BY <1>1, <1>2, <1>3, <1>4, <1>9, <2>2, <2>4, <2>5, <2>6, <2>7 DEF ReadyFor
<1> QED
  BY <1>7, <1>8, <1>9

\* Then the plans are the batch's, and what the kernels read is the call's frame or one that
\* cannot be told from it.
LEMMA UploadedFacts ==
    ASSUME CudaIInv, NEW c \in Callers, At(c, "run")
    PROVE  LET slot == Uploaded(c)
               read == Read(c, slot)
           IN /\ ReadyFor(call[c].batch, slot) /\ slot.device_plan = call[c].batch
              /\ read \in [source : Content, transposed : Content, plan : CudaPlan]
              /\ read.plan = call[c].batch
              /\ \/ ~Shares(c) /\ slot.outgrown
                 \/ /\ Stands(call[c], read.source, read.transposed)
                    /\ OnDevice(c) => read.source = call[c].frame
<1>1. PICK k \in CudaCallType : k = call[c]
  BY DEF CudaIInv, CudaTypes
<1>2. PICK up \in CudaSlotType : up = SourceUploaded(c)
  BY SourceUploadedFacts DEF ReadyFor
<1>3. /\ ReadyFor(k.batch, up)
      /\ up.device_plan = Slot(c).device_plan /\ up.plan_ready = Slot(c).plan_ready
      /\ up.transposed_bytes = Slot(c).transposed_bytes
      /\ ~Shares(c) /\ ~up.outgrown =>
            /\ up.device_source \in Frames /\ Probe[up.device_source] = Probe[k.frame]
            /\ OnDevice(c) => up.device_source = k.frame
            /\ OnDevice(c) => ~up.transposed_source_ready
            /\ up.transposed_source_ready => up.transposed = up.device_source
  BY <1>1, <1>2, SourceUploadedFacts
<1>4. /\ CudaCallShape(k) /\ k.pc = "run" /\ CudaOwnerShape(k, Slot(c))
      /\ k.frame \in Frames /\ k.batch \in Batches /\ Bytes[k.frame] \in Nat
      /\ UsesSharedSource(c) <=> Sharing(k)
      /\ NeedsTransposed(c) <=> Horizontally(k)
      /\ OnDevice(c) <=> k.address = Device
      /\ Shares(c) <=> k.shared_source # NoSource
  BY <1>1, CallFacts, CudaOwnerFacts DEF At, OnDevice, Shares
<1>5. /\ up.device_source \in Content /\ up.transposed \in Content /\ up.device_plan \in CudaPlan
      /\ Garbage \in Content /\ k.batch \in CudaPlan /\ Absent \in Content
      /\ up.pinned_plan = k.batch
  BY <1>3, <1>4 DEF ReadyFor, CudaSlotType, Content, CudaPlan
<1>6. PICK transposes \in BOOLEAN, small \in BOOLEAN :
         /\ transposes <=> ~Shares(c) /\ NeedsTransposed(c) /\ ~up.transposed_source_ready
         /\ small <=> up.transposed_bytes < Bytes[k.frame]
  OBVIOUS
<1>7. PICK p \in CudaPlan, t \in Content, r \in BOOLEAN, o \in BOOLEAN :
         /\ p = IF k.plan_cache_hit THEN up.device_plan ELSE up.pinned_plan
         /\ t = IF ~transposes THEN up.transposed
                ELSE IF small THEN Garbage ELSE up.device_source
         /\ r = (up.transposed_source_ready \/ transposes)
         /\ o = (up.outgrown \/ (Crowded(c) /\ transposes /\ small))
  BY <1>5
<1>8. p = k.batch
  BY <1>3, <1>4, <1>5, <1>7 DEF CudaOwnerShape
<1>9. PICK new : new = [up EXCEPT !.device_plan = p, !.transposed = t,
                                  !.transposed_source_ready = r, !.outgrown = o]
  OBVIOUS
<1>10. Uploaded(c) = new
  BY <1>1, <1>2, <1>6, <1>7, <1>9 DEF Uploaded
<1>11. new \in CudaSlotType
  BY <1>9 DEF CudaSlotType
<1>12. /\ new.busy = up.busy /\ new.identity = up.identity /\ new.pinned_plan = up.pinned_plan
       /\ new.plan_ready = up.plan_ready /\ new.device_plan = p
       /\ new.source_ready = up.source_ready /\ new.source_identity = up.source_identity
       /\ new.device_source = up.device_source /\ new.outgrown = o
       /\ new.transposed_source_ready = r /\ new.transposed = t
  BY <1>9 DEF CudaSlotType
\* A transposed frame that has no room is outgrown.
<1>13. transposes /\ ~o => ~small
  <2>1. transposes /\ ~Crowded(c) => ~small
    BY <1>3, <1>4, <1>6 DEF Crowded, CudaOwnerShape, CudaSlotType
  <2> QED
    BY <1>7, <2>1
<1>14. ~o => ~up.outgrown
  BY <1>7
<1>15. ~Shares(c) /\ ~o =>
          /\ new.device_source \in Frames /\ Probe[new.device_source] = Probe[k.frame]
          /\ OnDevice(c) => new.device_source = k.frame
          /\ r => t = new.device_source
          /\ NeedsTransposed(c) => r
  BY <1>3, <1>6, <1>7, <1>12, <1>13, <1>14
<1>16. CudaSlotShape(new)
  <2>1. new.plan_ready => new.device_plan = new.identity /\ new.pinned_plan = new.identity
    BY <1>3, <1>8, <1>12 DEF ReadyFor
  <2>2. ASSUME new.source_ready, ~new.outgrown
        PROVE  /\ new.device_source \in Frames
               /\ Probe[new.device_source] = new.source_identity.probe
               /\ new.transposed_source_ready => new.transposed = new.device_source
    <3>1. CudaSlotShape(up)
      BY <1>3 DEF ReadyFor
    <3>2. CASE transposes
      BY <1>7, <1>12, <1>13, <1>14, <2>2, <3>1, <3>2 DEF CudaSlotShape
    <3>3. CASE ~transposes
      BY <1>7, <1>12, <1>14, <2>2, <3>1, <3>3 DEF CudaSlotShape
    <3> QED
      BY <3>2, <3>3
  <2> QED
    BY <2>1, <2>2 DEF CudaSlotShape
<1>17. ReadyFor(k.batch, new)
  BY <1>3, <1>11, <1>12, <1>16 DEF ReadyFor
<1>18. PICK read : read = Read(c, new)
  OBVIOUS
<1>19. /\ read.plan = k.batch
       /\ read.source = IF Shares(c) THEN k.shared_source.source ELSE new.device_source
       /\ read.transposed = IF NeedsTransposed(c)
                            THEN IF Shares(c) THEN k.shared_source.transposed
                                 ELSE new.transposed
                            ELSE Absent
       /\ read = [source |-> read.source, plan |-> read.plan, transposed |-> read.transposed]
  BY <1>1, <1>8, <1>12, <1>18 DEF Read
<1>20. read \in [source : Content, transposed : Content, plan : CudaPlan]
  <2>1. k.shared_source.source \in Content /\ k.shared_source.transposed \in Content
    BY DEF CudaCallType
  <2> QED
    BY <1>5, <1>11, <1>19, <2>1 DEF CudaSlotType
<1>21. CASE Shares(c)
  BY <1>1, <1>4, <1>8, <1>10, <1>12, <1>17, <1>18, <1>19, <1>20, <1>21 DEF CudaCallShape, Stands
<1>22. CASE ~Shares(c)
  BY <1>1, <1>4, <1>8, <1>10, <1>12, <1>15, <1>17, <1>18, <1>19, <1>20, <1>22 DEF Stands
<1> QED
  BY <1>21, <1>22

-----------------------------------------------------------------------------
(* The steps.                                                              *)

\* A step of the owner of a slot.
LEMMA OwnKeeps ==
    ASSUME CudaIInv, NEW c \in Callers, call[c].slot # Absent, NEW k \in CudaCallType,
           NEW r \in CudaSlotType,
           call' = [call EXCEPT ![c] = k], slots' = [slots EXCEPT ![call[c].slot] = r],
           k.slot = call[c].slot, CudaCallShape(k), CudaSlotShape(r), CudaOwnerShape(k, r),
           UNCHANGED <<stop, calls, input_cache_budget>>, failures' \in 0 .. MaxFailures,
           input_cache' \subseteq EntryType, input_cache_clock' \in Nat, CacheInv'
    PROVE  CudaIInv'
<1>1. /\ call' \in [Callers -> CudaCallType]
      /\ slots' \in [Slots -> CudaSlotType] /\ Slots' = Slots
      /\ CudaCallsInv' /\ CudaSlotsInv' /\ CudaOwnersInv'
  BY CudaOwnStep
<1>2. CudaTypes'
  BY <1>1 DEF CudaIInv, CudaTypes
<1> QED
  BY <1>1, <1>2 DEF CudaIInv

\* The owner leaves the shared frames as they are and takes none.
LEMMA OwnKeepsCache ==
    ASSUME CudaIInv, NEW c \in Callers, call[c].slot # Absent, NEW k \in CudaCallType,
           NEW r \in CudaSlotType,
           call' = [call EXCEPT ![c] = k], slots' = [slots EXCEPT ![call[c].slot] = r],
           k.slot = call[c].slot, CudaCallShape(k), CudaSlotShape(r), CudaOwnerShape(k, r),
           UNCHANGED <<cache, stop, calls, input_cache_budget>>,
           failures' \in 0 .. MaxFailures,
           k.shared_source \in {NoSource, call[c].shared_source}
    PROVE  CudaIInv'
<1>1. \A d \in Callers : call'[d].shared_source \in {NoSource, call[d].shared_source}
  BY DEF CudaIInv, CudaTypes
<1>2. CacheInv' /\ input_cache' \subseteq EntryType /\ input_cache_clock' \in Nat
  BY <1>1, CacheKeeps DEF cache, CudaIInv, CudaTypes
<1> QED
  BY <1>2, OwnKeeps DEF cache

\* A call that ends without success, whatever became of its slot.
LEMMA EndedOwner ==
    ASSUME CudaIInv, NEW c \in Callers, call[c].pc \in {"prepare", "run"},
           NEW outcome \in {"error", "cancelled"}
    PROVE  LET k == [call[c] EXCEPT !.pc = "release", !.outcome = outcome]
           IN /\ k \in CudaCallType /\ CudaCallShape(k) /\ k.slot = call[c].slot
              /\ k.shared_source = call[c].shared_source
              /\ \A slot : slot.busy => CudaOwnerShape(k, slot)
              /\ Finish(c, outcome) => call' = [call EXCEPT ![c] = k]
<1>1. PICK old \in CudaCallType : old = call[c]
  BY DEF CudaIInv, CudaTypes
<1>2. PICK k : k = [old EXCEPT !.pc = "release", !.outcome = outcome]
  OBVIOUS
<1>3. k \in CudaCallType
  BY <1>2 DEF CudaCallType
<1>4. /\ k.pc = "release" /\ k.outcome = outcome /\ k.address = old.address
      /\ k.frame = old.frame /\ k.batch = old.batch /\ k.slot = old.slot
      /\ k.shared_source = old.shared_source
  BY <1>2 DEF CudaCallType
<1>5. CudaCallShape(old) /\ old.pc \in {"prepare", "run"}
  BY <1>1, CallFacts DEF At
<1>6. outcome # Absent /\ outcome # "ok"
  BY EngineBoundsOK
<1>7. CudaCallShape(k)
  BY <1>4, <1>5, <1>6 DEF CudaCallShape, Stands, Named, Horizontally
<1>8. \A slot : slot.busy => CudaOwnerShape(k, slot)
  BY <1>4, <1>6 DEF CudaOwnerShape
<1>9. Finish(c, outcome) => call' = [call EXCEPT ![c] = k]
  BY <1>1, <1>2 DEF Finish, CudaIInv, CudaTypes
<1> QED
  BY <1>1, <1>2, <1>3, <1>4, <1>7, <1>8, <1>9

LEMMA CudaCallKeeps ==
    ASSUME CudaIInv, NEW c \in Callers, Call(c)
    PROVE  CudaIInv'
<1>1. PICK i \in Inputs :
         call' = [call EXCEPT ![c] = [IdleCall EXCEPT !.pc = "acquire", !.address = i[1],
                                                           !.frame = i[2], !.batch = i[3]]]
  BY DEF Call
<1>2. PICK k : k = [IdleCall EXCEPT !.pc = "acquire", !.address = i[1],
                                         !.frame = i[2], !.batch = i[3]]
  OBVIOUS
<1>3. i[1] \in Addresses \cup {Device} /\ i[2] \in Frames /\ i[3] \in Batches
  BY EngineBoundsOK
<1>4. k \in CudaCallType
  BY <1>2, <1>3 DEF IdleCall, CudaCallType, NoSource, NoRead, Content, CudaPlan
<1>5. /\ k.pc = "acquire" /\ k.address = i[1] /\ k.frame = i[2] /\ k.batch = i[3]
      /\ k.slot = Absent /\ k.outcome = Absent /\ k.shared_source = NoSource
  BY <1>2 DEF IdleCall
<1>6. CudaCallShape(k)
  BY <1>3, <1>5 DEF CudaCallShape
<1>7. /\ At(c, "idle") /\ calls' = calls + 1 /\ calls < MaxCalls
      /\ UNCHANGED <<slots, cache, input_cache_budget, stop, failures>>
  BY DEF Call, Busy
<1>8. call[c].slot = Absent
  BY <1>7 DEF At, CudaIInv, CudaCallsInv, CudaCallShape
<1>9. /\ call' \in [Callers -> CudaCallType] /\ call'[c] = k
      /\ \A d \in Callers : d # c => call'[d] = call[d]
  BY <1>1, <1>2, <1>4 DEF CudaIInv, CudaTypes
<1>10. Slots' = Slots
  BY <1>7 DEF Slots
<1>11. CudaTypes'
  <2>1. calls' \in 0 .. MaxCalls
    BY <1>7, EngineBoundsOK DEF CudaIInv, CudaTypes
  <2> QED
    BY <1>7, <1>9, <1>10, <2>1 DEF CudaIInv, CudaTypes, cache
<1>12. CudaCallsInv'
  BY <1>6, <1>9 DEF CudaIInv, CudaCallsInv
<1>13. CudaSlotsInv'
  BY <1>7, <1>10 DEF CudaIInv, CudaSlotsInv
<1>14. CudaOwnersInv'
  <2>1. \A d \in Callers : call'[d].slot = call[d].slot
    BY <1>5, <1>8, <1>9
  <2>2. ASSUME NEW d \in Callers, call'[d].slot # Absent
        PROVE  CudaOwnerShape(call[d], slots[call[d].slot])'
    <3>1. d # c /\ call'[d] = call[d]
      BY <1>5, <1>9, <2>2
    <3> QED
      BY <1>7, <2>2, <3>1 DEF CudaIInv, CudaOwnersInv, CudaOwnerShape, Sharing
  <2> QED
    BY <1>7, <1>10, <2>1, <2>2 DEF CudaIInv, CudaOwnersInv
<1>15. CacheInv'
  <2>1. \A d \in Callers : call'[d].shared_source \in {NoSource, call[d].shared_source}
    BY <1>5, <1>9
  <2> QED
    BY <1>7, <2>1, CacheKeeps DEF cache
<1> QED
  BY <1>11, <1>12, <1>13, <1>14, <1>15 DEF CudaIInv

LEMMA CudaStopKeeps ==
    ASSUME CudaIInv, RequestStop \/ UNCHANGED cudaVars
    PROVE  CudaIInv'
<1>1. UNCHANGED <<call, slots, cache, bounds>> /\ stop' \in BOOLEAN
  BY DEF RequestStop, cudaVars, CudaIInv, CudaTypes
<1>2. Slots' = Slots
  BY <1>1 DEF Slots
<1>3. CudaTypes'
  BY <1>1, <1>2 DEF CudaIInv, CudaTypes, cache, bounds
<1>4. CudaCallsInv' /\ CudaSlotsInv' /\ CacheInv'
  BY <1>1, <1>2 DEF CudaIInv, CudaCallsInv, CudaSlotsInv, CacheInv, cache
<1>5. CudaOwnersInv'
  BY <1>1, <1>2 DEF CudaIInv, CudaOwnersInv, CudaOwnerShape, Sharing, bounds
<1> QED
  BY <1>3, <1>4, <1>5 DEF CudaIInv

\* The slot a call gets is free.
LEMMA CudaAcquireSlotKeeps ==
    ASSUME CudaIInv, NEW c \in Callers, AcquireSlot(c)
    PROVE  CudaIInv'
<1>1. /\ At(c, "acquire") /\ UNCHANGED <<cache, stop, bounds>>
  BY DEF AcquireSlot
<1>2. /\ call[c] \in CudaCallType /\ CudaCallShape(call[c]) /\ call[c].slot = Absent
      /\ call[c].outcome = Absent /\ call[c].shared_source = NoSource
  BY <1>1, CallFacts DEF At, CudaCallShape
<1>3. CASE call' = [call EXCEPT ![c] = IdleCall] /\ UNCHANGED slots
  <2>1. /\ IdleCall \in CudaCallType /\ IdleCall.slot = Absent
        /\ IdleCall.shared_source = NoSource
        /\ CudaCallShape(IdleCall)
    BY DEF IdleCall, CudaCallType, NoSource, NoRead, Content, CudaPlan, CudaCallShape
  <2>2. /\ call' \in [Callers -> CudaCallType] /\ call'[c] = IdleCall
        /\ \A d \in Callers : d # c => call'[d] = call[d]
    BY <1>3, <2>1 DEF CudaIInv, CudaTypes
  <2>3. Slots' = Slots
    BY <1>3 DEF Slots
  <2>4. CudaTypes' /\ CudaCallsInv' /\ CudaSlotsInv'
    BY <1>1, <1>3, <2>1, <2>2, <2>3 DEF CudaIInv, CudaTypes, CudaCallsInv, CudaSlotsInv,
           cache, bounds
  <2>5. CudaOwnersInv'
    <3>1. \A d \in Callers : call'[d].slot = call[d].slot
      BY <1>2, <2>1, <2>2
    <3>2. ASSUME NEW d \in Callers, call'[d].slot # Absent
          PROVE  CudaOwnerShape(call[d], slots[call[d].slot])'
      <4>1. call'[d] = call[d]
        BY <2>1, <2>2, <3>2
      <4> QED
        BY <1>1, <1>3, <3>2, <4>1 DEF CudaIInv, CudaOwnersInv, CudaOwnerShape, Sharing, bounds
    <3> QED
      BY <1>3, <2>3, <3>1, <3>2 DEF CudaIInv, CudaOwnersInv
  <2>6. CacheInv'
    <3>1. \A d \in Callers : call'[d].shared_source \in {NoSource, call[d].shared_source}
      BY <2>1, <2>2
    <3> QED
      BY <1>1, <3>1, CacheKeeps DEF cache
  <2> QED
    BY <2>4, <2>5, <2>6 DEF CudaIInv
<1>4. CASE \E s \in Free : /\ slots' = [slots EXCEPT ![s].busy = TRUE]
                                /\ call' = [call EXCEPT ![c].pc = "prepare", ![c].slot = s]
  <2>1. PICK s \in Free : /\ slots' = [slots EXCEPT ![s].busy = TRUE]
                               /\ call' = [call EXCEPT ![c].pc = "prepare", ![c].slot = s]
    BY <1>4
  <2>2. s \in Slots /\ ~slots[s].busy /\ s \in Nat /\ s # Absent
    BY EngineBoundsOK DEF Free, CudaIInv, CudaTypes
  <2>3. PICK r : r = [slots[s] EXCEPT !.busy = TRUE]
    OBVIOUS
  <2>4. slots[s] \in CudaSlotType /\ CudaSlotShape(slots[s])
    BY <2>2 DEF CudaIInv, CudaTypes, CudaSlotsInv
  <2>5. r \in CudaSlotType
    BY <2>3, <2>4 DEF CudaSlotType
  <2>6. /\ r.busy /\ r.plan_ready = slots[s].plan_ready /\ r.identity = slots[s].identity
        /\ r.device_plan = slots[s].device_plan /\ r.pinned_plan = slots[s].pinned_plan
        /\ r.source_ready = slots[s].source_ready /\ r.outgrown = slots[s].outgrown
        /\ r.device_source = slots[s].device_source
        /\ r.source_identity = slots[s].source_identity
        /\ r.transposed_source_ready = slots[s].transposed_source_ready
        /\ r.transposed = slots[s].transposed
    BY <2>3, <2>4 DEF CudaSlotType
  <2>7. CudaSlotShape(r)
    BY <2>4, <2>6 DEF CudaSlotShape
  <2>8. PICK k : k = [call[c] EXCEPT !.pc = "prepare", !.slot = s]
    OBVIOUS
  <2>9. k \in CudaCallType
    BY <1>2, <2>2, <2>8 DEF CudaCallType
  <2>10. /\ k.pc = "prepare" /\ k.slot = s /\ k.address = call[c].address
         /\ k.frame = call[c].frame /\ k.batch = call[c].batch /\ k.outcome = Absent
         /\ k.shared_source = NoSource
    BY <1>2, <2>8 DEF CudaCallType
  <2>11. CudaCallShape(k)
    BY <1>1, <1>2, <2>2, <2>10 DEF CudaCallShape, At
  <2>12. CudaOwnerShape(k, r)
    BY <2>6, <2>10, EngineBoundsOK DEF CudaOwnerShape
  <2>13. /\ call' \in [Callers -> CudaCallType] /\ call'[c] = k
         /\ \A d \in Callers : d # c => call'[d] = call[d]
    <3>1. call' = [call EXCEPT ![c] = k]
      BY <2>1, <2>8 DEF CudaIInv, CudaTypes
    <3> QED
      BY <2>9, <3>1 DEF CudaIInv, CudaTypes
  <2>14. /\ slots' \in [Slots -> CudaSlotType] /\ slots'[s] = r /\ Slots' = Slots
         /\ \A t \in Slots : t # s => slots'[t] = slots[t]
    <3>1. slots' = [slots EXCEPT ![s] = r]
      BY <2>1, <2>3 DEF CudaIInv, CudaTypes
    <3> QED
      BY <2>2, <2>5, <3>1 DEF CudaIInv, CudaTypes, Slots
  <2>15. CudaTypes' /\ CudaCallsInv'
    BY <1>1, <2>11, <2>13, <2>14 DEF CudaIInv, CudaTypes, CudaCallsInv, cache, bounds
  <2>16. CudaSlotsInv'
    <3> SUFFICES ASSUME NEW t \in Slots
                 PROVE  CudaSlotShape(slots'[t])
      BY <2>14 DEF CudaSlotsInv, CudaSlotShape
    <3> QED
      BY <2>7, <2>14 DEF CudaIInv, CudaSlotsInv
  <2>17. \A d \in Callers : call[d].slot # s
    BY <2>2 DEF CudaIInv, CudaOwnersInv, CudaOwnerShape
  <2>18. CudaOwnersInv'
    <3>1. ASSUME NEW d \in Callers, call'[d].slot # Absent
          PROVE  call'[d].slot \in Slots /\ CudaOwnerShape(call[d], slots[call[d].slot])'
      <4>1. CASE d = c
        BY <1>1, <2>2, <2>10, <2>12, <2>13, <2>14, <4>1 DEF CudaOwnerShape, Sharing, bounds
      <4>2. CASE d # c
        <5>1. /\ call'[d] = call[d] /\ call[d].slot \in Slots /\ call[d].slot # s
              /\ CudaOwnerShape(call[d], slots[call[d].slot])
          BY <2>13, <2>17, <3>1, <4>2 DEF CudaIInv, CudaOwnersInv
        <5> QED
          BY <1>1, <2>14, <5>1 DEF CudaOwnerShape, Sharing, bounds
      <4> QED
        BY <4>1, <4>2
    <3>2. \A d, e \in Callers : call'[d].slot # Absent /\ call'[d].slot = call'[e].slot => d = e
      BY <2>10, <2>13, <2>17 DEF CudaIInv, CudaOwnersInv
    <3>3. \A t \in Slots : slots'[t].busy => \E d \in Callers : call'[d].slot = t
      <4> SUFFICES ASSUME NEW t \in Slots, slots'[t].busy
                   PROVE  \E d \in Callers : call'[d].slot = t
        OBVIOUS
      <4>1. CASE t = s
        BY <2>10, <2>13, <4>1
      <4>2. CASE t # s
        <5>1. PICK d \in Callers : call[d].slot = t
          BY <2>14, <4>2 DEF CudaIInv, CudaOwnersInv
        <5>2. d # c
          BY <1>2, <5>1, EngineBoundsOK DEF CudaIInv, CudaTypes
        <5> QED
          BY <2>13, <5>1, <5>2
      <4> QED
        BY <4>1, <4>2
    <3> QED
      BY <2>14, <3>1, <3>2, <3>3 DEF CudaOwnersInv
  <2>19. CacheInv'
    <3>1. \A d \in Callers : call'[d].shared_source \in {NoSource, call[d].shared_source}
      BY <2>10, <2>13
    <3> QED
      BY <1>1, <3>1, CacheKeeps DEF cache
  <2> QED
    BY <2>15, <2>16, <2>18, <2>19 DEF CudaIInv
<1>5. ASSUME NEW S, S \subseteq Free, S # {}
      PROVE  Min(S) \in Free
  BY <1>5, LeastNat DEF Min, Free, CudaIInv, CudaTypes
<1> QED
  <2>1. Resident(call[c].batch) \subseteq Free
    BY DEF Resident
  <2> QED
    BY <1>3, <1>4, <1>5, <2>1 DEF AcquireSlot

LEMMA ReleaseSlotKeeps ==
    ASSUME CudaIInv, NEW c \in Callers, ReleaseSlot(c)
    PROVE  CudaIInv'
<1>1. /\ At(c, "release") /\ UNCHANGED <<cache, stop, bounds>>
      /\ slots' = [slots EXCEPT ![call[c].slot] = [Slot(c) EXCEPT !.busy = FALSE]]
      /\ call' = [call EXCEPT ![c] = IdleCall]
  BY DEF ReleaseSlot, SetSlot
<1>2. PICK s \in Slots : s = call[c].slot
  BY <1>1, CudaOwnerFacts DEF At
<1>3. s # Absent /\ slots[s] \in CudaSlotType /\ CudaSlotShape(slots[s])
  BY <1>1, <1>2, CudaOwnerFacts DEF At, Slot
<1>4. PICK r : r = [slots[s] EXCEPT !.busy = FALSE]
  OBVIOUS
<1>5. r \in CudaSlotType
  BY <1>3, <1>4 DEF CudaSlotType
<1>6. /\ ~r.busy /\ r.plan_ready = slots[s].plan_ready /\ r.identity = slots[s].identity
      /\ r.device_plan = slots[s].device_plan /\ r.pinned_plan = slots[s].pinned_plan
      /\ r.source_ready = slots[s].source_ready /\ r.outgrown = slots[s].outgrown
      /\ r.device_source = slots[s].device_source
      /\ r.source_identity = slots[s].source_identity
      /\ r.transposed_source_ready = slots[s].transposed_source_ready
      /\ r.transposed = slots[s].transposed
  BY <1>3, <1>4 DEF CudaSlotType
<1>7. CudaSlotShape(r)
  BY <1>3, <1>6 DEF CudaSlotShape
<1>8. /\ IdleCall \in CudaCallType /\ IdleCall.slot = Absent
      /\ IdleCall.shared_source = NoSource
      /\ CudaCallShape(IdleCall)
  BY DEF IdleCall, CudaCallType, NoSource, NoRead, Content, CudaPlan, CudaCallShape
<1>9. /\ call' \in [Callers -> CudaCallType] /\ call'[c] = IdleCall
      /\ \A d \in Callers : d # c => call'[d] = call[d]
  BY <1>1, <1>8 DEF CudaIInv, CudaTypes
<1>10. /\ slots' \in [Slots -> CudaSlotType] /\ slots'[s] = r /\ Slots' = Slots
       /\ \A t \in Slots : t # s => slots'[t] = slots[t]
  <2>1. slots' = [slots EXCEPT ![s] = r]
    BY <1>1, <1>2, <1>4 DEF Slot
  <2> QED
    BY <1>5, <2>1 DEF CudaIInv, CudaTypes, Slots
<1>11. CudaTypes' /\ CudaCallsInv'
  BY <1>1, <1>8, <1>9, <1>10 DEF CudaIInv, CudaTypes, CudaCallsInv, cache, bounds
<1>12. CudaSlotsInv'
  <2> SUFFICES ASSUME NEW t \in Slots
               PROVE  CudaSlotShape(slots'[t])
    BY <1>10 DEF CudaSlotsInv, CudaSlotShape
  <2> QED
    BY <1>7, <1>10 DEF CudaIInv, CudaSlotsInv
<1>13. CudaOwnersInv'
  <2>1. ASSUME NEW d \in Callers, call'[d].slot # Absent
        PROVE  call'[d].slot \in Slots /\ CudaOwnerShape(call[d], slots[call[d].slot])'
    <3>1. d # c /\ call'[d] = call[d]
      BY <1>8, <1>9, <2>1
    <3>2. /\ call[d].slot \in Slots /\ call[d].slot # s
          /\ CudaOwnerShape(call[d], slots[call[d].slot])
      BY <1>2, <1>3, <2>1, <3>1 DEF CudaIInv, CudaOwnersInv
    <3> QED
      BY <1>1, <1>10, <3>1, <3>2 DEF CudaOwnerShape, Sharing, bounds
  <2>2. \A d, e \in Callers : call'[d].slot # Absent /\ call'[d].slot = call'[e].slot => d = e
    BY <1>8, <1>9 DEF CudaIInv, CudaOwnersInv
  <2>3. ASSUME NEW t \in Slots, slots'[t].busy
        PROVE  \E d \in Callers : call'[d].slot = t
    <3>1. t # s /\ slots[t].busy
      BY <1>6, <1>10, <2>3
    <3>2. PICK d \in Callers : call[d].slot = t
      BY <3>1 DEF CudaIInv, CudaOwnersInv
    <3> QED
      BY <1>2, <1>9, <3>1, <3>2
  <2> QED
    BY <1>10, <2>1, <2>2, <2>3 DEF CudaOwnersInv
<1>14. CacheInv'
  <2>1. \A d \in Callers : call'[d].shared_source \in {NoSource, call[d].shared_source}
    BY <1>8, <1>9
  <2> QED
    BY <1>1, <2>1, CacheKeeps DEF cache
<1> QED
  BY <1>11, <1>12, <1>13, <1>14 DEF CudaIInv

\* What the search of the shared frames leaves for the calls.
LEMMA CacheTaken ==
    ASSUME CudaIInv, NEW c \in Callers, At(c, "prepare"), NEW done \in BOOLEAN,
           NEW shared \in SharedSource(c, done), SetCache(shared), NEW k \in CudaCallType,
           call' = [call EXCEPT ![c] = k],
           k.shared_source = IF done THEN shared.source ELSE NoSource
    PROVE  CacheInv' /\ input_cache' \subseteq EntryType /\ input_cache_clock' \in Nat
<1>1. /\ input_cache' = shared.entries /\ input_cache_clock' = shared.clock
  BY DEF SetCache
<1>2. /\ call'[c] = k
      /\ \A d \in Callers : d # c => call'[d] = call[d]
  BY DEF CudaIInv, CudaTypes
<1>3. /\ shared.entries \subseteq EntryType /\ shared.clock \in Nat
      /\ \A e \in shared.entries : /\ Probe[e.source] = e.identity.probe
                                   /\ e.transposed \in {Absent, e.source}
      /\ \A e, f \in shared.entries : e.identity = f.identity => e = f
      /\ \A d \in Callers : call[d].shared_source # NoSource =>
            \E e \in shared.entries : e.identity = call[d].shared_source.identity
      /\ done /\ shared.source # NoSource =>
            \E e \in shared.entries : e.identity = shared.source.identity
  BY SharedFacts
<1>4. ASSUME NEW d \in Callers, call'[d].shared_source # NoSource
      PROVE  \E e \in shared.entries : e.identity = call'[d].shared_source.identity
  <2>1. CASE d = c
    BY <1>2, <1>3, <1>4, <2>1
  <2>2. CASE d # c
    BY <1>2, <1>3, <1>4, <2>2
  <2> QED
    BY <2>1, <2>2
<1> QED
  BY <1>1, <1>3, <1>4 DEF CacheInv

LEMMA PrepareKeeps ==
    ASSUME CudaIInv, NEW c \in Callers, Prepare(c)
    PROVE  CudaIInv'
<1>1. At(c, "prepare") /\ UNCHANGED <<stop, bounds>>
  BY DEF Prepare
<1>2. PICK within \in BOOLEAN, shared \in SharedSource(c, TRUE) :
         /\ SetSlot(c, Grown(c, IF within THEN Planned(c)
                                          ELSE ResetPlanBuffers(Planned(c))))
         /\ SetCache(shared)
         /\ call' = [call EXCEPT ![c].pc = "run", ![c].shared_source = shared.source,
                                 ![c].plan_cache_hit = within /\ PlanHit(c)]
  BY DEF Prepare
<1>3. PICK old \in CudaCallType : old = call[c]
  BY DEF CudaIInv, CudaTypes
<1>4. /\ CudaCallShape(old) /\ old.pc = "prepare" /\ old.slot # Absent
      /\ old.frame \in Frames /\ old.batch \in Batches
      /\ old.address \in Addresses \cup {Device}
      /\ old.outcome = Absent
  BY <1>1, <1>3, CallFacts DEF At, CudaCallShape
<1>5. /\ shared.source # NoSource =>
            /\ shared.source \in [identity : Identities, source : Frames,
                                  transposed : Frames \cup {Absent}]
            /\ Sharing(old) /\ shared.source.identity = Named(old)
            /\ Stands(old, shared.source.source, shared.source.transposed)
  BY <1>1, <1>3, SharedFacts
<1>6. PICK hit \in BOOLEAN : hit = (within /\ PlanHit(c))
  BY DEF PlanHit
<1>7. PICK k : k = [old EXCEPT !.pc = "run", !.shared_source = shared.source,
                               !.plan_cache_hit = hit]
  OBVIOUS
<1>8. k \in CudaCallType
  <2>1. shared.source \in [identity : Identities \cup {Absent}, source : Content,
                           transposed : Content]
    BY <1>5 DEF NoSource, Content
  <2> QED
    BY <1>7, <2>1 DEF CudaCallType
<1>9. /\ k.pc = "run" /\ k.address = old.address /\ k.frame = old.frame /\ k.batch = old.batch
      /\ k.slot = old.slot /\ k.outcome = Absent /\ k.shared_source = shared.source
      /\ k.plan_cache_hit = hit
  BY <1>4, <1>7 DEF CudaCallType
<1>10. call' = [call EXCEPT ![c] = k]
  BY <1>2, <1>3, <1>6, <1>7 DEF CudaIInv, CudaTypes
<1>11. CudaCallShape(k)
  BY <1>4, <1>5, <1>9 DEF CudaCallShape, Stands, Named, Horizontally, Sharing
<1>12. PICK planned : planned = IF within THEN Planned(c)
                                ELSE ResetPlanBuffers(Planned(c))
  OBVIOUS
<1>13. /\ ReadyFor(k.batch, planned)
       /\ hit => planned.device_plan = k.batch
  BY <1>1, <1>3, <1>6, <1>9, <1>12, PlannedFacts
<1>14. PICK r : r = Grown(c, planned)
  OBVIOUS
<1>15. /\ ReadyFor(k.batch, r) /\ r.device_plan = planned.device_plan /\ RoomFor(old, r)
  BY <1>1, <1>3, <1>13, <1>14, GrownFacts DEF At
<1>16. CudaOwnerShape(k, r)
  <2>1. RoomFor(k, r)
    BY <1>9, <1>15 DEF RoomFor, Sharing, Horizontally
  <2>2. k.outcome # "ok"
    BY <1>9, EngineBoundsOK
  <2> QED
    BY <1>9, <1>13, <1>15, <2>1, <2>2 DEF CudaOwnerShape, RoomFor, ReadyFor
<1>17. slots' = [slots EXCEPT ![call[c].slot] = r]
  BY <1>2, <1>12, <1>14 DEF SetSlot
<1>18. CacheInv' /\ input_cache' \subseteq EntryType /\ input_cache_clock' \in Nat
  BY <1>1, <1>2, <1>8, <1>9, <1>10, CacheTaken
<1>19. r \in CudaSlotType /\ CudaSlotShape(r)
  BY <1>15 DEF ReadyFor
<1>20. UNCHANGED <<stop, calls, input_cache_budget>> /\ failures' \in 0 .. MaxFailures
  BY <1>1 DEF bounds, CudaIInv, CudaTypes
<1> QED
  BY <1>3, <1>4, <1>8, <1>9, <1>10, <1>11, <1>16, <1>17, <1>18, <1>19, <1>20, OwnKeeps

LEMMA PrepareFailsKeeps ==
    ASSUME CudaIInv, NEW c \in Callers, PrepareFails(c)
    PROVE  CudaIInv'
<1>1. /\ At(c, "prepare") /\ failures < MaxFailures /\ failures' = failures + 1
      /\ UNCHANGED <<stop, calls, input_cache_budget>> /\ Finish(c, "error")
  BY DEF PrepareFails
<1>2. /\ call[c].slot # Absent /\ call[c].shared_source = NoSource
      /\ Slot(c) \in CudaSlotType /\ CudaSlotShape(Slot(c))
           /\ Slot(c).busy
  BY <1>1, CudaOwnerFacts DEF At, CudaCallShape, CudaOwnerShape
<1>3. PICK k : k = [call[c] EXCEPT !.pc = "release", !.outcome = "error"]
  OBVIOUS
<1>4. /\ k \in CudaCallType /\ CudaCallShape(k) /\ k.slot = call[c].slot
      /\ k.shared_source = NoSource /\ call' = [call EXCEPT ![c] = k]
      /\ \A slot : slot.busy => CudaOwnerShape(k, slot)
  BY <1>1, <1>2, <1>3, EndedOwner DEF At
<1>5. failures' \in 0 .. MaxFailures
  BY <1>1, EngineBoundsOK DEF CudaIInv, CudaTypes
<1>6. PICK b : b = call[c].batch
  OBVIOUS
\* The slot is left well formed, and the shared frames as well.
<1>7. \A r : SetSlot(c, r) /\ ReadyFor(b, r) /\ CacheInv'
             /\ input_cache' \subseteq EntryType /\ input_cache_clock' \in Nat => CudaIInv'
  <2> SUFFICES ASSUME NEW r, SetSlot(c, r), ReadyFor(b, r), CacheInv',
                      input_cache' \subseteq EntryType, input_cache_clock' \in Nat
               PROVE  CudaIInv'
    OBVIOUS
  <2>1. r \in CudaSlotType /\ CudaSlotShape(r) /\ CudaOwnerShape(k, r)
    BY <1>4 DEF ReadyFor
  <2> QED
    BY <1>1, <1>2, <1>4, <1>5, <2>1, OwnKeeps DEF SetSlot
<1>8. UNCHANGED cache => /\ CacheInv'
                              /\ input_cache' \subseteq EntryType /\ input_cache_clock' \in Nat
  <2>1. \A d \in Callers : call'[d].shared_source \in {NoSource, call[d].shared_source}
    BY <1>4 DEF CudaIInv, CudaTypes
  <2> QED
    BY <2>1, CacheKeeps DEF cache, CudaIInv, CudaTypes
<1>9. \A planned \in {Planned(c), ResetPlanBuffers(Planned(c))} :
         ReadyFor(b, planned)
  BY <1>1, <1>6, PlannedFacts
<1>10. CASE /\ SetSlot(c, [Slot(c) EXCEPT !.plan_ready = FALSE, !.pinned_plan = Garbage])
            /\ UNCHANGED cache
  <2>1. PICK old \in CudaSlotType : old = Slot(c)
    BY <1>2
  <2>2. PICK r : r = [old EXCEPT !.plan_ready = FALSE, !.pinned_plan = Garbage]
    OBVIOUS
  <2>3. r \in CudaSlotType
    BY <2>2 DEF CudaSlotType, CudaPlan
  <2>4. /\ r.busy = old.busy /\ ~r.plan_ready
        /\ r.source_ready = old.source_ready /\ r.outgrown = old.outgrown
        /\ r.device_source = old.device_source
        /\ r.source_identity = old.source_identity
        /\ r.transposed_source_ready = old.transposed_source_ready
        /\ r.transposed = old.transposed
    BY <2>2 DEF CudaSlotType
  <2>5. CudaSlotShape(r) /\ CudaOwnerShape(k, r)
    BY <1>2, <1>4, <2>1, <2>4 DEF CudaSlotShape
  <2>6. slots' = [slots EXCEPT ![call[c].slot] = r]
    BY <1>10, <2>1, <2>2 DEF SetSlot
  <2> QED
    BY <1>1, <1>2, <1>4, <1>5, <1>8, <1>10, <2>3, <2>5, <2>6, OwnKeeps
<1>11. CASE /\ \E planned \in {Planned(c), ResetPlanBuffers(Planned(c))} :
                  \E slot \in GrownPartly(c, planned) : SetSlot(c, slot)
            /\ UNCHANGED cache
  <2>1. PICK planned \in {Planned(c), ResetPlanBuffers(Planned(c))} :
           \E slot \in GrownPartly(c, planned) : SetSlot(c, slot)
    BY <1>11
  <2>2. PICK slot \in GrownPartly(c, planned) : SetSlot(c, slot)
    BY <2>1
  <2>3. ReadyFor(b, slot)
    BY <1>1, <1>9, <2>2, GrownFacts DEF At
  <2> QED
    BY <1>7, <1>8, <1>11, <2>2, <2>3
<1>12. CASE /\ \E planned \in {Planned(c), ResetPlanBuffers(Planned(c))} :
                  SetSlot(c, Grown(c, planned))
            /\ \E shared \in SharedSource(c, FALSE) : shared.tried /\ SetCache(shared)
  <2>1. PICK planned \in {Planned(c), ResetPlanBuffers(Planned(c))} :
           SetSlot(c, Grown(c, planned))
    BY <1>12
  <2>2. PICK shared \in SharedSource(c, FALSE) : SetCache(shared)
    BY <1>12
  <2>3. ReadyFor(b, Grown(c, planned))
    BY <1>1, <1>9, GrownFacts DEF At
  <2>4. CacheInv' /\ input_cache' \subseteq EntryType /\ input_cache_clock' \in Nat
    BY <1>1, <1>4, <2>2, CacheTaken
  <2> QED
    BY <1>7, <2>1, <2>3, <2>4
<1> QED
  BY <1>10, <1>11, <1>12 DEF PrepareFails

LEMMA RunKeeps ==
    ASSUME CudaIInv, NEW c \in Callers, Run(c)
    PROVE  CudaIInv'
<1>1. At(c, "run") /\ UNCHANGED <<cache, stop, bounds>>
  BY DEF Run
<1>2. PICK old \in CudaCallType : old = call[c]
  BY DEF CudaIInv, CudaTypes
<1>3. CudaCallShape(old) /\ old.pc = "run" /\ old.slot # Absent
  BY <1>1, <1>2, CudaOwnerFacts DEF At
<1>4. PICK r : r = Uploaded(c)
  OBVIOUS
<1>5. PICK read : read = Read(c, r)
  OBVIOUS
<1>6. /\ ReadyFor(old.batch, r) /\ r.device_plan = old.batch
      /\ read \in [source : Content, transposed : Content, plan : CudaPlan]
      /\ read.plan = old.batch
      /\ \/ old.shared_source = NoSource /\ r.outgrown
         \/ /\ Stands(old, read.source, read.transposed)
            /\ old.address = Device => read.source = old.frame
  BY <1>1, <1>2, <1>4, <1>5, UploadedFacts DEF OnDevice, Shares
<1>7. failures' \in 0 .. MaxFailures /\ UNCHANGED <<stop, calls, input_cache_budget>>
  BY <1>1 DEF bounds, CudaIInv, CudaTypes
<1>8. CASE /\ SetSlot(c, [r EXCEPT !.plan_ready = TRUE])
           /\ call' = [call EXCEPT ![c].pc = "release", ![c].outcome = "ok", ![c].read = read]
  <2>1. PICK new : new = [r EXCEPT !.plan_ready = TRUE]
    OBVIOUS
  <2>2. new \in CudaSlotType
    BY <1>6, <2>1 DEF ReadyFor, CudaSlotType
  <2>3. /\ new.busy /\ new.identity = old.batch /\ new.pinned_plan = old.batch
        /\ new.device_plan = old.batch
        /\ new.source_ready = r.source_ready /\ new.outgrown = r.outgrown
        /\ new.device_source = r.device_source
        /\ new.source_identity = r.source_identity
        /\ new.transposed_source_ready = r.transposed_source_ready
        /\ new.transposed = r.transposed
    BY <1>6, <2>1 DEF ReadyFor, CudaSlotType
  <2>4. CudaSlotShape(new)
    BY <1>6, <2>3 DEF ReadyFor, CudaSlotShape
  <2>5. PICK k : k = [old EXCEPT !.pc = "release", !.outcome = "ok", !.read = read]
    OBVIOUS
  <2>6. k \in CudaCallType
    BY <1>6, <2>5 DEF CudaCallType
  <2>7. /\ k.pc = "release" /\ k.address = old.address /\ k.frame = old.frame
        /\ k.batch = old.batch /\ k.slot = old.slot /\ k.outcome = "ok" /\ k.read = read
        /\ k.shared_source = old.shared_source
    BY <2>5 DEF CudaCallType
  <2>8. CudaCallShape(k)
    BY <1>3, <2>7, EngineBoundsOK DEF CudaCallShape, Stands, Named, Horizontally
  <2>9. CudaOwnerShape(k, new)
    BY <1>6, <2>3, <2>7 DEF CudaOwnerShape, Stands, Horizontally
  <2>10. call' = [call EXCEPT ![c] = k] /\ slots' = [slots EXCEPT ![call[c].slot] = new]
    BY <1>2, <1>8, <2>1, <2>5 DEF SetSlot, CudaIInv, CudaTypes
  <2> QED
    BY <1>1, <1>2, <1>3, <1>7, <2>2, <2>4, <2>6, <2>7, <2>8, <2>9, <2>10, OwnKeepsCache
<1>9. CASE SetSlot(c, r) /\ Finish(c, "cancelled")
  <2>1. PICK k : k = [call[c] EXCEPT !.pc = "release", !.outcome = "cancelled"]
    OBVIOUS
  <2>2. /\ k \in CudaCallType /\ CudaCallShape(k) /\ k.slot = call[c].slot
        /\ k.shared_source = call[c].shared_source /\ call' = [call EXCEPT ![c] = k]
        /\ \A slot : slot.busy => CudaOwnerShape(k, slot)
    BY <1>1, <1>9, <2>1, EndedOwner DEF At
  <2>3. r \in CudaSlotType /\ CudaSlotShape(r) /\ CudaOwnerShape(k, r)
    BY <1>6, <2>2 DEF ReadyFor
  <2> QED
    BY <1>1, <1>2, <1>3, <1>7, <1>9, <2>2, <2>3, OwnKeepsCache DEF SetSlot
<1> QED
  BY <1>4, <1>5, <1>8, <1>9 DEF Run

LEMMA RunFailsKeeps ==
    ASSUME CudaIInv, NEW c \in Callers, RunFails(c)
    PROVE  CudaIInv'
<1>1. /\ At(c, "run") /\ failures < MaxFailures /\ failures' = failures + 1
      /\ UNCHANGED <<cache, stop, calls, input_cache_budget>> /\ Finish(c, "error")
  BY DEF RunFails
<1>2. PICK r \in {Slot(c), SourceUploaded(c), Uploaded(c)} : SetSlot(c, r)
  BY DEF RunFails
<1>3. call[c].slot # Absent
  BY <1>1, CudaOwnerFacts DEF At
<1>4. r \in CudaSlotType /\ CudaSlotShape(r) /\ r.busy
  BY <1>1, <1>2, CudaOwnerFacts, SourceUploadedFacts, UploadedFacts
  DEF At, CudaOwnerShape, ReadyFor
<1>5. PICK k : k = [call[c] EXCEPT !.pc = "release", !.outcome = "error"]
  OBVIOUS
<1>6. /\ k \in CudaCallType /\ CudaCallShape(k) /\ k.slot = call[c].slot
      /\ k.shared_source = call[c].shared_source /\ call' = [call EXCEPT ![c] = k]
      /\ \A slot : slot.busy => CudaOwnerShape(k, slot)
  BY <1>1, <1>5, EndedOwner DEF At
<1>7. failures' \in 0 .. MaxFailures
  BY <1>1, EngineBoundsOK DEF CudaIInv, CudaTypes
<1> QED
  BY <1>1, <1>2, <1>3, <1>4, <1>6, <1>7, OwnKeepsCache DEF SetSlot

LEMMA CudaInitIInv ==
    ASSUME CudaInit
    PROVE  CudaIInv
<1>1. PICK n \in SlotCounts : slots = [s \in 1 .. n |-> NewSlot]
  BY DEF CudaInit
<1>2. n \in Nat
  BY EngineBoundsOK
<1>3. Slots = 1 .. n /\ \A s \in Slots : slots[s] = NewSlot
  BY <1>1, <1>2 DEF Slots
<1>4. /\ call = [c \in Callers |-> IdleCall] /\ input_cache = {}
      /\ input_cache_clock = 0 /\ input_cache_budget \in Nat
      /\ stop = FALSE /\ calls = 0 /\ failures = 0
  BY EngineBoundsOK DEF CudaInit
<1>5. NewSlot \in CudaSlotType /\ IdleCall \in CudaCallType
  BY DEF NewSlot, CudaSlotType, IdleCall, CudaCallType, NoSource,
         NoRead, Content, CudaPlan
<1>6. CudaTypes
  <2>1. Slots \subseteq Nat /\ slots \in [Slots -> CudaSlotType]
    BY <1>1, <1>2, <1>3, <1>5
  <2>2. calls \in 0 .. MaxCalls /\ failures \in 0 .. MaxFailures
    BY <1>4, EngineBoundsOK
  <2> QED
    BY <1>4, <1>5, <2>1, <2>2 DEF CudaTypes
<1>7. CudaCallsInv
  BY <1>4 DEF CudaCallsInv, CudaCallShape, IdleCall
<1>8. CudaSlotsInv
  BY <1>3 DEF CudaSlotsInv, CudaSlotShape, NewSlot
<1>9. CudaOwnersInv
  BY <1>3, <1>4 DEF CudaOwnersInv, IdleCall, NewSlot
<1>10. CacheInv
  BY <1>4 DEF CacheInv, IdleCall
<1> QED
  BY <1>6, <1>7, <1>8, <1>9, <1>10 DEF CudaIInv

LEMMA CudaNextIInv ==
    ASSUME CudaIInv, [CudaNext]_cudaVars
    PROVE  CudaIInv'
<1>1. CASE \E c \in Callers : Call(c) \/ Work(c) \/ Failure(c)
  BY <1>1, CudaCallKeeps, CudaAcquireSlotKeeps, PrepareKeeps, RunKeeps, ReleaseSlotKeeps,
     PrepareFailsKeeps, RunFailsKeeps DEF Work, Failure
<1>2. CASE RequestStop \/ UNCHANGED cudaVars
  BY <1>2, CudaStopKeeps
<1> QED
  BY <1>1, <1>2 DEF CudaNext

LEMMA CudaInvariance == CudaSpec => []CudaIInv
<1>1. CudaInit => CudaIInv
  BY CudaInitIInv
<1>2. CudaIInv /\ [CudaNext]_cudaVars => CudaIInv'
  BY CudaNextIInv
<1> QED
  BY <1>1, <1>2, PTL DEF CudaSpec

-----------------------------------------------------------------------------
(* What follows from the invariant.                                        *)

LEMMA CudaCardinality ==
    ASSUME NEW S
    PROVE  Cardinality(S) = Cardinality(S)
  BY DEF Cardinality, Cardinality

LEMMA InvResourcesOwned ==
    ASSUME CudaIInv
    PROVE  ResourcesOwned
<1>1. CudaTypeOK
  <2>1. \A c \in Callers : /\ call[c] \in CudaCallType
                           /\ call[c].slot # Absent => call[c].slot \in Slots
    BY DEF CudaIInv, CudaTypes, CudaOwnersInv
  <2>2. \A s \in Slots : slots[s] \in CudaSlotType
    BY DEF CudaIInv, CudaTypes
  <2>3. \A c \in Callers : /\ call[c].address \in Addresses \cup {Device, Absent}
                           /\ call[c].outcome \in {Absent, "ok", "error", "cancelled"}
                           /\ call[c].slot \in Slots \cup {Absent}
    BY <2>1 DEF CudaCallType
  <2>4. \A s \in Slots : slots[s].identity \in Batches \cup {Absent}
    BY <2>2 DEF CudaSlotType
  <2> QED
    BY <2>3, <2>4 DEF CudaIInv, CudaTypes, CudaTypeOK
<1>2. ASSUME NEW s \in Slots
      PROVE  Cardinality({c \in Callers : call[c].slot = s})
                 = (IF slots[s].busy THEN 1 ELSE 0)
  <2>1. s # Absent
    BY EngineBoundsOK DEF CudaIInv, CudaTypes
  <2>2. CASE slots[s].busy
    <3>1. PICK c \in Callers : call[c].slot = s
      BY <2>2 DEF CudaIInv, CudaOwnersInv
    <3>2. {d \in Callers : call[d].slot = s} = {c}
      BY <2>1, <3>1 DEF CudaIInv, CudaOwnersInv
    <3> QED
      BY <2>2, <3>2, FS_Singleton, CudaCardinality
  <2>3. CASE ~slots[s].busy
    <3>1. {d \in Callers : call[d].slot = s} = {}
      BY <2>1, <2>3 DEF CudaIInv, CudaOwnersInv, CudaOwnerShape
    <3> QED
      BY <2>3, <3>1, FS_EmptySet, CudaCardinality
  <2> QED
    BY <2>2, <2>3
<1>3. \A e, f \in input_cache : e.identity = f.identity => e = f
  BY DEF CudaIInv, CacheInv
<1>4. Held \ {Absent} \subseteq {e.identity : e \in input_cache}
  <2> SUFFICES ASSUME NEW c \in Callers, call[c].shared_source.identity # Absent
               PROVE  \E e \in input_cache : e.identity = call[c].shared_source.identity
    BY DEF Held
  <2>1. call[c].shared_source # NoSource
    BY DEF NoSource
  <2> QED
    BY <2>1 DEF CudaIInv, CacheInv
<1> QED
  BY <1>1, <1>2, <1>3, <1>4 DEF ResourcesOwned

LEMMA InvResultFromResident ==
    ASSUME CudaIInv
    PROVE  ResultFromResident
<1> SUFFICES ASSUME NEW c \in Callers, Succeeded(c)
             PROVE  LET read == call[c].read
                    IN /\ read.plan = call[c].batch
                       /\ \/ ~Shares(c) /\ Slot(c).outgrown
                          \/ /\ read.source \in Frames
                             /\ Probe[read.source] = Probe[call[c].frame]
                             /\ NeedsTransposed(c) => read.transposed = read.source
                             /\ OnDevice(c) => read.source = call[c].frame
  BY DEF ResultFromResident
<1>1. CudaOwnerShape(call[c], Slot(c)) /\ call[c].outcome = "ok"
  BY CudaOwnerFacts DEF Succeeded, At
<1> QED
  BY <1>1 DEF CudaOwnerShape, Stands, Horizontally, NeedsTransposed, OnDevice, Shares

\* A slot of the CUDA engine has exactly one call while it is busy and none otherwise, no
\* frame is kept twice among the shared ones, and none that a call uses is evicted, for any
\* number of threads, slots, frames, sizes and batches and any budget.
THEOREM ResourcesOwnedHolds == CudaSpec => []ResourcesOwned
<1>1. CudaIInv => ResourcesOwned
  BY InvResourcesOwned
<1> QED
  BY <1>1, CudaInvariance, PTL

\* The kernels of a successful call read the plans of its batch and its frame, or one that
\* the probe cannot tell from it, transposed from the same frame, whatever was resident, grown,
\* reset, evicted or left by a call that failed; unless the slot's frame has been outgrown.
THEOREM ResultFromResidentHolds == CudaSpec => []ResultFromResident
<1>1. CudaIInv => ResultFromResident
  BY InvResultFromResident
<1> QED
  BY <1>1, CudaInvariance, PTL

-----------------------------------------------------------------------------
(* The bytes of the shared frames: a fold over a set, whichever entry is picked first.    *)

\* What holds at 0 and is handed on holds up to N.
LEMMA CudaUpTo ==
    ASSUME NEW N \in Nat, NEW P, 0 \in P, \A n \in 1 .. N : n - 1 \in P => n \in P
    PROVE  \A n \in 0 .. N : n \in P
<1>1. SUFFICES ASSUME {n \in 0 .. N : n \notin P} # {} PROVE FALSE
  OBVIOUS
<1>2. PICK m \in {n \in 0 .. N : n \notin P} : \A n \in {x \in 0 .. N : x \notin P} : m <= n
  <2>1. {n \in 0 .. N : n \notin P} \subseteq Nat
    OBVIOUS
  <2> QED
    BY <1>1, <2>1, LeastNat
<1>3. m \in 1 .. N /\ m - 1 \in 0 .. N
  BY <1>2
<1>4. m - 1 \in P
  <2>1. m - 1 \notin {x \in 0 .. N : x \notin P}
    BY <1>2, <1>3
  <2> QED
    BY <1>3, <2>1
<1> QED
  BY <1>2, <1>3, <1>4

Picked(s) == CHOOSE x \in s : TRUE
Weighs(S) == IsFiniteSet(S) /\ \A x \in S : x.retained_bytes \in Nat

LEMMA RetainedIs ==
    ASSUME NEW S
    PROVE  Retained(S) =
             (CHOOSE h : h = [s \in SUBSET S |->
                                 IF s = {} THEN 0
                                 ELSE Picked(s).retained_bytes + h[s \ {Picked(s)}]])[S]
  BY DEF Retained, MapThenSumSet, MapThenFoldSet, RetainedBytes, Picked

\* The picked entry, and what is left without it.
LEMMA PickedFacts ==
    ASSUME NEW S, Weighs(S), S # {}
    PROVE  /\ Picked(S) \in S /\ Picked(S).retained_bytes \in Nat
           /\ Weighs(S \ {Picked(S)})
           /\ Cardinality(S) \in Nat \ {0}
           /\ Cardinality(S \ {Picked(S)}) = Cardinality(S) - 1
<1>1. Picked(S) \in S /\ IsFiniteSet(S)
  BY DEF Picked, Weighs
<1>2. /\ IsFiniteSet(S \ {Picked(S)})
      /\ Cardinality(S \ {Picked(S)}) = Cardinality(S) - 1
  BY <1>1, FS_RemoveElement
<1>3. Cardinality(S) \in Nat /\ Cardinality(S) # 0
  BY <1>1, FS_CardinalityType, FS_EmptySet
<1> QED
  BY <1>1, <1>2, <1>3 DEF Weighs

LEMMA PartWeighs ==
    ASSUME NEW S, Weighs(S), NEW T \in SUBSET S
    PROVE  Weighs(T) /\ Cardinality(T) \in Nat /\ Cardinality(T) <= Cardinality(S)
<1>1. IsFiniteSet(S)
  BY DEF Weighs
<1>2. IsFiniteSet(T) /\ Cardinality(T) <= Cardinality(S)
  BY <1>1, FS_Subset
<1> QED
  BY <1>2, FS_CardinalityType DEF Weighs

\* The sums of the parts of S with n entries or fewer.
Parts(S, n) == {s \in SUBSET S : Cardinality(s) <= n}
Sums(h, S, D) == \A s \in D : h[s] = IF s = {} THEN 0
                                     ELSE Picked(s).retained_bytes + h[s \ {Picked(s)}]

LEMMA SumsStep ==
    ASSUME NEW S, Weighs(S), NEW n \in Nat \ {0},
           NEW g \in [Parts(S, n - 1) -> Nat], Sums(g, S, Parts(S, n - 1))
    PROVE  \E h \in [Parts(S, n) -> Nat] : Sums(h, S, Parts(S, n))
<1>1. PICK h : h = [s \in Parts(S, n) |->
                       IF Cardinality(s) = n THEN Picked(s).retained_bytes + g[s \ {Picked(s)}]
                       ELSE g[s]]
  OBVIOUS
<1>2. ASSUME NEW s \in Parts(S, n)
      PROVE  /\ Cardinality(s) # n => s \in Parts(S, n - 1)
             /\ Cardinality(s) = n => s # {}
             /\ s # {} => /\ s \ {Picked(s)} \in Parts(S, n - 1)
                          /\ s \ {Picked(s)} \in Parts(S, n)
                          /\ Cardinality(s \ {Picked(s)}) # n
                          /\ Picked(s).retained_bytes \in Nat
  <2>1. s \in SUBSET S /\ Weighs(s) /\ Cardinality(s) \in Nat /\ Cardinality(s) <= n
    BY PartWeighs DEF Parts
  <2>2. Cardinality(s) # n => Cardinality(s) <= n - 1
    BY <2>1
  <2>3. s = {} => Cardinality(s) = 0
    BY FS_EmptySet
  <2>4. ASSUME s # {}
        PROVE  /\ Cardinality(s \ {Picked(s)}) <= n - 1 /\ Cardinality(s \ {Picked(s)}) <= n
               /\ Cardinality(s \ {Picked(s)}) # n /\ Picked(s).retained_bytes \in Nat
    BY <2>1, <2>4, PickedFacts
  <2>5. s \ {Picked(s)} \in SUBSET S
    BY <2>1
  <2> QED
    BY <2>1, <2>2, <2>3, <2>4, <2>5 DEF Parts
<1>3. ASSUME NEW s \in Parts(S, n)
      PROVE  h[s] \in Nat
  <2>1. CASE Cardinality(s) = n
    <3>1. g[s \ {Picked(s)}] \in Nat /\ Picked(s).retained_bytes \in Nat
      BY <1>2, <2>1
    <3> QED
      BY <1>1, <2>1, <3>1
  <2>2. CASE Cardinality(s) # n
    BY <1>1, <1>2, <2>2
  <2> QED
    BY <2>1, <2>2
<1>4. h \in [Parts(S, n) -> Nat]
  BY <1>1, <1>3
<1>5. ASSUME NEW s \in Parts(S, n)
      PROVE  h[s] = IF s = {} THEN 0 ELSE Picked(s).retained_bytes + h[s \ {Picked(s)}]
  <2>1. CASE s = {}
    <3>1. s \in Parts(S, n - 1) /\ Cardinality(s) # n
      BY <1>2, <2>1
    <3> QED
      BY <1>1, <2>1, <3>1 DEF Sums
  <2>2. CASE s # {}
    <3>1. h[s \ {Picked(s)}] = g[s \ {Picked(s)}]
      BY <1>1, <1>2, <2>2
    <3>2. h[s] = Picked(s).retained_bytes + g[s \ {Picked(s)}]
      <4>1. CASE Cardinality(s) = n
        BY <1>1, <4>1
      <4>2. CASE Cardinality(s) # n
        <5>1. h[s] = g[s] /\ s \in Parts(S, n - 1)
          BY <1>1, <1>2, <4>2
        <5> QED
          BY <2>2, <5>1 DEF Sums
      <4> QED
        BY <4>1, <4>2
    <3> QED
      BY <2>2, <3>1, <3>2
  <2> QED
    BY <2>1, <2>2
<1> QED
  BY <1>4, <1>5 DEF Sums

LEMMA SumsExist ==
    ASSUME NEW S, Weighs(S)
    PROVE  \E h \in [SUBSET S -> Nat] : Sums(h, S, SUBSET S)
<1>1. PICK N \in Nat : N = Cardinality(S)
  BY FS_CardinalityType DEF Weighs
<1>2. PICK P : P = {n \in Nat : \E h \in [Parts(S, n) -> Nat] : Sums(h, S, Parts(S, n))}
  OBVIOUS
<1>3. 0 \in P
  <2>1. Parts(S, 0) = {{}}
    <3>1. \A s \in SUBSET S : Cardinality(s) <= 0 <=> s = {}
      <4> TAKE s \in SUBSET S
      <4>1. IsFiniteSet(s) /\ Cardinality(s) \in Nat
        BY PartWeighs DEF Weighs
      <4>2. Cardinality(s) <= 0 <=> Cardinality(s) = 0
        BY <4>1
      <4> QED
        BY <4>1, <4>2, FS_EmptySet
    <3> QED
      BY <3>1 DEF Parts
  <2>2. PICK h : h = [s \in {{}} |-> 0]
    OBVIOUS
  <2>3. h \in [Parts(S, 0) -> Nat] /\ Sums(h, S, Parts(S, 0))
    BY <2>1, <2>2 DEF Sums
  <2> QED
    BY <1>2, <2>3
<1>4. ASSUME NEW n \in 1 .. N, n - 1 \in P
      PROVE  n \in P
  <2>1. n \in Nat \ {0}
    BY <1>1
  <2>2. PICK g \in [Parts(S, n - 1) -> Nat] : Sums(g, S, Parts(S, n - 1))
    BY <1>2, <1>4
  <2>3. \E h \in [Parts(S, n) -> Nat] : Sums(h, S, Parts(S, n))
    BY <2>1, <2>2, SumsStep
  <2> QED
    BY <1>2, <2>1, <2>3
<1>5. N \in P
  <2>1. \A n \in 0 .. N : n \in P
    BY <1>3, <1>4, CudaUpTo
  <2> QED
    BY <2>1
<1>6. Parts(S, N) = SUBSET S
  BY <1>1, PartWeighs DEF Parts
<1> QED
  BY <1>2, <1>5, <1>6

\* There is one sum only, of a part of S whether it is reckoned in S or in T.
LEMMA SumsAgree ==
    ASSUME NEW S, Weighs(S), NEW T \in SUBSET S, NEW g, NEW h,
           Sums(g, S, SUBSET S), Sums(h, T, SUBSET T)
    PROVE  g[T] = h[T]
<1>1. PICK N \in Nat : N = Cardinality(T) /\ Weighs(T)
  BY PartWeighs
<1>2. PICK P : P = {n \in Nat : \A s \in SUBSET T : Cardinality(s) = n => g[s] = h[s]}
  OBVIOUS
<1>3. 0 \in P
  <2>1. ASSUME NEW s \in SUBSET T, Cardinality(s) = 0
        PROVE  g[s] = h[s]
    <3>1. s = {}
      BY <1>1, <2>1, PartWeighs, FS_EmptySet DEF Weighs
    <3>2. s \in SUBSET S
      OBVIOUS
    <3> QED
      BY <3>1, <3>2 DEF Sums
  <2> QED
    BY <1>2, <2>1
<1>4. ASSUME NEW n \in 1 .. N, n - 1 \in P
      PROVE  n \in P
  <2>1. ASSUME NEW s \in SUBSET T, Cardinality(s) = n
        PROVE  g[s] = h[s]
    <3>1. s # {} /\ s \in SUBSET S
      BY <1>1, <2>1, FS_EmptySet
    <3>2. Cardinality(s \ {Picked(s)}) = n - 1
      <4>1. Weighs(s)
        BY <1>1, PartWeighs
      <4> QED
        BY <2>1, <3>1, <4>1, PickedFacts
    <3>3. g[s \ {Picked(s)}] = h[s \ {Picked(s)}]
      <4>1. s \ {Picked(s)} \in SUBSET T
        OBVIOUS
      <4> QED
        BY <1>2, <1>4, <3>2, <4>1
    <3>4. g[s] = Picked(s).retained_bytes + g[s \ {Picked(s)}]
      BY <3>1 DEF Sums
    <3>5. h[s] = Picked(s).retained_bytes + h[s \ {Picked(s)}]
      BY <3>1 DEF Sums
    <3> QED
      BY <3>3, <3>4, <3>5
  <2>2. n \in Nat
    BY <1>1
  <2> QED
    BY <1>2, <2>1, <2>2
<1>5. N \in P
  <2>1. \A n \in 0 .. N : n \in P
    BY <1>3, <1>4, CudaUpTo
  <2> QED
    BY <2>1
<1> QED
  BY <1>1, <1>2, <1>5

LEMMA RetainedSums ==
    ASSUME NEW S, Weighs(S)
    PROVE  \E h \in [SUBSET S -> Nat] : Sums(h, S, SUBSET S) /\ Retained(S) = h[S]
<1> DEFINE F(h) == h = [s \in SUBSET S |-> IF s = {} THEN 0
                                           ELSE Picked(s).retained_bytes + h[s \ {Picked(s)}]]
<1>1. PICK h \in [SUBSET S -> Nat] : Sums(h, S, SUBSET S)
  BY SumsExist
<1>2. F(h)
  BY <1>1 DEF Sums
<1>3. PICK g : g = CHOOSE f : F(f)
  OBVIOUS
<1>4. F(g)
  <2> HIDE DEF F
  <2> QED
    BY <1>2, <1>3
<1>5. Retained(S) = g[S]
  BY <1>3, RetainedIs
<1>6. Sums(g, S, SUBSET S)
  <2>1. ASSUME NEW s \in SUBSET S
        PROVE  g[s] = IF s = {} THEN 0 ELSE Picked(s).retained_bytes + g[s \ {Picked(s)}]
    BY <1>4
  <2> QED
    BY <2>1 DEF Sums
<1>7. g[S] = h[S]
  BY <1>1, <1>6, SumsAgree
<1> QED
  BY <1>1, <1>5, <1>7

\* No entries retain nothing, and others what one and the rest retain.
LEMMA RetainedFacts ==
    ASSUME NEW S, Weighs(S)
    PROVE  /\ Retained(S) \in Nat
           /\ S = {} => Retained(S) = 0
           /\ S # {} => Retained(S) = Picked(S).retained_bytes + Retained(S \ {Picked(S)})
<1>1. PICK h \in [SUBSET S -> Nat] : Sums(h, S, SUBSET S) /\ Retained(S) = h[S]
  BY RetainedSums
<1>2. S \in SUBSET S
  OBVIOUS
<1>3. S = {} => Retained(S) = 0
  BY <1>1, <1>2 DEF Sums
<1>4. ASSUME S # {}
      PROVE  Retained(S) = Picked(S).retained_bytes + Retained(S \ {Picked(S)})
  <2>1. PICK T \in SUBSET S : T = S \ {Picked(S)}
    OBVIOUS
  <2>2. PICK g \in [SUBSET T -> Nat] : Sums(g, T, SUBSET T) /\ Retained(T) = g[T]
    BY <1>4, <2>1, PickedFacts, RetainedSums
  <2>3. h[T] = g[T]
    BY <1>1, <2>2, SumsAgree
  <2>4. h[S] = Picked(S).retained_bytes + h[T]
    BY <1>1, <1>2, <1>4, <2>1 DEF Sums
  <2> QED
    BY <1>1, <2>1, <2>2, <2>3, <2>4
<1> QED
  BY <1>1, <1>2, <1>3, <1>4

\* Whichever entry is taken out.
LEMMA RetainedWithout ==
    ASSUME NEW S, Weighs(S), NEW e \in S
    PROVE  Retained(S) = e.retained_bytes + Retained(S \ {e})
<1>1. PICK N \in Nat : N = Cardinality(S)
  BY PartWeighs
<1>2. PICK P : P = {n \in Nat : \A s \in SUBSET S : \A x \in s : Cardinality(s) = n =>
                       Retained(s) = x.retained_bytes + Retained(s \ {x})}
  OBVIOUS
<1>3. 0 \in P
  <2>1. \A s \in SUBSET S : \A x \in s : Cardinality(s) # 0
    BY PartWeighs, FS_EmptySet DEF Weighs
  <2> QED
    BY <1>2, <2>1
<1>4. ASSUME NEW n \in 1 .. N, n - 1 \in P
      PROVE  n \in P
  <2>1. ASSUME NEW s \in SUBSET S, NEW x \in s, Cardinality(s) = n
        PROVE  Retained(s) = x.retained_bytes + Retained(s \ {x})
    <3>1. PICK p : p = Picked(s)
      OBVIOUS
    <3>2. /\ Weighs(s) /\ p \in s /\ x.retained_bytes \in Nat /\ p.retained_bytes \in Nat
          /\ Cardinality(s \ {p}) = n - 1 /\ Weighs(s \ {p})
          /\ Retained(s) = p.retained_bytes + Retained(s \ {p})
      <4>1. Weighs(s) /\ s # {}
        BY PartWeighs
      <4> QED
        BY <2>1, <3>1, <4>1, PickedFacts, RetainedFacts DEF Weighs
    <3>3. CASE x = p
      BY <3>2, <3>3
    <3>4. CASE x # p
      <4>1. /\ Weighs(s \ {x}) /\ Cardinality(s \ {x}) = n - 1
            /\ Weighs((s \ {p}) \ {x})
        <5>1. IsFiniteSet(s)
          BY <3>2 DEF Weighs
        <5>2. Cardinality(s \ {x}) = n - 1
          BY <2>1, <5>1, FS_RemoveElement
        <5>3. s \ {x} \in SUBSET s /\ (s \ {p}) \ {x} \in SUBSET s
          OBVIOUS
        <5> QED
          BY <3>2, <5>2, <5>3, PartWeighs
      <4>2. Retained(s \ {p}) = x.retained_bytes + Retained((s \ {p}) \ {x})
        <5>1. s \ {p} \in SUBSET S /\ x \in s \ {p}
          BY <3>4
        <5> QED
          BY <1>2, <1>4, <3>2, <5>1
      <4>3. Retained(s \ {x}) = p.retained_bytes + Retained((s \ {x}) \ {p})
        <5>1. s \ {x} \in SUBSET S /\ p \in s \ {x}
          BY <3>2, <3>4
        <5> QED
          BY <1>2, <1>4, <4>1, <5>1
      <4>4. (s \ {x}) \ {p} = (s \ {p}) \ {x}
        OBVIOUS
      <4>5. Retained((s \ {p}) \ {x}) \in Nat
        BY <4>1, RetainedFacts
      <4>6. PICK total, without, rest : /\ total = Retained(s)
                                        /\ without = Retained(s \ {x})
                                        /\ rest = Retained((s \ {p}) \ {x})
        OBVIOUS
      <4>7. total = p.retained_bytes + (x.retained_bytes + rest)
        BY <3>2, <4>2, <4>6
      <4>8. without = p.retained_bytes + rest
        BY <4>3, <4>4, <4>6
      <4>9. total = x.retained_bytes + without
        <5>1. rest \in Nat
          BY <4>5, <4>6
        <5> QED
          BY <3>2, <4>7, <4>8, <5>1
      <4> QED
        BY <4>6, <4>9
    <3> QED
      BY <3>3, <3>4
  <2>2. n \in Nat
    BY <1>1
  <2> QED
    BY <1>2, <2>1, <2>2
<1>5. N \in P
  <2>1. \A n \in 0 .. N : n \in P
    BY <1>3, <1>4, CudaUpTo
  <2> QED
    BY <2>1
<1> QED
  BY <1>1, <1>2, <1>5

LEMMA RetainedWith ==
    ASSUME NEW S, Weighs(S), NEW e, e \notin S, e.retained_bytes \in Nat
    PROVE  Weighs(S \cup {e}) /\ Retained(S \cup {e}) = Retained(S) + e.retained_bytes
<1>1. Weighs(S \cup {e})
  BY FS_AddElement DEF Weighs
<1>2. (S \cup {e}) \ {e} = S /\ e \in S \cup {e}
  OBVIOUS
<1>3. Retained(S \cup {e}) = e.retained_bytes + Retained(S)
  BY <1>1, <1>2, RetainedWithout
<1>4. Retained(S) \in Nat
  BY RetainedFacts
<1> QED
  BY <1>1, <1>3, <1>4

\* Several entries taken out.
LEMMA RetainedApart ==
    ASSUME NEW S, Weighs(S), NEW T \in SUBSET S
    PROVE  Weighs(S \ T) /\ Retained(S \ T) = Retained(S) - Retained(T)
<1>1. PICK N \in Nat : N = Cardinality(T)
  BY PartWeighs
<1>2. PICK P : P = {n \in Nat : \A s \in SUBSET T : Cardinality(s) = n =>
                       Retained(S \ s) = Retained(S) - Retained(s)}
  OBVIOUS
<1>3. \A s \in SUBSET S : Weighs(s) /\ Retained(s) \in Nat /\ Cardinality(s) \in Nat
  BY PartWeighs, RetainedFacts
<1>4. 0 \in P
  <2>1. ASSUME NEW s \in SUBSET T, Cardinality(s) = 0
        PROVE  Retained(S \ s) = Retained(S) - Retained(s)
    <3>1. Weighs(s) /\ s \in SUBSET S
      BY <1>3
    <3>2. s = {}
      BY <2>1, <3>1, FS_EmptySet DEF Weighs
    <3>3. Retained(s) = 0 /\ S \ s = S
      BY <3>1, <3>2, RetainedFacts
    <3>4. Retained(S) \in Nat
      BY <1>3
    <3> QED
      BY <3>3, <3>4
  <2> QED
    BY <1>2, <2>1
<1>5. ASSUME NEW n \in 1 .. N, n - 1 \in P
      PROVE  n \in P
  <2>1. ASSUME NEW s \in SUBSET T, Cardinality(s) = n
        PROVE  Retained(S \ s) = Retained(S) - Retained(s)
    <3>1. Weighs(s) /\ s # {}
      BY <1>1, <1>3, <2>1, FS_EmptySet
    <3>2. PICK p \in s : p = Picked(s)
      BY <3>1, PickedFacts
    <3>3. PICK r \in SUBSET T : r = s \ {p}
      OBVIOUS
    <3>4. /\ Cardinality(r) = n - 1 /\ p.retained_bytes \in Nat
          /\ Retained(s) = p.retained_bytes + Retained(r)
      BY <2>1, <3>1, <3>2, <3>3, PickedFacts, RetainedFacts
    <3>5. Retained(S \ r) = Retained(S) - Retained(r)
      BY <1>2, <1>5, <3>4
    <3>6. p \in S \ r /\ (S \ r) \ {p} = S \ s /\ S \ r \in SUBSET S /\ S \ s \in SUBSET S
      BY <3>2, <3>3
    <3>7. Retained(S \ r) = p.retained_bytes + Retained(S \ s)
      BY <1>3, <3>6, RetainedWithout
    <3>8. /\ Retained(S \ s) \in Nat /\ Retained(S) \in Nat
          /\ Retained(r) \in Nat
      BY <1>3, <3>6
    <3> QED
      BY <3>4, <3>5, <3>7, <3>8
  <2>2. n \in Nat
    BY <1>1
  <2> QED
    BY <1>2, <2>1, <2>2
<1>6. N \in P
  <2>1. \A n \in 0 .. N : n \in P
    BY <1>4, <1>5, CudaUpTo
  <2> QED
    BY <2>1
<1>7. Retained(S \ T) = Retained(S) - Retained(T)
  BY <1>1, <1>2, <1>6
<1>8. S \ T \in SUBSET S
  OBVIOUS
<1> QED
  BY <1>3, <1>7, <1>8

-----------------------------------------------------------------------------
(* The bytes of the shared frames are accounted for.                       *)

CudaAccounted == Weighs(input_cache) /\ BytesAccounted

LEMMA SharedAccounted ==
    ASSUME CudaIInv, CudaAccounted, NEW c \in Callers, At(c, "prepare"),
           NEW done \in BOOLEAN, NEW shared \in SharedSource(c, done)
    PROVE  /\ Weighs(shared.entries) /\ shared.bytes = Retained(shared.entries)
           /\ shared.bytes <= input_cache_budget
<1> DEFINE k == call[c]
           id == Identity(c)
<1>1. Bytes[k.frame] \in Nat /\ SharedBytes(c) \in Nat
  BY CallFacts DEF At
<1>2. /\ input_cache \subseteq EntryType /\ Weighs(input_cache) /\ input_cache_budget \in Nat
      /\ input_cache_bytes = Retained(input_cache) /\ input_cache_bytes <= input_cache_budget
      /\ input_cache_bytes \in Nat
      /\ \A e, f \in input_cache : e.identity = f.identity => e = f
  <2>1. Retained(input_cache) \in Nat
    BY RetainedFacts DEF CudaAccounted
  <2> QED
    BY <2>1 DEF CudaAccounted, BytesAccounted, CudaIInv, CudaTypes, CacheInv
\* What evictions leave is within the budget as before.
<1>3. ASSUME NEW gone \in SUBSET input_cache
      PROVE  /\ Weighs(input_cache \ gone)
             /\ Retained(input_cache \ gone) = input_cache_bytes - Retained(gone)
             /\ Retained(gone) \in Nat /\ Retained(input_cache \ gone) \in Nat
             /\ input_cache_bytes - Retained(gone) <= input_cache_budget
  <2>1. /\ Weighs(input_cache \ gone)
        /\ Retained(input_cache \ gone) = input_cache_bytes - Retained(gone)
    BY <1>2, RetainedApart
  <2>2. Retained(gone) \in Nat /\ Retained(input_cache \ gone) \in Nat
    BY <1>2, <2>1, PartWeighs, RetainedFacts
  <2> QED
    BY <1>2, <2>1, <2>2
<1>4. CASE ~UsesSharedSource(c)
  <2>1. shared = Shared(input_cache, input_cache_bytes, input_cache_clock,
                            NoSource, FALSE)
    BY <1>4 DEF SharedSource
  <2> QED
    BY <1>2, <2>1 DEF Shared
<1>5. CASE UsesSharedSource(c) /\ \E e \in input_cache : e.identity = id
  <2>1. PICK entry \in input_cache :
           entry.identity = id /\ shared = FoundShared(c, entry, done)
    BY <1>5 DEF SharedSource
  <2> DEFINE upgrade == NeedsTransposed(c) /\ entry.transposed = Absent
             bytes == IF upgrade THEN Bytes[k.frame] ELSE 0
             gone == IF upgrade THEN Evicted(bytes, entry.identity) ELSE {}
             left == input_cache_bytes - Retained(gone)
             fits == upgrade => left <= input_cache_budget - bytes
             added == IF fits /\ done THEN bytes ELSE 0
             used == Used(entry, added)
  <2>2. /\ shared.entries = (input_cache \ (gone \cup {entry})) \cup {used}
        /\ shared.bytes = IF fits /\ done THEN left + bytes ELSE left
    BY <2>1 DEF FoundShared, Shared
  <2>3. gone \in SUBSET input_cache /\ entry \notin gone
    BY <2>1 DEF Evicted, Evictable
  <2>4. bytes \in Nat /\ (~upgrade => bytes = 0)
    BY <1>1
  <2> HIDE DEF gone, bytes, upgrade
  <2>5. /\ Weighs(input_cache \ gone) /\ Retained(input_cache \ gone) = left
        /\ left \in Nat /\ left <= input_cache_budget
    BY <1>3, <2>3
  <2> HIDE DEF left
  <2>6. /\ added \in Nat /\ left + added <= input_cache_budget
        /\ shared.bytes = left + added
    BY <1>2, <2>2, <2>4, <2>5
  <2> HIDE DEF fits, added
  <2>7. entry \in EntryType /\ entry.retained_bytes \in Nat
    BY <1>2, <2>1 DEF EntryType
  <2>8. /\ used.identity = id /\ used.retained_bytes = entry.retained_bytes + added
    BY <2>1, <2>7 DEF Used, EntryType
  <2> HIDE DEF used
  <2>9. PICK rest : rest = (input_cache \ gone) \ {entry}
    OBVIOUS
  <2>10. /\ Weighs(rest) /\ left = entry.retained_bytes + Retained(rest)
         /\ Retained(rest) \in Nat
    <3>1. entry \in input_cache \ gone /\ rest \in SUBSET (input_cache \ gone)
      BY <2>1, <2>3, <2>9
    <3>2. Weighs(rest)
      BY <2>5, <3>1, PartWeighs
    <3> QED
      BY <2>5, <2>9, <3>1, <3>2, RetainedWithout, RetainedFacts
  <2>11. used \notin rest
    BY <1>2, <2>1, <2>8, <2>9
  <2>12. shared.entries = rest \cup {used}
    BY <2>2, <2>9
  <2>13. /\ Weighs(rest \cup {used})
         /\ Retained(rest \cup {used}) = Retained(rest) + used.retained_bytes
    <3>1. used.retained_bytes \in Nat
      BY <2>6, <2>7, <2>8
    <3> QED
      BY <2>10, <2>11, <3>1, RetainedWith
  <2> QED
    BY <2>6, <2>7, <2>8, <2>10, <2>12, <2>13
<1>6. CASE UsesSharedSource(c) /\ ~\E e \in input_cache : e.identity = id
  <2>1. shared = MissShared(c, done)
    BY <1>6 DEF SharedSource
  <2> DEFINE gone == Evicted(SharedBytes(c), Absent)
             left == input_cache_bytes - Retained(gone)
             fits == left <= input_cache_budget - SharedBytes(c)
             entry == [identity |-> id, source |-> k.frame,
                       transposed |-> IF NeedsTransposed(c) THEN k.frame ELSE Absent,
                       retained_bytes |-> SharedBytes(c), last_use |-> input_cache_clock + 1]
  <2>2. shared = IF fits /\ done
                 THEN Shared((input_cache \ gone) \cup {entry}, left + SharedBytes(c),
                                  input_cache_clock + 1, Source(entry), TRUE)
                 ELSE Shared(input_cache \ gone, left, input_cache_clock, NoSource, fits)
    BY <2>1 DEF MissShared
  <2>3. gone \in SUBSET input_cache
    BY DEF Evicted, Evictable
  <2> HIDE DEF gone
  <2>4. /\ Weighs(input_cache \ gone) /\ Retained(input_cache \ gone) = left
        /\ left \in Nat /\ left <= input_cache_budget
    BY <1>3, <2>3
  <2>5. entry.identity = id /\ entry.retained_bytes = SharedBytes(c)
    OBVIOUS
  <2> HIDE DEF entry, left
  <2>6. CASE fits /\ done
    <3>1. /\ shared.entries = (input_cache \ gone) \cup {entry}
          /\ shared.bytes = left + SharedBytes(c)
      BY <2>2, <2>6 DEF Shared
    <3>2. entry \notin input_cache \ gone
      BY <1>6, <2>5
    <3>3. /\ Weighs((input_cache \ gone) \cup {entry})
          /\ Retained((input_cache \ gone) \cup {entry}) = left + SharedBytes(c)
      BY <1>1, <2>4, <2>5, <3>2, RetainedWith
    <3>4. left + SharedBytes(c) <= input_cache_budget
      BY <1>1, <1>2, <2>4, <2>6
    <3> QED
      BY <3>1, <3>3, <3>4
  <2>7. CASE ~(fits /\ done)
    <3>1. shared.entries = input_cache \ gone /\ shared.bytes = left
      BY <2>2, <2>7 DEF Shared
    <3> QED
      BY <2>4, <3>1
  <2> QED
    BY <2>6, <2>7
<1> QED
  BY <1>4, <1>5, <1>6

\* The shared frames change only as a call prepares.
LEMMA CacheChanges ==
    ASSUME [CudaNext]_cudaVars
    PROVE  /\ UNCHANGED input_cache_budget
           /\ \/ UNCHANGED <<input_cache, input_cache_bytes>>
              \/ \E c \in Callers, done \in BOOLEAN :
                    /\ At(c, "prepare")
                    /\ \E shared \in SharedSource(c, done) : SetCache(shared)
<1>1. ASSUME NEW c \in Callers, Prepare(c)
      PROVE  /\ UNCHANGED input_cache_budget /\ At(c, "prepare")
             /\ \E shared \in SharedSource(c, TRUE) : SetCache(shared)
  BY <1>1 DEF Prepare, bounds
<1>2. ASSUME NEW c \in Callers, PrepareFails(c)
      PROVE  /\ UNCHANGED input_cache_budget /\ At(c, "prepare")
             /\ \/ UNCHANGED cache
                \/ \E shared \in SharedSource(c, FALSE) : SetCache(shared)
  BY <1>2 DEF PrepareFails
<1>3. ASSUME NEW c \in Callers,
             \/ Call(c) \/ AcquireSlot(c) \/ ReleaseSlot(c) \/ Run(c)
             \/ RunFails(c)
      PROVE  UNCHANGED <<input_cache_budget, cache>>
  BY <1>3 DEF Call, AcquireSlot, ReleaseSlot, Run, RunFails,
              bounds
<1>4. RequestStop \/ UNCHANGED cudaVars => UNCHANGED <<input_cache_budget, cache>>
  BY DEF RequestStop, cudaVars, bounds
<1>5. UNCHANGED cache => UNCHANGED <<input_cache, input_cache_bytes>>
  BY DEF cache
<1>6. CASE \E c \in Callers : Call(c) \/ Work(c) \/ Failure(c)
  <2>1. PICK c \in Callers : Call(c) \/ Work(c) \/ Failure(c)
    BY <1>6
  <2> QED
    BY <1>1, <1>2, <1>3, <1>5, <2>1 DEF Work, Failure
<1> QED
  BY <1>4, <1>5, <1>6 DEF CudaNext

LEMMA AccountedKept ==
    ASSUME CudaIInv, CudaAccounted, [CudaNext]_cudaVars
    PROVE  CudaAccounted'
<1>1. UNCHANGED input_cache_budget
  BY CacheChanges
<1>2. CASE UNCHANGED <<input_cache, input_cache_bytes>>
  <2>1. Weighs(input_cache') /\ Retained(input_cache') = Retained(input_cache)
    BY <1>2 DEF CudaAccounted
  <2> QED
    BY <1>1, <1>2, <2>1 DEF CudaAccounted, BytesAccounted
<1>3. CASE \E c \in Callers, done \in BOOLEAN :
              /\ At(c, "prepare")
              /\ \E shared \in SharedSource(c, done) : SetCache(shared)
  <2>1. PICK c \in Callers, done \in BOOLEAN :
           /\ At(c, "prepare")
           /\ \E shared \in SharedSource(c, done) : SetCache(shared)
    BY <1>3
  <2>2. PICK shared \in SharedSource(c, done) : SetCache(shared)
    BY <2>1
  <2>3. PICK entries, bytes : entries = shared.entries /\ bytes = shared.bytes
    OBVIOUS
  <2>4. /\ Weighs(entries) /\ bytes = Retained(entries) /\ bytes <= input_cache_budget
    BY <2>1, <2>3, SharedAccounted
  <2>5. input_cache' = entries /\ input_cache_bytes' = bytes
    BY <2>2, <2>3 DEF SetCache
  <2> QED
    BY <1>1, <2>4, <2>5 DEF CudaAccounted, BytesAccounted
<1> QED
  BY <1>2, <1>3, CacheChanges

\* The bytes the engine counts for the shared frames are those of the frames it has, within
\* the budget, whatever was evicted to make room, upgraded later or given up by a call that
\* failed, for any number of threads and frames of any sizes and any budget.
THEOREM BytesAccountedHolds == CudaSpec => []BytesAccounted
<1>1. CudaInit => CudaAccounted
  <2> SUFFICES ASSUME CudaInit PROVE CudaAccounted
    OBVIOUS
  <2>1. input_cache = {} /\ input_cache_bytes = 0 /\ input_cache_budget \in Nat
    BY EngineBoundsOK DEF CudaInit
  <2>2. Weighs({})
    BY FS_EmptySet DEF Weighs
  <2>3. Retained({}) = 0
    BY <2>2, RetainedFacts
  <2> QED
    BY <2>1, <2>2, <2>3 DEF CudaAccounted, BytesAccounted
<1>2. CudaIInv /\ CudaAccounted /\ [CudaNext]_cudaVars => CudaAccounted'
  BY AccountedKept
<1>3. CudaAccounted => BytesAccounted
  BY DEF CudaAccounted
<1> QED
  BY <1>1, <1>2, <1>3, CudaInvariance, PTL DEF CudaSpec
=============================================================================
