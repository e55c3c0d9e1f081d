------------------------- MODULE MediaVerifyJob_proof -------------------------
(***************************************************************************)
(* Proofs about MediaVerifyJob, for any number of selected frames, any       *)
(* concurrency and any batch size.                                         *)
(*                                                                         *)
(* Which results a client has seen is a matter of two places, the progress  *)
(* events and the batch that waits, and ResultsKept says that they are together     *)
(* what was collected.  Whether a frame can be collected again is a matter   *)
(* of both pipelines: a frame is at one place of a pipeline and at none once  *)
(* it is collected (OnePlace), also in the software pipeline that is given   *)
(* what the hardware pipeline left.  That a normal return leaves nothing      *)
(* needs that each frame is at some place (NoneLost), and that the progress   *)
(* has then reached the total needs to know who will report the latest count *)
(* (ProgressFollows).                                                       *)
(*                                                                         *)
(* A second part, at the end, is about PlanSupply.                          *)
(***************************************************************************)
EXTENDS MediaVerifyJob, PlanSupply, TLAPS, FiniteSetTheorems, WellFoundedInduction

Held == pl.left \cup pl.queue \cup pl.working \cup {a.frame : a \in pl.analyzed}

\* What was collected: each frame once, under its own seq, and counted; what has been
\* sent and what waits in the batch is all of it.
ResultsKept ==
    /\ final_frames \in Seq(Result) /\ delivered \in Seq(Result) /\ result_batch \in Seq(Result)
    /\ \A i \in DOMAIN final_frames : final_frames[i].seq = final_frames[i].identity
    /\ \A i, j \in DOMAIN final_frames : final_frames[i].seq = final_frames[j].seq => i = j
    /\ finished_seqs = {final_frames[i].seq : i \in DOMAIN final_frames}
    /\ completed = Len(final_frames) /\ completed = Cardinality(finished_seqs)
    /\ delivered \o result_batch = final_frames
    /\ Len(result_batch) < BatchSize

\* The job's phases and what it has done before each.
Phases ==
    /\ backend \in {"cpu", "gpu", "metal"} /\ automatic \in BOOLEAN
    /\ phase \in {"index", "plan", "hardware", "software", "ended"}
    /\ hardware \in BOOLEAN /\ cancel_requested \in BOOLEAN /\ stop \in BOOLEAN
    /\ fallbacks \in 0 .. 1
    /\ hardware => fallbacks = 0
    /\ phase = "hardware" => hardware
    /\ phase \in {"index", "plan"} => final_frames = <<>> /\ progress_completed = 0
    /\ ~Running => pl = NoPipeline
    /\ terminal.type \in {"none", "result", "error", "cancelled"}
    /\ phase # "ended" => terminal = NoEvent

PipelineTypes ==
    /\ pl \in [original : Seq(Seqs), left : SUBSET Nat, queue : SUBSET Nat, working : SUBSET Nat,
               analyzed : SUBSET [frame : Nat, done : Nat], done : Nat,
               decoder : {"running", "ended", "failed"}, failure : {"none", "cancelled", "error", "std"}]
    /\ progress_completed \in Nat
    /\ Held \subseteq DOMAIN pl.original
    /\ IsFiniteSet(pl.analyzed)
    /\ \A a \in pl.analyzed : a.done <= pl.done
    /\ Cardinality(pl.queue \cup pl.working) <= Concurrency

\* A frame is at one place of the pipeline, and at none once it is collected.
OnePlace ==
    /\ \A i, j \in DOMAIN pl.original : pl.original[i] = pl.original[j] => i = j
    /\ pl.left \cap pl.queue = {} /\ pl.left \cap pl.working = {} /\ pl.queue \cap pl.working = {}
    /\ \A a \in pl.analyzed : a.frame \notin pl.left \cup pl.queue \cup pl.working
    /\ \A a, b \in pl.analyzed : a.frame = b.frame => a = b
    /\ \A i \in Held : pl.original[i] \notin finished_seqs

\* The pipeline was given all frames that were not collected, and loses none of them
\* before an analysis fails or the job is stopped.
NoneLost ==
    /\ Running => \A s \in Seqs : s \in finished_seqs \/ \E i \in DOMAIN pl.original : pl.original[i] = s
    /\ pl.failure = "none" /\ ~stop =>
          \A i \in DOMAIN pl.original : i \in Held \/ pl.original[i] \in finished_seqs
    /\ pl.decoder = "ended" /\ pl.failure = "none" => pl.left = {}

\* The count an analysis has taken is that of the results there will be; the latest
\* reaches the progress when its result is collected.
ProgressFollows ==
    /\ phase = "hardware" =>
          /\ pl.done = completed + Cardinality(pl.analyzed)
          /\ progress_completed <= pl.done
          /\ \/ pl.done = 0 \/ progress_completed = pl.done
             \/ \E a \in pl.analyzed : a.done = pl.done
    /\ phase = "software" => progress_completed = completed

JobInv == ResultsKept /\ Phases /\ PipelineTypes /\ OnePlace /\ NoneLost /\ ProgressFollows /\ TerminalAgrees

-----------------------------------------------------------------------------
(* Numbers and sequences.                                                  *)

\* A set of numbers has a least one.
LEMMA LeastNat ==
    ASSUME NEW S, S \subseteq Nat, S # {}
    PROVE  \E x \in S : \A y \in S : x <= y
<1>1. PICK x \in S : \A y \in S : ~ (<<y, x>> \in OpToRel(<, Nat))
  BY NatLessThanWellFounded, WFMin
<1>2. \A y \in S : ~(y < x)
  BY <1>1 DEF OpToRel
<1>3. QED
  BY <1>2

\* A set of numbers up to n that has one has a greatest.
LEMMA GreatestNat ==
    ASSUME NEW n \in Nat, NEW S, S \subseteq 0 .. n, S # {}
    PROVE  \E x \in S : \A y \in S : y <= x
<1> DEFINE above == {u \in Nat : \A y \in S : y <= u}
<1>1. n \in above
  OBVIOUS
<1>2. PICK u \in above : \A v \in above : u <= v
  BY <1>1, LeastNat
<1>3. u \in S
  <2>1. SUFFICES ASSUME u \notin S PROVE FALSE
    OBVIOUS
  <2>2. \A y \in S : y < u
    BY <1>2, <2>1
  <2>3. PICK y \in S : TRUE
    OBVIOUS
  <2>4. y \in 0 .. n /\ y < u
    BY <2>2
  <2>5. u - 1 \in Nat
    BY <2>4, <1>2
  <2>6. u - 1 \in above
    BY <2>2, <2>5
  <2>7. QED
    BY <2>6, <1>2
<1>4. QED
  BY <1>2, <1>3

\* A finite set of numbers can be listed in its order.
LEMMA AscendingExists ==
    ASSUME NEW n \in Nat, NEW S, S \subseteq 0 .. n
    PROVE  \E s \in [1 .. Cardinality(S) -> S] :
              ToSet(s) = S /\ \A i, j \in DOMAIN s : i < j => s[i] < s[j]
<1> DEFINE Listed(T) == \E s \in [1 .. Cardinality(T) -> T] :
                           ToSet(s) = T /\ \A i, j \in DOMAIN s : i < j => s[i] < s[j]
           bad == {k \in Nat : \E T \in SUBSET (0 .. n) : Cardinality(T) = k /\ ~Listed(T)}
<1>1. IsFiniteSet(0 .. n)
  BY FS_Interval
<1>2. bad = {}
  <2>1. SUFFICES ASSUME bad # {} PROVE FALSE
    OBVIOUS
  <2>2. bad \subseteq Nat
    OBVIOUS
  <2> HIDE DEF Listed
  <2>3. PICK k \in bad : \A l \in bad : k <= l
    BY <2>1, <2>2, LeastNat
  <2>4. PICK T \in SUBSET (0 .. n) : Cardinality(T) = k /\ ~Listed(T)
    BY <2>3
  <2>5. IsFiniteSet(T)
    BY <1>1, FS_Subset
  <2>6. T # {}
    <3>1. SUFFICES ASSUME T = {} PROVE FALSE
      OBVIOUS
    <3>2. Cardinality(T) = 0
      BY <3>1, FS_EmptySet
    <3>3. 1 .. Cardinality(T) = {}
      BY <3>2
    <3> DEFINE e == [i \in {} |-> i]
    <3>4. e \in [1 .. Cardinality(T) -> T] /\ DOMAIN e = {}
      BY <3>3
    <3>5. ToSet(e) = T
      BY <3>1, <3>4 DEF ToSet
    <3> HIDE DEF e
    <3>6. Listed(T)
      BY <3>4, <3>5 DEF Listed
    <3>7. QED
      BY <3>6, <2>4
  <2>7. PICK m \in T : \A y \in T : y <= m
    BY <2>6, GreatestNat
  <2> DEFINE U == T \ {m}
  <2>8. IsFiniteSet(U) /\ Cardinality(U) = k - 1 /\ Cardinality(T) \in Nat
    BY <2>4, <2>5, <2>7, FS_RemoveElement, FS_CardinalityType
  <2>8a. Cardinality(U) \in Nat
    BY <2>8, FS_CardinalityType
  <2>9. k \in Nat /\ k - 1 \in Nat
    BY <2>8, <2>8a, <2>3
  <2>10. k - 1 \notin bad
    BY <2>3, <2>9
  <2>11. Listed(U)
    <3>1. U \in SUBSET (0 .. n)
      BY <2>4
    <3>2. QED
      BY <3>1, <2>8, <2>9, <2>10
  <2>12. PICK s \in [1 .. k - 1 -> U] :
            ToSet(s) = U /\ \A i, j \in DOMAIN s : i < j => s[i] < s[j]
    BY <2>11, <2>8 DEF Listed
  <2> DEFINE t == [i \in 1 .. k |-> IF i = k THEN m ELSE s[i]]
  <2>13. \A i \in 1 .. k : i # k => i \in 1 .. k - 1 /\ i \in DOMAIN s
    BY <2>9
  <2>14. t \in [1 .. k -> T] /\ DOMAIN t = 1 .. k
    BY <2>7, <2>12, <2>13
  <2>15. ToSet(t) = T
    <3>1. \A x \in T : \E i \in DOMAIN t : t[i] = x
      <4>1. TAKE x \in T
      <4>2. CASE x = m
        <5>1. k \in 1 .. k
          BY <2>8, <2>8a, <2>9
        <5>2. QED
          BY <4>2, <5>1
      <4>3. CASE x # m
        <5>1. x \in ToSet(s)
          BY <4>3, <2>12
        <5>2. PICK i \in DOMAIN s : s[i] = x
          BY <5>1 DEF ToSet
        <5>3. i \in 1 .. k /\ i # k
          BY <2>9, <2>12
        <5>4. QED
          BY <5>2, <5>3
      <4>4. QED
        BY <4>2, <4>3
    <3>2. \A i \in DOMAIN t : t[i] \in T
      BY <2>14
    <3> HIDE DEF t
    <3>3. {t[i] : i \in DOMAIN t} = T
      BY <3>1, <3>2
    <3>4. QED
      BY <3>3 DEF ToSet
  <2>16. \A i, j \in DOMAIN t : i < j => t[i] < t[j]
    <3>1. TAKE i, j \in DOMAIN t
    <3>2. HAVE i < j
    <3>3. i \in 1 .. k - 1 /\ i \in DOMAIN s /\ t[i] = s[i] /\ s[i] \in U
      BY <3>2, <2>9, <2>12
    <3>4. CASE j = k
      <4>1. t[j] = m
        BY <3>4
      <4>2. s[i] \in T /\ s[i] # m
        BY <3>3
      <4>2a. \A x \in T : x \in Int
        BY <2>4
      <4>2b. s[i] \in Int /\ m \in Int /\ s[i] <= m /\ s[i] # m
        BY <4>2, <4>2a, <2>7
      <4>3. QED
        BY <4>1, <4>2b, <3>3
    <3>5. CASE j # k
      <4>1. j \in DOMAIN s /\ t[j] = s[j]
        BY <3>5, <2>12, <2>13
      <4>2. QED
        BY <4>1, <3>2, <3>3, <2>12
    <3>6. QED
      BY <3>4, <3>5
  <2> HIDE DEF t
  <2>17. Listed(T)
    BY <2>4, <2>14, <2>15, <2>16 DEF Listed
  <2>18. QED
    BY <2>17, <2>4
<1>3. IsFiniteSet(S)
  BY <1>1, FS_Subset
<1>4. Cardinality(S) \in Nat
  BY <1>3, FS_CardinalityType
<1> HIDE DEF Listed
<1>5. Listed(S)
  BY <1>2, <1>4
<1>6. QED
  BY <1>5 DEF Listed

\* What a pipeline is given: each of the frames once.
LEMMA AscendingLists ==
    ASSUME NEW S, S \subseteq Seqs
    PROVE  /\ Ascending(S) \in Seq(Seqs)
           /\ ToSet(Ascending(S)) = S
           /\ \A i, j \in DOMAIN Ascending(S) : Ascending(S)[i] = Ascending(S)[j] => i = j
<1> DEFINE s == Ascending(S)
<1>1. SelectedFrames \in Nat /\ S \subseteq 0 .. SelectedFrames
  BY JobBoundsOK DEF Seqs
<1>2. s \in [1 .. Cardinality(S) -> S] /\ ToSet(s) = S
         /\ \A i, j \in DOMAIN s : i < j => s[i] < s[j]
  BY <1>1, AscendingExists DEF Ascending
<1> HIDE DEF s
<1>3. IsFiniteSet(S)
  <2>1. 0 \in Int /\ SelectedFrames \in Int
    BY <1>1
  <2>2. IsFiniteSet(0 .. SelectedFrames)
    BY <2>1, FS_Interval
  <2>3. QED
    BY <1>1, <2>2, FS_Subset
<1>4. Cardinality(S) \in Nat
  BY <1>3, FS_CardinalityType
<1>5. s \in Seq(S)
  BY <1>2, <1>4
<1>6. s \in Seq(Seqs)
  BY <1>2, <1>4
<1>7. ASSUME NEW i \in DOMAIN s, NEW j \in DOMAIN s, s[i] = s[j] PROVE i = j
  <2>0. i \in 1 .. Cardinality(S) /\ j \in 1 .. Cardinality(S) /\ s[i] \in S /\ s[j] \in S
    BY <1>2
  <2>0a. (\A x \in S : x \in Int) /\ \A k \in 1 .. Cardinality(S) : k \in Nat
    BY <1>1, <1>4
  <2>1. i \in Nat /\ j \in Nat /\ s[i] \in Int /\ s[j] \in Int
    BY <2>0, <2>0a
  <2>2. ~(i < j) /\ ~(j < i)
    BY <1>2, <1>7, <2>1
  <2>3. QED
    BY <2>1, <2>2
<1>8. QED
  BY <1>2, <1>6, <1>7 DEF s

\* Of n numbers below n in ascending order each is its place.
LEMMA AscendingIsIdentity ==
    ASSUME NEW n \in Nat, NEW g \in [1 .. n -> 0 .. n - 1],
           \A i, j \in 1 .. n : i < j => g[i] < g[j]
    PROVE  \A i \in 1 .. n : g[i] = i - 1
<1> DEFINE low == {k \in 1 .. n : g[k] < k - 1}
           high == {k \in 1 .. n : g[k] > k - 1}
<1>1. low = {}
  <2>1. SUFFICES ASSUME low # {} PROVE FALSE
    OBVIOUS
  <2>2. low \subseteq Nat
    OBVIOUS
  <2>3. PICK k \in low : \A l \in low : k <= l
    BY <2>1, <2>2, LeastNat
  <2>4. k \in 1 .. n /\ g[k] \in 0 .. n - 1 /\ g[k] < k - 1
    BY <2>3
  <2>5. k - 1 \in 1 .. n /\ k - 1 < k
    BY <2>4
  <2>6. g[k - 1] < g[k] /\ g[k - 1] \in 0 .. n - 1
    BY <2>4, <2>5
  <2>7. k - 1 \in low
    BY <2>4, <2>5, <2>6
  <2>8. QED
    BY <2>3, <2>4, <2>7
<1>2. high = {}
  <2>1. SUFFICES ASSUME high # {} PROVE FALSE
    OBVIOUS
  <2>2. high \subseteq 0 .. n
    OBVIOUS
  <2>3. PICK k \in high : \A l \in high : l <= k
    BY <2>1, <2>2, GreatestNat
  <2>4. k \in 1 .. n /\ g[k] \in 0 .. n - 1 /\ g[k] > k - 1
    BY <2>3
  <2>5. k + 1 \in 1 .. n /\ k < k + 1
    BY <2>4
  <2>6. g[k] < g[k + 1] /\ g[k + 1] \in 0 .. n - 1
    BY <2>4, <2>5
  <2>7. k + 1 \in high
    BY <2>4, <2>5, <2>6
  <2>8. QED
    BY <2>3, <2>4, <2>7
<1>3. ASSUME NEW i \in 1 .. n PROVE g[i] = i - 1
  <2>1. g[i] \in 0 .. n - 1
    OBVIOUS
  <2>2. ~(g[i] < i - 1) /\ ~(g[i] > i - 1)
    BY <1>1, <1>2
  <2>3. g[i] \in Int /\ i \in Int
    BY <2>1
  <2>4. QED
    BY <2>2, <2>3
<1>4. QED
  BY <1>3

\* All selected frames, each once and under its own seq, sorted by seq.
LEMMA SortedFrames ==
    ASSUME NEW frames \in Seq(Result),
           \A i \in DOMAIN frames : frames[i].seq = frames[i].identity,
           \A i, j \in DOMAIN frames : frames[i].seq = frames[j].seq => i = j,
           {frames[i].seq : i \in DOMAIN frames} = Seqs, Len(frames) = SelectedFrames
    PROVE  /\ BySeq(frames) = [s \in 1 .. SelectedFrames |-> [seq |-> s - 1, identity |-> s - 1]]
           /\ ToSet(BySeq(frames)) = ToSet(frames)
<1> DEFINE D == 1 .. SelectedFrames
           Sorts(p) == /\ IsInjective(p)
                       /\ \A i, j \in D : i < j => frames[p[i]].seq <= frames[p[j]].seq
           order == CHOOSE p \in [D -> D] : Sorts(p)
           place == [i \in D |-> CHOOSE k \in D : frames[k].seq = i - 1]
<1>1. DOMAIN frames = D /\ SelectedFrames \in Nat
  BY JobBoundsOK
<1>2. BySeq(frames) = [i \in D |-> frames[order[i]]]
  BY <1>1 DEF BySeq
<1>3. \A k \in D : frames[k] \in Result /\ frames[k].seq \in 0 .. SelectedFrames - 1
                   /\ frames[k] = [seq |-> frames[k].seq, identity |-> frames[k].seq]
  <2>1. TAKE k \in D
  <2>2. frames[k] \in Result
    BY <1>1
  <2>3. frames[k].seq = frames[k].identity
    BY <1>1
  <2>4. frames[k] = [seq |-> frames[k].seq, identity |-> frames[k].identity]
    BY <2>2 DEF Result
  <2>5. QED
    BY <2>2, <2>3, <2>4 DEF Result, Seqs
<1>4. \A i \in D : \E k \in D : frames[k].seq = i - 1
  <2>1. TAKE i \in D
  <2>2. i - 1 \in Seqs
    BY <1>1 DEF Seqs
  <2>3. i - 1 \in {frames[k].seq : k \in D}
    BY <2>2, <1>1
  <2>4. QED
    BY <2>3
<1>5. \A i \in D : place[i] \in D /\ frames[place[i]].seq = i - 1
  BY <1>4
<1>6. place \in [D -> D] /\ DOMAIN place = D
  BY <1>5
<1>6a. \A i \in D : i \in Nat
  BY <1>1
<1> HIDE DEF place
<1>7. Sorts(place)
  <2>1. IsInjective(place)
    <3>1. SUFFICES ASSUME NEW a \in D, NEW b \in D, place[a] = place[b] PROVE a = b
      BY <1>6 DEF IsInjective
    <3>2. a - 1 = b - 1
      BY <1>5, <3>1
    <3>3. QED
      BY <3>2, <1>6a
  <2>2. \A i, j \in D : i < j => frames[place[i]].seq <= frames[place[j]].seq
    BY <1>5, <1>6a
  <2>3. QED
    BY <2>1, <2>2
<1> HIDE DEF Sorts
<1>8. order \in [D -> D] /\ Sorts(order)
  BY <1>6, <1>7
<1> HIDE DEF order
<1> DEFINE g == [i \in D |-> frames[order[i]].seq]
<1>9. g \in [D -> 0 .. SelectedFrames - 1]
  BY <1>3, <1>8
<1>10. \A i, j \in D : i < j => g[i] < g[j]
  <2>1. TAKE i, j \in D
  <2>2. HAVE i < j
  <2>3. g[i] <= g[j]
    BY <1>8, <2>2 DEF Sorts
  <2>4. order[i] \in D /\ order[j] \in D /\ order[i] # order[j]
    <3>1. order[i] = order[j] => i = j
      BY <1>8 DEF Sorts, IsInjective
    <3>2. QED
      BY <3>1, <2>2, <1>6a, <1>8
  <2>5. g[i] # g[j]
    BY <2>4, <1>1
  <2>6. g[i] \in Int /\ g[j] \in Int
    BY <1>9
  <2>7. QED
    BY <2>3, <2>5, <2>6
<1> HIDE DEF g
<1>11. \A i \in D : g[i] = i - 1
  BY <1>1, <1>9, <1>10, AscendingIsIdentity
<1>12. \A i \in D : order[i] \in D /\ frames[order[i]].seq = i - 1
  BY <1>8, <1>11 DEF g
<1>13. \A i \in D : frames[order[i]] = [seq |-> i - 1, identity |-> i - 1]
  BY <1>3, <1>12
<1>14. ToSet(BySeq(frames)) = ToSet(frames)
  <2>1. \A k \in D : \E i \in D : order[i] = k
    <3>1. TAKE k \in D
    <3>2. frames[k].seq + 1 \in D
      BY <1>1, <1>3
    <3>3. frames[order[frames[k].seq + 1]].seq = frames[k].seq
      <4>1. frames[order[frames[k].seq + 1]].seq = (frames[k].seq + 1) - 1
        BY <1>12, <3>2
      <4>2. frames[k].seq \in Int
        BY <1>3
      <4>3. QED
        BY <4>1, <4>2
    <3>4. order[frames[k].seq + 1] = k
      BY <3>2, <3>3, <1>1, <1>12
    <3>5. QED
      BY <3>2, <3>4
  <2>2. {frames[order[i]] : i \in D} = {frames[k] : k \in D}
    <3> HIDE DEF D
    <3>1. \A i \in D : order[i] \in D
      BY <1>12
    <3>2. QED
      BY <2>1, <3>1
  <2>3. {BySeq(frames)[i] : i \in DOMAIN BySeq(frames)} = {frames[order[i]] : i \in D}
    BY <1>2
  <2>4. QED
    BY <2>2, <2>3, <1>1 DEF ToSet
<1>15. QED
  BY <1>2, <1>13, <1>14

LEMMA BatchGrows ==
    ASSUME NEW R, NEW d \in Seq(R), NEW b \in Seq(R), NEW x \in R
    PROVE  /\ d \o Append(b, x) = Append(d \o b, x)
           /\ d \o Append(b, x) \in Seq(R) /\ Append(b, x) \in Seq(R)
           /\ (d \o Append(b, x)) \o <<>> = Append(d \o b, x)
           /\ (d \o b) \o <<>> = d \o b /\ d \o b \in Seq(R)
  OBVIOUS

-----------------------------------------------------------------------------
(* What a step leaves alone, and what a pipeline starts and ends with.      *)

LEMMA KeptFrame ==
    ASSUME ResultsKept, UNCHANGED <<results, delivered>>
    PROVE  ResultsKept'
  BY DEF ResultsKept, results

LEMMA CompletedIsNat ==
    ASSUME ResultsKept
    PROVE  completed \in Nat
<1>1. final_frames \in Seq(Result) /\ completed = Len(final_frames)
  BY DEF ResultsKept
<1> HIDE DEF Result
<1>2. QED
  BY <1>1

LEMMA FinishedAreSeqs ==
    ASSUME ResultsKept
    PROVE  finished_seqs \subseteq Seqs
<1>1. final_frames \in Seq(Result)
      /\ finished_seqs = {final_frames[i].seq : i \in DOMAIN final_frames}
  BY DEF ResultsKept
<1>2. \A r \in Result : r.seq \in Seqs
  BY DEF Result
<1> HIDE DEF Result
<1>3. \A i \in DOMAIN final_frames : final_frames[i] \in Result
  BY <1>1
<1>4. QED
  BY <1>1, <1>2, <1>3

LEMMA KeptFlushed ==
    ASSUME ResultsKept, Flush, UNCHANGED <<finished_seqs, final_frames, completed>>
    PROVE  ResultsKept' /\ delivered' = final_frames
<1>1. delivered' = final_frames /\ result_batch' = <<>> /\ 0 < BatchSize
  BY JobBoundsOK DEF ResultsKept, Flush
<1>2. delivered' \o result_batch' = final_frames
  BY <1>1, BatchGrows DEF ResultsKept
<1>3. delivered' \in Seq(Result) /\ result_batch' \in Seq(Result) /\ Len(result_batch') < BatchSize
  BY <1>1 DEF ResultsKept
<1> HIDE DEF Result
<1>4. QED
  BY <1>1, <1>2, <1>3 DEF ResultsKept

LEMMA NoTerminal ==
    ASSUME terminal' = NoEvent
    PROVE  TerminalAgrees'
  BY DEF TerminalAgrees, ResultComplete, CancelledCountsDelivered, NoEvent

LEMMA HeldFinite ==
    ASSUME PipelineTypes
    PROVE  /\ IsFiniteSet(Held) /\ IsFiniteSet(pl.queue \cup pl.working)
           /\ Cardinality(pl.queue \cup pl.working) \in Nat /\ Cardinality(pl.analyzed) \in Nat
<1>1. pl.original \in Seq(Seqs)
  BY DEF PipelineTypes
<1>2. DOMAIN pl.original = 1 .. Len(pl.original) /\ Len(pl.original) \in Int /\ 1 \in Int
  BY <1>1
<1>3. IsFiniteSet(DOMAIN pl.original)
  BY <1>2, FS_Interval
<1>4. Held \subseteq DOMAIN pl.original /\ pl.queue \cup pl.working \subseteq Held
  BY DEF PipelineTypes, Held
<1>5. IsFiniteSet(Held)
  BY <1>3, <1>4, FS_Subset
<1>6. IsFiniteSet(pl.queue \cup pl.working)
  BY <1>4, <1>5, FS_Subset
<1>7. IsFiniteSet(pl.analyzed)
  BY DEF PipelineTypes
<1>8. QED
  BY <1>5, <1>6, <1>7, FS_CardinalityType

LEMMA NoPipelineIsOK ==
    ASSUME pl' = NoPipeline, ~Running', progress_completed' \in Nat
    PROVE  PipelineTypes' /\ OnePlace' /\ NoneLost' /\ ProgressFollows'
<1>1. Held' = {} /\ DOMAIN pl'.original = {} /\ pl'.queue \cup pl'.working = {}
  BY DEF Held, NoPipeline
<1>2. PipelineTypes'
  <2>1. Cardinality({}) = 0 /\ IsFiniteSet({}) /\ 0 <= Concurrency
    BY FS_EmptySet, JobBoundsOK
  <2>2. pl'.analyzed = {} /\ pl'.original = <<>> /\ pl'.done = 0
    BY DEF NoPipeline
  <2>3. <<>> \in Seq(Seqs)
    OBVIOUS
  <2>4. pl' \in [original : Seq(Seqs), left : SUBSET Nat, queue : SUBSET Nat,
                 working : SUBSET Nat, analyzed : SUBSET [frame : Nat, done : Nat], done : Nat,
                 decoder : {"running", "ended", "failed"},
                 failure : {"none", "cancelled", "error", "std"}]
    BY <2>3 DEF NoPipeline
  <2>5. QED
    BY <1>1, <2>1, <2>2, <2>4 DEF PipelineTypes
<1>3. OnePlace'
  BY <1>1 DEF OnePlace, NoPipeline
<1>4. NoneLost'
  BY <1>1 DEF NoneLost, NoPipeline
<1>5. ProgressFollows'
  BY DEF ProgressFollows, Running
<1>6. QED
  BY <1>2, <1>3, <1>4, <1>5

\* A pipeline that gets all frames which were not collected.
LEMMA StartKeeps ==
    ASSUME ResultsKept, NEW S, S \subseteq Seqs, S \cap finished_seqs = {}, finished_seqs \cup S = Seqs,
           StartPipeline(Ascending(S)), UNCHANGED <<finished_seqs, completed, progress_completed>>,
           phase' \in {"hardware", "software"}, progress_completed = completed,
           phase' = "hardware" => completed = 0
    PROVE  PipelineTypes' /\ OnePlace' /\ NoneLost' /\ ProgressFollows'
<1> DEFINE s == Ascending(S)
<1>1. /\ s \in Seq(Seqs) /\ ToSet(s) = S
      /\ \A i, j \in DOMAIN s : s[i] = s[j] => i = j
  BY AscendingLists
<1>1a. completed \in Nat
  BY CompletedIsNat
<1> HIDE DEF s
<1>2. /\ pl'.original = s /\ pl'.left = DOMAIN s
      /\ pl'.queue = {} /\ pl'.working = {} /\ pl'.analyzed = {}
      /\ pl'.done = 0 /\ pl'.decoder = "running" /\ pl'.failure = "none"
  BY DEF StartPipeline, Started, NoPipeline, s
<1>3. Held' = DOMAIN s
  BY <1>2 DEF Held
<1>4. DOMAIN s \subseteq Nat
  BY <1>1
<1>5. PipelineTypes'
  <2>1. Cardinality({}) = 0 /\ IsFiniteSet({}) /\ 0 <= Concurrency
    BY FS_EmptySet, JobBoundsOK
  <2>2. pl' = [original |-> s, left |-> DOMAIN s, queue |-> {}, working |-> {}, analyzed |-> {},
               done |-> 0, decoder |-> "running", failure |-> "none"]
    BY DEF StartPipeline, Started, NoPipeline, s
  <2>3. pl' \in [original : Seq(Seqs), left : SUBSET Nat, queue : SUBSET Nat,
                 working : SUBSET Nat, analyzed : SUBSET [frame : Nat, done : Nat], done : Nat,
                 decoder : {"running", "ended", "failed"},
                 failure : {"none", "cancelled", "error", "std"}]
    BY <1>1, <1>4, <2>2
  <2>4. pl'.queue \cup pl'.working = {}
    BY <1>2
  <2>5. QED
    BY <1>1a, <1>2, <1>3, <2>1, <2>3, <2>4 DEF PipelineTypes
<1>6. \A i \in DOMAIN s : s[i] \in S
  BY <1>1 DEF ToSet
<1>7. OnePlace'
  BY <1>1, <1>2, <1>3, <1>6 DEF OnePlace
<1>8. NoneLost'
  <2>1. \A x \in Seqs : x \in finished_seqs \/ \E i \in DOMAIN s : s[i] = x
    BY <1>1 DEF ToSet
  <2>2. QED
    BY <1>2, <1>3, <2>1 DEF NoneLost
<1>9. ProgressFollows'
  <2>1. Cardinality({}) = 0
    BY FS_EmptySet
  <2>2. QED
    BY <1>1a, <1>2, <2>1 DEF ProgressFollows
<1>10. QED
  BY <1>5, <1>7, <1>8, <1>9

-----------------------------------------------------------------------------
(* The ends of the job.                                                    *)

LEMMA EndKeeps ==
    ASSUME Phases, NEW event, End(event),
           event.type \in {"result", "error", "cancelled"}
    PROVE  Phases' /\ ~Running' /\ pl' = NoPipeline /\ terminal' = event
  BY DEF Phases, End, Running, spec

LEMMA EscapeKeeps ==
    ASSUME JobInv, NEW error, Escape(error)
    PROVE  JobInv'
<1> DEFINE event == IF error = "cancelled"
                    THEN [type |-> "cancelled", partial |-> FALSE, frames_completed |-> 0]
                    ELSE [type |-> "error"]
<1>1. End(event) /\ UNCHANGED <<results, delivered>>
  BY DEF Escape
<1>2. event.type \in {"error", "cancelled"} /\ (event.type = "cancelled" => ~event.partial)
  OBVIOUS
<1> HIDE DEF event
<1>3. Phases' /\ ~Running' /\ pl' = NoPipeline /\ terminal' = event
  BY <1>1, <1>2, EndKeeps DEF JobInv
<1>4. ResultsKept'
  BY <1>1, KeptFrame DEF JobInv
<1>5. progress_completed' \in Nat
  BY <1>1 DEF JobInv, PipelineTypes, results
<1>6. TerminalAgrees'
  BY <1>2, <1>3 DEF TerminalAgrees, ResultComplete, CancelledCountsDelivered
<1>7. QED
  BY <1>3, <1>4, <1>5, <1>6, NoPipelineIsOK DEF JobInv

LEMMA CancelledKeeps ==
    ASSUME JobInv, Cancelled
    PROVE  JobInv'
<1> DEFINE event == [type |-> "cancelled", partial |-> completed > 0,
                     frames_completed |-> completed]
<1>1. /\ End(event) /\ Flush
      /\ UNCHANGED <<finished_seqs, final_frames, completed, progress_completed>>
  BY DEF Cancelled
<1>2. event.type = "cancelled" /\ event.frames_completed = completed
  OBVIOUS
<1> HIDE DEF event
<1>3. Phases' /\ ~Running' /\ pl' = NoPipeline /\ terminal' = event
  BY <1>1, <1>2, EndKeeps DEF JobInv
<1>4. ResultsKept' /\ delivered' = final_frames
  BY <1>1, KeptFlushed DEF JobInv
<1>5. progress_completed' \in Nat
  BY <1>1 DEF JobInv, PipelineTypes
<1>6. TerminalAgrees'
  <2>1. completed = Len(final_frames)
    BY DEF JobInv, ResultsKept
  <2>2. QED
    BY <1>2, <1>3, <1>4, <2>1 DEF TerminalAgrees, ResultComplete, CancelledCountsDelivered
<1>7. QED
  BY <1>3, <1>4, <1>5, <1>6, NoPipelineIsOK DEF JobInv

LEMMA ConcludeKeeps ==
    ASSUME JobInv, finished_seqs = Seqs, progress_completed = completed, Conclude
    PROVE  JobInv'
<1>1. CASE cancel_requested
  BY <1>1, CancelledKeeps DEF Conclude
<1>2. CASE ~cancel_requested
  <2> DEFINE event == [type |-> "result", frames |-> BySeq(final_frames),
                       frames_completed |-> completed]
  <2>1. /\ End(event) /\ Flush
        /\ UNCHANGED <<finished_seqs, final_frames, completed, progress_completed>>
    BY <1>2 DEF Conclude
  <2>2. event.type = "result" /\ event.frames_completed = completed
        /\ event.frames = BySeq(final_frames)
    OBVIOUS
  <2> HIDE DEF event
  <2>3. Phases' /\ ~Running' /\ pl' = NoPipeline /\ terminal' = event
    BY <2>1, <2>2, EndKeeps DEF JobInv
  <2>4. ResultsKept' /\ delivered' = final_frames
    BY <2>1, KeptFlushed DEF JobInv
  <2>5. progress_completed' \in Nat
    BY <2>1 DEF JobInv, PipelineTypes
  <2>6. completed = SelectedFrames
    <3>1. Cardinality(Seqs) = SelectedFrames
      <4>1. 0 \in Int /\ SelectedFrames - 1 \in Int /\ ~(0 > SelectedFrames - 1)
            /\ SelectedFrames \in Int
        BY JobBoundsOK
      <4>2. Cardinality(0 .. SelectedFrames - 1) = SelectedFrames - 1 - 0 + 1
        BY <4>1, FS_Interval
      <4>3. QED
        BY <4>1, <4>2 DEF Seqs
    <3>2. QED
      BY <3>1 DEF JobInv, ResultsKept
  <2>7. /\ BySeq(final_frames)
             = [s \in 1 .. SelectedFrames |-> [seq |-> s - 1, identity |-> s - 1]]
        /\ ToSet(BySeq(final_frames)) = ToSet(final_frames)
    <3>1. /\ final_frames \in Seq(Result)
          /\ \A i \in DOMAIN final_frames : final_frames[i].seq = final_frames[i].identity
          /\ \A i, j \in DOMAIN final_frames :
                final_frames[i].seq = final_frames[j].seq => i = j
          /\ {final_frames[i].seq : i \in DOMAIN final_frames} = Seqs
          /\ Len(final_frames) = SelectedFrames
      BY <2>6 DEF JobInv, ResultsKept
    <3>2. QED
      BY <3>1, SortedFrames
  <2>8. TerminalAgrees'
    BY <2>1, <2>2, <2>3, <2>4, <2>6, <2>7 DEF TerminalAgrees, ResultComplete,
       CancelledCountsDelivered
  <2>9. QED
    BY <2>3, <2>4, <2>5, <2>8, NoPipelineIsOK DEF JobInv
<1>3. QED
  BY <1>1, <1>2 DEF JobInv, Phases

\* A run that returns normally has had every frame that was left analysed and collected.
LEMMA AllCollected ==
    ASSUME JobInv, Running, PipelineOver, Thrown = "none"
    PROVE  finished_seqs = Seqs /\ progress_completed = completed
<1>1. Running /\ pl.working = {} /\ pl.analyzed = {} /\ (pl.queue = {} \/ Stopped)
      /\ pl.decoder # "running"
  BY DEF PipelineOver
<1>2. pl.failure = "none" /\ ~stop /\ pl.decoder # "failed"
  BY DEF Thrown
<1>3. pl.decoder = "ended"
  BY <1>1, <1>2 DEF JobInv, PipelineTypes
<1>4. Held = {}
  BY <1>1, <1>2, <1>3 DEF Held, Stopped, JobInv, NoneLost
<1>5. finished_seqs \subseteq Seqs
  BY FinishedAreSeqs DEF JobInv
<1>6. \A s \in Seqs : s \in finished_seqs
  BY <1>1, <1>2, <1>4 DEF JobInv, NoneLost
<1>7. progress_completed = completed
  <2>1. Cardinality({}) = 0
    BY FS_EmptySet
  <2>2. completed \in Nat /\ progress_completed \in Nat
    BY CompletedIsNat DEF JobInv, PipelineTypes
  <2>3. CASE phase = "hardware"
    BY <1>1, <2>1, <2>2, <2>3 DEF JobInv, ProgressFollows
  <2>4. CASE phase = "software"
    BY <2>4 DEF JobInv, ProgressFollows
  <2>5. QED
    BY <1>1, <2>3, <2>4 DEF Running
<1>8. QED
  BY <1>5, <1>6, <1>7

-----------------------------------------------------------------------------
(* The steps outside the pipelines.                                        *)

LEMMA FallbackOnce ==
    ASSUME Phases, hardware, Fallback
    PROVE  fallbacks' \in 0 .. 1 /\ hardware' = FALSE
  BY DEF Phases, Fallback

LEMMA IndexFailsKeeps ==
    ASSUME JobInv, IndexFails
    PROVE  JobInv'
<1>1. CASE \E error : Escape(error)
  BY <1>1, EscapeKeeps
<1>2. CASE hardware /\ Fallback
           /\ UNCHANGED <<spec, phase, cancel_requested, stop, pl, results, delivered, terminal>>
  <2>1. phase = "index" /\ terminal = NoEvent
    BY DEF IndexFails, JobInv, Phases
  <2>2. ResultsKept'
    BY <1>2, KeptFrame DEF JobInv
  <2>3. TerminalAgrees'
    BY <1>2, <2>1, NoTerminal
  <2>4. Phases'
    BY <1>2, <2>1, FallbackOnce DEF JobInv, Phases, spec, results, Running
  <2>5. pl' = NoPipeline /\ ~Running' /\ progress_completed' \in Nat
    BY <1>2, <2>1 DEF JobInv, Phases, PipelineTypes, Running, results
  <2>6. QED
    BY <2>2, <2>3, <2>4, <2>5, NoPipelineIsOK DEF JobInv
<1>3. QED
  BY <1>1, <1>2 DEF IndexFails

LEMMA IndexEndsKeeps ==
    ASSUME JobInv, IndexEnds
    PROVE  JobInv'
<1>1. CASE Escape("cancelled")
  BY <1>1, EscapeKeeps
<1>2. CASE /\ phase' = "plan"
           /\ UNCHANGED <<spec, hardware, cancel_requested, stop, pl, results, events>>
  <2>1. phase = "index" /\ terminal = NoEvent
    BY DEF IndexEnds, JobInv, Phases
  <2>2. ResultsKept'
    BY <1>2, KeptFrame DEF JobInv, events
  <2>3. TerminalAgrees'
    BY <1>2, <2>1, NoTerminal DEF events
  <2>4. Phases'
    BY <1>2, <2>1 DEF JobInv, Phases, spec, results, events, Running
  <2>5. pl' = NoPipeline /\ ~Running' /\ progress_completed' \in Nat
    BY <1>2, <2>1 DEF JobInv, Phases, PipelineTypes, Running, results
  <2>6. QED
    BY <2>2, <2>3, <2>4, <2>5, NoPipelineIsOK DEF JobInv
<1>3. QED
  BY <1>1, <1>2 DEF IndexEnds

LEMMA StartDecodeKeeps ==
    ASSUME JobInv, StartDecode
    PROVE  JobInv'
<1>1. CASE cancel_requested
  BY <1>1, CancelledKeeps DEF StartDecode
<1>2. CASE ~cancel_requested
  <2>1. /\ phase = "plan" /\ phase' = IF hardware THEN "hardware" ELSE "software"
        /\ StartPipeline(Ascending(Seqs))
        /\ UNCHANGED <<spec, hardware, cancel_requested, stop, results, events>>
    BY <1>2 DEF StartDecode
  <2>2. final_frames = <<>> /\ progress_completed = 0 /\ terminal = NoEvent
    BY <2>1 DEF JobInv, Phases
  <2>3. completed = 0 /\ finished_seqs = {}
    <3>1. /\ completed = Len(final_frames)
          /\ finished_seqs = {final_frames[i].seq : i \in DOMAIN final_frames}
      BY DEF JobInv, ResultsKept
    <3>2. QED
      BY <2>2, <3>1
  <2>4. ResultsKept'
    BY <2>1, KeptFrame DEF JobInv, events
  <2>5. TerminalAgrees'
    BY <2>1, <2>2, NoTerminal DEF events
  <2>6. Phases'
    BY <2>1, <2>2 DEF JobInv, Phases, spec, results, events, Running
  <2>7. UNCHANGED <<finished_seqs, completed, progress_completed>>
        /\ phase' \in {"hardware", "software"}
    BY <2>1 DEF results
  <2>8. PipelineTypes' /\ OnePlace' /\ NoneLost' /\ ProgressFollows'
    BY <2>1, <2>2, <2>3, <2>7, StartKeeps DEF JobInv
  <2>9. QED
    BY <2>4, <2>5, <2>6, <2>8 DEF JobInv
<1>3. QED
  BY <1>1, <1>2 DEF JobInv, Phases

\* A step of the client, which changes the two flags only.
LEMMA FlagKeeps ==
    ASSUME JobInv, cancel_requested' \in BOOLEAN, stop' \in BOOLEAN, stop => stop',
           UNCHANGED <<spec, phase, hardware, pl, results, events>>
    PROVE  JobInv'
<1>1. ResultsKept'
  BY KeptFrame DEF JobInv, events
<1>2. Phases'
  BY DEF JobInv, Phases, spec, results, events, Running
<1>3. PipelineTypes'
  BY DEF JobInv, PipelineTypes, Held, results
<1>4. OnePlace'
  BY DEF JobInv, OnePlace, Held, results
<1>5. NoneLost'
  BY DEF JobInv, NoneLost, Held, Running, results
<1>6. ProgressFollows'
  BY DEF JobInv, ProgressFollows, results
<1>7. TerminalAgrees'
  BY DEF JobInv, TerminalAgrees, ResultComplete, CancelledCountsDelivered, results, events
<1>8. QED
  BY <1>1, <1>2, <1>3, <1>4, <1>5, <1>6, <1>7 DEF JobInv

LEMMA HardwareReturnsKeeps ==
    ASSUME JobInv, HardwareReturns
    PROVE  JobInv'
<1>1. CASE Thrown = "none"
  <2>1. (Conclude \/ Escape("error")) /\ PipelineOver /\ Running
    BY <1>1 DEF HardwareReturns, Decoded, Running
  <2>2. QED
    BY <1>1, <2>1, AllCollected, ConcludeKeeps, EscapeKeeps
<1>2. CASE Cancelled
  BY <1>2, CancelledKeeps
<1>3. CASE \E error : Escape(error)
  BY <1>3, EscapeKeeps
<1>4. CASE /\ Fallback /\ phase' = "software"
           /\ StartPipeline(Ascending(Remaining))
           /\ UNCHANGED <<spec, cancel_requested, stop, results, delivered, terminal>>
  <2>1. phase = "hardware" /\ hardware /\ terminal = NoEvent /\ PipelineOver
    BY DEF HardwareReturns, JobInv, Phases
  <2>2. Remaining \subseteq Seqs /\ Remaining \cap finished_seqs = {}
        /\ finished_seqs \cup Remaining = Seqs
    BY FinishedAreSeqs DEF Remaining, JobInv
  <2>3. progress_completed = completed
    <3>1. Cardinality({}) = 0
      BY FS_EmptySet
    <3>2. completed \in Nat /\ progress_completed \in Nat /\ pl.analyzed = {}
      BY <2>1, CompletedIsNat DEF JobInv, PipelineTypes, PipelineOver
    <3>3. QED
      BY <2>1, <3>1, <3>2 DEF JobInv, ProgressFollows
  <2>4. ResultsKept'
    BY <1>4, KeptFrame DEF JobInv
  <2>5. TerminalAgrees'
    BY <1>4, <2>1, NoTerminal
  <2>6. fallbacks' \in 0 .. 1 /\ hardware' = FALSE
    BY <1>4, <2>1, FallbackOnce DEF JobInv
  <2>7. Phases'
    BY <1>4, <2>1, <2>6 DEF JobInv, Phases, spec, Running
  <2>8. UNCHANGED <<finished_seqs, completed, progress_completed>>
    BY <1>4 DEF results
  <2>9. PipelineTypes' /\ OnePlace' /\ NoneLost' /\ ProgressFollows'
    BY <1>4, <2>2, <2>3, <2>8, StartKeeps DEF JobInv
  <2>10. QED
    BY <2>4, <2>5, <2>7, <2>9 DEF JobInv
<1>5. QED
  BY <1>1, <1>2, <1>3, <1>4 DEF HardwareReturns

LEMMA SoftwareReturnsKeeps ==
    ASSUME JobInv, SoftwareReturns
    PROVE  JobInv'
<1>1. CASE pl.original = <<>>
  <2>1. phase = "software" /\ Conclude
    BY <1>1 DEF SoftwareReturns
  <2>2. finished_seqs = Seqs
    <3>1. \A s \in Seqs : s \in finished_seqs
      BY <1>1, <2>1 DEF JobInv, NoneLost, Running
    <3>2. QED
      BY <3>1, FinishedAreSeqs DEF JobInv
  <2>3. progress_completed = completed
    BY <2>1 DEF JobInv, ProgressFollows
  <2>4. QED
    BY <2>1, <2>2, <2>3, ConcludeKeeps
<1>2. CASE PipelineOver /\ Thrown = "none" /\ Conclude
  <2>1. Running
    BY DEF SoftwareReturns, Running
  <2>2. QED
    BY <1>2, <2>1, AllCollected, ConcludeKeeps
<1>3. CASE Cancelled
  BY <1>3, CancelledKeeps
<1>4. CASE \E error : Escape(error)
  BY <1>4, EscapeKeeps
<1>5. QED
  BY <1>1, <1>2, <1>3, <1>4 DEF SoftwareReturns

-----------------------------------------------------------------------------
(* The steps of the pipeline.                                              *)

\* A step that changes the pipeline and perhaps requests the stop.
LEMMA PipelineStep ==
    ASSUME JobInv, Running, stop' \in BOOLEAN,
           UNCHANGED <<spec, phase, hardware, cancel_requested, results, events>>,
           PipelineTypes', OnePlace', NoneLost', ProgressFollows'
    PROVE  JobInv'
<1>1. ResultsKept'
  BY KeptFrame DEF JobInv, events
<1>2. Phases'
  BY DEF JobInv, Phases, spec, results, events, Running
<1>3. terminal' = NoEvent
  BY DEF JobInv, Phases, Running, events
<1>4. QED
  BY <1>1, <1>2, <1>3, NoTerminal DEF JobInv

\* Fewer frames are queued or analysed.
LEMMA FewerOccupy ==
    ASSUME JobInv, pl'.queue \cup pl'.working \subseteq pl.queue \cup pl.working
    PROVE  Cardinality(pl'.queue \cup pl'.working) <= Concurrency
<1> DEFINE old == pl.queue \cup pl.working
           new == pl'.queue \cup pl'.working
<1>1. IsFiniteSet(old) /\ Cardinality(old) \in Nat /\ Cardinality(old) <= Concurrency
  BY HeldFinite DEF JobInv, PipelineTypes
<1> HIDE DEF old, new
<1>2. new \subseteq old
  BY DEF old, new
<1>3. IsFiniteSet(new) /\ Cardinality(new) <= Cardinality(old)
  BY <1>1, <1>2, FS_Subset
<1>4. Cardinality(new) \in Nat
  BY <1>3, FS_CardinalityType
<1>5. QED
  BY <1>1, <1>3, <1>4, JobBoundsOK DEF new

LEMMA WorkersNotStartedKeeps ==
    ASSUME JobInv, WorkersNotStarted
    PROVE  JobInv'
<1>1. /\ Running /\ stop' = TRUE
      /\ pl' = [pl EXCEPT !.decoder = "ended", !.failure = "std"]
      /\ UNCHANGED <<spec, phase, hardware, cancel_requested, results, events>>
  BY DEF WorkersNotStarted, WorkersUnstarted, jobs
<1>2. /\ pl'.original = pl.original /\ pl'.left = pl.left /\ pl'.queue = pl.queue
      /\ pl'.working = pl.working /\ pl'.analyzed = pl.analyzed /\ pl'.done = pl.done
      /\ pl'.decoder = "ended" /\ pl'.failure = "std" /\ Held' = Held
  BY <1>1 DEF JobInv, PipelineTypes, Held
<1>3. PipelineTypes'
  BY <1>1, <1>2 DEF JobInv, PipelineTypes, results
<1>4. OnePlace'
  BY <1>1, <1>2 DEF JobInv, OnePlace, results
<1>5. NoneLost'
  BY <1>1, <1>2 DEF JobInv, NoneLost, Running, results
<1>6. ProgressFollows'
  BY <1>1, <1>2 DEF JobInv, ProgressFollows, results
<1>7. QED
  BY <1>1, <1>3, <1>4, <1>5, <1>6, PipelineStep

LEMMA DecoderEndsKeeps ==
    ASSUME JobInv, DecoderEnds
    PROVE  JobInv'
<1>1. PICK how \in {"ended", "failed"} :
         /\ pl' = [pl EXCEPT !.decoder = how, !.queue = IF stop THEN {} ELSE @]
         /\ how = "ended" => pl.left = {}
  BY DEF DecoderEnds, EndDecoder
<1>2. /\ Running /\ stop' = stop /\ stop \in BOOLEAN
      /\ UNCHANGED <<spec, phase, hardware, cancel_requested, results, events>>
  BY DEF DecoderEnds, EndDecoder, jobs, JobInv, Phases
<1>3. /\ pl'.original = pl.original /\ pl'.left = pl.left
      /\ pl'.queue = (IF stop THEN {} ELSE pl.queue)
      /\ pl'.working = pl.working /\ pl'.analyzed = pl.analyzed /\ pl'.done = pl.done
      /\ pl'.decoder = how /\ pl'.failure = pl.failure
  BY <1>1 DEF JobInv, PipelineTypes
<1>3a. Held' \subseteq Held /\ (~stop => Held' = Held) /\ pl'.queue \subseteq pl.queue
  BY <1>3 DEF Held
<1>4. PipelineTypes'
  <2>1. pl' \in [original : Seq(Seqs), left : SUBSET Nat, queue : SUBSET Nat,
                 working : SUBSET Nat, analyzed : SUBSET [frame : Nat, done : Nat], done : Nat,
                 decoder : {"running", "ended", "failed"},
                 failure : {"none", "cancelled", "error", "std"}]
    BY <1>1 DEF JobInv, PipelineTypes
  <2>2. Cardinality(pl'.queue \cup pl'.working) <= Concurrency
    BY <1>3, <1>3a, FewerOccupy
  <2>3. QED
    BY <1>2, <1>3, <1>3a, <2>1, <2>2 DEF JobInv, PipelineTypes, results
<1>5. OnePlace'
  BY <1>2, <1>3, <1>3a DEF JobInv, OnePlace, results
<1>6. NoneLost'
  BY <1>1, <1>2, <1>3, <1>3a DEF JobInv, NoneLost, Running, results
<1>7. ProgressFollows'
  BY <1>2, <1>3 DEF JobInv, ProgressFollows, results
<1>8. QED
  BY <1>2, <1>4, <1>5, <1>6, <1>7, PipelineStep

LEMMA PushKeeps ==
    ASSUME JobInv, NEW i, Push(i)
    PROVE  JobInv'
<1>1. /\ Running /\ i \in pl.left /\ Cardinality(pl.queue \cup pl.working) < Concurrency
      /\ pl' = [pl EXCEPT !.left = @ \ {i}, !.queue = @ \cup {i}]
      /\ UNCHANGED <<spec, phase, hardware, cancel_requested, stop, results, events>>
  BY DEF Push, PushFrame, jobs
<1>2. /\ pl'.original = pl.original /\ pl'.left = pl.left \ {i} /\ pl'.queue = pl.queue \cup {i}
      /\ pl'.working = pl.working /\ pl'.analyzed = pl.analyzed /\ pl'.done = pl.done
      /\ pl'.decoder = pl.decoder /\ pl'.failure = pl.failure
  BY <1>1 DEF JobInv, PipelineTypes
<1>3. Held' = Held
  BY <1>1, <1>2 DEF Held
<1>4. PipelineTypes'
  <2>1. pl'.queue \cup pl'.working = (pl.queue \cup pl.working) \cup {i}
    BY <1>2
  <2> DEFINE old == pl.queue \cup pl.working
  <2>2. IsFiniteSet(old) /\ Cardinality(old) \in Nat
    BY HeldFinite DEF JobInv
  <2>2a. Cardinality(old) < Concurrency
    BY <1>1
  <2> HIDE DEF old
  <2>2b. Cardinality(old \cup {i}) = Cardinality(old) \/ Cardinality(old \cup {i}) = Cardinality(old) + 1
    BY <2>2, FS_AddElement
  <2>2c. Cardinality(old \cup {i}) <= Concurrency
    BY <2>2, <2>2a, <2>2b, JobBoundsOK
  <2>3. Cardinality(pl'.queue \cup pl'.working) <= Concurrency
    BY <2>1, <2>2c DEF old
  <2>4. i \in Nat /\ pl' \in [original : Seq(Seqs), left : SUBSET Nat, queue : SUBSET Nat,
                 working : SUBSET Nat, analyzed : SUBSET [frame : Nat, done : Nat], done : Nat,
                 decoder : {"running", "ended", "failed"},
                 failure : {"none", "cancelled", "error", "std"}]
    BY <1>1 DEF JobInv, PipelineTypes
  <2>5. QED
    BY <1>1, <1>2, <1>3, <2>3, <2>4 DEF JobInv, PipelineTypes, results
<1>5. OnePlace'
  BY <1>1, <1>2, <1>3 DEF JobInv, OnePlace, results
<1>6. NoneLost'
  BY <1>1, <1>2, <1>3 DEF JobInv, NoneLost, Running, results
<1>7. ProgressFollows'
  BY <1>1, <1>2 DEF JobInv, ProgressFollows, results
<1>8. stop' \in BOOLEAN
  BY <1>1 DEF JobInv, Phases
<1>9. QED
  BY <1>1, <1>4, <1>5, <1>6, <1>7, <1>8, PipelineStep

LEMMA TakeKeeps ==
    ASSUME JobInv, NEW i, Take(i)
    PROVE  JobInv'
<1>1. /\ Running /\ i \in pl.queue
      /\ pl' = [pl EXCEPT !.queue = @ \ {i}, !.working = @ \cup {i}]
      /\ UNCHANGED <<spec, phase, hardware, cancel_requested, stop, results, events>>
  BY DEF Take, TakeFrame, jobs
<1>2. /\ pl'.original = pl.original /\ pl'.left = pl.left /\ pl'.queue = pl.queue \ {i}
      /\ pl'.working = pl.working \cup {i} /\ pl'.analyzed = pl.analyzed /\ pl'.done = pl.done
      /\ pl'.decoder = pl.decoder /\ pl'.failure = pl.failure
  BY <1>1 DEF JobInv, PipelineTypes
<1>3. Held' = Held /\ pl'.queue \cup pl'.working = pl.queue \cup pl.working
  BY <1>1, <1>2 DEF Held
<1>4. PipelineTypes'
  <2>1. i \in Nat /\ pl' \in [original : Seq(Seqs), left : SUBSET Nat, queue : SUBSET Nat,
                 working : SUBSET Nat, analyzed : SUBSET [frame : Nat, done : Nat], done : Nat,
                 decoder : {"running", "ended", "failed"},
                 failure : {"none", "cancelled", "error", "std"}]
    BY <1>1 DEF JobInv, PipelineTypes
  <2>2. QED
    BY <1>1, <1>2, <1>3, <2>1 DEF JobInv, PipelineTypes, results
<1>5. OnePlace'
  BY <1>1, <1>2, <1>3 DEF JobInv, OnePlace, results
<1>6. NoneLost'
  BY <1>1, <1>2, <1>3 DEF JobInv, NoneLost, Running, results
<1>7. ProgressFollows'
  BY <1>1, <1>2 DEF JobInv, ProgressFollows, results
<1>8. stop' \in BOOLEAN
  BY <1>1 DEF JobInv, Phases
<1>9. QED
  BY <1>1, <1>4, <1>5, <1>6, <1>7, <1>8, PipelineStep

LEMMA AnalyzedKeeps ==
    ASSUME JobInv, NEW i, Analyzed(i)
    PROVE  JobInv'
<1> DEFINE a == [frame |-> i, done |-> pl.done + 1]
<1>1. /\ Running /\ i \in pl.working
      /\ pl' = [pl EXCEPT !.working = @ \ {i}, !.done = @ + 1, !.analyzed = @ \cup {a}]
      /\ UNCHANGED <<spec, phase, hardware, cancel_requested, stop, results, events>>
  BY DEF Analyzed, FinishFrame, jobs, a
<1>2. /\ pl'.original = pl.original /\ pl'.left = pl.left /\ pl'.queue = pl.queue
      /\ pl'.working = pl.working \ {i} /\ pl'.analyzed = pl.analyzed \cup {a}
      /\ pl'.done = pl.done + 1
      /\ pl'.decoder = pl.decoder /\ pl'.failure = pl.failure
  BY <1>1 DEF JobInv, PipelineTypes
<1>3. a.frame = i /\ a.done = pl.done + 1 /\ pl.done \in Nat /\ i \in Nat
      /\ a \in [frame : Nat, done : Nat]
  BY <1>1 DEF JobInv, PipelineTypes
<1>4. a \notin pl.analyzed /\ i \in Held
  BY <1>1, <1>3 DEF JobInv, OnePlace, Held
<1> HIDE DEF a
<1>5. Held' = Held
  BY <1>1, <1>2, <1>3 DEF Held
<1>6. IsFiniteSet(pl.analyzed) /\ IsFiniteSet(pl'.analyzed)
      /\ Cardinality(pl'.analyzed) = Cardinality(pl.analyzed) + 1
      /\ Cardinality(pl.analyzed) \in Nat
  BY <1>2, <1>4, FS_AddElement, FS_CardinalityType DEF JobInv, PipelineTypes
<1>7. PipelineTypes'
  <2>1. pl' \in [original : Seq(Seqs), left : SUBSET Nat, queue : SUBSET Nat,
                 working : SUBSET Nat, analyzed : SUBSET [frame : Nat, done : Nat], done : Nat,
                 decoder : {"running", "ended", "failed"},
                 failure : {"none", "cancelled", "error", "std"}]
    BY <1>1, <1>3 DEF JobInv, PipelineTypes
  <2>2. Cardinality(pl'.queue \cup pl'.working) <= Concurrency
    BY <1>2, FewerOccupy
  <2>3. \A b \in pl'.analyzed : b.done <= pl'.done
    BY <1>2, <1>3 DEF JobInv, PipelineTypes
  <2>4. progress_completed' \in Nat /\ Held' \subseteq DOMAIN pl'.original
    BY <1>1, <1>2, <1>5 DEF JobInv, PipelineTypes, results
  <2>5. QED
    BY <1>6, <2>1, <2>2, <2>3, <2>4 DEF PipelineTypes
<1>8. OnePlace'
  <2>1. \A b \in pl'.analyzed : b.frame \notin pl'.left \cup pl'.queue \cup pl'.working
    BY <1>1, <1>2, <1>3 DEF JobInv, OnePlace
  <2>2. \A b, c \in pl'.analyzed : b.frame = c.frame => b = c
    BY <1>1, <1>2, <1>3 DEF JobInv, OnePlace
  <2>3. \A j \in Held' : pl'.original[j] \notin finished_seqs'
    BY <1>1, <1>2, <1>5 DEF JobInv, OnePlace, results
  <2>4. QED
    BY <1>2, <2>1, <2>2, <2>3 DEF JobInv, OnePlace
<1>9. NoneLost'
  BY <1>1, <1>2, <1>5 DEF JobInv, NoneLost, Running, results
<1>10. ProgressFollows'
  <2>1. a \in pl'.analyzed /\ a.done = pl'.done
    BY <1>2, <1>3
  <2>2. UNCHANGED <<phase, completed, progress_completed>>
    BY <1>1 DEF results
  <2>3. completed \in Nat /\ progress_completed \in Nat
    BY CompletedIsNat DEF JobInv, PipelineTypes
  <2>4. phase = "hardware" => pl'.done = completed + Cardinality(pl'.analyzed)
                              /\ progress_completed <= pl'.done
    BY <1>2, <1>3, <1>6, <2>3 DEF JobInv, ProgressFollows
  <2>5. QED
    BY <2>1, <2>2, <2>4 DEF JobInv, ProgressFollows
<1>11. stop' \in BOOLEAN
  BY <1>1 DEF JobInv, Phases
<1>12. QED
  BY <1>1, <1>7, <1>8, <1>9, <1>10, <1>11, PipelineStep

LEMMA AnalysisFailsKeeps ==
    ASSUME JobInv, NEW i, AnalysisFails(i)
    PROVE  JobInv'
<1>1. PICK error \in Raises :
         pl' = [pl EXCEPT !.working = @ \ {i}, !.queue = {},
                          !.failure = Failed(error)]
  BY DEF AnalysisFails, FailFrame
<1>2. /\ Running /\ stop' = TRUE
      /\ UNCHANGED <<spec, phase, hardware, cancel_requested, results, events>>
  BY DEF AnalysisFails, FailFrame, jobs
<1>3. error \in {"cancelled", "error", "std"}
  BY DEF Raises
<1>3a. Failed(error) \in {"cancelled", "error", "std"}
  BY <1>3 DEF Failed, JobInv, PipelineTypes
<1>4. /\ pl'.original = pl.original /\ pl'.left = pl.left /\ pl'.queue = {}
      /\ pl'.working = pl.working \ {i} /\ pl'.analyzed = pl.analyzed /\ pl'.done = pl.done
      /\ pl'.decoder = pl.decoder /\ pl'.failure # "none"
  BY <1>1, <1>3a DEF JobInv, PipelineTypes
<1>5. Held' \subseteq Held
  BY <1>4 DEF Held
<1>6. PipelineTypes'
  <2>1. pl' \in [original : Seq(Seqs), left : SUBSET Nat, queue : SUBSET Nat,
                 working : SUBSET Nat, analyzed : SUBSET [frame : Nat, done : Nat], done : Nat,
                 decoder : {"running", "ended", "failed"},
                 failure : {"none", "cancelled", "error", "std"}]
    BY <1>1, <1>3a DEF JobInv, PipelineTypes
  <2>2. Cardinality(pl'.queue \cup pl'.working) <= Concurrency
    BY <1>4, FewerOccupy
  <2>3. QED
    BY <1>2, <1>4, <1>5, <2>1, <2>2 DEF JobInv, PipelineTypes, results
<1>7. OnePlace'
  BY <1>2, <1>4, <1>5 DEF JobInv, OnePlace, results
<1>8. NoneLost'
  BY <1>2, <1>4 DEF JobInv, NoneLost, Running, results
<1>9. ProgressFollows'
  BY <1>2, <1>4 DEF JobInv, ProgressFollows, results
<1>10. QED
  BY <1>2, <1>6, <1>7, <1>8, <1>9, PipelineStep

LEMMA CollectKeeps ==
    ASSUME JobInv, NEW a \in pl.analyzed, Collect(a)
    PROVE  JobInv'
<1> DEFINE s == pl.original[a.frame]
           result == [seq |-> s, identity |-> s]
           analyzed == IF phase = "software" THEN completed + 1 ELSE a.done
           batch == Append(result_batch, result)
           full == Len(batch) >= BatchSize
<1>1. /\ Running
      /\ pl' = [pl EXCEPT !.analyzed = @ \ {a}]
      /\ UNCHANGED <<spec, phase, hardware, cancel_requested, stop, fallbacks, terminal>>
  BY DEF Collect, CollectFrame
<1>2. /\ final_frames' = Append(final_frames, result)
      /\ finished_seqs' = finished_seqs \cup {result.seq}
      /\ completed' = completed + 1
      /\ progress_completed' = IF analyzed > progress_completed THEN analyzed
                               ELSE progress_completed
      /\ result_batch' = (IF full THEN <<>> ELSE batch)
      /\ delivered' = (IF full THEN delivered \o batch ELSE delivered)
  BY DEF Collect, OriginalSeq
<1>3. /\ pl'.original = pl.original /\ pl'.left = pl.left /\ pl'.queue = pl.queue
      /\ pl'.working = pl.working /\ pl'.analyzed = pl.analyzed \ {a} /\ pl'.done = pl.done
      /\ pl'.decoder = pl.decoder /\ pl'.failure = pl.failure
  BY <1>1 DEF JobInv, PipelineTypes
<1>4. /\ a.frame \in Held /\ a.frame \in DOMAIN pl.original /\ s \notin finished_seqs
      /\ a.done \in Nat /\ a.done <= pl.done /\ pl.done \in Nat
  BY DEF JobInv, PipelineTypes, OnePlace, Held
<1>5. s \in Seqs
  <2>1. pl.original \in Seq(Seqs)
    BY DEF JobInv, PipelineTypes
  <2>2. QED
    BY <1>4, <2>1
<1> HIDE DEF s
<1>6. result \in Result /\ result.seq = s /\ result.identity = s
  BY <1>5 DEF Result
<1>7. completed \in Nat /\ progress_completed \in Nat /\ analyzed \in Nat
  BY <1>4, CompletedIsNat DEF JobInv, PipelineTypes
<1> HIDE DEF result
<1>8. ResultsKept'
  <2>1. /\ final_frames \in Seq(Result) /\ delivered \in Seq(Result)
        /\ result_batch \in Seq(Result) /\ completed = Len(final_frames)
        /\ delivered \o result_batch = final_frames
        /\ finished_seqs = {final_frames[i].seq : i \in DOMAIN final_frames}
    BY DEF JobInv, ResultsKept
  <2> DEFINE new == Append(final_frames, result)
             n == Len(final_frames) + 1
  <2>2. new \in Seq(Result) /\ DOMAIN new = 1 .. n /\ Len(new) = n
        /\ new[n] = result /\ n \in Nat /\ n \in DOMAIN new
        /\ (\A i \in DOMAIN final_frames : i \in DOMAIN new /\ new[i] = final_frames[i])
        /\ (\A i \in DOMAIN new : i = n \/ i \in DOMAIN final_frames)
    <3> HIDE DEF Result
    <3>1. QED
      BY <1>6, <2>1
  <2> HIDE DEF new, n
  <2>3. \A i \in DOMAIN new : new[i].seq = new[i].identity
    BY <1>6, <2>2 DEF JobInv, ResultsKept
  <2>4. \A i \in DOMAIN final_frames : final_frames[i].seq # s
    BY <1>4, <2>1
  <2>5. \A i, j \in DOMAIN new : new[i].seq = new[j].seq => i = j
    <3>1. TAKE i, j \in DOMAIN new
    <3>2. CASE i = n \/ j = n
      BY <3>2, <1>6, <2>2, <2>4
    <3>3. CASE i # n /\ j # n
      BY <3>3, <2>2 DEF JobInv, ResultsKept
    <3>4. QED
      BY <3>2, <3>3
  <2>6. finished_seqs' = {new[i].seq : i \in DOMAIN new}
    <3>1. finished_seqs \cup {s} \subseteq {new[i].seq : i \in DOMAIN new}
      BY <1>6, <2>1, <2>2
    <3>2. \A i \in DOMAIN new : new[i].seq \in finished_seqs \cup {s}
      BY <1>6, <2>1, <2>2
    <3>3. QED
      BY <1>2, <1>6, <3>1, <3>2
  <2>7. completed' = Len(new) /\ completed' = Cardinality(finished_seqs')
    <3>1. IsFiniteSet(finished_seqs)
      <4>1. 0 \in Int /\ SelectedFrames - 1 \in Int
        BY JobBoundsOK
      <4>2. IsFiniteSet(Seqs)
        BY <4>1, FS_Interval DEF Seqs
      <4>3. QED
        BY <4>2, FinishedAreSeqs, FS_Subset DEF JobInv
    <3>2. Cardinality(finished_seqs \cup {s}) = Cardinality(finished_seqs) + 1
      BY <3>1, <1>4, FS_AddElement
    <3>3. completed = Cardinality(finished_seqs)
      BY DEF JobInv, ResultsKept
    <3>4. QED
      BY <1>2, <1>6, <2>1, <2>2, <3>2, <3>3 DEF n
  <2>8. delivered \o batch = new /\ (delivered \o batch) \o <<>> = new
        /\ delivered \o batch \in Seq(Result) /\ batch \in Seq(Result)
    BY <1>6, <2>1, BatchGrows DEF new
  <2> HIDE DEF batch
  <2>9. delivered' \o result_batch' = new /\ delivered' \in Seq(Result)
        /\ result_batch' \in Seq(Result) /\ Len(result_batch') < BatchSize
    <3>1. CASE full
      <4>1. Len(<<>>) < BatchSize /\ <<>> \in Seq(Result)
        BY JobBoundsOK
      <4>2. QED
        BY <3>1, <4>1, <1>2, <2>8
    <3>2. CASE ~full
      <4>1. Len(batch) \in Nat
        <5> HIDE DEF Result
        <5>1. QED
          BY <2>8
      <4>2. Len(batch) < BatchSize
        BY <3>2, <4>1, JobBoundsOK
      <4>3. QED
        BY <3>2, <4>2, <1>2, <2>1, <2>8
    <3>3. QED
      BY <3>1, <3>2
  <2>10. final_frames' = new
    BY <1>2 DEF new
  <2> HIDE DEF Result, full, analyzed
  <2>11. /\ final_frames' \in Seq(Result)
         /\ \A i \in DOMAIN final_frames' : final_frames'[i].seq = final_frames'[i].identity
         /\ \A i, j \in DOMAIN final_frames' :
               final_frames'[i].seq = final_frames'[j].seq => i = j
         /\ finished_seqs' = {final_frames'[i].seq : i \in DOMAIN final_frames'}
    BY <2>2, <2>3, <2>5, <2>6, <2>10
  <2>12. completed' = Len(final_frames') /\ delivered' \o result_batch' = final_frames'
    BY <2>7, <2>9, <2>10
  <2>13. Result' = Result
    BY DEF Result, Seqs
  <2>14. QED
    BY <2>7, <2>9, <2>11, <2>12, <2>13 DEF ResultsKept
<1>9. Phases'
  BY <1>1 DEF JobInv, Phases, spec, Running
<1>10. Held' = Held \ {a.frame}
  BY <1>3 DEF Held, JobInv, OnePlace
<1>11. finished_seqs' = finished_seqs \cup {s}
  BY <1>2, <1>6
<1>12. progress_completed' \in Nat
       /\ progress_completed' = IF analyzed > progress_completed THEN analyzed
                                ELSE progress_completed
  BY <1>2, <1>7
<1>13. IsFiniteSet(pl'.analyzed) /\ Cardinality(pl'.analyzed) = Cardinality(pl.analyzed) - 1
       /\ Cardinality(pl.analyzed) \in Nat
  BY <1>3, FS_RemoveElement, FS_CardinalityType DEF JobInv, PipelineTypes
<1>14. PipelineTypes'
  <2>1. pl' \in [original : Seq(Seqs), left : SUBSET Nat, queue : SUBSET Nat,
                 working : SUBSET Nat, analyzed : SUBSET [frame : Nat, done : Nat], done : Nat,
                 decoder : {"running", "ended", "failed"},
                 failure : {"none", "cancelled", "error", "std"}]
    BY <1>1 DEF JobInv, PipelineTypes
  <2>2. QED
    BY <1>3, <1>10, <1>12, <1>13, <2>1 DEF JobInv, PipelineTypes
<1>15. OnePlace'
  <2>1. \A j \in Held' : pl'.original[j] \notin finished_seqs'
    <3>1. TAKE j \in Held'
    <3>2. j \in Held /\ j # a.frame /\ j \in DOMAIN pl.original
      BY <1>10 DEF JobInv, PipelineTypes
    <3>3. pl.original[j] # s /\ pl.original[j] \notin finished_seqs
      BY <3>2, <1>4 DEF JobInv, OnePlace, s
    <3>4. QED
      BY <3>3, <1>3, <1>11
  <2>2. QED
    BY <1>3, <2>1 DEF JobInv, OnePlace
<1>16. NoneLost'
  BY <1>1, <1>3, <1>10, <1>11 DEF JobInv, NoneLost, Running, s
<1>17. ProgressFollows'
  <2>1. UNCHANGED phase /\ completed' = completed + 1
    BY <1>1, <1>2
  <2>2. CASE phase = "hardware"
    <3>1. analyzed = a.done
      BY <2>2
    <3>2. pl.done = completed + Cardinality(pl.analyzed) /\ progress_completed <= pl.done
      BY <2>2 DEF JobInv, ProgressFollows
    <3>3. pl'.done = completed' + Cardinality(pl'.analyzed)
      BY <1>3, <1>7, <1>13, <2>1, <3>2
    <3>4. progress_completed' <= pl'.done
      BY <1>3, <1>4, <1>12, <3>1, <3>2
    <3>5. \/ pl'.done = 0 \/ progress_completed' = pl'.done
          \/ \E b \in pl'.analyzed : b.done = pl'.done
      <4>1. CASE pl.done = 0
        BY <4>1, <1>3
      <4>2. CASE progress_completed = pl.done
        BY <4>2, <1>3, <1>4, <1>12, <3>1
      <4>3. ASSUME NEW b \in pl.analyzed, b.done = pl.done
            PROVE  progress_completed' = pl'.done \/ \E c \in pl'.analyzed : c.done = pl'.done
        <5>1. CASE b = a
          BY <5>1, <4>3, <1>3, <1>4, <1>7, <1>12, <3>1, <3>2
        <5>2. CASE b # a
          BY <5>2, <4>3, <1>3
        <5>3. QED
          BY <5>1, <5>2
      <4>4. QED
        BY <4>1, <4>2, <4>3, <2>2 DEF JobInv, ProgressFollows
    <3>6. QED
      BY <2>1, <2>2, <3>3, <3>4, <3>5 DEF ProgressFollows
  <2>3. CASE phase = "software"
    <3>1. analyzed = completed + 1 /\ progress_completed = completed
      BY <2>3 DEF JobInv, ProgressFollows
    <3>2. progress_completed' = completed'
      BY <3>1, <1>7, <1>12, <2>1
    <3>3. QED
      BY <2>1, <2>3, <3>2 DEF ProgressFollows
  <2>4. QED
    BY <1>1, <2>2, <2>3 DEF Running
<1>18. TerminalAgrees'
  <2>1. terminal' = NoEvent
    BY <1>1 DEF JobInv, Phases, Running
  <2>2. QED
    BY <2>1, NoTerminal
<1>19. QED
  BY <1>8, <1>9, <1>14, <1>15, <1>16, <1>17, <1>18 DEF JobInv

-----------------------------------------------------------------------------
(* The theorems.                                                           *)

LEMMA InitHolds ==
    ASSUME Init
    PROVE  JobInv
<1>1. ResultsKept
  <2>1. Cardinality({}) = 0 /\ 0 < BatchSize
    BY FS_EmptySet, JobBoundsOK
  <2>2. /\ final_frames = <<>> /\ delivered = <<>> /\ result_batch = <<>>
        /\ finished_seqs = {} /\ completed = 0
    BY DEF Init
  <2> HIDE DEF Result
  <2>3. QED
    BY <2>1, <2>2 DEF ResultsKept
<1>2. Phases
  <2>1. backend \in {"cpu", "gpu", "metal"} /\ automatic \in BOOLEAN /\ fallbacks \in {0, 1}
        /\ (hardware <=> (backend # "cpu" /\ fallbacks = 0)) /\ hardware \in BOOLEAN
    BY DEF Init
  <2>2. phase = "index" /\ cancel_requested = FALSE /\ stop = FALSE /\ pl = NoPipeline
        /\ final_frames = <<>> /\ progress_completed = 0 /\ terminal = NoEvent
    BY DEF Init
  <2>3. 0 \in 0 .. 1 /\ 1 \in 0 .. 1
    OBVIOUS
  <2>4. QED
    BY <2>1, <2>2, <2>3 DEF Phases, NoEvent, Running
<1>3. TerminalAgrees
  BY DEF Init, NoEvent, TerminalAgrees, ResultComplete, CancelledCountsDelivered
<1>4. PipelineTypes /\ OnePlace /\ NoneLost /\ ProgressFollows
  <2>1. pl = NoPipeline /\ ~Running /\ progress_completed = 0
    BY DEF Init, Running
  <2>2. Held = {} /\ DOMAIN pl.original = {} /\ pl.queue \cup pl.working = {}
    BY <2>1 DEF Held, NoPipeline
  <2>3. PipelineTypes
    <3>1. Cardinality({}) = 0 /\ IsFiniteSet({}) /\ 0 <= Concurrency
      BY FS_EmptySet, JobBoundsOK
    <3>2. pl.analyzed = {} /\ pl.original = <<>> /\ pl.done = 0
      BY <2>1 DEF NoPipeline
    <3>3. <<>> \in Seq(Seqs)
      OBVIOUS
    <3>4. pl \in [original : Seq(Seqs), left : SUBSET Nat, queue : SUBSET Nat,
                  working : SUBSET Nat, analyzed : SUBSET [frame : Nat, done : Nat], done : Nat,
                  decoder : {"running", "ended", "failed"},
                  failure : {"none", "cancelled", "error", "std"}]
      BY <2>1, <3>3 DEF NoPipeline
    <3>5. QED
      BY <2>1, <2>2, <3>1, <3>2, <3>4 DEF PipelineTypes
  <2>4. OnePlace
    BY <2>1, <2>2 DEF OnePlace, NoPipeline
  <2>5. NoneLost
    BY <2>1, <2>2 DEF NoneLost, NoPipeline
  <2>6. ProgressFollows
    BY <2>1 DEF ProgressFollows, Running
  <2>7. QED
    BY <2>3, <2>4, <2>5, <2>6
<1>5. QED
  BY <1>1, <1>2, <1>3, <1>4 DEF JobInv

LEMMA NextKeeps ==
    ASSUME JobInv, [Next]_vars
    PROVE  JobInv'
<1>1. CASE IndexFails
  BY <1>1, IndexFailsKeeps
<1>2. CASE IndexEnds
  BY <1>2, IndexEndsKeeps
<1>3. CASE PlanFails
  BY <1>3, EscapeKeeps DEF PlanFails
<1>4. CASE StartDecode
  BY <1>4, StartDecodeKeeps
<1>5. CASE WorkersNotStarted
  BY <1>5, WorkersNotStartedKeeps
<1>6. CASE DecoderEnds
  BY <1>6, DecoderEndsKeeps
<1>7. CASE HardwareReturns
  BY <1>7, HardwareReturnsKeeps
<1>8. CASE SoftwareReturns
  BY <1>8, SoftwareReturnsKeeps
<1>9. CASE RequestStop
  BY <1>9, FlagKeeps DEF RequestStop, JobInv, Phases
<1>10. CASE RequestCancel
  BY <1>10, FlagKeeps DEF RequestCancel, JobInv, Phases
<1>11. ASSUME NEW i \in 1 .. SelectedFrames, Analyze(i)
       PROVE  JobInv'
  BY <1>11, PushKeeps, TakeKeeps, AnalyzedKeeps, AnalysisFailsKeeps DEF Analyze
<1>12. ASSUME NEW a \in pl.analyzed, Collect(a)
       PROVE  JobInv'
  BY <1>12, CollectKeeps
<1>13. CASE UNCHANGED vars
  BY <1>13, FlagKeeps DEF vars, JobInv, Phases
<1>14. QED
  BY <1>1, <1>2, <1>3, <1>4, <1>5, <1>6, <1>7, <1>8, <1>9, <1>10, <1>11, <1>12, <1>13
     DEF Next, Job

LEMMA JobInvHolds == Spec => []JobInv
<1>1. Init => JobInv
  BY InitHolds
<1>2. JobInv /\ [Next]_vars => JobInv'
  BY NextKeeps
<1>3. QED
  BY <1>1, <1>2, PTL DEF Spec

LEMMA BatchFollows ==
    ASSUME NEW R, NEW d \in Seq(R), NEW b \in Seq(R)
    PROVE  \A i \in DOMAIN d : i \in DOMAIN (d \o b) /\ (d \o b)[i] = d[i]
  OBVIOUS

\* What has been sent is the beginning of what was collected.
LEMMA DeliveredIsKept ==
    ASSUME ResultsKept
    PROVE  /\ delivered \in Seq(Result)
           /\ \A i \in DOMAIN delivered : i \in DOMAIN final_frames
                                          /\ final_frames[i] = delivered[i]
<1>1. delivered \in Seq(Result) /\ result_batch \in Seq(Result)
      /\ delivered \o result_batch = final_frames
  BY DEF ResultsKept
<1> HIDE DEF Result
<1>2. QED
  BY <1>1, BatchFollows

\* worker.cpp, run_media_verify_job.  Over both decoders, in whatever order frames
\* complete, whatever fails and whenever the client cancels, no result is sent twice,
\* none under the seq of another frame, and no batch or pipeline exceeds its bound.
THEOREM DeliveredOnceHolds == Spec => []DeliveredOnce
<1>1. JobInv => DeliveredOnce
  <2>1. SUFFICES ASSUME JobInv PROVE DeliveredOnce
    OBVIOUS
  <2>2. TypeOK
    <3>1. {result_batch[i] : i \in DOMAIN result_batch} \subseteq Result
      <4>1. result_batch \in Seq(Result)
        BY <2>1 DEF JobInv, ResultsKept
      <4> HIDE DEF Result
      <4>2. QED
        BY <4>1
    <3>2. Len(result_batch) < BatchSize
      BY <2>1 DEF JobInv, ResultsKept
    <3>3. QED
      BY <2>1, <3>1, <3>2 DEF TypeOK, JobInv, Phases, PipelineTypes
  <2>3. delivered \in Seq(Result)
        /\ \A i \in DOMAIN delivered : i \in DOMAIN final_frames
                                       /\ final_frames[i] = delivered[i]
    BY <2>1, DeliveredIsKept DEF JobInv
  <2>4. /\ \A i \in DOMAIN final_frames : final_frames[i].seq = final_frames[i].identity
        /\ \A i, j \in DOMAIN final_frames :
              final_frames[i].seq = final_frames[j].seq => i = j
    BY <2>1 DEF JobInv, ResultsKept
  <2>5. IsInjective(delivered)
    BY <2>3, <2>4 DEF IsInjective
  <2>6. \A i \in DOMAIN delivered : delivered[i] \in Result
    <3> HIDE DEF Result
    <3>1. QED
      BY <2>3
  <2>7. QED
    BY <2>2, <2>3, <2>4, <2>5, <2>6 DEF DeliveredOnce
<1>2. QED
  BY <1>1, JobInvHolds, PTL

\* worker.cpp, run_media_verify_job.  A result lists every selected frame in order, after
\* each has been sent and the progress has reached the total; a cancelled that quotes a
\* count quotes the results sent before it.
THEOREM TerminalAgreesHolds == Spec => []TerminalAgrees
<1>1. JobInv => TerminalAgrees
  BY DEF JobInv
<1>2. QED
  BY <1>1, JobInvHolds, PTL

-----------------------------------------------------------------------------
(***************************************************************************)
(* The plans of the jobs (PlanSupply, with the cache of AxisPlanCache), for  *)
(* any number of callers, any grids, plan sizes, limits and chunk size.  It  *)
(* is a model of its own: the theorems are about SupplySpec and use nothing  *)
(* of MediaVerifyJob's.                                                    *)
(*                                                                         *)
(* The cache's operations are proved first, each to make a good cache of a   *)
(* good one; the byte count needs what a recursive sum is of a sequence      *)
(* that is cut and put together again.  That a key is not built twice is     *)
(* not inductive: what keeps it is that a key that is not resident was lost  *)
(* as often as it was built (CountsOK), and that the holder of build_mutex   *)
(* found what it is about to build not resident (BuildsOK), whatever is      *)
(* fetched while it builds.                                                *)
(***************************************************************************)
-----------------------------------------------------------------------------
(* Recursion over a sequence, by least counterexamples.                    *)

\* What holds at 0 and is handed on holds up to N.
LEMMA UpTo ==
    ASSUME NEW N \in Nat, NEW P, 0 \in P, \A n \in 1 .. N : n - 1 \in P => n \in P
    PROVE  \A n \in 0 .. N : n \in P
<1>1. SUFFICES ASSUME {n \in 0 .. N : n \notin P} # {} PROVE FALSE
  OBVIOUS
<1>2. PICK m \in {n \in 0 .. N : n \notin P} : \A n \in {x \in 0 .. N : x \notin P} : m <= n
  <2>1. {n \in 0 .. N : n \notin P} \subseteq Nat
    OBVIOUS
  <2> QED
    BY <1>1, <2>1, LeastNat
<1>3. m \in 1 .. N /\ m - 1 \in 0 .. N
  BY <1>2
<1>4. m - 1 \in P
  <2>1. m - 1 \notin {x \in 0 .. N : x \notin P}
    BY <1>2, <1>3
  <2> QED
    BY <1>3, <2>1
<1> QED
  BY <1>2, <1>3, <1>4

Recurs(f, S, m, base, step) == /\ f \in [0 .. m -> S] /\ f[0] = base
                               /\ \A n \in 1 .. m : f[n] = step[n][f[n - 1]]

\* One more step of a function that is defined from its value before.
LEMMA RecursionStep ==
    ASSUME NEW S, NEW N \in Nat, NEW base \in S, NEW step \in [1 .. N -> [S -> S]],
           NEW m \in 1 .. N, NEW g, Recurs(g, S, m - 1, base, step)
    PROVE  Recurs([n \in 0 .. m |-> IF n = m THEN step[m][g[m - 1]] ELSE g[n]], S, m, base, step)
<1>1. PICK f : f = [n \in 0 .. m |-> IF n = m THEN step[m][g[m - 1]] ELSE g[n]]
  OBVIOUS
<1>2. /\ m - 1 \in 0 .. m - 1 /\ 0 \in 0 .. m - 1 /\ 0 \in 0 .. m /\ 0 # m
      /\ m \in Nat /\ m - 1 \in Nat
      /\ \A n \in 0 .. m : n = m \/ n \in 0 .. m - 1
      /\ \A n \in 1 .. m : /\ n \in 0 .. m /\ n - 1 \in 0 .. m /\ n - 1 # m /\ n - 1 \in 0 .. m - 1
                           /\ n = m \/ n \in 1 .. m - 1
  OBVIOUS
<1>3. /\ g \in [0 .. m - 1 -> S] /\ g[0] = base
      /\ \A n \in 1 .. m - 1 : g[n] = step[n][g[n - 1]]
  BY DEF Recurs
<1>4. step[m][g[m - 1]] \in S
  BY <1>2, <1>3
<1>5. f \in [0 .. m -> S]
  BY <1>1, <1>2, <1>3, <1>4
<1>6. f[0] = base
  BY <1>1, <1>2, <1>3
<1>7. ASSUME NEW n \in 1 .. m
      PROVE  f[n] = step[n][f[n - 1]]
  <2>1. f[n - 1] = g[n - 1]
    BY <1>1, <1>2
  <2>2. CASE n = m
    <3>1. f[n] = step[m][g[m - 1]]
      BY <1>1, <1>2, <2>2
    <3> QED
      BY <2>1, <2>2, <3>1
  <2>3. CASE n # m
    <3>1. f[n] = g[n] /\ n \in 1 .. m - 1
      BY <1>1, <1>2, <2>3
    <3> QED
      BY <1>3, <2>1, <3>1
  <2> QED
    BY <2>2, <2>3
<1> QED
  BY <1>1, <1>5, <1>6, <1>7 DEF Recurs

\* A function that is defined from its value before exists.
LEMMA RecursionExists ==
    ASSUME NEW S, NEW N \in Nat, NEW base \in S, NEW step \in [1 .. N -> [S -> S]]
    PROVE  \E f : Recurs(f, S, N, base, step)
<1> DEFINE P == {m \in 0 .. N : \E f : Recurs(f, S, m, base, step)}
<1>1. 0 \in P
  <2>1. Recurs([n \in 0 .. 0 |-> base], S, 0, base, step)
    BY DEF Recurs
  <2> QED
    BY <2>1
<1>2. ASSUME NEW m \in 1 .. N, m - 1 \in P
      PROVE  m \in P
  <2>1. PICK g : Recurs(g, S, m - 1, base, step)
    BY <1>2
  <2>2. \E f : Recurs(f, S, m, base, step)
    BY <2>1, RecursionStep
  <2> QED
    BY <2>2
<1>3. N \in P
  <2> HIDE DEF P
  <2>1. N \in 0 .. N
    OBVIOUS
  <2> QED
    BY <1>1, <1>2, <2>1, UpTo
<1> QED
  BY <1>3

-----------------------------------------------------------------------------
(* The bytes of a sequence of entries.                                     *)

Sums(f, keys) == /\ f \in [0 .. Len(keys) -> Nat] /\ f[0] = 0
                 /\ \A n \in 1 .. Len(keys) : f[n] = f[n - 1] + Bytes[keys[n]]

LEMMA SeqFacts ==
    ASSUME NEW S, NEW s \in Seq(S)
    PROVE  Len(s) \in Nat /\ (\A n \in 1 .. Len(s) : s[n] \in S) /\ DOMAIN s = 1 .. Len(s)
  OBVIOUS

LEMMA SumExists ==
    ASSUME NEW keys \in Seq(Keys)
    PROVE  \E f : Sums(f, keys) /\ BytesOf(keys) = f[Len(keys)]
<1> DEFINE R(f) == f = [n \in 0 .. Len(keys) |-> IF n = 0 THEN 0 ELSE f[n - 1] + Bytes[keys[n]]]
<1>1. /\ Len(keys) \in Nat
      /\ \A n \in 1 .. Len(keys) : keys[n] \in Keys /\ Bytes[keys[n]] \in Nat
  BY SeqFacts, CacheLimitsOK
<1>2. PICK step : step = [n \in 1 .. Len(keys) |-> [s \in Nat |-> s + Bytes[keys[n]]]]
  OBVIOUS
<1>3. step \in [1 .. Len(keys) -> [Nat -> Nat]]
  <2>1. ASSUME NEW n \in 1 .. Len(keys) PROVE [s \in Nat |-> s + Bytes[keys[n]]] \in [Nat -> Nat]
    BY <1>1
  <2> QED
    BY <1>2, <2>1
<1>4. PICK f : Recurs(f, Nat, Len(keys), 0, step)
  BY <1>1, <1>3, RecursionExists
<1>5. R(f)
  <2>1. /\ f \in [0 .. Len(keys) -> Nat] /\ f[0] = 0
        /\ \A n \in 1 .. Len(keys) : f[n] = step[n][f[n - 1]]
    BY <1>4 DEF Recurs
  <2>2. ASSUME NEW n \in 0 .. Len(keys)
        PROVE  f[n] = IF n = 0 THEN 0 ELSE f[n - 1] + Bytes[keys[n]]
    <3>1. CASE n = 0
      BY <2>1, <3>1
    <3>2. CASE n # 0
      <4>1. n \in 1 .. Len(keys) /\ n - 1 \in 0 .. Len(keys)
        BY <1>1, <3>2
      <4>2. f[n] = step[n][f[n - 1]] /\ f[n - 1] \in Nat
        BY <2>1, <4>1
      <4>3. step[n][f[n - 1]] = f[n - 1] + Bytes[keys[n]]
        BY <1>2, <4>1, <4>2
      <4> QED
        BY <3>2, <4>2, <4>3
    <3> QED
      BY <3>1, <3>2
  <2> QED
    BY <2>1, <2>2
<1>6. PICK g : g = (CHOOSE h : R(h))
  OBVIOUS
<1>7. R(g)
  <2> HIDE DEF R
  <2> QED
    BY <1>5, <1>6
<1>8. BytesOf(keys) = g[Len(keys)]
  BY <1>6 DEF BytesOf
<1>9. g[0] = 0 /\ \A n \in 1 .. Len(keys) : g[n] = g[n - 1] + Bytes[keys[n]]
  <2>1. \A n \in 0 .. Len(keys) : g[n] = IF n = 0 THEN 0 ELSE g[n - 1] + Bytes[keys[n]]
    BY <1>7
  <2>2. 0 \in 0 .. Len(keys) /\ \A n \in 1 .. Len(keys) : n \in 0 .. Len(keys) /\ n # 0
    BY <1>1
  <2> QED
    BY <2>1, <2>2
<1>10. \A n \in 0 .. Len(keys) : n \in {m \in Nat : g[m] \in Nat}
  <2> DEFINE P == {m \in Nat : g[m] \in Nat}
  <2>1. 0 \in P
    BY <1>9
  <2>2. ASSUME NEW n \in 1 .. Len(keys), n - 1 \in P
        PROVE  n \in P
    <3>1. n \in Nat /\ g[n - 1] \in Nat
      BY <1>1, <2>2
    <3>2. g[n] = g[n - 1] + Bytes[keys[n]] /\ Bytes[keys[n]] \in Nat
      BY <1>1, <1>9
    <3> QED
      BY <3>1, <3>2
  <2> HIDE DEF P
  <2>3. \A n \in 0 .. Len(keys) : n \in P
    BY <1>1, <2>1, <2>2, UpTo
  <2> QED
    BY <2>3 DEF P
<1>11. g \in [0 .. Len(keys) -> Nat]
  <2>1. g = [n \in 0 .. Len(keys) |-> g[n]]
    BY <1>7
  <2> QED
    BY <1>10, <2>1
<1>12. Sums(g, keys)
  BY <1>9, <1>11 DEF Sums
<1> QED
  BY <1>8, <1>12

LEMMA BytesType ==
    ASSUME NEW keys \in Seq(Keys)
    PROVE  BytesOf(keys) \in Nat
<1>1. PICK f : Sums(f, keys) /\ BytesOf(keys) = f[Len(keys)]
  BY SumExists
<1>2. Len(keys) \in 0 .. Len(keys)
  BY SeqFacts
<1> QED
  BY <1>1, <1>2 DEF Sums

LEMMA BytesEmpty == BytesOf(<<>>) = 0
<1>1. <<>> \in Seq(Keys) /\ Len(<<>>) = 0
  OBVIOUS
<1>2. PICK f : Sums(f, <<>>) /\ BytesOf(<<>>) = f[0]
  BY <1>1, SumExists
<1> QED
  BY <1>2 DEF Sums

LEMMA BytesOne ==
    ASSUME NEW k \in Keys
    PROVE  BytesOf(<<k>>) = Bytes[k]
<1>1. <<k>> \in Seq(Keys) /\ Len(<<k>>) = 1 /\ <<k>>[1] = k /\ Bytes[k] \in Nat
  BY CacheLimitsOK
<1>2. PICK f : Sums(f, <<k>>) /\ BytesOf(<<k>>) = f[1]
  BY <1>1, SumExists
<1>3. f[1] = f[1 - 1] + Bytes[<<k>>[1]] /\ f[0] = 0
  BY <1>1, <1>2 DEF Sums
<1> QED
  BY <1>1, <1>2, <1>3

LEMMA BytesConcat ==
    ASSUME NEW s \in Seq(Keys), NEW t \in Seq(Keys)
    PROVE  BytesOf(s \o t) = BytesOf(s) + BytesOf(t)
<1>1. /\ s \o t \in Seq(Keys) /\ Len(s \o t) = Len(s) + Len(t)
      /\ Len(s) \in Nat /\ Len(t) \in Nat
      /\ \A n \in 1 .. Len(s) : (s \o t)[n] = s[n]
      /\ \A n \in 1 .. Len(t) : (s \o t)[Len(s) + n] = t[n]
      /\ \A n \in 1 .. Len(s) : Bytes[s[n]] \in Nat
      /\ \A n \in 1 .. Len(t) : Bytes[t[n]] \in Nat
  BY CacheLimitsOK
<1>2. PICK f : Sums(f, s) /\ BytesOf(s) = f[Len(s)]
  BY SumExists
<1>3. PICK g : Sums(g, t) /\ BytesOf(t) = g[Len(t)]
  BY SumExists
<1>4. PICK h : Sums(h, s \o t) /\ BytesOf(s \o t) = h[Len(s \o t)]
  BY <1>1, SumExists
<1>5. \A n \in 0 .. Len(s) : h[n] = f[n]
  <2> DEFINE P == {m \in Nat : h[m] = f[m]}
  <2>1. 0 \in P
    BY <1>2, <1>4 DEF Sums
  <2>2. ASSUME NEW n \in 1 .. Len(s), n - 1 \in P
        PROVE  n \in P
    <3>1. f[n] = f[n - 1] + Bytes[s[n]]
      BY <1>2 DEF Sums
    <3>2. n \in 1 .. Len(s \o t) /\ (s \o t)[n] = s[n]
      BY <1>1
    <3>3. h[n] = h[n - 1] + Bytes[(s \o t)[n]]
      BY <1>4, <3>2 DEF Sums
    <3> QED
      BY <2>2, <3>1, <3>2, <3>3
  <2> HIDE DEF P
  <2>3. \A n \in 0 .. Len(s) : n \in P
    BY <1>1, <2>1, <2>2, UpTo
  <2> QED
    BY <2>3 DEF P
<1>6. \A n \in 0 .. Len(t) : h[Len(s) + n] = f[Len(s)] + g[n]
  <2> DEFINE P == {m \in Nat : h[Len(s) + m] = f[Len(s)] + g[m]}
  <2>1. 0 \in P
    <3>1. f[Len(s)] \in Nat /\ g[0] = 0 /\ Len(s) \in 0 .. Len(s) /\ Len(s) + 0 = Len(s)
      BY <1>1, <1>2, <1>3 DEF Sums
    <3> QED
      BY <1>5, <3>1
  <2>2. ASSUME NEW n \in 1 .. Len(t), n - 1 \in P
        PROVE  n \in P
    <3>1. g[n] = g[n - 1] + Bytes[t[n]] /\ g[n - 1] \in Nat
      <4>1. n - 1 \in 0 .. Len(t)
        BY <1>1
      <4> QED
        BY <1>1, <1>3, <4>1 DEF Sums
    <3>2. /\ Len(s) + n \in 1 .. Len(s \o t) /\ (s \o t)[Len(s) + n] = t[n]
          /\ (Len(s) + n) - 1 = Len(s) + (n - 1)
      BY <1>1
    <3>3. h[Len(s) + n] = h[Len(s) + (n - 1)] + Bytes[(s \o t)[Len(s) + n]]
      BY <1>4, <3>2 DEF Sums
    <3>4. f[Len(s)] \in Nat /\ Bytes[t[n]] \in Nat
      BY <1>1, <1>2 DEF Sums
    <3>5. h[Len(s) + (n - 1)] = f[Len(s)] + g[n - 1]
      BY <2>2
    <3> QED
      BY <3>1, <3>2, <3>3, <3>4, <3>5
  <2> HIDE DEF P
  <2>3. \A n \in 0 .. Len(t) : n \in P
    BY <1>1, <2>1, <2>2, UpTo
  <2> QED
    BY <2>3 DEF P
<1>7. Len(t) \in 0 .. Len(t)
  BY <1>1
<1> QED
  BY <1>1, <1>2, <1>3, <1>4, <1>6, <1>7

-----------------------------------------------------------------------------
(* The cache's operations.                                                 *)

Resides(R) == [k \in R |-> k]
Caches == [lru : Seq(Keys), plans : {Resides(R) : R \in SUBSET Keys}, bytes : Nat]
GoodCaches == {c \in Caches : Consistent(c)}

LEMMA GoodFacts ==
    ASSUME NEW c \in GoodCaches
    PROVE  /\ c = [lru |-> c.lru, plans |-> c.plans, bytes |-> c.bytes]
           /\ c.lru \in Seq(Keys) /\ c.bytes \in Nat
           /\ Resident(c) \subseteq Keys /\ c.plans = Resides(Resident(c))
           /\ \A k \in Resident(c) : c.plans[k] = k
           /\ Consistent(c)
  BY DEF GoodCaches, Caches, Resident, Resides

LEMMA ConcatFacts ==
    ASSUME NEW S, NEW s \in Seq(S), NEW t \in Seq(S)
    PROVE  /\ s \o t \in Seq(S) /\ Len(s \o t) = Len(s) + Len(t)
           /\ \A i \in 1 .. Len(s) : (s \o t)[i] = s[i]
           /\ \A i \in Len(s) + 1 .. Len(s) + Len(t) : (s \o t)[i] = t[i - Len(s)]
  OBVIOUS

\* A sequence with the same entries as another, and so of the same bytes.
Reorders(t, s) == /\ t \in Seq(Keys) /\ ToSet(t) = ToSet(s) /\ IsInjective(t)
                  /\ Len(t) = Len(s) /\ BytesOf(t) = BytesOf(s)

LEMMA MoveToFrontReorders ==
    ASSUME NEW s \in Seq(Keys), IsInjective(s), NEW k \in ToSet(s)
    PROVE  Reorders(MoveToFront(s, k), s)
<1>1. PICK p : p = CHOOSE i \in DOMAIN s : s[i] = k
  OBVIOUS
<1>2. p \in 1 .. Len(s) /\ s[p] = k /\ Len(s) \in Nat /\ k \in Keys
  BY <1>1 DEF ToSet
<1>3. PICK a : a = SubSeq(s, 1, p - 1)
  OBVIOUS
<1>4. PICK b : b = SubSeq(s, p + 1, Len(s))
  OBVIOUS
<1>5. /\ a \in Seq(Keys) /\ Len(a) = p - 1 /\ \A i \in 1 .. p - 1 : a[i] = s[i]
      /\ b \in Seq(Keys) /\ Len(b) = Len(s) - p /\ \A i \in 1 .. Len(s) - p : b[i] = s[p + i]
  <2>1. a \in Seq(Keys) /\ Len(a) = p - 1 /\ \A i \in 1 .. p - 1 : a[i] = s[i]
    BY <1>2, <1>3
  <2>2. b \in Seq(Keys) /\ Len(b) = Len(s) - p
    BY <1>2, <1>4
  <2>3. \A i \in 1 .. Len(s) - p : b[i] = s[p + i]
    BY <1>2, <1>4
  <2> QED
    BY <2>1, <2>2, <2>3
<1>6. /\ <<k>> \o a \in Seq(Keys) /\ Len(<<k>> \o a) = p /\ (<<k>> \o a)[1] = k
      /\ \A i \in 1 .. p - 1 : (<<k>> \o a)[i + 1] = s[i]
  BY <1>2, <1>5
<1>7. PICK m : m = <<k>> \o a \o b
  OBVIOUS
<1>8. MoveToFront(s, k) = m
  BY <1>1, <1>3, <1>4, <1>7 DEF MoveToFront
<1>9. /\ m \in Seq(Keys) /\ Len(m) = Len(s) /\ m[1] = k
      /\ \A i \in 1 .. p - 1 : m[i + 1] = s[i]
      /\ \A i \in p + 1 .. Len(s) : m[i] = s[i]
  <2>1. m \in Seq(Keys) /\ Len(m) = Len(s) /\ \A i \in 1 .. p : m[i] = (<<k>> \o a)[i]
    BY <1>2, <1>5, <1>6, <1>7
  <2>2. \A i \in p + 1 .. Len(s) : m[i] = b[i - p]
    BY <1>2, <1>5, <1>6, <1>7
  <2> QED
    BY <1>2, <1>5, <1>6, <2>1, <2>2
<1>10. ToSet(m) = ToSet(s)
  <2>1. ASSUME NEW i \in 1 .. Len(s)
        PROVE  m[i] \in ToSet(s)
    <3>1. \/ i = 1 \/ i \in p + 1 .. Len(s)
          \/ i - 1 \in 1 .. p - 1 /\ (i - 1) + 1 = i
      BY <1>2
    <3>2. \E o \in 1 .. Len(s) : m[i] = s[o]
      <4>1. CASE i = 1
        BY <1>2, <1>9, <4>1
      <4>2. CASE i \in p + 1 .. Len(s)
        BY <1>9, <4>2
      <4>3. CASE i - 1 \in 1 .. p - 1 /\ (i - 1) + 1 = i
        <5>1. i - 1 \in 1 .. Len(s) /\ m[i] = s[i - 1]
          BY <1>2, <1>9, <4>3
        <5> QED
          BY <5>1
      <4> QED
        BY <3>1, <4>1, <4>2, <4>3
    <3> QED
      BY <3>2 DEF ToSet
  <2>2. ASSUME NEW i \in 1 .. Len(s)
        PROVE  s[i] \in ToSet(m)
    <3>1. \/ i = p \/ i \in p + 1 .. Len(s)
          \/ i \in 1 .. p - 1 /\ i + 1 \in 1 .. Len(s)
      BY <1>2
    <3>2. \E o \in 1 .. Len(s) : s[i] = m[o]
      <4>1. CASE i = p
        <5>1. 1 \in 1 .. Len(s) /\ s[i] = m[1]
          BY <1>2, <1>9, <4>1
        <5> QED
          BY <5>1
      <4>2. CASE i \in p + 1 .. Len(s)
        BY <1>9, <4>2
      <4>3. CASE i \in 1 .. p - 1 /\ i + 1 \in 1 .. Len(s)
        BY <1>9, <4>3
      <4> QED
        BY <3>1, <4>1, <4>2, <4>3
    <3> QED
      BY <1>9, <3>2 DEF ToSet
  <2>3. DOMAIN s = 1 .. Len(s) /\ DOMAIN m = 1 .. Len(s)
    BY <1>9
  <2>4. \A x \in ToSet(m) : x \in ToSet(s)
    BY <2>1, <2>3 DEF ToSet
  <2>5. \A x \in ToSet(s) : x \in ToSet(m)
    BY <2>2, <2>3 DEF ToSet
  <2> QED
    BY <2>4, <2>5
<1>11. IsInjective(m)
  <2>1. \A i \in 1 .. Len(s) : \E o \in 1 .. Len(s) :
           /\ m[i] = s[o]
           /\ o = IF i = 1 THEN p ELSE IF i <= p THEN i - 1 ELSE i
    <3>1. ASSUME NEW i \in 1 .. Len(s)
          PROVE  LET o == IF i = 1 THEN p ELSE IF i <= p THEN i - 1 ELSE i
                 IN  o \in 1 .. Len(s) /\ m[i] = s[o]
      <4>1. CASE i = 1
        BY <1>2, <1>9, <4>1
      <4>2. CASE i # 1 /\ i <= p
        <5>1. i - 1 \in 1 .. p - 1 /\ (i - 1) + 1 = i /\ i - 1 \in 1 .. Len(s)
          BY <1>2, <4>2
        <5> QED
          BY <1>9, <4>2, <5>1
      <4>3. CASE ~(i <= p)
        <5>1. i \in p + 1 .. Len(s) /\ i # 1
          BY <1>2, <4>3
        <5> QED
          BY <1>9, <4>3, <5>1
      <4> QED
        BY <4>1, <4>2, <4>3
    <3> QED
      BY <3>1
  <2>2. \A i, j \in 1 .. Len(s) : s[i] = s[j] => i = j
    BY DEF IsInjective
  <2>3. ASSUME NEW i \in 1 .. Len(s), NEW j \in 1 .. Len(s), m[i] = m[j]
        PROVE  i = j
    <3>1. PICK o \in 1 .. Len(s) :
             m[i] = s[o] /\ o = IF i = 1 THEN p ELSE IF i <= p THEN i - 1 ELSE i
      BY <2>1
    <3>2. PICK q \in 1 .. Len(s) :
             m[j] = s[q] /\ q = IF j = 1 THEN p ELSE IF j <= p THEN j - 1 ELSE j
      BY <2>1
    <3>3. o = q
      BY <2>2, <2>3, <3>1, <3>2
    <3> QED
      BY <1>2, <3>1, <3>2, <3>3
  <2> QED
    BY <1>9, <2>3 DEF IsInjective
<1>12. BytesOf(m) = BytesOf(s)
  <2>1. s = (a \o <<k>>) \o b
    <3>1. PICK t : t = (a \o <<k>>) \o b
      OBVIOUS
    <3>2. /\ a \o <<k>> \in Seq(Keys) /\ Len(a \o <<k>>) = p /\ (a \o <<k>>)[p] = k
          /\ \A i \in 1 .. p - 1 : (a \o <<k>>)[i] = s[i]
      <4>1. <<k>> \in Seq(Keys) /\ Len(<<k>>) = 1 /\ <<k>>[1] = k /\ (p - 1) + 1 = p
            /\ p \in (p - 1) + 1 .. p /\ p - (p - 1) = 1
        BY <1>2
      <4>2. a \o <<k>> \in Seq(Keys) /\ Len(a \o <<k>>) = p
        BY <1>2, <1>5, <4>1, ConcatFacts
      <4>3. \A i \in 1 .. p - 1 : (a \o <<k>>)[i] = a[i]
        BY <1>5, <4>1, ConcatFacts
      <4>4. (a \o <<k>>)[p] = <<k>>[p - (p - 1)]
        <5>1. p \in Len(a) + 1 .. Len(a) + Len(<<k>>)
          BY <1>2, <1>5, <4>1
        <5>2. (a \o <<k>>)[p] = <<k>>[p - Len(a)]
          BY <1>5, <4>1, <5>1, ConcatFacts
        <5> QED
          BY <1>5, <5>2
      <4> QED
        BY <1>5, <4>1, <4>2, <4>3, <4>4
    <3>3. /\ t \in Seq(Keys) /\ Len(t) = Len(s) /\ \A i \in 1 .. p : t[i] = (a \o <<k>>)[i]
          /\ \A i \in p + 1 .. Len(s) : t[i] = b[i - p]
      <4>1. /\ t \in Seq(Keys) /\ Len(t) = p + (Len(s) - p)
            /\ \A i \in 1 .. p : t[i] = (a \o <<k>>)[i]
            /\ \A i \in p + 1 .. p + (Len(s) - p) : t[i] = b[i - p]
        <5>1. PICK l : l = a \o <<k>>
          OBVIOUS
        <5>2. l \in Seq(Keys) /\ Len(l) = p /\ t = l \o b
          BY <3>1, <3>2, <5>1
        <5>3. /\ t \in Seq(Keys) /\ Len(t) = Len(l) + Len(b)
              /\ \A i \in 1 .. Len(l) : t[i] = l[i]
              /\ \A i \in Len(l) + 1 .. Len(l) + Len(b) : t[i] = b[i - Len(l)]
          <6>1. l \in Seq(Keys) /\ b \in Seq(Keys)
            BY <1>5, <5>2
          <6>2. /\ l \o b \in Seq(Keys) /\ Len(l \o b) = Len(l) + Len(b)
                /\ \A i \in 1 .. Len(l) : (l \o b)[i] = l[i]
                /\ \A i \in Len(l) + 1 .. Len(l) + Len(b) : (l \o b)[i] = b[i - Len(l)]
            BY <6>1, ConcatFacts
          <6> QED
            BY <5>2, <6>2
        <5> QED
          BY <1>5, <5>1, <5>2, <5>3
      <4>2. p + (Len(s) - p) = Len(s)
        BY <1>2
      <4> QED
        BY <4>1, <4>2
    <3>4. ASSUME NEW i \in 1 .. Len(s)
          PROVE  t[i] = s[i]
      <4>1. CASE i \in p + 1 .. Len(s)
        <5>1. i - p \in 1 .. Len(s) - p /\ p + (i - p) = i
          BY <1>2, <4>1
        <5>2. t[i] = b[i - p]
          BY <3>3, <4>1
        <5> QED
          BY <1>5, <5>1, <5>2
      <4>2. CASE i = p
        <5>1. i \in 1 .. p
          BY <1>2, <4>2
        <5> QED
          BY <1>2, <3>2, <3>3, <4>2, <5>1
      <4>3. CASE i \in 1 .. p - 1
        <5>1. i \in 1 .. p
          BY <1>2, <4>3
        <5> QED
          BY <3>2, <3>3, <4>3, <5>1
      <4> QED
        BY <1>2, <4>1, <4>2, <4>3
    <3>5. s = [i \in 1 .. Len(s) |-> s[i]] /\ t = [i \in 1 .. Len(t) |-> t[i]]
      BY <3>3
    <3> QED
      BY <3>1, <3>3, <3>4, <3>5
  <2>2. <<k>> \in Seq(Keys) /\ a \o <<k>> \in Seq(Keys)
    BY <1>2, <1>5
  <2>3. BytesOf(s) = (BytesOf(a) + BytesOf(<<k>>)) + BytesOf(b)
    BY <1>5, <2>1, <2>2, BytesConcat
  <2>4. BytesOf(m) = (BytesOf(<<k>>) + BytesOf(a)) + BytesOf(b)
    BY <1>5, <1>6, <1>7, <2>2, BytesConcat
  <2>5. BytesOf(a) \in Nat /\ BytesOf(b) \in Nat /\ BytesOf(<<k>>) \in Nat
    BY <1>5, <2>2, BytesType
  <2> QED
    BY <2>3, <2>4, <2>5
<1> QED
  BY <1>8, <1>9, <1>10, <1>11, <1>12 DEF Reorders

\* A cache whose list was reordered is as good.
LEMMA ReorderedGood ==
    ASSUME NEW c \in GoodCaches, NEW t, Reorders(t, c.lru)
    PROVE  /\ [c EXCEPT !.lru = t] \in GoodCaches
           /\ Resident([c EXCEPT !.lru = t]) = Resident(c)
<1>1. PICK d : d = [c EXCEPT !.lru = t]
  OBVIOUS
<1>2. d = [lru |-> t, plans |-> c.plans, bytes |-> c.bytes]
  BY <1>1, GoodFacts
<1>3. d \in Caches
  BY <1>2 DEF Reorders, GoodCaches, Caches
<1>4. Consistent(d) /\ Resident(d) = Resident(c)
  BY <1>2, GoodFacts DEF Reorders, Consistent, Resident
<1> QED
  BY <1>1, <1>3, <1>4 DEF GoodCaches

LEMMA TouchGood ==
    ASSUME NEW c \in GoodCaches, NEW k \in Resident(c)
    PROVE  Touch(c, k) \in GoodCaches /\ Resident(Touch(c, k)) = Resident(c)
<1>1. Reorders(MoveToFront(c.lru, k), c.lru)
  BY GoodFacts, MoveToFrontReorders DEF Consistent
<1> QED
  BY <1>1, ReorderedGood DEF Touch

\* Touching entries moves them and loses none.
LEMMA TouchAllGood ==
    ASSUME NEW c \in GoodCaches, NEW keys \in Seq(Keys)
    PROVE  /\ TouchAll(c, keys) \in GoodCaches
           /\ Resident(TouchAll(c, keys)) = Resident(c)
<1> DEFINE R(f) == f = [n \in 0 .. Len(keys) |->
                          IF n = 0 THEN c.lru
                          ELSE IF keys[n] \in Resident(c)
                               THEN MoveToFront(f[n - 1], keys[n])
                               ELSE f[n - 1]]
<1>1. /\ Len(keys) \in Nat /\ c.lru \in Seq(Keys) /\ IsInjective(c.lru)
      /\ ToSet(c.lru) = Resident(c)
  BY SeqFacts, GoodFacts DEF Consistent
<1>2. PICK S : S = {t \in Seq(Keys) : Reorders(t, c.lru)}
  OBVIOUS
<1>3. c.lru \in S
  BY <1>1, <1>2 DEF Reorders
<1>4. ASSUME NEW t \in S, NEW k \in Resident(c)
      PROVE  MoveToFront(t, k) \in S
  <2>1. Reorders(t, c.lru)
    BY <1>2
  <2>2. Reorders(MoveToFront(t, k), t)
    BY <1>1, <2>1, MoveToFrontReorders DEF Reorders
  <2> QED
    BY <1>2, <2>1, <2>2 DEF Reorders
<1>5. PICK step : step = [n \in 1 .. Len(keys) |-> [t \in S |->
                    IF keys[n] \in Resident(c) THEN MoveToFront(t, keys[n]) ELSE t]]
  OBVIOUS
<1>6. step \in [1 .. Len(keys) -> [S -> S]]
  BY <1>4, <1>5
<1>7. PICK f : Recurs(f, S, Len(keys), c.lru, step)
  BY <1>1, <1>3, <1>6, RecursionExists
<1>8. R(f)
  <2>1. /\ f \in [0 .. Len(keys) -> S] /\ f[0] = c.lru
        /\ \A n \in 1 .. Len(keys) : f[n] = step[n][f[n - 1]]
    BY <1>7 DEF Recurs
  <2>2. ASSUME NEW n \in 0 .. Len(keys)
        PROVE  f[n] = IF n = 0 THEN c.lru
                      ELSE IF keys[n] \in Resident(c)
                           THEN MoveToFront(f[n - 1], keys[n])
                           ELSE f[n - 1]
    <3>1. CASE n = 0
      BY <2>1, <3>1
    <3>2. CASE n # 0
      <4>1. n \in 1 .. Len(keys) /\ n - 1 \in 0 .. Len(keys)
        BY <1>1, <3>2
      <4>2. f[n] = step[n][f[n - 1]] /\ f[n - 1] \in S
        BY <2>1, <4>1
      <4>3. step[n][f[n - 1]] = IF keys[n] \in Resident(c)
                                THEN MoveToFront(f[n - 1], keys[n])
                                ELSE f[n - 1]
        BY <1>5, <4>1, <4>2
      <4> QED
        BY <3>2, <4>2, <4>3
    <3> QED
      BY <3>1, <3>2
  <2> QED
    BY <2>1, <2>2
<1>9. PICK g : g = (CHOOSE h : R(h))
  OBVIOUS
<1>10. R(g)
  <2> HIDE DEF R
  <2> QED
    BY <1>8, <1>9
<1>11. /\ g[0] = c.lru
       /\ \A n \in 1 .. Len(keys) :
             g[n] = IF keys[n] \in Resident(c) THEN MoveToFront(g[n - 1], keys[n])
                    ELSE g[n - 1]
  <2>1. \A n \in 0 .. Len(keys) :
           g[n] = IF n = 0 THEN c.lru
                  ELSE IF keys[n] \in Resident(c) THEN MoveToFront(g[n - 1], keys[n])
                       ELSE g[n - 1]
    BY <1>10
  <2>2. 0 \in 0 .. Len(keys) /\ \A n \in 1 .. Len(keys) : n \in 0 .. Len(keys) /\ n # 0
    BY <1>1
  <2> QED
    BY <2>1, <2>2
<1>12. g[Len(keys)] \in S
  <2> DEFINE P == {m \in Nat : g[m] \in S}
  <2>1. 0 \in P
    BY <1>3, <1>11
  <2>2. ASSUME NEW n \in 1 .. Len(keys), n - 1 \in P
        PROVE  n \in P
    <3>1. g[n - 1] \in S /\ n \in Nat
      BY <1>1, <2>2
    <3>2. keys[n] \in Resident(c) => MoveToFront(g[n - 1], keys[n]) \in S
      BY <1>4, <3>1
    <3> QED
      BY <1>11, <3>1, <3>2
  <2> HIDE DEF P
  <2>3. \A n \in 0 .. Len(keys) : n \in P
    BY <1>1, <2>1, <2>2, UpTo
  <2>4. Len(keys) \in 0 .. Len(keys)
    BY <1>1
  <2> QED
    BY <2>3, <2>4 DEF P
<1>13. TouchAll(c, keys) = [c EXCEPT !.lru = g[Len(keys)]]
  BY <1>9 DEF TouchAll
<1> QED
  BY <1>2, <1>12, <1>13, ReorderedGood

\* A sequence is what comes before a place and what comes after.
LEMMA JoinFacts ==
    ASSUME NEW s \in Seq(Keys), NEW n \in 0 .. Len(s), NEW a \in Seq(Keys), NEW b \in Seq(Keys),
           Len(a) = n, \A i \in 1 .. n : a[i] = s[i],
           Len(b) = Len(s) - n, \A i \in 1 .. Len(s) - n : b[i] = s[n + i]
    PROVE  s = a \o b
<1>1. Len(s) \in Nat /\ n \in Nat
  OBVIOUS
<1>2. PICK t : t = a \o b
  OBVIOUS
<1>3. /\ t \in Seq(Keys) /\ Len(t) = Len(a) + Len(b)
      /\ \A i \in 1 .. Len(a) : t[i] = a[i]
      /\ \A i \in Len(a) + 1 .. Len(a) + Len(b) : t[i] = b[i - Len(a)]
  BY <1>2, ConcatFacts
<1>4. Len(t) = Len(s)
  BY <1>1, <1>3
<1>5. ASSUME NEW i \in 1 .. Len(s)
      PROVE  t[i] = s[i]
  <2>1. CASE i <= n
    <3>1. i \in 1 .. n
      BY <2>1
    <3> QED
      BY <1>3, <3>1
  <2>2. CASE ~(i <= n)
    <3>1. i \in n + 1 .. n + (Len(s) - n) /\ i - n \in 1 .. Len(s) - n /\ n + (i - n) = i
      BY <1>1, <2>2
    <3>2. t[i] = b[i - n]
      BY <1>3, <3>1
    <3> QED
      BY <3>1, <3>2
  <2> QED
    BY <2>1, <2>2
<1>6. s = [i \in 1 .. Len(s) |-> s[i]] /\ t = [i \in 1 .. Len(t) |-> t[i]]
  BY <1>3
<1> QED
  BY <1>2, <1>4, <1>5, <1>6

\* Making room keeps a part of the list that fits.
LEMMA KeptFacts ==
    ASSUME NEW c \in GoodCaches, NEW b \in Nat, b <= MaximumResidentBytes
    PROVE  \E n \in 0 .. Len(c.lru) : /\ Kept(c, b) = SubSeq(c.lru, 1, n)
                                      /\ Fits(SubSeq(c.lru, 1, n), b)
<1> DEFINE R(n) == /\ Fits(SubSeq(c.lru, 1, n), b)
                   /\ n = Len(c.lru) \/ ~Fits(SubSeq(c.lru, 1, n + 1), b)
<1>1. c.lru \in Seq(Keys) /\ Len(c.lru) \in Nat
  BY GoodFacts
<1>2. Fits(SubSeq(c.lru, 1, 0), b)
  <2>1. SubSeq(c.lru, 1, 0) = <<>> /\ Len(<<>>) = 0
    BY <1>1
  <2>2. 0 + b = b /\ 0 < MaximumEntries
    BY CacheLimitsOK
  <2> QED
    BY <2>1, <2>2, BytesEmpty DEF Fits
<1>3. \E n \in 0 .. Len(c.lru) : R(n)
  <2>1. SUFFICES ASSUME ~\E n \in 0 .. Len(c.lru) : R(n) PROVE FALSE
    OBVIOUS
  <2> DEFINE P == {n \in Nat : Fits(SubSeq(c.lru, 1, n), b)}
  <2>2. 0 \in P
    BY <1>2
  <2>3. ASSUME NEW n \in 1 .. Len(c.lru), n - 1 \in P
        PROVE  n \in P
    <3>1. n - 1 \in 0 .. Len(c.lru) /\ n - 1 # Len(c.lru) /\ (n - 1) + 1 = n /\ n \in Nat
      BY <1>1
    <3>2. ~R(n - 1)
      BY <2>1, <3>1
    <3> QED
      BY <2>3, <3>1, <3>2
  <2>4. Len(c.lru) \in P
    <3> HIDE DEF P
    <3>1. Len(c.lru) \in 0 .. Len(c.lru)
      BY <1>1
    <3> QED
      BY <1>1, <2>2, <2>3, <3>1, UpTo
  <2>5. R(Len(c.lru)) /\ Len(c.lru) \in 0 .. Len(c.lru)
    BY <1>1, <2>4
  <2> QED
    BY <2>1, <2>5
<1>4. PICK n : n = CHOOSE m \in 0 .. Len(c.lru) : R(m)
  OBVIOUS
<1>5. n \in 0 .. Len(c.lru) /\ R(n)
  <2> HIDE DEF R
  <2> QED
    BY <1>3, <1>4
<1>6. Kept(c, b) = SubSeq(c.lru, 1, n)
  BY <1>4 DEF Kept
<1> QED
  BY <1>5, <1>6

LEMMA AdmitGood ==
    ASSUME NEW c \in GoodCaches, NEW k \in Keys \ Resident(c)
    PROVE  Admit(c, k, k) \in GoodCaches
<1>1. CASE Bytes[k] > MaximumResidentBytes
  BY <1>1 DEF Admit
<1>2. CASE ~(Bytes[k] > MaximumResidentBytes)
  <2>1. Bytes[k] \in Nat /\ Bytes[k] <= MaximumResidentBytes
    BY <1>2, CacheLimitsOK
  <2>2. PICK n \in 0 .. Len(c.lru) : /\ Kept(c, Bytes[k]) = SubSeq(c.lru, 1, n)
                                     /\ Fits(SubSeq(c.lru, 1, n), Bytes[k])
    BY <2>1, KeptFacts
  <2>3. /\ c.lru \in Seq(Keys) /\ Len(c.lru) \in Nat /\ c.bytes \in Nat /\ IsInjective(c.lru)
        /\ ToSet(c.lru) = Resident(c) /\ c.bytes = BytesOf(c.lru)
        /\ Resident(c) \subseteq Keys /\ \A x \in Resident(c) : c.plans[x] = x
    BY GoodFacts DEF Consistent
  <2>4. PICK kept : kept = SubSeq(c.lru, 1, n)
    OBVIOUS
  <2>5. PICK gone : gone = SubSeq(c.lru, n + 1, Len(c.lru))
    OBVIOUS
  <2>6. /\ kept \in Seq(Keys) /\ Len(kept) = n /\ \A i \in 1 .. n : kept[i] = c.lru[i]
        /\ gone \in Seq(Keys) /\ Len(gone) = Len(c.lru) - n
        /\ c.lru = kept \o gone
    <3>1. PICK s \in Seq(Keys) : s = c.lru
      BY <2>3
    <3>2. n \in 0 .. Len(s) /\ kept = SubSeq(s, 1, n) /\ gone = SubSeq(s, n + 1, Len(s))
      BY <2>4, <2>5, <3>1
    <3>3. kept \in Seq(Keys) /\ Len(kept) = n /\ \A i \in 1 .. n : kept[i] = s[i]
      BY <3>2
    <3>4. /\ gone \in Seq(Keys) /\ Len(gone) = Len(s) - n
          /\ \A i \in 1 .. Len(s) - n : gone[i] = s[n + i]
      BY <3>2
    <3>5. s = kept \o gone
      BY <3>2, <3>3, <3>4, JoinFacts
    <3> QED
      BY <3>1, <3>3, <3>4, <3>5
  <2>7. \A i \in 1 .. n : i \in 1 .. Len(c.lru)
    BY <2>3
  <2>8. PICK lru : lru = <<k>> \o kept
    OBVIOUS
  <2>9. PICK bytes : bytes = c.bytes - BytesOf(gone) + Bytes[k]
    OBVIOUS
  <2>10. PICK R : R = {k} \cup ToSet(kept)
    OBVIOUS
  <2>11. R \subseteq Keys /\ ToSet(kept) \subseteq Resident(c)
    <3>1. ToSet(kept) \subseteq ToSet(c.lru)
      <4>1. DOMAIN kept = 1 .. n /\ DOMAIN c.lru = 1 .. Len(c.lru)
        BY <2>3, <2>6
      <4> QED
        BY <2>6, <2>7, <4>1 DEF ToSet
    <3> QED
      BY <2>3, <2>10, <3>1
  <2>12. PICK d : d = Admit(c, k, k)
    OBVIOUS
  <2>13. d = [lru |-> lru, plans |-> Resides(R), bytes |-> bytes]
    <3>1. [x \in R |-> IF x = k THEN k ELSE c.plans[x]] = Resides(R)
      BY <2>3, <2>10, <2>11 DEF Resides
    <3>2. SubSeq(c.lru, Len(kept) + 1, Len(c.lru)) = gone
      BY <2>5, <2>6
    <3>3. d = [lru |-> <<k>> \o kept,
               plans |-> [x \in {k} \cup ToSet(kept) |-> IF x = k THEN k ELSE c.plans[x]],
               bytes |-> c.bytes - BytesOf(SubSeq(c.lru, Len(kept) + 1, Len(c.lru)))
                         + Bytes[k]]
      BY <1>2, <2>2, <2>4, <2>12 DEF Admit
    <3> QED
      BY <2>8, <2>9, <2>10, <3>1, <3>2, <3>3
  <2>14. /\ lru \in Seq(Keys) /\ Len(lru) = n + 1 /\ lru[1] = k
         /\ \A i \in 2 .. n + 1 : lru[i] = kept[i - 1]
    BY <2>6, <2>8
  <2>15. /\ BytesOf(c.lru) = BytesOf(kept) + BytesOf(gone)
         /\ BytesOf(kept) \in Nat /\ BytesOf(gone) \in Nat
    BY <2>6, BytesConcat, BytesType
  <2>16. BytesOf(lru) = Bytes[k] + BytesOf(kept)
    <3>1. <<k>> \in Seq(Keys)
      OBVIOUS
    <3> QED
      BY <2>6, <2>8, <3>1, BytesConcat, BytesOne
  <2>17. bytes = BytesOf(lru) /\ bytes \in Nat
    BY <2>1, <2>3, <2>9, <2>15, <2>16
  <2>18. n < MaximumEntries /\ BytesOf(kept) + Bytes[k] <= MaximumResidentBytes
    BY <2>2, <2>4, <2>6 DEF Fits
  <2>19. Len(lru) <= MaximumEntries /\ bytes <= MaximumResidentBytes
    BY <2>1, <2>14, <2>15, <2>16, <2>17, <2>18, CacheLimitsOK
  <2>20. ToSet(lru) = R
    <3>1. ASSUME NEW i \in 1 .. n + 1
          PROVE  lru[i] \in R
      <4>1. CASE i = 1
        BY <2>10, <2>14, <4>1
      <4>2. CASE i # 1
        <5>1. i \in 2 .. n + 1 /\ i - 1 \in 1 .. n
          BY <4>2
        <5>2. lru[i] = kept[i - 1] /\ i - 1 \in DOMAIN kept
          BY <2>6, <2>14, <5>1
        <5> QED
          BY <2>10, <5>2 DEF ToSet
      <4> QED
        BY <4>1, <4>2
    <3>2. ASSUME NEW i \in 1 .. n
          PROVE  kept[i] \in ToSet(lru)
      <4>1. i + 1 \in 2 .. n + 1 /\ (i + 1) - 1 = i /\ i + 1 \in DOMAIN lru
        BY <2>14
      <4>2. lru[i + 1] = kept[i]
        BY <2>14, <4>1
      <4> QED
        BY <4>1, <4>2 DEF ToSet
    <3>3. k \in ToSet(lru)
      <4>1. 1 \in DOMAIN lru
        BY <2>14
      <4> QED
        BY <2>14, <4>1 DEF ToSet
    <3>4. DOMAIN lru = 1 .. n + 1 /\ DOMAIN kept = 1 .. n
      BY <2>6, <2>14
    <3>5. \A x \in ToSet(lru) : x \in R
      BY <3>1, <3>4 DEF ToSet
    <3>6. \A x \in ToSet(kept) : x \in ToSet(lru)
      BY <3>2, <3>4 DEF ToSet
    <3> QED
      BY <2>10, <3>3, <3>5, <3>6
  <2>21. IsInjective(lru)
    <3>1. ASSUME NEW i \in 2 .. n + 1
          PROVE  i - 1 \in 1 .. Len(c.lru) /\ lru[i] = c.lru[i - 1] /\ lru[i] # k
      <4>1. i - 1 \in 1 .. n /\ i - 1 \in 1 .. Len(c.lru)
        BY <2>3
      <4>2. lru[i] = c.lru[i - 1]
        BY <2>6, <2>14, <4>1
      <4>3. c.lru[i - 1] \in Resident(c)
        BY <2>3, <4>1 DEF ToSet
      <4> QED
        BY <4>1, <4>2, <4>3
    <3>2. \A i, j \in 1 .. Len(c.lru) : c.lru[i] = c.lru[j] => i = j
      BY <2>3 DEF IsInjective
    <3>3. ASSUME NEW i \in 1 .. n + 1, NEW j \in 1 .. n + 1, lru[i] = lru[j]
          PROVE  i = j
      <4>1. (i = 1 \/ i \in 2 .. n + 1) /\ (j = 1 \/ j \in 2 .. n + 1)
        OBVIOUS
      <4>2. CASE i \in 2 .. n + 1 /\ j \in 2 .. n + 1
        <5>1. i - 1 = j - 1
          BY <3>1, <3>2, <3>3, <4>2
        <5> QED
          BY <5>1
      <4> QED
        BY <2>14, <3>1, <3>3, <4>1, <4>2
    <3>4. DOMAIN lru = 1 .. n + 1
      BY <2>14
    <3> QED
      BY <3>3, <3>4 DEF IsInjective
  <2>22. d \in Caches
    BY <2>11, <2>13, <2>14, <2>17 DEF Caches
  <2>23. Resident(d) = R
    BY <2>13 DEF Resident, Resides
  <2>24. Consistent(d)
    BY <2>13, <2>17, <2>19, <2>20, <2>21, <2>23 DEF Consistent
  <2> QED
    BY <2>12, <2>22, <2>24 DEF GoodCaches
<1> QED
  BY <1>1, <1>2

LEMMA PublishGood ==
    ASSUME NEW c \in GoodCaches, NEW k \in Keys
    PROVE  Publish(c, k, k) \in GoodCaches
  BY TouchGood, AdmitGood DEF Publish

\* Offering plans one by one leaves a good cache.
LEMMA PublishAllGood ==
    ASSUME NEW c \in GoodCaches, NEW keys \in Seq(Keys)
    PROVE  PublishAll(c, keys) \in GoodCaches
<1> DEFINE R(f) == f = [n \in 0 .. Len(keys) |->
                          IF n = 0 THEN c
                          ELSE Publish(f[n - 1], keys[n], keys[n])]
<1>1. Len(keys) \in Nat /\ \A n \in 1 .. Len(keys) : keys[n] \in Keys
  BY SeqFacts
<1>2. PICK S : S = GoodCaches
  OBVIOUS
<1>3. c \in S
  BY <1>2
<1>4. ASSUME NEW n \in 1 .. Len(keys), NEW t \in S
      PROVE  Publish(t, keys[n], keys[n]) \in S
  BY <1>1, <1>2, PublishGood
<1>5. PICK step : step = [n \in 1 .. Len(keys) |-> [t \in S |->
                    Publish(t, keys[n], keys[n])]]
  OBVIOUS
<1>6. step \in [1 .. Len(keys) -> [S -> S]]
  BY <1>4, <1>5
<1>7. PICK f : Recurs(f, S, Len(keys), c, step)
  BY <1>1, <1>3, <1>6, RecursionExists
<1>8. R(f)
  <2>1. /\ f \in [0 .. Len(keys) -> S] /\ f[0] = c
        /\ \A n \in 1 .. Len(keys) : f[n] = step[n][f[n - 1]]
    BY <1>7 DEF Recurs
  <2>2. ASSUME NEW n \in 0 .. Len(keys)
        PROVE  f[n] = IF n = 0 THEN c
                      ELSE Publish(f[n - 1], keys[n], keys[n])
    <3>1. CASE n = 0
      BY <2>1, <3>1
    <3>2. CASE n # 0
      <4>1. n \in 1 .. Len(keys) /\ n - 1 \in 0 .. Len(keys)
        BY <1>1, <3>2
      <4>2. f[n] = step[n][f[n - 1]] /\ f[n - 1] \in S
        BY <2>1, <4>1
      <4>3. step[n][f[n - 1]] = Publish(f[n - 1], keys[n], keys[n])
        BY <1>5, <4>1, <4>2
      <4> QED
        BY <3>2, <4>2, <4>3
    <3> QED
      BY <3>1, <3>2
  <2> QED
    BY <2>1, <2>2
<1>9. PICK g : g = (CHOOSE h : R(h))
  OBVIOUS
<1>10. R(g)
  <2> HIDE DEF R
  <2> QED
    BY <1>8, <1>9
<1>11. /\ g[0] = c
       /\ \A n \in 1 .. Len(keys) : g[n] = Publish(g[n - 1], keys[n], keys[n])
  <2>1. \A n \in 0 .. Len(keys) :
           g[n] = IF n = 0 THEN c
                  ELSE Publish(g[n - 1], keys[n], keys[n])
    BY <1>10
  <2>2. 0 \in 0 .. Len(keys) /\ \A n \in 1 .. Len(keys) : n \in 0 .. Len(keys) /\ n # 0
    BY <1>1
  <2> QED
    BY <2>1, <2>2
<1>12. g[Len(keys)] \in S
  <2> DEFINE P == {m \in Nat : g[m] \in S}
  <2>1. 0 \in P
    BY <1>3, <1>11
  <2>2. ASSUME NEW n \in 1 .. Len(keys), n - 1 \in P
        PROVE  n \in P
    <3>1. g[n - 1] \in S /\ n \in Nat
      BY <1>1, <2>2
    <3>2. (Publish(g[n - 1], keys[n], keys[n])) \in S
      BY <1>4, <3>1
    <3> QED
      BY <1>11, <3>1, <3>2
  <2> HIDE DEF P
  <2>3. \A n \in 0 .. Len(keys) : n \in P
    BY <1>1, <2>1, <2>2, UpTo
  <2>4. Len(keys) \in 0 .. Len(keys)
    BY <1>1
  <2> QED
    BY <2>3, <2>4 DEF P
<1>13. PublishAll(c, keys) = g[Len(keys)]
  BY <1>9 DEF PublishAll
<1> QED
  BY <1>2, <1>12, <1>13

\* Some of the keys of a sequence are a sequence of keys.
LEMMA SelectType ==
    ASSUME NEW keys \in Seq(Keys), NEW wanted
    PROVE  Select(keys, wanted) \in Seq(Keys)
<1> DEFINE R(f) == f = [n \in 0 .. Len(keys) |->
                          IF n = 0 THEN <<>>
                          ELSE IF keys[n] \in wanted THEN Append(f[n - 1], keys[n]) ELSE f[n - 1]]
<1>1. Len(keys) \in Nat /\ \A n \in 1 .. Len(keys) : keys[n] \in Keys
  BY SeqFacts
<1>2. PICK S : S = Seq(Keys)
  OBVIOUS
<1>3. <<>> \in S
  BY <1>2
<1>4. ASSUME NEW n \in 1 .. Len(keys), NEW t \in S
      PROVE  (IF keys[n] \in wanted THEN Append(t, keys[n]) ELSE t) \in S
  BY <1>1, <1>2
<1>5. PICK step : step = [n \in 1 .. Len(keys) |-> [t \in S |->
                    IF keys[n] \in wanted THEN Append(t, keys[n]) ELSE t]]
  OBVIOUS
<1>6. step \in [1 .. Len(keys) -> [S -> S]]
  BY <1>4, <1>5
<1>7. PICK f : Recurs(f, S, Len(keys), <<>>, step)
  BY <1>1, <1>3, <1>6, RecursionExists
<1>8. R(f)
  <2>1. /\ f \in [0 .. Len(keys) -> S] /\ f[0] = <<>>
        /\ \A n \in 1 .. Len(keys) : f[n] = step[n][f[n - 1]]
    BY <1>7 DEF Recurs
  <2>2. ASSUME NEW n \in 0 .. Len(keys)
        PROVE  f[n] = IF n = 0 THEN <<>>
                      ELSE IF keys[n] \in wanted THEN Append(f[n - 1], keys[n]) ELSE f[n - 1]
    <3>1. CASE n = 0
      BY <2>1, <3>1
    <3>2. CASE n # 0
      <4>1. n \in 1 .. Len(keys) /\ n - 1 \in 0 .. Len(keys)
        BY <1>1, <3>2
      <4>2. f[n] = step[n][f[n - 1]] /\ f[n - 1] \in S
        BY <2>1, <4>1
      <4>3. step[n][f[n - 1]] = IF keys[n] \in wanted THEN Append(f[n - 1], keys[n]) ELSE f[n - 1]
        BY <1>5, <4>1, <4>2
      <4> QED
        BY <3>2, <4>2, <4>3
    <3> QED
      BY <3>1, <3>2
  <2> QED
    BY <2>1, <2>2
<1>9. PICK g : g = (CHOOSE h : R(h))
  OBVIOUS
<1>10. R(g)
  <2> HIDE DEF R
  <2> QED
    BY <1>8, <1>9
<1>11. /\ g[0] = <<>>
       /\ \A n \in 1 .. Len(keys) :
             g[n] = IF keys[n] \in wanted THEN Append(g[n - 1], keys[n]) ELSE g[n - 1]
  <2>1. \A n \in 0 .. Len(keys) :
           g[n] = IF n = 0 THEN <<>>
                  ELSE IF keys[n] \in wanted THEN Append(g[n - 1], keys[n]) ELSE g[n - 1]
    BY <1>10
  <2>2. 0 \in 0 .. Len(keys) /\ \A n \in 1 .. Len(keys) : n \in 0 .. Len(keys) /\ n # 0
    BY <1>1
  <2> QED
    BY <2>1, <2>2
<1>12. g[Len(keys)] \in S
  <2> DEFINE P == {m \in Nat : g[m] \in S}
  <2>1. 0 \in P
    BY <1>3, <1>11
  <2>2. ASSUME NEW n \in 1 .. Len(keys), n - 1 \in P
        PROVE  n \in P
    <3>1. g[n - 1] \in S /\ n \in Nat
      BY <1>1, <2>2
    <3>2. (IF keys[n] \in wanted THEN Append(g[n - 1], keys[n]) ELSE g[n - 1]) \in S
      BY <1>4, <3>1
    <3> QED
      BY <1>11, <3>1, <3>2
  <2> HIDE DEF P
  <2>3. \A n \in 0 .. Len(keys) : n \in P
    BY <1>1, <2>1, <2>2, UpTo
  <2>4. Len(keys) \in 0 .. Len(keys)
    BY <1>1
  <2> QED
    BY <2>3, <2>4 DEF P
<1>13. Select(keys, wanted) = g[Len(keys)]
  BY <1>9 DEF Select
<1> QED
  BY <1>2, <1>12, <1>13

\* So are its keys without repetition.
LEMMA UniqueKeysType ==
    ASSUME NEW keys \in Seq(Keys)
    PROVE  UniqueKeys(keys) \in Seq(Keys)
<1> DEFINE R(f) == f = [n \in 0 .. Len(keys) |->
                          IF n = 0 THEN <<>>
                          ELSE IF \E i \in 1 .. n - 1 : keys[i] = keys[n] THEN f[n - 1]
                               ELSE Append(f[n - 1], keys[n])]
<1>1. Len(keys) \in Nat /\ \A n \in 1 .. Len(keys) : keys[n] \in Keys
  BY SeqFacts
<1>2. PICK S : S = Seq(Keys)
  OBVIOUS
<1>3. <<>> \in S
  BY <1>2
<1>4. ASSUME NEW n \in 1 .. Len(keys), NEW t \in S
      PROVE  (IF \E i \in 1 .. n - 1 : keys[i] = keys[n] THEN t
              ELSE Append(t, keys[n])) \in S
  BY <1>1, <1>2
<1>5. PICK step : step = [n \in 1 .. Len(keys) |-> [t \in S |->
                    IF \E i \in 1 .. n - 1 : keys[i] = keys[n] THEN t ELSE Append(t, keys[n])]]
  OBVIOUS
<1>6. step \in [1 .. Len(keys) -> [S -> S]]
  BY <1>4, <1>5
<1>7. PICK f : Recurs(f, S, Len(keys), <<>>, step)
  BY <1>1, <1>3, <1>6, RecursionExists
<1>8. R(f)
  <2>1. /\ f \in [0 .. Len(keys) -> S] /\ f[0] = <<>>
        /\ \A n \in 1 .. Len(keys) : f[n] = step[n][f[n - 1]]
    BY <1>7 DEF Recurs
  <2>2. ASSUME NEW n \in 0 .. Len(keys)
        PROVE  f[n] = IF n = 0 THEN <<>>
                      ELSE IF \E i \in 1 .. n - 1 : keys[i] = keys[n] THEN f[n - 1]
                           ELSE Append(f[n - 1], keys[n])
    <3>1. CASE n = 0
      BY <2>1, <3>1
    <3>2. CASE n # 0
      <4>1. n \in 1 .. Len(keys) /\ n - 1 \in 0 .. Len(keys)
        BY <1>1, <3>2
      <4>2. f[n] = step[n][f[n - 1]] /\ f[n - 1] \in S
        BY <2>1, <4>1
      <4>3. step[n][f[n - 1]] = IF \E i \in 1 .. n - 1 : keys[i] = keys[n] THEN f[n - 1]
                                ELSE Append(f[n - 1], keys[n])
        BY <1>5, <4>1, <4>2
      <4> QED
        BY <3>2, <4>2, <4>3
    <3> QED
      BY <3>1, <3>2
  <2> QED
    BY <2>1, <2>2
<1>9. PICK g : g = (CHOOSE h : R(h))
  OBVIOUS
<1>10. R(g)
  <2> HIDE DEF R
  <2> QED
    BY <1>8, <1>9
<1>11. /\ g[0] = <<>>
       /\ \A n \in 1 .. Len(keys) :
             g[n] = IF \E i \in 1 .. n - 1 : keys[i] = keys[n] THEN g[n - 1]
                    ELSE Append(g[n - 1], keys[n])
  <2>1. \A n \in 0 .. Len(keys) :
           g[n] = IF n = 0 THEN <<>>
                  ELSE IF \E i \in 1 .. n - 1 : keys[i] = keys[n] THEN g[n - 1]
                       ELSE Append(g[n - 1], keys[n])
    BY <1>10
  <2>2. 0 \in 0 .. Len(keys) /\ \A n \in 1 .. Len(keys) : n \in 0 .. Len(keys) /\ n # 0
    BY <1>1
  <2> QED
    BY <2>1, <2>2
<1>12. g[Len(keys)] \in S
  <2> DEFINE P == {m \in Nat : g[m] \in S}
  <2>1. 0 \in P
    BY <1>3, <1>11
  <2>2. ASSUME NEW n \in 1 .. Len(keys), n - 1 \in P
        PROVE  n \in P
    <3>1. g[n - 1] \in S /\ n \in Nat
      BY <1>1, <2>2
    <3>2. (IF \E i \in 1 .. n - 1 : keys[i] = keys[n] THEN g[n - 1]
           ELSE Append(g[n - 1], keys[n])) \in S
      BY <1>4, <3>1
    <3> QED
      BY <1>11, <3>1, <3>2
  <2> HIDE DEF P
  <2>3. \A n \in 0 .. Len(keys) : n \in P
    BY <1>1, <2>1, <2>2, UpTo
  <2>4. Len(keys) \in 0 .. Len(keys)
    BY <1>1
  <2> QED
    BY <2>3, <2>4 DEF P
<1>13. UniqueKeys(keys) = g[Len(keys)]
  BY <1>9 DEF UniqueKeys
<1> QED
  BY <1>2, <1>12, <1>13

-----------------------------------------------------------------------------
(* The invariant.                                                          *)

Pcs == {"idle", "open", "fetch", "decode", "remove", "publish",
        "lookup", "batch", "flight", "build", "finish"}
Readies == {<<>>} \cup {Resides(R) : R \in SUBSET Keys}
CallerType == [pc : Pcs, job : Jobs \cup {NoJob}, stored : BOOLEAN, todo : Seq(Keys),
               next : {"idle", "lookup", "batch"}, ready : Readies, got : Seq(Keys),
               built : Nat, garbled : {FALSE}]

\* A caller that fetches has something to fetch; what a job has got answers the first of
\* its requests.
CallerOK(r) ==
    /\ r \in CallerType
    /\ r.pc # "idle" => r.job \in Jobs
    /\ r.pc \in {"fetch", "decode", "remove", "publish"} =>
          r.todo # <<>> /\ r.next \in {"lookup", "batch"}
    /\ Len(r.got) <= Len(r.job.requests)
    /\ \A i \in 1 .. Len(r.got) : r.got[i] = r.job.requests[i]

StoreOK ==
    /\ store \in {"untried", "open", "disabled"}
    /\ files \in [Grids -> Pack \cup {NoPack}]
    /\ store_queue_ \in Seq(Seq(Keys))
    /\ writer \in {NoWriter} \cup [pc : {"write"}, requests : Seq(Keys)]
                  \cup [pc : {"rename"}, requests : Seq(Keys), pack : Pack]

\* build_mutex is held by the caller that builds.
BuilderOK == /\ builder \in Callers \cup {None}
             /\ \A e \in Callers : ex[e].pc = "build" <=> builder = e

\* A key that is not resident has been lost as often as it was built.
CountsOK == /\ builds \in [Keys -> Nat] /\ losses \in [Keys -> Nat]
            /\ BuiltOnce
            /\ \A k \in Keys \ Resident(cache) : builds[k] <= losses[k]

\* So has what a builder is about to build, whatever is fetched meanwhile.
BuildsOK == \A e \in Callers : ex[e].pc = "build" =>
               \A k \in Missing(ex[e]) : builds[k] <= losses[k]

CallersOK == ex \in [Callers -> CallerType] /\ \A e \in Callers : CallerOK(ex[e])

PlanIInv == cache \in GoodCaches /\ StoreOK /\ CallersOK /\ BuilderOK /\ CountsOK /\ BuildsOK

-----------------------------------------------------------------------------
LEMMA JobFacts ==
    ASSUME NEW r, CallerOK(r)
    PROVE  /\ r.job.requests \in Seq(Keys) /\ r.job.chunked \in BOOLEAN
           /\ r.pc # "idle" => r.job.requests # <<>>
<1>1. r.job \in Jobs \cup {NoJob}
  BY DEF CallerOK, CallerType
<1>2. NoJob.requests = <<>> /\ NoJob.chunked = FALSE /\ <<>> \in Seq(Keys)
  BY DEF NoJob
<1> QED
  BY <1>1, <1>2, JobsOK DEF CallerOK

LEMMA ChunkFacts ==
    ASSUME NEW r, CallerOK(r)
    PROVE  /\ Chunk(r) \in Seq(Keys)
           /\ Len(r.got) + Len(Chunk(r)) <= Len(r.job.requests)
           /\ \A i \in 1 .. Len(Chunk(r)) : Chunk(r)[i] = r.job.requests[Len(r.got) + i]
<1>1. PICK s : s = r.job.requests
  OBVIOUS
<1>2. PICK begin : begin = Len(r.got)
  OBVIOUS
<1>3. s \in Seq(Keys) /\ Len(s) \in Nat /\ begin \in Nat /\ begin <= Len(s)
  <2>1. s \in Seq(Keys) /\ begin <= Len(s)
    BY <1>1, <1>2, JobFacts DEF CallerOK
  <2>2. r.got \in Seq(Keys)
    BY DEF CallerOK, CallerType
  <2> QED
    BY <1>2, <2>1, <2>2
<1>4. PICK end : end = IF r.job.chunked /\ begin + ChunkSize < Len(s)
                       THEN begin + ChunkSize ELSE Len(s)
  OBVIOUS
<1>5. end \in Nat /\ begin <= end /\ end <= Len(s)
  BY <1>3, <1>4, SupplyBoundsOK
<1>6. PICK chunk : chunk = SubSeq(s, begin + 1, end)
  OBVIOUS
<1>7. chunk \in Seq(Keys) /\ Len(chunk) = end - begin
  BY <1>3, <1>5, <1>6
<1>8. \A i \in 1 .. end - begin : chunk[i] = s[begin + i]
  BY <1>3, <1>5, <1>6
<1>9. Chunk(r) = chunk
  BY <1>1, <1>2, <1>4, <1>6 DEF Chunk
<1> QED
  BY <1>1, <1>2, <1>3, <1>5, <1>7, <1>8, <1>9

LEMMA MissingKeys ==
    ASSUME NEW r, CallerOK(r)
    PROVE  Missing(r) \subseteq Keys
<1>1. ToSet(Chunk(r)) \subseteq Keys
  <2>1. Chunk(r) \in Seq(Keys)
    BY ChunkFacts
  <2> QED
    BY <2>1 DEF ToSet
<1> QED
  BY <1>1 DEF Missing

LEMMA ReadyFacts ==
    ASSUME NEW ready \in Readies
    PROVE  DOMAIN ready \subseteq Keys /\ \A k \in DOMAIN ready : ready[k] = k
<1>1. CASE ready = <<>>
  BY <1>1
<1>2. CASE ready # <<>>
  <2>1. PICK R \in SUBSET Keys : ready = Resides(R)
    BY <1>2 DEF Readies
  <2> QED
    BY <2>1 DEF Resides
<1> QED
  BY <1>1, <1>2

LEMMA FoundFacts ==
    ASSUME cache \in GoodCaches, NEW ready \in Readies, NEW keys
    PROVE  /\ Found(ready, keys) \in Readies
           /\ DOMAIN Found(ready, keys) = DOMAIN ready \cup (keys \cap Resident(cache))
<1>1. PICK R : R = DOMAIN ready \cup (keys \cap Resident(cache))
  OBVIOUS
<1>2. Resident(cache) \subseteq Keys /\ \A k \in Resident(cache) : cache.plans[k] = k
  BY GoodFacts
<1>3. Found(ready, keys) = Resides(R)
  BY <1>1, <1>2, ReadyFacts DEF Found, Resides
<1>4. R \in SUBSET Keys
  BY <1>1, <1>2, ReadyFacts
<1> QED
  BY <1>1, <1>3, <1>4 DEF Readies, Resides

LEMMA PlansCardinality ==
    ASSUME NEW S
    PROVE  Cardinality(S) = Cardinality(S)
  BY DEF Cardinality, Cardinality

LEMMA SetToSeqType ==
    ASSUME NEW keys \in Seq(Keys)
    PROVE  SetToSeq(ToSet(keys)) \in Seq(Keys)
<1>1. PICK S : S = ToSet(keys)
  OBVIOUS
<1>2. S \subseteq Keys /\ IsFiniteSet(S)
  <2>1. S = {keys[i] : i \in 1 .. Len(keys)} /\ Len(keys) \in Nat
    BY <1>1 DEF ToSet
  <2>2. IsFiniteSet(1 .. Len(keys))
    BY <2>1, FS_Interval
  <2>3. keys \in Surjection(1 .. Len(keys), S)
    BY <2>1 DEF Surjection
  <2>4. IsFiniteSet(S)
    BY <2>2, <2>3, FS_Surjection
  <2> QED
    BY <2>1, <2>4
<1>3. Cardinality(S) \in Nat /\ \E f : f \in Bijection(1 .. Cardinality(S), S)
  BY <1>2, FS_CardinalityType DEF ExistsBijection
<1>4. \E f \in [1 .. Cardinality(S) -> S] : IsInjective(f)
  <2>1. PICK f : f \in Bijection(1 .. Cardinality(S), S)
    BY <1>3
  <2>2. f \in [1 .. Cardinality(S) -> S] /\ IsInjective(f)
    BY <2>1 DEF Bijection, Injection, IsInjective, IsInjective
  <2> QED
    BY <2>2
<1>5. SetToSeq(S) \in [1 .. Cardinality(S) -> S]
  BY <1>4, PlansCardinality DEF SetToSeq
<1>6. SetToSeq(S) \in Seq(S)
  BY <1>3, <1>5
<1> QED
  BY <1>1, <1>2, <1>6

-----------------------------------------------------------------------------
(* What the steps have in common.                                          *)

\* The cache stays, or what leaves it or does not get in is counted as lost.
CacheStep == \/ UNCHANGED <<cache, losses>>
             \/ cache' \in GoodCaches /\ \E c, tried : CacheBecomes(c, tried)

LEMMA LossesGrow ==
    ASSUME PlanIInv, CacheStep
    PROVE  /\ cache' \in GoodCaches /\ losses' \in [Keys -> Nat]
           /\ \A k \in Keys : losses[k] <= losses'[k]
           /\ \A k \in Resident(cache) \ Resident(cache)' : losses'[k] = losses[k] + 1
<1>1. losses \in [Keys -> Nat] /\ cache \in GoodCaches /\ Resident(cache) \subseteq Keys
  BY GoodFacts DEF PlanIInv, CountsOK
<1>2. CASE UNCHANGED <<cache, losses>>
  BY <1>1, <1>2 DEF Resident
<1>3. CASE cache' \in GoodCaches /\ \E c, tried : CacheBecomes(c, tried)
  <2>1. PICK c, tried : CacheBecomes(c, tried)
    BY <1>3
  <2>2. PICK R : R = Resident(cache')
    OBVIOUS
  <2>3. Resident(cache)' = R
    BY <2>2 DEF Resident
  <2>4. losses' = [k \in Keys |-> IF (k \in Resident(cache) \cup tried) /\ k \notin R
                                  THEN losses[k] + 1 ELSE losses[k]]
    BY <2>1, <2>2 DEF CacheBecomes
  <2> QED
    BY <1>1, <1>3, <2>3, <2>4
<1> QED
  BY <1>2, <1>3 DEF CacheStep

\* A step that builds nothing leaves the counts right.
LEMMA CountsKept ==
    ASSUME PlanIInv, CacheStep, builds' = builds
    PROVE  CountsOK'
<1>1. /\ losses \in [Keys -> Nat] /\ builds \in [Keys -> Nat]
      /\ \A k \in Keys : builds[k] <= losses[k] + 1
      /\ \A k \in Keys \ Resident(cache) : builds[k] <= losses[k]
  BY DEF PlanIInv, CountsOK, BuiltOnce
<1>2. /\ losses' \in [Keys -> Nat] /\ \A k \in Keys : losses[k] <= losses'[k]
      /\ \A k \in Resident(cache) \ Resident(cache)' : losses'[k] = losses[k] + 1
  BY LossesGrow
<1>3. ASSUME NEW k \in Keys
      PROVE  builds[k] <= losses'[k] + 1
  BY <1>1, <1>2
<1>4. ASSUME NEW k \in Keys, k \notin Resident(cache)'
      PROVE  builds[k] <= losses'[k]
  <2>1. CASE k \in Resident(cache)
    BY <1>1, <1>2, <1>4, <2>1
  <2>2. CASE k \notin Resident(cache)
    <3>1. builds[k] <= losses[k] /\ losses[k] <= losses'[k]
      BY <1>1, <1>2, <2>2
    <3> QED
      BY <1>1, <1>2, <3>1
  <2> QED
    BY <2>1, <2>2
<1> QED
  BY <1>1, <1>2, <1>3, <1>4 DEF CountsOK, BuiltOnce

\* One caller's locals change.
LEMMA CallersKept ==
    ASSUME PlanIInv, NEW e \in Callers, NEW r, CallerOK(r), Set(e, r)
    PROVE  CallersOK' /\ ex'[e] = r /\ \A d \in Callers : d # e => ex'[d] = ex[d]
<1>1. ex \in [Callers -> CallerType] /\ r \in CallerType /\ ex' = [ex EXCEPT ![e] = r]
  BY DEF PlanIInv, CallersOK, CallerOK, Set
<1>2. ex'[e] = r /\ \A d \in Callers : d # e => ex'[d] = ex[d]
  BY <1>1
<1>3. \A d \in Callers : CallerOK(ex[d])
  BY DEF PlanIInv, CallersOK
<1>4. ASSUME NEW d \in Callers
      PROVE  CallerOK(ex'[d])
  BY <1>2, <1>3
<1> QED
  BY <1>1, <1>2, <1>4 DEF CallersOK

\* A caller that neither builds nor begins to takes a step.
LEMMA QuietStep ==
    ASSUME PlanIInv, StoreOK', CacheStep, builds' = builds, builder' = builder,
           NEW e \in Callers, NEW r, CallerOK(r), Set(e, r),
           ex[e].pc # "build", r.pc # "build"
    PROVE  PlanIInv'
<1>1. CallersOK' /\ ex'[e] = r /\ \A d \in Callers : d # e => ex'[d] = ex[d]
  BY CallersKept
<1>2. BuilderOK'
  BY <1>1 DEF PlanIInv, BuilderOK
<1>3. CountsOK' /\ cache' \in GoodCaches
  BY CountsKept, LossesGrow
<1>4. BuildsOK'
  <2>1. ASSUME NEW d \in Callers, ex'[d].pc = "build", NEW k \in Missing(ex'[d])
        PROVE  builds'[k] <= losses'[k]
    <3>1. ex'[d] = ex[d] /\ ex[d].pc = "build" /\ CallerOK(ex[d])
      BY <1>1, <2>1 DEF PlanIInv, CallersOK
    <3>2. k \in Missing(ex[d])
      BY <2>1, <3>1
    <3>3. k \in Keys
      BY <3>1, <3>2, MissingKeys
    <3>4. builds[k] <= losses[k] /\ losses[k] <= losses'[k]
      BY <3>1, <3>2, <3>3, LossesGrow DEF PlanIInv, BuildsOK
    <3>5. builds[k] \in Nat /\ losses[k] \in Nat /\ losses'[k] \in Nat
      BY <3>3, LossesGrow DEF PlanIInv, CountsOK
    <3> QED
      BY <3>4, <3>5
  <2> QED
    BY <2>1 DEF BuildsOK, Missing
<1> QED
  BY <1>1, <1>2, <1>3, <1>4 DEF PlanIInv

\* A step of the writer or of the disk.
LEMMA DiskStep ==
    ASSUME PlanIInv, StoreOK', UNCHANGED <<cache, builder, ex, counts>>
    PROVE  PlanIInv'
  BY DEF PlanIInv, CallersOK, BuilderOK, CountsOK, BuiltOnce, BuildsOK, counts,
         Missing, Chunk, Resident

-----------------------------------------------------------------------------
(* The steps.                                                              *)

LEMMA IdleOK == CallerOK(Idle)
  BY DEF CallerOK, CallerType, Idle, NoJob, Pcs, Readies

\* What an action finds of its caller.
LEMMA CallerFacts ==
    ASSUME PlanIInv, NEW e \in Callers
    PROVE  /\ CallerOK(ex[e]) /\ ex[e] \in CallerType
           /\ ex[e].pc # "idle" => ex[e].job \in Jobs
  BY DEF PlanIInv, CallersOK, CallerOK

LEMMA StoreKept ==
    ASSUME PlanIInv, UNCHANGED <<disk, writing>>
    PROVE  StoreOK'
  BY DEF PlanIInv, StoreOK, disk, writing

\* Another place, with the rest of the locals as they were.
LEMMA MovesOK ==
    ASSUME NEW r, CallerOK(r), NEW pc \in Pcs, pc # "idle" => r.job \in Jobs,
           pc \in {"fetch", "decode", "remove", "publish"} =>
              r.todo # <<>> /\ r.next \in {"lookup", "batch"}
    PROVE  CallerOK([r EXCEPT !.pc = pc])
<1>1. PICK s : s = [r EXCEPT !.pc = pc]
  OBVIOUS
<1>2. /\ s \in CallerType /\ s.pc = pc /\ s.job = r.job /\ s.todo = r.todo /\ s.next = r.next
      /\ s.got = r.got
  BY <1>1 DEF CallerOK, CallerType
<1>3. /\ Len(r.got) <= Len(r.job.requests)
      /\ \A i \in 1 .. Len(r.got) : r.got[i] = r.job.requests[i]
  BY DEF CallerOK
<1> QED
  BY <1>1, <1>2, <1>3 DEF CallerOK

LEMMA FetchOK ==
    ASSUME NEW r, CallerOK(r), r.job \in Jobs, NEW keys \in Seq(Keys), keys # <<>>,
           NEW next \in {"lookup", "batch"}
    PROVE  CallerOK(Fetch(r, keys, next)) /\ Fetch(r, keys, next).pc = "fetch"
<1>1. PICK s : s = Fetch(r, keys, next)
  OBVIOUS
<1>2. /\ s \in CallerType /\ s.pc = "fetch" /\ s.job = r.job /\ s.todo = keys /\ s.next = next
      /\ s.got = r.got
  BY <1>1 DEF CallerOK, CallerType, Fetch, Pcs
<1>3. /\ Len(r.got) <= Len(r.job.requests)
      /\ \A i \in 1 .. Len(r.got) : r.got[i] = r.job.requests[i]
  BY DEF CallerOK
<1> QED
  BY <1>1, <1>2, <1>3 DEF CallerOK

LEMMA StartJobStep ==
    ASSUME PlanIInv, NEW e \in Callers, NEW job \in Jobs, StartJob(e, job)
    PROVE  PlanIInv'
<1>1. PICK r : r = [Idle EXCEPT !.job = job, !.pc = "open"]
  OBVIOUS
<1>2. /\ r \in CallerType /\ r.pc = "open" /\ r.job = job /\ r.got = <<>>
  <2>1. r = [pc |-> "open", job |-> job, stored |-> FALSE, todo |-> <<>>, next |-> "idle",
             ready |-> <<>>, got |-> <<>>, built |-> 0, garbled |-> FALSE]
    BY <1>1 DEF Idle
  <2>2. <<>> \in Seq(Keys) /\ <<>> \in Readies
    BY DEF Readies
  <2> QED
    BY <2>1, <2>2 DEF CallerType, Pcs
<1>3. job.requests \in Seq(Keys) /\ Len(job.requests) \in Nat /\ Len(<<>>) = 0
  BY JobsOK
<1>4. CallerOK(r)
  BY <1>2, <1>3 DEF CallerOK
<1>5. /\ Set(e, r) /\ ex[e].pc = "idle" /\ CacheStep /\ builds' = builds /\ builder' = builder
      /\ UNCHANGED <<disk, writing>>
  BY <1>1 DEF StartJob, CacheStep, counts, writing
<1> QED
  BY <1>2, <1>4, <1>5, StoreKept, QuietStep

LEMMA PrefetchOK ==
    ASSUME NEW r, CallerOK(r), r.pc = "open", r.job \in Jobs
    PROVE  CallerOK(Prefetch(r)) /\ Prefetch(r).pc = "fetch"
<1>1. PICK s : s = r.job.requests
  OBVIOUS
<1>2. s \in Seq(Keys) /\ s # <<>>
  BY <1>1, JobFacts
<1>3. PICK keys : keys = IF r.job.chunked THEN Reverse(s) ELSE s
  OBVIOUS
<1>4. Reverse(s) \in Seq(Keys) /\ Len(Reverse(s)) = Len(s) /\ Len(s) # 0
  BY <1>2 DEF Reverse
<1>5. keys \in Seq(Keys) /\ keys # <<>>
  BY <1>2, <1>3, <1>4
<1>6. /\ Prefetch(r) = Fetch(r, keys, ChunkStart(r))
      /\ ChunkStart(r) \in {"lookup", "batch"}
  BY <1>1, <1>3 DEF Prefetch, ChunkStart
<1> QED
  BY <1>5, <1>6, FetchOK

LEMMA BeginPlansStep ==
    ASSUME PlanIInv, NEW e \in Callers, BeginPlans(e)
    PROVE  PlanIInv'
<1>1. ex[e].pc = "open" /\ CallerOK(ex[e]) /\ ex[e] \in CallerType /\ ex[e].job \in Jobs
  BY CallerFacts DEF BeginPlans
<1>2. PICK s : s = [ex[e] EXCEPT !.stored = TRUE]
  OBVIOUS
<1>3. CallerOK(s) /\ s.pc = "open" /\ s.job \in Jobs
  BY <1>1, <1>2 DEF CallerOK, CallerType
<1>4. CallerOK([ex[e] EXCEPT !.pc = "batch"]) /\ [ex[e] EXCEPT !.pc = "batch"].pc = "batch"
  BY <1>1, MovesOK DEF Pcs, CallerType
<1>5. PICK r : /\ Set(e, r) /\ CallerOK(r) /\ r.pc # "build"
  BY <1>2, <1>3, <1>4, PrefetchOK DEF BeginPlans
<1>6. StoreOK'
  <2>1. CASE store = "untried"
    <3>1. OpenStore
      BY <2>1 DEF BeginPlans
    <3>2. store' \in {"untried", "open", "disabled"}
      BY <3>1 DEF OpenStore
    <3>3. files' \in [Grids -> Pack \cup {NoPack}]
      BY <3>1 DEF OpenStore, PlanIInv, StoreOK
    <3> QED
      BY <3>2, <3>3 DEF BeginPlans, PlanIInv, StoreOK, writing
  <2>2. CASE store # "untried"
    BY <2>2 DEF BeginPlans, disk, PlanIInv, StoreOK, writing
  <2> QED
    BY <2>1, <2>2
<1>7. CacheStep /\ builds' = builds /\ builder' = builder
  BY DEF BeginPlans, CacheStep, counts
<1> QED
  BY <1>1, <1>5, <1>6, <1>7, QuietStep

LEMMA ReadHeaderStep ==
    ASSUME PlanIInv, NEW e \in Callers, ReadHeader(e)
    PROVE  PlanIInv'
<1>1. ex[e].pc = "fetch" /\ CallerOK(ex[e]) /\ ex[e].job \in Jobs
  BY CallerFacts DEF ReadHeader
<1>2. ex[e].todo # <<>> /\ ex[e].next \in {"lookup", "batch"}
  BY <1>1 DEF CallerOK
<1>3. PICK pc : pc \in {ex[e].next, "decode", "remove"} /\ Set(e, [ex[e] EXCEPT !.pc = pc])
  BY DEF ReadHeader
<1>4. pc \in Pcs /\ pc # "build"
  BY <1>2, <1>3 DEF Pcs
<1>5. CallerOK([ex[e] EXCEPT !.pc = pc]) /\ [ex[e] EXCEPT !.pc = pc].pc = pc
  <2>1. CallerOK([ex[e] EXCEPT !.pc = pc])
    BY <1>1, <1>2, <1>4, MovesOK
  <2>2. [ex[e] EXCEPT !.pc = pc].pc = pc
    BY <1>1 DEF CallerType
  <2> QED
    BY <2>1, <2>2
<1>6. CacheStep /\ builds' = builds /\ builder' = builder /\ UNCHANGED <<disk, writing>>
  BY DEF ReadHeader, CacheStep, counts
<1> QED
  BY <1>1, <1>3, <1>4, <1>5, <1>6, StoreKept, QuietStep

LEMMA DecodeChunksStep ==
    ASSUME PlanIInv, NEW e \in Callers, DecodeChunks(e)
    PROVE  PlanIInv'
<1>1. ex[e].pc = "decode" /\ CallerOK(ex[e]) /\ ex[e] \in CallerType /\ ex[e].job \in Jobs
  BY CallerFacts DEF DecodeChunks
<1>2. ex[e].todo # <<>> /\ ex[e].next \in {"lookup", "batch"}
  BY <1>1 DEF CallerOK
<1>3. PICK r : /\ Set(e, r)
               /\ \/ r = [ex[e] EXCEPT !.pc = "publish", !.garbled = FALSE]
                  \/ r = [ex[e] EXCEPT !.pc = "remove"]
  BY DEF DecodeChunks, Decodes
<1>4. ex[e].garbled = FALSE
  BY <1>1 DEF CallerType
<1>5. PICK pc \in {"publish", "remove"} : r = [ex[e] EXCEPT !.pc = pc]
  <2>1. PICK s : s = ex[e]
    OBVIOUS
  <2>2. s \in CallerType /\ s.garbled = FALSE
    BY <1>1, <1>4, <2>1
  <2>3. [s EXCEPT !.pc = "publish", !.garbled = FALSE] = [s EXCEPT !.pc = "publish"]
    BY <2>2 DEF CallerType
  <2> QED
    BY <1>3, <2>1, <2>3
<1>6. CallerOK(r) /\ r.pc # "build"
  <2>1. pc \in Pcs /\ pc # "build"
    BY <1>5 DEF Pcs
  <2>2. CallerOK([ex[e] EXCEPT !.pc = pc])
    BY <1>1, <1>2, <2>1, MovesOK
  <2>3. [ex[e] EXCEPT !.pc = pc].pc = pc
    BY <1>1 DEF CallerType
  <2> QED
    BY <1>5, <2>1, <2>2, <2>3
<1>7. CacheStep /\ builds' = builds /\ builder' = builder /\ UNCHANGED <<disk, writing>>
  BY DEF DecodeChunks, CacheStep, counts
<1> QED
  BY <1>1, <1>3, <1>6, <1>7, StoreKept, QuietStep

LEMMA RemovePackStep ==
    ASSUME PlanIInv, NEW e \in Callers, RemovePack(e)
    PROVE  PlanIInv'
<1>1. ex[e].pc = "remove" /\ CallerOK(ex[e]) /\ ex[e] \in CallerType /\ ex[e].job \in Jobs
  BY CallerFacts DEF RemovePack
<1>2. ex[e].todo # <<>> /\ ex[e].next \in {"lookup", "batch"}
  BY <1>1 DEF CallerOK
<1>3. PICK r : r = [ex[e] EXCEPT !.pc = ex[e].next]
  OBVIOUS
<1>4. CallerOK(r) /\ r.pc # "build"
  BY <1>1, <1>2, <1>3, MovesOK DEF Pcs, CallerType
<1>5. StoreOK'
  <2>1. /\ files' = [files EXCEPT ![JobGrid(e)] = NoPack]
        /\ UNCHANGED <<store, store_queue_, writer>>
    BY DEF RemovePack, writing
  <2>2. files' \in [Grids -> Pack \cup {NoPack}]
    BY <2>1 DEF PlanIInv, StoreOK
  <2> QED
    BY <2>1, <2>2 DEF PlanIInv, StoreOK
<1>6. Set(e, r) /\ CacheStep /\ builds' = builds /\ builder' = builder
  BY <1>3 DEF RemovePack, CacheStep, counts
<1> QED
  BY <1>1, <1>4, <1>5, <1>6, QuietStep

LEMMA PublishFetchedStep ==
    ASSUME PlanIInv, NEW e \in Callers, PublishFetched(e)
    PROVE  PlanIInv'
<1>1. ex[e].pc = "publish" /\ CallerOK(ex[e]) /\ ex[e] \in CallerType /\ ex[e].job \in Jobs
  BY CallerFacts DEF PublishFetched
<1>2. /\ ex[e].todo \in Seq(Keys) /\ ex[e].todo # <<>> /\ ex[e].next \in {"lookup", "batch"}
      /\ ex[e].garbled = FALSE
  BY <1>1 DEF CallerOK, CallerType
<1>3. PICK k : k = Head(ex[e].todo)
  OBVIOUS
<1>4. PICK rest : rest = Tail(ex[e].todo)
  OBVIOUS
<1>5. k \in Keys /\ rest \in Seq(Keys)
  BY <1>2, <1>3, <1>4
<1>6. PICK r : r = [ex[e] EXCEPT !.todo = rest,
                                 !.pc = IF rest = <<>> THEN ex[e].next ELSE "publish"]
  OBVIOUS
<1>7. CallerOK(r) /\ r.pc # "build"
  <2>1. /\ r \in CallerType /\ r.job = ex[e].job /\ r.next = ex[e].next /\ r.todo = rest
        /\ r.got = ex[e].got /\ r.pc = IF rest = <<>> THEN ex[e].next ELSE "publish"
    BY <1>1, <1>2, <1>5, <1>6 DEF CallerType, Pcs
  <2>2. /\ Len(ex[e].got) <= Len(ex[e].job.requests)
        /\ \A i \in 1 .. Len(ex[e].got) : ex[e].got[i] = ex[e].job.requests[i]
    BY <1>1 DEF CallerOK
  <2> QED
    BY <1>1, <1>2, <2>1, <2>2 DEF CallerOK
<1>8. Set(e, r) /\ CacheBecomes(Publish(cache, k, k), {k})
  BY <1>2, <1>3, <1>4, <1>6 DEF PublishFetched
<1>9. CacheStep
  <2>1. cache' = Publish(cache, k, k)
    BY <1>8 DEF CacheBecomes
  <2>2. cache' \in GoodCaches
    BY <1>5, <2>1, PublishGood DEF PlanIInv
  <2> QED
    BY <1>8, <2>2 DEF CacheStep
<1>10. builds' = builds /\ builder' = builder /\ UNCHANGED <<disk, writing>>
  BY DEF PublishFetched
<1> QED
  BY <1>1, <1>7, <1>8, <1>9, <1>10, StoreKept, QuietStep

LEMMA LookUpStep ==
    ASSUME PlanIInv, NEW e \in Callers, LookUp(e)
    PROVE  PlanIInv'
<1>1. ex[e].pc = "lookup" /\ CallerOK(ex[e]) /\ ex[e] \in CallerType /\ ex[e].job \in Jobs
  BY CallerFacts DEF LookUp
<1>2. PICK chunk : chunk = Chunk(ex[e])
  OBVIOUS
<1>3. PICK evicted : evicted = Select(chunk, Keys \ Resident(cache))
  OBVIOUS
<1>4. chunk \in Seq(Keys) /\ evicted \in Seq(Keys)
  BY <1>1, <1>2, <1>3, ChunkFacts, SelectType
<1>5. PICK r : r = IF evicted = <<>> THEN [ex[e] EXCEPT !.pc = "batch"]
                   ELSE Fetch(ex[e], evicted, "batch")
  OBVIOUS
<1>6. CallerOK(r) /\ r.pc # "build"
  <2>1. CASE evicted = <<>>
    BY <1>1, <1>5, <2>1, MovesOK DEF Pcs, CallerType
  <2>2. CASE evicted # <<>>
    BY <1>1, <1>4, <1>5, <2>2, FetchOK
  <2> QED
    BY <2>1, <2>2
<1>7. Set(e, r) /\ CacheBecomes(TouchAll(cache, chunk), {})
  BY <1>2, <1>3, <1>5 DEF LookUp
<1>8. CacheStep
  <2>1. cache' = TouchAll(cache, chunk)
    BY <1>7 DEF CacheBecomes
  <2>2. cache' \in GoodCaches
    BY <1>4, <2>1, TouchAllGood DEF PlanIInv
  <2> QED
    BY <1>7, <2>2 DEF CacheStep
<1>9. builds' = builds /\ builder' = builder /\ UNCHANGED <<disk, writing>>
  BY DEF LookUp
<1> QED
  BY <1>1, <1>6, <1>7, <1>8, <1>9, StoreKept, QuietStep

LEMMA CancelledStep ==
    ASSUME PlanIInv, NEW e \in Callers, CancelChunk(e)
    PROVE  PlanIInv'
<1>1. Idle.pc # "build" /\ ex[e].pc # "build"
  BY DEF CancelChunk, ChunkStart, Idle
<1>2. /\ Set(e, Idle) /\ CacheStep /\ builds' = builds /\ builder' = builder
      /\ UNCHANGED <<disk, writing>>
  BY DEF CancelChunk, CacheStep, counts
<1> QED
  BY <1>1, <1>2, IdleOK, StoreKept, QuietStep

LEMMA LookUpReadyStep ==
    ASSUME PlanIInv, NEW e \in Callers, LookUpReady(e)
    PROVE  PlanIInv'
<1>1. ex[e].pc = "batch" /\ CallerOK(ex[e]) /\ ex[e] \in CallerType /\ ex[e].job \in Jobs
  BY CallerFacts DEF LookUpReady
<1>2. PICK keys : keys = UniqueKeys(Chunk(ex[e]))
  OBVIOUS
<1>3. keys \in Seq(Keys)
  BY <1>1, <1>2, ChunkFacts, UniqueKeysType
<1>4. PICK ready : ready = Found(<<>>, ToSet(Chunk(ex[e])))
  OBVIOUS
<1>5. ready \in Readies
  <2>1. <<>> \in Readies
    BY DEF Readies
  <2> QED
    BY <1>4, <2>1, FoundFacts DEF PlanIInv
<1>6. PICK r : r = [ex[e] EXCEPT !.pc = "flight", !.ready = ready]
  OBVIOUS
<1>7. CallerOK(r) /\ r.pc # "build"
  <2>1. r \in CallerType /\ r.job = ex[e].job /\ r.got = ex[e].got /\ r.pc = "flight"
    BY <1>1, <1>5, <1>6 DEF CallerType, Pcs
  <2>2. /\ Len(ex[e].got) <= Len(ex[e].job.requests)
        /\ \A i \in 1 .. Len(ex[e].got) : ex[e].got[i] = ex[e].job.requests[i]
    BY <1>1 DEF CallerOK
  <2> QED
    BY <1>1, <2>1, <2>2 DEF CallerOK
<1>8. Set(e, r) /\ CacheBecomes(TouchAll(cache, keys), {})
  BY <1>2, <1>4, <1>6 DEF LookUpReady
<1>9. CacheStep
  <2>1. cache' = TouchAll(cache, keys)
    BY <1>8 DEF CacheBecomes
  <2>2. cache' \in GoodCaches
    BY <1>3, <2>1, TouchAllGood DEF PlanIInv
  <2> QED
    BY <1>8, <2>2 DEF CacheStep
<1>10. builds' = builds /\ builder' = builder /\ UNCHANGED <<disk, writing>>
  BY DEF LookUpReady
<1> QED
  BY <1>1, <1>7, <1>8, <1>9, <1>10, StoreKept, QuietStep

LEMMA FinishPlansStep ==
    ASSUME PlanIInv, NEW e \in Callers, FinishPlans(e)
    PROVE  PlanIInv'
<1>1. ex[e].pc = "finish" /\ CallerOK(ex[e])
  BY CallerFacts DEF FinishPlans
<1>2. /\ Set(e, Idle) /\ CacheStep /\ builds' = builds /\ builder' = builder
      /\ Idle.pc # "build"
  BY DEF FinishPlans, CacheStep, counts, Idle
<1>3. StoreOK'
  <2>1. PICK keys : keys = ex[e].job.requests
    OBVIOUS
  <2>2. keys \in Seq(Keys) /\ SetToSeq(ToSet(keys)) \in Seq(Keys)
    BY <1>1, <2>1, JobFacts, SetToSeqType
  <2>3. PICK added : added = IF ex[e].job.chunked THEN SetToSeq(ToSet(keys)) ELSE keys
    OBVIOUS
  <2>4. added \in Seq(Keys)
    BY <2>2, <2>3
  <2>5. store_queue_' = Append(store_queue_, added) \/ store_queue_' = store_queue_
    BY <2>1, <2>3 DEF FinishPlans
  <2>6. store_queue_' \in Seq(Seq(Keys))
    BY <2>4, <2>5 DEF PlanIInv, StoreOK
  <2>7. UNCHANGED <<store, files, writer>>
    BY DEF FinishPlans, disk
  <2> QED
    BY <2>6, <2>7 DEF PlanIInv, StoreOK
<1> QED
  BY <1>1, <1>2, <1>3, IdleOK, QuietStep

\* A caller takes build_mutex: what it still misses is not resident, so it was lost as
\* often as it was built.
LEMMA LockAndRecheckStep ==
    ASSUME PlanIInv, NEW e \in Callers, LockAndRecheck(e)
    PROVE  PlanIInv'
<1>1. /\ ex[e].pc = "flight" /\ builder = None /\ builder' = e
      /\ CallerOK(ex[e]) /\ ex[e] \in CallerType /\ ex[e].job \in Jobs
  BY CallerFacts DEF LockAndRecheck
<1>2. PICK keys : keys = Select(UniqueKeys(Chunk(ex[e])), Missing(ex[e]))
  OBVIOUS
<1>3. keys \in Seq(Keys)
  BY <1>1, <1>2, ChunkFacts, UniqueKeysType, SelectType
<1>4. PICK ready : ready = Found(ex[e].ready, Missing(ex[e]))
  OBVIOUS
<1>5. /\ ready \in Readies
      /\ DOMAIN ready = DOMAIN ex[e].ready \cup (Missing(ex[e]) \cap Resident(cache))
  BY <1>1, <1>4, FoundFacts DEF PlanIInv, CallerType
<1>6. PICK r : r = [ex[e] EXCEPT !.pc = "build", !.ready = ready]
  OBVIOUS
<1>7. /\ r \in CallerType /\ r.job = ex[e].job /\ r.got = ex[e].got /\ r.pc = "build"
      /\ r.ready = ready
  BY <1>1, <1>5, <1>6 DEF CallerType, Pcs
<1>8. CallerOK(r)
  <2>1. /\ Len(ex[e].got) <= Len(ex[e].job.requests)
        /\ \A i \in 1 .. Len(ex[e].got) : ex[e].got[i] = ex[e].job.requests[i]
    BY <1>1 DEF CallerOK
  <2> QED
    BY <1>1, <1>7, <2>1 DEF CallerOK
<1>9. /\ Set(e, r) /\ CacheBecomes(TouchAll(cache, keys), {})
      /\ builds' = builds /\ UNCHANGED <<disk, writing>>
  BY <1>2, <1>4, <1>6 DEF LockAndRecheck
<1>10. cache' = TouchAll(cache, keys) /\ cache' \in GoodCaches /\ CacheStep
  <2>1. cache' = TouchAll(cache, keys)
    BY <1>9 DEF CacheBecomes
  <2>2. cache' \in GoodCaches
    BY <1>3, <2>1, TouchAllGood DEF PlanIInv
  <2> QED
    BY <1>9, <2>1, <2>2 DEF CacheStep
<1>11. CallersOK' /\ ex'[e] = r /\ \A d \in Callers : d # e => ex'[d] = ex[d]
  BY <1>8, <1>9, CallersKept
<1>12. \A d \in Callers : ex[d].pc # "build"
  BY <1>1, NoneIsNothing DEF PlanIInv, BuilderOK
<1>13. BuilderOK'
  BY <1>1, <1>7, <1>11, <1>12 DEF BuilderOK
<1>14. BuildsOK'
  <2>1. ASSUME NEW d \in Callers, ex'[d].pc = "build", NEW k \in Missing(ex'[d])
        PROVE  builds'[k] <= losses'[k]
    <3>1. d = e /\ k \in Missing(r)
      BY <1>11, <1>12, <2>1
    <3>2. Chunk(r) = Chunk(ex[e])
      BY <1>7 DEF Chunk
    <3>3. k \in Missing(ex[e]) /\ k \notin Resident(cache)
      BY <1>5, <1>7, <3>1, <3>2 DEF Missing
    <3>4. k \in Keys
      BY <1>1, <3>3, MissingKeys
    <3>5. builds[k] <= losses[k] /\ losses[k] <= losses'[k]
      BY <1>10, <3>3, <3>4, LossesGrow DEF PlanIInv, CountsOK
    <3>6. builds[k] \in Nat /\ losses[k] \in Nat /\ losses'[k] \in Nat
      BY <1>10, <3>4, LossesGrow DEF PlanIInv, CountsOK
    <3> QED
      BY <1>9, <3>5, <3>6
  <2> QED
    BY <2>1 DEF BuildsOK, Missing
<1> QED
  BY <1>9, <1>10, <1>11, <1>13, <1>14, StoreKept, CountsKept DEF PlanIInv

LEMMA BuildFailsStep ==
    ASSUME PlanIInv, NEW e \in Callers, BuildFails(e)
    PROVE  PlanIInv'
<1>1. /\ ex[e].pc = "build" /\ builder' = None /\ Set(e, Idle)
      /\ CacheStep /\ builds' = builds /\ cache' = cache /\ UNCHANGED <<disk, writing>>
  BY DEF BuildFails, CacheStep, counts
<1>2. CallersOK' /\ ex'[e] = Idle /\ \A d \in Callers : d # e => ex'[d] = ex[d]
  BY <1>1, IdleOK, CallersKept
<1>3. \A d \in Callers : d # e => ex[d].pc # "build"
  BY <1>1 DEF PlanIInv, BuilderOK
<1>4. \A d \in Callers : ex'[d].pc # "build"
  BY <1>2, <1>3 DEF Idle
<1>5. BuilderOK' /\ BuildsOK'
  BY <1>1, <1>4, NoneIsNothing DEF BuilderOK, BuildsOK
<1> QED
  BY <1>1, <1>2, <1>5, StoreKept, CountsKept DEF PlanIInv

\* What is built once more was lost as often as it was built, and what the cache does not
\* take is lost at once.  The plans the job goes on with are the next requests'.
LEMMA BuildAndPublishStep ==
    ASSUME PlanIInv, NEW e \in Callers, BuildAndPublish(e)
    PROVE  PlanIInv'
<1>1. /\ ex[e].pc = "build" /\ builder' = None
      /\ CallerOK(ex[e]) /\ ex[e] \in CallerType /\ ex[e].job \in Jobs
  BY CallerFacts DEF BuildAndPublish
<1>2. PICK old : old = ex[e]
  OBVIOUS
<1>3. PICK chunk : chunk = Chunk(old)
  OBVIOUS
<1>4. PICK missing : missing = Select(UniqueKeys(chunk), Missing(old))
  OBVIOUS
<1>5. chunk \in Seq(Keys) /\ missing \in Seq(Keys) /\ Missing(old) \subseteq Keys
  BY <1>1, <1>2, <1>3, <1>4, ChunkFacts, UniqueKeysType, SelectType, MissingKeys
<1>6. PICK given : given = [i \in 1 .. Len(chunk) |->
         IF chunk[i] \in DOMAIN old.ready THEN old.ready[chunk[i]]
         ELSE IF chunk[i] \in Resident(cache) THEN cache.plans[chunk[i]] ELSE chunk[i]]
  OBVIOUS
<1>7. given = [i \in 1 .. Len(chunk) |-> chunk[i]]
  <2>1. \A k \in DOMAIN old.ready : old.ready[k] = k
    BY <1>1, <1>2, ReadyFacts DEF CallerType
  <2>2. \A k \in Resident(cache) : cache.plans[k] = k
    BY GoodFacts DEF PlanIInv
  <2> QED
    BY <1>6, <2>1, <2>2
<1>8. given = chunk
  BY <1>5, <1>7
<1>9. PICK got : got = old.got \o chunk
  OBVIOUS
<1>10. PICK r : r = [old EXCEPT !.got = got, !.built = old.built + Len(missing),
                                !.ready = <<>>,
                                !.pc = IF Len(got) = Len(old.job.requests) THEN "finish"
                                       ELSE ChunkStart(old)]
  OBVIOUS
<1>11. /\ Set(e, r)
       /\ CacheBecomes(PublishAll(cache, missing), Missing(old))
       /\ builds' = [k \in Keys |-> IF k \in Missing(old) THEN builds[k] + 1 ELSE builds[k]]
       /\ UNCHANGED <<disk, writing>>
  <2>1. Set(e, r)
    BY <1>2, <1>3, <1>4, <1>6, <1>8, <1>9, <1>10 DEF BuildAndPublish
  <2>2. CacheBecomes(PublishAll(cache, missing), Missing(old))
    BY <1>2, <1>3, <1>4 DEF BuildAndPublish
  <2>3. builds' = [k \in Keys |-> IF k \in Missing(old) THEN builds[k] + 1 ELSE builds[k]]
    BY <1>2 DEF BuildAndPublish
  <2>4. UNCHANGED <<disk, writing>>
    BY DEF BuildAndPublish
  <2> QED
    BY <2>1, <2>2, <2>3, <2>4
<1>12. cache' \in GoodCaches /\ CacheStep
  <2>1. cache' = PublishAll(cache, missing)
    BY <1>11 DEF CacheBecomes
  <2>2. cache' \in GoodCaches
    BY <1>5, <2>1, PublishAllGood DEF PlanIInv
  <2> QED
    BY <1>11, <2>2 DEF CacheStep
<1>13. /\ old.got \in Seq(Keys) /\ old.built \in Nat /\ old.job.requests \in Seq(Keys)
       /\ Len(old.got) <= Len(old.job.requests)
       /\ \A i \in 1 .. Len(old.got) : old.got[i] = old.job.requests[i]
       /\ Len(old.got) + Len(chunk) <= Len(old.job.requests)
       /\ \A i \in 1 .. Len(chunk) : chunk[i] = old.job.requests[Len(old.got) + i]
  <2>1. CallerOK(old)
    BY <1>1, <1>2
  <2>2. old.got \in Seq(Keys) /\ old.built \in Nat
    BY <1>1, <1>2 DEF CallerType
  <2>3. old.job.requests \in Seq(Keys)
    BY <2>1, JobFacts
  <2>4. /\ Len(old.got) <= Len(old.job.requests)
        /\ \A i \in 1 .. Len(old.got) : old.got[i] = old.job.requests[i]
    BY <2>1 DEF CallerOK
  <2>5. /\ Len(old.got) + Len(chunk) <= Len(old.job.requests)
        /\ \A i \in 1 .. Len(chunk) : chunk[i] = old.job.requests[Len(old.got) + i]
    BY <1>3, <2>1, ChunkFacts
  <2> QED
    BY <2>2, <2>3, <2>4, <2>5
<1>14. /\ got \in Seq(Keys) /\ Len(got) <= Len(old.job.requests)
       /\ \A i \in 1 .. Len(got) : got[i] = old.job.requests[i]
  <2>1. PICK s \in Seq(Keys) : s = old.got
    BY <1>13
  <2>2. got = s \o chunk
    BY <1>9, <2>1
  <2>3. /\ got \in Seq(Keys) /\ Len(got) = Len(s) + Len(chunk)
        /\ \A i \in 1 .. Len(s) : got[i] = s[i]
        /\ \A i \in Len(s) + 1 .. Len(s) + Len(chunk) : got[i] = chunk[i - Len(s)]
    BY <1>5, <2>2, ConcatFacts
  <2>4. ASSUME NEW i \in 1 .. Len(got)
        PROVE  got[i] = old.job.requests[i]
    <3>1. CASE i <= Len(s)
      <4>1. i \in 1 .. Len(s)
        BY <3>1
      <4> QED
        BY <1>13, <2>1, <2>3, <4>1
    <3>2. CASE ~(i <= Len(s))
      <4>1. /\ i \in Len(s) + 1 .. Len(s) + Len(chunk) /\ i - Len(s) \in 1 .. Len(chunk)
            /\ Len(s) + (i - Len(s)) = i
        BY <1>5, <2>3, <3>2
      <4> QED
        BY <1>13, <2>1, <2>3, <4>1
    <3> QED
      BY <3>1, <3>2
  <2> QED
    BY <1>13, <2>1, <2>3, <2>4
<1>15. CallerOK(r) /\ r.pc # "build"
  <2>1. Len(missing) \in Nat /\ <<>> \in Readies
    BY <1>5 DEF Readies
  <2>2. /\ r \in CallerType /\ r.job = old.job /\ r.got = got
        /\ r.pc \in {"finish", "lookup", "batch"}
    <3>1. PICK pc \in {"finish", "lookup", "batch"} :
             pc = IF Len(got) = Len(old.job.requests) THEN "finish" ELSE ChunkStart(old)
      BY DEF ChunkStart
    <3>2. PICK built \in Nat : built = old.built + Len(missing)
      BY <1>13, <2>1
    <3>3. r = [old EXCEPT !.got = got, !.built = built, !.ready = <<>>, !.pc = pc]
      BY <1>10, <3>1, <3>2
    <3>4. old \in CallerType
      BY <1>1, <1>2
    <3>5. r \in CallerType /\ r.job = old.job /\ r.got = got /\ r.pc = pc
      BY <1>14, <2>1, <3>3, <3>4 DEF CallerType, Pcs
    <3> QED
      BY <3>5
  <2> QED
    BY <1>1, <1>2, <1>14, <2>2 DEF CallerOK
<1>16. CallersOK' /\ ex'[e] = r /\ \A d \in Callers : d # e => ex'[d] = ex[d]
  BY <1>11, <1>15, CallersKept
<1>17. \A d \in Callers : d # e => ex[d].pc # "build"
  BY <1>1 DEF PlanIInv, BuilderOK
<1>18. \A d \in Callers : ex'[d].pc # "build"
  BY <1>15, <1>16, <1>17
<1>19. BuilderOK' /\ BuildsOK'
  BY <1>1, <1>18, NoneIsNothing DEF BuilderOK, BuildsOK
<1>20. CountsOK'
  <2>1. /\ losses \in [Keys -> Nat] /\ builds \in [Keys -> Nat]
        /\ \A k \in Keys : builds[k] <= losses[k] + 1
        /\ \A k \in Keys \ Resident(cache) : builds[k] <= losses[k]
        /\ \A k \in Missing(old) : builds[k] <= losses[k]
    BY <1>1, <1>2 DEF PlanIInv, CountsOK, BuiltOnce, BuildsOK
  <2>2. PICK R : R = Resident(cache)'
    OBVIOUS
  <2>3. losses' = [k \in Keys |-> IF /\ k \in Resident(cache) \cup Missing(old)
                                     /\ k \notin R
                                  THEN losses[k] + 1 ELSE losses[k]]
    BY <1>11, <2>2 DEF CacheBecomes, Resident
  <2>4. builds' \in [Keys -> Nat] /\ losses' \in [Keys -> Nat]
    BY <1>11, <2>1, <2>3
  <2>5. ASSUME NEW k \in Keys
        PROVE  /\ builds'[k] <= losses'[k] + 1
               /\ k \notin R => builds'[k] <= losses'[k]
    <3>1. builds[k] \in Nat /\ losses[k] \in Nat
      BY <2>1
    <3>2. CASE k \in Missing(old)
      <4>1. builds'[k] = builds[k] + 1 /\ builds[k] <= losses[k]
        BY <1>11, <2>1, <3>2
      <4>2. losses'[k] = IF k \notin R THEN losses[k] + 1 ELSE losses[k]
        BY <2>3, <3>2
      <4> QED
        BY <3>1, <4>1, <4>2
    <3>3. CASE k \notin Missing(old)
      <4>1. builds'[k] = builds[k] /\ builds[k] <= losses[k] + 1
        BY <1>11, <2>1, <3>3
      <4>2. losses'[k] = IF k \in Resident(cache) /\ k \notin R
                         THEN losses[k] + 1 ELSE losses[k]
        BY <2>3, <3>3
      <4>3. k \notin Resident(cache) => builds[k] <= losses[k]
        BY <2>1
      <4> QED
        BY <3>1, <4>1, <4>2, <4>3
    <3> QED
      BY <3>2, <3>3
  <2> QED
    BY <2>2, <2>4, <2>5 DEF CountsOK, BuiltOnce
<1> QED
  BY <1>11, <1>12, <1>16, <1>19, <1>20, StoreKept DEF PlanIInv

LEMMA TakePublicationStep ==
    ASSUME PlanIInv, TakePublication
    PROVE  PlanIInv'
<1>1. store_queue_ \in Seq(Seq(Keys)) /\ store_queue_ # <<>>
  BY DEF PlanIInv, StoreOK, TakePublication
<1>2. Head(store_queue_) \in Seq(Keys) /\ Tail(store_queue_) \in Seq(Seq(Keys))
  BY <1>1
<1>3. \/ writer' = writer
      \/ writer' = [pc |-> "write", requests |-> Head(store_queue_)]
  BY DEF TakePublication
<1>4. StoreOK'
  BY <1>2, <1>3 DEF PlanIInv, StoreOK, TakePublication, disk
<1> QED
  BY <1>4, DiskStep DEF TakePublication

LEMMA WriteTemporaryStep ==
    ASSUME PlanIInv, WriteTemporary
    PROVE  PlanIInv'
<1>1. writer \in [pc : {"write"}, requests : Seq(Keys)]
  BY DEF PlanIInv, StoreOK, WriteTemporary, NoWriter
<1>2. \A keys : Writable(keys) \subseteq Pack
  BY DEF Writable, Pack
<1>3. \/ writer' \in [pc : {"rename"}, requests : Seq(Keys), pack : Pack]
      \/ writer' = NoWriter
  BY <1>1, <1>2 DEF WriteTemporary
<1>4. StoreOK'
  BY <1>3 DEF PlanIInv, StoreOK, WriteTemporary, disk
<1> QED
  BY <1>4, DiskStep DEF WriteTemporary

LEMMA RenameTemporaryStep ==
    ASSUME PlanIInv, RenameTemporary
    PROVE  PlanIInv'
<1>1. writer \in [pc : {"rename"}, requests : Seq(Keys), pack : Pack]
  BY DEF PlanIInv, StoreOK, RenameTemporary, NoWriter
<1>2. files' \in [Grids -> Pack \cup {NoPack}]
  BY <1>1 DEF PlanIInv, StoreOK, RenameTemporary
<1>3. StoreOK'
  BY <1>2 DEF PlanIInv, StoreOK, RenameTemporary
<1> QED
  BY <1>3, DiskStep DEF RenameTemporary

LEMMA DisturbStep ==
    ASSUME PlanIInv, Disturb
    PROVE  PlanIInv'
<1>1. files \in [Grids -> Pack \cup {NoPack}]
  BY DEF PlanIInv, StoreOK
<1>2. files' \in [Grids -> Pack \cup {NoPack}]
  <2>1. PICK g \in Grids :
           \/ /\ files[g] # NoPack
              /\ \E part \in {"header", "chunks"} : files' = [files EXCEPT ![g][part] = "bad"]
           \/ files' = [files EXCEPT ![g] = NoPack]
           \/ \E header \in {"ok", "twice"} :
                 files' = [files EXCEPT ![g] = [header |-> header, chunks |-> "ok"]]
    BY DEF Disturb
  <2>2. ASSUME files[g] # NoPack, NEW part \in {"header", "chunks"},
               files' = [files EXCEPT ![g][part] = "bad"]
        PROVE  files' \in [Grids -> Pack \cup {NoPack}]
    <3>1. files[g] \in Pack
      BY <1>1, <2>2
    <3>2. PICK file \in Pack : file = files[g]
      BY <3>1
    <3>3. [file EXCEPT ![part] = "bad"] \in Pack
      <4>1. CASE part = "header"
        BY <4>1 DEF Pack
      <4>2. CASE part = "chunks"
        BY <4>2 DEF Pack
      <4> QED
        BY <4>1, <4>2
    <3>4. files' = [files EXCEPT ![g] = [file EXCEPT ![part] = "bad"]]
      BY <2>2, <3>2
    <3> QED
      BY <1>1, <3>3, <3>4
  <2>3. ASSUME files' = [files EXCEPT ![g] = NoPack]
        PROVE  files' \in [Grids -> Pack \cup {NoPack}]
    BY <1>1, <2>3
  <2>4. ASSUME NEW header \in {"ok", "twice"},
               files' = [files EXCEPT ![g] = [header |-> header, chunks |-> "ok"]]
        PROVE  files' \in [Grids -> Pack \cup {NoPack}]
    <3>1. [header |-> header, chunks |-> "ok"] \in Pack
      BY DEF Pack
    <3> QED
      BY <1>1, <2>4, <3>1
  <2> QED
    BY <2>1, <2>2, <2>3, <2>4
<1>3. StoreOK'
  BY <1>2 DEF PlanIInv, StoreOK, Disturb, writing
<1> QED
  BY <1>3, DiskStep DEF Disturb

LEMMA EmptyGood == EmptyCache \in GoodCaches /\ Resident(EmptyCache) = {}
<1>1. <<>> \in Seq(Keys) /\ ToSet(<<>>) = {} /\ IsInjective(<<>>) /\ Len(<<>>) = 0
  BY DEF ToSet, IsInjective
<1>2. <<>> = Resides({})
  BY DEF Resides
<1>3. EmptyCache \in Caches /\ Resident(EmptyCache) = {}
  BY <1>1, <1>2 DEF EmptyCache, Caches, Resident
<1>4. Consistent(EmptyCache)
  <2>1. EmptyCache.lru = <<>> /\ EmptyCache.bytes = 0
    BY DEF EmptyCache
  <2>2. 0 <= MaximumEntries /\ 0 <= MaximumResidentBytes
    BY CacheLimitsOK
  <2> QED
    BY <1>1, <1>3, <2>1, <2>2, BytesEmpty DEF Consistent
<1> QED
  BY <1>3, <1>4 DEF GoodCaches

\* A process that starts.
Fresh == /\ cache = EmptyCache /\ builder = None /\ store = "untried"
         /\ store_queue_ = <<>> /\ writer = NoWriter
         /\ ex = [e \in Callers |-> Idle]
         /\ builds = [k \in Keys |-> 0] /\ losses = [k \in Keys |-> 0]

LEMMA FreshInv ==
    ASSUME Fresh, files \in [Grids -> Pack \cup {NoPack}]
    PROVE  PlanIInv
<1>1. cache \in GoodCaches
  BY EmptyGood DEF Fresh
<1>2. StoreOK
  <2>1. <<>> \in Seq(Seq(Keys))
    OBVIOUS
  <2> QED
    BY <2>1 DEF Fresh, StoreOK
<1>3. CallersOK
  BY IdleOK DEF Fresh, CallersOK, CallerOK
<1>4. BuilderOK /\ BuildsOK
  BY NoneIsNothing DEF Fresh, BuilderOK, BuildsOK, Idle
<1>5. CountsOK
  BY DEF Fresh, CountsOK, BuiltOnce
<1> QED
  BY <1>1, <1>2, <1>3, <1>4, <1>5 DEF PlanIInv

LEMMA InitInv == SupplyInit => PlanIInv
<1> SUFFICES ASSUME SupplyInit PROVE PlanIInv
  OBVIOUS
<1>1. Fresh /\ files \in [Grids -> Pack \cup {NoPack}]
  BY DEF SupplyInit, Fresh
<1> QED
  BY <1>1, FreshInv

LEMMA CrashStep ==
    ASSUME PlanIInv, Crash
    PROVE  PlanIInv'
<1>1. Fresh' /\ files' \in [Grids -> Pack \cup {NoPack}]
  BY DEF Crash, Fresh, PlanIInv, StoreOK
<1>2. (Fresh /\ files \in [Grids -> Pack \cup {NoPack}] => PlanIInv)'
  BY FreshInv, PTL
<1> QED
  BY <1>1, <1>2

LEMMA NextInv ==
    ASSUME PlanIInv, [SupplyNext]_supplyVars
    PROVE  PlanIInv'
<1>1. ASSUME NEW e \in Callers, Work(e)
      PROVE  PlanIInv'
  BY <1>1, BeginPlansStep, ReadHeaderStep, DecodeChunksStep, RemovePackStep,
     PublishFetchedStep, LookUpStep, CancelledStep, LookUpReadyStep, LockAndRecheckStep,
     BuildFailsStep, BuildAndPublishStep, FinishPlansStep DEF Work
<1>2. ASSUME NEW e \in Callers, NEW job \in Jobs, StartJob(e, job)
      PROVE  PlanIInv'
  BY <1>2, StartJobStep
<1>3. CASE Write
  BY <1>3, TakePublicationStep, WriteTemporaryStep, RenameTemporaryStep DEF Write
<1>4. CASE Crash
  BY <1>4, CrashStep
<1>5. CASE Disturb
  BY <1>5, DisturbStep
<1>6. CASE UNCHANGED supplyVars
  <2>1. UNCHANGED <<disk, writing>> /\ UNCHANGED <<cache, builder, ex, counts>>
    BY <1>6 DEF supplyVars
  <2> QED
    BY <2>1, StoreKept, DiskStep
<1> QED
  BY <1>1, <1>2, <1>3, <1>4, <1>5, <1>6 DEF SupplyNext

LEMMA PlanInvHolds == SupplySpec => []PlanIInv
<1>1. SupplyInit => PlanIInv
  BY InitInv
<1>2. PlanIInv /\ [SupplyNext]_supplyVars => PlanIInv'
  BY NextInv
<1> QED
  BY <1>1, <1>2, PTL DEF SupplySpec

-----------------------------------------------------------------------------
\* The cache's list, map and byte count describe the same entries within both limits after
\* every batch, fetch and eviction of any number of concurrent callers, and a key is
\* built again only after its plan was evicted or not retained.
THEOREM CacheCorrectHolds == SupplySpec => []CacheCorrect
<1>1. PlanIInv => CacheCorrect
  <2> SUFFICES ASSUME PlanIInv PROVE CacheCorrect
    OBVIOUS
  <2>1. /\ cache.lru \in Seq(Keys) /\ cache.bytes \in Nat /\ Consistent(cache)
        /\ Range(cache.plans) \subseteq Plan
    BY GoodFacts DEF PlanIInv, Range, Resident, Plan
  <2>2. writer.pc \in {"idle", "write", "rename"}
    BY DEF PlanIInv, StoreOK, NoWriter
  <2>3. ASSUME NEW e \in Callers
        PROVE  /\ ex[e].pc \in Pcs /\ ex[e].todo \in Seq(Keys)
               /\ Range(ex[e].got) \subseteq Plan
    <3>1. ex[e] \in CallerType
      BY CallerFacts
    <3>2. ex[e].got \in Seq(Keys)
      BY <3>1 DEF CallerType
    <3>3. Range(ex[e].got) \subseteq Keys
      BY <3>2 DEF Range
    <3> QED
      BY <3>1, <3>3 DEF CallerType, Plan
  <2>4. SupplyTypeOK
    BY <2>1, <2>2, <2>3 DEF PlanIInv, StoreOK, BuilderOK, CountsOK, SupplyTypeOK, Pcs
  <2> QED
    BY <2>1, <2>4 DEF PlanIInv, CountsOK, CacheCorrect, CacheConsistent
<1> QED
  BY <1>1, PlanInvHolds, PTL

\* Whatever damages, removes or replaces packs on the disk, and whichever way a write of
\* one ends, the plans a job goes on with answer its requests, one by one.
THEOREM PlansMatchRequestsHolds == SupplySpec => []PlansMatchRequests
<1>1. PlanIInv => PlansMatchRequests
  <2> SUFFICES ASSUME PlanIInv, NEW e \in Callers, NEW i \in DOMAIN ex[e].got
               PROVE  ex[e].got[i] = ex[e].job.requests[i]
    BY DEF PlansMatchRequests
  <2>1. CallerOK(ex[e]) /\ ex[e].got \in Seq(Keys)
    BY CallerFacts DEF CallerType
  <2>2. i \in 1 .. Len(ex[e].got)
    BY <2>1
  <2> QED
    BY <2>1, <2>2 DEF CallerOK
<1> QED
  BY <1>1, PlanInvHolds, PTL
=============================================================================
