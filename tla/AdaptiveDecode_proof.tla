------------------------- MODULE AdaptiveDecode_proof -------------------------
(***************************************************************************)
(* Theorems about IndexedRangeScheduler and AdaptiveDecode, which uses it.   *)
(*                                                                         *)
(* The scheduler (SchedulerInv), for any number of frames, any safe cuts and *)
(* any client that calls its methods in any order: the waiting and leased    *)
(* intervals never overlap, a reserved frame stays in its lease, and until a *)
(* cancellation no undelivered frame is forgotten.  These are inductive      *)
(* together with the types: that an interval lies within the ordinals and is *)
(* not empty is needed when it is split, that leases are below next_lease    *)
(* when one is added.                                                       *)
(*                                                                         *)
(* The decode (DecodeInv, LeaseInv), for any number of frames, slots,        *)
(* attempts and allocation failures: every step is one the scheduler allows, *)
(* so that what is shown of any client is true here; no frame reaches the    *)
(* consumer twice; the sessions and the scheduler agree on every lease; and  *)
(* a normal return has handed over every frame.                             *)
(*                                                                         *)
(* HandedOnce is not inductive: that a frame was handed over is remembered  *)
(* by the scheduler only after the commit.  HandInv says where it is        *)
(* remembered in between: in the one session that holds the frame.  That a  *)
(* lease is complete when its session believes so rests on what the session *)
(* remembers of its runs (LeaseInv): everything before its run is delivered,*)
(* and everything it flagged.                                               *)
(***************************************************************************)
EXTENDS AdaptiveDecode, FiniteSetTheorems, WellFoundedInduction, TLAPS

-----------------------------------------------------------------------------
(* The scheduler.                                                          *)

\* The conjuncts that are inductive together.
SchedulerInv == /\ SchedulerTypeOK
                /\ RangesDisjoint
                /\ ReservedIsLeased
                /\ NothingForgotten

USE DEF Leases

-----------------------------------------------------------------------------
\* What Tail, Append and putting an element in front do to a sequence.
LEMMA TailFacts ==
    ASSUME NEW S, NEW s \in Seq(S), s # <<>>
    PROVE  /\ Head(s) \in S
           /\ Head(s) = s[1]
           /\ 1 \in DOMAIN s
           /\ Tail(s) \in Seq(S)
           /\ \A k \in DOMAIN Tail(s) : k + 1 \in DOMAIN s /\ Tail(s)[k] = s[k + 1]
           /\ \A k \in DOMAIN s : k = 1 \/ (k - 1 \in DOMAIN Tail(s) /\ Tail(s)[k - 1] = s[k])
           /\ DOMAIN s \subseteq Nat \ {0}
           /\ DOMAIN Tail(s) \subseteq Nat \ {0}
  OBVIOUS

\* What appending an element does.
LEMMA AppendFacts ==
    ASSUME NEW S, NEW s \in Seq(S), NEW e \in S
    PROVE  /\ Append(s, e) \in Seq(S)
           /\ DOMAIN Append(s, e) = DOMAIN s \cup {Len(s) + 1}
           /\ Len(s) + 1 \notin DOMAIN s
           /\ \A k \in DOMAIN s : Append(s, e)[k] = s[k]
           /\ Append(s, e)[Len(s) + 1] = e
  OBVIOUS

\* What putting an element in front does.
LEMMA ConsFacts ==
    ASSUME NEW S, NEW s \in Seq(S), NEW e \in S
    PROVE  /\ <<e>> \o s \in Seq(S)
           /\ 1 \in DOMAIN (<<e>> \o s) /\ (<<e>> \o s)[1] = e
           /\ \A k \in DOMAIN (<<e>> \o s) :
                 k = 1 \/ (k - 1 \in DOMAIN s /\ (<<e>> \o s)[k] = s[k - 1])
           /\ \A k \in DOMAIN s :
                 k + 1 \in DOMAIN (<<e>> \o s) /\ (<<e>> \o s)[k + 1] = s[k]
           /\ DOMAIN s \subseteq Nat \ {0}
           /\ DOMAIN (<<e>> \o s) \subseteq Nat \ {0}
  OBVIOUS

\* One interval waits at the start.
LEMMA InitInv == SchedulerInit => SchedulerInv
<1> SUFFICES ASSUME SchedulerInit PROVE SchedulerInv
  OBVIOUS
<1>1. SchedulerTypeOK
  <2> DEFINE whole == [begin |-> 0, end |-> SelectedCount]
  <2>1. whole \in Ranges
    BY CutsInterior DEF Ranges
  <2>2. SelectedCount # 0 => pending = <<whole>>
    BY DEF SchedulerInit
  <2>3. SelectedCount = 0 => pending = <<>>
    BY DEF SchedulerInit
  <2> HIDE DEF whole
  <2>4. pending \in Seq(Ranges)
    <3>1. CASE SelectedCount = 0
      BY <2>3, <3>1
    <3>2. CASE SelectedCount # 0
      <4>1. <<whole>> \in Seq(Ranges)
        BY <2>1
      <4>2. QED
        BY <2>2, <3>2, <4>1
    <3>3. QED
      BY <3>1, <3>2
  <2>5. /\ \A k \in DOMAIN pending : pending[k].begin < pending[k].end
        /\ \A lease \in Leases : active[lease].begin < active[lease].end
    BY <2>2, <2>3, CutsInterior DEF SchedulerInit, whole
  <2>6. /\ Leases \subseteq 1 .. next_lease - 1
        /\ active \in [Leases -> Ranges]
        /\ delivered_by_lease \in [Leases -> Nat]
    BY DEF SchedulerInit
  <2>7. states \in [Ordinals -> {"pending", "reserved", "delivered"}]
    BY DEF SchedulerInit
  <2>8. next_lease \in Nat \ {0}
    <3>1. next_lease = 1
      BY DEF SchedulerInit
    <3>2. QED
      BY <3>1
  <2>9. cancelled \in BOOLEAN
    BY DEF SchedulerInit
  <2>10. QED
    BY <2>4, <2>5, <2>6, <2>7, <2>8, <2>9 DEF SchedulerTypeOK
<1>2. RangesDisjoint
  BY DEF SchedulerInit, RangesDisjoint
<1>3. ReservedIsLeased
  BY DEF SchedulerInit, ReservedIsLeased
<1>4. NothingForgotten
  BY CutsInterior DEF SchedulerInit, NothingForgotten, Waits, Leased, Within, Ordinals
<1>5. QED
  BY <1>1, <1>2, <1>3, <1>4 DEF SchedulerInv

-----------------------------------------------------------------------------
\* Claiming moves the first waiting interval to a lease of its own.
LEMMA ClaimKeepsInv == SchedulerInv /\ Claim => SchedulerInv'
<1> SUFFICES ASSUME SchedulerInv, Claim PROVE SchedulerInv'
  OBVIOUS
<1>0. SchedulerTypeOK /\ RangesDisjoint /\ ReservedIsLeased /\ NothingForgotten
  BY DEF SchedulerInv
<1>1. /\ pending \in Seq(Ranges) /\ pending # <<>>
      /\ pending' = Tail(pending)
      /\ next_lease' = next_lease + 1
      /\ UNCHANGED <<states, cancelled>>
      /\ ~cancelled
  BY <1>0 DEF Claim, SchedulerTypeOK
<1>2. /\ Head(pending) = pending[1] /\ pending[1] \in Ranges
      /\ 1 \in DOMAIN pending
      /\ pending' \in Seq(Ranges)
      /\ \A k \in DOMAIN pending' : k + 1 \in DOMAIN pending /\ pending'[k] = pending[k + 1]
      /\ \A k \in DOMAIN pending :
            k = 1 \/ (k - 1 \in DOMAIN pending' /\ pending'[k - 1] = pending[k])
      /\ DOMAIN pending \subseteq Nat \ {0}
      /\ DOMAIN pending' \subseteq Nat \ {0}
  BY <1>1, TailFacts
<1>3. /\ Leases' = Leases \cup {next_lease}
      /\ next_lease \notin Leases
      /\ active'[next_lease] = pending[1]
      /\ \A lease \in Leases : active'[lease] = active[lease]
  BY <1>0, <1>2 DEF Claim, SchedulerTypeOK
<1>4. SchedulerTypeOK'
  <2>1. active' \in [Leases' -> Ranges]
    BY <1>0, <1>2, <1>3 DEF Claim, SchedulerTypeOK
  <2>2. delivered_by_lease' \in [Leases' -> Nat]
    <3>1. IsFiniteSet(Ordinals)
      BY CutsInterior, FS_Interval DEF Ordinals
    <3>2. DeliveredIn(Head(pending)) \subseteq Ordinals
      BY DEF DeliveredIn, Span
    <3>3. Cardinality(DeliveredIn(Head(pending))) \in Nat
      BY <3>1, <3>2, FS_Subset, FS_CardinalityType
    <3>4. QED
      BY <1>0, <3>3, <1>3 DEF Claim, SchedulerTypeOK
  <2>3. /\ \A k \in DOMAIN pending' : pending'[k].begin < pending'[k].end
        /\ \A lease \in Leases' : active'[lease].begin < active'[lease].end
    BY <1>0, <1>2, <1>3 DEF SchedulerTypeOK
  <2>4. Leases' \subseteq 1 .. next_lease' - 1 /\ next_lease' \in Nat \ {0}
    BY <1>0, <1>1, <1>3 DEF SchedulerTypeOK
  <2>5. QED
    BY <1>0, <1>1, <1>2, <2>1, <2>2, <2>3, <2>4 DEF SchedulerTypeOK
<1>5. RangesDisjoint'
  <2> SUFFICES ASSUME NEW i \in Ordinals
               PROVE  /\ \A j, k \in DOMAIN pending' :
                            Within(i, pending'[j]) /\ Within(i, pending'[k]) => j = k
                      /\ \A l, m \in Leases' :
                            Within(i, active'[l]) /\ Within(i, active'[m]) => l = m
                      /\ \A k \in DOMAIN pending', l \in Leases' :
                            ~(Within(i, pending'[k]) /\ Within(i, active'[l]))
    BY DEF RangesDisjoint, Within
  <2>1. ASSUME NEW j \in DOMAIN pending', NEW k \in DOMAIN pending',
               Within(i, pending'[j]), Within(i, pending'[k])
        PROVE  j = k
    <3>1. j + 1 = k + 1
      BY <1>0, <1>2, <2>1 DEF RangesDisjoint
    <3>2. j \in Nat /\ k \in Nat
      BY <1>2
    <3>3. QED
      BY <3>1, <3>2
  <2>2. ASSUME NEW l \in Leases', NEW m \in Leases',
               Within(i, active'[l]), Within(i, active'[m])
        PROVE  l = m
    BY <1>0, <1>2, <1>3, <2>2 DEF RangesDisjoint
  <2>3. ASSUME NEW k \in DOMAIN pending', NEW l \in Leases',
               Within(i, pending'[k]), Within(i, active'[l])
        PROVE  FALSE
    <3>1. k + 1 \in DOMAIN pending /\ Within(i, pending[k + 1]) /\ k + 1 # 1
      BY <1>2, <2>3
    <3>2. CASE l = next_lease
      BY <1>0, <1>2, <1>3, <2>3, <3>1, <3>2 DEF RangesDisjoint
    <3>3. CASE l # next_lease
      BY <1>0, <1>3, <2>3, <3>1, <3>3 DEF RangesDisjoint
    <3>4. QED
      BY <3>2, <3>3
  <2>4. QED
    BY <2>1, <2>2, <2>3
<1>6. ReservedIsLeased'
  BY <1>0, <1>1, <1>3 DEF ReservedIsLeased, Leased, Within
<1>7. NothingForgotten'
  <2> SUFFICES ASSUME NEW i \in Ordinals, states[i] # "delivered"
               PROVE  \/ \E k \in DOMAIN pending' : Within(i, pending'[k])
                      \/ \E lease \in Leases' : Within(i, active'[lease])
    BY <1>1 DEF NothingForgotten, Waits, Leased, Within
  <2>1. Waits(i) \/ Leased(i)
    BY <1>0, <1>1 DEF NothingForgotten
  <2>2. CASE Waits(i)
    <3>1. PICK k \in DOMAIN pending : Within(i, pending[k])
      BY <2>2 DEF Waits
    <3>2. CASE k = 1
      BY <1>3, <3>1, <3>2
    <3>3. CASE k # 1
      BY <1>2, <3>1, <3>3
    <3>4. QED
      BY <3>2, <3>3
  <2>3. CASE Leased(i)
    BY <2>3, <1>3 DEF Leased
  <2>4. QED
    BY <2>1, <2>2, <2>3
<1>8. QED
  BY <1>4, <1>5, <1>6, <1>7 DEF SchedulerInv

\* Splitting cuts an interval in two at an ordinal inside it; no frame of the
\* second half is reserved.
LEMMA SplitKeepsInv ==
    ASSUME SchedulerInv, NEW lease \in Leases, NEW cut \in SafeCuts, SplitTail(lease, cut)
    PROVE  SchedulerInv'
<1>0. SchedulerTypeOK /\ RangesDisjoint /\ ReservedIsLeased /\ NothingForgotten
  BY DEF SchedulerInv
<1> DEFINE tail == [begin |-> cut, end |-> active[lease].end]
           place == Len(pending) + 1
<1>1. /\ active[lease].begin < cut /\ cut < active[lease].end
      /\ UNCHANGED <<states, delivered_by_lease, next_lease, cancelled>>
      /\ ~cancelled
  BY DEF SplitTail
<1>2. /\ active[lease] \in Ranges
      /\ cut \in 0 .. SelectedCount
      /\ active[lease].begin \in Nat /\ active[lease].end \in Nat
  BY <1>0, CutsInterior DEF SchedulerTypeOK, Ranges
<1>3. tail \in Ranges /\ tail.begin = cut /\ tail.end = active[lease].end
  BY <1>2 DEF Ranges
<1>4. /\ pending' \in Seq(Ranges)
      /\ DOMAIN pending' = DOMAIN pending \cup {place}
      /\ place \notin DOMAIN pending
      /\ \A k \in DOMAIN pending : pending'[k] = pending[k]
      /\ pending'[place] = tail
  <2>1. pending \in Seq(Ranges) /\ pending' = Append(pending, tail)
    BY <1>0 DEF SplitTail, SchedulerTypeOK
  <2> HIDE DEF tail
  <2>2. QED
    BY <1>3, <2>1, AppendFacts
<1>5. /\ Leases' = Leases
      /\ active' \in [Leases -> Ranges]
      /\ active'[lease].begin = active[lease].begin
      /\ active'[lease].end = cut
      /\ \A l \in Leases \ {lease} : active'[l] = active[l]
  BY <1>0, <1>2 DEF SplitTail, SchedulerTypeOK, Ranges
<1> HIDE DEF tail, place
<1>6. SchedulerTypeOK'
  <2>1. /\ \A k \in DOMAIN pending' : pending'[k].begin < pending'[k].end
        /\ \A l \in Leases' : active'[l].begin < active'[l].end
    BY <1>0, <1>1, <1>3, <1>4, <1>5 DEF SchedulerTypeOK
  <2>2. QED
    BY <1>0, <1>1, <1>4, <1>5, <2>1 DEF SchedulerTypeOK
<1>7. \A i \in Ordinals :
         /\ Within(i, tail) => Within(i, active[lease]) /\ ~Within(i, active'[lease])
         /\ Within(i, active'[lease]) => Within(i, active[lease])
         /\ Within(i, active[lease]) => Within(i, active'[lease]) \/ Within(i, tail)
  BY <1>1, <1>2, <1>3, <1>5, CutsInterior DEF Within, Ordinals
<1>8. RangesDisjoint'
  <2> SUFFICES ASSUME NEW i \in Ordinals
               PROVE  /\ \A j, k \in DOMAIN pending' :
                            Within(i, pending'[j]) /\ Within(i, pending'[k]) => j = k
                      /\ \A l, m \in Leases' :
                            Within(i, active'[l]) /\ Within(i, active'[m]) => l = m
                      /\ \A k \in DOMAIN pending', l \in Leases' :
                            ~(Within(i, pending'[k]) /\ Within(i, active'[l]))
    BY DEF RangesDisjoint, Within
  <2>1. \A l \in Leases : Within(i, active'[l]) => Within(i, active[l])
    BY <1>5, <1>7
  <2>2. \A j, k \in DOMAIN pending' :
           Within(i, pending'[j]) /\ Within(i, pending'[k]) => j = k
    BY <1>0, <1>4, <1>7 DEF RangesDisjoint
  <2>3. \A l, m \in Leases' : Within(i, active'[l]) /\ Within(i, active'[m]) => l = m
    BY <1>0, <1>5, <2>1 DEF RangesDisjoint
  <2>4. ASSUME NEW k \in DOMAIN pending', NEW l \in Leases',
               Within(i, pending'[k]), Within(i, active'[l])
        PROVE  FALSE
    <3>1. l \in Leases /\ Within(i, active[l])
      BY <1>5, <2>1, <2>4
    <3>2. CASE k = place
      BY <1>0, <1>4, <1>7, <2>4, <3>1, <3>2 DEF RangesDisjoint
    <3>3. CASE k # place
      BY <1>0, <1>4, <2>4, <3>1, <3>3 DEF RangesDisjoint
    <3>4. QED
      BY <3>2, <3>3
  <2>5. QED
    BY <2>2, <2>3, <2>4
<1>9. ReservedIsLeased'
  <2> SUFFICES ASSUME NEW i \in Ordinals, states[i] = "reserved"
               PROVE  \E l \in Leases : Within(i, active'[l])
    BY <1>1, <1>5 DEF ReservedIsLeased, Leased, Within
  <2>1. PICK l \in Leases : Within(i, active[l])
    BY <1>0 DEF ReservedIsLeased, Leased
  <2>2. CASE l = lease
    <3>1. i < cut
      BY <2>1, <2>2, <1>2, CutsInterior DEF SplitTail, Unissued, Span, Ordinals
    <3>2. Within(i, active'[lease])
      BY <2>1, <2>2, <3>1, <1>5 DEF Within
    <3>3. QED
      BY <3>2
  <2>3. CASE l # lease
    BY <2>1, <2>3, <1>5
  <2>4. QED
    BY <2>2, <2>3
<1>10. NothingForgotten'
  <2> SUFFICES ASSUME NEW i \in Ordinals, states[i] # "delivered"
               PROVE  \/ \E k \in DOMAIN pending' : Within(i, pending'[k])
                      \/ \E l \in Leases' : Within(i, active'[l])
    BY <1>1 DEF NothingForgotten, Waits, Leased, Within
  <2>1. Waits(i) \/ Leased(i)
    BY <1>0, <1>1 DEF NothingForgotten
  <2>2. CASE Waits(i)
    BY <2>2, <1>4 DEF Waits
  <2>3. CASE Leased(i)
    <3>1. PICK l \in Leases : Within(i, active[l])
      BY <2>3 DEF Leased
    <3>2. Within(i, active'[l]) \/ Within(i, tail)
      BY <3>1, <1>5, <1>7
    <3>3. QED
      BY <3>2, <1>4, <1>5
  <2>4. QED
    BY <2>1, <2>2, <2>3
<1>11. QED
  BY <1>6, <1>8, <1>9, <1>10 DEF SchedulerInv

\* Reserving, committing and abandoning change the state of a leased frame only.
LEMMA DeliveryKeepsInv ==
    ASSUME SchedulerInv, NEW lease \in Leases, NEW i \in Ordinals,
           Reserve(lease, i) \/ Commit(lease, i) \/ AbandonDelivery(lease, i)
    PROVE  SchedulerInv'
<1>0. SchedulerTypeOK /\ RangesDisjoint /\ ReservedIsLeased /\ NothingForgotten
  BY DEF SchedulerInv
<1>1. /\ UNCHANGED <<pending, active, next_lease, cancelled>>
      /\ Within(i, active[lease])
      /\ states[i] # "delivered"
  BY DEF Reserve, Commit, AbandonDelivery, Reserved, Delivery
<1>2. /\ states' \in [Ordinals -> {"pending", "reserved", "delivered"}]
      /\ \A j \in Ordinals \ {i} : states'[j] = states[j]
  BY <1>0 DEF Reserve, Commit, AbandonDelivery, SchedulerTypeOK
<1>3. delivered_by_lease' \in [Leases -> Nat]
  BY <1>0 DEF Reserve, Commit, AbandonDelivery, SchedulerTypeOK
<1>4. SchedulerTypeOK'
  BY <1>0, <1>1, <1>2, <1>3 DEF SchedulerTypeOK
<1>5. RangesDisjoint'
  BY <1>0, <1>1 DEF RangesDisjoint, Within
<1>6. ReservedIsLeased'
  <2> SUFFICES ASSUME NEW j \in Ordinals, states'[j] = "reserved"
               PROVE  \E l \in Leases : Within(j, active[l])
    BY <1>1 DEF ReservedIsLeased, Leased, Within
  <2>1. CASE j = i
    BY <1>1, <2>1
  <2>2. CASE j # i
    BY <1>0, <1>2, <2>2 DEF ReservedIsLeased, Leased
  <2>3. QED
    BY <2>1, <2>2
<1>7. NothingForgotten'
  <2> SUFFICES ASSUME ~cancelled, NEW j \in Ordinals, states'[j] # "delivered"
               PROVE  Waits(j) \/ Leased(j)
    BY <1>1 DEF NothingForgotten, Waits, Leased, Within
  <2>1. states[j] # "delivered"
    BY <1>1, <1>2
  <2>2. QED
    BY <1>0, <2>1 DEF NothingForgotten
<1>8. QED
  BY <1>4, <1>5, <1>6, <1>7 DEF SchedulerInv

\* Complete and Release erase a lease and keep the others.
LEMMA EraseFacts ==
    ASSUME SchedulerTypeOK, NEW lease \in Leases, Erase(lease), UNCHANGED next_lease
    PROVE  /\ Leases' = Leases \ {lease}
           /\ \A l \in Leases' : active'[l] = active[l]
           /\ active' \in [Leases' -> Ranges]
           /\ delivered_by_lease' \in [Leases' -> Nat]
           /\ Leases' \subseteq 1 .. next_lease' - 1
           /\ \A l \in Leases' : active'[l].begin < active'[l].end
<1>1. /\ Leases' = Leases \ {lease}
      /\ \A l \in Leases' : active'[l] = active[l]
  BY DEF Erase
<1>2. active' \in [Leases' -> Ranges]
  BY <1>1 DEF Erase, SchedulerTypeOK
<1>3. delivered_by_lease' \in [Leases' -> Nat]
  BY <1>1 DEF Erase, SchedulerTypeOK
<1>4. /\ Leases' \subseteq 1 .. next_lease' - 1
      /\ \A l \in Leases' : active'[l].begin < active'[l].end
  BY <1>1 DEF SchedulerTypeOK
<1>5. QED
  BY <1>1, <1>2, <1>3, <1>4

\* A completed lease had delivered every frame of its interval.
LEMMA CompleteKeepsInv ==
    ASSUME SchedulerInv, NEW lease \in Leases, Complete(lease)
    PROVE  SchedulerInv'
<1>0. SchedulerTypeOK /\ RangesDisjoint /\ ReservedIsLeased /\ NothingForgotten
  BY DEF SchedulerInv
<1>1. /\ UNCHANGED <<states, pending, next_lease, cancelled>>
      /\ \A i \in Ordinals : Within(i, active[lease]) => states[i] = "delivered"
  BY DEF Complete, Completable, Span
<1>2. /\ Leases' = Leases \ {lease}
      /\ \A l \in Leases' : active'[l] = active[l]
      /\ active' \in [Leases' -> Ranges]
      /\ delivered_by_lease' \in [Leases' -> Nat]
      /\ Leases' \subseteq 1 .. next_lease' - 1
      /\ \A l \in Leases' : active'[l].begin < active'[l].end
  BY <1>0, <1>1, EraseFacts DEF Complete
<1>3. SchedulerTypeOK'
  BY <1>0, <1>1, <1>2 DEF SchedulerTypeOK
<1>4. RangesDisjoint'
  BY <1>0, <1>1, <1>2 DEF RangesDisjoint, Within
<1>5. ReservedIsLeased'
  <2> SUFFICES ASSUME NEW i \in Ordinals, states[i] = "reserved"
               PROVE  \E l \in Leases' : Within(i, active'[l])
    BY <1>1 DEF ReservedIsLeased, Leased, Within
  <2>1. QED
    BY <1>0, <1>1, <1>2 DEF ReservedIsLeased, Leased
<1>6. NothingForgotten'
  <2> SUFFICES ASSUME ~cancelled, NEW i \in Ordinals, states[i] # "delivered"
               PROVE  \/ \E k \in DOMAIN pending : Within(i, pending[k])
                      \/ \E l \in Leases' : Within(i, active'[l])
    BY <1>1 DEF NothingForgotten, Waits, Leased, Within
  <2>1. QED
    BY <1>0, <1>1, <1>2 DEF NothingForgotten, Waits, Leased
<1>7. QED
  BY <1>3, <1>4, <1>5, <1>6 DEF SchedulerInv

\* A lease given back waits in front, unless a cancellation forgets all of them.
LEMMA ReleaseKeepsInv ==
    ASSUME SchedulerInv, NEW lease \in Leases, Release(lease)
    PROVE  SchedulerInv'
<1>0. SchedulerTypeOK /\ RangesDisjoint /\ ReservedIsLeased /\ NothingForgotten
  BY DEF SchedulerInv
<1>1. /\ UNCHANGED <<states, next_lease, cancelled>>
      /\ \A i \in Ordinals : Within(i, active[lease]) => states[i] # "reserved"
      /\ active[lease] \in Ranges
      /\ active[lease].begin < active[lease].end
  BY <1>0 DEF Release, NothingReserved, SchedulerTypeOK, Span
<1>2. /\ Leases' = Leases \ {lease}
      /\ \A l \in Leases' : active'[l] = active[l]
      /\ active' \in [Leases' -> Ranges]
      /\ delivered_by_lease' \in [Leases' -> Nat]
      /\ Leases' \subseteq 1 .. next_lease' - 1
      /\ \A l \in Leases' : active'[l].begin < active'[l].end
  BY <1>0, <1>1, EraseFacts DEF Release
<1>3. ReservedIsLeased'
  <2> SUFFICES ASSUME NEW i \in Ordinals, states[i] = "reserved"
               PROVE  \E l \in Leases' : Within(i, active'[l])
    BY <1>1 DEF ReservedIsLeased, Leased, Within
  <2>1. QED
    BY <1>0, <1>1, <1>2 DEF ReservedIsLeased, Leased
<1>4. CASE cancelled
  <2>1. UNCHANGED pending
    BY <1>4 DEF Release
  <2>2. SchedulerTypeOK'
    BY <1>0, <1>1, <1>2, <2>1 DEF SchedulerTypeOK
  <2>3. RangesDisjoint'
    BY <1>0, <1>1, <1>2, <2>1 DEF RangesDisjoint, Within
  <2>4. NothingForgotten'
    BY <1>1, <1>4 DEF NothingForgotten
  <2>5. QED
    BY <1>3, <2>2, <2>3, <2>4 DEF SchedulerInv
<1>5. CASE ~cancelled
  <2>1. /\ pending' \in Seq(Ranges)
        /\ 1 \in DOMAIN pending' /\ pending'[1] = active[lease]
        /\ \A k \in DOMAIN pending' :
              k = 1 \/ (k - 1 \in DOMAIN pending /\ pending'[k] = pending[k - 1])
        /\ \A k \in DOMAIN pending :
              k + 1 \in DOMAIN pending' /\ pending'[k + 1] = pending[k]
        /\ DOMAIN pending' \subseteq Nat \ {0}
    <3>1. pending \in Seq(Ranges) /\ pending' = <<active[lease]>> \o pending
      BY <1>0, <1>5 DEF SchedulerTypeOK, Release
    <3>2. QED
      BY <1>1, <3>1, ConsFacts
  <2>2. SchedulerTypeOK'
    <3>1. \A k \in DOMAIN pending' : pending'[k].begin < pending'[k].end
      BY <1>0, <1>1, <2>1 DEF SchedulerTypeOK
    <3>2. QED
      BY <1>0, <1>1, <1>2, <2>1, <3>1 DEF SchedulerTypeOK
  <2>3. RangesDisjoint'
    <3> SUFFICES ASSUME NEW i \in Ordinals
                 PROVE  /\ \A j, k \in DOMAIN pending' :
                              Within(i, pending'[j]) /\ Within(i, pending'[k]) => j = k
                        /\ \A l, m \in Leases' :
                              Within(i, active'[l]) /\ Within(i, active'[m]) => l = m
                        /\ \A k \in DOMAIN pending', l \in Leases' :
                              ~(Within(i, pending'[k]) /\ Within(i, active'[l]))
      BY DEF RangesDisjoint, Within
    <3>1. ASSUME NEW j \in DOMAIN pending', NEW k \in DOMAIN pending',
                 Within(i, pending'[j]), Within(i, pending'[k])
          PROVE  j = k
      <4>1. j \in Nat /\ k \in Nat
        BY <2>1
      <4>2. CASE j = 1 \/ k = 1
        BY <1>0, <2>1, <3>1, <4>2 DEF RangesDisjoint
      <4>3. CASE j # 1 /\ k # 1
        <5>1. j - 1 = k - 1
          BY <1>0, <2>1, <3>1, <4>3 DEF RangesDisjoint
        <5>2. QED
          BY <4>1, <5>1
      <4>4. QED
        BY <4>2, <4>3
    <3>2. \A l, m \in Leases' : Within(i, active'[l]) /\ Within(i, active'[m]) => l = m
      BY <1>0, <1>2 DEF RangesDisjoint
    <3>3. ASSUME NEW k \in DOMAIN pending', NEW l \in Leases',
                 Within(i, pending'[k]), Within(i, active'[l])
          PROVE  FALSE
      <4>1. l \in Leases /\ l # lease /\ Within(i, active[l])
        BY <1>2, <3>3
      <4>2. CASE k = 1
        BY <1>0, <2>1, <3>3, <4>1, <4>2 DEF RangesDisjoint
      <4>3. CASE k # 1
        BY <1>0, <2>1, <3>3, <4>1, <4>3 DEF RangesDisjoint
      <4>4. QED
        BY <4>2, <4>3
    <3>4. QED
      BY <3>1, <3>2, <3>3
  <2>4. NothingForgotten'
    <3> SUFFICES ASSUME NEW i \in Ordinals, states[i] # "delivered"
                 PROVE  \/ \E k \in DOMAIN pending' : Within(i, pending'[k])
                        \/ \E l \in Leases' : Within(i, active'[l])
      BY <1>1 DEF NothingForgotten, Waits, Leased, Within
    <3>1. Waits(i) \/ Leased(i)
      BY <1>0, <1>5 DEF NothingForgotten
    <3>2. CASE Waits(i)
      <4>1. PICK k \in DOMAIN pending : Within(i, pending[k])
        BY <3>2 DEF Waits
      <4>2. QED
        BY <4>1, <2>1
    <3>3. CASE Leased(i)
      <4>1. PICK l \in Leases : Within(i, active[l])
        BY <3>3 DEF Leased
      <4>2. CASE l = lease
        BY <4>1, <4>2, <2>1
      <4>3. CASE l # lease
        BY <4>1, <4>3, <1>2
      <4>4. QED
        BY <4>2, <4>3
    <3>4. QED
      BY <3>1, <3>2, <3>3
  <2>5. QED
    BY <1>3, <2>2, <2>3, <2>4 DEF SchedulerInv
<1>6. QED
  BY <1>4, <1>5

\* A cancellation forgets the waiting intervals and nothing else.
LEMMA CancelKeepsInv == SchedulerInv /\ Cancel => SchedulerInv'
<1> SUFFICES ASSUME SchedulerInv, Cancel PROVE SchedulerInv'
  OBVIOUS
<1>0. SchedulerTypeOK /\ RangesDisjoint /\ ReservedIsLeased /\ NothingForgotten
  BY DEF SchedulerInv
<1>1. /\ pending' = <<>> /\ pending' \in Seq(Ranges) /\ DOMAIN pending' = {}
      /\ UNCHANGED <<states, active, delivered_by_lease, next_lease>>
      /\ cancelled' = TRUE
  BY DEF Cancel
<1>2. SchedulerTypeOK'
  BY <1>0, <1>1 DEF SchedulerTypeOK
<1>3. RangesDisjoint'
  BY <1>0, <1>1 DEF RangesDisjoint, Within
<1>4. ReservedIsLeased'
  BY <1>0, <1>1 DEF ReservedIsLeased, Leased, Within
<1>5. NothingForgotten'
  BY <1>1 DEF NothingForgotten
<1>6. QED
  BY <1>2, <1>3, <1>4, <1>5 DEF SchedulerInv

\* Every operation keeps the invariant.
LEMMA NextInv == SchedulerInv /\ [SchedulerNext]_scheduler => SchedulerInv'
<1> SUFFICES ASSUME SchedulerInv, [SchedulerNext]_scheduler PROVE SchedulerInv'
  OBVIOUS
<1>1. CASE Claim
  BY <1>1, ClaimKeepsInv
<1>2. CASE Cancel
  BY <1>2, CancelKeepsInv
<1>3. ASSUME NEW lease \in Leases, NEW cut \in SafeCuts, SplitTail(lease, cut)
      PROVE  SchedulerInv'
  BY <1>3, SplitKeepsInv
<1>4. ASSUME NEW lease \in Leases, NEW i \in Ordinals,
             Reserve(lease, i) \/ Commit(lease, i) \/ AbandonDelivery(lease, i)
      PROVE  SchedulerInv'
  BY <1>4, DeliveryKeepsInv
<1>5. ASSUME NEW lease \in Leases, Complete(lease)
      PROVE  SchedulerInv'
  BY <1>5, CompleteKeepsInv
<1>6. ASSUME NEW lease \in Leases, Release(lease)
      PROVE  SchedulerInv'
  BY <1>6, ReleaseKeepsInv
<1>7. CASE UNCHANGED scheduler
  BY <1>7 DEF scheduler, SchedulerInv, SchedulerTypeOK, RangesDisjoint, ReservedIsLeased,
              NothingForgotten, Waits, Leased, Within
<1>8. QED
  BY <1>1, <1>2, <1>3, <1>4, <1>5, <1>6, <1>7 DEF SchedulerNext

-----------------------------------------------------------------------------
\* The invariant of every client, from which the theorems follow.
LEMMA SchedulerInvHolds == SchedulerSpec => []SchedulerInv
  BY InitInv, NextInv, PTL DEF SchedulerSpec

\* decode_ranges.hpp: whatever its clients call, no frame belongs to two intervals, so no
\* two decode sessions are ever told to deliver it; until cancel() a frame that is not
\* delivered waits to be claimed or is leased; and a reserved frame stays leased until its
\* delivery is committed or abandoned: split_tail never takes it and release never drops it.
THEOREM RangesConservedHolds == SchedulerSpec => []RangesConserved
<1>1. SchedulerInv => RangesConserved
  BY DEF SchedulerInv, RangesConserved
<1> QED
  BY <1>1, SchedulerInvHolds, PTL

-----------------------------------------------------------------------------
(* The counts of the leases.                                               *)

\* The frames of an interval that are delivered are finitely many.
LEMMA SpanFinite ==
    ASSUME NEW range
    PROVE  /\ IsFiniteSet(Span(range))
           /\ DeliveredIn(range) \in SUBSET Span(range)
           /\ IsFiniteSet(DeliveredIn(range)) /\ Cardinality(DeliveredIn(range)) \in Nat
<1>1. IsFiniteSet(Ordinals)
  BY CutsInterior, FS_Interval DEF Ordinals
<1>2. Span(range) \in SUBSET Ordinals /\ DeliveredIn(range) \in SUBSET Span(range)
  BY DEF Span, DeliveredIn
<1>3. IsFiniteSet(Span(range)) /\ IsFiniteSet(DeliveredIn(range))
  BY <1>1, <1>2, FS_Subset
<1> QED
  BY <1>2, <1>3, FS_CardinalityType

\* A claim counts what earlier leases delivered.
LEMMA ClaimCounts ==
    ASSUME SchedulerInv, CountsAgree, Claim
    PROVE  CountsAgree'
<1>1. /\ Leases' = Leases \cup {next_lease} /\ next_lease \notin Leases
      /\ active'[next_lease] = Head(pending)
      /\ delivered_by_lease'[next_lease] = Cardinality(DeliveredIn(Head(pending)))
      /\ \A l \in Leases : /\ active'[l] = active[l]
                           /\ delivered_by_lease'[l] = delivered_by_lease[l]
      /\ UNCHANGED states
  BY DEF Claim, SchedulerInv, SchedulerTypeOK
<1>2. \A range : DeliveredIn(range)' = DeliveredIn(range)
  BY <1>1 DEF DeliveredIn, Span
<1> SUFFICES ASSUME NEW l \in Leases'
             PROVE  delivered_by_lease'[l] = Cardinality(DeliveredIn(active[l])')
  BY DEF CountsAgree
<1>3. CASE l = next_lease
  <2>1. DeliveredIn(active[l])' = DeliveredIn(Head(pending))
    BY <1>1, <1>3 DEF DeliveredIn, Span
  <2> QED
    BY <1>1, <1>3, <2>1
<1>4. CASE l # next_lease
  <2>1. DeliveredIn(active[l])' = DeliveredIn(active[l])
    BY <1>1, <1>4 DEF DeliveredIn, Span
  <2> QED
    BY <1>1, <1>4, <2>1 DEF CountsAgree
<1> QED
  BY <1>3, <1>4

\* No frame of the tail is delivered, so the head has all the lease delivered.
LEMMA SplitCounts ==
    ASSUME SchedulerInv, CountsAgree,
           NEW lease \in Leases, NEW cut \in SafeCuts, SplitTail(lease, cut)
    PROVE  CountsAgree'
<1>0. SchedulerTypeOK /\ cut \in Int /\ active[lease] \in Ranges
  BY CutsInterior DEF SchedulerInv, SchedulerTypeOK
<1>1. /\ Leases' = Leases /\ UNCHANGED <<states, delivered_by_lease>>
      /\ active'[lease].begin = active[lease].begin /\ active'[lease].end = cut
      /\ \A l \in Leases \ {lease} : active'[l] = active[l]
      /\ cut < active[lease].end
  BY <1>0 DEF SplitTail, SchedulerTypeOK, Ranges
<1> SUFFICES ASSUME NEW l \in Leases
             PROVE  delivered_by_lease[l] = Cardinality(DeliveredIn(active[l])')
  BY <1>1 DEF CountsAgree
<1>2. DeliveredIn(active[l])' = DeliveredIn(active[l])
  <2>1. CASE l # lease
    BY <1>1, <2>1 DEF DeliveredIn, Span
  <2>2. CASE l = lease
    <3>1. \A i \in Ordinals : Within(i, active'[l]) => Within(i, active[l])
      BY <1>0, <1>1, <2>2, CutsInterior DEF Within, Ordinals, Ranges
    <3>2. ASSUME NEW i \in Ordinals, Within(i, active[l]), states[i] = "delivered"
          PROVE  Within(i, active'[l])
      <4>1. ~(cut <= i)
        BY <2>2, <3>2 DEF SplitTail, Unissued, Span
      <4> QED
        BY <1>0, <1>1, <2>2, <3>2, <4>1, CutsInterior DEF Within, Ordinals
    <3> QED
      BY <1>1, <3>1, <3>2 DEF DeliveredIn, Span
  <2> QED
    BY <2>1, <2>2
<1> QED
  BY <1>2 DEF CountsAgree

\* A commit adds one frame to the lease that has it, and to no other.
LEMMA CommitCounts ==
    ASSUME SchedulerInv, CountsAgree, NEW lease \in Leases, NEW i \in Ordinals, Commit(lease, i)
    PROVE  CountsAgree'
<1>0. SchedulerTypeOK /\ RangesDisjoint
  BY DEF SchedulerInv
<1>1. /\ Leases' = Leases /\ UNCHANGED active
      /\ Within(i, active[lease]) /\ states[i] = "reserved"
      /\ states'[i] = "delivered" /\ \A j \in Ordinals \ {i} : states'[j] = states[j]
      /\ delivered_by_lease'[lease] = delivered_by_lease[lease] + 1
      /\ \A l \in Leases \ {lease} : delivered_by_lease'[l] = delivered_by_lease[l]
  BY <1>0 DEF Commit, Reserved, SchedulerTypeOK
<1> SUFFICES ASSUME NEW l \in Leases
             PROVE  delivered_by_lease'[l] = Cardinality(DeliveredIn(active[l])')
  BY <1>1 DEF CountsAgree
<1>2. CASE l = lease
  <2>1. /\ DeliveredIn(active[l])' = DeliveredIn(active[l]) \cup {i}
        /\ i \notin DeliveredIn(active[l])
    BY <1>1, <1>2 DEF DeliveredIn, Span, Within
  <2>2. Cardinality(DeliveredIn(active[l])') = Cardinality(DeliveredIn(active[l])) + 1
    BY <2>1, SpanFinite, FS_AddElement
  <2> QED
    BY <1>1, <1>2, <2>2 DEF CountsAgree
<1>3. CASE l # lease
  <2>1. ~Within(i, active[l])
    BY <1>0, <1>1, <1>3 DEF RangesDisjoint
  <2>2. DeliveredIn(active[l])' = DeliveredIn(active[l])
    BY <1>1, <2>1 DEF DeliveredIn, Span, Within
  <2> QED
    BY <1>1, <1>3, <2>2 DEF CountsAgree
<1> QED
  BY <1>2, <1>3

\* The other operations deliver nothing and keep the counts of the leases that stay.
LEMMA OthersCount ==
    ASSUME CountsAgree, Leases' \subseteq Leases,
           \A l \in Leases' : /\ active'[l] = active[l]
                              /\ delivered_by_lease'[l] = delivered_by_lease[l],
           \A i \in Ordinals : states'[i] = "delivered" <=> states[i] = "delivered"
    PROVE  CountsAgree'
<1> SUFFICES ASSUME NEW l \in Leases'
             PROVE  delivered_by_lease'[l] = Cardinality(DeliveredIn(active[l])')
  BY DEF CountsAgree
<1>1. DeliveredIn(active[l])' = DeliveredIn(active[l])
  BY DEF DeliveredIn, Span
<1> QED
  BY <1>1 DEF CountsAgree

\* Every operation keeps the counts.
LEMMA NextCounts ==
    ASSUME SchedulerInv, CountsAgree, [SchedulerNext]_scheduler
    PROVE  CountsAgree'
<1>0. SchedulerTypeOK
  BY DEF SchedulerInv
<1>1. CASE Claim
  BY <1>1, ClaimCounts
<1>2. ASSUME NEW lease \in Leases, NEW cut \in SafeCuts, SplitTail(lease, cut)
      PROVE  CountsAgree'
  BY <1>2, SplitCounts
<1>3. ASSUME NEW lease \in Leases, NEW i \in Ordinals, Commit(lease, i)
      PROVE  CountsAgree'
  BY <1>3, CommitCounts
<1>4. ASSUME NEW lease \in Leases, NEW i \in Ordinals,
             Reserve(lease, i) \/ AbandonDelivery(lease, i)
      PROVE  CountsAgree'
  <2>1. /\ UNCHANGED <<active, delivered_by_lease>>
        /\ states[i] # "delivered"
        /\ \E state \in {"reserved", "pending"} : states' = [states EXCEPT ![i] = state]
    BY <1>4 DEF Reserve, AbandonDelivery, Reserved, Delivery
  <2>2. \A j \in Ordinals : states'[j] = "delivered" <=> states[j] = "delivered"
    BY <1>0, <2>1 DEF SchedulerTypeOK
  <2> QED
    BY <2>1, <2>2, OthersCount
<1>5. ASSUME NEW lease \in Leases, Complete(lease) \/ Release(lease)
      PROVE  CountsAgree'
  BY <1>5, OthersCount DEF Complete, Release, Erase
<1>6. CASE Cancel \/ UNCHANGED scheduler
  BY <1>6, OthersCount DEF Cancel, scheduler
<1> QED
  BY <1>1, <1>2, <1>3, <1>4, <1>5, <1>6 DEF SchedulerNext

\* finished(): what a lease counts as delivered is what is delivered of its interval, also
\* when the interval was claimed half delivered and has been split since; so a session that
\* compares the count with the interval's length never ends too early.
THEOREM CountsAgreeHolds == SchedulerSpec => []CountsAgree
<1>1. SchedulerInit => CountsAgree
  BY DEF SchedulerInit, CountsAgree
<1>2. SchedulerInv /\ CountsAgree /\ [SchedulerNext]_scheduler => CountsAgree'
  BY NextCounts
<1> QED
  BY <1>1, <1>2, SchedulerInvHolds, PTL DEF SchedulerSpec
-----------------------------------------------------------------------------
(* The decode.                                                             *)

\* A session that holds a frame it reserved.
Holds(s) == pc[s] \in {"deliver", "commit", "abandon"}

\* A session that has handed the frame over and not committed it yet.
InCommit(i) == \E s \in Slots : pc[s] = "commit" /\ work[s].frame = i

LocalsOK == /\ DOMAIN pc = Slots
            /\ DOMAIN work = Slots
            /\ \A s \in Slots : "frame" \in DOMAIN work[s]
            /\ handed \in [Ordinals -> Nat]

\* A held frame is reserved, and one session holds it.
HeldOnce == /\ \A s \in Slots : Holds(s) => /\ work[s].frame \in Ordinals
                                            /\ states[work[s].frame] = "reserved"
            /\ \A s, t \in Slots :
                  Holds(s) /\ Holds(t) /\ work[s].frame = work[t].frame => s = t

\* A frame was handed over once if it is delivered or about to be, else never.
HandedExactly == \A i \in Ordinals :
                    /\ states[i] = "delivered" \/ InCommit(i) => handed[i] = 1
                    /\ states[i] # "delivered" /\ ~InCommit(i) => handed[i] = 0

HandInv == LocalsOK /\ HeldOnce /\ HandedExactly

DecodeInv == SchedulerInv /\ HandInv

-----------------------------------------------------------------------------
\* The scheduler reserves nothing but a pending ordinal of a lease.
LEMMA DeliveryFacts ==
    ASSUME SchedulerTypeOK, NEW lease, NEW i \in Int, Delivery(lease, i) = "reserved"
    PROVE  i \in Ordinals /\ lease \in Leases /\ states[i] = "pending"
<1>1. lease \in Leases /\ Within(i, active[lease]) /\ states[i] = "pending"
  BY DEF Delivery
<1>2. active[lease] \in Ranges
  BY <1>1 DEF SchedulerTypeOK
<1>3. i \in Ordinals
  BY <1>1, <1>2, CutsInterior DEF Within, Ranges, Ordinals
<1>4. QED
  BY <1>1, <1>3

\* Every step of the decode is a step of the scheduler, or none of its business.
LEMMA SchedulerStep ==
    ASSUME SchedulerTypeOK, HandInv, Next
    PROVE  SchedulerNext \/ UNCHANGED scheduler
<1>1. ASSUME NEW s \in Slots, Session(s)
      PROVE  SchedulerNext \/ UNCHANGED scheduler
  <2>1. CASE Open(s) \/ Deliver(s) \/ Check(s) \/ EndRun(s) \/ EndAttempt(s)
             \/ Fail(s) \/ Leave(s)
    BY <2>1 DEF Open, Deliver, Check, EndRun, EndAttempt, Fail, Leave
  <2>2. CASE Output(s)
    <3>1. PICK i \in Targets(s) \ (work[s].shown \cup work[s].flags) :
             IF Delivery(Lease(s), i) = "reserved" THEN Reserve(Lease(s), i)
                                                   ELSE UNCHANGED scheduler
      BY <2>2 DEF Output
    <3>2. i \in Int
      BY <3>1 DEF Targets
    <3>3. QED
      BY <3>1, <3>2, DeliveryFacts DEF SchedulerNext
  <2>3. CASE CommitDelivery(s)
    BY <2>3 DEF CommitDelivery, Commit, Reserved, SchedulerNext, HandInv, HeldOnce, Holds
  <2>4. CASE Abandon(s)
    BY <2>4 DEF Abandon, AbandonDelivery, Reserved, SchedulerNext, HandInv, HeldOnce, Holds
  <2>5. CASE CompleteLease(s)
    BY <2>5 DEF CompleteLease, Completable, SchedulerNext
  <2>6. CASE Catch(s)
    BY <2>6 DEF Catch, Release, SchedulerNext
  <2>7. QED
    BY <1>1, <2>1, <2>2, <2>3, <2>4, <2>5, <2>6 DEF Session
<1>2. CASE Controller \/ ClaimNext
  <2>1. CASE \E s \in Slots : ClaimFor(s)
    BY <2>1 DEF ClaimFor, SchedulerNext
  <2>2. CASE Launch
    BY <2>2 DEF Launch, Release, SchedulerNext
  <2>3. CASE Join \/ LeaveLoop \/ Return
    BY <2>3 DEF Join, LeaveLoop, Return
  <2>4. QED
    BY <1>2, <2>1, <2>2, <2>3, SlotsHaveFirst DEF Controller, Begin, ClaimNext
<1>3. CASE Split
  BY <1>3 DEF Split, SchedulerNext
<1>4. CASE RequestStop
  BY <1>4 DEF RequestStop
<1>5. CASE StopCallback
  BY <1>5 DEF StopCallback, SchedulerNext
<1>6. QED
  BY <1>1, <1>2, <1>3, <1>4, <1>5 DEF Next

-----------------------------------------------------------------------------
\* At the start no session holds a frame.
LEMMA InitHand == Init => HandInv
<1> SUFFICES ASSUME Init PROVE HandInv
  OBVIOUS
<1>1. /\ pc = [s \in Slots |-> "none"]
      /\ work = [s \in Slots |-> NoWork]
      /\ handed = [i \in Ordinals |-> 0]
      /\ states = [i \in Ordinals |-> "pending"]
  BY DEF Init, SchedulerInit
<1>2. LocalsOK
  BY <1>1 DEF LocalsOK, NoWork
<1>3. HeldOnce
  BY <1>1 DEF HeldOnce, Holds
<1>4. HandedExactly
  BY <1>1 DEF HandedExactly, InCommit
<1>5. QED
  BY <1>2, <1>3, <1>4 DEF HandInv

\* A step that neither takes nor gives back a frame.
LEMMA QuietKeepsHand ==
    ASSUME HandInv, LocalsOK',
           UNCHANGED <<states, handed>>,
           \A s \in Slots : Holds(s) \/ Holds(s)' => /\ pc'[s] = pc[s]
                                                     /\ work'[s].frame = work[s].frame
    PROVE  HandInv'
<1>1. HeldOnce'
  BY DEF HandInv, HeldOnce, Holds
<1>2. \A i : InCommit(i)' <=> InCommit(i)
  BY DEF InCommit, Holds
<1>3. HandedExactly'
  BY <1>2 DEF HandInv, HandedExactly
<1>4. QED
  BY <1>1, <1>3 DEF HandInv

\* A session that goes from one place to another without a frame in its hands.
LEMMA MoveKeepsHand ==
    ASSUME HandInv, NEW s \in Slots,
           NEW state, state \notin {"deliver", "commit", "abandon"},
           ~Holds(s), Goto(s, state), UNCHANGED <<states, handed>>,
           DOMAIN work' = Slots, "frame" \in DOMAIN work'[s],
           \A t \in Slots \ {s} : work'[t] = work[t]
    PROVE  HandInv'
<1>1. /\ DOMAIN pc' = Slots /\ pc'[s] = state
      /\ \A t \in Slots \ {s} : pc'[t] = pc[t]
  BY DEF HandInv, LocalsOK, Goto
<1>2. LocalsOK'
  BY <1>1 DEF HandInv, LocalsOK
<1>3. ~Holds(s)'
  BY <1>1 DEF Holds
<1>4. QED
  BY <1>1, <1>2, <1>3, QuietKeepsHand

\* What Throw does to the locals and the place of a session.
LEMMA ThrowFacts ==
    ASSUME LocalsOK, NEW s \in Slots, NEW error, NEW handler, Throw(s, error, handler)
    PROVE  /\ DOMAIN work' = Slots
           /\ "frame" \in DOMAIN work'[s] /\ work'[s].frame = work[s].frame
           /\ \A t \in Slots \ {s} : work'[t] = work[t]
           /\ Goto(s, handler)
  BY DEF LocalsOK, Throw, NoWork

\* A session that reserves a frame is the only one to hold it.
LEMMA OutputKeepsHand ==
    ASSUME SchedulerTypeOK, HandInv, NEW s \in Slots, Output(s)
    PROVE  HandInv'
<1>1. PICK i \in Targets(s) \ (work[s].shown \cup work[s].flags) :
         LET answer == Delivery(Lease(s), i) IN
          /\ work' = [work EXCEPT ![s].shown = @ \cup {i},
                                  ![s].frame = IF answer = "reserved" THEN i ELSE NoFrame]
          /\ Goto(s, CASE answer = "reserved" -> "deliver"
                       [] answer = "delivered" -> "decode"
                       [] answer = "unavailable" -> IF stop THEN "stopped" ELSE "check")
          /\ IF answer = "reserved" THEN Reserve(Lease(s), i) ELSE UNCHANGED scheduler
  BY DEF Output
<1>2. pc[s] = "decode" /\ UNCHANGED handed
  BY DEF Output, job
<1>3. /\ DOMAIN work' = Slots
      /\ "frame" \in DOMAIN work'[s]
      /\ \A t \in Slots \ {s} : work'[t] = work[t]
  BY <1>1 DEF HandInv, LocalsOK
<1>4. CASE Delivery(Lease(s), i) = "reserved"
  <2>1. i \in Ordinals /\ states[i] = "pending"
    <3>1. i \in Int
      BY <1>1 DEF Targets
    <3>2. QED
      BY <1>4, <3>1, DeliveryFacts
  <2>2. work'[s].frame = i /\ Goto(s, "deliver")
    BY <1>1, <1>4 DEF HandInv, LocalsOK
  <2>3. /\ DOMAIN pc' = Slots /\ pc'[s] = "deliver"
        /\ \A t \in Slots \ {s} : pc'[t] = pc[t]
    BY <2>2 DEF Goto, HandInv, LocalsOK
  <2>4. states' = [states EXCEPT ![i] = "reserved"]
    BY <1>1, <1>4 DEF Reserve
  <2>5. states'[i] = "reserved" /\ \A j \in Ordinals \ {i} : states'[j] = states[j]
    BY <2>1, <2>4 DEF SchedulerTypeOK
  <2>6. \A t \in Slots \ {s} : Holds(t)' => Holds(t) /\ work[t].frame # i
    BY <2>1, <2>3 DEF Holds, HandInv, HeldOnce
  <2>7. HeldOnce'
    <3>1. \A t \in Slots : Holds(t)' => /\ work'[t].frame \in Ordinals
                                        /\ states'[work'[t].frame] = "reserved"
      BY <1>3, <2>1, <2>2, <2>5, <2>6 DEF HandInv, HeldOnce
    <3>2. \A t, u \in Slots : Holds(t)' /\ Holds(u)' /\ work'[t].frame = work'[u].frame => t = u
      BY <1>3, <2>2, <2>6 DEF HandInv, HeldOnce
    <3>3. QED
      BY <3>1, <3>2 DEF HeldOnce, Holds
  <2>8. \A j \in Ordinals : InCommit(j)' <=> InCommit(j)
    BY <1>2, <1>3, <2>3 DEF InCommit
  <2>9. HandedExactly'
    BY <1>2, <2>1, <2>5, <2>8 DEF HandInv, HandedExactly
  <2>10. QED
    BY <1>2, <1>3, <2>3, <2>7, <2>9 DEF HandInv, LocalsOK
<1>5. CASE Delivery(Lease(s), i) # "reserved"
  <2>1. PICK state : Goto(s, state) /\ state \notin {"deliver", "commit", "abandon"}
    <3>1. Delivery(Lease(s), i) \in {"delivered", "unavailable"}
      BY <1>5 DEF Delivery
    <3>2. QED
      BY <1>1, <3>1
  <2>2. UNCHANGED states
    BY <1>1, <1>5 DEF scheduler
  <2>3. ~Holds(s)
    BY <1>2 DEF Holds
  <2>4. QED
    BY <1>2, <1>3, <2>1, <2>2, <2>3, MoveKeepsHand
<1>6. QED
  BY <1>4, <1>5

\* The frame is handed over on the way to the commit, or abandoned.
LEMMA DeliverKeepsHand ==
    ASSUME HandInv, NEW s \in Slots, Deliver(s)
    PROVE  HandInv'
<1>1. /\ pc[s] = "deliver" /\ Holds(s)
      /\ UNCHANGED states
  BY DEF Deliver, Holds, scheduler
<1>2. /\ work[s].frame \in Ordinals
      /\ states[work[s].frame] = "reserved"
      /\ \A t \in Slots \ {s} : Holds(t) => work[t].frame # work[s].frame
  BY <1>1 DEF HandInv, HeldOnce
<1>3. CASE /\ handed' = [handed EXCEPT ![work[s].frame] = @ + 1]
           /\ Goto(s, "commit")
           /\ UNCHANGED work
  <2>1. /\ DOMAIN pc' = Slots /\ pc'[s] = "commit"
        /\ \A t \in Slots \ {s} : pc'[t] = pc[t]
    BY <1>3 DEF Goto, HandInv, LocalsOK
  <2>2. \A i \in Ordinals : InCommit(i)' <=> InCommit(i) \/ i = work[s].frame
    BY <1>1, <1>3, <2>1 DEF InCommit
  <2>3. ~InCommit(work[s].frame)
    BY <1>1, <1>2 DEF InCommit, Holds
  <2>4. handed[work[s].frame] = 0
    BY <1>2, <2>3 DEF HandInv, HandedExactly
  <2>5. /\ handed' \in [Ordinals -> Nat]
        /\ handed'[work[s].frame] = 1
        /\ \A i \in Ordinals \ {work[s].frame} : handed'[i] = handed[i]
    BY <1>2, <1>3, <2>4 DEF HandInv, LocalsOK
  <2>6. HandedExactly'
    BY <1>1, <1>2, <2>2, <2>5 DEF HandInv, HandedExactly
  <2>7. \A t \in Slots : Holds(t)' <=> Holds(t)
    BY <1>1, <2>1 DEF Holds
  <2>8. HeldOnce'
    BY <1>1, <1>3, <2>7 DEF HandInv, HeldOnce, Holds
  <2>9. QED
    BY <1>3, <2>1, <2>5, <2>6, <2>8 DEF HandInv, LocalsOK
<1>4. CASE UNCHANGED handed /\ \E error \in Errors : Throw(s, error, "abandon")
  <2>1. /\ DOMAIN work' = Slots
        /\ "frame" \in DOMAIN work'[s] /\ work'[s].frame = work[s].frame
        /\ \A t \in Slots \ {s} : work'[t] = work[t]
        /\ Goto(s, "abandon")
    BY <1>4, ThrowFacts DEF HandInv
  <2>2. /\ DOMAIN pc' = Slots /\ pc'[s] = "abandon"
        /\ \A t \in Slots \ {s} : pc'[t] = pc[t]
    BY <2>1 DEF Goto, HandInv, LocalsOK
  <2>3. \A t \in Slots : Holds(t)' <=> Holds(t)
    BY <1>1, <2>2 DEF Holds
  <2>4. \A t \in Slots : work'[t].frame = work[t].frame
    BY <2>1
  <2>5. HeldOnce'
    BY <1>1, <2>3, <2>4 DEF HandInv, HeldOnce, Holds
  <2>6. \A i : InCommit(i)' <=> InCommit(i)
    BY <1>1, <2>2, <2>4 DEF InCommit
  <2>7. HandedExactly'
    BY <1>1, <1>4, <2>6 DEF HandInv, HandedExactly
  <2>8. QED
    BY <1>4, <2>1, <2>2, <2>5, <2>7 DEF HandInv, LocalsOK
<1>5. QED
  BY <1>3, <1>4 DEF Deliver

\* The session gives its frame up: delivered after a commit, pending again else.
LEMMA GiveUpKeepsHand ==
    ASSUME SchedulerTypeOK, HandInv, NEW s \in Slots,
           CommitDelivery(s) \/ Abandon(s)
    PROVE  HandInv'
<1> DEFINE frame == work[s].frame
           state == IF CommitDelivery(s) THEN "delivered" ELSE "pending"
<1>1. /\ Holds(s)
      /\ frame \in Ordinals
      /\ \A t \in Slots \ {s} : Holds(t) => work[t].frame # frame
  BY DEF CommitDelivery, Abandon, Holds, HandInv, HeldOnce
<1>2. /\ state \in {"delivered", "pending"}
      /\ state = "delivered" <=> pc[s] = "commit"
      /\ states' = [states EXCEPT ![frame] = state]
      /\ UNCHANGED handed
  BY DEF CommitDelivery, Abandon, Commit, AbandonDelivery, job
<1>3. /\ DOMAIN work' = Slots
      /\ "frame" \in DOMAIN work'[s]
      /\ \A t \in Slots \ {s} : work'[t] = work[t]
  BY DEF CommitDelivery, Abandon, HandInv, LocalsOK
<1>4. /\ DOMAIN pc' = Slots /\ ~Holds(s)'
      /\ \A t \in Slots \ {s} : pc'[t] = pc[t]
  BY DEF CommitDelivery, Abandon, Goto, HandInv, LocalsOK, Holds
<1> HIDE DEF frame, state
<1>5. states'[frame] = state /\ \A j \in Ordinals \ {frame} : states'[j] = states[j]
  BY <1>1, <1>2 DEF SchedulerTypeOK
<1>6. \A t \in Slots : Holds(t)' => /\ t # s /\ Holds(t) /\ pc'[t] = pc[t]
                                    /\ work'[t] = work[t] /\ work[t].frame # frame
  BY <1>1, <1>3, <1>4 DEF Holds
<1>7. HeldOnce'
  <2>1. \A t \in Slots : Holds(t)' => /\ work'[t].frame \in Ordinals
                                      /\ states'[work'[t].frame] = "reserved"
    BY <1>5, <1>6 DEF HandInv, HeldOnce
  <2>2. \A t, u \in Slots : Holds(t)' /\ Holds(u)' /\ work'[t].frame = work'[u].frame => t = u
    BY <1>6 DEF HandInv, HeldOnce
  <2>3. QED
    BY <2>1, <2>2 DEF HeldOnce, Holds
<1>8. HandedExactly'
  <2> SUFFICES ASSUME NEW i \in Ordinals
               PROVE  /\ states'[i] = "delivered" \/ InCommit(i)' => handed[i] = 1
                      /\ states'[i] # "delivered" /\ ~InCommit(i)' => handed[i] = 0
    BY <1>2 DEF HandedExactly, InCommit
  <2>1. CASE i = frame
    <3>1. ~InCommit(i)'
      BY <1>6, <2>1 DEF InCommit, Holds
    <3>2. states[i] = "reserved"
      BY <1>1, <2>1 DEF HandInv, HeldOnce, frame
    <3>3. InCommit(i) <=> pc[s] = "commit"
      BY <1>1, <2>1 DEF InCommit, Holds, frame
    <3>4. QED
      BY <1>1, <1>2, <1>5, <2>1, <3>1, <3>2, <3>3 DEF HandInv, HandedExactly
  <2>2. CASE i # frame
    <3>1. InCommit(i)' <=> InCommit(i)
      <4>1. \A t \in Slots : pc'[t] = "commit" /\ work'[t].frame = i
                               <=> pc[t] = "commit" /\ work[t].frame = i
        BY <1>3, <1>4, <2>2 DEF Holds, frame
      <4>2. QED
        BY <4>1 DEF InCommit
    <3>2. QED
      BY <1>5, <2>2, <3>1 DEF HandInv, HandedExactly
  <2>3. QED
    BY <2>1, <2>2
<1>9. LocalsOK'
  BY <1>2, <1>3, <1>4 DEF HandInv, LocalsOK
<1>10. QED
  BY <1>7, <1>8, <1>9 DEF HandInv

\* The other steps of a session hold no frame, before or after.
LEMMA SessionKeepsHand ==
    ASSUME SchedulerTypeOK, HandInv, NEW s \in Slots, Session(s)
    PROVE  HandInv'
<1>0. LocalsOK
  BY DEF HandInv
<1>1. ASSUME NEW error, NEW t \in Slots, Throw(t, error, "catch"), ~Holds(t),
             UNCHANGED <<states, handed>>
      PROVE  HandInv'
  BY <1>0, <1>1, ThrowFacts, MoveKeepsHand
<1>2. ASSUME NEW state, state \notin {"deliver", "commit", "abandon"}, Goto(s, state),
             ~Holds(s), UNCHANGED <<states, handed>>,
             \/ UNCHANGED work
             \/ \E new : "frame" \in DOMAIN new /\ work' = [work EXCEPT ![s] = new]
      PROVE  HandInv'
  <2>1. /\ DOMAIN work' = Slots /\ "frame" \in DOMAIN work'[s]
        /\ \A t \in Slots \ {s} : work'[t] = work[t]
    BY <1>0, <1>2 DEF LocalsOK
  <2>2. QED
    BY <1>2, <2>1, MoveKeepsHand
<1>3. CASE Open(s)
  <2>1. ~Holds(s) /\ UNCHANGED <<states, handed>>
    BY <1>3 DEF Open, Holds, scheduler
  <2>2. CASE /\ \E sparse \in BOOLEAN :
                   work' = [work EXCEPT ![s] = [NoWork EXCEPT !.sparse = sparse,
                                                              !.begin = assignment[s].begin]]
             /\ Goto(s, "decode")
    <3>1. PICK new : "frame" \in DOMAIN new /\ work' = [work EXCEPT ![s] = new]
      BY <2>2 DEF NoWork
    <3>2. QED
      BY <1>2, <2>1, <2>2, <3>1
  <2>3. CASE Throw(s, "initialization", "catch")
    BY <1>1, <2>1, <2>3
  <2>4. QED
    BY <1>3, <2>2, <2>3 DEF Open
<1>4. CASE Output(s)
  BY <1>4, OutputKeepsHand
<1>5. CASE Deliver(s)
  BY <1>5, DeliverKeepsHand
<1>6. CASE CommitDelivery(s) \/ Abandon(s)
  BY <1>6, GiveUpKeepsHand
<1>7. CASE Check(s) \/ Leave(s)
  <2>1. ~Holds(s) /\ UNCHANGED <<states, handed>>
    BY <1>7 DEF Check, Leave, Holds, scheduler, job
  <2>2. "frame" \in DOMAIN NoWork
    BY DEF NoWork
  <2>3. QED
    BY <1>2, <1>7, <2>1, <2>2 DEF Check, Leave
<1>8. CASE EndRun(s)
  <2>1. pc[s] = "decode" /\ ~Holds(s) /\ UNCHANGED <<states, handed>>
    BY <1>8 DEF EndRun, Holds, scheduler, job
  <2>2. CASE Goto(s, "complete") /\ work' = [work EXCEPT ![s] = NoWork]
    <3>1. "frame" \in DOMAIN NoWork
      BY DEF NoWork
    <3>2. QED
      BY <1>2, <2>1, <2>2, <3>1
  <2>3. CASE /\ work' = [work EXCEPT ![s] = [NoWork EXCEPT !.sparse = TRUE,
                                                           !.begin = RunEnd(s)]]
             /\ UNCHANGED pc
    <3>1. LocalsOK' /\ ~Holds(s)' /\ \A t \in Slots \ {s} : work'[t] = work[t]
      BY <1>0, <2>1, <2>3 DEF LocalsOK, Holds, NoWork
    <3>2. QED
      BY <2>1, <2>3, <3>1, QuietKeepsHand
  <2>4. QED
    BY <1>8, <2>2, <2>3 DEF EndRun
<1>9. CASE EndAttempt(s)
  <2>1. pc[s] = "decode" /\ ~Holds(s) /\ UNCHANGED <<states, handed>>
    BY <1>9 DEF EndAttempt, Holds, scheduler
  <2>2. CASE /\ work' = [work EXCEPT ![s].attempt = @ + 1, ![s].shown = {}]
             /\ UNCHANGED pc
    <3>1. LocalsOK' /\ ~Holds(s)' /\ \A t \in Slots \ {s} : work'[t] = work[t]
      BY <1>0, <2>1, <2>2 DEF LocalsOK, Holds
    <3>2. QED
      BY <2>1, <2>2, <3>1, QuietKeepsHand
  <2>3. CASE Throw(s, "ended", "catch")
    BY <1>1, <2>1, <2>3
  <2>4. QED
    BY <1>9, <2>2, <2>3 DEF EndAttempt
<1>10. CASE Fail(s)
  <2>1. ~Holds(s) /\ UNCHANGED <<states, handed>>
    BY <1>10 DEF Fail, Holds, scheduler
  <2>2. QED
    BY <1>1, <1>10, <2>1 DEF Fail
<1>11. CASE CompleteLease(s)
  <2>1. ~Holds(s) /\ UNCHANGED <<states, handed>>
    BY <1>11 DEF CompleteLease, Complete, Holds, scheduler
  <2>2. QED
    BY <1>1, <1>2, <1>11, <2>1 DEF CompleteLease
<1>12. CASE Catch(s)
  <2>1. ~Holds(s) /\ UNCHANGED <<states, handed>>
    BY <1>12 DEF Catch, Release, Holds, scheduler
  <2>2. "frame" \in DOMAIN NoWork
    BY DEF NoWork
  <2>3. QED
    BY <1>2, <1>12, <2>1, <2>2 DEF Catch
<1>13. QED
  BY <1>3, <1>4, <1>5, <1>6, <1>7, <1>8, <1>9, <1>10, <1>11, <1>12 DEF Session

\* The controller and the stop request touch no frame.
LEMMA OthersKeepHand ==
    ASSUME HandInv, Controller \/ ClaimNext \/ Split \/ RequestStop \/ StopCallback
    PROVE  HandInv'
<1>0. LocalsOK
  BY DEF HandInv
<1>1. ASSUME NEW s \in Slots, NEW state, ~Holds(s), Goto(s, state),
             state \notin {"deliver", "commit", "abandon"},
             UNCHANGED <<states, handed, work>>
      PROVE  HandInv'
  <2>1. DOMAIN work' = Slots /\ "frame" \in DOMAIN work'[s]
    BY <1>0, <1>1 DEF LocalsOK
  <2>2. QED
    BY <1>1, <2>1, MoveKeepsHand
<1>2. ASSUME UNCHANGED <<states, handed, work, pc>>
      PROVE  HandInv'
  BY <1>0, <1>2, QuietKeepsHand DEF LocalsOK, Holds
<1>3. CASE \E s \in Slots : ClaimFor(s)
  <2>1. PICK s \in Slots : ClaimFor(s)
    BY <1>3
  <2>2. ~Holds(s) /\ Goto(s, "launch") /\ UNCHANGED <<states, handed, work>>
    BY <2>1 DEF ClaimFor, Claim, Holds, job
  <2>3. QED
    BY <1>1, <2>2
<1>4. CASE Launch
  <2>1. PICK s \in Slots : /\ pc[s] = "launch"
                           /\ Goto(s, "open") \/ Goto(s, "none")
                           /\ UNCHANGED states
    BY <1>4 DEF Launch, Release, scheduler
  <2>2. ~Holds(s) /\ UNCHANGED <<handed, work>>
    BY <1>4, <2>1 DEF Launch, Holds
  <2>3. QED
    BY <1>1, <2>1, <2>2
<1>5. CASE Join
  <2>1. PICK s \in Slots : pc[s] = "done" /\ Goto(s, "none")
    BY <1>5 DEF Join
  <2>2. ~Holds(s) /\ UNCHANGED <<states, handed, work>>
    BY <1>5, <2>1 DEF Join, Holds, scheduler, job
  <2>3. QED
    BY <1>1, <2>1, <2>2
<1>6. CASE LeaveLoop \/ Return \/ Split \/ RequestStop \/ StopCallback
  BY <1>2, <1>6 DEF LeaveLoop, Return, Split, SplitTail, RequestStop, StopCallback, Cancel,
                    scheduler, session, job
<1>7. QED
  BY <1>3, <1>4, <1>5, <1>6, SlotsHaveFirst DEF Controller, Begin, ClaimNext

\* One step of the decode keeps the invariant and is a step of the scheduler.
LEMMA DecodeNext == DecodeInv /\ [Next]_vars => DecodeInv' /\ [SchedulerNext]_scheduler
<1> SUFFICES ASSUME DecodeInv, [Next]_vars
             PROVE  DecodeInv' /\ [SchedulerNext]_scheduler
  OBVIOUS
<1>1. SchedulerTypeOK /\ HandInv /\ SchedulerInv
  BY DEF DecodeInv, SchedulerInv
<1>2. [SchedulerNext]_scheduler
  BY <1>1, SchedulerStep DEF vars
<1>3. SchedulerInv'
  BY <1>1, <1>2, NextInv
<1>4. HandInv'
  <2>1. CASE \E s \in Slots : Session(s)
    BY <1>1, <2>1, SessionKeepsHand
  <2>2. CASE Controller \/ ClaimNext \/ Split \/ RequestStop \/ StopCallback
    BY <1>1, <2>2, OthersKeepHand
  <2>3. CASE UNCHANGED vars
    <3>1. UNCHANGED <<states, handed, pc, work>>
      BY <2>3 DEF vars, scheduler, session, job
    <3>2. QED
      BY <1>1, <3>1, QuietKeepsHand DEF HandInv, LocalsOK, Holds
  <2>4. QED
    BY <2>1, <2>2, <2>3 DEF Next
<1>5. QED
  BY <1>2, <1>3, <1>4 DEF DecodeInv

\* So the invariant holds throughout.
LEMMA DecodeInvHolds == Spec => []DecodeInv
<1>1. Init => DecodeInv
  BY InitHand, InitInv DEF DecodeInv, Init
<1>2. QED
  BY <1>1, DecodeNext, PTL DEF Spec

-----------------------------------------------------------------------------
\* media_decode.cpp uses decode_ranges.hpp as its methods allow: whatever holds of
\* every client of the scheduler holds of the decode.
THEOREM ImplementsScheduler == Spec => SchedulerSpec
<1>1. Init => SchedulerInit
  BY DEF Init
<1>2. QED
  BY <1>1, DecodeNext, DecodeInvHolds, PTL DEF Spec, SchedulerSpec

\* decode_slice: no frame reaches the consumer twice, however many sessions, attempts,
\* splits, releases, failures and stop requests there are.
THEOREM HandedOnceHolds == Spec => []HandedOnce
<1>1. DecodeInv => HandedOnce
  BY DEF DecodeInv, HandInv, HandedExactly, HandedOnce
<1>2. QED
  BY <1>1, DecodeInvHolds, PTL

-----------------------------------------------------------------------------
(* The leases of the sessions.                                             *)

Reasons == {"none", "allocation", "initialization", "cancelled", "other", "ended",
            "incomplete", "launch"}

Locals == [sparse : BOOLEAN, begin : 0 .. SelectedCount, attempt : 0 .. MaxAttempts - 1,
           shown : SUBSET Ordinals, flags : SUBSET Ordinals, frame : Ordinals \cup {NoFrame},
           error : Reasons]

JobTypes ==
    /\ controller \in {"begin", "launch", "loop", "join", "over"}
    /\ pc \in [Slots -> {"none", "launch", "open", "decode", "deliver", "commit", "abandon",
                         "check", "stopped", "complete", "catch", "done"}]
    /\ assignment \in [Slots -> [lease : Nat, begin : 0 .. SelectedCount,
                                 end : 0 .. SelectedCount]]
    /\ work \in [Slots -> Locals]
    /\ stop \in BOOLEAN /\ failure \in Reasons
    /\ shortages \in 0 .. MaxShortages
    /\ outcome \in {"none", "ok", "failed"}

\* From its claim until it completes or releases it, or fails, a session owns its lease.
Owns(s) == pc[s] \notin {"none", "done"}

\* A session decoding a run has delivered what lies before it and what it flagged; one that
\* believes its lease complete is right; one that throws has something to throw.
SessionOK(s) ==
    /\ Owns(s) => /\ Lease(s) \in Leases
                  /\ active[Lease(s)].begin = assignment[s].begin
                  /\ active[Lease(s)].end <= assignment[s].end
    /\ Holds(s) => Within(work[s].frame, active[Lease(s)])
    /\ pc[s] \in {"decode", "deliver", "commit", "check"} =>
          /\ \A i \in Span(active[Lease(s)]) : i < work[s].begin => states[i] = "delivered"
          /\ \A i \in work[s].flags : states[i] = "delivered"
    /\ pc[s] = "complete" => Completable(Lease(s))
    /\ pc[s] \in {"abandon", "catch"} => work[s].error # "none"

OwnedOnce == \A s, t \in Slots : Owns(s) /\ Owns(t) /\ Lease(s) = Lease(t) => s = t

\* A reserved frame is held by a session.
ReservedHeld == \A i \in Ordinals :
                   states[i] = "reserved" => \E s \in Slots : Holds(s) /\ work[s].frame = i

\* While nothing has failed, every lease has its session.
LeaseOwned == failure = "none" => \A l \in Leases : \E s \in Slots : Owns(s) /\ Lease(s) = l

\* How the call comes to its end.
Ending ==
    /\ cancelled => stop
    /\ controller \in {"join", "over"} /\ failure = "none" /\ ~stop =>
          pending = <<>> /\ \A s \in Slots : ~Owns(s)
    /\ controller = "over" => \A s \in Slots : ~Owns(s)
    /\ outcome # "none" <=> controller = "over"
    /\ outcome = "ok" => failure = "none"

LeaseInv == /\ JobTypes
            /\ \A s \in Slots : SessionOK(s)
            /\ OwnedOnce /\ ReservedHeld /\ LeaseOwned /\ Ending

\* A non-empty set of natural numbers has a least element.
LEMMA LeastNat ==
    ASSUME NEW S, S \subseteq Nat, S # {}
    PROVE  \E x \in S : \A y \in S : x <= y
<1>1. PICK x \in S : \A y \in S : ~ (<<y, x>> \in OpToRel(<, Nat))
  BY NatLessThanWellFounded, WFMin
<1>2. \A y \in S : ~(y < x)
  BY <1>1 DEF OpToRel
<1> QED
  BY <1>2

\* A run ends within the interval the session was launched with.
LEMMA RunEndFacts ==
    ASSUME JobTypes, NEW s \in Slots
    PROVE  RunEnd(s) \in 0 .. SelectedCount /\ RunEnd(s) <= assignment[s].end
<1> DEFINE later == {a \in Anchors : work[s].sparse /\ work[s].begin < a /\ a < assignment[s].end}
<1>1. assignment[s].end \in 0 .. SelectedCount /\ SelectedCount \in Nat
  BY CutsInterior DEF JobTypes
<1>2. later \subseteq Nat /\ \A a \in later : a < assignment[s].end
  <2>1. Anchors \subseteq Nat
    BY CutsAreAnchors, CutsInterior DEF Ordinals
  <2>2. work[s].sparse \in BOOLEAN
    BY DEF JobTypes, Locals
  <2> QED
    BY <2>1, <2>2
<1>3. CASE later = {}
  BY <1>1, <1>3 DEF RunEnd
<1>4. CASE later # {}
  <2>1. \E a \in later : \A b \in later : a <= b
    BY <1>2, <1>4, LeastNat
  <2>2. RunEnd(s) \in later
    <3>1. RunEnd(s) = CHOOSE a \in later : \A b \in later : a <= b
      BY <1>4 DEF RunEnd
    <3> HIDE DEF later
    <3> QED
      BY <2>1, <3>1
  <2> HIDE DEF later
  <2>3. RunEnd(s) \in Nat /\ RunEnd(s) < assignment[s].end
    BY <1>2, <2>2
  <2> QED
    BY <1>1, <2>3
<1> QED
  BY <1>3, <1>4

\* So its targets are ordinals.
LEMMA TargetsFacts ==
    ASSUME JobTypes, NEW s \in Slots
    PROVE  Targets(s) \subseteq Ordinals
<1>1. work[s].begin \in Nat
  BY DEF JobTypes, Locals
<1> QED
  BY <1>1, RunEndFacts, CutsInterior DEF Targets, Ordinals

\* What the locals of a session are, field by field.
LEMMA LocalsFacts ==
    ASSUME JobTypes, NEW s \in Slots
    PROVE  /\ work[s] \in Locals
           /\ work[s].begin \in 0 .. SelectedCount /\ work[s].attempt \in 0 .. MaxAttempts - 1
           /\ work[s].shown \subseteq Ordinals /\ work[s].flags \subseteq Ordinals
           /\ work[s].frame \in Ordinals \cup {NoFrame} /\ work[s].error \in Reasons
           /\ assignment[s].lease \in Nat /\ assignment[s].begin \in 0 .. SelectedCount
           /\ assignment[s].end \in 0 .. SelectedCount
  BY DEF JobTypes, Locals

\* The locals of an idle session are locals.
LEMMA NoWorkTyped == NoWork \in Locals
<1>1. 0 \in 0 .. SelectedCount /\ 0 \in 0 .. MaxAttempts - 1
  BY DecodeBounds, CutsInterior
<1>2. {} \in SUBSET Ordinals /\ NoFrame \in Ordinals \cup {NoFrame}
  OBVIOUS
<1>3. "none" \in Reasons /\ FALSE \in BOOLEAN
  BY DEF Reasons
<1> DEFINE Fs == 0 .. SelectedCount
           As == 0 .. MaxAttempts - 1
           Os == Ordinals \cup {NoFrame}
           Ss == SUBSET Ordinals
           Rs == Reasons
<1> HIDE DEF Fs, As, Os, Ss, Rs
<1>4. [sparse |-> FALSE, begin |-> 0, attempt |-> 0, shown |-> {}, flags |-> {},
       frame |-> NoFrame, error |-> "none"]
        \in [sparse : BOOLEAN, begin : Fs, attempt : As, shown : Ss, flags : Ss, frame : Os,
             error : Rs]
  BY <1>1, <1>2, <1>3 DEF Fs, As, Os, Ss, Rs
<1> QED
  BY <1>4 DEF NoWork, Locals, Fs, As, Os, Ss, Rs

-----------------------------------------------------------------------------
\* Frames that are delivered stay delivered.
Keeps == \A i \in Ordinals : states[i] = "delivered" => states'[i] = "delivered"

\* A session that does not move keeps what it knows, if its lease is only shortened.
LEMMA SessionStays ==
    ASSUME SchedulerTypeOK, NEW t \in Slots, SessionOK(t), Keeps, JobTypes,
           pc'[t] = pc[t], work'[t] = work[t], assignment'[t] = assignment[t],
           Owns(t) => /\ Lease(t) \in Leases'
                      /\ active'[Lease(t)].begin = active[Lease(t)].begin
                      /\ active'[Lease(t)].end <= active[Lease(t)].end
                      /\ active'[Lease(t)] \in Ranges,
           Holds(t) => Within(work[t].frame, active'[Lease(t)])
    PROVE  SessionOK(t)'
<1>1. CASE ~Owns(t)
  BY <1>1 DEF SessionOK, Owns, Holds
<1>2. CASE Owns(t)
  <2>1. Lease(t) \in Leases /\ active[Lease(t)] \in Ranges /\ Lease(t)' = Lease(t)
    BY <1>2 DEF SessionOK, SchedulerTypeOK, Lease
  <2>2. \A i \in Ordinals : Within(i, active'[Lease(t)]) => Within(i, active[Lease(t)])
    BY <1>2, <2>1, CutsInterior DEF Within, Ranges, Ordinals
  <2>3. /\ Lease(t)' \in Leases'
        /\ active'[Lease(t)'].begin = assignment'[t].begin
        /\ active'[Lease(t)'].end <= assignment'[t].end
    BY <1>2, <2>1, LocalsFacts DEF SessionOK, Ranges
  <2>4. pc'[t] \in {"decode", "deliver", "commit", "check"} =>
          /\ \A i \in Span(active'[Lease(t)']) : i < work'[t].begin => states'[i] = "delivered"
          /\ \A i \in work'[t].flags : states'[i] = "delivered"
    BY <2>1, <2>2, LocalsFacts DEF SessionOK, Span, Keeps
  <2>5. pc'[t] = "complete" => Completable(Lease(t))'
    BY <1>2, <2>1, <2>2 DEF SessionOK, Completable, Span, Keeps
  <2>6. Holds(t)' => Within(work'[t].frame, active'[Lease(t)'])
    BY <2>1 DEF Holds
  <2>7. pc'[t] \in {"abandon", "catch"} => work'[t].error # "none"
    BY DEF SessionOK
  <2>8. Lease(t)' = assignment'[t].lease
    BY DEF Lease
  <2> QED
    BY <2>3, <2>4, <2>5, <2>6, <2>7 DEF SessionOK, Span, Lease
<1> QED
  BY <1>1, <1>2

\* If the scheduler rests, every session that rests keeps what it knows.
LEMMA SessionsRest ==
    ASSUME SchedulerTypeOK, JobTypes, \A t \in Slots : SessionOK(t), UNCHANGED scheduler,
           NEW t \in Slots, pc'[t] = pc[t], work'[t] = work[t], assignment'[t] = assignment[t]
    PROVE  SessionOK(t)'
<1>1. UNCHANGED <<states, active>> /\ Leases' = Leases
  BY DEF scheduler, Leases
<1>2. Keeps
  BY <1>1 DEF Keeps
<1>3. SessionOK(t)
  OBVIOUS
<1>4. Owns(t) => /\ Lease(t) \in Leases'
                 /\ active'[Lease(t)].begin = active[Lease(t)].begin
                 /\ active'[Lease(t)].end <= active[Lease(t)].end
                 /\ active'[Lease(t)] \in Ranges
  <2> SUFFICES ASSUME Owns(t) PROVE active[Lease(t)] \in Ranges /\ Lease(t) \in Leases
    BY <1>1 DEF Ranges
  <2> QED
    BY <1>3 DEF SessionOK, SchedulerTypeOK
<1>5. Holds(t) => Within(work[t].frame, active'[Lease(t)])
  BY <1>1, <1>3 DEF SessionOK
<1> QED
  BY <1>2, <1>3, <1>4, <1>5, SessionStays

-----------------------------------------------------------------------------
\* A session moves, beside the others.
Moves(s) == /\ JobTypes'
            /\ \A t \in Slots \ {s} : pc'[t] = pc[t] /\ work'[t] = work[t]
            /\ assignment' = assignment

\* What moving one session does to the places and locals of all.
LEMMA MoveFacts ==
    ASSUME JobTypes, NEW s \in Slots, NEW new \in Locals,
           NEW state \in {"none", "launch", "open", "decode", "deliver", "commit", "abandon",
                          "check", "stopped", "complete", "catch", "done"},
           Goto(s, state), work' = [work EXCEPT ![s] = new],
           shortages' \in 0 .. MaxShortages, failure' \in Reasons, stop' \in BOOLEAN,
           controller' \in {"begin", "launch", "loop", "join", "over"},
           UNCHANGED <<assignment, outcome>>
    PROVE  Moves(s) /\ pc'[s] = state /\ work'[s] = new
<1>1. pc'[s] = state /\ \A t \in Slots \ {s} : pc'[t] = pc[t]
  BY DEF Goto, JobTypes
<1>2. work'[s] = new /\ \A t \in Slots \ {s} : work'[t] = work[t]
  BY DEF JobTypes
<1>3. pc' \in [Slots -> {"none", "launch", "open", "decode", "deliver", "commit", "abandon",
                         "check", "stopped", "complete", "catch", "done"}]
  BY DEF Goto, JobTypes
<1>4. work' \in [Slots -> Locals]
  BY DEF JobTypes
<1> QED
  BY <1>1, <1>2, <1>3, <1>4 DEF Moves, JobTypes

\* The end of the call is not a session's business.
LEMMA SessionEnding ==
    ASSUME Ending, NEW s \in Slots, Owns(s),
           UNCHANGED <<controller, stop, outcome, cancelled>>,
           failure # "none" => failure' # "none"
    PROVE  Ending'
  BY DEF Ending

\* A session moves and the scheduler rests.
LEMMA LocalStep ==
    ASSUME SchedulerTypeOK, LeaseInv, NEW s \in Slots, Owns(s), Owns(s)', Moves(s),
           UNCHANGED <<scheduler, controller, stop, failure, outcome>>, SessionOK(s)',
           Holds(s)' <=> Holds(s), Holds(s) => work'[s].frame = work[s].frame
    PROVE  LeaseInv'
<1>1. /\ UNCHANGED <<states, active, cancelled>> /\ Leases' = Leases
      /\ \A t \in Slots : Lease(t)' = Lease(t)
  BY DEF scheduler, Leases, Moves, Lease
<1>2. ASSUME NEW t \in Slots PROVE SessionOK(t)'
  BY SessionsRest DEF LeaseInv, Moves
<1>3. \A t \in Slots : /\ Owns(t)' <=> Owns(t)
                       /\ Holds(t)' <=> Holds(t)
                       /\ Holds(t) => work'[t].frame = work[t].frame
  BY DEF Moves, Owns, Holds
<1>4. OwnedOnce'
  BY <1>1, <1>3 DEF LeaseInv, OwnedOnce
<1>5. ReservedHeld'
  BY <1>1, <1>3 DEF LeaseInv, ReservedHeld
<1>6. LeaseOwned'
  BY <1>1, <1>3 DEF LeaseInv, LeaseOwned
<1>7. Ending'
  BY <1>1, SessionEnding DEF LeaseInv
<1> QED
  BY <1>2, <1>4, <1>5, <1>6, <1>7 DEF LeaseInv, Moves

\* A session throws, to the handler or to abandon its frame first.
LEMMA ThrowKeeps ==
    ASSUME SchedulerTypeOK, LeaseInv, NEW s \in Slots, Owns(s),
           NEW error \in Reasons \ {"none"}, NEW handler \in {"catch", "abandon"},
           Throw(s, error, handler), Holds(s) <=> handler = "abandon",
           UNCHANGED <<scheduler, controller, assignment, stop, failure, outcome>>
    PROVE  LeaseInv'
<1> DEFINE new == [NoWork EXCEPT !.error = error, !.frame = work[s].frame]
<1>0. JobTypes /\ SessionOK(s) /\ work[s].frame \in Ordinals \cup {NoFrame}
  BY LocalsFacts DEF LeaseInv
<1>1. new \in Locals /\ new.error = error /\ new.frame = work[s].frame
  BY <1>0, NoWorkTyped DEF Locals, NoWork
<1>2. shortages' \in 0 .. MaxShortages
  BY <1>0, DecodeBounds DEF Throw, JobTypes
<1>3. Goto(s, handler) /\ work' = [work EXCEPT ![s] = new]
  BY DEF Throw
<1> HIDE DEF new
<1>4. Moves(s) /\ pc'[s] = handler /\ work'[s] = new
  BY <1>0, <1>1, <1>2, <1>3, MoveFacts DEF JobTypes
<1>5. UNCHANGED active /\ Leases' = Leases /\ Lease(s)' = Lease(s)
  BY DEF scheduler, Leases, Lease
<1>6. SessionOK(s)'
  BY <1>0, <1>1, <1>4, <1>5 DEF SessionOK, Owns, Holds
<1>7. Owns(s)' /\ (Holds(s)' <=> Holds(s))
  BY <1>4 DEF Owns, Holds
<1> QED
  BY <1>1, <1>4, <1>6, <1>7, LocalStep

\* A session leaves its lease, which it gives back or which is nobody's after a failure.
LEMMA LeaveKeeps ==
    ASSUME SchedulerTypeOK, LeaseInv, NEW s \in Slots, Owns(s), ~Holds(s), ~Owns(s)', Moves(s),
           \/ UNCHANGED active /\ failure' # "none"
           \/ Erase(Lease(s)),
           UNCHANGED states, failure # "none" => failure' # "none", Ending'
    PROVE  LeaseInv'
<1>1. /\ \A t \in Slots : Lease(t)' = Lease(t)
      /\ \A t \in Slots \ {s} : (Owns(t)' <=> Owns(t)) /\ (Holds(t)' <=> Holds(t))
      /\ ~Holds(s)'
  BY DEF Lease, Moves, Owns, Holds
<1>2. /\ Leases \ {Lease(s)} \subseteq Leases'
      /\ \A l \in Leases \ {Lease(s)} : active'[l] = active[l]
      /\ Leases' \subseteq Leases
      /\ failure' = "none" => Lease(s) \notin Leases'
  BY DEF Erase, Leases
<1>3. ASSUME NEW t \in Slots PROVE SessionOK(t)'
  <2>1. CASE t = s
    BY <1>1, <2>1 DEF SessionOK, Owns
  <2>2. CASE t # s
    <3>1. SessionOK(t) /\ JobTypes
      BY DEF LeaseInv
    <3>2. Owns(t) => Lease(t) \in Leases \ {Lease(s)} /\ active[Lease(t)] \in Ranges
      BY <2>2, <3>1 DEF LeaseInv, OwnedOnce, SessionOK, SchedulerTypeOK
    <3>3. Owns(t) => /\ Lease(t) \in Leases'
                     /\ active'[Lease(t)].begin = active[Lease(t)].begin
                     /\ active'[Lease(t)].end <= active[Lease(t)].end
                     /\ active'[Lease(t)] \in Ranges
      BY <1>2, <3>2 DEF Ranges
    <3>4. Holds(t) => Within(work[t].frame, active'[Lease(t)])
      BY <1>2, <3>1, <3>2 DEF SessionOK, Holds, Owns
    <3>5. Keeps
      BY DEF Keeps
    <3> QED
      BY <2>2, <3>1, <3>3, <3>4, <3>5, SessionStays DEF Moves
  <2> QED
    BY <2>1, <2>2
<1>4. OwnedOnce'
  BY <1>1 DEF LeaseInv, OwnedOnce
<1>5. ReservedHeld'
  <2> SUFFICES ASSUME NEW i \in Ordinals, states[i] = "reserved"
               PROVE  \E t \in Slots : Holds(t)' /\ work'[t].frame = i
    BY DEF ReservedHeld
  <2>1. PICK t \in Slots : Holds(t) /\ work[t].frame = i
    BY DEF LeaseInv, ReservedHeld
  <2> QED
    BY <1>1, <2>1 DEF Moves
<1>6. LeaseOwned'
  <2> SUFFICES ASSUME failure' = "none", NEW l \in Leases'
               PROVE  \E t \in Slots : Owns(t)' /\ Lease(t)' = l
    BY DEF LeaseOwned
  <2>1. l \in Leases /\ l # Lease(s)
    BY <1>2
  <2>2. PICK t \in Slots : Owns(t) /\ Lease(t) = l
    BY <2>1 DEF LeaseInv, LeaseOwned
  <2> QED
    BY <1>1, <2>1, <2>2
<1> QED
  BY <1>3, <1>4, <1>5, <1>6 DEF LeaseInv, Moves
\* A session moves, the scheduler at most changes what becomes of a frame.
LEMMA FrameStep ==
    ASSUME SchedulerTypeOK, LeaseInv, NEW s \in Slots, Owns(s), Owns(s)', Moves(s), Keeps,
           UNCHANGED <<active, failure>>, SessionOK(s)', ReservedHeld', Ending'
    PROVE  LeaseInv'
<1>1. Leases' = Leases /\ \A t \in Slots : Lease(t)' = Lease(t)
  BY DEF Leases, Moves, Lease
<1>2. ASSUME NEW t \in Slots PROVE SessionOK(t)'
  <2>1. CASE t = s
    BY <2>1
  <2>2. CASE t # s
    <3>1. SessionOK(t) /\ JobTypes
      BY DEF LeaseInv
    <3>2. Owns(t) => /\ Lease(t) \in Leases'
                     /\ active'[Lease(t)].begin = active[Lease(t)].begin
                     /\ active'[Lease(t)].end <= active[Lease(t)].end
                     /\ active'[Lease(t)] \in Ranges
      <4> SUFFICES ASSUME Owns(t) PROVE active[Lease(t)] \in Ranges /\ Lease(t) \in Leases
        BY <1>1 DEF Ranges
      <4> QED
        BY <3>1 DEF SessionOK, SchedulerTypeOK
    <3>3. Holds(t) => Within(work[t].frame, active'[Lease(t)])
      BY <3>1 DEF SessionOK
    <3> QED
      BY <2>2, <3>1, <3>2, <3>3, SessionStays DEF Moves
  <2> QED
    BY <2>1, <2>2
<1>3. \A t \in Slots : Owns(t)' <=> Owns(t)
  BY DEF Moves, Owns
<1>4. OwnedOnce'
  BY <1>1, <1>3 DEF LeaseInv, OwnedOnce
<1>5. LeaseOwned'
  BY <1>1, <1>3 DEF LeaseInv, LeaseOwned
<1> QED
  BY <1>2, <1>4, <1>5 DEF LeaseInv, Moves

\* What a session must know after a step of its own that leaves the leases alone.
LEMMA StepOK ==
    ASSUME LeaseInv, NEW s \in Slots, Owns(s), UNCHANGED <<active, assignment>>,
           Holds(s)' => Within(work'[s].frame, active[Lease(s)]),
           pc'[s] \in {"decode", "deliver", "commit", "check"} =>
              /\ \A i \in Span(active[Lease(s)]) : i < work'[s].begin => states'[i] = "delivered"
              /\ \A i \in work'[s].flags : states'[i] = "delivered",
           pc'[s] = "complete" =>
              \A i \in Span(active[Lease(s)]) : states'[i] = "delivered",
           pc'[s] \in {"abandon", "catch"} => work'[s].error # "none"
    PROVE  SessionOK(s)'
<1>1. Leases' = Leases /\ Lease(s)' = Lease(s) /\ SessionOK(s)
  BY DEF LeaseInv, Leases, Lease
<1> QED
  BY <1>1 DEF SessionOK, Completable, Span

\* decode_slice opens its decoder: the first run begins where the lease does.
LEMMA OpenKeeps ==
    ASSUME SchedulerTypeOK, LeaseInv, NEW s \in Slots, Open(s)
    PROVE  LeaseInv'
<1>0. /\ pc[s] = "open" /\ Owns(s) /\ ~Holds(s) /\ SessionOK(s) /\ JobTypes
      /\ UNCHANGED <<scheduler, controller, assignment, stop, failure, outcome>>
  BY DEF Open, Owns, Holds, LeaseInv
<1>1. CASE Throw(s, "initialization", "catch")
  <2>1. "initialization" \in Reasons \ {"none"} /\ "catch" \in {"catch", "abandon"}
    BY DEF Reasons
  <2> QED
    BY <1>0, <1>1, <2>1, ThrowKeeps
<1>2. ASSUME NEW sparse \in BOOLEAN,
             work' = [work EXCEPT ![s] = [NoWork EXCEPT !.sparse = sparse,
                                                        !.begin = assignment[s].begin]],
             Goto(s, "decode"), UNCHANGED shortages
      PROVE  LeaseInv'
  <2> DEFINE new == [NoWork EXCEPT !.sparse = sparse, !.begin = assignment[s].begin]
  <2>1. new \in Locals /\ new.begin = assignment[s].begin /\ new.flags = {}
    BY <1>0, NoWorkTyped, LocalsFacts DEF Locals, NoWork
  <2>2. work' = [work EXCEPT ![s] = new]
    BY <1>2
  <2> HIDE DEF new
  <2>3. Moves(s) /\ pc'[s] = "decode" /\ work'[s] = new
    BY <1>0, <1>2, <2>1, <2>2, MoveFacts DEF JobTypes
  <2>4. active[Lease(s)] \in Ranges /\ active[Lease(s)].begin = assignment[s].begin
    BY <1>0 DEF SessionOK, SchedulerTypeOK
  <2>5. \A i \in Span(active[Lease(s)]) : ~(i < new.begin)
    BY <2>1, <2>4, CutsInterior DEF Span, Within, Ranges, Ordinals
  <2>6. Owns(s)' /\ ~Holds(s)' /\ UNCHANGED active
    BY <1>0, <2>3 DEF Owns, Holds, scheduler
  <2>7. SessionOK(s)'
    BY <1>0, <2>1, <2>3, <2>5, <2>6, StepOK
  <2> QED
    BY <1>0, <2>3, <2>6, <2>7, LocalStep
<1> QED
  BY <1>1, <1>2 DEF Open

\* The scheduler's answer to an output: reserved, or the session looks whether it is done.
LEMMA OutputKeeps ==
    ASSUME SchedulerTypeOK, LeaseInv, NEW s \in Slots, Output(s)
    PROVE  LeaseInv'
<1>0. /\ pc[s] = "decode" /\ Owns(s) /\ ~Holds(s) /\ SessionOK(s) /\ JobTypes
      /\ UNCHANGED <<controller, assignment, job, stop, failure, outcome, shortages>>
  BY DEF Output, Owns, Holds, LeaseInv, job
<1>1. PICK i \in Targets(s) \ (work[s].shown \cup work[s].flags) :
         LET answer == Delivery(Lease(s), i) IN
          /\ work' = [work EXCEPT ![s].shown = @ \cup {i},
                                  ![s].frame = IF answer = "reserved" THEN i ELSE NoFrame]
          /\ Goto(s, CASE answer = "reserved" -> "deliver"
                       [] answer = "delivered" -> "decode"
                       [] answer = "unavailable" -> IF stop THEN "stopped" ELSE "check")
          /\ IF answer = "reserved" THEN Reserve(Lease(s), i) ELSE UNCHANGED scheduler
  BY DEF Output
<1>2. i \in Ordinals
  BY <1>0, <1>1, TargetsFacts
<1> DEFINE frame == IF Delivery(Lease(s), i) = "reserved" THEN i ELSE NoFrame
           new == [work[s] EXCEPT !.shown = @ \cup {i}, !.frame = frame]
<1>3. /\ new \in Locals /\ new.frame = frame
      /\ new.begin = work[s].begin /\ new.flags = work[s].flags
  BY <1>0, <1>2, LocalsFacts DEF Locals
<1>4. work' = [work EXCEPT ![s] = new]
  BY <1>0, <1>1 DEF JobTypes, Locals
<1> HIDE DEF new, frame
<1>5. \A j \in Span(active[Lease(s)]) : j < new.begin => states[j] = "delivered"
  BY <1>0, <1>3 DEF SessionOK
<1>6. new.flags \subseteq Ordinals /\ \A j \in new.flags : states[j] = "delivered"
  BY <1>0, <1>3, LocalsFacts DEF SessionOK
<1>7. CASE Delivery(Lease(s), i) = "reserved"
  <2>1. Reserve(Lease(s), i) /\ Goto(s, "deliver")
    BY <1>1, <1>7
  <2>2. Moves(s) /\ pc'[s] = "deliver" /\ work'[s] = new
    BY <1>0, <1>3, <1>4, <2>1, MoveFacts DEF JobTypes
  <2>3. /\ UNCHANGED <<active, pending, cancelled>>
        /\ states[i] = "pending" /\ Within(i, active[Lease(s)])
        /\ states' = [states EXCEPT ![i] = "reserved"]
    BY <2>1 DEF Reserve, Delivery
  <2>4. Keeps /\ \A j \in Ordinals \ {i} : states'[j] = states[j]
    BY <1>2, <2>3 DEF Keeps, SchedulerTypeOK
  <2>5. new.frame = i
    BY <1>3, <1>7 DEF frame
  <2>6. Owns(s)' /\ Holds(s)'
    BY <2>2 DEF Owns, Holds
  <2>7. SessionOK(s)'
    <3>1. \A j \in Span(active[Lease(s)]) : j < new.begin => states'[j] = "delivered"
      BY <1>5, <2>4 DEF Keeps, Span
    <3>2. \A j \in new.flags : states'[j] = "delivered"
      BY <1>6, <2>4 DEF Keeps
    <3> QED
      BY <1>0, <2>2, <2>3, <2>5, <3>1, <3>2, StepOK
  <2>8. ReservedHeld'
    <3> SUFFICES ASSUME NEW j \in Ordinals, states'[j] = "reserved"
                 PROVE  \E t \in Slots : Holds(t)' /\ work'[t].frame = j
      BY DEF ReservedHeld
    <3>1. CASE j = i
      BY <2>2, <2>5, <2>6, <3>1
    <3>2. CASE j # i
      <4>1. PICK t \in Slots : Holds(t) /\ work[t].frame = j
        BY <2>4, <3>2 DEF LeaseInv, ReservedHeld
      <4>2. t # s
        BY <1>0, <4>1
      <4>3. Holds(t)' /\ work'[t] = work[t]
        BY <2>2, <4>1, <4>2 DEF Moves, Holds
      <4> QED
        BY <4>1, <4>3
    <3> QED
      BY <3>1, <3>2
  <2>9. Ending'
    BY <1>0, <2>3, SessionEnding DEF LeaseInv
  <2> QED
    BY <1>0, <2>2, <2>3, <2>4, <2>6, <2>7, <2>8, <2>9, FrameStep
<1>8. CASE Delivery(Lease(s), i) # "reserved"
  <2>1. PICK state \in {"decode", "stopped", "check"} : Goto(s, state)
    <3>1. Delivery(Lease(s), i) \in {"delivered", "unavailable"}
      BY <1>8 DEF Delivery
    <3> QED
      BY <1>1, <3>1
  <2>2. UNCHANGED <<scheduler, active, states>>
    BY <1>1, <1>8 DEF scheduler
  <2>3. Moves(s) /\ pc'[s] = state /\ work'[s] = new
    BY <1>0, <1>3, <1>4, <2>1, MoveFacts DEF JobTypes
  <2>4. Owns(s)' /\ ~Holds(s)'
    BY <2>1, <2>3 DEF Owns, Holds
  <2>5. SessionOK(s)'
    BY <1>0, <1>5, <1>6, <2>1, <2>2, <2>3, <2>4, StepOK
  <2> QED
    BY <1>0, <2>2, <2>3, <2>4, <2>5, LocalStep
<1> QED
  BY <1>7, <1>8

\* The consumer takes the frame, or throws and the session abandons it.
LEMMA DeliverKeeps ==
    ASSUME SchedulerTypeOK, LeaseInv, NEW s \in Slots, Deliver(s)
    PROVE  LeaseInv'
<1>0. /\ pc[s] = "deliver" /\ Owns(s) /\ Holds(s) /\ SessionOK(s) /\ JobTypes
      /\ UNCHANGED <<scheduler, controller, assignment, stop, failure, outcome>>
  BY DEF Deliver, Owns, Holds, LeaseInv
<1>1. ASSUME NEW error \in Errors, Throw(s, error, "abandon")
      PROVE  LeaseInv'
  <2>1. error \in Reasons \ {"none"} /\ "abandon" \in {"catch", "abandon"}
    BY DEF Reasons, Errors
  <2> QED
    BY <1>0, <1>1, <2>1, ThrowKeeps
<1>2. CASE Goto(s, "commit") /\ UNCHANGED <<work, shortages>>
  <2>1. work[s] \in Locals /\ work' = [work EXCEPT ![s] = work[s]]
    BY <1>0, <1>2 DEF JobTypes
  <2>2. Moves(s) /\ pc'[s] = "commit" /\ work'[s] = work[s]
    BY <1>0, <1>2, <2>1, MoveFacts DEF JobTypes
  <2>3. Owns(s)' /\ Holds(s)' /\ UNCHANGED <<active, states>>
    BY <1>0, <2>2 DEF Owns, Holds, scheduler
  <2>4. SessionOK(s)'
    BY <1>0, <2>2, <2>3, StepOK DEF SessionOK
  <2> QED
    BY <1>0, <2>2, <2>3, <2>4, LocalStep
<1> QED
  BY <1>1, <1>2 DEF Deliver
\* A session gives its frame up: delivered after a commit, pending again else.
LEMMA GiveUpKeeps ==
    ASSUME SchedulerTypeOK, HandInv, LeaseInv, NEW s \in Slots,
           CommitDelivery(s) \/ Abandon(s)
    PROVE  LeaseInv'
<1> DEFINE f == work[s].frame
           commit == pc[s] = "commit"
           new == IF commit THEN [work[s] EXCEPT !.flags = @ \cup {f}, !.frame = NoFrame]
                            ELSE [work[s] EXCEPT !.frame = NoFrame]
           state == IF commit THEN "check" ELSE "catch"
           fate == IF commit THEN "delivered" ELSE "pending"
<1>0. /\ pc[s] \in {"commit", "abandon"} /\ Owns(s) /\ Holds(s) /\ SessionOK(s) /\ JobTypes
      /\ f \in Ordinals /\ states[f] = "reserved"
      /\ UNCHANGED <<controller, assignment, stop, failure, outcome, shortages>>
  BY DEF CommitDelivery, Abandon, Owns, Holds, LeaseInv, HandInv, HeldOnce, job
<1>1. /\ UNCHANGED <<active, cancelled>>
      /\ states' = [states EXCEPT ![f] = fate]
      /\ Goto(s, state)
  BY DEF CommitDelivery, Abandon, Commit, AbandonDelivery
<1>2. work' = [work EXCEPT ![s] = new]
  BY <1>0 DEF CommitDelivery, Abandon, JobTypes, Locals
<1>3. /\ new \in Locals /\ new.begin = work[s].begin /\ new.error = work[s].error
      /\ new.flags \subseteq work[s].flags \cup {f}
      /\ ~commit => new.flags = work[s].flags
  BY <1>0, LocalsFacts DEF Locals
<1>4. state \in {"check", "catch"} /\ (state = "check" <=> commit)
  OBVIOUS
<1>5. fate \in {"delivered", "pending"} /\ (fate = "delivered" <=> commit)
  OBVIOUS
<1> HIDE DEF new, state, fate
<1>6. Moves(s) /\ pc'[s] = state /\ work'[s] = new
  <2>1. state \in {"none", "launch", "open", "decode", "deliver", "commit", "abandon",
                   "check", "stopped", "complete", "catch", "done"}
    BY <1>4
  <2>2. /\ shortages' \in 0 .. MaxShortages /\ failure' \in Reasons /\ stop' \in BOOLEAN
        /\ controller' \in {"begin", "launch", "loop", "join", "over"}
        /\ UNCHANGED <<assignment, outcome>>
    BY <1>0 DEF CommitDelivery, Abandon, job, JobTypes
  <2> QED
    BY <1>0, <1>1, <1>2, <1>3, <2>1, <2>2, MoveFacts
<1>7. states'[f] = fate /\ \A j \in Ordinals \ {f} : states'[j] = states[j]
  BY <1>0, <1>1 DEF SchedulerTypeOK
<1>8. Keeps
  BY <1>0, <1>7 DEF Keeps
<1>9. Owns(s)' /\ ~Holds(s)'
  BY <1>4, <1>6 DEF Owns, Holds
<1>10. SessionOK(s)'
  <2>1. state = "check" =>
          /\ \A i \in Span(active[Lease(s)]) : i < work[s].begin => states[i] = "delivered"
          /\ \A i \in work[s].flags : i \in Ordinals /\ states[i] = "delivered"
    BY <1>0, <1>4, LocalsFacts DEF SessionOK
  <2>2. state = "check" =>
          /\ \A i \in Span(active[Lease(s)]) : i < new.begin => states'[i] = "delivered"
          /\ \A i \in new.flags : states'[i] = "delivered"
    BY <1>3, <1>4, <1>5, <1>7, <1>8, <2>1 DEF Keeps, Span
  <2>3. state = "catch" => new.error # "none"
    BY <1>0, <1>3, <1>4 DEF SessionOK
  <2> QED
    BY <1>0, <1>1, <1>4, <1>6, <1>9, <2>2, <2>3, StepOK
<1>11. ReservedHeld'
  <2> SUFFICES ASSUME NEW j \in Ordinals, states'[j] = "reserved"
               PROVE  \E t \in Slots : Holds(t)' /\ work'[t].frame = j
    BY DEF ReservedHeld
  <2>1. j # f /\ states[j] = "reserved"
    BY <1>5, <1>7
  <2>2. PICK t \in Slots : Holds(t) /\ work[t].frame = j
    BY <2>1 DEF LeaseInv, ReservedHeld
  <2>3. t # s
    BY <2>1, <2>2
  <2>4. Holds(t)' /\ work'[t] = work[t]
    BY <1>6, <2>2, <2>3 DEF Moves, Holds
  <2> QED
    BY <2>2, <2>4
<1>12. Ending'
  BY <1>0, <1>1, SessionEnding DEF LeaseInv
<1> QED
  BY <1>0, <1>1, <1>6, <1>8, <1>9, <1>10, <1>11, <1>12, FrameStep

\* finished(): the count of a lease reaches the length of its interval only when every
\* frame of it is delivered.
LEMMA FinishedCompletable ==
    ASSUME SchedulerTypeOK, CountsAgree, NEW lease, Finished(lease)
    PROVE  Completable(lease)
<1> DEFINE range == active[lease]
<1>1. lease \in Leases /\ range \in Ranges /\ range.begin < range.end
  BY DEF Finished, SchedulerTypeOK, Leases
<1>2. range.begin \in 0 .. SelectedCount /\ range.end \in 0 .. SelectedCount
  BY <1>1 DEF Ranges
<1>3. Cardinality(DeliveredIn(range)) = range.end - range.begin
  BY <1>1 DEF Finished, CountsAgree, Leases
<1> HIDE DEF range
<1>4. Span(range) = range.begin .. range.end - 1
  BY <1>2, CutsInterior DEF Span, Within, Ordinals
<1>5. Cardinality(Span(range)) = range.end - range.begin
  <2>1. /\ range.begin \in Int /\ range.end - 1 \in Int
        /\ ~(range.begin > range.end - 1)
        /\ range.end - 1 - range.begin + 1 = range.end - range.begin
    BY <1>1, <1>2
  <2>2. Cardinality(range.begin .. range.end - 1) = range.end - 1 - range.begin + 1
    BY <2>1, FS_Interval
  <2> QED
    BY <1>4, <2>1, <2>2
<1>6. DeliveredIn(range) = Span(range)
  BY <1>3, <1>5, SpanFinite, FS_Subset
<1> QED
  BY <1>1, <1>6 DEF DeliveredIn, Completable, range

\* A session that goes on decoding, or believes its lease complete, with new locals.
LEMMA AdvanceKeeps ==
    ASSUME SchedulerTypeOK, LeaseInv, NEW s \in Slots, Owns(s), ~Holds(s),
           UNCHANGED <<scheduler, controller, assignment, stop, failure, outcome, shortages>>,
           NEW new \in Locals, work' = [work EXCEPT ![s] = new],
           NEW state \in {"decode", "complete"}, Goto(s, state),
           \A i \in Span(active[Lease(s)]) :
              state = "complete" \/ i < new.begin => states[i] = "delivered",
           \A i \in new.flags : states[i] = "delivered"
    PROVE  LeaseInv'
<1>1. JobTypes /\ UNCHANGED <<active, states>>
  BY DEF LeaseInv, scheduler
<1>2. Moves(s) /\ pc'[s] = state /\ work'[s] = new
  BY <1>1, MoveFacts DEF JobTypes
<1>3. Owns(s)' /\ ~Holds(s)'
  BY <1>2 DEF Owns, Holds
<1>4. SessionOK(s)'
  BY <1>1, <1>2, <1>3, StepOK
<1> QED
  BY <1>2, <1>3, <1>4, LocalStep

\* assignment_finished ends the lease only when it is complete.
LEMMA CheckKeeps ==
    ASSUME SchedulerTypeOK, CountsAgree, LeaseInv, NEW s \in Slots, Check(s)
    PROVE  LeaseInv'
<1>0. /\ pc[s] = "check" /\ Owns(s) /\ ~Holds(s) /\ SessionOK(s) /\ JobTypes
      /\ UNCHANGED <<scheduler, controller, assignment, stop, failure, outcome, shortages>>
  BY DEF Check, Owns, Holds, LeaseInv, job
<1>1. CASE Finished(Lease(s)) /\ Goto(s, "complete") /\ work' = [work EXCEPT ![s] = NoWork]
  <2>1. Completable(Lease(s))
    BY <1>1, FinishedCompletable
  <2>2. NoWork.flags = {}
    BY DEF NoWork
  <2> QED
    BY <1>0, <1>1, <2>1, <2>2, NoWorkTyped, AdvanceKeeps DEF Completable
<1>2. CASE Goto(s, "decode") /\ UNCHANGED work
  <2>1. work[s] \in Locals /\ work' = [work EXCEPT ![s] = work[s]]
    BY <1>0, <1>2 DEF JobTypes
  <2>2. /\ \A i \in Span(active[Lease(s)]) : i < work[s].begin => states[i] = "delivered"
        /\ \A i \in work[s].flags : states[i] = "delivered"
    BY <1>0 DEF SessionOK
  <2> QED
    BY <1>0, <1>2, <2>1, <2>2, AdvanceKeeps
<1> QED
  BY <1>1, <1>2 DEF Check

\* A run whose targets are all flagged has delivered everything before the next one, and
\* after the last run everything of the lease.
LEMMA EndRunKeeps ==
    ASSUME SchedulerTypeOK, LeaseInv, NEW s \in Slots, EndRun(s)
    PROVE  LeaseInv'
<1>0. /\ pc[s] = "decode" /\ Owns(s) /\ ~Holds(s) /\ SessionOK(s) /\ JobTypes
      /\ UNCHANGED <<scheduler, controller, assignment, stop, failure, outcome, shortages>>
      /\ work[s].flags = Targets(s)
  BY DEF EndRun, Owns, Holds, LeaseInv, job
<1>1. RunEnd(s) \in 0 .. SelectedCount /\ work[s].begin \in 0 .. SelectedCount
  BY <1>0, RunEndFacts, LocalsFacts
<1>2. \A i \in Span(active[Lease(s)]) : i < RunEnd(s) => states[i] = "delivered"
  <2> SUFFICES ASSUME NEW i \in Span(active[Lease(s)]), i < RunEnd(s)
               PROVE  states[i] = "delivered"
    OBVIOUS
  <2>1. i \in Int
    BY CutsInterior DEF Span, Ordinals
  <2>2. CASE i < work[s].begin
    BY <1>0, <2>2 DEF SessionOK
  <2>3. CASE ~(i < work[s].begin)
    <3>1. i \in Targets(s)
      BY <1>1, <2>1, <2>3, CutsInterior DEF Targets
    <3> QED
      BY <1>0, <3>1 DEF SessionOK
  <2> QED
    BY <2>2, <2>3
<1>3. CASE /\ RunEnd(s) = assignment[s].end
           /\ Goto(s, "complete") /\ work' = [work EXCEPT ![s] = NoWork]
  <2>1. active[Lease(s)] \in Ranges /\ active[Lease(s)].end <= assignment[s].end
    BY <1>0 DEF SessionOK, SchedulerTypeOK
  <2>2. \A i \in Span(active[Lease(s)]) : i < RunEnd(s)
    BY <1>1, <1>3, <2>1, CutsInterior DEF Span, Within, Ranges, Ordinals
  <2>3. NoWork.flags = {}
    BY DEF NoWork
  <2> QED
    BY <1>0, <1>2, <1>3, <2>2, <2>3, NoWorkTyped, AdvanceKeeps
<1>4. CASE /\ work' = [work EXCEPT ![s] = [NoWork EXCEPT !.sparse = TRUE, !.begin = RunEnd(s)]]
           /\ UNCHANGED pc
  <2> DEFINE new == [NoWork EXCEPT !.sparse = TRUE, !.begin = RunEnd(s)]
  <2>1. new \in Locals /\ new.begin = RunEnd(s) /\ new.flags = {}
    BY <1>1, NoWorkTyped DEF Locals, NoWork
  <2>2. work' = [work EXCEPT ![s] = new] /\ Goto(s, "decode")
    BY <1>0, <1>4 DEF Goto, JobTypes
  <2> HIDE DEF new
  <2> QED
    BY <1>0, <1>2, <2>1, <2>2, AdvanceKeeps
<1> QED
  BY <1>3, <1>4 DEF EndRun

\* An attempt starts over with what it has flagged, or the session throws.
LEMMA EndAttemptKeeps ==
    ASSUME SchedulerTypeOK, LeaseInv, NEW s \in Slots, EndAttempt(s)
    PROVE  LeaseInv'
<1>0. /\ pc[s] = "decode" /\ Owns(s) /\ ~Holds(s) /\ SessionOK(s) /\ JobTypes
      /\ UNCHANGED <<scheduler, controller, assignment, stop, failure, outcome>>
  BY DEF EndAttempt, Owns, Holds, LeaseInv
<1>1. CASE /\ work[s].attempt + 1 < MaxAttempts
           /\ work' = [work EXCEPT ![s].attempt = @ + 1, ![s].shown = {}]
           /\ UNCHANGED <<pc, shortages>>
  <2> DEFINE new == [work[s] EXCEPT !.attempt = @ + 1, !.shown = {}]
  <2>1. /\ new \in Locals /\ new.begin = work[s].begin /\ new.flags = work[s].flags
    <3>1. work[s].attempt + 1 \in 0 .. MaxAttempts - 1
      BY <1>0, <1>1, LocalsFacts, DecodeBounds
    <3>2. {} \in SUBSET Ordinals /\ work[s] \in Locals
      BY <1>0, LocalsFacts
    <3> QED
      BY <3>1, <3>2 DEF Locals
  <2>2. work' = [work EXCEPT ![s] = new] /\ Goto(s, "decode")
    BY <1>0, <1>1 DEF Goto, JobTypes, Locals
  <2> HIDE DEF new
  <2>3. /\ \A i \in Span(active[Lease(s)]) : i < new.begin => states[i] = "delivered"
        /\ \A i \in new.flags : states[i] = "delivered"
    BY <1>0, <2>1 DEF SessionOK
  <2> QED
    BY <1>0, <1>1, <2>1, <2>2, <2>3, AdvanceKeeps
<1>2. CASE Throw(s, "ended", "catch")
  <2>1. "ended" \in Reasons \ {"none"} /\ "catch" \in {"catch", "abandon"}
    BY DEF Reasons
  <2> QED
    BY <1>0, <1>2, <2>1, ThrowKeeps
<1> QED
  BY <1>1, <1>2 DEF EndAttempt

\* The codec throws, or the session sees the stop request.
LEMMA FailKeeps ==
    ASSUME SchedulerTypeOK, LeaseInv, NEW s \in Slots, Fail(s)
    PROVE  LeaseInv'
<1>0. /\ Owns(s) /\ ~Holds(s)
      /\ UNCHANGED <<scheduler, controller, assignment, stop, failure, outcome>>
  BY DEF Fail, Owns, Holds
<1>1. PICK error \in Errors \cup {"cancelled"} : Throw(s, error, "catch")
  BY DEF Fail
<1>2. error \in Reasons \ {"none"} /\ "catch" \in {"catch", "abandon"}
  BY DEF Reasons, Errors
<1> QED
  BY <1>0, <1>1, <1>2, ThrowKeeps

\* A session leaves with its lease once another one failed.
LEMMA LeaveLeaseKeeps ==
    ASSUME SchedulerTypeOK, LeaseInv, NEW s \in Slots, Leave(s)
    PROVE  LeaseInv'
<1>0. /\ Owns(s) /\ ~Holds(s) /\ JobTypes /\ failure # "none"
      /\ UNCHANGED <<states, active, cancelled, controller, assignment, stop, failure, outcome,
                     shortages>>
  BY DEF Leave, Owns, Holds, LeaseInv, job, scheduler
<1>1. Moves(s) /\ pc'[s] = "done"
  BY <1>0, NoWorkTyped, MoveFacts DEF Leave, JobTypes
<1>2. ~Owns(s)'
  BY <1>1 DEF Owns
<1>3. Ending'
  BY <1>0, SessionEnding DEF LeaseInv
<1> QED
  BY <1>0, <1>1, <1>2, <1>3, LeaveKeeps

\* complete() erases the lease of the session that ends.
LEMMA CompleteLeaseKeeps ==
    ASSUME SchedulerTypeOK, LeaseInv, NEW s \in Slots, CompleteLease(s)
    PROVE  LeaseInv'
<1>0. /\ pc[s] = "complete" /\ Owns(s) /\ ~Holds(s) /\ SessionOK(s) /\ JobTypes
      /\ UNCHANGED <<controller, assignment, stop, failure, outcome>>
  BY DEF CompleteLease, Owns, Holds, LeaseInv
<1>1. /\ Complete(Lease(s)) /\ Goto(s, "done") /\ UNCHANGED <<work, shortages>>
  BY <1>0 DEF SessionOK, CompleteLease
<1>2. work[s] \in Locals /\ work' = [work EXCEPT ![s] = work[s]]
  BY <1>0, <1>1 DEF JobTypes
<1>3. Moves(s) /\ pc'[s] = "done"
  BY <1>0, <1>1, <1>2, MoveFacts DEF JobTypes
<1>4. ~Owns(s)' /\ UNCHANGED <<states, cancelled>> /\ Erase(Lease(s))
  BY <1>1, <1>3 DEF Owns, Complete
<1>5. Ending'
  BY <1>0, <1>4, SessionEnding DEF LeaseInv
<1> QED
  BY <1>0, <1>3, <1>4, <1>5, LeaveKeeps

\* The handler gives the lease back, or the decode fails.
LEMMA CatchKeeps ==
    ASSUME SchedulerTypeOK, LeaseInv, NEW s \in Slots, Catch(s)
    PROVE  LeaseInv'
<1>0. /\ pc[s] = "catch" /\ Owns(s) /\ ~Holds(s) /\ SessionOK(s) /\ JobTypes
      /\ Goto(s, "done") /\ work' = [work EXCEPT ![s] = NoWork]
      /\ UNCHANGED <<controller, assignment, stop, outcome, shortages>>
  BY DEF Catch, Owns, Holds, LeaseInv
<1>1. /\ UNCHANGED <<states, cancelled>>
      /\ \/ Erase(Lease(s)) /\ UNCHANGED failure
         \/ UNCHANGED active /\ failure' = IF failure = "none" THEN work[s].error ELSE failure
  BY DEF Catch, Release, scheduler
<1>2. work[s].error \in Reasons \ {"none"}
  BY <1>0, LocalsFacts DEF SessionOK
<1>3. /\ failure' \in Reasons /\ (failure # "none" => failure' # "none")
      /\ \/ UNCHANGED active /\ failure' # "none"
         \/ Erase(Lease(s))
  BY <1>0, <1>1, <1>2 DEF JobTypes
<1>4. Moves(s) /\ pc'[s] = "done"
  BY <1>0, <1>3, NoWorkTyped, MoveFacts DEF JobTypes
<1>5. ~Owns(s)'
  BY <1>4 DEF Owns
<1>6. Ending'
  BY <1>0, <1>1, <1>3, SessionEnding DEF LeaseInv
<1> QED
  BY <1>0, <1>1, <1>3, <1>4, <1>5, <1>6, LeaveKeeps

\* Every step of a session.
LEMMA SessionKeeps ==
    ASSUME SchedulerTypeOK, CountsAgree, HandInv, LeaseInv, NEW s \in Slots, Session(s)
    PROVE  LeaseInv'
  BY OpenKeeps, OutputKeeps, DeliverKeeps, GiveUpKeeps, CheckKeeps, EndRunKeeps,
     EndAttemptKeeps, FailKeeps, LeaveLeaseKeeps, CompleteLeaseKeeps, CatchKeeps DEF Session

-----------------------------------------------------------------------------
\* A claim gives a slot a lease nobody has.
LEMMA ClaimForKeeps ==
    ASSUME SchedulerTypeOK, LeaseInv, NEW s \in Slots, ClaimFor(s),
           controller \in {"begin", "loop"}
    PROVE  LeaseInv'
<1> DEFINE range == Head(pending)
           new == [lease |-> next_lease, begin |-> range.begin, end |-> range.end]
<1>0. /\ pc[s] = "none" /\ ~Owns(s) /\ ~Holds(s) /\ JobTypes
      /\ UNCHANGED <<work, stop, failure, shortages, outcome, states, cancelled>>
      /\ controller' = "launch"
  BY DEF ClaimFor, Claim, Owns, Holds, LeaseInv, job
<1>1. range \in Ranges /\ range.begin < range.end
  <2>1. pending \in Seq(Ranges) /\ pending # <<>>
    BY DEF ClaimFor, Claim, SchedulerTypeOK
  <2>2. range \in Ranges /\ range = pending[1] /\ 1 \in DOMAIN pending
    BY <2>1, TailFacts
  <2> QED
    BY <2>2 DEF SchedulerTypeOK
<1>2. /\ next_lease \in Nat \ {0} /\ next_lease \notin Leases
      /\ Leases' = Leases \cup {next_lease}
      /\ active'[next_lease] = range
      /\ \A l \in Leases : active'[l] = active[l]
  <2>1. next_lease \in Nat \ {0} /\ Leases \subseteq 1 .. next_lease - 1
    BY DEF SchedulerTypeOK
  <2>2. next_lease \notin Leases
    BY <2>1
  <2>3. active' = [lease \in Leases \cup {next_lease} |->
                      IF lease = next_lease THEN range ELSE active[lease]]
    BY DEF ClaimFor, Claim
  <2> HIDE DEF range
  <2> QED
    BY <2>1, <2>2, <2>3 DEF Leases
<1>3. new \in [lease : Nat, begin : 0 .. SelectedCount, end : 0 .. SelectedCount]
  BY <1>1, <1>2 DEF Ranges
<1>4. /\ pc' = [pc EXCEPT ![s] = "launch"]
      /\ assignment' = [assignment EXCEPT ![s] = new]
  BY DEF ClaimFor, Goto
<1>5. /\ new.lease = next_lease /\ new.begin = range.begin /\ new.end = range.end
  OBVIOUS
<1> HIDE DEF new, range
<1>6. /\ pc'[s] = "launch" /\ assignment'[s] = new
      /\ \A t \in Slots \ {s} : pc'[t] = pc[t] /\ assignment'[t] = assignment[t]
  BY <1>0, <1>4 DEF JobTypes
<1>7. JobTypes'
  <2>1. pc' \in [Slots -> {"none", "launch", "open", "decode", "deliver", "commit", "abandon",
                           "check", "stopped", "complete", "catch", "done"}]
    BY <1>0, <1>4 DEF JobTypes
  <2>2. assignment' \in [Slots -> [lease : Nat, begin : 0 .. SelectedCount,
                                   end : 0 .. SelectedCount]]
    BY <1>0, <1>3, <1>4 DEF JobTypes
  <2> QED
    BY <1>0, <2>1, <2>2 DEF JobTypes
<1>8. /\ Owns(s)' /\ ~Holds(s)' /\ Lease(s)' = next_lease
      /\ \A t \in Slots \ {s} : /\ Owns(t)' <=> Owns(t)
                                /\ Holds(t)' <=> Holds(t)
                                /\ Lease(t)' = Lease(t)
  BY <1>5, <1>6 DEF Owns, Holds, Lease
<1>9. ASSUME NEW t \in Slots PROVE SessionOK(t)'
  <2>1. CASE t = s
    <3>1. active'[Lease(s)'].begin = assignment'[s].begin
      BY <1>2, <1>5, <1>6, <1>8
    <3>2. range.end \in Int
      BY <1>1 DEF Ranges
    <3>3. active'[Lease(s)'].end <= assignment'[s].end
      BY <1>2, <1>5, <1>6, <1>8, <3>2
    <3>4. Lease(s)' \in Leases'
      BY <1>2, <1>8
    <3> QED
      BY <1>6, <1>8, <2>1, <3>1, <3>3, <3>4 DEF SessionOK
  <2>2. CASE t # s
    <3>1. SessionOK(t)
      BY DEF LeaseInv
    <3>2. Owns(t) => Lease(t) \in Leases /\ active[Lease(t)] \in Ranges
      BY <3>1 DEF SessionOK, SchedulerTypeOK
    <3>3. Owns(t) => /\ Lease(t) \in Leases'
                     /\ active'[Lease(t)].begin = active[Lease(t)].begin
                     /\ active'[Lease(t)].end <= active[Lease(t)].end
                     /\ active'[Lease(t)] \in Ranges
      BY <1>2, <3>2 DEF Ranges
    <3>4. Holds(t) => Within(work[t].frame, active'[Lease(t)])
      BY <1>2, <3>1, <3>2 DEF SessionOK, Holds, Owns
    <3>5. Keeps
      BY <1>0 DEF Keeps
    <3> QED
      BY <1>0, <1>6, <2>2, <3>1, <3>3, <3>4, <3>5, SessionStays
  <2> QED
    BY <2>1, <2>2
<1>10. OwnedOnce'
  <2> SUFFICES ASSUME NEW t \in Slots, NEW u \in Slots, Owns(t)', Owns(u)',
                      Lease(t)' = Lease(u)'
               PROVE  t = u
    BY DEF OwnedOnce
  <2>1. \A v \in Slots \ {s} : Owns(v)' => Lease(v)' \in Leases
    BY <1>8 DEF LeaseInv, SessionOK
  <2>2. CASE t = s \/ u = s
    BY <1>2, <1>8, <2>1, <2>2
  <2>3. CASE t # s /\ u # s
    BY <1>8, <2>3 DEF LeaseInv, OwnedOnce
  <2> QED
    BY <2>2, <2>3
<1>11. ReservedHeld'
  <2> SUFFICES ASSUME NEW i \in Ordinals, states[i] = "reserved"
               PROVE  \E t \in Slots : Holds(t)' /\ work'[t].frame = i
    BY <1>0 DEF ReservedHeld
  <2>1. PICK t \in Slots : Holds(t) /\ work[t].frame = i
    BY DEF LeaseInv, ReservedHeld
  <2> QED
    BY <1>0, <1>8, <2>1
<1>12. LeaseOwned'
  <2> SUFFICES ASSUME failure = "none", NEW l \in Leases'
               PROVE  \E t \in Slots : Owns(t)' /\ Lease(t)' = l
    BY <1>0 DEF LeaseOwned
  <2>1. CASE l = next_lease
    BY <1>8, <2>1
  <2>2. CASE l # next_lease
    <3>1. PICK t \in Slots : Owns(t) /\ Lease(t) = l
      BY <1>2, <2>2 DEF LeaseInv, LeaseOwned
    <3> QED
      BY <1>0, <1>8, <3>1
  <2> QED
    BY <2>1, <2>2
<1>13. Ending'
  BY <1>0 DEF LeaseInv, Ending
<1> QED
  BY <1>7, <1>9, <1>10, <1>11, <1>12, <1>13 DEF LeaseInv

\* The thread starts, or the lease goes back.
LEMMA LaunchKeeps ==
    ASSUME SchedulerTypeOK, LeaseInv, Launch
    PROVE  LeaseInv'
<1>0. /\ controller = "launch" /\ JobTypes /\ Ending
      /\ UNCHANGED <<assignment, work, stop, outcome>>
  BY DEF Launch, LeaseInv
<1>1. ASSUME NEW s \in Slots, pc[s] = "launch", Goto(s, "open"), controller' = "loop",
             UNCHANGED <<scheduler, failure, shortages>>
      PROVE  LeaseInv'
  <2>1. work[s] \in Locals /\ work' = [work EXCEPT ![s] = work[s]]
    BY <1>0 DEF JobTypes
  <2>2. Moves(s) /\ pc'[s] = "open" /\ work'[s] = work[s]
    BY <1>0, <1>1, <2>1, MoveFacts DEF JobTypes
  <2>3. Owns(s) /\ Owns(s)' /\ ~Holds(s) /\ ~Holds(s)' /\ UNCHANGED <<active, states, cancelled>>
    BY <1>1, <2>2 DEF Owns, Holds, scheduler
  <2>4. SessionOK(s)'
    BY <1>0, <2>2, <2>3, StepOK
  <2>5. Keeps
    BY <2>3 DEF Keeps
  <2>6. ReservedHeld'
    <3>1. \A t \in Slots : Holds(t)' <=> Holds(t)
      BY <2>2, <2>3 DEF Moves, Holds
    <3> QED
      BY <1>0, <2>3, <3>1 DEF LeaseInv, ReservedHeld
  <2>7. Ending'
    BY <1>0, <1>1, <2>3 DEF Ending
  <2> QED
    BY <1>1, <2>2, <2>3, <2>4, <2>5, <2>6, <2>7, FrameStep
<1>2. ASSUME NEW s \in Slots, pc[s] = "launch", shortages < MaxShortages,
             shortages' = shortages + 1, Release(Lease(s)), Goto(s, "none"),
             \/ controller' = "join" /\ failure' = "launch"
             \/ controller' = "loop" /\ UNCHANGED failure
      PROVE  LeaseInv'
  <2>1. work[s] \in Locals /\ work' = [work EXCEPT ![s] = work[s]]
    BY <1>0 DEF JobTypes
  <2>2. shortages' \in 0 .. MaxShortages /\ failure' \in Reasons
    BY <1>0, <1>2, DecodeBounds DEF JobTypes, Reasons
  <2>3. Moves(s) /\ pc'[s] = "none"
    BY <1>0, <1>2, <2>1, <2>2, MoveFacts DEF JobTypes
  <2>4. Owns(s) /\ ~Owns(s)' /\ ~Holds(s)
    BY <1>2, <2>3 DEF Owns, Holds
  <2>5. Erase(Lease(s)) /\ UNCHANGED <<states, cancelled>>
    BY <1>2 DEF Release
  <2>6. Ending' /\ (failure # "none" => failure' # "none")
    BY <1>0, <1>2, <2>5 DEF Ending
  <2> QED
    BY <2>3, <2>4, <2>5, <2>6, LeaveKeeps
<1> QED
  BY <1>1, <1>2 DEF Launch

\* The tail that is split off holds no frame of the session.
LEMMA SplitKeeps ==
    ASSUME SchedulerTypeOK, HandInv, LeaseInv, Split
    PROVE  LeaseInv'
<1>0. /\ controller = "loop" /\ JobTypes
      /\ UNCHANGED <<controller, pc, assignment, work, stop, failure, shortages, outcome>>
  BY DEF Split, session, job, LeaseInv
<1>1. PICK lease \in Leases, cut \in SafeCuts : SplitTail(lease, cut)
  BY DEF Split
<1>2. /\ active' = [active EXCEPT ![lease].end = cut]
      /\ UNCHANGED <<states, cancelled>>
      /\ active[lease].begin < cut /\ cut < active[lease].end
      /\ Unissued(lease, cut)
  BY <1>1 DEF SplitTail
<1>3. cut \in 1 .. SelectedCount - 1 /\ active[lease] \in Ranges
  BY CutsInterior DEF SchedulerTypeOK
<1>4. /\ Leases' = Leases
      /\ active'[lease] = [active[lease] EXCEPT !.end = cut]
      /\ \A l \in Leases \ {lease} : active'[l] = active[l]
  BY <1>2 DEF Leases
<1>5. /\ active'[lease] \in Ranges
      /\ active'[lease].begin = active[lease].begin /\ active'[lease].end = cut
  BY <1>3, <1>4, CutsInterior DEF Ranges
<1>6. /\ \A t \in Slots : /\ Owns(t)' <=> Owns(t)
                          /\ Holds(t)' <=> Holds(t)
                          /\ Lease(t)' = Lease(t)
      /\ Keeps
  BY <1>0, <1>2 DEF Owns, Holds, Lease, Keeps
<1>7. ASSUME NEW t \in Slots PROVE SessionOK(t)'
  <2>1. SessionOK(t)
    BY DEF LeaseInv
  <2>2. Owns(t) => Lease(t) \in Leases /\ active[Lease(t)] \in Ranges
    BY <2>1 DEF SessionOK, SchedulerTypeOK
  <2>3. Owns(t) => /\ Lease(t) \in Leases'
                   /\ active'[Lease(t)].begin = active[Lease(t)].begin
                   /\ active'[Lease(t)].end <= active[Lease(t)].end
                   /\ active'[Lease(t)] \in Ranges
    <3> SUFFICES ASSUME Owns(t)
                 PROVE  /\ active'[Lease(t)].begin = active[Lease(t)].begin
                        /\ active'[Lease(t)].end <= active[Lease(t)].end
                        /\ active'[Lease(t)] \in Ranges
      BY <1>4, <2>2
    <3>1. CASE Lease(t) = lease
      BY <1>2, <1>3, <1>5, <3>1 DEF Ranges
    <3>2. CASE Lease(t) # lease
      BY <1>4, <2>2, <3>2 DEF Ranges
    <3> QED
      BY <3>1, <3>2
  <2>4. Holds(t) => Within(work[t].frame, active'[Lease(t)])
    <3> SUFFICES ASSUME Holds(t) PROVE Within(work[t].frame, active'[Lease(t)])
      OBVIOUS
    <3>1. /\ Owns(t) /\ Within(work[t].frame, active[Lease(t)])
          /\ work[t].frame \in Ordinals /\ states[work[t].frame] = "reserved"
      BY <2>1 DEF SessionOK, Holds, Owns, HandInv, HeldOnce
    <3>2. CASE Lease(t) = lease
      <4>1. work[t].frame \in Int
        BY <3>1, CutsInterior DEF Ordinals
      <4>2. ~(cut <= work[t].frame)
        BY <1>2, <3>1, <3>2 DEF Unissued, Span
      <4>3. work[t].frame < cut
        BY <1>3, <4>1, <4>2, CutsInterior
      <4> QED
        BY <1>5, <3>1, <3>2, <4>3 DEF Within
    <3>3. CASE Lease(t) # lease
      BY <1>4, <2>2, <3>1, <3>3
    <3> QED
      BY <3>2, <3>3
  <2>5. JobTypes /\ Keeps
    BY <1>0, <1>6
  <2> QED
    BY <1>0, <2>1, <2>3, <2>4, <2>5, SessionStays
<1>8. JobTypes' /\ OwnedOnce' /\ ReservedHeld'
  BY <1>0, <1>2, <1>6 DEF LeaseInv, JobTypes, OwnedOnce, ReservedHeld
<1>9. LeaseOwned' /\ Ending'
  BY <1>0, <1>2, <1>4, <1>6 DEF LeaseInv, LeaseOwned, Ending
<1> QED
  BY <1>7, <1>8, <1>9 DEF LeaseInv

\* Nothing but idle sessions, the stop request and the end of the call change.
LEMMA StillKeeps ==
    ASSUME SchedulerTypeOK, LeaseInv, JobTypes', Ending',
           UNCHANGED <<states, active, work, assignment, failure>>,
           \A t \in Slots : Owns(t) \/ Owns(t)' => pc'[t] = pc[t]
    PROVE  LeaseInv'
<1>1. /\ Leases' = Leases
      /\ \A t \in Slots : /\ Owns(t)' <=> Owns(t)
                          /\ Holds(t)' <=> Holds(t)
                          /\ Lease(t)' = Lease(t)
  BY DEF Leases, Owns, Holds, Lease
<1>2. ASSUME NEW t \in Slots PROVE SessionOK(t)'
  <2>1. CASE ~Owns(t)
    BY <1>1, <2>1 DEF SessionOK, Owns, Holds
  <2>2. CASE Owns(t)
    <3>1. SessionOK(t) /\ pc'[t] = pc[t]
      BY <2>2 DEF LeaseInv
    <3> QED
      BY <1>1, <3>1 DEF SessionOK, Completable, Span
  <2> QED
    BY <2>1, <2>2
<1>3. OwnedOnce' /\ ReservedHeld' /\ LeaseOwned'
  BY <1>1 DEF LeaseInv, OwnedOnce, ReservedHeld, LeaseOwned
<1> QED
  BY <1>2, <1>3 DEF LeaseInv

\* The controller collects a finished session, leaves its loop or returns; a stop request
\* comes, or its callback cancels the scheduler.
LEMMA RestKeeps ==
    ASSUME SchedulerTypeOK, LeaseInv,
           Join \/ LeaveLoop \/ Return \/ RequestStop \/ StopCallback \/ UNCHANGED vars
    PROVE  LeaseInv'
<1>0. JobTypes /\ Ending
  BY DEF LeaseInv
<1>1. CASE Join
  <2>1. PICK s \in Slots : pc[s] = "done" /\ Goto(s, "none")
    BY <1>1 DEF Join
  <2>2. /\ controller = "loop"
        /\ UNCHANGED <<states, active, cancelled, work, assignment, controller, stop, failure,
                       shortages, outcome>>
    BY <1>1 DEF Join, scheduler, job
  <2>3. /\ pc'[s] = "none" /\ \A t \in Slots \ {s} : pc'[t] = pc[t]
        /\ JobTypes'
    BY <1>0, <2>1, <2>2 DEF JobTypes, Goto
  <2>4. \A t \in Slots : Owns(t) \/ Owns(t)' => pc'[t] = pc[t]
    BY <2>1, <2>3 DEF Owns
  <2>5. Ending'
    BY <1>0, <2>2 DEF Ending
  <2> QED
    BY <2>2, <2>3, <2>4, <2>5, StillKeeps
<1>2. CASE LeaveLoop \/ Return \/ RequestStop \/ StopCallback
  <2>1. UNCHANGED <<states, active, work, assignment, failure, pc>>
    BY <1>2 DEF LeaveLoop, Return, RequestStop, StopCallback, Cancel, scheduler, session, job
  <2>2. JobTypes'
    BY <1>0, <1>2 DEF JobTypes, LeaveLoop, Return, RequestStop, StopCallback, scheduler,
                      session, job
  <2>3. Ending'
    <3>1. CASE LeaveLoop
      BY <1>0, <3>1 DEF Ending, LeaveLoop, NoSession, Owns, scheduler, session, job
    <3>2. CASE Return
      BY <1>0, <3>2 DEF Ending, Return, Owns, scheduler, session
    <3>3. CASE RequestStop
      BY <1>0, <3>3 DEF Ending, RequestStop, Owns, scheduler, session
    <3>4. CASE StopCallback
      BY <1>0, <3>4 DEF Ending, StopCallback, Cancel, Owns, session, job
    <3> QED
      BY <1>2, <3>1, <3>2, <3>3, <3>4
  <2> QED
    BY <2>1, <2>2, <2>3, StillKeeps
<1>3. CASE UNCHANGED vars
  <2>1. /\ UNCHANGED <<states, active, pending, cancelled, controller, pc, work, assignment, stop,
                       failure, shortages, outcome>>
    BY <1>3 DEF vars, scheduler, session, job
  <2>2. JobTypes' /\ Ending'
    BY <1>0, <2>1 DEF JobTypes, Ending, Owns
  <2> QED
    BY <2>1, <2>2, StillKeeps
<1> QED
  BY <1>1, <1>2, <1>3

\* Every step of the decode.
LEMMA NextLease ==
    ASSUME SchedulerTypeOK, CountsAgree, HandInv, LeaseInv, [Next]_vars
    PROVE  LeaseInv'
<1>1. CASE \E s \in Slots : Session(s)
  BY <1>1, SessionKeeps
<1>2. CASE Begin \/ ClaimNext
  BY <1>2, ClaimForKeeps, SlotsHaveFirst DEF Begin, ClaimNext
<1>3. CASE Launch
  BY <1>3, LaunchKeeps
<1>4. CASE Split
  BY <1>4, SplitKeeps
<1>5. CASE Join \/ LeaveLoop \/ Return \/ RequestStop \/ StopCallback \/ UNCHANGED vars
  BY <1>5, RestKeeps
<1> QED
  BY <1>1, <1>2, <1>3, <1>4, <1>5 DEF Next, Controller

\* Nothing is leased at the start.
LEMMA InitLease == Init => LeaseInv
<1> SUFFICES ASSUME Init PROVE LeaseInv
  OBVIOUS
<1>1. /\ controller = "begin" /\ outcome = "none" /\ failure = "none" /\ shortages = 0
      /\ stop = FALSE /\ cancelled = FALSE /\ Leases = {}
      /\ pc = [s \in Slots |-> "none"] /\ work = [s \in Slots |-> NoWork]
      /\ assignment = [s \in Slots |-> [lease |-> 0, begin |-> 0, end |-> 0]]
      /\ states = [i \in Ordinals |-> "pending"]
  BY DEF Init, SchedulerInit, Leases
<1>2. JobTypes
  <2>1. [lease |-> 0, begin |-> 0, end |-> 0]
            \in [lease : Nat, begin : 0 .. SelectedCount, end : 0 .. SelectedCount]
    BY CutsInterior
  <2>2. work \in [Slots -> Locals]
    BY <1>1, NoWorkTyped
  <2>3. assignment \in [Slots -> [lease : Nat, begin : 0 .. SelectedCount,
                                  end : 0 .. SelectedCount]]
    BY <1>1, <2>1
  <2>4. shortages \in 0 .. MaxShortages /\ failure \in Reasons
    BY <1>1, DecodeBounds DEF Reasons
  <2> QED
    BY <1>1, <2>2, <2>3, <2>4 DEF JobTypes
<1>3. \A s \in Slots : pc[s] = "none" /\ ~Owns(s) /\ ~Holds(s)
  BY <1>1 DEF Owns, Holds
<1>4. /\ \A s \in Slots : SessionOK(s)
      /\ OwnedOnce /\ ReservedHeld /\ LeaseOwned /\ Ending
  BY <1>1, <1>3 DEF SessionOK, OwnedOnce, ReservedHeld, LeaseOwned, Ending
<1> QED
  BY <1>2, <1>4 DEF LeaseInv
\* All of it holds throughout the decode.
LEMMA LeaseInvHolds == Spec => [](DecodeInv /\ CountsAgree /\ LeaseInv)
<1> DEFINE All == DecodeInv /\ CountsAgree /\ LeaseInv
<1>1. Init => All
  <2>1. Init => DecodeInv
    BY InitHand, InitInv DEF DecodeInv, Init
  <2>2. Init => CountsAgree
    BY DEF Init, SchedulerInit, CountsAgree, Leases
  <2> QED
    BY <2>1, <2>2, InitLease
<1>2. All /\ [Next]_vars => All'
  <2> SUFFICES ASSUME All, [Next]_vars PROVE All'
    OBVIOUS
  <2>1. SchedulerInv /\ SchedulerTypeOK /\ HandInv
    BY DEF DecodeInv, SchedulerInv
  <2>2. DecodeInv' /\ [SchedulerNext]_scheduler
    BY DecodeNext
  <2>3. CountsAgree'
    BY <2>1, <2>2, NextCounts
  <2>4. LeaseInv'
    BY <2>1, NextLease
  <2> QED
    BY <2>2, <2>3, <2>4
<1> HIDE DEF All
<1>3. Spec => []All
  BY <1>1, <1>2, PTL DEF Spec
<1> QED
  BY <1>3 DEF All

\* What the invariant says of the scheduler's preconditions.
LEMMA LeaseErrors ==
    ASSUME DecodeInv, LeaseInv
    PROVE  LeaseErrorsUnreachable
<1> SUFFICES ASSUME NEW s \in Slots
             PROVE  /\ pc[s] \in {"commit", "abandon"} => Reserved(Lease(s), work[s].frame)
                    /\ pc[s] \in {"launch", "catch"} => /\ Lease(s) \in Leases
                                                        /\ NothingReserved(Lease(s))
                    /\ pc[s] = "complete" => Completable(Lease(s))
  BY DEF LeaseErrorsUnreachable
<1>1. SessionOK(s)
  BY DEF LeaseInv
<1>2. pc[s] \in {"commit", "abandon"} => Reserved(Lease(s), work[s].frame)
  BY <1>1 DEF SessionOK, Owns, Holds, Reserved, DecodeInv, HandInv, HeldOnce
<1>3. ASSUME pc[s] \in {"launch", "catch"}
      PROVE  Lease(s) \in Leases /\ NothingReserved(Lease(s))
  <2>1. Owns(s) /\ ~Holds(s) /\ Lease(s) \in Leases
    BY <1>1, <1>3 DEF SessionOK, Owns, Holds
  <2>2. ASSUME NEW i \in Span(active[Lease(s)]), states[i] = "reserved"
        PROVE  FALSE
    <3>1. i \in Ordinals /\ Within(i, active[Lease(s)])
      BY DEF Span
    <3>2. PICK t \in Slots : Holds(t) /\ work[t].frame = i
      BY <2>2, <3>1 DEF LeaseInv, ReservedHeld
    <3>3. Owns(t) /\ Lease(t) \in Leases /\ Within(i, active[Lease(t)])
      BY <3>2 DEF LeaseInv, SessionOK, Owns, Holds
    <3>4. Lease(t) = Lease(s)
      BY <2>1, <3>1, <3>3 DEF DecodeInv, SchedulerInv, RangesDisjoint
    <3>5. t = s
      BY <2>1, <3>3, <3>4 DEF LeaseInv, OwnedOnce
    <3> QED
      BY <2>1, <3>2, <3>5
  <2> QED
    BY <2>1, <2>2 DEF NothingReserved
<1>4. pc[s] = "complete" => Completable(Lease(s))
  BY <1>1 DEF SessionOK
<1> QED
  BY <1>2, <1>3, <1>4

\* decode_slice and the scheduler agree on every lease: each method is called as its
\* std::logic_error demands (a frame that is committed or abandoned is reserved in its
\* lease, a lease that is given back has no reserved frame), the counts are right, and a
\* session that believes its lease complete, for whichever reason, has delivered all of it.
THEOREM LeasesAgreeHolds == Spec => []LeasesAgree
<1>1. ASSUME DecodeInv, CountsAgree, LeaseInv PROVE LeasesAgree
  <2>1. \A s \in Slots : /\ work[s].shown \cup work[s].flags \subseteq Ordinals
                         /\ work[s].frame \in Ordinals \cup {NoFrame}
                         /\ work[s].attempt \in 0 .. MaxAttempts - 1
    BY <1>1, LocalsFacts DEF LeaseInv
  <2>2. TypeOK
    BY <1>1, <2>1 DEF TypeOK, LeaseInv, JobTypes, DecodeInv, SchedulerInv, HandInv, LocalsOK
  <2> QED
    BY <1>1, <2>2, LeaseErrors DEF LeasesAgree
<1> QED
  BY <1>1, LeaseInvHolds, PTL

\* decode_selected_hardware_indexed returns normally, without a stop request, only after
\* every selected frame reached the consumer: no lease is left behind by a session that gave
\* up, no interval by the controller.
THEOREM OkCoversAllHolds == Spec => []OkCoversAll
<1>1. ASSUME DecodeInv, LeaseInv PROVE OkCoversAll
  <2> SUFFICES ASSUME outcome = "ok", ~stop, NEW i \in Ordinals PROVE handed[i] = 1
    BY DEF OkCoversAll
  <2>1. /\ ~cancelled /\ failure = "none" /\ pending = <<>>
        /\ \A s \in Slots : ~Owns(s)
    BY <1>1 DEF LeaseInv, Ending
  <2>2. Leases = {}
    BY <1>1, <2>1 DEF LeaseInv, LeaseOwned
  <2>3. ~Waits(i) /\ ~Leased(i)
    BY <2>1, <2>2 DEF Waits, Leased
  <2>4. states[i] = "delivered"
    BY <1>1, <2>1, <2>3 DEF DecodeInv, SchedulerInv, NothingForgotten
  <2> QED
    BY <1>1, <2>4 DEF DecodeInv, HandInv, HandedExactly
<1> QED
  BY <1>1, LeaseInvHolds, PTL
=============================================================================
