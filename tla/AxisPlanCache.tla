--------------------------- MODULE AxisPlanCache ---------------------------
(***************************************************************************)
(* The least-recently-used plan cache (AxisPlanCache::Impl in               *)
(* engine/src/planner/axis_plan.cpp), as operators on a cache value; each   *)
(* use below is one critical section of its mutex.                          *)
(*                                                                         *)
(* A key stands for a PlanKey, and equal requests have equal keys.  A plan  *)
(* is the key it was built for; Bytes gives its axis_plan_storage_bytes.    *)
(***************************************************************************)
EXTENDS Integers, Sequences, SequencesExt

CONSTANTS Keys,
          Bytes,                    \* [Keys -> Nat]
          MaximumEntries,           \* limits.maximum_entries
          MaximumResidentBytes      \* limits.maximum_resident_bytes

ASSUME CacheLimitsOK == /\ Bytes \in [Keys -> Nat]
                        /\ MaximumEntries \in Nat \ {0}
                        /\ MaximumResidentBytes \in Nat

EmptyCache == [lru |-> <<>>, plans |-> <<>>, bytes |-> 0]

Resident(c) == DOMAIN c.plans
BytesOf(keys) ==
    LET sum[n \in 0 .. Len(keys)] == IF n = 0 THEN 0 ELSE sum[n - 1] + Bytes[keys[n]]
    IN  sum[Len(keys)]

\* An entry goes to the front of the list.
MoveToFront(lru, k) ==
    LET position == CHOOSE i \in DOMAIN lru : lru[i] = k
    IN  <<k>> \o SubSeq(lru, 1, position - 1) \o SubSeq(lru, position + 1, Len(lru))
Touch(c, k) == [c EXCEPT !.lru = MoveToFront(@, k)]

\* Touches every key of a sequence that is resident, in the order of the sequence.
TouchAll(c, keys) ==
    LET lru[n \in 0 .. Len(keys)] ==
          IF n = 0 THEN c.lru
          ELSE IF keys[n] \in Resident(c) THEN MoveToFront(lru[n - 1], keys[n]) ELSE lru[n - 1]
    IN  [c EXCEPT !.lru = lru[Len(keys)]]

\* The entries that stay when room is made for b bytes: evict_lru() takes from the back.
Fits(keys, b) == /\ Len(keys) < MaximumEntries
                 /\ BytesOf(keys) + b <= MaximumResidentBytes
Kept(c, b) == LET n == CHOOSE n \in 0 .. Len(c.lru) :
                         /\ Fits(SubSeq(c.lru, 1, n), b)
                         /\ n = Len(c.lru) \/ ~Fits(SubSeq(c.lru, 1, n + 1), b)
              IN  SubSeq(c.lru, 1, n)

\* Mutant: makes room by count and forgets the bytes.
AdmitUnweighed(c, k, plan) ==
    LET kept == SubSeq(c.lru, 1, IF Len(c.lru) < MaximumEntries THEN Len(c.lru)
                                 ELSE MaximumEntries - 1)
    IN  [lru |-> <<k>> \o kept,
         plans |-> [x \in {k} \cup ToSet(kept) |-> IF x = k THEN plan ELSE c.plans[x]],
         bytes |-> BytesOf(kept) + Bytes[k]]
Admit(c, k, plan) ==
    IF Bytes[k] > MaximumResidentBytes THEN c
    ELSE LET kept == Kept(c, Bytes[k])
         IN  [lru |-> <<k>> \o kept,
              plans |-> [x \in {k} \cup ToSet(kept) |-> IF x = k THEN plan ELSE c.plans[x]],
              bytes |-> c.bytes - BytesOf(SubSeq(c.lru, Len(kept) + 1, Len(c.lru))) + Bytes[k]]

\* publish(), and the publishing of a built plan: a resident plan stays.
Publish(c, k, plan) == IF k \in Resident(c) THEN Touch(c, k) ELSE Admit(c, k, plan)

\* The plans a batch has built, offered in its order.
PublishAll(c, keys) ==
    LET after[n \in 0 .. Len(keys)] ==
          IF n = 0 THEN c ELSE Publish(after[n - 1], keys[n], keys[n])
    IN  after[Len(keys)]

\* The list, the map and the byte count describe the same entries, within both limits.
Consistent(c) == /\ ToSet(c.lru) = Resident(c)
                 /\ IsInjective(c.lru)
                 /\ c.bytes = BytesOf(c.lru)
                 /\ Len(c.lru) <= MaximumEntries
                 /\ c.bytes <= MaximumResidentBytes
=============================================================================
