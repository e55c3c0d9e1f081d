------------------------ MODULE IndexedRangeScheduler ------------------------
(***************************************************************************)
(* The lease scheduler of accelerated decoding (class IndexedRangeScheduler *)
(* in engine/include/getnative/decode_ranges.hpp).                          *)
(*                                                                         *)
(* The frames a job selected are ordinals.  Intervals of them wait in       *)
(* `pending` or are leased to a decode session in `active`; the tail of a   *)
(* lease can be split off at a safe cut, and a lease can be given back.     *)
(* A frame is reserved while its session hands it to the consumer.          *)
(* Every operation is one critical section of mutex_, hence one action.     *)
(* SchedulerSpec lets a client call anything at any time, except what the   *)
(* class answers with std::logic_error.                                     *)
(***************************************************************************)
EXTENDS Integers, Sequences, FiniteSets

CONSTANTS SelectedCount,   \* number of selected frames
          SafeCuts         \* ordinals at which a lease may be split

ASSUME CutsInterior == SelectedCount \in Nat /\ SafeCuts \subseteq 1 .. SelectedCount - 1

VARIABLES states,               \* of each ordinal: "pending", "reserved", "delivered"
          pending,              \* pending_: the intervals to be claimed, in order
          active,               \* active_: the interval of each lease
          delivered_by_lease,   \* how many frames of its interval are delivered
          next_lease, cancelled

scheduler == <<states, pending, active, delivered_by_lease, next_lease, cancelled>>

Ordinals == 0 .. SelectedCount - 1
Ranges == [begin : 0 .. SelectedCount, end : 0 .. SelectedCount]
Within(i, range) == range.begin <= i /\ i < range.end
Span(range) == {i \in Ordinals : Within(i, range)}
DeliveredIn(range) == {i \in Span(range) : states[i] = "delivered"}
Leases == DOMAIN active

SchedulerInit ==
    /\ states = [i \in Ordinals |-> "pending"]
    /\ pending = IF SelectedCount = 0 THEN <<>> ELSE <<[begin |-> 0, end |-> SelectedCount]>>
    /\ active = [lease \in {} |-> [begin |-> 0, end |-> 0]]
    /\ delivered_by_lease = [lease \in {} |-> 0]
    /\ next_lease = 1
    /\ cancelled = FALSE

\* Mutant: what earlier leases delivered is not counted.
ClaimUncounted ==
    /\ ~cancelled
    /\ pending # <<>>
    /\ active' = [lease \in Leases \cup {next_lease} |->
                     IF lease = next_lease THEN Head(pending) ELSE active[lease]]
    /\ delivered_by_lease' = [lease \in Leases \cup {next_lease} |->
                                 IF lease = next_lease THEN 0 ELSE delivered_by_lease[lease]]
    /\ pending' = Tail(pending)
    /\ next_lease' = next_lease + 1
    /\ UNCHANGED <<states, cancelled>>

Claim == /\ ~cancelled
         /\ pending # <<>>
         /\ active' = [lease \in Leases \cup {next_lease} |->
                          IF lease = next_lease THEN Head(pending) ELSE active[lease]]
         /\ delivered_by_lease' =
                [lease \in Leases \cup {next_lease} |->
                    IF lease = next_lease THEN Cardinality(DeliveredIn(Head(pending)))
                                          ELSE delivered_by_lease[lease]]
         /\ pending' = Tail(pending)
         /\ next_lease' = next_lease + 1
         /\ UNCHANGED <<states, cancelled>>

\* Mutant: only the delivered frames hold back a split.
Undelivered(lease, cut) ==
    \A i \in Span(active[lease]) : cut <= i => states[i] # "delivered"

\* No frame of the tail is reserved or delivered.
Unissued(lease, cut) ==
    \A i \in Span(active[lease]) : cut <= i => states[i] = "pending"

\* Mutants: an empty head is left behind; the tail stays in the lease too.
SplitAll(lease, cut) ==
    /\ ~cancelled
    /\ lease \in Leases
    /\ cut \in SafeCuts
    /\ active[lease].begin <= cut /\ cut < active[lease].end
    /\ Unissued(lease, cut)
    /\ pending' = Append(pending, [begin |-> cut, end |-> active[lease].end])
    /\ active' = [active EXCEPT ![lease].end = cut]
    /\ UNCHANGED <<states, delivered_by_lease, next_lease, cancelled>>

SplitUnshortened(lease, cut) ==
    /\ ~cancelled
    /\ lease \in Leases
    /\ cut \in SafeCuts
    /\ active[lease].begin < cut /\ cut < active[lease].end
    /\ Unissued(lease, cut)
    /\ pending' = Append(pending, [begin |-> cut, end |-> active[lease].end])
    /\ UNCHANGED <<states, active, delivered_by_lease, next_lease, cancelled>>

\* split_tail with exact_cut, as its caller uses it.  The minimum length of the
\* tail, 1 or 256, is a matter of economy and left out.
SplitTail(lease, cut) ==
    /\ ~cancelled
    /\ lease \in Leases
    /\ cut \in SafeCuts
    /\ active[lease].begin < cut /\ cut < active[lease].end
    /\ Unissued(lease, cut)
    /\ pending' = Append(pending, [begin |-> cut, end |-> active[lease].end])
    /\ active' = [active EXCEPT ![lease].end = cut]
    /\ UNCHANGED <<states, delivered_by_lease, next_lease, cancelled>>

\* The answer of reserve().
Delivery(lease, i) ==
    IF cancelled \/ lease \notin Leases THEN "unavailable"
    ELSE IF ~Within(i, active[lease]) THEN "unavailable"
    ELSE IF states[i] = "delivered" THEN "delivered"
    ELSE IF states[i] = "pending" THEN "reserved" ELSE "unavailable"

Reserve(lease, i) ==
    /\ Delivery(lease, i) = "reserved"
    /\ states' = [states EXCEPT ![i] = "reserved"]
    /\ UNCHANGED <<pending, active, delivered_by_lease, next_lease, cancelled>>

\* check_reserved(): commit and abandon_delivery throw std::logic_error without it.
Reserved(lease, i) == /\ lease \in Leases
                      /\ Within(i, active[lease])
                      /\ states[i] = "reserved"

Commit(lease, i) ==
    /\ Reserved(lease, i)
    /\ states' = [states EXCEPT ![i] = "delivered"]
    /\ delivered_by_lease' = [delivered_by_lease EXCEPT ![lease] = @ + 1]
    /\ UNCHANGED <<pending, active, next_lease, cancelled>>

AbandonDelivery(lease, i) ==
    /\ Reserved(lease, i)
    /\ states' = [states EXCEPT ![i] = "pending"]
    /\ UNCHANGED <<pending, active, delivered_by_lease, next_lease, cancelled>>

Erase(lease) ==
    /\ active' = [l \in Leases \ {lease} |-> active[l]]
    /\ delivered_by_lease' = [l \in Leases \ {lease} |-> delivered_by_lease[l]]

\* complete() answers true.
Completable(lease) == /\ lease \in Leases
                      /\ \A i \in Span(active[lease]) : states[i] = "delivered"

Complete(lease) == /\ Completable(lease)
                   /\ Erase(lease)
                   /\ UNCHANGED <<states, pending, next_lease, cancelled>>

Finished(lease) ==
    /\ lease \in Leases
    /\ delivered_by_lease[lease] = active[lease].end - active[lease].begin

\* release() throws std::logic_error without it.
NothingReserved(lease) == \A i \in Span(active[lease]) : states[i] # "reserved"

\* Mutant: the interval is dropped.
ReleaseDrops(lease) ==
    /\ lease \in Leases
    /\ NothingReserved(lease)
    /\ Erase(lease)
    /\ UNCHANGED <<states, pending, next_lease, cancelled>>

Release(lease) ==
    /\ lease \in Leases
    /\ NothingReserved(lease)
    /\ pending' = IF cancelled THEN pending ELSE <<active[lease]>> \o pending
    /\ Erase(lease)
    /\ UNCHANGED <<states, next_lease, cancelled>>

Cancel == /\ cancelled' = TRUE
          /\ pending' = <<>>
          /\ UNCHANGED <<states, active, delivered_by_lease, next_lease>>

SchedulerNext ==
    \/ Claim \/ Cancel
    \/ \E lease \in Leases :
          \/ \E cut \in SafeCuts : SplitTail(lease, cut)
          \/ \E i \in Ordinals : \/ Reserve(lease, i) \/ Commit(lease, i)
                                 \/ AbandonDelivery(lease, i)
          \/ Complete(lease) \/ Release(lease)

SchedulerSpec == SchedulerInit /\ [][SchedulerNext]_scheduler

-----------------------------------------------------------------------------
\* A frame waits to be claimed; a frame is leased.
Waits(i) == \E k \in DOMAIN pending : Within(i, pending[k])
Leased(i) == \E lease \in Leases : Within(i, active[lease])

\* Every variable keeps its type, and every interval is a non-empty one.
SchedulerTypeOK ==
    /\ states \in [Ordinals -> {"pending", "reserved", "delivered"}]
    /\ pending \in Seq(Ranges)
    /\ next_lease \in Nat \ {0}
    /\ Leases \subseteq 1 .. next_lease - 1
    /\ active \in [Leases -> Ranges]
    /\ delivered_by_lease \in [Leases -> Nat]
    /\ cancelled \in BOOLEAN
    /\ \A k \in DOMAIN pending : pending[k].begin < pending[k].end
    /\ \A lease \in Leases : active[lease].begin < active[lease].end

\* No frame is offered twice: whatever is split, released and claimed again, two
\* leases, two waiting intervals, or one of each, never share a frame.
RangesDisjoint ==
    \A i \in Ordinals :
        /\ \A j, k \in DOMAIN pending :
              Within(i, pending[j]) /\ Within(i, pending[k]) => j = k
        /\ \A l, m \in Leases : Within(i, active[l]) /\ Within(i, active[m]) => l = m
        /\ \A k \in DOMAIN pending, l \in Leases :
              ~(Within(i, pending[k]) /\ Within(i, active[l]))

\* No frame is forgotten: until a cancellation, one that is not delivered waits
\* in an interval or is leased.
NothingForgotten ==
    ~cancelled => \A i \in Ordinals : states[i] # "delivered" => Waits(i) \/ Leased(i)

\* A reserved frame stays in a leased interval: a split never takes it away from
\* the session that is handing it over.
ReservedIsLeased ==
    \A i \in Ordinals : states[i] = "reserved" => Leased(i)

\* Through every claim, split, release and completion the selection is conserved: each
\* undelivered frame is in one interval, one being handed over in a lease.
RangesConserved == RangesDisjoint /\ NothingForgotten /\ ReservedIsLeased

\* finished() compares a running count with the length of an interval that shrinks
\* and was possibly claimed half delivered: the count is right all the same.
CountsAgree ==
    \A lease \in Leases :
        delivered_by_lease[lease] = Cardinality(DeliveredIn(active[lease]))
=============================================================================
