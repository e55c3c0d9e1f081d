---------------------------- MODULE AdaptiveDecode ----------------------------
(***************************************************************************)
(* Accelerated decoding of a job's selected frames by several sessions      *)
(* (decode_selected_hardware_indexed in engine/src/media/media_decode.cpp,  *)
(* with adaptive_decode on), on top of IndexedRangeScheduler.               *)
(*                                                                         *)
(*   - A session (decode_slice) decodes the interval it leased, run by run, *)
(*     and hands each selected frame to the consumer: reserve, deliver,     *)
(*     commit.  It ends when its lease is complete, gives the lease back    *)
(*     when memory runs out, or fails the whole decode.                     *)
(*   - The controller claims intervals, launches and joins sessions, splits *)
(*     their tails, and returns when nothing is left.                       *)
(*   - A stop request sets the token, then its callback cancels the         *)
(*     scheduler.                                                           *)
(*                                                                         *)
(* The codec is abstracted to the frames it outputs: in any order, each at  *)
(* most once per attempt, possibly not all of them.  How many sessions the  *)
(* demand measurements ask for is left open: the controller may split or    *)
(* claim whenever it runs.                                                  *)
(***************************************************************************)
EXTENDS IndexedRangeScheduler

CONSTANTS Slots,             \* the slots of `workers`
          First,             \* slot 0
          Anchors,           \* ordinals whose keyframe differs from the previous one's
          MaxAttempts,       \* maximum_decode_attempts, 3 in the code
          MaxShortages,      \* bound on the allocation failures
          DecoderReliable    \* whether the codec outputs every frame of an attempt

ASSUME SlotsHaveFirst == First \in Slots /\ IsFiniteSet(Slots)
ASSUME CutsAreAnchors == SafeCuts \subseteq Anchors /\ Anchors \subseteq Ordinals \ {0}
ASSUME DecodeBounds == /\ SelectedCount > 0 /\ MaxAttempts \in Nat \ {0}
                       /\ MaxShortages \in Nat /\ DecoderReliable \in BOOLEAN

VARIABLES controller,    \* "begin", "launch", "loop", "join" or "over"
          pc,            \* where the session of each slot is
          assignment,    \* the lease and interval each slot was launched with
          work,          \* a session's locals: its runs, run, attempt and frames
          stop,          \* stop.stop_requested()
          failure,       \* what the first failing session threw, or "none"
          shortages,     \* allocation failures so far
          handed,        \* how often each frame reached the consumer
          outcome        \* "none", "ok" or "failed"

session == <<pc, assignment, work>>
job == <<stop, failure, shortages, handed, outcome>>
vars == <<scheduler, controller, session, job>>

NoFrame == -1
NoWork == [sparse |-> FALSE, begin |-> 0, attempt |-> 0, shown |-> {}, flags |-> {},
           frame |-> NoFrame, error |-> "none"]
Lease(s) == assignment[s].lease

\* plan_indexed_decode_runs: a dense selection is one run, a sparse one a run per
\* keyframe.  The end of the run that begins at `begin`.  (A change of the codec's extra
\* data also ends a run, and Vulkan merges runs with one safe anchor: not modelled.)
RunEnd(s) == LET later == {a \in Anchors : /\ work[s].sparse
                                           /\ work[s].begin < a /\ a < assignment[s].end}
             IN  IF later = {} THEN assignment[s].end
                 ELSE CHOOSE a \in later : \A b \in later : a <= b
Targets(s) == work[s].begin .. RunEnd(s) - 1

Init == /\ SchedulerInit
        /\ controller = "begin"
        /\ pc = [s \in Slots |-> "none"]
        /\ assignment = [s \in Slots |-> [lease |-> 0, begin |-> 0, end |-> 0]]
        /\ work = [s \in Slots |-> NoWork]
        /\ stop = FALSE
        /\ failure = "none"
        /\ shortages = 0
        /\ handed = [i \in Ordinals |-> 0]
        /\ outcome = "none"

Goto(s, state) == pc' = [pc EXCEPT ![s] = state]

\* The errors the codec or the consumer may throw; a stop request shows as one.
Errors == {"allocation"} \cup (IF stop THEN {"cancelled"} ELSE {})
                         \cup (IF DecoderReliable THEN {} ELSE {"other"})

\* The session throws `error` and goes to the handler, or to abandon a frame first.
Throw(s, error, handler) ==
    /\ error \in {"allocation", "initialization"} => shortages < MaxShortages
    /\ shortages' = shortages + IF error \in {"allocation", "initialization"} THEN 1 ELSE 0
    /\ work' = [work EXCEPT ![s] = [NoWork EXCEPT !.error = error, !.frame = work[s].frame]]
    /\ Goto(s, handler)

-----------------------------------------------------------------------------
(* A session: decode_slice.                                                 *)

\* Plan the runs and open the decoder; whatever fails here is `!initialized`.
Open(s) ==
    /\ pc[s] = "open"
    /\ \/ /\ \E sparse \in BOOLEAN :
                work' = [work EXCEPT ![s] = [NoWork EXCEPT !.sparse = sparse,
                                                           !.begin = assignment[s].begin]]
          /\ Goto(s, "decode")
          /\ UNCHANGED shortages
       \/ Throw(s, "initialization", "catch")
    /\ UNCHANGED <<scheduler, controller, assignment, stop, failure, handed, outcome>>

\* process(): the codec outputs a target that is not flagged yet; reserve it.
Output(s) ==
    /\ pc[s] = "decode"
    /\ \E i \in Targets(s) \ (work[s].shown \cup work[s].flags) :
          LET answer == Delivery(Lease(s), i) IN
          /\ work' = [work EXCEPT ![s].shown = @ \cup {i},
                                  ![s].frame = IF answer = "reserved" THEN i ELSE NoFrame]
          /\ Goto(s, CASE answer = "reserved" -> "deliver"
                       [] answer = "delivered" -> "decode"
                       [] answer = "unavailable" -> IF stop THEN "stopped" ELSE "check")
          /\ IF answer = "reserved" THEN Reserve(Lease(s), i) ELSE UNCHANGED scheduler
    /\ UNCHANGED <<controller, assignment, job>>

\* Mutants: the consumer throws after it took the frame; its exception leaves the
\* frame reserved.
DeliverThenThrow(s) ==
    /\ pc[s] = "deliver"
    /\ handed' = [handed EXCEPT ![work[s].frame] = @ + 1]
    /\ \/ Goto(s, "commit") /\ UNCHANGED <<work, shortages>>
       \/ \E error \in Errors : Throw(s, error, "abandon")
    /\ UNCHANGED <<scheduler, controller, assignment, stop, failure, outcome>>

DeliverUnabandoned(s) ==
    /\ pc[s] = "deliver"
    /\ \/ /\ handed' = [handed EXCEPT ![work[s].frame] = @ + 1]
          /\ Goto(s, "commit")
          /\ UNCHANGED <<work, shortages>>
       \/ /\ \E error \in Errors : Throw(s, error, "catch")
          /\ UNCHANGED handed
    /\ UNCHANGED <<scheduler, controller, assignment, stop, failure, outcome>>

\* deliver(): the consumer takes the frame, or throws.
Deliver(s) ==
    /\ pc[s] = "deliver"
    /\ \/ /\ handed' = [handed EXCEPT ![work[s].frame] = @ + 1]
          /\ Goto(s, "commit")
          /\ UNCHANGED <<work, shortages>>
       \/ /\ \E error \in Errors : Throw(s, error, "abandon")
          /\ UNCHANGED handed
    /\ UNCHANGED <<scheduler, controller, assignment, stop, failure, outcome>>

CommitDelivery(s) ==
    /\ pc[s] = "commit"
    /\ Commit(Lease(s), work[s].frame)
    /\ work' = [work EXCEPT ![s].flags = @ \cup {work[s].frame}, ![s].frame = NoFrame]
    /\ Goto(s, "check")
    /\ UNCHANGED <<controller, assignment, job>>

Abandon(s) ==
    /\ pc[s] = "abandon"
    /\ AbandonDelivery(Lease(s), work[s].frame)
    /\ work' = [work EXCEPT ![s].frame = NoFrame]
    /\ Goto(s, "catch")
    /\ UNCHANGED <<controller, assignment, job>>

\* assignment_finished = scheduler.finished(lease), after a commit or a refusal.
Check(s) ==
    /\ pc[s] = "check"
    /\ IF Finished(Lease(s))
       THEN Goto(s, "complete") /\ work' = [work EXCEPT ![s] = NoWork]
       ELSE Goto(s, "decode") /\ UNCHANGED work
    /\ UNCHANGED <<scheduler, controller, assignment, job>>

\* Every target of the run is flagged: the next run, or the end of the lease.
EndRun(s) ==
    /\ pc[s] = "decode"
    /\ work[s].flags = Targets(s)
    /\ IF RunEnd(s) = assignment[s].end
       THEN Goto(s, "complete") /\ work' = [work EXCEPT ![s] = NoWork]
       ELSE /\ work' = [work EXCEPT ![s] = [NoWork EXCEPT !.sparse = TRUE,
                                                          !.begin = RunEnd(s)]]
            /\ UNCHANGED pc
    /\ UNCHANGED <<scheduler, controller, assignment, job>>

\* Mutant: attempts are not counted.
EndAttemptUncounted(s) ==
    /\ pc[s] = "decode"
    /\ work[s].flags # Targets(s)
    /\ DecoderReliable => Targets(s) = work[s].shown \cup work[s].flags
    /\ \/ work' = [work EXCEPT ![s].shown = {}] /\ UNCHANGED <<pc, shortages>>
       \/ Throw(s, "ended", "catch")
    /\ UNCHANGED <<scheduler, controller, assignment, stop, failure, handed, outcome>>

\* The input ended and a target is not flagged: retry from an earlier keyframe,
\* if there is one and an attempt is left.
EndAttempt(s) ==
    /\ pc[s] = "decode"
    /\ work[s].flags # Targets(s)
    /\ DecoderReliable => Targets(s) = work[s].shown \cup work[s].flags
    /\ \/ /\ work[s].attempt + 1 < MaxAttempts
          /\ work' = [work EXCEPT ![s].attempt = @ + 1, ![s].shown = {}]
          /\ UNCHANGED <<pc, shortages>>
       \/ Throw(s, "ended", "catch")
    /\ UNCHANGED <<scheduler, controller, assignment, stop, failure, handed, outcome>>

\* The codec throws, or the session sees the stop request.
Fail(s) ==
    /\ \/ /\ pc[s] \in {"decode", "complete"}
          /\ \E error \in Errors : Throw(s, error, "catch")
       \/ /\ pc[s] = "stopped"
          /\ Throw(s, "cancelled", "catch")
    /\ UNCHANGED <<scheduler, controller, assignment, stop, failure, handed, outcome>>

\* Another session failed: leave, lease and all.
Leave(s) ==
    /\ pc[s] = "decode"
    /\ failure # "none"
    /\ Goto(s, "done")
    /\ work' = [work EXCEPT ![s] = NoWork]
    /\ UNCHANGED <<scheduler, controller, assignment, job>>

CompleteLease(s) ==
    /\ pc[s] = "complete"
    /\ IF Completable(Lease(s))
       THEN Complete(Lease(s)) /\ Goto(s, "done") /\ UNCHANGED <<work, shortages>>
       ELSE Throw(s, "incomplete", "catch") /\ UNCHANGED scheduler
    /\ UNCHANGED <<controller, assignment, stop, failure, handed, outcome>>

\* The handler: an additional session that ran out of memory, or never opened,
\* gives its lease back; anything else fails the decode.
Catch(s) ==
    /\ pc[s] = "catch"
    /\ IF s # First /\ work[s].error \in {"allocation", "initialization"}
       THEN Release(Lease(s)) /\ UNCHANGED failure
       ELSE /\ failure' = IF failure = "none" THEN work[s].error ELSE failure
            /\ UNCHANGED scheduler
    /\ Goto(s, "done")
    /\ work' = [work EXCEPT ![s] = NoWork]
    /\ UNCHANGED <<controller, assignment, stop, shortages, handed, outcome>>

Session(s) == \/ Open(s) \/ Output(s) \/ Deliver(s) \/ CommitDelivery(s) \/ Abandon(s)
              \/ Check(s) \/ EndRun(s) \/ EndAttempt(s) \/ Fail(s) \/ Leave(s)
              \/ CompleteLease(s) \/ Catch(s)

-----------------------------------------------------------------------------
(* The controller, the thread inside decode_selected_hardware_indexed.      *)

NoSession == \A s \in Slots : pc[s] = "none"

ClaimFor(s) ==
    /\ pc[s] = "none"
    /\ Claim
    /\ assignment' = [assignment EXCEPT ![s] = [lease |-> next_lease,
                                                begin |-> Head(pending).begin,
                                                end |-> Head(pending).end]]
    /\ Goto(s, "launch")
    /\ controller' = "launch"
    /\ UNCHANGED <<work, job>>

Begin == controller = "begin" /\ ClaimFor(First)

\* An iteration finds a free slot and a waiting interval.
ClaimNext == controller = "loop" /\ \E s \in Slots : ClaimFor(s)

\* Start the thread; when that fails and no session is left, the decode fails.
Launch ==
    /\ controller = "launch"
    /\ \E s \in Slots :
          /\ pc[s] = "launch"
          /\ \/ /\ Goto(s, "open")
                /\ controller' = "loop"
                /\ UNCHANGED <<scheduler, failure, shortages>>
             \/ /\ shortages < MaxShortages
                /\ shortages' = shortages + 1
                /\ Release(Lease(s))
                /\ Goto(s, "none")
                /\ IF \A t \in Slots \ {s} : pc[t] = "none"
                   THEN controller' = "join" /\ failure' = "launch"
                   ELSE controller' = "loop" /\ UNCHANGED failure
    /\ UNCHANGED <<assignment, work, stop, handed, outcome>>

Join ==
    /\ controller = "loop"
    /\ \E s \in Slots : pc[s] = "done" /\ Goto(s, "none")
    /\ UNCHANGED <<scheduler, controller, assignment, work, job>>

Split ==
    /\ controller = "loop"
    /\ \E lease \in Leases, cut \in SafeCuts : SplitTail(lease, cut)
    /\ UNCHANGED <<controller, session, job>>

\* Mutant: the loop ends with the last session, whatever waits.
LeaveIdle ==
    /\ controller = "loop"
    /\ failure # "none" \/ stop \/ NoSession
    /\ controller' = "join"
    /\ UNCHANGED <<scheduler, session, job>>

LeaveLoop ==
    /\ controller = "loop"
    /\ \/ failure # "none" \/ stop
       \/ NoSession /\ pending = <<>>
    /\ controller' = "join"
    /\ UNCHANGED <<scheduler, session, job>>

Return ==
    /\ controller = "join"
    /\ \A s \in Slots : pc[s] \in {"none", "done"}
    /\ controller' = "over"
    /\ outcome' = IF failure = "none" THEN "ok" ELSE "failed"
    /\ UNCHANGED <<scheduler, session, stop, failure, shortages, handed>>

Controller == Begin \/ Launch \/ Join \/ LeaveLoop \/ Return
              \/ (NoSession /\ ClaimNext)

RequestStop ==
    /\ outcome = "none"
    /\ ~stop
    /\ stop' = TRUE
    /\ UNCHANGED <<scheduler, controller, session, failure, shortages, handed, outcome>>

\* The stop callback, registered once the first interval is claimed.
StopCallback ==
    /\ stop /\ ~cancelled
    /\ controller \notin {"begin", "over"}
    /\ Cancel
    /\ UNCHANGED <<controller, session, job>>

-----------------------------------------------------------------------------
Next == \/ \E s \in Slots : Session(s)
        \/ Controller \/ ClaimNext \/ Split
        \/ RequestStop \/ StopCallback

Spec == Init /\ [][Next]_vars

\* Every thread is scheduled, and the controller claims when no session is left;
\* more sessions, splits and stops may never come.
FairSpec == Spec /\ WF_vars(Controller) /\ \A s \in Slots : WF_vars(Session(s))

-----------------------------------------------------------------------------
\* Every variable keeps its type.
TypeOK ==
    /\ SchedulerTypeOK
    /\ controller \in {"begin", "launch", "loop", "join", "over"}
    /\ pc \in [Slots -> {"none", "launch", "open", "decode", "deliver", "commit", "abandon",
                         "check", "stopped", "complete", "catch", "done"}]
    /\ assignment \in [Slots -> [lease : Nat, begin : 0 .. SelectedCount,
                                 end : 0 .. SelectedCount]]
    /\ \A s \in Slots : /\ work[s].shown \cup work[s].flags \subseteq Ordinals
                        /\ work[s].frame \in Ordinals \cup {NoFrame}
                        /\ work[s].attempt \in 0 .. MaxAttempts - 1
    /\ shortages \in 0 .. MaxShortages
    /\ handed \in [Ordinals -> Nat]
    /\ outcome \in {"none", "ok", "failed"}

\* No frame reaches the consumer twice, across attempts, splits, sessions and
\* leases given back.
HandedOnce == \A i \in Ordinals : handed[i] <= 1

\* Without a stop request a normal return has handed over every selected frame.
OkCoversAll == outcome = "ok" /\ ~stop => \A i \in Ordinals : handed[i] = 1

\* The scheduler's std::logic_error is never thrown, and a session that believes
\* its lease complete is right.
LeaseErrorsUnreachable ==
    \A s \in Slots :
        /\ pc[s] \in {"commit", "abandon"} => Reserved(Lease(s), work[s].frame)
        /\ pc[s] \in {"launch", "catch"} => /\ Lease(s) \in Leases
                                            /\ NothingReserved(Lease(s))
        /\ pc[s] = "complete" => Completable(Lease(s))

\* Sessions and the scheduler agree on every lease.
LeasesAgree == TypeOK /\ CountsAgree /\ LeaseErrorsUnreachable

\* The call returns, whatever fails.
Returns == <>(outcome # "none")

\* decode_selected_hardware_indexed: "decoder ended before all indexed run frames
\* were produced" is an error of the decoder, never of one that produced them.
EndedMeansDecoder == DecoderReliable => failure # "ended"
=============================================================================
