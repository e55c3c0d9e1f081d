------------------------- MODULE VerifyStream_proof -------------------------
(***************************************************************************)
(* Proofs about VerifyStream, for any number of workers and frames and any  *)
(* batch size.                                                             *)
(*                                                                         *)
(* ReportedOnce is not inductive: it speaks of what was delivered only.     *)
(* Every entry goes from a worker's hands to the end of the outbox, from    *)
(* there as a block to the drain loop's batch and from there to the client, *)
(* so the three are one sequence, Produced, that only ever grows at its     *)
(* end.  The invariant says that the sequence numbers in the inbox, in the  *)
(* workers' hands and in Produced never coincide.                           *)
(* On it rest the truth of the terminal event (Truthful) and the            *)
(* implementation of VerifyContract.                                        *)
(***************************************************************************)
EXTENDS VerifyStream, FiniteSetTheorems, TLAPS

Produced == (delivered \o pending) \o verify_outbox

\* How many frames have left the inbox: the numbers below this one.
Taken == verify_received - Len(verify_inbox)

\* The inbox holds the latest frames, in order.
InboxInOrder ==
    /\ Len(verify_inbox) <= verify_received
    /\ \A i \in 1 .. Len(verify_inbox) : verify_inbox[i] = Taken + i - 1

\* A worker holds a frame exactly while it analyses and records it.
Holding == {"analyze", "fail", "push", "push_null"}
ItemsHeld == \A w \in Workers : pc[w] \in Holding <=> item[w] # NoSeq

HeldTaken == \A w \in Workers : item[w] # NoSeq => item[w] < Taken
HeldDistinct == \A v, w \in Workers : item[v] # NoSeq /\ item[v] = item[w] => v = w

ProducedTaken == \A i \in 1 .. Len(Produced) : Produced[i].seq < Taken
ProducedNotHeld == \A i \in 1 .. Len(Produced), w \in Workers : Produced[i].seq # item[w]
ProducedOnce == SeqsDiffer(Produced)

\* The batch is empty except between taking the outbox and emitting it.
PendingEmpty == pc[Exec] \notin {"emit", "final_emit"} => pending = <<>>

\* No sequence number is in two places.
NoFrameTwice == /\ InboxInOrder
                /\ ItemsHeld /\ HeldTaken /\ HeldDistinct
                /\ ProducedTaken /\ ProducedNotHeld /\ ProducedOnce

\* The workers are started once, by the executor, after the plan.
WorkersUnborn == pc[Exec] = "plan" => \A w \in Workers : pc[w] = "unborn"

IInv == TypeOK /\ PendingEmpty /\ WorkersUnborn /\ NoFrameTwice

-----------------------------------------------------------------------------
(* What the terminal event quotes.  Every frame received waits in the inbox, *)
(* is in the hands of a worker that has not counted it, or is counted; and   *)
(* every frame counted is in Produced, but for the nulls not pushed yet.     *)
Nulls == {w \in Workers : pc[w] = "push_null"}

Tally == /\ verify_completed + verify_failed + Cardinality(Uncounted) + Len(verify_inbox)
               = verify_received
         /\ Successes(Produced) = verify_completed
         /\ Len(Produced) + Cardinality(Nulls) = verify_completed + verify_failed

\* The drain loop has decided to end the job, and not because of a cancellation.
Ending(states) == pc[Exec] \in states /\ finished /\ ~cancel_requested

StreamComplete == /\ verify_stream_ended
                  /\ verify_declared_total = verify_received
                  /\ verify_completed + verify_failed = verify_received

OnlyNulls == \A i \in 1 .. Len(verify_outbox) : ~verify_outbox[i].ok
WorkersGone == \A w \in Workers : pc[w] \in {"unborn", "exit"}

PlanUndisturbed == pc[Exec] = "plan" => verify_outbox = <<>>
JoinFinished == pc[Exec] = "join" => finished
EndComplete == Ending({"drain", "emit", "join"}) \/ terminal = "result" => StreamComplete
EndDrained == Ending({"emit", "join"}) \/ terminal = "result" => OnlyNulls
CancelGone == pc[Exec] \in {"final_drain", "final_emit", "cancelled"} \/ terminal = "cancelled"
                 => WorkersGone
CancelDrained == pc[Exec] \in {"final_emit", "cancelled"} \/ terminal = "cancelled"
                    => verify_outbox = <<>>
TerminalLast == terminal # "none" => pc[Exec] \in {"reset", "gone"}

Truthful == /\ Tally /\ PlanUndisturbed /\ JoinFinished /\ EndComplete /\ EndDrained
            /\ CancelGone /\ CancelDrained /\ TerminalLast

-----------------------------------------------------------------------------
(* Sequences.                                                              *)

\* Appending to the second part appends to the whole.
LEMMA ConcatAppend ==
    ASSUME NEW S, NEW s \in Seq(S), NEW t \in Seq(S), NEW e \in S
    PROVE  s \o Append(t, e) = Append(s \o t, e)
  OBVIOUS

\* The empty sequence is neutral.
LEMMA ConcatEmpty ==
    ASSUME NEW S, NEW s \in Seq(S)
    PROVE  s \o <<>> = s
  OBVIOUS

\* A concatenation begins with its first part.
LEMMA ConcatPrefix ==
    ASSUME NEW S, NEW s \in Seq(S), NEW t \in Seq(S)
    PROVE  /\ s \o t \in Seq(S)
           /\ Len(s \o t) = Len(s) + Len(t)
           /\ \A i \in 1 .. Len(s) : (s \o t)[i] = s[i]
  OBVIOUS

-----------------------------------------------------------------------------
(* The types.                                                              *)

USE ThreadsDistinct, BoundsPositive

\* The initial state is well typed.
LEMMA InitTypeOK == Init => TypeOK
<1> SUFFICES ASSUME Init PROVE TypeOK
  OBVIOUS
<1>1. /\ pc \in [Threads -> ReaderStates \cup WorkerStates \cup ExecStates]
      /\ pc[Reader] \in ReaderStates
      /\ pc[Exec] \in ExecStates
      /\ \A w \in Workers : pc[w] \in WorkerStates
  BY DEF Init, Threads, ReaderStates, WorkerStates, ExecStates
<1>2. item \in [Workers -> Seqs \cup {NoSeq}]
  BY DEF Init
<1>3. verify_inbox \in Seq(Seqs) /\ verify_outbox \in Seq(Entry)
      /\ pending \in Seq(Entry) /\ delivered \in Seq(Entry)
  BY DEF Init
<1>4. /\ verify_received \in 0 .. MaxFrames
      /\ verify_completed \in Nat /\ verify_failed \in Nat /\ verify_declared_total \in Nat
  BY DEF Init
<1>5. /\ verify_stream_ended \in BOOLEAN /\ cancel_requested \in BOOLEAN /\ finished \in BOOLEAN
      /\ terminal \in {"none", "result", "cancelled", "error"}
  BY DEF Init
<1> QED
  BY <1>1, <1>2, <1>3, <1>4, <1>5 DEF TypeOK

\* The part of TypeOK that is about where the threads are.
PcOK == /\ pc \in [Threads -> ReaderStates \cup WorkerStates \cup ExecStates]
        /\ pc[Reader] \in ReaderStates
        /\ pc[Exec] \in ExecStates
        /\ \A w \in Workers : pc[w] \in WorkerStates

\* A thread that goes to a state of its own kind leaves every thread where it may be.
LEMMA GotoTypes ==
    ASSUME PcOK, NEW t \in Threads, NEW state, Goto(t, state),
           t = Reader => state \in ReaderStates,
           t = Exec => state \in ExecStates,
           t \in Workers => state \in WorkerStates
    PROVE  PcOK'
  BY DEF PcOK, Goto, Threads

\* A notification changes only the state of sleeping workers and executor.
LEMMA NotifiedTypes ==
    ASSUME PcOK
    PROVE  /\ Notified \in [Threads -> ReaderStates \cup WorkerStates \cup ExecStates]
           /\ Notified[Reader] = pc[Reader]
           /\ Notified[Exec] \in ExecStates
           /\ Notified[Exec] \in {pc[Exec], "check"}
           /\ \A w \in Workers : /\ Notified[w] \in WorkerStates
                                 /\ Notified[w] \in Holding <=> pc[w] \in Holding
  BY DEF PcOK, Notified, Threads, ReaderStates, WorkerStates, ExecStates, Holding

\* Every step of every thread leaves every thread in a state of its own kind.
LEMMA NextPcOK == PcOK /\ [Next]_vars => PcOK'
<1> SUFFICES ASSUME PcOK, [Next]_vars PROVE PcOK'
  OBVIOUS
<1> USE DEF ReaderStates, WorkerStates, ExecStates
<1>0. Reader \in Threads /\ Exec \in Threads /\ Workers \subseteq Threads
  BY DEF Threads
<1>1. CASE FindVerifyJob
  BY <1>0, <1>1, GotoTypes DEF FindVerifyJob
<1>2. CASE RequestCancel
  BY <1>0, <1>2, GotoTypes DEF RequestCancel
<1>3. CASE VerifyFrame
  BY <1>0, <1>3, GotoTypes DEF VerifyFrame
<1>4. CASE VerifyEnd
  BY <1>0, <1>4, GotoTypes DEF VerifyEnd
<1>5. CASE ReaderNotify
  BY <1>5, NotifiedTypes DEF ReaderNotify, PcOK, Threads
<1>6. CASE CancelNotify
  BY <1>6, NotifiedTypes DEF CancelNotify, PcOK, Threads
<1>7. ASSUME NEW w \in Workers, WorkerCheck(w) PROVE PcOK'
  BY <1>0, <1>7, GotoTypes DEF WorkerCheck
<1>8. ASSUME NEW w \in Workers, Analyze(w) PROVE PcOK'
  BY <1>0, <1>8, GotoTypes DEF Analyze
<1>9. ASSUME NEW w \in Workers, CountFailure(w) PROVE PcOK'
  BY <1>0, <1>9, GotoTypes DEF CountFailure
<1>10. ASSUME NEW w \in Workers, PushResult(w) PROVE PcOK'
  BY <1>0, <1>10, GotoTypes DEF PushResult
<1>11. ASSUME NEW w \in Workers, WorkerNotify(w) PROVE PcOK'
  BY <1>11, NotifiedTypes DEF WorkerNotify, PcOK, Threads
<1>12. ASSUME NEW t \in Workers \cup {Exec}, Block(t) PROVE PcOK'
  BY <1>0, <1>12, GotoTypes DEF Block
<1>13. CASE Plan
  <2>1. CASE pc' = [t \in Threads |-> IF t = Reader THEN pc[t] ELSE "check"]
    BY <2>1 DEF PcOK, Threads
  <2>2. CASE Goto(Exec, "reset")
    BY <1>0, <2>2, GotoTypes
  <2> QED
    BY <1>13, <2>1, <2>2 DEF Plan
<1>14. CASE DrainCheck
  BY <1>0, <1>14, GotoTypes DEF DrainCheck
<1>15. CASE DrainOutbox
  BY <1>0, <1>15, GotoTypes DEF DrainOutbox
<1>16. CASE EmitProgress
  BY <1>0, <1>16, GotoTypes DEF EmitProgress
<1>17. CASE JoinWorkers
  BY <1>0, <1>17, GotoTypes DEF JoinWorkers
<1>18. CASE EmitCancelled
  BY <1>0, <1>18, GotoTypes DEF EmitCancelled
<1>19. CASE ResetRunning
  BY <1>0, <1>19, GotoTypes DEF ResetRunning
<1>20. CASE UNCHANGED vars
  BY <1>20 DEF vars, PcOK
<1> QED
  BY <1>1, <1>2, <1>3, <1>4, <1>5, <1>6, <1>7, <1>8, <1>9, <1>10, <1>11, <1>12, <1>13,
     <1>14, <1>15, <1>16, <1>17, <1>18, <1>19, <1>20
     DEF Next, ReaderContinues, Worker, Executor

\* Every step keeps every variable in its type.  A worker that pushes must hold a
\* frame, so the step needs ItemsHeld.
LEMMA NextTypeOK == TypeOK /\ ItemsHeld /\ [Next]_vars => TypeOK'
<1> SUFFICES ASSUME TypeOK, ItemsHeld, [Next]_vars PROVE TypeOK'
  OBVIOUS
<1>0. PcOK'
  BY NextPcOK DEF TypeOK, PcOK
<1> USE <1>0 DEF TypeOK, PcOK
<1>1. CASE FindVerifyJob
  BY <1>1 DEF FindVerifyJob, stream, counters, output
<1>2. CASE RequestCancel
  BY <1>2 DEF RequestCancel, stream, counters, output
<1>3. CASE VerifyFrame
  <2>1. CASE UNCHANGED <<verify_inbox, verify_received>>
    BY <1>3, <2>1 DEF VerifyFrame, counters, output
  <2>2. CASE /\ verify_received < MaxFrames
             /\ verify_inbox' = Append(verify_inbox, verify_received)
             /\ verify_received' = verify_received + 1
    <3>1. verify_received \in Seqs /\ verify_received' \in 0 .. MaxFrames
      BY <2>2 DEF Seqs
    <3>2. verify_inbox' \in Seq(Seqs)
      BY <2>2, <3>1
    <3> QED
      BY <1>3, <3>1, <3>2 DEF VerifyFrame, counters, output
  <2> QED
    BY <1>3, <2>1, <2>2 DEF VerifyFrame
<1>4. CASE VerifyEnd
  <2>1. verify_stream_ended' \in BOOLEAN
    BY <1>4 DEF VerifyEnd
  <2>2. verify_declared_total' \in Nat
    <3>1. CASE verify_declared_total' \in 0 .. MaxFrames
      BY <3>1
    <3>2. CASE UNCHANGED verify_declared_total
      BY <3>2
    <3> QED
      BY <1>4, <3>1, <3>2 DEF VerifyEnd
  <2> QED
    BY <1>4, <2>1, <2>2 DEF VerifyEnd, counters, output
<1>5. CASE ReaderNotify
  BY <1>5 DEF ReaderNotify, stream, counters, output
<1>6. CASE CancelNotify
  BY <1>6 DEF CancelNotify, stream, counters, output
<1>7. ASSUME NEW w \in Workers, WorkerCheck(w) PROVE TypeOK'
  <2>1. item' \in [Workers -> Seqs \cup {NoSeq}] /\ verify_inbox' \in Seq(Seqs)
    <3>1. CASE UNCHANGED <<item, verify_inbox>>
      BY <3>1
    <3>2. CASE /\ verify_inbox # <<>>
               /\ item' = [item EXCEPT ![w] = Head(verify_inbox)]
               /\ verify_inbox' = Tail(verify_inbox)
      BY <3>2
    <3> QED
      BY <1>7, <3>1, <3>2 DEF WorkerCheck
  <2> QED
    BY <1>7, <2>1 DEF WorkerCheck, counters, output
<1>8. ASSUME NEW w \in Workers, Analyze(w) PROVE TypeOK'
  BY <1>8 DEF Analyze, stream, counters, output
<1>9. ASSUME NEW w \in Workers, CountFailure(w) PROVE TypeOK'
  BY <1>9 DEF CountFailure, stream, output
<1>10. ASSUME NEW w \in Workers, PushResult(w) PROVE TypeOK'
  <2>1. [seq |-> item[w], ok |-> pc[w] = "push"] \in Entry
    BY <1>10 DEF PushResult, ItemsHeld, Holding, Entry
  <2>2. verify_outbox' \in Seq(Entry)
    BY <1>10, <2>1 DEF PushResult
  <2> QED
    BY <1>10, <2>2 DEF PushResult, stream, output
<1>11. ASSUME NEW w \in Workers, WorkerNotify(w) PROVE TypeOK'
  BY <1>11 DEF WorkerNotify, stream, counters, output
<1>12. ASSUME NEW t \in Workers \cup {Exec}, Block(t) PROVE TypeOK'
  BY <1>12 DEF Block, stream, counters, output
<1>13. CASE Plan
  BY <1>13 DEF Plan, stream, counters
<1>14. CASE DrainCheck
  BY <1>14 DEF DrainCheck, stream, counters, StreamFinished, AllCounted
<1>15. CASE DrainOutbox
  BY <1>15 DEF DrainOutbox, stream, counters
<1>16. CASE EmitProgress
  BY <1>16, ConcatPrefix DEF EmitProgress, stream, counters
<1>17. CASE JoinWorkers
  BY <1>17 DEF JoinWorkers, stream, counters
<1>18. CASE EmitCancelled
  BY <1>18 DEF EmitCancelled, stream, counters
<1>19. CASE ResetRunning
  BY <1>19 DEF ResetRunning, stream, counters, output
<1>20. CASE UNCHANGED vars
  BY <1>20 DEF vars, stream, counters, output
<1> QED
  BY <1>1, <1>2, <1>3, <1>4, <1>5, <1>6, <1>7, <1>8, <1>9, <1>10, <1>11, <1>12, <1>13,
     <1>14, <1>15, <1>16, <1>17, <1>18, <1>19, <1>20
     DEF Next, ReaderContinues, Worker, Executor
-----------------------------------------------------------------------------
(* The drain loop's batch.                                                 *)

\* The batch is filled only on the way to emit it, and emitted whole.
LEMMA NextPendingEmpty == TypeOK /\ PendingEmpty /\ [Next]_vars => PendingEmpty'
<1> SUFFICES ASSUME TypeOK, PendingEmpty, [Next]_vars PROVE PendingEmpty'
  OBVIOUS
<1> USE DEF PendingEmpty, TypeOK, Threads
<1>1. CASE FindVerifyJob \/ RequestCancel \/ VerifyFrame \/ VerifyEnd
  BY <1>1 DEF FindVerifyJob, RequestCancel, VerifyFrame, VerifyEnd, Goto, output
<1>2. CASE ReaderNotify \/ CancelNotify
  BY <1>2 DEF ReaderNotify, CancelNotify, Notified, output
<1>3. ASSUME NEW w \in Workers, Worker(w) PROVE PendingEmpty'
  BY <1>3 DEF Worker, WorkerCheck, Analyze, CountFailure, PushResult, WorkerNotify, Block,
              Goto, Notified, output
<1>4. CASE EmitProgress
  BY <1>4 DEF EmitProgress
<1>5. CASE DrainOutbox
  BY <1>5 DEF DrainOutbox, Goto
<1>6. CASE Plan \/ DrainCheck \/ Block(Exec) \/ JoinWorkers \/ EmitCancelled \/ ResetRunning
  BY <1>6 DEF Plan, DrainCheck, Block, JoinWorkers, EmitCancelled, ResetRunning, output
<1>7. CASE UNCHANGED vars
  BY <1>7 DEF vars, output
<1> QED
  BY <1>1, <1>2, <1>3, <1>4, <1>5, <1>6, <1>7 DEF Next, ReaderContinues, Executor

-----------------------------------------------------------------------------
(* No frame is in two places.                                              *)

\* What was produced is a sequence of entries.
LEMMA ProducedType ==
    ASSUME TypeOK
    PROVE  /\ Produced \in Seq(Entry)
           /\ \A i \in 1 .. Len(Produced) : Produced[i].seq \in Int /\ Produced[i].seq # NoSeq
<1>1. Produced \in Seq(Entry)
  BY ConcatPrefix DEF TypeOK, Produced
<1>2. \A i \in 1 .. Len(Produced) : Produced[i] \in Entry
  BY <1>1
<1>3. \A e \in Entry : e.seq \in Int /\ e.seq # NoSeq
  BY DEF Entry, Seqs, NoSeq
<1> QED
  BY <1>1, <1>2, <1>3

\* A step that touches neither the inbox, nor the frames in hand, nor Produced.
LEMMA Undisturbed ==
    ASSUME NoFrameTwice,
           UNCHANGED <<verify_received, verify_inbox, item, Produced>>,
           \A w \in Workers : pc'[w] \in Holding <=> pc[w] \in Holding
    PROVE  NoFrameTwice'
<1>1. Taken' = Taken
  BY DEF Taken
<1> QED
  BY <1>1 DEF NoFrameTwice, InboxInOrder, ItemsHeld, HeldTaken, HeldDistinct,
              ProducedTaken, ProducedNotHeld, ProducedOnce, SeqsDiffer

\* A new frame gets the number after the last one in the inbox.
LEMMA FrameAppended ==
    ASSUME TypeOK, NoFrameTwice, VerifyFrame,
           verify_inbox' = Append(verify_inbox, verify_received),
           verify_received' = verify_received + 1
    PROVE  NoFrameTwice'
<1>1. verify_inbox \in Seq(Int) /\ verify_received \in Int
  BY DEF TypeOK, Seqs
<1>2. Len(verify_inbox') = Len(verify_inbox) + 1 /\ Taken' = Taken /\ Taken \in Int
  BY <1>1 DEF Taken
<1>3. InboxInOrder'
  BY <1>1, <1>2 DEF NoFrameTwice, InboxInOrder, Taken
<1>4. UNCHANGED <<item, Produced>> /\ \A w \in Workers : pc'[w] = pc[w]
  BY DEF VerifyFrame, Goto, Produced, output, TypeOK, Threads
<1> QED
  BY <1>2, <1>3, <1>4 DEF NoFrameTwice, ItemsHeld, HeldTaken, HeldDistinct,
                          ProducedTaken, ProducedNotHeld, ProducedOnce, SeqsDiffer

\* A worker takes the smallest number nobody has taken.
LEMMA FrameTaken ==
    ASSUME TypeOK, NoFrameTwice, NEW w \in Workers, WorkerCheck(w), verify_inbox # <<>>,
           item' = [item EXCEPT ![w] = Head(verify_inbox)],
           verify_inbox' = Tail(verify_inbox),
           Goto(w, "analyze")
    PROVE  NoFrameTwice'
<1>1. /\ verify_inbox \in Seq(Int) /\ verify_received \in Int
      /\ Len(verify_inbox) \in Nat \ {0} /\ Taken \in Int
  BY DEF TypeOK, Seqs, Taken
<1>2. /\ Len(verify_inbox') = Len(verify_inbox) - 1
      /\ \A i \in 1 .. Len(verify_inbox') : verify_inbox'[i] = verify_inbox[i + 1]
      /\ UNCHANGED verify_received
      /\ Taken' = Taken + 1
  BY <1>1 DEF Taken, WorkerCheck
<1>3. Head(verify_inbox) = Taken /\ Head(verify_inbox) # NoSeq
  <2>1. 1 \in 1 .. Len(verify_inbox) /\ Head(verify_inbox) = verify_inbox[1]
    BY <1>1
  <2>2. verify_inbox[1] = Taken
    BY <1>1, <2>1 DEF NoFrameTwice, InboxInOrder
  <2>3. verify_inbox[1] \in Seqs
    BY <2>1 DEF TypeOK
  <2> QED
    BY <2>1, <2>2, <2>3 DEF Seqs, NoSeq
<1>4. InboxInOrder'
  BY <1>1, <1>2 DEF NoFrameTwice, InboxInOrder
<1>5. UNCHANGED Produced
  BY DEF WorkerCheck, output, Produced
<1>6. /\ item'[w] = Taken
      /\ \A v \in Workers : v # w => item'[v] = item[v] /\ pc'[v] = pc[v]
      /\ pc'[w] \in Holding
  BY <1>3 DEF Goto, TypeOK, Threads, Holding
<1>7. \A v \in Workers : item[v] \in Int
  BY DEF TypeOK, Seqs, NoSeq
<1>8. ItemsHeld' /\ HeldTaken' /\ HeldDistinct'
  BY <1>1, <1>2, <1>3, <1>6, <1>7 DEF NoFrameTwice, ItemsHeld, HeldTaken, HeldDistinct
<1>9. \A i \in 1 .. Len(Produced) : Produced[i].seq \in Int
  BY ProducedType
<1>10. ProducedTaken' /\ ProducedNotHeld' /\ ProducedOnce'
  BY <1>1, <1>2, <1>5, <1>6, <1>9
     DEF NoFrameTwice, ProducedTaken, ProducedNotHeld, ProducedOnce, SeqsDiffer
<1> QED
  BY <1>4, <1>8, <1>10 DEF NoFrameTwice

\* A worker appends the entry of its frame to what was produced.
LEMMA FrameProduced ==
    ASSUME TypeOK, NoFrameTwice, NEW w \in Workers, PushResult(w)
    PROVE  LET entry == [seq |-> item[w], ok |-> pc[w] = "push"]
           IN  /\ Produced \in Seq(Entry) /\ entry \in Entry
               /\ Produced' = Append(Produced, entry)
<1> DEFINE entry == [seq |-> item[w], ok |-> pc[w] = "push"]
<1>1. entry \in Entry
  BY DEF PushResult, NoFrameTwice, ItemsHeld, Holding, TypeOK, Entry
<1>2. delivered \o pending \in Seq(Entry) /\ verify_outbox \in Seq(Entry)
  BY ConcatPrefix DEF TypeOK
<1>3. Produced' = (delivered \o pending) \o Append(verify_outbox, entry)
  BY DEF PushResult, output, Produced
<1>4. Produced' = Append(Produced, entry)
  BY <1>1, <1>2, <1>3, ConcatAppend DEF Produced
<1> QED
  BY <1>1, <1>4, ProducedType

\* A worker's frame becomes the last entry produced, and the worker holds nothing.
LEMMA FramePushed ==
    ASSUME TypeOK, NoFrameTwice, NEW w \in Workers, PushResult(w)
    PROVE  NoFrameTwice'
<1> DEFINE entry == [seq |-> item[w], ok |-> pc[w] = "push"]
<1>1. item[w] # NoSeq /\ item[w] \in Seqs /\ entry \in Entry
  BY DEF PushResult, NoFrameTwice, ItemsHeld, Holding, TypeOK, Entry
<1>2. Produced \in Seq(Entry) /\ Produced' = Append(Produced, entry)
  BY FrameProduced
<1> HIDE DEF entry
<1>3. /\ Len(Produced) \in Nat
      /\ Len(Produced') = Len(Produced) + 1
      /\ \A i \in 1 .. Len(Produced) : Produced'[i] = Produced[i]
      /\ Produced'[Len(Produced) + 1] = entry
      /\ entry.seq = item[w]
  BY <1>1, <1>2 DEF entry
<1>4. UNCHANGED <<verify_inbox, verify_received>> /\ Taken' = Taken
  BY DEF PushResult, stream, Taken
<1>5. /\ item'[w] = NoSeq
      /\ \A v \in Workers : v # w => item'[v] = item[v] /\ pc'[v] = pc[v]
      /\ pc'[w] \notin Holding
  BY DEF PushResult, Goto, TypeOK, Threads, Holding
<1>6. InboxInOrder' /\ ItemsHeld' /\ HeldTaken' /\ HeldDistinct'
  BY <1>4, <1>5 DEF NoFrameTwice, InboxInOrder, ItemsHeld, HeldTaken, HeldDistinct
<1>7. ProducedTaken'
  BY <1>1, <1>3, <1>4 DEF NoFrameTwice, ProducedTaken, HeldTaken
<1>8. \A i \in 1 .. Len(Produced) : Produced[i].seq # NoSeq /\ Produced[i].seq # item[w]
  BY ProducedType DEF NoFrameTwice, ProducedNotHeld
<1>9. ProducedNotHeld'
  BY <1>1, <1>3, <1>5, <1>8 DEF NoFrameTwice, ProducedNotHeld, HeldDistinct
<1>10. ProducedOnce'
  BY <1>3, <1>8 DEF NoFrameTwice, ProducedOnce, SeqsDiffer
<1> QED
  BY <1>6, <1>7, <1>9, <1>10 DEF NoFrameTwice

\* Draining moves the whole outbox into the empty batch: nothing else is produced.
LEMMA DrainKeepsProduced == TypeOK /\ PendingEmpty /\ DrainOutbox => UNCHANGED Produced
<1> SUFFICES ASSUME TypeOK, PendingEmpty, DrainOutbox PROVE UNCHANGED Produced
  OBVIOUS
<1>1. pending = <<>> /\ pending' = verify_outbox /\ verify_outbox' = <<>> /\ delivered' = delivered
  BY DEF DrainOutbox, PendingEmpty
<1>2. delivered \in Seq(Entry) /\ delivered \o verify_outbox \in Seq(Entry)
  BY ConcatPrefix DEF TypeOK
<1>3. Produced' = delivered \o verify_outbox
  BY <1>1, <1>2, ConcatEmpty DEF Produced
<1>4. Produced = delivered \o verify_outbox
  BY <1>1, <1>2, ConcatEmpty DEF Produced
<1> QED
  BY <1>3, <1>4

\* Emitting moves the whole batch behind what was delivered before.
LEMMA EmitKeepsProduced == TypeOK /\ EmitProgress => UNCHANGED Produced
<1> SUFFICES ASSUME TypeOK, EmitProgress PROVE UNCHANGED Produced
  OBVIOUS
<1>1. delivered' = delivered \o pending /\ pending' = <<>> /\ verify_outbox' = verify_outbox
  BY DEF EmitProgress
<1>2. delivered \o pending \in Seq(Entry)
  BY ConcatPrefix DEF TypeOK
<1> QED
  BY <1>1, <1>2, ConcatEmpty DEF Produced
\* Every other step leaves the frames where they are.
LEMMA NextNoFrameTwice == IInv /\ [Next]_vars => NoFrameTwice'
<1> SUFFICES ASSUME IInv, [Next]_vars PROVE NoFrameTwice'
  OBVIOUS
<1>0. TypeOK /\ PendingEmpty /\ NoFrameTwice /\ PcOK
  BY DEF IInv, TypeOK, PcOK
<1>1. CASE FindVerifyJob \/ RequestCancel
  <2>1. UNCHANGED <<verify_received, verify_inbox, item, Produced>>
    BY <1>1 DEF FindVerifyJob, RequestCancel, stream, output, Produced
  <2>2. \A w \in Workers : pc'[w] = pc[w]
    BY <1>0, <1>1 DEF FindVerifyJob, RequestCancel, Goto, PcOK, Threads
  <2> QED
    BY <1>0, <2>1, <2>2, Undisturbed
<1>2. CASE VerifyFrame
  <2>1. CASE UNCHANGED <<verify_inbox, verify_received>>
    <3>1. UNCHANGED <<verify_received, verify_inbox, item, Produced>>
      BY <1>2, <2>1 DEF VerifyFrame, output, Produced
    <3>2. \A w \in Workers : pc'[w] = pc[w]
      BY <1>0, <1>2 DEF VerifyFrame, Goto, PcOK, Threads
    <3> QED
      BY <1>0, <3>1, <3>2, Undisturbed
  <2> QED
    BY <1>0, <1>2, <2>1, FrameAppended DEF VerifyFrame
<1>3. CASE VerifyEnd
  <2>1. UNCHANGED <<verify_received, verify_inbox, item, Produced>>
    BY <1>3 DEF VerifyEnd, output, Produced
  <2>2. \A w \in Workers : pc'[w] = pc[w]
    BY <1>0, <1>3 DEF VerifyEnd, Goto, PcOK, Threads
  <2> QED
    BY <1>0, <2>1, <2>2, Undisturbed
<1>4. CASE ReaderNotify \/ CancelNotify
  <2>1. UNCHANGED <<verify_received, verify_inbox, item, Produced>>
    BY <1>4 DEF ReaderNotify, CancelNotify, stream, output, Produced
  <2>2. \A w \in Workers : pc'[w] = Notified[w]
    BY <1>0, <1>4, NotifiedTypes DEF ReaderNotify, CancelNotify, Threads
  <2> QED
    BY <1>0, <2>1, <2>2, NotifiedTypes, Undisturbed
<1>5. ASSUME NEW w \in Workers, WorkerCheck(w) PROVE NoFrameTwice'
  <2>1. CASE UNCHANGED <<item, verify_inbox>> /\ (Goto(w, "block") \/ Goto(w, "exit"))
    <3>1. UNCHANGED <<verify_received, verify_inbox, item, Produced>>
      BY <1>5, <2>1 DEF WorkerCheck, output, Produced
    <3>2. \A v \in Workers : pc'[v] \in Holding <=> pc[v] \in Holding
      BY <1>0, <1>5, <2>1 DEF WorkerCheck, Goto, PcOK, Threads, Holding
    <3> QED
      BY <1>0, <3>1, <3>2, Undisturbed
  <2> QED
    BY <1>0, <1>5, <2>1, FrameTaken DEF WorkerCheck
<1>6. ASSUME NEW w \in Workers, Analyze(w) \/ CountFailure(w) PROVE NoFrameTwice'
  <2>1. UNCHANGED <<verify_received, verify_inbox, item, Produced>>
    BY <1>6 DEF Analyze, CountFailure, stream, output, Produced
  <2>2. \A v \in Workers : pc'[v] \in Holding <=> pc[v] \in Holding
    BY <1>0, <1>6 DEF Analyze, CountFailure, Goto, PcOK, Threads, Holding
  <2> QED
    BY <1>0, <2>1, <2>2, Undisturbed
<1>7. ASSUME NEW w \in Workers, PushResult(w) PROVE NoFrameTwice'
  BY <1>0, <1>7, FramePushed
<1>8. ASSUME NEW w \in Workers, WorkerNotify(w) PROVE NoFrameTwice'
  <2>1. UNCHANGED <<verify_received, verify_inbox, item, Produced>>
    BY <1>8 DEF WorkerNotify, stream, output, Produced
  <2>2. \A v \in Workers : pc'[v] \in Holding <=> pc[v] \in Holding
    BY <1>0, <1>8, NotifiedTypes DEF WorkerNotify, Notified, Threads, Holding
  <2> QED
    BY <1>0, <2>1, <2>2, Undisturbed
<1>9. ASSUME NEW t \in Workers \cup {Exec}, Block(t) PROVE NoFrameTwice'
  <2>1. UNCHANGED <<verify_received, verify_inbox, item, Produced>>
    BY <1>9 DEF Block, stream, output, Produced
  <2>2. \A v \in Workers : pc'[v] \in Holding <=> pc[v] \in Holding
    BY <1>0, <1>9 DEF Block, Goto, PcOK, Threads, Holding
  <2> QED
    BY <1>0, <2>1, <2>2, Undisturbed
<1>10. CASE Plan
  <2>1. UNCHANGED <<verify_received, verify_inbox, item, Produced>>
    BY <1>10 DEF Plan, stream, Produced
  <2>2. CASE Goto(Exec, "reset")
    <3>1. \A v \in Workers : pc'[v] = pc[v]
      BY <1>0, <2>2 DEF Goto, PcOK, Threads
    <3> QED
      BY <1>0, <2>1, <3>1, Undisturbed
  <2>3. CASE pc[Exec] = "plan" /\ pc' = [t \in Threads |-> IF t = Reader THEN pc[t] ELSE "check"]
    <3>1. \A v \in Workers : pc[v] \notin Holding /\ pc'[v] \notin Holding
      BY <1>0, <2>3 DEF IInv, WorkersUnborn, Threads, Holding
    <3> QED
      BY <1>0, <2>1, <3>1, Undisturbed
  <2> QED
    BY <1>10, <2>2, <2>3 DEF Plan
<1>11. CASE DrainOutbox \/ EmitProgress
  <2>1. UNCHANGED <<verify_received, verify_inbox, item, Produced>>
    BY <1>0, <1>11, DrainKeepsProduced, EmitKeepsProduced DEF DrainOutbox, EmitProgress, stream
  <2>2. \A v \in Workers : pc'[v] = pc[v]
    BY <1>0, <1>11 DEF DrainOutbox, EmitProgress, Goto, PcOK, Threads
  <2> QED
    BY <1>0, <2>1, <2>2, Undisturbed
<1>12. CASE DrainCheck \/ JoinWorkers \/ EmitCancelled \/ ResetRunning
  <2>1. UNCHANGED <<verify_received, verify_inbox, item, Produced>>
    BY <1>12 DEF DrainCheck, JoinWorkers, EmitCancelled, ResetRunning, stream, output, Produced
  <2>2. \A v \in Workers : pc'[v] = pc[v]
    BY <1>0, <1>12 DEF DrainCheck, JoinWorkers, EmitCancelled, ResetRunning, Goto, PcOK, Threads
  <2> QED
    BY <1>0, <2>1, <2>2, Undisturbed
<1>13. CASE UNCHANGED vars
  <2>1. UNCHANGED <<verify_received, verify_inbox, item, Produced, pc>>
    BY <1>13 DEF vars, stream, output, Produced
  <2> QED
    BY <1>0, <2>1, Undisturbed
<1> QED
  BY <1>1, <1>2, <1>3, <1>4, <1>5, <1>6, <1>7, <1>8, <1>9, <1>10, <1>11, <1>12, <1>13
     DEF Next, ReaderContinues, Worker, Executor

\* No worker runs before the plan is made.
LEMMA NextWorkersUnborn == TypeOK /\ WorkersUnborn /\ [Next]_vars => WorkersUnborn'
<1> SUFFICES ASSUME TypeOK, WorkersUnborn, [Next]_vars, pc'[Exec] = "plan"
             PROVE  \A w \in Workers : pc'[w] = "unborn"
  BY DEF WorkersUnborn
<1> USE DEF WorkersUnborn, TypeOK, Threads
<1>1. CASE FindVerifyJob \/ RequestCancel \/ VerifyFrame \/ VerifyEnd
  BY <1>1 DEF FindVerifyJob, RequestCancel, VerifyFrame, VerifyEnd, Goto
<1>2. CASE ReaderNotify \/ CancelNotify
  BY <1>2 DEF ReaderNotify, CancelNotify, Notified
<1>3. ASSUME NEW w \in Workers, Worker(w) PROVE pc[Exec] # "plan" /\ pc'[Exec] # "plan"
  BY <1>3 DEF Worker, WorkerCheck, Analyze, CountFailure, PushResult, WorkerNotify, Block,
              Goto, Notified
<1>4. CASE Executor
  BY <1>4 DEF Executor, Plan, DrainCheck, Block, DrainOutbox, EmitProgress, JoinWorkers,
              EmitCancelled, ResetRunning, Goto
<1>5. CASE UNCHANGED vars
  BY <1>5 DEF vars
<1> QED
  BY <1>1, <1>2, <1>3, <1>4, <1>5 DEF Next, ReaderContinues

-----------------------------------------------------------------------------
(* The tally.                                                              *)

\* The sets the tally counts are finite.
LEMMA TallyFinite ==
    /\ IsFiniteSet(Uncounted) /\ IsFiniteSet(Nulls)
    /\ Cardinality(Uncounted) \in Nat /\ Cardinality(Nulls) \in Nat
<1>1. Uncounted \in SUBSET Workers /\ Nulls \in SUBSET Workers
  BY DEF Uncounted, Nulls
<1>2. IsFiniteSet(Uncounted) /\ IsFiniteSet(Nulls)
  BY <1>1, FS_Subset, WorkersFinite
<1> QED
  BY <1>2, FS_CardinalityType

\* An entry appended is counted among the successes if it is one.
LEMMA SuccessesAppend ==
    ASSUME NEW s \in Seq(Entry), NEW e \in Entry
    PROVE  /\ Successes(s) \in Nat
           /\ Successes(Append(s, e)) = IF e.ok THEN Successes(s) + 1 ELSE Successes(s)
<1> DEFINE S == {i \in 1 .. Len(s) : s[i].ok}
           T == {i \in 1 .. Len(Append(s, e)) : Append(s, e)[i].ok}
           n == Len(s) + 1
<1>1. IsFiniteSet(S) /\ Cardinality(S) \in Nat
  <2>1. Len(s) \in Int /\ 1 \in Int /\ S \in SUBSET (1 .. Len(s))
    OBVIOUS
  <2>2. IsFiniteSet(1 .. Len(s))
    BY <2>1, FS_Interval
  <2>3. IsFiniteSet(S)
    BY <2>1, <2>2, FS_Subset
  <2> QED
    BY <2>3, FS_CardinalityType
<1>2. n \notin S
  OBVIOUS
<1>3. T = IF e.ok THEN S \cup {n} ELSE S
  <2>1. /\ Len(Append(s, e)) = n /\ n \in Nat
        /\ Append(s, e)[n] = e
        /\ \A i \in 1 .. Len(s) : Append(s, e)[i] = s[i]
    OBVIOUS
  <2>2. \A i : i \in 1 .. n <=> i \in 1 .. Len(s) \/ i = n
    BY <2>1
  <2>3. \A i : i \in T <=> (i \in 1 .. Len(s) /\ s[i].ok) \/ (i = n /\ e.ok)
    <3> HIDE DEF n
    <3> QED
      BY <2>1, <2>2
  <2> QED
    BY <2>3
<1>4. Cardinality(T) = IF e.ok THEN Cardinality(S) + 1 ELSE Cardinality(S)
  <2> HIDE DEF S, T, n
  <2>1. CASE e.ok
    BY <1>1, <1>2, <1>3, <2>1, FS_AddElement
  <2>2. CASE ~e.ok
    BY <1>3, <2>2
  <2> QED
    BY <2>1, <2>2
<1>5. Successes(s) = Cardinality(S) /\ Successes(Append(s, e)) = Cardinality(T)
  BY DEF Successes
<1> QED
  BY <1>1, <1>4, <1>5

\* Entries that are all nulls add nothing.
LEMMA SuccessesOfNulls ==
    ASSUME NEW s \in Seq(Entry), NEW t \in Seq(Entry), \A i \in 1 .. Len(t) : ~t[i].ok
    PROVE  Successes(s \o t) = Successes(s)
<1>1. /\ Len(s) \in Nat /\ Len(t) \in Nat /\ Len(s \o t) = Len(s) + Len(t)
      /\ \A i \in 1 .. Len(s) : (s \o t)[i] = s[i]
      /\ \A i \in 1 .. Len(s \o t) : i > Len(s) => (s \o t)[i] = t[i - Len(s)]
  OBVIOUS
<1>2. \A i \in 1 .. Len(s \o t) : i \in 1 .. Len(s) \/ (i > Len(s) /\ i - Len(s) \in 1 .. Len(t))
  BY <1>1
<1>3. \A i \in 1 .. Len(s) : i \in 1 .. Len(s \o t)
  BY <1>1
<1>4. {i \in 1 .. Len(s \o t) : (s \o t)[i].ok} = {i \in 1 .. Len(s) : s[i].ok}
  BY <1>1, <1>2, <1>3
<1> QED
  BY <1>4 DEF Successes

\* A step that counts nothing and after which the workers hold as much.
LEMMA TallyUndisturbed ==
    ASSUME Tally,
           UNCHANGED <<verify_received, verify_inbox, counters, Produced>>,
           \A w \in Workers : /\ pc'[w] \in {"analyze", "push", "fail"}
                                     <=> pc[w] \in {"analyze", "push", "fail"}
                              /\ pc'[w] = "push_null" <=> pc[w] = "push_null"
    PROVE  Tally'
<1>1. Uncounted' = Uncounted /\ Nulls' = Nulls
  BY DEF Uncounted, Nulls
<1> QED
  BY <1>1 DEF Tally, counters, Successes

\* A worker that takes a frame moves it from the inbox to its own hands.
LEMMA TallyTaken ==
    ASSUME TypeOK, Tally, NEW w \in Workers, WorkerCheck(w), verify_inbox # <<>>,
           verify_inbox' = Tail(verify_inbox), Goto(w, "analyze")
    PROVE  Tally'
<1>1. Uncounted' = Uncounted \cup {w} /\ w \notin Uncounted /\ Nulls' = Nulls
  BY DEF Uncounted, Nulls, WorkerCheck, Goto, TypeOK, Threads
<1>2. Cardinality(Uncounted') = Cardinality(Uncounted) + 1
  BY <1>1, TallyFinite, FS_AddElement
<1>3. Len(verify_inbox') = Len(verify_inbox) - 1 /\ Len(verify_inbox) \in Nat
  BY DEF TypeOK
<1>4. UNCHANGED <<verify_received, counters, Produced>>
  BY DEF WorkerCheck, output, Produced
<1> QED
  BY <1>1, <1>2, <1>3, <1>4, TallyFinite DEF Tally, counters, Successes, TypeOK

\* A failure is counted before its null is pushed.
LEMMA TallyFailed ==
    ASSUME TypeOK, Tally, NEW w \in Workers, CountFailure(w)
    PROVE  Tally'
<1>1. /\ Uncounted' = Uncounted \ {w} /\ w \in Uncounted
      /\ Nulls' = Nulls \cup {w} /\ w \notin Nulls
  BY DEF Uncounted, Nulls, CountFailure, Goto, TypeOK, Threads
<1>2. /\ Cardinality(Uncounted') = Cardinality(Uncounted) - 1
      /\ Cardinality(Nulls') = Cardinality(Nulls) + 1
  BY <1>1, TallyFinite, FS_AddElement, FS_RemoveElement
<1>3. /\ UNCHANGED <<verify_received, verify_inbox, verify_completed, Produced>>
      /\ verify_failed' = verify_failed + 1
  BY DEF CountFailure, stream, output, Produced
<1>4. /\ Len(verify_inbox) \in Nat /\ Len(Produced) \in Nat /\ verify_received \in Nat
      /\ verify_completed \in Nat /\ verify_failed \in Nat
  BY ProducedType DEF TypeOK
<1>5. Successes(Produced') = Successes(Produced) /\ Len(Produced') = Len(Produced)
  BY <1>3
<1> QED
  BY <1>2, <1>3, <1>4, <1>5, TallyFinite DEF Tally

\* A success is counted with the push; a null was counted before.
LEMMA TallyPushed ==
    ASSUME TypeOK, NoFrameTwice, Tally, NEW w \in Workers, PushResult(w)
    PROVE  Tally'
<1> DEFINE entry == [seq |-> item[w], ok |-> pc[w] = "push"]
<1>1. Produced \in Seq(Entry) /\ entry \in Entry /\ Produced' = Append(Produced, entry)
  BY FrameProduced
<1>2. Len(Produced') = Len(Produced) + 1 /\ Len(Produced) \in Nat
  BY <1>1
<1>3. /\ Successes(Produced) \in Nat
      /\ Successes(Produced') = IF entry.ok THEN Successes(Produced) + 1 ELSE Successes(Produced)
  BY <1>1, SuccessesAppend
<1>4. UNCHANGED <<verify_received, verify_inbox, verify_failed>>
  BY DEF PushResult, stream
<1>5. /\ Len(verify_inbox) \in Nat /\ verify_received \in Nat
      /\ verify_completed \in Nat /\ verify_failed \in Nat
  BY DEF TypeOK
<1>6. CASE pc[w] = "push"
  <2>1. Uncounted' = Uncounted \ {w} /\ w \in Uncounted /\ Nulls' = Nulls
    BY <1>6 DEF Uncounted, Nulls, PushResult, Goto, TypeOK, Threads
  <2>2. Cardinality(Uncounted') = Cardinality(Uncounted) - 1
    BY <2>1, TallyFinite, FS_RemoveElement
  <2>3. verify_completed' = verify_completed + 1 /\ Successes(Produced') = Successes(Produced) + 1
    BY <1>3, <1>6 DEF PushResult
  <2>4. Cardinality(Nulls') = Cardinality(Nulls)
    BY <2>1
  <2> HIDE DEF entry
  <2>5. verify_completed' + verify_failed' + Cardinality(Uncounted)' + Len(verify_inbox)'
            = verify_received'
    BY <1>4, <1>5, <2>2, <2>3, TallyFinite DEF Tally
  <2>6. Successes(Produced') = verify_completed'
    BY <1>3, <1>5, <2>3 DEF Tally
  <2>7. Len(Produced') + Cardinality(Nulls)' = verify_completed' + verify_failed'
    <3>1. Len(Produced) + Cardinality(Nulls) = verify_completed + verify_failed
      BY DEF Tally
    <3>2. Cardinality(Nulls) \in Nat
      BY TallyFinite
    <3> QED
      BY <1>2, <1>4, <1>5, <2>3, <2>4, <3>1, <3>2
  <2> QED
    BY <2>5, <2>6, <2>7 DEF Tally
<1>7. CASE pc[w] = "push_null"
  <2>1. Uncounted' = Uncounted /\ w \in Nulls /\ Nulls' = Nulls \ {w}
    BY <1>7 DEF Uncounted, Nulls, PushResult, Goto, TypeOK, Threads
  <2>2. Cardinality(Nulls') = Cardinality(Nulls) - 1
    BY <2>1, TallyFinite, FS_RemoveElement
  <2>3. verify_completed' = verify_completed /\ Successes(Produced') = Successes(Produced)
    BY <1>3, <1>7 DEF PushResult
  <2> QED
    BY <1>2, <1>4, <1>5, <2>1, <2>2, <2>3, TallyFinite DEF Tally
<1> QED
  BY <1>6, <1>7 DEF PushResult

\* Every step keeps the books balanced.
LEMMA NextTally == IInv /\ Tally /\ [Next]_vars => Tally'
<1> SUFFICES ASSUME IInv, Tally, [Next]_vars PROVE Tally'
  OBVIOUS
<1>0. TypeOK /\ PendingEmpty /\ NoFrameTwice /\ PcOK
  BY DEF IInv, TypeOK, PcOK
<1> USE DEF stream, counters, output, Produced
<1>1. CASE FindVerifyJob \/ RequestCancel \/ VerifyEnd
  <2>1. UNCHANGED <<verify_received, verify_inbox, counters, Produced>>
    BY <1>1 DEF FindVerifyJob, RequestCancel, VerifyEnd
  <2>2. \A w \in Workers : pc'[w] = pc[w]
    BY <1>0, <1>1 DEF FindVerifyJob, RequestCancel, VerifyEnd, Goto, PcOK, Threads
  <2> QED
    BY <2>1, <2>2, TallyUndisturbed
<1>2. CASE VerifyFrame
  <2>1. UNCHANGED <<counters, Produced>> /\ \A w \in Workers : pc'[w] = pc[w]
    BY <1>0, <1>2 DEF VerifyFrame, Goto, PcOK, Threads
  <2>2. CASE UNCHANGED <<verify_inbox, verify_received>>
    BY <2>1, <2>2, TallyUndisturbed
  <2>3. CASE /\ verify_inbox' = Append(verify_inbox, verify_received)
             /\ verify_received' = verify_received + 1
    <3>1. Len(verify_inbox') = Len(verify_inbox) + 1 /\ Len(verify_inbox) \in Nat
      BY <1>0, <2>3 DEF TypeOK, Seqs
    <3>2. Uncounted' = Uncounted /\ Nulls' = Nulls
      BY <2>1 DEF Uncounted, Nulls
    <3>3. verify_received \in Nat /\ verify_completed \in Nat /\ verify_failed \in Nat
      BY <1>0 DEF TypeOK
    <3> HIDE DEF Produced
    <3>4. Successes(Produced') = Successes(Produced) /\ Len(Produced') = Len(Produced)
      BY <2>1
    <3>5. verify_completed' = verify_completed /\ verify_failed' = verify_failed
      BY <2>1
    <3>6. verify_completed + verify_failed + Cardinality(Uncounted) + Len(verify_inbox')
          = verify_received'
      <4>1. verify_completed + verify_failed + Cardinality(Uncounted) + Len(verify_inbox)
            = verify_received
        BY DEF Tally
      <4>2. Cardinality(Uncounted) \in Nat
        BY TallyFinite
      <4>3. verify_received' = verify_received + 1
        BY <2>3
      <4> QED
        BY <3>1, <3>3, <4>1, <4>2, <4>3
    <3> QED
      BY <3>2, <3>4, <3>5, <3>6 DEF Tally
  <2> QED
    BY <1>2, <2>2, <2>3 DEF VerifyFrame
<1>3. CASE ReaderNotify \/ CancelNotify
  <2>1. UNCHANGED <<verify_received, verify_inbox, counters, Produced>>
    BY <1>3 DEF ReaderNotify, CancelNotify
  <2>2. \A w \in Workers : pc'[w] = pc[w] \/ (pc[w] = "waiting" /\ pc'[w] = "check")
    BY <1>0, <1>3 DEF ReaderNotify, CancelNotify, Notified, Threads, PcOK
  <2> QED
    BY <2>1, <2>2, TallyUndisturbed
<1>4. ASSUME NEW w \in Workers, WorkerCheck(w) PROVE Tally'
  <2>1. CASE UNCHANGED <<item, verify_inbox>> /\ (Goto(w, "block") \/ Goto(w, "exit"))
    <3>1. UNCHANGED <<verify_received, verify_inbox, counters, Produced>>
      BY <1>4, <2>1 DEF WorkerCheck
    <3>2. pc[w] = "check" /\ pc'[w] \in {"block", "exit"} /\ \A v \in Workers \ {w} : pc'[v] = pc[v]
      BY <1>0, <1>4, <2>1 DEF WorkerCheck, Goto, PcOK, Threads
    <3> QED
      BY <3>1, <3>2, TallyUndisturbed
  <2> QED
    BY <1>0, <1>4, <2>1, TallyTaken DEF WorkerCheck
<1>5. ASSUME NEW w \in Workers, Analyze(w) PROVE Tally'
  <2>1. UNCHANGED <<verify_received, verify_inbox, counters, Produced>>
    BY <1>5 DEF Analyze
  <2>2. pc[w] = "analyze" /\ pc'[w] \in {"push", "fail"} /\ \A v \in Workers \ {w} : pc'[v] = pc[v]
    BY <1>0, <1>5 DEF Analyze, Goto, PcOK, Threads
  <2> QED
    BY <2>1, <2>2, TallyUndisturbed
<1>6. ASSUME NEW w \in Workers, CountFailure(w) PROVE Tally'
  BY <1>0, <1>6, TallyFailed
<1>7. ASSUME NEW w \in Workers, PushResult(w) PROVE Tally'
  BY <1>0, <1>7, TallyPushed
<1>8. ASSUME NEW w \in Workers, WorkerNotify(w) PROVE Tally'
  <2>1. UNCHANGED <<verify_received, verify_inbox, counters, Produced>>
    BY <1>8 DEF WorkerNotify
  <2>2. \A v \in Workers : \/ pc'[v] = pc[v]
                           \/ pc[v] \in {"waiting", "notify"} /\ pc'[v] = "check"
    BY <1>0, <1>8 DEF WorkerNotify, Notified, Threads, PcOK
  <2> QED
    BY <2>1, <2>2, TallyUndisturbed
<1>9. ASSUME NEW t \in Workers \cup {Exec}, Block(t) PROVE Tally'
  <2>1. UNCHANGED <<verify_received, verify_inbox, counters, Produced>>
    BY <1>9 DEF Block
  <2>2. \A v \in Workers : pc'[v] = pc[v] \/ (pc[v] = "block" /\ pc'[v] = "waiting")
    BY <1>0, <1>9 DEF Block, Goto, PcOK, Threads
  <2> QED
    BY <2>1, <2>2, TallyUndisturbed
<1>10. CASE Plan
  <2>1. UNCHANGED <<verify_received, verify_inbox, counters, Produced>>
    BY <1>10 DEF Plan
  <2>2. \A v \in Workers : pc'[v] = pc[v] \/ (pc[v] = "unborn" /\ pc'[v] = "check")
    BY <1>0, <1>10 DEF Plan, Goto, PcOK, Threads, IInv, WorkersUnborn
  <2> QED
    BY <2>1, <2>2, TallyUndisturbed
<1>11. CASE DrainOutbox \/ EmitProgress
  <2>1. UNCHANGED Produced
    <3> HIDE DEF Produced
    <3> QED
      BY <1>0, <1>11, DrainKeepsProduced, EmitKeepsProduced
  <2>2. UNCHANGED <<verify_received, verify_inbox, counters>>
    BY <1>11 DEF DrainOutbox, EmitProgress
  <2>3. \A v \in Workers : pc'[v] = pc[v]
    BY <1>0, <1>11 DEF DrainOutbox, EmitProgress, Goto, PcOK, Threads
  <2> HIDE DEF Produced
  <2> QED
    BY <2>1, <2>2, <2>3, TallyUndisturbed
<1>12. CASE DrainCheck \/ JoinWorkers \/ EmitCancelled \/ ResetRunning
  <2>1. UNCHANGED <<verify_received, verify_inbox, counters, Produced>>
    BY <1>12 DEF DrainCheck, JoinWorkers, EmitCancelled, ResetRunning
  <2>2. \A v \in Workers : pc'[v] = pc[v]
    BY <1>0, <1>12 DEF DrainCheck, JoinWorkers, EmitCancelled, ResetRunning, Goto, PcOK, Threads
  <2> QED
    BY <2>1, <2>2, TallyUndisturbed
<1>13. CASE UNCHANGED vars
  <2>1. UNCHANGED <<verify_received, verify_inbox, counters, Produced, pc>>
    BY <1>13 DEF vars
  <2> QED
    BY <2>1, TallyUndisturbed
<1> QED
  BY <1>1, <1>2, <1>3, <1>4, <1>5, <1>6, <1>7, <1>8, <1>9, <1>10, <1>11, <1>12, <1>13
     DEF Next, ReaderContinues, Worker, Executor

-----------------------------------------------------------------------------
(* The end of the job.                                                     *)

\* A stream whose drain loop may finish is complete, and nobody holds a frame of it.
LEMMA CompleteCounted ==
    ASSUME TypeOK, Tally, StreamComplete
    PROVE  Uncounted = {} /\ verify_inbox = <<>>
<1>1. /\ Cardinality(Uncounted) \in Nat /\ Len(verify_inbox) \in Nat
      /\ verify_completed \in Nat /\ verify_failed \in Nat
  BY TallyFinite DEF TypeOK
<1>2. Cardinality(Uncounted) = 0 /\ Len(verify_inbox) = 0
  BY <1>1 DEF Tally, StreamComplete
<1>3. Uncounted = {}
  BY <1>2, TallyFinite, FS_EmptySet
<1>4. verify_inbox = <<>>
  BY <1>2 DEF TypeOK
<1> QED
  BY <1>3, <1>4

\* The predicate the drain loop ends on.
LEMMA FinishedComplete ==
    ASSUME TypeOK, Tally, StreamFinished, ~cancel_requested
    PROVE  StreamComplete
<1>1. /\ verify_completed + verify_failed >= verify_received
      /\ verify_stream_ended /\ verify_declared_total = verify_received
  BY DEF StreamFinished, AllCounted
<1>2. /\ Cardinality(Uncounted) \in Nat /\ Len(verify_inbox) \in Nat
      /\ verify_completed \in Nat /\ verify_failed \in Nat /\ verify_received \in Nat
  BY TallyFinite DEF TypeOK
<1> QED
  BY <1>1, <1>2 DEF Tally, StreamComplete

\* What is true of a complete stream stays true: nothing is received or counted any more.
LEMMA CompleteStays ==
    ASSUME TypeOK, Tally, StreamComplete, [Next]_vars
    PROVE  StreamComplete'
<1>0. Uncounted = {} /\ verify_inbox = <<>>
  BY CompleteCounted
<1> USE DEF StreamComplete, stream, counters
<1>1. CASE FindVerifyJob \/ RequestCancel \/ ReaderNotify \/ CancelNotify
  BY <1>1 DEF FindVerifyJob, RequestCancel, ReaderNotify, CancelNotify
<1>2. CASE VerifyFrame \/ VerifyEnd
  BY <1>2 DEF VerifyFrame, VerifyEnd
<1>3. ASSUME NEW w \in Workers, Worker(w) PROVE StreamComplete'
  <2>1. ~CountFailure(w) /\ pc[w] # "push"
    BY <1>0 DEF Uncounted, CountFailure
  <2>2. CASE WorkerCheck(w) \/ Analyze(w) \/ WorkerNotify(w) \/ Block(w)
    BY <2>2 DEF WorkerCheck, Analyze, WorkerNotify, Block
  <2>3. CASE PushResult(w)
    BY <2>1, <2>3 DEF PushResult
  <2> QED
    BY <1>3, <2>1, <2>2, <2>3 DEF Worker
<1>4. CASE Executor
  BY <1>4 DEF Executor, Plan, DrainCheck, Block, DrainOutbox, EmitProgress, JoinWorkers,
              EmitCancelled, ResetRunning
<1>5. CASE UNCHANGED vars
  BY <1>5 DEF vars
<1> QED
  BY <1>1, <1>2, <1>3, <1>4, <1>5 DEF Next, ReaderContinues

\* Workers that have returned, or were never started, do not come back.
LEMMA GoneStays ==
    ASSUME TypeOK, WorkersGone, pc[Exec] # "plan", [Next]_vars
    PROVE  WorkersGone' /\ (verify_outbox = <<>> => verify_outbox' = <<>>)
<1> USE DEF WorkersGone, TypeOK, Threads
<1>1. CASE FindVerifyJob \/ RequestCancel \/ VerifyFrame \/ VerifyEnd
  BY <1>1 DEF FindVerifyJob, RequestCancel, VerifyFrame, VerifyEnd, Goto
<1>2. CASE ReaderNotify \/ CancelNotify
  BY <1>2 DEF ReaderNotify, CancelNotify, Notified
<1>3. ASSUME NEW w \in Workers PROVE ~Worker(w)
  BY DEF Worker, WorkerCheck, Analyze, CountFailure, PushResult, WorkerNotify, Block
<1>4. CASE Executor
  BY <1>4 DEF Executor, Plan, DrainCheck, Block, DrainOutbox, EmitProgress, JoinWorkers,
              EmitCancelled, ResetRunning, Goto
<1>5. CASE UNCHANGED vars
  BY <1>5 DEF vars
<1> QED
  BY <1>1, <1>2, <1>3, <1>4, <1>5 DEF Next, ReaderContinues

\* Once the stream is complete only nulls are still pushed.
LEMMA NullsStay ==
    ASSUME TypeOK, ItemsHeld, Tally, StreamComplete, OnlyNulls, [Next]_vars
    PROVE  OnlyNulls'
<1>1. CASE UNCHANGED verify_outbox
  BY <1>1 DEF OnlyNulls
<1>2. CASE verify_outbox' = <<>>
  BY <1>2 DEF OnlyNulls
<1>3. ASSUME NEW w \in Workers, PushResult(w) PROVE OnlyNulls'
  <2> DEFINE entry == [seq |-> item[w], ok |-> pc[w] = "push"]
  <2>1. pc[w] # "push"
    BY CompleteCounted DEF Uncounted
  <2>2. ~entry.ok /\ entry \in Entry
    BY <1>3, <2>1 DEF PushResult, ItemsHeld, Holding, TypeOK, Entry
  <2>3. verify_outbox' = Append(verify_outbox, entry) /\ verify_outbox \in Seq(Entry)
    BY <1>3 DEF PushResult, TypeOK
  <2> HIDE DEF entry
  <2>4. \A i \in 1 .. Len(verify_outbox') :
            verify_outbox'[i] = IF i <= Len(verify_outbox) THEN verify_outbox[i] ELSE entry
    BY <2>2, <2>3
  <2>5. \A i \in 1 .. Len(verify_outbox') : i <= Len(verify_outbox) => i \in 1 .. Len(verify_outbox)
    BY <2>2, <2>3
  <2> QED
    BY <2>2, <2>4, <2>5 DEF OnlyNulls
<1>4. \/ UNCHANGED verify_outbox \/ verify_outbox' = <<>>
      \/ \E w \in Workers : PushResult(w)
  BY DEF Next, ReaderContinues, Worker, Executor, FindVerifyJob, RequestCancel, VerifyFrame,
         VerifyEnd, ReaderNotify, CancelNotify, WorkerCheck, Analyze, CountFailure,
         WorkerNotify, Block, Plan, DrainCheck, DrainOutbox, EmitProgress, JoinWorkers,
         EmitCancelled, ResetRunning, vars
<1> QED
  BY <1>1, <1>2, <1>3, <1>4

\* Beside the executor's own steps: it is only woken, and its locals stay.
ExecutorWaits == /\ \/ pc'[Exec] = pc[Exec]
                    \/ pc[Exec] \in {"waiting", "block"} /\ pc'[Exec] \in {"check", "waiting"}
                 /\ UNCHANGED <<finished, terminal>>
                 /\ cancel_requested => cancel_requested'
                 /\ pc[Exec] = "plan" /\ WorkersUnborn => UNCHANGED verify_outbox

ExecutorActs == \/ Plan \/ DrainCheck \/ DrainOutbox \/ EmitProgress
                \/ JoinWorkers \/ EmitCancelled \/ ResetRunning

LEMMA ExecutorSteps ==
    ASSUME TypeOK, [Next]_vars
    PROVE  ExecutorWaits \/ ExecutorActs
<1> USE DEF TypeOK, Threads, ExecutorWaits, output
<1>1. CASE FindVerifyJob \/ RequestCancel \/ VerifyFrame \/ VerifyEnd
  BY <1>1 DEF FindVerifyJob, RequestCancel, VerifyFrame, VerifyEnd, Goto
<1>2. CASE ReaderNotify \/ CancelNotify
  BY <1>2 DEF ReaderNotify, CancelNotify, Notified
<1>3. ASSUME NEW w \in Workers, Worker(w) PROVE ExecutorWaits
  BY <1>3 DEF Worker, WorkerCheck, Analyze, CountFailure, PushResult, WorkerNotify, Block,
              Goto, Notified, WorkersUnborn
<1>4. CASE Executor
  BY <1>4 DEF Executor, ExecutorActs, Block, Goto
<1>5. CASE UNCHANGED vars
  BY <1>5 DEF vars
<1> QED
  BY <1>1, <1>2, <1>3, <1>4, <1>5 DEF Next, ReaderContinues

\* Every step keeps what the terminal event will quote.
LEMMA NextTruthful == IInv /\ Truthful /\ [Next]_vars => Truthful'
<1> SUFFICES ASSUME IInv, Truthful, [Next]_vars PROVE Truthful'
  OBVIOUS
<1>0. /\ TypeOK /\ WorkersUnborn /\ ItemsHeld /\ Tally
      /\ ExecutorWaits \/ ExecutorActs
  BY ExecutorSteps DEF IInv, NoFrameTwice, Truthful
<1>1. Tally'
  BY NextTally DEF Truthful
<1>2. PlanUndisturbed'
  <2>1. CASE ExecutorWaits
    BY <1>0, <2>1 DEF ExecutorWaits, Truthful, PlanUndisturbed
  <2>2. CASE ExecutorActs
    <3>1. pc'[Exec] # "plan"
      BY <1>0, <2>2 DEF ExecutorActs, Plan, DrainCheck, DrainOutbox, EmitProgress, JoinWorkers,
         EmitCancelled, ResetRunning, Goto, TypeOK, Threads
    <3> QED
      BY <3>1 DEF PlanUndisturbed
  <2> QED
    BY <1>0, <2>1, <2>2
<1>3. JoinFinished' /\ TerminalLast'
  <2>1. CASE ExecutorWaits
    BY <2>1 DEF ExecutorWaits, Truthful, JoinFinished, TerminalLast
  <2>2. CASE ExecutorActs
    BY <1>0, <2>2 DEF ExecutorActs, Plan, DrainCheck, DrainOutbox, EmitProgress, JoinWorkers,
       EmitCancelled, ResetRunning, Goto, TypeOK, Threads, Truthful, JoinFinished, TerminalLast,
       output
  <2> QED
    BY <1>0, <2>1, <2>2
<1>4. EndComplete'
  <2>1. CASE Ending({"drain", "emit", "join"}) \/ terminal = "result"
    BY <1>0, <2>1, CompleteStays DEF Truthful, EndComplete
  <2>2. CASE ~(Ending({"drain", "emit", "join"}) \/ terminal = "result")
    <3>1. CASE ExecutorWaits
      BY <2>2, <3>1 DEF ExecutorWaits, EndComplete, Ending
    <3>2. CASE DrainCheck
      <4>1. /\ UNCHANGED <<stream, counters, cancel_requested, terminal>>
            /\ pc'[Exec] \in {"drain", "emit", "join"} => finished' = StreamFinished
        BY <1>0, <3>2 DEF DrainCheck, Goto, TypeOK, Threads
      <4> QED
        BY <1>0, <2>2, <4>1, FinishedComplete
           DEF EndComplete, Ending, StreamComplete, stream, counters
    <3>3. CASE Plan \/ DrainOutbox \/ EmitProgress \/ JoinWorkers \/ EmitCancelled \/ ResetRunning
      <4>1. ~Ending({"drain", "emit", "join"})' /\ terminal' # "result"
        BY <1>0, <2>2, <3>3 DEF Plan, DrainOutbox, EmitProgress, JoinWorkers, EmitCancelled,
           ResetRunning, Goto, TypeOK, Threads, Truthful, JoinFinished, Ending, output
      <4> QED
        BY <4>1 DEF EndComplete
    <3> QED
      BY <1>0, <3>1, <3>2, <3>3 DEF ExecutorActs
  <2> QED
    BY <2>1, <2>2
<1>5. EndDrained'
  <2>1. CASE Ending({"emit", "join"}) \/ terminal = "result"
    <3>1. OnlyNulls /\ StreamComplete
      BY <2>1 DEF Truthful, EndDrained, EndComplete, Ending
    <3> QED
      BY <1>0, <3>1, NullsStay DEF EndDrained
  <2>2. CASE ~(Ending({"emit", "join"}) \/ terminal = "result")
    <3>1. CASE ExecutorWaits
      BY <2>2, <3>1 DEF ExecutorWaits, EndDrained, Ending
    <3>2. CASE DrainOutbox
      BY <3>2 DEF DrainOutbox, EndDrained, OnlyNulls
    <3>3. CASE Plan \/ DrainCheck \/ EmitProgress \/ JoinWorkers \/ EmitCancelled \/ ResetRunning
      <4>1. ~Ending({"emit", "join"})' /\ terminal' # "result"
        BY <1>0, <2>2, <3>3 DEF Plan, DrainCheck, EmitProgress, JoinWorkers, EmitCancelled,
           ResetRunning, Goto, TypeOK, Threads, Truthful, JoinFinished, Ending, output
      <4> QED
        BY <4>1 DEF EndDrained
    <3> QED
      BY <1>0, <3>1, <3>2, <3>3 DEF ExecutorActs
  <2> QED
    BY <2>1, <2>2
<1>6. CancelGone'
  <2>1. CASE pc[Exec] \in {"final_drain", "final_emit", "cancelled"} \/ terminal = "cancelled"
    BY <1>0, <2>1, GoneStays DEF Truthful, CancelGone, TerminalLast
  <2>2. CASE ~(pc[Exec] \in {"final_drain", "final_emit", "cancelled"} \/ terminal = "cancelled")
    <3>1. CASE ExecutorWaits
      BY <2>2, <3>1 DEF ExecutorWaits, CancelGone
    <3>2. CASE Plan
      BY <1>0, <2>2, <3>2
         DEF Plan, Goto, TypeOK, Threads, WorkersUnborn, WorkersGone, CancelGone
    <3>3. CASE JoinWorkers
      BY <1>0, <3>3
         DEF JoinWorkers, WorkersReturned, Goto, TypeOK, Threads, WorkersGone, CancelGone
    <3>4. CASE DrainCheck \/ DrainOutbox \/ EmitProgress \/ EmitCancelled \/ ResetRunning
      BY <1>0, <2>2, <3>4 DEF DrainCheck, DrainOutbox, EmitProgress, EmitCancelled,
         ResetRunning, Goto, TypeOK, Threads, CancelGone, output
    <3> QED
      BY <1>0, <3>1, <3>2, <3>3, <3>4 DEF ExecutorActs
  <2> QED
    BY <2>1, <2>2
<1>7. CancelDrained'
  <2>1. CASE pc[Exec] \in {"final_emit", "cancelled"} \/ terminal = "cancelled"
    BY <1>0, <2>1, GoneStays DEF Truthful, CancelGone, CancelDrained, TerminalLast
  <2>2. CASE ~(pc[Exec] \in {"final_emit", "cancelled"} \/ terminal = "cancelled")
    <3>1. CASE ExecutorWaits
      BY <2>2, <3>1 DEF ExecutorWaits, CancelDrained
    <3>2. CASE Plan \/ DrainOutbox
      BY <1>0, <2>2, <3>2
         DEF Plan, DrainOutbox, Goto, TypeOK, Threads, Truthful, PlanUndisturbed, CancelDrained
    <3>3. CASE DrainCheck \/ EmitProgress \/ JoinWorkers \/ EmitCancelled \/ ResetRunning
      BY <1>0, <2>2, <3>3 DEF DrainCheck, EmitProgress, JoinWorkers, EmitCancelled,
         ResetRunning, Goto, TypeOK, Threads, CancelDrained, output
    <3> QED
      BY <1>0, <3>1, <3>2, <3>3 DEF ExecutorActs
  <2> QED
    BY <2>1, <2>2
<1> QED
  BY <1>1, <1>2, <1>3, <1>4, <1>5, <1>6, <1>7 DEF Truthful

\* Nothing is received, counted or produced yet when the job is created.
LEMMA InitTruthful == Init => Truthful
<1> SUFFICES ASSUME Init PROVE Truthful
  OBVIOUS
<1>1. Uncounted = {} /\ Nulls = {}
  BY DEF Init, Uncounted, Nulls, Threads
<1>2. Produced = <<>>
  <2>1. delivered \in Seq(Entry) /\ delivered = <<>> /\ pending = <<>> /\ verify_outbox = <<>>
    BY DEF Init
  <2> QED
    BY <2>1, ConcatEmpty DEF Produced
<1>3. Successes(Produced) = 0
  <2>1. {i \in 1 .. Len(Produced) : Produced[i].ok} = {}
    BY <1>2
  <2> QED
    BY <2>1, FS_EmptySet DEF Successes
<1>4. Tally
  <2>1. /\ verify_completed = 0 /\ verify_failed = 0 /\ verify_received = 0
        /\ Len(verify_inbox) = 0 /\ Len(Produced) = 0
    BY <1>2 DEF Init
  <2> QED
    BY <1>1, <1>3, <2>1, FS_EmptySet DEF Tally
<1>5. pc[Exec] = "plan" /\ verify_outbox = <<>> /\ terminal = "none"
  BY DEF Init, Threads
<1> QED
  BY <1>4, <1>5 DEF Truthful, PlanUndisturbed, JoinFinished, EndComplete, EndDrained, CancelGone,
                    CancelDrained, TerminalLast, Ending

\* When the terminal event is out, what was delivered is all that was counted.
LEMMA TruthfulAccounts == IInv /\ Truthful => TerminalAccounts
<1> SUFFICES ASSUME IInv, Truthful PROVE TerminalAccounts
  OBVIOUS
<1>1. TypeOK /\ Tally
  BY DEF IInv, Truthful
<1>2. terminal # "none" => pending = <<>>
  BY DEF IInv, PendingEmpty, Truthful, TerminalLast
<1>3. delivered \in Seq(Entry) /\ verify_outbox \in Seq(Entry)
  BY <1>1 DEF TypeOK
<1>4. terminal # "none" => Produced = delivered \o verify_outbox
  BY <1>2, <1>3, ConcatEmpty DEF Produced
<1>5. ResultAccountsForAll /\ ResultReportsEverySuccess
  <2> SUFFICES ASSUME terminal = "result"
               PROVE  /\ StreamComplete /\ Uncounted = {}
                      /\ Successes(delivered) = verify_completed
    BY DEF ResultAccountsForAll, ResultReportsEverySuccess, StreamComplete
  <2>1. StreamComplete /\ OnlyNulls
    BY DEF Truthful, EndComplete, EndDrained
  <2>2. Successes(Produced) = Successes(delivered)
    BY <1>3, <1>4, <2>1, SuccessesOfNulls DEF OnlyNulls
  <2> QED
    BY <1>1, <2>1, <2>2, CompleteCounted DEF Tally
<1>6. CancelledMatchesDelivered
  <2> SUFFICES ASSUME terminal = "cancelled"
               PROVE  /\ Successes(delivered) = verify_completed
                      /\ Len(delivered) = verify_completed + verify_failed
    BY DEF CancelledMatchesDelivered
  <2>1. verify_outbox = <<>> /\ WorkersGone
    BY DEF Truthful, CancelDrained, CancelGone
  <2>2. Produced = delivered
    BY <1>3, <1>4, <2>1, ConcatEmpty
  <2>3. Nulls = {}
    BY <2>1 DEF WorkersGone, Nulls
  <2>4. Cardinality(Nulls) = 0 /\ Len(delivered) \in Nat
    BY <1>3, <2>3, FS_EmptySet
  <2> QED
    BY <1>1, <2>2, <2>4 DEF Tally
<1> QED
  BY <1>5, <1>6 DEF TerminalAccounts

-----------------------------------------------------------------------------
(* The contract.                                                           *)

Reported == {delivered[i].seq : i \in 1 .. Len(delivered)}

\* A batch that is emitted reports frames that were received and not reported before.
LEMMA EmitReports ==
    ASSUME IInv, EmitProgress
    PROVE  \E batch \in SUBSET ((0 .. verify_received - 1) \ Reported) :
               Reported' = Reported \cup batch
<1> DEFINE batch == {pending[i].seq : i \in 1 .. Len(pending)}
           sent == delivered \o pending
<1>1. /\ delivered \in Seq(Entry) /\ pending \in Seq(Entry) /\ verify_outbox \in Seq(Entry)
      /\ verify_received \in Nat /\ Len(verify_inbox) \in Nat
      /\ delivered' = sent
  BY DEF IInv, TypeOK, EmitProgress
<1>2. /\ sent \in Seq(Entry) /\ Len(sent) = Len(delivered) + Len(pending)
      /\ Len(delivered) \in Nat /\ Len(pending) \in Nat
      /\ \A i \in 1 .. Len(delivered) : i \in 1 .. Len(sent) /\ sent[i] = delivered[i]
      /\ \A i \in 1 .. Len(pending) : /\ Len(delivered) + i \in 1 .. Len(sent)
                                      /\ sent[Len(delivered) + i] = pending[i]
      /\ \A i \in 1 .. Len(sent) : \/ i \in 1 .. Len(delivered)
                                   \/ i - Len(delivered) \in 1 .. Len(pending)
  BY <1>1
<1>3. \A i \in 1 .. Len(sent) : i \in 1 .. Len(Produced) /\ Produced[i] = sent[i]
  <2>1. /\ Len(Produced) = Len(sent) + Len(verify_outbox) /\ Len(verify_outbox) \in Nat
        /\ \A i \in 1 .. Len(sent) : Produced[i] = sent[i]
    BY <1>1, <1>2, ConcatPrefix DEF Produced
  <2> HIDE DEF sent
  <2> QED
    BY <1>2, <2>1
<1>4. \A i \in 1 .. Len(sent) : sent[i].seq \in 0 .. verify_received - 1
  <2>0. \A i \in 1 .. Len(sent) : sent[i] \in Entry
    BY <1>2
  <2>1. \A i \in 1 .. Len(sent) : sent[i].seq < Taken
    BY <1>3 DEF IInv, NoFrameTwice, ProducedTaken
  <2>2. \A e \in Entry : e.seq \in Int /\ e.seq >= 0
    BY DEF Entry, Seqs
  <2>3. Taken \in Int /\ Taken <= verify_received
    BY <1>1 DEF Taken
  <2> HIDE DEF sent
  <2> QED
    BY <1>1, <2>0, <2>1, <2>2, <2>3
<1>5. \A i, j \in 1 .. Len(sent) : sent[i].seq = sent[j].seq => i = j
  BY <1>3 DEF IInv, NoFrameTwice, ProducedOnce, SeqsDiffer
<1>6. batch \in SUBSET ((0 .. verify_received - 1) \ Reported)
  <2> SUFFICES ASSUME NEW i \in 1 .. Len(pending)
               PROVE  /\ pending[i].seq \in 0 .. verify_received - 1
                      /\ \A j \in 1 .. Len(delivered) : delivered[j].seq # pending[i].seq
    BY DEF Reported
  <2>1. \A j \in 1 .. Len(delivered) : j # Len(delivered) + i
    BY <1>2
  <2> HIDE DEF sent
  <2> QED
    BY <1>2, <1>4, <1>5, <2>1
<1>7. Reported' = Reported \cup batch
  <2>1. Reported' = {sent[i].seq : i \in 1 .. Len(sent)}
    BY <1>1 DEF Reported
  <2>2. \A i \in 1 .. Len(sent) : ~(i \in 1 .. Len(delivered)) =>
            sent[i] = pending[i - Len(delivered)]
    <3>1. \A i \in 1 .. Len(sent) : i = Len(delivered) + (i - Len(delivered))
      BY <1>2
    <3> HIDE DEF sent
    <3> QED
      BY <1>2, <3>1
  <2> HIDE DEF sent
  <2>3. \A i \in 1 .. Len(sent) : sent[i].seq \in Reported \cup batch
    BY <1>2, <2>2 DEF Reported
  <2>4. \A i \in 1 .. Len(delivered) : delivered[i].seq \in Reported'
    BY <1>2, <2>1
  <2>5. \A i \in 1 .. Len(pending) : pending[i].seq \in Reported'
    BY <1>2, <2>1
  <2>6. Reported \subseteq Reported' /\ batch \subseteq Reported'
    BY <2>4, <2>5 DEF Reported
  <2>7. Reported' \subseteq Reported \cup batch
    BY <2>1, <2>3
  <2> QED
    BY <2>6, <2>7
<1> QED
  BY <1>6, <1>7

\* A step of the job that shows is a step of the contract.
LEMMA StepImplements ==
    ASSUME IInv, Truthful, [Next]_vars
    PROVE  [Contract!Next]_(Contract!vars)
<1>0. TypeOK
  BY DEF IInv
<1>1. ASSUME UNCHANGED <<verify_received, verify_stream_ended, delivered, terminal>>
      PROVE  UNCHANGED Contract!vars
  BY <1>1 DEF Contract!vars
<1> USE DEF stream, output
<1>2. CASE FindVerifyJob \/ RequestCancel \/ ReaderNotify \/ CancelNotify
  BY <1>1, <1>2 DEF FindVerifyJob, RequestCancel, ReaderNotify, CancelNotify
<1>3. CASE VerifyFrame
  <2>1. UNCHANGED <<verify_stream_ended, delivered, terminal>>
    BY <1>3 DEF VerifyFrame
  <2>2. \/ UNCHANGED verify_received
        \/ ~verify_stream_ended /\ verify_received' = verify_received + 1
    BY <1>3 DEF VerifyFrame
  <2> QED
    BY <1>1, <2>1, <2>2 DEF Contract!Next, Contract!Receive
<1>4. CASE VerifyEnd
  <2>1. UNCHANGED <<verify_received, delivered, terminal>>
    BY <1>4 DEF VerifyEnd
  <2>2. UNCHANGED verify_stream_ended \/ (~verify_stream_ended /\ verify_stream_ended')
    BY <1>4 DEF VerifyEnd
  <2> QED
    BY <1>1, <2>1, <2>2 DEF Contract!Next, Contract!End
<1>5. ASSUME NEW w \in Workers, Worker(w) PROVE UNCHANGED Contract!vars
  BY <1>1, <1>5 DEF Worker, WorkerCheck, Analyze, CountFailure, PushResult, WorkerNotify, Block
<1>6. CASE EmitProgress
  <2>1. terminal = "none"
    BY <1>6 DEF Truthful, TerminalLast, EmitProgress
  <2>2. UNCHANGED <<verify_received, verify_stream_ended, terminal>>
    BY <1>6 DEF EmitProgress
  <2>3. Contract!Report
    BY <1>6, <2>1, <2>2, EmitReports DEF Contract!Report, Reported
  <2> QED
    BY <2>3 DEF Contract!Next
<1>7. CASE Plan \/ JoinWorkers \/ EmitCancelled
  <2>1. terminal = "none"
    BY <1>7 DEF Truthful, TerminalLast, Plan, JoinWorkers, EmitCancelled
  <2>2. UNCHANGED <<verify_received, verify_stream_ended, delivered>>
    BY <1>7 DEF Plan, JoinWorkers, EmitCancelled
  <2>3. terminal' # terminal =>
            \/ terminal' = "result" /\ verify_stream_ended
            \/ terminal' \in {"cancelled", "error"}
    BY <1>7 DEF Plan, JoinWorkers, EmitCancelled, Truthful, JoinFinished, EndComplete, Ending,
                StreamComplete
  <2>4. terminal' # terminal => Contract!Settle
    BY <2>1, <2>2, <2>3 DEF Contract!Settle
  <2> QED
    BY <1>1, <2>2, <2>4 DEF Contract!Next
<1>8. CASE DrainCheck \/ Block(Exec) \/ DrainOutbox \/ ResetRunning
  BY <1>1, <1>8 DEF DrainCheck, Block, DrainOutbox, ResetRunning
<1>9. CASE UNCHANGED vars
  BY <1>1, <1>9 DEF vars
<1> QED
  BY <1>2, <1>3, <1>4, <1>5, <1>6, <1>7, <1>8, <1>9 DEF Next, ReaderContinues, Executor

-----------------------------------------------------------------------------
(* The theorems.                                                           *)

\* The invariant holds when the job is created.
LEMMA InitIInv == Init => IInv
<1> SUFFICES ASSUME Init PROVE IInv
  OBVIOUS
<1>1. Produced = <<>> /\ Taken = 0
  <2>1. delivered \in Seq(Entry) /\ delivered = <<>> /\ pending = <<>> /\ verify_outbox = <<>>
    BY DEF Init
  <2>2. Produced = <<>>
    BY <2>1, ConcatEmpty DEF Produced
  <2>3. verify_received = 0 /\ Len(verify_inbox) = 0
    BY DEF Init
  <2> QED
    BY <2>2, <2>3 DEF Taken
<1>2. PendingEmpty /\ WorkersUnborn
  BY DEF Init, PendingEmpty, WorkersUnborn, Threads
<1>3. InboxInOrder /\ HeldTaken /\ HeldDistinct
  BY DEF Init, InboxInOrder, HeldTaken, HeldDistinct
<1>4. ItemsHeld
  BY DEF Init, ItemsHeld, Holding, Threads
<1>5. ProducedTaken /\ ProducedNotHeld /\ ProducedOnce
  BY <1>1 DEF ProducedTaken, ProducedNotHeld, ProducedOnce, SeqsDiffer
<1> QED
  BY <1>2, <1>3, <1>4, <1>5, InitTypeOK DEF IInv, NoFrameTwice

\* Every step of every thread preserves the invariant.
LEMMA NextIInv == IInv /\ [Next]_vars => IInv'
  BY NextTypeOK, NextPendingEmpty, NextWorkersUnborn, NextNoFrameTwice DEF IInv, NoFrameTwice

\* The invariant holds in every state of every execution.
LEMMA Invariance == Spec => []IInv
  BY InitIInv, NextIInv, PTL DEF Spec

\* The stream's fields, the counters and the events keep their types, and every
\* thread is where its own code can be, for any number of workers and frames.
THEOREM TypesHold == Spec => []TypeOK
<1>1. IInv => TypeOK
  BY DEF IInv
<1> QED
  BY <1>1, Invariance, PTL

\* No frame is reported twice: what was delivered is a prefix of Produced, whose
\* sequence numbers differ.
THEOREM ReportedOnceHolds == Spec => []ReportedOnce
<1>1. IInv => ReportedOnce
  <2> SUFFICES ASSUME IInv PROVE ReportedOnce
    OBVIOUS
  <2>1. /\ delivered \in Seq(Entry) /\ pending \in Seq(Entry) /\ verify_outbox \in Seq(Entry)
        /\ delivered \o pending \in Seq(Entry)
    BY ConcatPrefix DEF IInv, TypeOK
  <2>2. /\ Len(delivered) \in Nat /\ Len(delivered) <= Len(delivered \o pending)
        /\ \A i \in 1 .. Len(delivered) : (delivered \o pending)[i] = delivered[i]
    BY <2>1, ConcatPrefix
  <2>3. /\ Len(delivered \o pending) <= Len(Produced)
        /\ \A i \in 1 .. Len(delivered \o pending) : Produced[i] = (delivered \o pending)[i]
    BY <2>1, ConcatPrefix DEF Produced
  <2>4. \A i \in 1 .. Len(delivered) : i \in 1 .. Len(Produced) /\ Produced[i] = delivered[i]
    <3>1. Len(delivered \o pending) \in Nat /\ Len(Produced) \in Nat
      BY <2>1, ConcatPrefix DEF Produced
    <3> QED
      BY <2>2, <2>3, <3>1
  <2> QED
    BY <2>4 DEF IInv, NoFrameTwice, ProducedOnce, SeqsDiffer, ReportedOnce
<1> QED
  BY <1>1, Invariance, PTL

\* The two halves of the invariant hold together in every state.
LEMMA TruthfulInvariance == Spec => [](IInv /\ Truthful)
<1>1. Init => IInv /\ Truthful
  BY InitIInv, InitTruthful
<1>2. (IInv /\ Truthful) /\ [Next]_vars => (IInv /\ Truthful)'
  BY NextIInv, NextTruthful
<1> QED
  BY <1>1, <1>2, PTL DEF Spec

\* The terminal event tells the truth and goes on to: a `result` quotes a complete stream with
\* every success reported, a `cancelled` the entries delivered so far, whichever thread the
\* cancellation overtakes.
THEOREM TerminalAccountsHolds == Spec => []TerminalAccounts
  BY TruthfulInvariance, TruthfulAccounts, PTL

\* The threads implement the promise of VerifyContract: frames are received in order, each is
\* reported at most once and only if it was received, the job settles once, a `result` only
\* after the end of the stream, and nothing is reported after that.
THEOREM ContractImplemented == Spec => ImplementsContract
<1>1. Init => Contract!Init
  BY DEF Init, Contract!Init
<1>2. (IInv /\ Truthful) /\ [Next]_vars => [Contract!Next]_(Contract!vars)
  BY StepImplements
<1> QED
  BY <1>1, <1>2, TruthfulInvariance, PTL DEF Spec, ImplementsContract, Contract!Spec
=============================================================================
