--------------------------- MODULE VulkanEngine_proof ---------------------------
(***************************************************************************)
(* Proofs about VulkanEngine, for any number of callers, slots, batches    *)
(* and decoder images, and any bounds on calls, failures and decodes.      *)
(*                                                                         *)
(* The two safety properties are about what the device reads long after    *)
(* the host has gone on, so neither is inductive.  IInv adds what ties the *)
(* two sides together: every busy slot has one caller and every caller a   *)
(* slot of its own; what a slot's queue holds is what its caller's place   *)
(* in analyze_axis_batch_impl says was submitted, conversion first; the    *)
(* buffers hold the caller's plan as soon as it is packed; the caller that *)
(* holds a frame's lock knows the frame's sem_value; and between a frame's *)
(* timeline and its sem_value there is one submission per value.           *)
(***************************************************************************)
EXTENDS VulkanEngine, FunctionTheorems, FiniteSetTheorems, WellFoundedInduction, TLAPS

-----------------------------------------------------------------------------
(* The invariant.                                                          *)

Submission == [kind : {"conversion", "analysis"}, image : Images \cup {Host}, wait : Nat,
               upload : BOOLEAN]
Owning == {"pack", "convert", "analyze", "wait", "release"}

CallType == [pc : {"idle", "lock", "acquire"} \cup Owning,
             image : Images \cup {Host, None}, batch : Batches \cup {None},
             slot : Nat \cup {None}, semaphore_value : Nat,
             upload_plan : BOOLEAN, conversion_submitted : BOOLEAN,
             outcome : {None, "ok", "error", "cancelled"}]
Plan == Batches \cup {None}
SlotType == [busy : BOOLEAN, fence : BOOLEAN, conversion_fence : BOOLEAN,
             resident : Plan, uploaded : BOOLEAN, host_plan : Plan, device_plan : Plan,
             device_source : Images \cup {Host, None},
             partials : {None} \cup [plan : Plan, source : Images \cup {Host, None}]]
ImageType == [lock : Callers \cup {None}, sem_value : Nat, timeline : Nat]

Types == /\ call \in [Callers -> CallType]
         /\ Slots \subseteq Nat /\ slots \in [Slots -> SlotType]
         /\ queue \in [Slots -> Seq(Submission)]
         /\ images \in [Images -> ImageType]
         /\ decoding \subseteq [image : Images, wait : Nat]
         /\ stop \in BOOLEAN /\ cache_plans \in BOOLEAN
         /\ calls \in 0 .. MaxCalls /\ failures \in 0 .. MaxFailures /\ decodes \in 0 .. MaxDecodes

\* What a call's place in analyze_axis_batch_impl says of the call.
CallShape(k) ==
    /\ k.slot # None <=> k.pc \in Owning
    /\ k.outcome # None <=> k.pc = "release"
    /\ k.pc # "idle" => k.image \in Images \cup {Host} /\ k.batch \in Batches
    /\ k.pc \in {"lock", "convert"} => k.image # Host
    /\ k.conversion_submitted => k.pc \in {"analyze", "wait", "release"} /\ k.image # Host
    /\ k.pc \in {"analyze", "wait"} /\ k.image # Host => k.conversion_submitted

Pending(q, kind) == \E n \in 1 .. Len(q) : q[n].kind = kind

\* A conversion is the first of a slot's work and an analysis the last; the fence of what
\* is pending is not signalled; and plans count as uploaded only when they are.
SlotShape(slot, q) ==
    /\ \A n \in 1 .. Len(q) : /\ q[n].kind = "conversion" => n = 1 /\ q[n].image # Host
                              /\ q[n].kind = "analysis" => n = Len(q)
    /\ Pending(q, "analysis") => ~slot.fence
    /\ Pending(q, "conversion") => ~slot.conversion_fence
    /\ slot.uploaded => q = <<>> /\ (cache_plans => slot.device_plan = slot.resident)

\* What the owner of a slot relies on.
OwnerShape(k, slot, q) ==
    /\ slot.busy
    /\ k.pc \in {"convert", "analyze"} => ~Pending(q, "analysis")
    /\ k.pc \in {"convert", "analyze", "wait"} =>
          /\ ~slot.uploaded
          /\ cache_plans => slot.resident = k.batch
          /\ IF k.upload_plan THEN slot.host_plan = k.batch ELSE slot.device_plan = k.batch
    /\ k.pc \in {"analyze", "wait"} =>
          /\ \A n \in 1 .. Len(q) :
                /\ q[n].image = k.image
                /\ q[n].upload = (k.upload_plan /\ (q[n].kind = "analysis" => k.image = Host))
          /\ k.image # Host /\ ~Pending(q, "conversion") =>
                slot.device_plan = k.batch /\ slot.device_source = k.image
    /\ k.pc = "wait" =>
          /\ q # <<>> => q[Len(q)].kind = "analysis"
          /\ q = <<>> => /\ slot.device_plan = k.batch
                         /\ slot.partials = [plan |-> k.batch, source |-> k.image]
    /\ k.outcome = "ok" =>
          q = <<>> /\ slot.partials = [plan |-> k.batch, source |-> k.image]

CallsInv == \A c \in Callers : CallShape(call[c])
SlotsInv == \A s \in Slots : SlotShape(slots[s], queue[s])
OwnersInv ==
    /\ \A c \in Callers : call[c].slot # None =>
          /\ call[c].slot \in Slots
          /\ OwnerShape(call[c], slots[call[c].slot], queue[call[c].slot])
    /\ \A c, d \in Callers : call[c].slot # None /\ call[c].slot = call[d].slot => c = d

\* The call a pending conversion belongs to has not returned.
Converts(c, s, work) ==
    /\ call[c].slot = s /\ call[c].image = work.image /\ call[c].conversion_submitted
    /\ call[c].outcome \in {None, "error"}
ConversionsInv ==
    \A s \in Slots : \A n \in 1 .. Len(queue[s]) :
        queue[s][n].kind = "conversion" => \E c \in Callers : Converts(c, s, queue[s][n])

\* The frame is locked by the one call that has not submitted its conversion, which
\* knows its value.
LocksInv ==
    /\ \A i \in Images, c \in Callers : images[i].lock = c =>
          /\ call[c].image = i /\ ~call[c].conversion_submitted
          /\ call[c].pc \in {"acquire", "pack", "convert", "release"}
    /\ \A c \in Callers : call[c].pc \in {"acquire", "pack", "convert"} /\ call[c].image # Host =>
          /\ images[call[c].image].lock = c
          /\ images[call[c].image].sem_value = call[c].semaphore_value

\* The slot whose pending conversion of the image waits for the value k.
WaitsAt(s, i, k) == /\ queue[s] # <<>> /\ queue[s][1].kind = "conversion"
                    /\ queue[s][1].image = i /\ queue[s][1].wait = k
Decode(i, k) == [image |-> i, wait |-> k]

\* Exactly one submission waits for each value the device has still to reach.
ValuesInv ==
    \A i \in Images :
        /\ images[i].timeline <= images[i].sem_value
        /\ \A k \in Nat :
              /\ k \in images[i].timeline .. images[i].sem_value - 1 <=>
                    Decode(i, k) \in decoding \/ \E s \in Slots : WaitsAt(s, i, k)
              /\ \A s \in Slots : WaitsAt(s, i, k) =>
                    Decode(i, k) \notin decoding /\ \A t \in Slots : WaitsAt(t, i, k) => s = t

IInv == /\ Types /\ CallsInv /\ SlotsInv /\ OwnersInv /\ ConversionsInv /\ LocksInv /\ ValuesInv

-----------------------------------------------------------------------------
(* Sequences and least elements.                                           *)

\* What appending to a sequence leaves in place.
LEMMA AppendIs ==
    ASSUME NEW S, NEW q \in Seq(S), NEW w \in S
    PROVE  /\ Append(q, w) \in Seq(S)
           /\ Len(Append(q, w)) = Len(q) + 1 /\ Len(q) \in Nat
           /\ \A n \in 1 .. Len(q) : Append(q, w)[n] = q[n]
           /\ Append(q, w)[Len(q) + 1] = w
           /\ Append(q, w) # <<>>
  OBVIOUS

\* What taking the first element off leaves in place.
LEMMA TailIs ==
    ASSUME NEW S, NEW q \in Seq(S), q # <<>>
    PROVE  /\ Head(q) = q[1] /\ Head(q) \in S
           /\ Tail(q) \in Seq(S)
           /\ Len(q) \in Nat /\ Len(Tail(q)) = Len(q) - 1 /\ Len(q) >= 1
           /\ \A n \in 1 .. Len(Tail(q)) : Tail(q)[n] = q[n + 1]
  OBVIOUS

\* An empty sequence.
LEMMA EmptyIs ==
    ASSUME NEW S, NEW q \in Seq(S)
    PROVE  Len(q) \in Nat /\ (q = <<>> <=> Len(q) = 0)
  OBVIOUS

\* Positions that are all the first are one at most.
LEMMA AtMostOne ==
    ASSUME NEW n \in Nat, \A k \in 1 .. n : k = 1
    PROVE  n \in {0, 1}
<1>1. CASE n >= 2
  <2>1. 2 \in 1 .. n
    BY <1>1
  <2> QED
    BY <2>1
<1> QED
  BY <1>1

\* A non-empty set of naturals has a least element, so Min is defined on it.
LEMMA LeastNat ==
    ASSUME NEW S, S \subseteq Nat, S # {}
    PROVE  \E x \in S : \A y \in S : x <= y
<1>1. PICK x \in S : \A y \in S : ~ (<<y, x>> \in OpToRel(<, Nat))
  BY NatLessThanWellFounded, WFMin
<1>2. \A y \in S : ~(y < x)
  BY <1>1 DEF OpToRel
<1> QED
  BY <1>2

\* The slot a call takes is a free one.
LEMMA FreeSlot ==
    ASSUME Types, Free # {}
    PROVE  Min(Free) \in Slots /\ ~slots[Min(Free)].busy
<1>1. Free \subseteq Nat /\ Free \subseteq Slots
  BY DEF Types, Free
<1>2. Min(Free) \in Free
  BY <1>1, LeastNat DEF Min
<1> QED
  BY <1>2 DEF Free

\* The invariant holds when the backend has been set up.
LEMMA InitIInv ==
    ASSUME Init
    PROVE  IInv
<1>1. PICK m \in SlotCounts : slots = [s \in 1 .. m |-> NewSlot]
  BY DEF Init
<1>2. m \in Nat
  BY VulkanBoundsOK
<1>3. Slots = 1 .. m /\ \A s \in Slots : slots[s] = NewSlot
  BY <1>1, <1>2 DEF Slots
<1>4. /\ call = [c \in Callers |-> IdleCall]
      /\ queue = [s \in Slots |-> <<>>]
      /\ images = [i \in Images |-> [lock |-> None, sem_value |-> 0, timeline |-> 0]]
      /\ decoding = {} /\ cache_plans \in BOOLEAN
      /\ stop = FALSE /\ calls = 0 /\ failures = 0 /\ decodes = 0
  BY VulkanBoundsOK DEF Init
<1>5. NewSlot \in SlotType /\ IdleCall \in CallType
  BY DEF NewSlot, SlotType, Plan, IdleCall, CallType
<1>6. Types
  <2>1. \A s \in Slots : queue[s] \in Seq(Submission)
    BY <1>4
  <2>2. slots \in [Slots -> SlotType]
    BY <1>1, <1>3, <1>5
  <2>3. [lock |-> None, sem_value |-> 0, timeline |-> 0] \in ImageType
    BY DEF ImageType
  <2>4. images \in [Images -> ImageType] /\ call \in [Callers -> CallType]
    BY <1>4, <1>5, <2>3
  <2>5. queue \in [Slots -> Seq(Submission)]
    BY <1>4, <2>1
  <2>6. Slots \subseteq Nat
    BY <1>2, <1>3
  <2>7. calls \in 0 .. MaxCalls /\ failures \in 0 .. MaxFailures /\ decodes \in 0 .. MaxDecodes
    BY <1>4, VulkanBoundsOK
  <2> QED
    BY <1>4, <2>2, <2>4, <2>5, <2>6, <2>7 DEF Types
<1>7. CallsInv
  BY <1>4 DEF CallsInv, CallShape, IdleCall, Owning
<1>8. SlotsInv /\ ConversionsInv
  BY <1>3, <1>4 DEF SlotsInv, SlotShape, ConversionsInv, NewSlot, Pending
<1>9. OwnersInv
  BY <1>4 DEF OwnersInv, IdleCall
<1>10. LocksInv
  BY <1>4, VulkanBoundsOK DEF LocksInv, IdleCall
<1>11. ValuesInv
  BY <1>4 DEF ValuesInv, WaitsAt
<1> QED
  BY <1>6, <1>7, <1>8, <1>9, <1>10, <1>11 DEF IInv

-----------------------------------------------------------------------------
(* What a step leaves alone.                                               *)

\* A step that rewrites one call keeps the calls well typed.
LEMMA CallUpdate ==
    ASSUME Types, NEW c \in Callers, NEW k \in CallType, call' = [call EXCEPT ![c] = k]
    PROVE  /\ call' \in [Callers -> CallType] /\ call'[c] = k
           /\ \A d \in Callers : d # c => call'[d] = call[d]
  BY DEF Types

\* A step that rewrites one slot keeps the slots well typed.
LEMMA SlotUpdate ==
    ASSUME Types, NEW s \in Slots, NEW r \in SlotType, slots' = [slots EXCEPT ![s] = r]
    PROVE  /\ Slots' = Slots /\ slots' \in [Slots -> SlotType] /\ slots'[s] = r
           /\ \A t \in Slots : t # s => slots'[t] = slots[t]
  BY DEF Types, Slots

\* A caller's step that changes nothing but its own call and its own slot.
LEMMA CallerStep ==
    ASSUME IInv, NEW c \in Callers, NEW k \in CallType, CallShape(k),
           call' = [call EXCEPT ![c] = k], Slots' = Slots, cache_plans' = cache_plans,
           \A s \in Slots : s # call[c].slot => slots'[s] = slots[s] /\ queue'[s] = queue[s],
           k.slot \in {call[c].slot, None},
           k.slot # None =>
              OwnerShape(call[c], slots[call[c].slot], queue[call[c].slot])',
           \A s \in Slots : s = call[c].slot => SlotShape(slots[s], queue[s])'
    PROVE  CallsInv' /\ OwnersInv' /\ SlotsInv'
<1>1. /\ call'[c] = k /\ \A d \in Callers : d # c => call'[d] = call[d]
  BY CallUpdate DEF IInv
<1>2. CallsInv'
  BY <1>1 DEF IInv, CallsInv
<1>3. \A d \in Callers : call'[d].slot # None => call'[d].slot = call[d].slot
  BY <1>1
<1>4. ASSUME NEW d \in Callers, call'[d].slot # None
      PROVE  /\ call'[d].slot \in Slots'
             /\ OwnerShape(call[d], slots[call[d].slot], queue[call[d].slot])'
  <2>1. /\ call[d].slot \in Slots /\ call'[d].slot = call[d].slot
        /\ OwnerShape(call[d], slots[call[d].slot], queue[call[d].slot])
    BY <1>3, <1>4 DEF IInv, OwnersInv
  <2>2. CASE d = c
    BY <2>1, <2>2, <1>1, <1>4
  <2>3. CASE d # c
    <3>1. call[d].slot # call[c].slot
      BY <2>1, <2>3, <1>3, <1>4 DEF IInv, OwnersInv
    <3>2. /\ call'[d] = call[d] /\ slots'[call[d].slot] = slots[call[d].slot]
          /\ queue'[call[d].slot] = queue[call[d].slot]
      BY <1>1, <2>1, <2>3, <3>1
    <3> QED
      BY <2>1, <3>2 DEF OwnerShape
  <2> QED
    BY <2>2, <2>3
<1>5. OwnersInv'
  BY <1>3, <1>4 DEF IInv, OwnersInv
<1>6. SlotsInv'
  <2> SUFFICES ASSUME NEW s \in Slots PROVE SlotShape(slots[s], queue[s])'
    BY DEF SlotsInv
  <2>1. CASE s = call[c].slot
    BY <2>1
  <2>2. CASE s # call[c].slot
    BY <2>2 DEF IInv, SlotsInv, SlotShape
  <2> QED
    BY <2>1, <2>2
<1> QED
  BY <1>2, <1>5, <1>6

\* A step that leaves the locks and what every call relies on keeps LocksInv.
LEMMA LocksKeep ==
    ASSUME IInv, NEW c \in Callers, NEW k \in CallType,
           call' = [call EXCEPT ![c] = k], images' = images,
           \A i \in Images : images[i].lock = c =>
               /\ k.image = call[c].image /\ ~k.conversion_submitted
               /\ k.pc \in {"acquire", "pack", "convert", "release"},
           k.pc \in {"acquire", "pack", "convert"} /\ k.image # Host =>
               /\ call[c].pc \in {"acquire", "pack", "convert"} /\ k.image = call[c].image
               /\ k.semaphore_value = call[c].semaphore_value
    PROVE  LocksInv'
<1>1. /\ call'[c] = k /\ \A d \in Callers : d # c => call'[d] = call[d]
  BY CallUpdate DEF IInv
<1> QED
  BY <1>1 DEF IInv, LocksInv

\* Every pending conversion is still its caller's after a step that keeps the queues.
LEMMA ConversionsKeep ==
    ASSUME IInv, NEW c \in Callers, NEW k \in CallType,
           call' = [call EXCEPT ![c] = k], Slots' = Slots, queue' = queue,
           call[c].slot # None /\ Pending(queue[call[c].slot], "conversion") =>
               /\ k.slot = call[c].slot /\ k.image = call[c].image
               /\ k.conversion_submitted = call[c].conversion_submitted
               /\ k.outcome \in {None, "error"}
    PROVE  ConversionsInv'
<1>1. /\ call'[c] = k /\ \A d \in Callers : d # c => call'[d] = call[d]
  BY CallUpdate DEF IInv
<1>2. ASSUME NEW s \in Slots, NEW n \in 1 .. Len(queue[s]), queue[s][n].kind = "conversion"
      PROVE  \E d \in Callers : Converts(d, s, queue[s][n])'
  <2>1. PICK d \in Callers : Converts(d, s, queue[s][n])
    BY <1>2 DEF IInv, ConversionsInv
  <2>2. CASE d # c
    BY <1>1, <2>1, <2>2 DEF Converts
  <2>3. CASE d = c
    <3>1. call[c].slot = s /\ s # None
      BY <2>1, <2>3, VulkanBoundsOK DEF Converts, IInv, Types
    <3>2. Pending(queue[s], "conversion")
      BY <1>2 DEF Pending
    <3> QED
      BY <1>1, <2>1, <2>3, <3>1, <3>2 DEF Converts
  <2> QED
    BY <2>2, <2>3
<1> QED
  BY <1>2 DEF ConversionsInv

\* The timelines, the queues and the decodes unchanged, so is who signals which value.
LEMMA ValuesKeep ==
    ASSUME IInv, Slots' = Slots, decoding' = decoding,
           \A i \in Images : /\ images'[i].sem_value = images[i].sem_value
                             /\ images'[i].timeline = images[i].timeline,
           \A s \in Slots, i \in Images, k \in Nat : WaitsAt(s, i, k)' <=> WaitsAt(s, i, k)
    PROVE  ValuesInv'
  BY DEF IInv, ValuesInv, Decode

\* The frame lock given up.
LEMMA UnlockKeeps ==
    ASSUME IInv, NEW c \in Callers, call' = [call EXCEPT ![c] = IdleCall], images' = Unlocked(c)
    PROVE  /\ images' \in [Images -> ImageType] /\ LocksInv'
           /\ \A i \in Images : /\ images'[i].sem_value = images[i].sem_value
                                /\ images'[i].timeline = images[i].timeline
<1>1. /\ call'[c] = IdleCall /\ \A d \in Callers : d # c => call'[d] = call[d]
  BY DEF IInv, Types
<1>2. ASSUME NEW i \in Images
      PROVE  /\ images'[i] \in ImageType
             /\ images'[i].sem_value = images[i].sem_value
             /\ images'[i].timeline = images[i].timeline
             /\ images'[i].lock = IF images[i].lock = c THEN None ELSE images[i].lock
  BY DEF Unlocked, IInv, Types, ImageType
<1>3. images' \in [Images -> ImageType]
  BY <1>2 DEF Unlocked
<1>4. LocksInv'
  <2>1. c # None /\ IdleCall.pc = "idle"
    BY VulkanBoundsOK DEF IdleCall
  <2>2. \A d \in Callers : d # c => \A i \in Images : images[i].lock = d => images'[i].lock = d
    BY <1>2
  <2>3. \A i \in Images : images'[i].lock # c
    BY <1>2, <2>1
  <2>4. \A i \in Images : images'[i].lock # None => images'[i].lock = images[i].lock
    BY <1>2
  <2>5. \A d \in Callers : d # None
    BY VulkanBoundsOK
  <2>6. \A d \in Callers : call[d].pc \in {"acquire", "pack", "convert"} /\ call[d].image # Host
                             => call[d].image \in Images
    BY DEF IInv, CallsInv, CallShape
  <2> QED
    BY <1>1, <1>2, <2>1, <2>2, <2>3, <2>4, <2>5, <2>6 DEF IInv, LocksInv
<1> QED
  BY <1>2, <1>3, <1>4

-----------------------------------------------------------------------------
(* The callers.                                                            *)

\* A call comes in and holds nothing yet.
LEMMA CallKeeps ==
    ASSUME IInv, NEW c \in Callers, Call(c)
    PROVE  IInv'
<1>1. PICK input \in Inputs :
          call' = [call EXCEPT ![c] = [IdleCall EXCEPT
                      !.image = input[1], !.batch = input[2],
                      !.pc = IF input[1] = Host THEN "acquire" ELSE "lock"]]
  BY DEF Call
<1> DEFINE k == [IdleCall EXCEPT !.image = input[1], !.batch = input[2],
                                 !.pc = IF input[1] = Host THEN "acquire" ELSE "lock"]
<1>2. input[1] \in Images \cup {Host} /\ input[2] \in Batches
  BY VulkanBoundsOK
<1>3. /\ k.image = input[1] /\ k.batch = input[2] /\ k.slot = None /\ k.outcome = None
      /\ k.pc = (IF input[1] = Host THEN "acquire" ELSE "lock") /\ ~k.conversion_submitted
  BY DEF IdleCall
<1>4. k \in CallType
  BY <1>2 DEF IdleCall, CallType
<1>5. CallShape(k)
  BY <1>2, <1>3 DEF CallShape, Owning
<1>6. UNCHANGED <<slots, queue, images, decoding, stop, cache_plans, failures, decodes>>
      /\ calls' = calls + 1 /\ calls < MaxCalls /\ call[c].pc = "idle"
  BY DEF Call, At
<1>7. call[c].slot = None
  BY <1>6 DEF IInv, CallsInv, CallShape, Owning
<1>8. Slots' = Slots
  BY <1>6 DEF Slots
<1>9. call' = [call EXCEPT ![c] = k]
  BY <1>1
<1> HIDE DEF k
<1>10. Types'
  BY SMTT(20), <1>4, <1>6, <1>8, <1>9, CallUpdate, VulkanBoundsOK DEF IInv, Types
<1>11. CallsInv' /\ OwnersInv' /\ SlotsInv'
  <2>1. \A s \in Slots : s # None
    BY VulkanBoundsOK DEF IInv, Types
  <2> QED
    BY <1>3, <1>4, <1>5, <1>6, <1>7, <1>8, <1>9, <2>1, CallerStep
<1>12. LocksInv'
  <2>1. \A i \in Images : images[i].lock # c
    BY <1>6 DEF IInv, LocksInv
  <2>2. ~(k.pc \in {"acquire", "pack", "convert"} /\ k.image # Host)
    BY <1>3
  <2>3. images' = images
    BY <1>6
  <2> QED
    BY <1>4, <1>9, <2>1, <2>2, <2>3, LocksKeep
<1>13. ConversionsInv'
  BY <1>4, <1>6, <1>7, <1>8, <1>9, ConversionsKeep
<1>14. ValuesInv'
  BY <1>6, <1>8, ValuesKeep DEF WaitsAt
<1> QED
  BY <1>10, <1>11, <1>12, <1>13, <1>14 DEF IInv

\* A stop is requested: no call, slot or queue changes.
LEMMA StopKeeps ==
    ASSUME IInv, RequestStop \/ UNCHANGED vars
    PROVE  IInv'
<1>1. UNCHANGED <<call, slots, queue, images, decoding, bounds>> /\ stop' \in BOOLEAN
  BY DEF RequestStop, vars, IInv, Types
<1>2. Slots' = Slots
  BY <1>1 DEF Slots
<1>3. Types'
  BY <1>1, <1>2 DEF IInv, Types, bounds
<1>4. CallsInv' /\ ConversionsInv' /\ LocksInv'
  BY <1>1, <1>2 DEF IInv, CallsInv, ConversionsInv, LocksInv, Converts
<1>5. SlotsInv' /\ OwnersInv'
  BY <1>1, <1>2 DEF IInv, SlotsInv, OwnersInv, SlotShape, OwnerShape, bounds
<1>6. ValuesInv'
  BY <1>1, <1>2, ValuesKeep DEF WaitsAt
<1> QED
  BY <1>3, <1>4, <1>5, <1>6 DEF IInv

\* Nothing of a call, of a slot or of its work changes.
LEMMA LockFrameKeeps ==
    ASSUME IInv, NEW c \in Callers, LockFrame(c)
    PROVE  IInv'
<1> DEFINE i0 == call[c].image
           k == [call[c] EXCEPT !.pc = "acquire", !.semaphore_value = images[i0].sem_value]
<1>1. /\ call[c].pc = "lock" /\ images[i0].lock = None
      /\ images' = [images EXCEPT ![i0].lock = c]
      /\ UNCHANGED <<slots, queue, decoding, stop, bounds>>
  BY DEF LockFrame, At
<1>2. call[c] \in CallType /\ CallShape(call[c])
  BY DEF IInv, Types, CallsInv
<1>3. call' = [call EXCEPT ![c] = k]
  BY DEF LockFrame, IInv, Types
<1>4. i0 \in Images /\ images[i0].sem_value \in Nat
  BY <1>1, <1>2 DEF CallShape, IInv, Types, ImageType
<1>5. k \in CallType
  BY <1>2, <1>4 DEF CallType
<1>6. /\ k.pc = "acquire" /\ k.semaphore_value = images[i0].sem_value
      /\ k.image = call[c].image /\ k.batch = call[c].batch /\ k.slot = call[c].slot
      /\ k.outcome = call[c].outcome /\ k.conversion_submitted = call[c].conversion_submitted
  BY <1>2 DEF CallType
<1> HIDE DEF k
<1>7. CallShape(k) /\ call[c].slot = None /\ k.image = i0 /\ ~k.conversion_submitted
  BY <1>1, <1>2, <1>6 DEF CallShape, Owning
<1>8. Slots' = Slots
  BY <1>1 DEF Slots
<1>9. /\ images' \in [Images -> ImageType]
      /\ \A i \in Images : /\ images'[i].sem_value = images[i].sem_value
                           /\ images'[i].timeline = images[i].timeline
                           /\ images'[i].lock = IF i = i0 THEN c ELSE images[i].lock
  BY <1>1, <1>4 DEF IInv, Types, ImageType
<1>10. Types'
  BY <1>1, <1>3, <1>5, <1>8, <1>9, CallUpdate DEF IInv, Types, bounds
<1>11. CallsInv' /\ OwnersInv' /\ SlotsInv'
  <2>1. \A s \in Slots : s # None
    BY VulkanBoundsOK DEF IInv, Types
  <2> QED
    BY <1>1, <1>3, <1>5, <1>6, <1>7, <1>8, <2>1, CallerStep DEF bounds
<1>12. LocksInv'
  <2>1. /\ call'[c] = k /\ \A d \in Callers : d # c => call'[d] = call[d]
    BY <1>3, <1>5, CallUpdate DEF IInv
  <2>2. \A i \in Images : images[i].lock # c
    BY <1>1 DEF IInv, LocksInv
  <2>3. \A d \in Callers : d # None
    BY VulkanBoundsOK
  <2>4. ASSUME NEW d \in Callers, call'[d].pc \in {"acquire", "pack", "convert"},
               call'[d].image # Host
        PROVE  /\ images'[call'[d].image].lock = d
               /\ images'[call'[d].image].sem_value = call'[d].semaphore_value
    <3>1. CASE d = c
      BY <2>1, <3>1, <1>6, <1>7, <1>9, <1>4
    <3>2. CASE d # c
      <4>1. /\ call'[d] = call[d] /\ images[call[d].image].lock = d
            /\ images[call[d].image].sem_value = call[d].semaphore_value
        BY <2>1, <2>4, <3>2 DEF IInv, LocksInv
      <4>2. call[d].image # i0 /\ call[d].image \in Images
        BY <1>1, <2>3, <2>4, <4>1 DEF IInv, CallsInv, CallShape
      <4> QED
        BY <1>9, <4>1, <4>2
    <3> QED
      BY <3>1, <3>2
  <2>5. ASSUME NEW i \in Images, NEW d \in Callers, images'[i].lock = d
        PROVE  /\ call'[d].image = i /\ ~call'[d].conversion_submitted
               /\ call'[d].pc \in {"acquire", "pack", "convert", "release"}
    <3>1. CASE i = i0
      BY <1>6, <1>7, <1>9, <2>1, <2>5, <3>1
    <3>2. CASE i # i0
      BY <1>9, <2>1, <2>2, <2>5, <3>2 DEF IInv, LocksInv
    <3> QED
      BY <3>1, <3>2
  <2> QED
    BY <2>4, <2>5 DEF LocksInv
<1>13. ConversionsInv'
  BY <1>1, <1>3, <1>5, <1>7, <1>8, ConversionsKeep
<1>14. ValuesInv'
  BY <1>1, <1>8, <1>9, ValuesKeep DEF WaitsAt
<1> QED
  BY <1>10, <1>11, <1>12, <1>13, <1>14 DEF IInv

-----------------------------------------------------------------------------
(* The slot: taking it and giving it back.                                 *)

\* A conversion is pending only while the call that submitted it is.
LEMMA NoConversion ==
    ASSUME IInv, NEW c \in Callers, call[c].slot # None,
           ~(call[c].conversion_submitted /\ call[c].outcome \in {None, "error"})
    PROVE  ~Pending(queue[call[c].slot], "conversion")
<1> DEFINE s == call[c].slot
<1> SUFFICES ASSUME NEW n \in 1 .. Len(queue[s]), queue[s][n].kind = "conversion" PROVE FALSE
  BY DEF Pending
<1>1. s \in Slots
  BY DEF IInv, OwnersInv
<1>2. PICK d \in Callers : Converts(d, s, queue[s][n])
  BY <1>1 DEF IInv, ConversionsInv
<1>3. d = c
  BY <1>2 DEF Converts, IInv, OwnersInv
<1> QED
  BY <1>2, <1>3 DEF Converts

\* Once the fence is signalled and no conversion is pending, nothing is.
LEMMA QuietSlot ==
    ASSUME IInv, NEW s \in Slots, ~Pending(queue[s], "conversion"), ~Pending(queue[s], "analysis")
    PROVE  queue[s] = <<>> /\ Len(queue[s]) = 0
<1>1. queue[s] \in Seq(Submission)
  BY DEF IInv, Types
<1>2. \A n \in 1 .. Len(queue[s]) : queue[s][n].kind \in {"conversion", "analysis"}
  <2>1. \A n \in 1 .. Len(queue[s]) : queue[s][n] \in Submission
    BY <1>1
  <2> QED
    BY <2>1 DEF Submission
<1>3. Len(queue[s]) \in Nat /\ (queue[s] = <<>> <=> Len(queue[s]) = 0)
  BY <1>1, EmptyIs
<1> QED
  BY <1>2, <1>3 DEF Pending

\* A caller takes a free slot, whatever earlier calls have left in it.
LEMMA AcquireSlotKeeps ==
    ASSUME IInv, NEW c \in Callers, AcquireSlot(c)
    PROVE  IInv'
<1>1. /\ call[c].pc = "acquire"
      /\ UNCHANGED <<queue, decoding, stop, bounds>>
  BY DEF AcquireSlot, At
<1>2. call[c] \in CallType /\ CallShape(call[c])
  BY DEF IInv, Types, CallsInv
<1>3. call[c].slot = None
  BY <1>1, <1>2 DEF CallShape, Owning
<1>4. CASE /\ Free # {}
           /\ slots' = [slots EXCEPT ![Min(Free)].busy = TRUE]
           /\ call' = [call EXCEPT ![c].pc = "pack", ![c].slot = Min(Free)]
           /\ UNCHANGED images
  <2>0. PICK s \in Slots : s = Min(Free) /\ ~slots[s].busy
    BY <1>4, FreeSlot DEF IInv
  <2>1. s # None /\ s \in Nat
    BY VulkanBoundsOK DEF IInv, Types
  <2> DEFINE k == [call[c] EXCEPT !.pc = "pack", !.slot = s]
             r == [slots[s] EXCEPT !.busy = TRUE]
  <2>2. call' = [call EXCEPT ![c] = k] /\ slots' = [slots EXCEPT ![s] = r]
    BY <1>4, <2>0 DEF IInv, Types
  <2>3. slots[s] \in SlotType
    BY <2>1 DEF IInv, Types
  <2>4. k \in CallType /\ r \in SlotType
    BY <1>2, <2>1, <2>3 DEF CallType, SlotType, Owning
  <2>5. /\ k.pc = "pack" /\ k.slot = s /\ k.image = call[c].image /\ k.batch = call[c].batch
        /\ k.outcome = call[c].outcome /\ k.conversion_submitted = call[c].conversion_submitted
        /\ k.semaphore_value = call[c].semaphore_value
    BY <1>2 DEF CallType
  <2>6. /\ r.busy /\ r.fence = slots[s].fence /\ r.conversion_fence = slots[s].conversion_fence
        /\ r.uploaded = slots[s].uploaded /\ r.device_plan = slots[s].device_plan
        /\ r.resident = slots[s].resident
    BY <2>3 DEF SlotType
  <2> HIDE DEF k, r
  <2>7. /\ call'[c] = k /\ \A d \in Callers : d # c => call'[d] = call[d]
    BY <2>2, <2>4, CallUpdate DEF IInv
  <2>8. /\ Slots' = Slots /\ slots' \in [Slots -> SlotType] /\ slots'[s] = r
        /\ \A t \in Slots : t # s => slots'[t] = slots[t]
    BY <2>1, <2>2, <2>4, SlotUpdate DEF IInv
  <2>9. Types'
    BY <1>1, <1>4, <2>2, <2>4, <2>8, CallUpdate DEF IInv, Types, bounds
  <2>10. CallShape(k) /\ ~k.conversion_submitted /\ k.outcome = None
    BY <1>1, <1>2, <2>1, <2>5 DEF CallShape, Owning
  <2>11. CallsInv'
    BY <2>7, <2>10 DEF IInv, CallsInv
  <2>12. SlotsInv'
    <3> SUFFICES ASSUME NEW t \in Slots PROVE SlotShape(slots[t], queue[t])'
      BY <2>8 DEF SlotsInv
    <3>1. queue'[t] = queue[t] /\ cache_plans' = cache_plans /\ SlotShape(slots[t], queue[t])
      BY <1>1 DEF bounds, IInv, SlotsInv
    <3>2. CASE t = s
      BY <2>6, <2>8, <3>1, <3>2 DEF SlotShape
    <3>3. CASE t # s
      BY <2>8, <3>1, <3>3 DEF SlotShape
    <3> QED
      BY <3>2, <3>3
  <2>13. OwnersInv'
    <3>1. \A d \in Callers : call[d].slot # s
      BY <2>0, <2>1 DEF IInv, OwnersInv, OwnerShape
    <3>2. OwnerShape(call[c], slots[s], queue[s])'
      BY <2>5, <2>6, <2>7, <2>8, <2>10, VulkanBoundsOK DEF OwnerShape
    <3>3. ASSUME NEW d \in Callers, call'[d].slot # None
          PROVE  /\ call'[d].slot \in Slots'
                 /\ OwnerShape(call[d], slots[call[d].slot], queue[call[d].slot])'
      <4>1. CASE d = c
        BY <2>1, <2>5, <2>7, <2>8, <3>2, <4>1
      <4>2. CASE d # c
        <5>1. /\ call'[d] = call[d] /\ call[d].slot \in Slots /\ call[d].slot # s
              /\ OwnerShape(call[d], slots[call[d].slot], queue[call[d].slot])
          BY <2>7, <3>1, <3>3, <4>2 DEF IInv, OwnersInv
        <5> QED
          BY <1>1, <2>8, <5>1 DEF OwnerShape, bounds
      <4> QED
        BY <4>1, <4>2
    <3>4. ASSUME NEW d \in Callers, NEW e \in Callers, call'[d].slot # None,
                 call'[d].slot = call'[e].slot
          PROVE  d = e
      BY <2>5, <2>7, <3>1, <3>4 DEF IInv, OwnersInv
    <3> QED
      BY <3>3, <3>4 DEF OwnersInv
  <2>14. LocksInv'
    <3>1. \A i \in Images : images[i].lock = c => call[c].image = i
      BY DEF IInv, LocksInv
    <3> QED
      BY ZenonT(40), <1>1, <1>4, <2>2, <2>4, <2>5, <2>10, LocksKeep
  <2>15. ConversionsInv'
    BY <1>1, <1>3, <2>2, <2>4, <2>8, ConversionsKeep
  <2>16. ValuesInv'
    BY <1>1, <1>4, <2>8, ValuesKeep DEF WaitsAt
  <2> QED
    BY <2>9, <2>11, <2>12, <2>13, <2>14, <2>15, <2>16 DEF IInv
<1>5. CASE /\ call' = [call EXCEPT ![c] = IdleCall]
           /\ images' = Unlocked(c)
           /\ UNCHANGED slots
  <2>1. Slots' = Slots
    BY <1>5 DEF Slots
  <2>2. /\ IdleCall \in CallType /\ CallShape(IdleCall) /\ IdleCall.slot = None
    BY DEF IdleCall, CallType, CallShape, Owning
  <2>3. Types'
    BY <1>1, <1>5, <2>1, <2>2, CallUpdate, UnlockKeeps DEF IInv, Types, bounds
  <2>4. CallsInv' /\ OwnersInv' /\ SlotsInv'
    <3>1. \A s \in Slots : s # None
      BY VulkanBoundsOK DEF IInv, Types
    <3> QED
      BY <1>1, <1>3, <1>5, <2>1, <2>2, <3>1, CallerStep DEF bounds
  <2>5. LocksInv'
    BY <1>5, UnlockKeeps
  <2>6. ConversionsInv'
    BY <1>1, <1>3, <1>5, <2>1, <2>2, ConversionsKeep
  <2>7. ValuesInv'
    BY <1>1, <1>5, <2>1, ValuesKeep, UnlockKeeps DEF WaitsAt
  <2> QED
    BY <2>3, <2>4, <2>5, <2>6, <2>7 DEF IInv
<1> QED
  BY <1>4, <1>5 DEF AcquireSlot

\* Whatever of the slot is still pending is an analysis nobody waits for.
LEMMA ReleaseKeeps ==
    ASSUME IInv, NEW c \in Callers, Release(c)
    PROVE  IInv'
<1> DEFINE s == call[c].slot
           r == [slots[s] EXCEPT !.busy = FALSE]
<1>1. /\ call[c].pc = "release" /\ Drained(c)
      /\ call' = [call EXCEPT ![c] = IdleCall]
      /\ images' = Unlocked(c) /\ slots' = [slots EXCEPT ![s] = r]
      /\ UNCHANGED <<queue, decoding, stop, bounds>>
  BY DEF Release, At, SetSlot, Slot
<1>2. s # None /\ s \in Slots /\ CallShape(call[c])
  BY <1>1 DEF IInv, CallsInv, CallShape, Owning, OwnersInv
<1>3. slots[s] \in SlotType
  BY <1>2 DEF IInv, Types
<1>4. r \in SlotType
  BY <1>3 DEF SlotType
<1>5. /\ r.fence = slots[s].fence /\ r.conversion_fence = slots[s].conversion_fence
      /\ r.uploaded = slots[s].uploaded /\ r.device_plan = slots[s].device_plan
      /\ r.resident = slots[s].resident
  BY <1>3 DEF SlotType
<1> HIDE DEF r
<1>6. /\ Slots' = Slots /\ slots' \in [Slots -> SlotType] /\ slots'[s] = r
      /\ \A t \in Slots : t # s => slots'[t] = slots[t]
  BY <1>1, <1>2, <1>4, SlotUpdate DEF IInv
<1>7. /\ IdleCall \in CallType /\ CallShape(IdleCall) /\ IdleCall.slot = None
  BY DEF IdleCall, CallType, CallShape, Owning
<1>8. ~Pending(queue[s], "conversion")
  <2>1. CASE call[c].outcome = "error" /\ call[c].conversion_submitted
    <3>1. slots[s].conversion_fence
      BY <1>1, <2>1 DEF Drained, Slot
    <3> QED
      BY <1>2, <3>1 DEF IInv, SlotsInv, SlotShape
  <2>2. CASE ~(call[c].outcome = "error" /\ call[c].conversion_submitted)
    <3>1. call[c].outcome # None
      BY <1>1, <1>2 DEF CallShape
    <3> QED
      BY <1>2, <2>2, <3>1, NoConversion
  <2> QED
    BY <2>1, <2>2
<1>9. Types'
  BY <1>1, <1>6, <1>7, CallUpdate, UnlockKeeps DEF IInv, Types, bounds
<1>10. CallsInv' /\ OwnersInv' /\ SlotsInv'
  <2>1. SlotShape(slots[s], queue[s])
    BY <1>2 DEF IInv, SlotsInv
  <2>2. \A t \in Slots : t = s => SlotShape(slots[t], queue[t])'
    BY <1>1, <1>5, <1>6, <2>1 DEF SlotShape, bounds
  <2> QED
    BY <1>1, <1>6, <1>7, <2>2, CallerStep DEF bounds
<1>11. LocksInv'
  BY <1>1, UnlockKeeps
<1>12. ConversionsInv'
  BY <1>1, <1>6, <1>7, <1>8, ConversionsKeep
<1>13. ValuesInv'
  BY <1>1, <1>6, ValuesKeep, UnlockKeeps DEF WaitsAt
<1> QED
  BY <1>9, <1>10, <1>11, <1>12, <1>13 DEF IInv

-----------------------------------------------------------------------------
(* Plans, conversion, analysis.                                            *)

\* A step of the owner of a slot that changes its call, the slot and the slot's work.
LEMMA OwnStep ==
    ASSUME IInv, NEW c \in Callers, NEW s \in Slots, s = call[c].slot,
           NEW k \in CallType, NEW r \in SlotType, NEW q \in Seq(Submission),
           call' = [call EXCEPT ![c] = k], slots' = [slots EXCEPT ![s] = r],
           queue' = [queue EXCEPT ![s] = q], cache_plans' = cache_plans,
           k.slot = s, CallShape(k), OwnerShape(k, r, q), SlotShape(r, q)
    PROVE  /\ CallsInv' /\ OwnersInv' /\ SlotsInv'
           /\ Slots' = Slots /\ slots' \in [Slots -> SlotType]
           /\ queue' \in [Slots -> Seq(Submission)] /\ call' \in [Callers -> CallType]
           /\ queue'[s] = q /\ \A t \in Slots : t # s => queue'[t] = queue[t]
           /\ call'[c] = k /\ \A d \in Callers : d # c => call'[d] = call[d]
<1>1. /\ Slots' = Slots /\ slots' \in [Slots -> SlotType] /\ slots'[s] = r
      /\ \A t \in Slots : t # s => slots'[t] = slots[t]
  BY SlotUpdate DEF IInv
<1>2. /\ queue' \in [Slots -> Seq(Submission)] /\ queue'[s] = q
      /\ \A t \in Slots : t # s => queue'[t] = queue[t]
  BY DEF IInv, Types
<1>3. /\ call' \in [Callers -> CallType] /\ call'[c] = k
      /\ \A d \in Callers : d # c => call'[d] = call[d]
  BY CallUpdate DEF IInv
<1>4. OwnerShape(call[c], slots[call[c].slot], queue[call[c].slot])'
  BY <1>1, <1>2, <1>3 DEF OwnerShape
<1>5. \A t \in Slots : t = s => SlotShape(slots[t], queue[t])'
  BY <1>1, <1>2 DEF SlotShape
<1>6. CallsInv' /\ OwnersInv' /\ SlotsInv'
  BY ZenonT(40), <1>1, <1>2, <1>4, <1>5, CallerStep
<1> QED
  BY <1>1, <1>2, <1>3, <1>6

\* The owner of a slot, and what the invariant says of the two.
LEMMA OwnerFacts ==
    ASSUME IInv, NEW c \in Callers, call[c].pc \in Owning
    PROVE  \E s \in Slots :
              /\ s = call[c].slot /\ s # None
              /\ call[c] \in CallType /\ slots[s] \in SlotType /\ queue[s] \in Seq(Submission)
              /\ CallShape(call[c]) /\ SlotShape(slots[s], queue[s])
              /\ OwnerShape(call[c], slots[s], queue[s])
              /\ queue = [queue EXCEPT ![s] = queue[s]]
              /\ slots = [slots EXCEPT ![s] = slots[s]]
<1>1. call[c].slot # None /\ CallShape(call[c])
  BY DEF IInv, CallsInv, CallShape
<1>2. call[c].slot \in Slots /\ OwnerShape(call[c], slots[call[c].slot], queue[call[c].slot])
  BY <1>1 DEF IInv, OwnersInv
<1> QED
  BY <1>1, <1>2 DEF IInv, Types, SlotsInv

\* A failed or cancelled call keeps its slot until it is over and says nothing of it.
LEMMA QuitOwner ==
    ASSUME NEW k, NEW slot, NEW q, slot.busy, k.pc = "release", k.outcome \in {"error", "cancelled"}
    PROVE  OwnerShape(k, slot, q)
  BY DEF OwnerShape

\* What packing makes of a slot: its plan is the caller's.
LEMMA PackedFacts ==
    ASSUME IInv, NEW c \in Callers, call[c].pc = "pack"
    PROVE  /\ Packed(c) \in SlotType
           /\ LET r == Packed(c)  old == slots[call[c].slot]
              IN /\ r.busy = old.busy /\ r.fence = old.fence
                 /\ r.conversion_fence = old.conversion_fence
                 /\ r.device_plan = old.device_plan
                 /\ r.uploaded = FALSE
                 /\ cache_plans => r.resident = call[c].batch
                 /\ ~(Resident(c) /\ old.uploaded) => r.host_plan = call[c].batch
<1>1. PICK s \in Slots : s = call[c].slot /\ slots[s] \in SlotType /\ CallShape(call[c])
  BY OwnerFacts DEF Owning
<1>2. call[c].batch \in Batches
  BY <1>1 DEF CallShape
<1> DEFINE h == IF Resident(c) /\ slots[s].uploaded THEN slots[s].host_plan ELSE call[c].batch
           p == IF cache_plans THEN call[c].batch ELSE slots[s].resident
<1>3. Packed(c) = [slots[s] EXCEPT !.host_plan = h, !.resident = p, !.uploaded = FALSE]
  BY <1>1 DEF Packed, Slot
<1>4. h \in Plan /\ p \in Plan
  BY <1>1, <1>2 DEF SlotType, Plan
<1>5. /\ cache_plans => p = call[c].batch
      /\ ~(Resident(c) /\ slots[s].uploaded) => h = call[c].batch
  OBVIOUS
<1> HIDE DEF h, p
<1> QED
  BY <1>1, <1>3, <1>4, <1>5 DEF SlotType

\* What is packed becomes the plan of the slot, before anything reads it.
LEMMA PackKeeps ==
    ASSUME IInv, NEW c \in Callers, Pack(c)
    PROVE  IInv'
<1>1. /\ call[c].pc = "pack" /\ Slot(c).fence /\ SetSlot(c, Packed(c))
      /\ UNCHANGED <<queue, images, decoding, stop, bounds>>
  BY DEF Pack, At, FenceSignalled
<1>2. PICK s \in Slots :
         /\ s = call[c].slot /\ s # None
         /\ call[c] \in CallType /\ slots[s] \in SlotType /\ queue[s] \in Seq(Submission)
         /\ CallShape(call[c]) /\ SlotShape(slots[s], queue[s])
         /\ OwnerShape(call[c], slots[s], queue[s])
         /\ queue = [queue EXCEPT ![s] = queue[s]]
  BY <1>1, OwnerFacts DEF Owning
<1>3. PICK r \in SlotType : r = Packed(c)
  BY <1>1, PackedFacts
<1>4. /\ r.busy /\ r.fence = slots[s].fence /\ r.conversion_fence = slots[s].conversion_fence
      /\ r.device_plan = slots[s].device_plan /\ ~r.uploaded
      /\ cache_plans => r.resident = call[c].batch
      /\ ~(Resident(c) /\ slots[s].uploaded) => r.host_plan = call[c].batch
  BY <1>1, <1>2, <1>3, PackedFacts DEF OwnerShape
<1>5. slots' = [slots EXCEPT ![s] = r]
  BY <1>1, <1>2, <1>3 DEF SetSlot
<1>6. ~call[c].conversion_submitted /\ call[c].outcome = None
  BY <1>1, <1>2 DEF CallShape
<1>7. ~Pending(queue[s], "conversion") /\ ~Pending(queue[s], "analysis")
  <2>1. slots[s].fence
    BY <1>1, <1>2 DEF Slot
  <2> QED
    BY <1>2, <1>6, <2>1, NoConversion DEF SlotShape
<1>8. queue[s] = <<>> /\ Len(queue[s]) = 0
  BY <1>7, QuietSlot
<1>9. SlotShape(r, queue[s])
  BY <1>4, <1>7, <1>8 DEF SlotShape
<1>10. \E k \in CallType :
          /\ call' = [call EXCEPT ![c] = k] /\ CallShape(k) /\ k.slot = s
          /\ k.image = call[c].image /\ ~k.conversion_submitted
          /\ k.semaphore_value = call[c].semaphore_value
          /\ k.pc \in {"convert", "analyze", "release"}
          /\ k.pc = "analyze" => k.image = Host
          /\ OwnerShape(k, r, queue[s])
  <2>1. CASE stop
    <3> DEFINE k == [call[c] EXCEPT !.pc = "release", !.outcome = "cancelled"]
    <3>1. call' = [call EXCEPT ![c] = k]
      BY <1>1, <2>1 DEF Pack, Finish, IInv, Types
    <3>2. /\ k.pc = "release" /\ k.outcome = "cancelled" /\ k.slot = s
          /\ k.image = call[c].image /\ k.batch = call[c].batch
          /\ k.conversion_submitted = call[c].conversion_submitted
          /\ k.semaphore_value = call[c].semaphore_value
      BY <1>2 DEF CallType
    <3>3. k \in CallType
      BY <1>2 DEF CallType, Owning
    <3> HIDE DEF k
    <3>4. CallShape(k)
      BY <1>1, <1>2, <1>6, <3>2, VulkanBoundsOK DEF CallShape, Owning
    <3>5. OwnerShape(k, r, queue[s])
      BY <1>4, <3>2, QuitOwner
    <3> QED
      BY <1>6, <3>1, <3>2, <3>3, <3>4, <3>5
  <2>2. CASE ~stop
    <3> DEFINE resident == Resident(c) /\ slots[s].uploaded
               k == [call[c] EXCEPT !.pc = IF Decoded(c) THEN "convert" ELSE "analyze",
                                    !.upload_plan = ~resident]
    <3>1. call' = [call EXCEPT ![c] = k]
      BY <1>1, <1>2, <2>2 DEF Pack, IInv, Types, Slot
    <3>2. /\ k.pc = (IF call[c].image # Host THEN "convert" ELSE "analyze")
          /\ k.upload_plan = ~resident /\ k.slot = s
          /\ k.image = call[c].image /\ k.batch = call[c].batch /\ k.outcome = call[c].outcome
          /\ k.conversion_submitted = call[c].conversion_submitted
          /\ k.semaphore_value = call[c].semaphore_value
      BY <1>2 DEF CallType, Decoded
    <3>3. k \in CallType
      BY <1>2 DEF CallType, Owning
    <3>4. resident => slots[s].device_plan = call[c].batch
      BY <1>2 DEF Resident, Slot, SlotShape
    <3> HIDE DEF k, resident
    <3>5. CallShape(k)
      BY <1>1, <1>2, <1>6, <3>2, VulkanBoundsOK DEF CallShape, Owning
    <3>6. IF k.upload_plan THEN r.host_plan = k.batch ELSE r.device_plan = k.batch
      BY <1>4, <3>2, <3>4 DEF resident
    <3>7. k.pc # "wait" /\ k.outcome # "ok" /\ (k.pc = "analyze" => k.image = Host)
      BY <1>6, <3>2, VulkanBoundsOK
    <3>8. OwnerShape(k, r, queue[s])
      BY <1>4, <1>7, <1>8, <3>2, <3>6, <3>7 DEF OwnerShape
    <3> QED
      BY <1>6, <3>1, <3>2, <3>3, <3>5, <3>7, <3>8
  <2> QED
    BY <2>1, <2>2
<1>11. PICK k \in CallType :
          /\ call' = [call EXCEPT ![c] = k] /\ CallShape(k) /\ k.slot = s
          /\ k.image = call[c].image /\ ~k.conversion_submitted
          /\ k.semaphore_value = call[c].semaphore_value
          /\ k.pc \in {"convert", "analyze", "release"}
          /\ k.pc = "analyze" => k.image = Host
          /\ OwnerShape(k, r, queue[s])
  BY <1>10
<1>12. queue' = [queue EXCEPT ![s] = queue[s]] /\ queue' = queue /\ cache_plans' = cache_plans
  BY <1>1, <1>2 DEF bounds
<1>13. /\ CallsInv' /\ OwnersInv' /\ SlotsInv'
       /\ Slots' = Slots /\ slots' \in [Slots -> SlotType]
       /\ queue' \in [Slots -> Seq(Submission)] /\ call' \in [Callers -> CallType]
  BY <1>2, <1>5, <1>9, <1>11, <1>12, OwnStep
<1>14. Types'
  BY <1>1, <1>13 DEF IInv, Types, bounds
<1>15. LocksInv'
  <2>1. ASSUME NEW i \in Images, images[i].lock = c
        PROVE  k.image = call[c].image /\ k.pc \in {"acquire", "pack", "convert", "release"}
    <3>1. i # Host /\ call[c].image = i
      BY <2>1, VulkanBoundsOK DEF IInv, LocksInv
    <3> QED
      BY <1>11, <3>1
  <2>2. images' = images
    BY <1>1
  <2> QED
    BY <1>1, <1>11, <2>1, <2>2, LocksKeep
<1>16. ConversionsInv'
  BY <1>2, <1>7, <1>11, <1>12, <1>13, ConversionsKeep
<1>17. ValuesInv'
  BY <1>1, <1>13, ValuesKeep DEF WaitsAt
<1> QED
  BY <1>13, <1>14, <1>15, <1>16, <1>17 DEF IInv

\* The slot's work after a submission.
LEMMA AppendedWork ==
    ASSUME NEW q \in Seq(Submission), NEW w \in Submission
    PROVE  /\ Append(q, w) \in Seq(Submission)
           /\ Len(Append(q, w)) = Len(q) + 1 /\ Len(q) \in Nat
           /\ \A n \in 1 .. Len(Append(q, w)) :
                 Append(q, w)[n] = IF n = Len(q) + 1 THEN w ELSE q[n]
           /\ Append(q, w) # <<>>
           /\ \A n \in 1 .. Len(q) : n \in 1 .. Len(Append(q, w)) /\ n # Len(q) + 1
           /\ Len(q) + 1 \in 1 .. Len(Append(q, w))
           /\ \A kind : Pending(Append(q, w), kind) <=> Pending(q, kind) \/ w.kind = kind
<1>1. /\ Append(q, w) \in Seq(Submission)
      /\ Len(Append(q, w)) = Len(q) + 1 /\ Len(q) \in Nat
      /\ \A n \in 1 .. Len(q) : Append(q, w)[n] = q[n]
      /\ Append(q, w)[Len(q) + 1] = w
      /\ Append(q, w) # <<>>
  BY AppendIs
<1> QED
  BY <1>1 DEF Pending

\* The conversion is submitted: it signals the next value and the frame is unlocked.
LEMMA SubmitConversionKeeps ==
    ASSUME IInv, NEW c \in Callers, SubmitConversion(c)
    PROVE  IInv'
<1>1. call[c].pc = "convert" /\ UNCHANGED <<decoding, stop, bounds>>
  BY DEF SubmitConversion, At
<1>2. PICK s \in Slots :
         /\ s = call[c].slot /\ s # None
         /\ call[c] \in CallType /\ slots[s] \in SlotType /\ queue[s] \in Seq(Submission)
         /\ CallShape(call[c]) /\ SlotShape(slots[s], queue[s])
         /\ OwnerShape(call[c], slots[s], queue[s])
  BY <1>1, OwnerFacts DEF Owning
<1>3. ~call[c].conversion_submitted /\ call[c].outcome = None /\ call[c].image # Host
  BY <1>1, <1>2 DEF CallShape
<1>4. PICK i0 \in Images : i0 = call[c].image
  BY <1>1, <1>2, <1>3 DEF CallShape
<1>5. PICK value \in Nat : value = call[c].semaphore_value
  BY <1>2 DEF CallType
<1>6. images[i0].lock = c /\ images[i0].sem_value = value
  BY <1>1, <1>3, <1>4, <1>5 DEF IInv, LocksInv
<1> DEFINE w == [kind |-> "conversion", image |-> i0, wait |-> value,
                 upload |-> call[c].upload_plan]
           k == [call[c] EXCEPT !.pc = "analyze", !.conversion_submitted = TRUE]
           r == [slots[s] EXCEPT !.conversion_fence = FALSE]
           q == Append(queue[s], w)
<1>7. /\ call' = [call EXCEPT ![c] = k] /\ slots' = [slots EXCEPT ![s] = r]
      /\ queue' = [queue EXCEPT ![s] = q]
      /\ images' = [images EXCEPT ![i0].sem_value = value + 1, ![i0].lock = None]
  BY <1>2, <1>4, <1>5 DEF SubmitConversion, SetSlot, Slot, IInv, Types
<1>8. w \in Submission /\ w.kind = "conversion" /\ w.image = i0 /\ w.wait = value
      /\ w.upload = call[c].upload_plan
  BY <1>2 DEF Submission, CallType
<1>9. /\ k \in CallType /\ k.pc = "analyze" /\ k.conversion_submitted /\ k.slot = s
      /\ k.image = i0 /\ k.batch = call[c].batch /\ k.outcome = None
      /\ k.upload_plan = call[c].upload_plan /\ k.upload_plan \in BOOLEAN
  BY <1>2, <1>3, <1>4 DEF CallType, Owning
<1>10. /\ r \in SlotType /\ ~r.conversion_fence /\ r.busy = slots[s].busy
       /\ r.fence = slots[s].fence /\ r.uploaded = slots[s].uploaded
       /\ r.resident = slots[s].resident /\ r.host_plan = slots[s].host_plan
       /\ r.device_plan = slots[s].device_plan
  BY <1>2 DEF SlotType
<1>11. queue[s] = <<>> /\ Len(queue[s]) = 0
  <2>1. ~Pending(queue[s], "analysis")
    BY <1>1, <1>2 DEF OwnerShape
  <2> QED
    BY <1>2, <1>3, <2>1, NoConversion, QuietSlot
<1> HIDE DEF k, r, w
<1>12. /\ q \in Seq(Submission) /\ Len(q) = 1 /\ q # <<>> /\ q[1] = w
       /\ Pending(q, "conversion") /\ ~Pending(q, "analysis")
  <2>1. ~Pending(queue[s], "analysis")
    BY <1>11 DEF Pending
  <2> QED
    <3>1. /\ q \in Seq(Submission) /\ Len(q) = Len(queue[s]) + 1 /\ q # <<>>
          /\ \A n \in 1 .. Len(q) : q[n] = IF n = Len(queue[s]) + 1 THEN w ELSE queue[s][n]
          /\ Len(queue[s]) + 1 \in 1 .. Len(q)
          /\ \A kind : Pending(q, kind) <=> Pending(queue[s], kind) \/ w.kind = kind
      BY <1>2, <1>8, AppendedWork
    <3> HIDE DEF q
    <3>2. Len(q) = 1 /\ q[1] = w
      BY <1>11, <3>1
    <3> QED
      BY <1>8, <2>1, <3>1, <3>2
<1> HIDE DEF q
<1>13. CallShape(k)
  BY <1>2, <1>3, <1>4, <1>9, VulkanBoundsOK DEF CallShape, Owning
<1>14. ~r.uploaded /\ r.busy /\ (cache_plans => r.resident = k.batch)
       /\ IF k.upload_plan THEN r.host_plan = k.batch ELSE r.device_plan = k.batch
  BY <1>1, <1>2, <1>9, <1>10 DEF OwnerShape
<1>15. SlotShape(r, q)
  BY <1>3, <1>4, <1>8, <1>10, <1>12, <1>14 DEF SlotShape
<1>16. OwnerShape(k, r, q)
  <2>1. \A n \in 1 .. Len(q) : /\ q[n].image = k.image
                               /\ q[n].upload = (k.upload_plan
                                                 /\ (q[n].kind = "analysis" => k.image = Host))
    BY <1>8, <1>9, <1>12
  <2> QED
    BY <1>9, <1>12, <1>14, <2>1, VulkanBoundsOK DEF OwnerShape
<1>17. cache_plans' = cache_plans
  BY <1>1 DEF bounds
<1>18. /\ CallsInv' /\ OwnersInv' /\ SlotsInv'
       /\ Slots' = Slots /\ slots' \in [Slots -> SlotType]
       /\ queue' \in [Slots -> Seq(Submission)] /\ call' \in [Callers -> CallType]
       /\ queue'[s] = q /\ \A t \in Slots : t # s => queue'[t] = queue[t]
       /\ call'[c] = k /\ \A d \in Callers : d # c => call'[d] = call[d]
  BY <1>2, <1>7, <1>9, <1>10, <1>12, <1>13, <1>15, <1>16, <1>17, OwnStep
<1>19. /\ images' \in [Images -> ImageType]
       /\ \A i \in Images :
             /\ images'[i].timeline = images[i].timeline
             /\ images'[i].sem_value = IF i = i0 THEN value + 1 ELSE images[i].sem_value
             /\ images'[i].lock = IF i = i0 THEN None ELSE images[i].lock
  <2> DEFINE unlocked == [images[i0] EXCEPT !.sem_value = value + 1, !.lock = None]
  <2>1. images \in [Images -> ImageType]
    BY DEF IInv, Types
  <2>2. images' = [images EXCEPT ![i0] = unlocked]
    BY <1>7, <2>1
  <2>3. /\ unlocked \in ImageType /\ unlocked.sem_value = value + 1 /\ unlocked.lock = None
        /\ unlocked.timeline = images[i0].timeline
    <3>1. images[i0] \in ImageType /\ value + 1 \in Nat
      BY <2>1
    <3> QED
      BY <3>1 DEF ImageType
  <2> HIDE DEF unlocked
  <2> QED
    BY <2>1, <2>2, <2>3
<1>20. Types'
  BY <1>1, <1>18, <1>19 DEF IInv, Types, bounds
<1>21. LocksInv'
  <2>1. \A d \in Callers : d # None
    BY VulkanBoundsOK
  <2>2. \A i \in Images : i # i0 => images[i].lock # c
    BY <1>4 DEF IInv, LocksInv
  <2>3. ASSUME NEW i \in Images, NEW d \in Callers, images'[i].lock = d
        PROVE  /\ call'[d].image = i /\ ~call'[d].conversion_submitted
               /\ call'[d].pc \in {"acquire", "pack", "convert", "release"}
    <3>1. i # i0 /\ images[i].lock = d
      BY <1>19, <2>1, <2>3
    <3>2. d # c
      BY <2>2, <3>1
    <3> QED
      BY <1>18, <3>1, <3>2 DEF IInv, LocksInv
  <2>4. ASSUME NEW d \in Callers, call'[d].pc \in {"acquire", "pack", "convert"},
               call'[d].image # Host
        PROVE  /\ images'[call'[d].image].lock = d
               /\ images'[call'[d].image].sem_value = call'[d].semaphore_value
    <3>1. d # c
      BY <1>9, <1>18, <2>4
    <3>2. /\ call'[d] = call[d] /\ images[call[d].image].lock = d
          /\ images[call[d].image].sem_value = call[d].semaphore_value
          /\ call[d].image \in Images
      BY <1>18, <2>4, <3>1 DEF IInv, LocksInv, CallsInv, CallShape
    <3>3. call[d].image # i0
      BY <1>6, <3>1, <3>2
    <3> QED
      BY <1>19, <3>2, <3>3
  <2> QED
    BY <2>3, <2>4 DEF LocksInv
<1>22. ConversionsInv'
  <2> SUFFICES ASSUME NEW t \in Slots, NEW n \in 1 .. Len(queue'[t]),
                      queue'[t][n].kind = "conversion"
               PROVE  \E d \in Callers : Converts(d, t, queue[t][n])'
    BY <1>18 DEF ConversionsInv
  <2>1. CASE t = s
    <3>0. queue'[t] = q
      BY <1>18, <2>1
    <3>1. queue'[t] = q /\ n = 1
      <4>1. Len(queue'[t]) = 1
        BY <1>12, <3>0
      <4> QED
        BY <3>0, <4>1
    <3>2. queue'[t][n] = w
      BY <1>12, <3>1
    <3>3. Converts(c, t, queue[t][n])'
      BY <1>8, <1>9, <1>18, <2>1, <3>2 DEF Converts
    <3> QED
      BY <3>3
  <2>2. CASE t # s
    <3>1. PICK d \in Callers : Converts(d, t, queue[t][n])
      BY <1>18, <2>2 DEF IInv, ConversionsInv
    <3>2. d # c /\ call'[d] = call[d] /\ queue'[t] = queue[t]
      BY <1>2, <1>18, <2>2, <3>1 DEF Converts
    <3>3. Converts(d, t, queue[t][n])'
      BY <3>1, <3>2 DEF Converts
    <3> QED
      BY <3>3
  <2> QED
    BY <2>1, <2>2
<1>23. ValuesInv'
  <2>1. \A t \in Slots, i \in Images, v \in Nat :
           /\ t # s => (WaitsAt(t, i, v)' <=> WaitsAt(t, i, v))
           /\ ~WaitsAt(s, i, v)
           /\ WaitsAt(s, i, v)' <=> i = i0 /\ v = value
    BY <1>8, <1>11, <1>12, <1>18 DEF WaitsAt
  <2>2. decoding' = decoding
    BY <1>1
  <2>3. \A i \in Images : images[i].timeline \in Nat /\ images[i].sem_value \in Nat
    BY DEF IInv, Types, ImageType
  <2>4. Decode(i0, value) \notin decoding /\ \A t \in Slots : ~WaitsAt(t, i0, value)
    BY <1>6, <2>3 DEF IInv, ValuesInv
  <2> SUFFICES ASSUME NEW i \in Images
               PROVE  /\ images'[i].timeline <= images'[i].sem_value
                      /\ \A v \in Nat :
                            /\ v \in images'[i].timeline .. images'[i].sem_value - 1 <=>
                                  Decode(i, v) \in decoding' \/ \E t \in Slots : WaitsAt(t, i, v)'
                            /\ \A t \in Slots : WaitsAt(t, i, v)' =>
                                  /\ Decode(i, v) \notin decoding'
                                  /\ \A u \in Slots : WaitsAt(u, i, v)' => t = u
    BY <1>18 DEF ValuesInv, Decode
  <2>5. /\ images[i].timeline <= images[i].sem_value
        /\ \A v \in Nat :
              /\ v \in images[i].timeline .. images[i].sem_value - 1 <=>
                    Decode(i, v) \in decoding \/ \E t \in Slots : WaitsAt(t, i, v)
              /\ \A t \in Slots : WaitsAt(t, i, v) =>
                    Decode(i, v) \notin decoding /\ \A u \in Slots : WaitsAt(u, i, v) => t = u
    BY DEF IInv, ValuesInv
  <2>6. CASE i # i0
    BY <1>19, <2>1, <2>2, <2>5, <2>6
  <2>7. CASE i = i0
    <3>1. images'[i].timeline = images[i].timeline /\ images'[i].sem_value = value + 1
          /\ images[i].sem_value = value
      BY <1>6, <1>19, <2>7
    <3>2. images'[i].timeline <= images'[i].sem_value
      BY <2>3, <2>5, <3>1
    <3>3. \A v \in Nat : v \in images'[i].timeline .. images'[i].sem_value - 1 <=>
                            v = value \/ v \in images[i].timeline .. images[i].sem_value - 1
      BY <2>3, <2>5, <3>1
    <3>4. ASSUME NEW v \in Nat
          PROVE  v \in images'[i].timeline .. images'[i].sem_value - 1 <=>
                    Decode(i, v) \in decoding' \/ \E t \in Slots : WaitsAt(t, i, v)'
      BY <2>1, <2>2, <2>5, <2>7, <3>3
    <3>5. ASSUME NEW v \in Nat, NEW t \in Slots, WaitsAt(t, i, v)'
          PROVE  Decode(i, v) \notin decoding' /\ \A u \in Slots : WaitsAt(u, i, v)' => t = u
      <4>1. CASE t = s
        BY <2>1, <2>2, <2>4, <2>7, <3>5, <4>1
      <4>2. CASE t # s
        BY <2>1, <2>2, <2>4, <2>5, <2>7, <3>5, <4>2
      <4> QED
        BY <4>1, <4>2
    <3> QED
      BY <3>2, <3>4, <3>5
  <2> QED
    BY <2>6, <2>7
<1> QED
  BY <1>18, <1>20, <1>21, <1>22, <1>23 DEF IInv

\* The analysis is submitted, last in the slot, for the plan the slot holds.
LEMMA SubmitAnalysisKeeps ==
    ASSUME IInv, NEW c \in Callers, SubmitAnalysis(c)
    PROVE  IInv'
<1>1. call[c].pc = "analyze" /\ UNCHANGED <<images, decoding, stop, bounds>>
  BY DEF SubmitAnalysis, At
<1>2. PICK s \in Slots :
         /\ s = call[c].slot /\ s # None
         /\ call[c] \in CallType /\ slots[s] \in SlotType /\ queue[s] \in Seq(Submission)
         /\ CallShape(call[c]) /\ SlotShape(slots[s], queue[s])
         /\ OwnerShape(call[c], slots[s], queue[s])
  BY <1>1, OwnerFacts DEF Owning
<1>3. PICK old \in Seq(Submission) : old = queue[s]
  BY <1>2
<1>4. call[c].outcome = None /\ call[c].image \in Images \cup {Host}
  BY <1>1, <1>2 DEF CallShape
<1> DEFINE w == [kind |-> "analysis", image |-> call[c].image, wait |-> 0,
                 upload |-> call[c].upload_plan /\ ~Decoded(c)]
           k == [call[c] EXCEPT !.pc = "wait"]
           r == [slots[s] EXCEPT !.fence = FALSE]
           q == Append(old, w)
<1>5. /\ call' = [call EXCEPT ![c] = k] /\ slots' = [slots EXCEPT ![s] = r]
      /\ queue' = [queue EXCEPT ![s] = q]
  BY <1>2, <1>3 DEF SubmitAnalysis, SetSlot, Slot, IInv, Types
<1>6. /\ w \in Submission /\ w.kind = "analysis" /\ w.image = call[c].image
      /\ w.upload = (call[c].upload_plan /\ call[c].image = Host)
  BY <1>2, <1>4 DEF Submission, CallType, Decoded
<1>7. /\ k \in CallType /\ k.pc = "wait" /\ k.slot = s
      /\ k.image = call[c].image /\ k.batch = call[c].batch /\ k.outcome = None
      /\ k.upload_plan = call[c].upload_plan
      /\ k.conversion_submitted = call[c].conversion_submitted
  BY <1>2, <1>4 DEF CallType, Owning
<1>8. /\ r \in SlotType /\ ~r.fence /\ r.conversion_fence = slots[s].conversion_fence
      /\ r.busy = slots[s].busy /\ r.uploaded = slots[s].uploaded
      /\ r.resident = slots[s].resident /\ r.host_plan = slots[s].host_plan
      /\ r.device_plan = slots[s].device_plan /\ r.device_source = slots[s].device_source
  BY <1>2 DEF SlotType
<1> HIDE DEF k, r, w
<1>9. /\ q \in Seq(Submission) /\ Len(q) = Len(old) + 1 /\ Len(old) \in Nat /\ q # <<>>
      /\ \A n \in 1 .. Len(q) : q[n] = IF n = Len(old) + 1 THEN w ELSE old[n]
      /\ Len(old) + 1 \in 1 .. Len(q)
      /\ \A kind : Pending(q, kind) <=> Pending(old, kind) \/ w.kind = kind
  BY <1>6, AppendedWork
<1> HIDE DEF q
\* Before it there is the call's own conversion, or nothing.
<1>10. ~Pending(old, "analysis") /\ ~slots[s].uploaded
  BY <1>1, <1>2, <1>3 DEF OwnerShape
<1>11. /\ Len(old) \in {0, 1}
       /\ \A n \in 1 .. Len(old) : /\ n = 1 /\ old[n].kind = "conversion" /\ old[n].image # Host
                                   /\ old[n].image = call[c].image
                                   /\ old[n].upload = call[c].upload_plan
  <2>1. \A n \in 1 .. Len(old) : old[n] \in Submission
    OBVIOUS
  <2>2. \A n \in 1 .. Len(old) : old[n].kind = "conversion"
    BY <1>10, <2>1 DEF Pending, Submission
  <2>3. \A n \in 1 .. Len(old) : n = 1 /\ old[n].image # Host
    BY <1>2, <1>3, <2>2 DEF SlotShape
  <2>4. \A n \in 1 .. Len(old) : /\ old[n].image = call[c].image
                                 /\ old[n].upload = (call[c].upload_plan
                                                     /\ (old[n].kind = "analysis" => call[c].image = Host))
    BY <1>1, <1>2, <1>3 DEF OwnerShape
  <2>5. \A n \in 1 .. Len(old) : old[n].upload = call[c].upload_plan
    BY <1>2, <2>2, <2>4 DEF CallType
  <2>6. Len(old) \in Nat /\ \A n \in 1 .. Len(old) : n = 1
    BY <2>3
  <2>7. Len(old) \in {0, 1}
    BY <2>6, AtMostOne
  <2> QED
    BY <2>2, <2>3, <2>4, <2>5, <2>7
<1>12. CallShape(k)
  BY <1>1, <1>2, <1>7 DEF CallShape, Owning
<1>13. SlotShape(r, q)
  <2>1. \A n \in 1 .. Len(q) : /\ q[n].kind = "conversion" => n = 1 /\ q[n].image # Host
                               /\ q[n].kind = "analysis" => n = Len(q)
    BY <1>6, <1>9, <1>11
  <2>2. Pending(q, "conversion") => ~r.conversion_fence
    BY <1>2, <1>3, <1>6, <1>8, <1>9 DEF SlotShape
  <2> QED
    BY <1>8, <1>10, <2>1, <2>2 DEF SlotShape
<1>14. OwnerShape(k, r, q)
  <2>1. /\ r.busy /\ ~r.uploaded /\ (cache_plans => r.resident = k.batch)
        /\ IF k.upload_plan THEN r.host_plan = k.batch ELSE r.device_plan = k.batch
    BY <1>1, <1>2, <1>7, <1>8 DEF OwnerShape
  <2>2. \A n \in 1 .. Len(q) : /\ q[n].image = k.image
                               /\ q[n].upload = (k.upload_plan
                                                 /\ (q[n].kind = "analysis" => k.image = Host))
    <3> SUFFICES ASSUME NEW n \in 1 .. Len(q)
                 PROVE  /\ q[n].image = k.image
                        /\ q[n].upload = (k.upload_plan
                                          /\ (q[n].kind = "analysis" => k.image = Host))
      OBVIOUS
    <3>1. CASE n = Len(old) + 1
      BY <1>6, <1>7, <1>9, <3>1
    <3>2. CASE n # Len(old) + 1
      <4>1. n \in 1 .. Len(old) /\ q[n] = old[n]
        BY <1>9, <3>2
      <4>2. /\ q[n].kind = "conversion" /\ q[n].image = call[c].image
            /\ q[n].upload = call[c].upload_plan /\ call[c].upload_plan \in BOOLEAN
        BY <1>2, <1>11, <4>1 DEF CallType
      <4> QED
        BY <1>7, <4>2
    <3> QED
      BY <3>1, <3>2
  <2>3. k.image # Host /\ ~Pending(q, "conversion") =>
           r.device_plan = k.batch /\ r.device_source = k.image
    BY <1>1, <1>2, <1>3, <1>7, <1>8, <1>9 DEF OwnerShape
  <2>4. q[Len(q)].kind = "analysis"
    BY <1>6, <1>9
  <2> QED
    BY <1>7, <1>9, <2>1, <2>2, <2>3, <2>4, VulkanBoundsOK DEF OwnerShape
<1>15. cache_plans' = cache_plans
  BY <1>1 DEF bounds
<1>16. /\ CallsInv' /\ OwnersInv' /\ SlotsInv'
       /\ Slots' = Slots /\ slots' \in [Slots -> SlotType]
       /\ queue' \in [Slots -> Seq(Submission)] /\ call' \in [Callers -> CallType]
       /\ queue'[s] = q /\ \A t \in Slots : t # s => queue'[t] = queue[t]
       /\ call'[c] = k /\ \A d \in Callers : d # c => call'[d] = call[d]
  BY <1>2, <1>5, <1>7, <1>8, <1>9, <1>12, <1>13, <1>14, <1>15, OwnStep
<1>17. Types'
  BY <1>1, <1>16 DEF IInv, Types, bounds
<1>18. LocksInv'
  <2>1. \A i \in Images : images[i].lock # c
    BY <1>1 DEF IInv, LocksInv
  <2>2. images' = images
    BY <1>1
  <2> QED
    BY <1>5, <1>7, <2>1, <2>2, LocksKeep
<1>19. ConversionsInv'
  <2> SUFFICES ASSUME NEW t \in Slots, NEW n \in 1 .. Len(queue'[t]),
                      queue'[t][n].kind = "conversion"
               PROVE  \E d \in Callers : Converts(d, t, queue[t][n])'
    BY <1>16 DEF ConversionsInv
  <2>1. n \in 1 .. Len(queue[t]) /\ queue'[t][n] = queue[t][n]
    <3>1. CASE t = s
      <4>1. queue'[t] = q /\ queue[t] = old
        BY <1>3, <1>16, <3>1
      <4>2. n # Len(old) + 1 /\ n \in 1 .. Len(q)
        BY <1>6, <1>9, <4>1
      <4> QED
        BY <1>9, <4>1, <4>2
    <3>2. CASE t # s
      BY <1>16, <3>2
    <3> QED
      BY <3>1, <3>2
  <2>2. PICK d \in Callers : Converts(d, t, queue[t][n])
    BY <2>1 DEF IInv, ConversionsInv
  <2>3. /\ call'[d].slot = call[d].slot /\ call'[d].image = call[d].image
        /\ call'[d].conversion_submitted = call[d].conversion_submitted
        /\ call'[d].outcome = call[d].outcome
    BY <1>2, <1>4, <1>7, <1>16
  <2>4. Converts(d, t, queue[t][n])'
    BY <2>1, <2>2, <2>3 DEF Converts
  <2> QED
    BY <2>4
<1>20. ValuesInv'
  <2>1. \A t \in Slots, i \in Images, v \in Nat : WaitsAt(t, i, v)' <=> WaitsAt(t, i, v)
    <3>1. \A i \in Images, v \in Nat : WaitsAt(s, i, v)' <=> WaitsAt(s, i, v)
      <4>1. CASE Len(old) = 0
        <5>1. queue[s] = <<>> /\ q[1].kind = "analysis"
          BY <1>3, <1>6, <1>9, <4>1, EmptyIs
        <5> QED
          BY <1>16, <5>1 DEF WaitsAt
      <4>2. CASE Len(old) = 1
        <5>1. queue[s] # <<>> /\ q[1] = queue[s][1]
          BY <1>3, <1>9, <4>2, EmptyIs
        <5> QED
          BY <1>9, <1>16, <5>1 DEF WaitsAt
      <4> QED
        BY <1>11, <4>1, <4>2
    <3> QED
      BY <1>16, <3>1 DEF WaitsAt
  <2> QED
    BY <1>1, <1>16, <2>1, ValuesKeep
<1> QED
  BY <1>16, <1>17, <1>18, <1>19, <1>20 DEF IInv

\* The fence of the analysis says that nothing is pending.
LEMMA WaitAnalysisKeeps ==
    ASSUME IInv, NEW c \in Callers, WaitAnalysis(c)
    PROVE  IInv'
<1>1. /\ call[c].pc = "wait" /\ Slot(c).fence
      /\ UNCHANGED <<queue, images, decoding, stop, bounds>>
  BY DEF WaitAnalysis, At
<1>2. PICK s \in Slots :
         /\ s = call[c].slot /\ s # None
         /\ call[c] \in CallType /\ slots[s] \in SlotType /\ queue[s] \in Seq(Submission)
         /\ CallShape(call[c]) /\ SlotShape(slots[s], queue[s])
         /\ OwnerShape(call[c], slots[s], queue[s])
         /\ queue = [queue EXCEPT ![s] = queue[s]]
  BY <1>1, OwnerFacts DEF Owning
<1> DEFINE outcome == IF stop THEN "cancelled" ELSE "ok"
           k == [call[c] EXCEPT !.pc = "release", !.outcome = outcome]
           r == [slots[s] EXCEPT !.uploaded = TRUE]
<1>3. call' = [call EXCEPT ![c] = k] /\ slots' = [slots EXCEPT ![s] = r]
  BY <1>2 DEF WaitAnalysis, Finish, SetSlot, Slot, IInv, Types
<1>4. /\ k \in CallType /\ k.pc = "release" /\ k.outcome \in {"cancelled", "ok"}
      /\ k.slot = s /\ k.image = call[c].image /\ k.batch = call[c].batch
      /\ k.conversion_submitted = call[c].conversion_submitted
  BY <1>2 DEF CallType, Owning
<1>5. /\ r \in SlotType /\ r.uploaded /\ r.busy = slots[s].busy /\ r.fence = slots[s].fence
      /\ r.conversion_fence = slots[s].conversion_fence
      /\ r.resident = slots[s].resident /\ r.device_plan = slots[s].device_plan
      /\ r.partials = slots[s].partials
  BY <1>2 DEF SlotType
<1> HIDE DEF k, r
<1>6. queue[s] = <<>>
  <2>1. ~Pending(queue[s], "analysis")
    BY <1>1, <1>2 DEF Slot, SlotShape
  <2>2. Len(queue[s]) \in Nat /\ (queue[s] = <<>> <=> Len(queue[s]) = 0)
    BY <1>2, EmptyIs
  <2>3. queue[s] # <<>> => queue[s][Len(queue[s])].kind = "analysis"
    BY <1>1, <1>2 DEF OwnerShape
  <2> QED
    BY <2>1, <2>2, <2>3 DEF Pending
<1>7. /\ r.busy /\ r.partials = [plan |-> k.batch, source |-> k.image]
      /\ cache_plans => r.device_plan = r.resident
  BY <1>1, <1>2, <1>4, <1>5, <1>6 DEF OwnerShape
<1>8. OwnerShape(k, r, queue[s])
  BY <1>4, <1>6, <1>7 DEF OwnerShape
<1>9. Len(queue[s]) = 0
  BY <1>6
<1>10. SlotShape(r, queue[s])
  BY <1>6, <1>7, <1>9 DEF SlotShape, Pending
<1>11. CallShape(k)
  BY <1>1, <1>2, <1>4, VulkanBoundsOK DEF CallShape, Owning
<1>12. queue' = [queue EXCEPT ![s] = queue[s]] /\ queue' = queue /\ cache_plans' = cache_plans
  BY <1>1, <1>2 DEF bounds
<1>13. /\ CallsInv' /\ OwnersInv' /\ SlotsInv'
       /\ Slots' = Slots /\ slots' \in [Slots -> SlotType]
       /\ queue' \in [Slots -> Seq(Submission)] /\ call' \in [Callers -> CallType]
  BY <1>2, <1>3, <1>4, <1>5, <1>8, <1>10, <1>11, <1>12, OwnStep
<1>14. Types'
  BY <1>1, <1>13 DEF IInv, Types, bounds
<1>15. LocksInv'
  <2>1. \A i \in Images : images[i].lock # c
    BY <1>1 DEF IInv, LocksInv
  <2>2. images' = images
    BY <1>1
  <2> QED
    BY <1>3, <1>4, <2>1, <2>2, LocksKeep
<1>16. ConversionsInv'
  <2>1. ~Pending(queue[s], "conversion")
    BY <1>9 DEF Pending
  <2> QED
    BY <1>2, <1>3, <1>4, <1>12, <1>13, <2>1, ConversionsKeep
<1>17. ValuesInv'
  BY <1>1, <1>13, ValuesKeep DEF WaitsAt
<1> QED
  BY <1>13, <1>14, <1>15, <1>16, <1>17 DEF IInv

\* A failed call keeps what it has submitted, and the frame if it has not submitted.
LEMMA FailsKeeps ==
    ASSUME IInv, NEW c \in Callers, Fails(c)
    PROVE  IInv'
<1>1. /\ call[c].pc \in {"pack", "convert", "analyze", "wait"}
      /\ failures < MaxFailures /\ failures' = failures + 1
      /\ UNCHANGED <<queue, images, decoding, stop, cache_plans, calls, decodes>>
  BY DEF Fails, At
<1>2. PICK s \in Slots :
         /\ s = call[c].slot /\ s # None
         /\ call[c] \in CallType /\ slots[s] \in SlotType /\ queue[s] \in Seq(Submission)
         /\ CallShape(call[c]) /\ SlotShape(slots[s], queue[s])
         /\ OwnerShape(call[c], slots[s], queue[s])
         /\ queue = [queue EXCEPT ![s] = queue[s]]
         /\ slots = [slots EXCEPT ![s] = slots[s]]
  BY <1>1, OwnerFacts DEF Owning
<1> DEFINE k == [call[c] EXCEPT !.pc = "release", !.outcome = "error"]
<1>3. call' = [call EXCEPT ![c] = k]
  BY DEF Fails, Finish, IInv, Types
<1>4. /\ k \in CallType /\ k.pc = "release" /\ k.outcome = "error"
      /\ k.slot = s /\ k.image = call[c].image /\ k.batch = call[c].batch
      /\ k.conversion_submitted = call[c].conversion_submitted
  BY <1>2 DEF CallType, Owning
<1> HIDE DEF k
<1>5. \E r \in SlotType : slots' = [slots EXCEPT ![s] = r] /\ r.busy /\ SlotShape(r, queue[s])
  <2>1. CASE UNCHANGED slots
    BY <1>2, <2>1 DEF OwnerShape
  <2>2. CASE call[c].pc = "pack" /\ SetSlot(c, Packed(c))
    <3>1. PICK r \in SlotType : r = Packed(c)
      BY <2>2, PackedFacts
    <3>2. /\ r.busy /\ r.fence = slots[s].fence /\ r.conversion_fence = slots[s].conversion_fence
          /\ ~r.uploaded
      BY <1>2, <2>2, <3>1, PackedFacts DEF OwnerShape
    <3> QED
      BY <1>2, <2>2, <3>1, <3>2 DEF SetSlot, SlotShape
  <2>3. CASE call[c].pc = "convert" /\ SetSlot(c, [Slot(c) EXCEPT !.conversion_fence = FALSE])
    <3> DEFINE r == [slots[s] EXCEPT !.conversion_fence = FALSE]
    <3>1. slots' = [slots EXCEPT ![s] = r]
      BY <1>2, <2>3 DEF SetSlot, Slot
    <3>2. /\ r \in SlotType /\ r.busy = slots[s].busy /\ r.fence = slots[s].fence
          /\ ~r.conversion_fence /\ r.uploaded = slots[s].uploaded
      BY <1>2 DEF SlotType
    <3> HIDE DEF r
    <3>3. r.busy /\ ~r.uploaded
      BY <1>2, <2>3, <3>2 DEF OwnerShape
    <3> QED
      BY <1>2, <3>1, <3>2, <3>3 DEF SlotShape
  <2>4. CASE call[c].pc = "analyze" /\ SetSlot(c, [Slot(c) EXCEPT !.fence = FALSE])
    <3> DEFINE r == [slots[s] EXCEPT !.fence = FALSE]
    <3>1. slots' = [slots EXCEPT ![s] = r]
      BY <1>2, <2>4 DEF SetSlot, Slot
    <3>2. /\ r \in SlotType /\ r.busy = slots[s].busy /\ ~r.fence
          /\ r.conversion_fence = slots[s].conversion_fence /\ r.uploaded = slots[s].uploaded
      BY <1>2 DEF SlotType
    <3> HIDE DEF r
    <3>3. r.busy /\ ~r.uploaded
      BY <1>2, <2>4, <3>2 DEF OwnerShape
    <3> QED
      BY <1>2, <3>1, <3>2, <3>3 DEF SlotShape
  <2> QED
    BY <2>1, <2>2, <2>3, <2>4 DEF Fails, At
<1>6. PICK r \in SlotType : slots' = [slots EXCEPT ![s] = r] /\ r.busy /\ SlotShape(r, queue[s])
  BY <1>5
<1>7. OwnerShape(k, r, queue[s])
  BY <1>4, <1>6, QuitOwner
<1>8. CallShape(k)
  BY <1>1, <1>2, <1>4, VulkanBoundsOK DEF CallShape, Owning
<1>9. queue' = [queue EXCEPT ![s] = queue[s]] /\ queue' = queue
  BY <1>1, <1>2
<1>10. /\ CallsInv' /\ OwnersInv' /\ SlotsInv'
       /\ Slots' = Slots /\ slots' \in [Slots -> SlotType]
       /\ queue' \in [Slots -> Seq(Submission)] /\ call' \in [Callers -> CallType]
  BY <1>1, <1>2, <1>3, <1>4, <1>6, <1>7, <1>8, <1>9, OwnStep
<1>11. Types'
  BY <1>1, <1>10, VulkanBoundsOK DEF IInv, Types
<1>12. LocksInv'
  <2>1. \A i \in Images : images[i].lock = c => ~call[c].conversion_submitted
    BY DEF IInv, LocksInv
  <2>2. images' = images
    BY <1>1
  <2> QED
    BY <1>3, <1>4, <2>1, <2>2, LocksKeep
<1>13. ConversionsInv'
  BY <1>2, <1>3, <1>4, <1>9, <1>10, ConversionsKeep
<1>14. ValuesInv'
  BY <1>1, <1>10, ValuesKeep DEF WaitsAt
<1> QED
  BY <1>10, <1>11, <1>12, <1>13, <1>14 DEF IInv

-----------------------------------------------------------------------------
(* The decoder and the device.                                             *)

\* A submission that records one more value, by a decode.
LEMMA DecoderSubmitsKeeps ==
    ASSUME IInv, NEW i0 \in Images, DecoderSubmits(i0)
    PROVE  IInv'
<1>1. PICK value \in Nat : value = images[i0].sem_value
  BY DEF IInv, Types, ImageType
<1>2. /\ images[i0].lock = None /\ decodes < MaxDecodes /\ decodes' = decodes + 1
      /\ decoding' = decoding \cup {Decode(i0, value)}
      /\ images' = [images EXCEPT ![i0].sem_value = @ + 1]
      /\ UNCHANGED <<call, slots, queue, stop, cache_plans, calls, failures>>
  BY <1>1 DEF DecoderSubmits, Decode
<1>3. Slots' = Slots
  BY <1>2 DEF Slots
<1>4. /\ images' \in [Images -> ImageType]
      /\ \A i \in Images :
            /\ images'[i].timeline = images[i].timeline
            /\ images'[i].sem_value = IF i = i0 THEN value + 1 ELSE images[i].sem_value
            /\ images'[i].lock = images[i].lock
  <2> DEFINE next == [images[i0] EXCEPT !.sem_value = value + 1]
  <2>1. images \in [Images -> ImageType] /\ images[i0] \in ImageType /\ value + 1 \in Nat
    BY DEF IInv, Types
  <2>2. images' = [images EXCEPT ![i0] = next]
    BY <1>1, <1>2, <2>1
  <2>3. /\ next \in ImageType /\ next.sem_value = value + 1 /\ next.lock = images[i0].lock
        /\ next.timeline = images[i0].timeline
    BY <2>1 DEF ImageType
  <2> HIDE DEF next
  <2> QED
    BY <2>1, <2>2, <2>3
<1>5. Types'
  <2>1. Decode(i0, value) \in [image : Images, wait : Nat]
    BY DEF Decode
  <2> QED
    BY <1>2, <1>3, <1>4, <2>1, VulkanBoundsOK DEF IInv, Types
<1>6. CallsInv' /\ SlotsInv' /\ OwnersInv' /\ ConversionsInv'
  BY <1>2, <1>3 DEF IInv, CallsInv, SlotsInv, OwnersInv, ConversionsInv, Converts, SlotShape,
                    OwnerShape
<1>7. LocksInv'
  <2>1. \A d \in Callers : d # None
    BY VulkanBoundsOK
  <2>2. ASSUME NEW d \in Callers, call[d].pc \in {"acquire", "pack", "convert"},
               call[d].image # Host
        PROVE  /\ images'[call[d].image].lock = d
               /\ images'[call[d].image].sem_value = call[d].semaphore_value
    <3>1. /\ images[call[d].image].lock = d /\ call[d].image \in Images
          /\ images[call[d].image].sem_value = call[d].semaphore_value
      BY <2>2 DEF IInv, LocksInv, CallsInv, CallShape
    <3>2. call[d].image # i0
      BY <1>2, <2>1, <3>1
    <3> QED
      BY <1>4, <3>1, <3>2
  <2> QED
    BY <1>2, <1>4, <2>2 DEF IInv, LocksInv
<1>8. ValuesInv'
  <2>1. \A t \in Slots, i \in Images, v \in Nat : WaitsAt(t, i, v)' <=> WaitsAt(t, i, v)
    BY <1>2 DEF WaitsAt
  <2>2. \A i \in Images, v \in Nat :
           Decode(i, v) \in decoding' <=> Decode(i, v) \in decoding \/ (i = i0 /\ v = value)
    BY <1>2 DEF Decode
  <2>3. \A i \in Images : images[i].timeline \in Nat /\ images[i].sem_value \in Nat
    BY DEF IInv, Types, ImageType
  <2>4. Decode(i0, value) \notin decoding /\ \A t \in Slots : ~WaitsAt(t, i0, value)
    BY <1>1, <2>3 DEF IInv, ValuesInv
  <2> SUFFICES ASSUME NEW i \in Images
               PROVE  /\ images'[i].timeline <= images'[i].sem_value
                      /\ \A v \in Nat :
                            /\ v \in images'[i].timeline .. images'[i].sem_value - 1 <=>
                                  Decode(i, v) \in decoding' \/ \E t \in Slots : WaitsAt(t, i, v)'
                            /\ \A t \in Slots : WaitsAt(t, i, v)' =>
                                  /\ Decode(i, v) \notin decoding'
                                  /\ \A u \in Slots : WaitsAt(u, i, v)' => t = u
    BY <1>3 DEF ValuesInv, Decode
  <2>5. /\ images[i].timeline <= images[i].sem_value
        /\ \A v \in Nat :
              /\ v \in images[i].timeline .. images[i].sem_value - 1 <=>
                    Decode(i, v) \in decoding \/ \E t \in Slots : WaitsAt(t, i, v)
              /\ \A t \in Slots : WaitsAt(t, i, v) =>
                    Decode(i, v) \notin decoding /\ \A u \in Slots : WaitsAt(u, i, v) => t = u
    BY DEF IInv, ValuesInv
  <2>6. CASE i # i0
    BY <1>4, <2>1, <2>2, <2>5, <2>6
  <2>7. CASE i = i0
    <3>1. images'[i].timeline = images[i].timeline /\ images'[i].sem_value = value + 1
          /\ images[i].sem_value = value
      BY <1>1, <1>4, <2>7
    <3>2. images'[i].timeline <= images'[i].sem_value
      BY <2>3, <2>5, <3>1
    <3>3. \A v \in Nat : v \in images'[i].timeline .. images'[i].sem_value - 1 <=>
                            v = value \/ v \in images[i].timeline .. images[i].sem_value - 1
      BY <2>3, <2>5, <3>1
    <3>4. ASSUME NEW v \in Nat
          PROVE  v \in images'[i].timeline .. images'[i].sem_value - 1 <=>
                    Decode(i, v) \in decoding' \/ \E t \in Slots : WaitsAt(t, i, v)'
      BY <2>1, <2>2, <2>5, <2>7, <3>3
    <3>5. ASSUME NEW v \in Nat, NEW t \in Slots, WaitsAt(t, i, v)'
          PROVE  Decode(i, v) \notin decoding' /\ \A u \in Slots : WaitsAt(u, i, v)' => t = u
      BY <2>1, <2>2, <2>4, <2>5, <2>7, <3>5
    <3> QED
      BY <3>2, <3>4, <3>5
  <2> QED
    BY <2>6, <2>7
<1> QED
  BY <1>5, <1>6, <1>7, <1>8 DEF IInv

\* The timeline of an image moves when the one submission that waits for its value is
\* executed, be it a decode or a conversion.
LEMMA ValueReached ==
    ASSUME IInv, NEW i0 \in Images, NEW value \in Nat, images[i0].timeline = value,
           images' = [images EXCEPT ![i0].timeline = value + 1], Slots' = Slots,
           Decode(i0, value) \in decoding \/ \E t \in Slots : WaitsAt(t, i0, value),
           \A i \in Images, v \in Nat :
              /\ Decode(i, v) \in decoding' <=> Decode(i, v) \in decoding /\ ~(i = i0 /\ v = value)
              /\ \A t \in Slots : WaitsAt(t, i, v)' <=> WaitsAt(t, i, v) /\ ~(i = i0 /\ v = value)
    PROVE  ValuesInv' /\ images' \in [Images -> ImageType]
           /\ \A i \in Images : /\ images'[i].lock = images[i].lock
                                /\ images'[i].sem_value = images[i].sem_value
<1>1. /\ images' \in [Images -> ImageType]
      /\ \A i \in Images :
            /\ images'[i].timeline = IF i = i0 THEN value + 1 ELSE images[i].timeline
            /\ images'[i].sem_value = images[i].sem_value
            /\ images'[i].lock = images[i].lock
  <2> DEFINE next == [images[i0] EXCEPT !.timeline = value + 1]
  <2>1. images \in [Images -> ImageType] /\ images[i0] \in ImageType /\ value + 1 \in Nat
    BY DEF IInv, Types
  <2>2. images' = [images EXCEPT ![i0] = next]
    BY <2>1
  <2>3. /\ next \in ImageType /\ next.timeline = value + 1 /\ next.lock = images[i0].lock
        /\ next.sem_value = images[i0].sem_value
    BY <2>1 DEF ImageType
  <2> HIDE DEF next
  <2> QED
    BY <2>1, <2>2, <2>3
<1>2. ValuesInv'
  <2>1. \A i \in Images : images[i].timeline \in Nat /\ images[i].sem_value \in Nat
    BY DEF IInv, Types, ImageType
  <2> SUFFICES ASSUME NEW i \in Images
               PROVE  /\ images'[i].timeline <= images'[i].sem_value
                      /\ \A v \in Nat :
                            /\ v \in images'[i].timeline .. images'[i].sem_value - 1 <=>
                                  Decode(i, v) \in decoding' \/ \E t \in Slots : WaitsAt(t, i, v)'
                            /\ \A t \in Slots : WaitsAt(t, i, v)' =>
                                  /\ Decode(i, v) \notin decoding'
                                  /\ \A u \in Slots : WaitsAt(u, i, v)' => t = u
    BY DEF ValuesInv, Decode
  <2>2. /\ images[i].timeline <= images[i].sem_value
        /\ \A v \in Nat :
              /\ v \in images[i].timeline .. images[i].sem_value - 1 <=>
                    Decode(i, v) \in decoding \/ \E t \in Slots : WaitsAt(t, i, v)
              /\ \A t \in Slots : WaitsAt(t, i, v) =>
                    Decode(i, v) \notin decoding /\ \A u \in Slots : WaitsAt(u, i, v) => t = u
    BY DEF IInv, ValuesInv
  <2>3. CASE i # i0
    BY <1>1, <2>2, <2>3
  <2>4. CASE i = i0
    <3>1. value \in images[i].timeline .. images[i].sem_value - 1
      BY <2>2, <2>4
    <3>2. images'[i].timeline = value + 1 /\ images'[i].sem_value = images[i].sem_value
      BY <1>1, <2>4
    <3>3. images'[i].timeline <= images'[i].sem_value
      BY <2>1, <3>1, <3>2
    <3>4. \A v \in Nat : v \in images'[i].timeline .. images'[i].sem_value - 1 <=>
                            v # value /\ v \in images[i].timeline .. images[i].sem_value - 1
      BY <2>1, <2>4, <3>1, <3>2
    <3>5. \A v \in Nat : v \in images'[i].timeline .. images'[i].sem_value - 1 <=>
                            Decode(i, v) \in decoding' \/ \E t \in Slots : WaitsAt(t, i, v)'
      BY <2>2, <2>4, <3>4
    <3>6. \A v \in Nat : \A t \in Slots : WaitsAt(t, i, v)' =>
             Decode(i, v) \notin decoding' /\ \A u \in Slots : WaitsAt(u, i, v)' => t = u
      BY <2>2
    <3> QED
      BY <3>3, <3>5, <3>6
  <2> QED
    BY <2>3, <2>4
<1> QED
  BY <1>1, <1>2

\* The decoder finishes a picture and moves the timeline to its value.
LEMMA DecoderExecutesKeeps ==
    ASSUME IInv, DecoderExecutes
    PROVE  IInv'
<1>1. PICK work \in decoding :
          /\ images[work.image].timeline = work.wait
          /\ images' = [images EXCEPT ![work.image].timeline = @ + 1]
          /\ decoding' = decoding \ {work}
  BY DEF DecoderExecutes
<1>2. work \in [image : Images, wait : Nat]
  BY DEF IInv, Types
<1>3. PICK i0 \in Images, value \in Nat : work = Decode(i0, value)
  BY <1>2 DEF Decode
<1>4. work.image = i0 /\ work.wait = value
  BY <1>3 DEF Decode
<1>5. /\ UNCHANGED <<call, slots, queue, stop, bounds>> /\ Slots' = Slots
  BY DEF DecoderExecutes, Slots
<1>6. images[i0].timeline = value /\ images' = [images EXCEPT ![i0].timeline = value + 1]
  BY <1>1, <1>4 DEF IInv, Types
<1>7. \A i \in Images, v \in Nat :
         Decode(i, v) \in decoding' <=> Decode(i, v) \in decoding /\ ~(i = i0 /\ v = value)
  BY <1>1, <1>3 DEF Decode
<1>8. \A t \in Slots, i \in Images, v \in Nat : WaitsAt(t, i, v)' <=> WaitsAt(t, i, v)
  BY <1>5 DEF WaitsAt
<1>9. \A t \in Slots : ~WaitsAt(t, i0, value)
  BY <1>3 DEF IInv, ValuesInv
<1>10. /\ ValuesInv' /\ images' \in [Images -> ImageType]
       /\ \A i \in Images : /\ images'[i].lock = images[i].lock
                            /\ images'[i].sem_value = images[i].sem_value
  <2>1. \A i \in Images, v \in Nat : \A t \in Slots :
           WaitsAt(t, i, v)' <=> WaitsAt(t, i, v) /\ ~(i = i0 /\ v = value)
    BY <1>8, <1>9
  <2>2. Decode(i0, value) \in decoding
    BY <1>3
  <2> QED
    BY <1>5, <1>6, <1>7, <2>1, <2>2, ValueReached
<1>11. Types'
  <2>1. decoding' \subseteq [image : Images, wait : Nat]
    BY <1>1 DEF IInv, Types
  <2> QED
    BY <1>5, <1>10, <2>1 DEF IInv, Types, bounds
<1>12. CallsInv' /\ SlotsInv' /\ OwnersInv' /\ ConversionsInv'
  BY <1>5 DEF IInv, CallsInv, SlotsInv, OwnersInv, ConversionsInv, Converts, SlotShape,
              OwnerShape, bounds
<1>13. LocksInv'
  <2>1. \A d \in Callers : call[d].pc \in {"acquire", "pack", "convert"} /\ call[d].image # Host
                           => call[d].image \in Images
    BY DEF IInv, CallsInv, CallShape
  <2> QED
    BY <1>5, <1>10, <2>1 DEF IInv, LocksInv
<1> QED
  BY <1>10, <1>11, <1>12, <1>13 DEF IInv

\* What the device does with the slot's first submission.
LEMMA ExecutedFacts ==
    ASSUME IInv, NEW s \in Slots, queue[s] # <<>>
    PROVE  \E r \in SlotType, w \in Submission :
              LET slot == slots[s]
                  plan == IF w.upload THEN slot.host_plan ELSE slot.device_plan
              IN /\ w = queue[s][1] /\ w = Head(queue[s]) /\ r = Executed(s, w)
                 /\ r.busy = slot.busy /\ r.uploaded = slot.uploaded
                 /\ r.resident = slot.resident /\ r.host_plan = slot.host_plan
                 /\ r.device_plan = plan
                 /\ w.kind = "conversion" =>
                       /\ r.fence = slot.fence /\ w.image \in Images
                       /\ r.device_source = w.image
                 /\ w.kind # "conversion" =>
                       /\ w.kind = "analysis" /\ r.conversion_fence = slot.conversion_fence
                       /\ r.device_source = (IF w.image = Host THEN Host ELSE slot.device_source)
                       /\ r.partials = [plan |-> r.device_plan, source |-> r.device_source]
<1>1. queue[s] \in Seq(Submission) /\ slots[s] \in SlotType /\ SlotShape(slots[s], queue[s])
  BY DEF IInv, Types, SlotsInv
<1>2. PICK w \in Submission : w = Head(queue[s])
  BY <1>1, TailIs
<1>3. w = queue[s][1] /\ 1 \in 1 .. Len(queue[s])
  BY <1>1, <1>2, TailIs
<1> DEFINE plan == IF w.upload THEN slots[s].host_plan ELSE slots[s].device_plan
<1>4. plan \in Plan /\ w.image \in Images \cup {Host}
  BY <1>1 DEF SlotType, Submission
<1> HIDE DEF plan
<1>5. CASE w.kind = "conversion"
  <2> DEFINE r == [slots[s] EXCEPT !.device_plan = plan, !.device_source = w.image,
                                   !.conversion_fence = TRUE]
  <2>1. r = Executed(s, w)
    BY <1>5 DEF Executed, plan
  <2>2. w.image \in Images
    BY <1>1, <1>3, <1>4, <1>5 DEF SlotShape
  <2>3. /\ r \in SlotType /\ r.busy = slots[s].busy /\ r.uploaded = slots[s].uploaded
        /\ r.resident = slots[s].resident /\ r.host_plan = slots[s].host_plan
        /\ r.device_plan = plan /\ r.fence = slots[s].fence /\ r.device_source = w.image
    BY <1>1, <1>4, <2>2 DEF SlotType
  <2> HIDE DEF r
  <2> QED
    BY <1>2, <1>3, <1>5, <2>1, <2>2, <2>3 DEF plan
<1>6. CASE w.kind # "conversion"
  <2> DEFINE source == IF w.image = Host THEN Host ELSE slots[s].device_source
             r == [slots[s] EXCEPT !.device_plan = plan, !.device_source = source, !.fence = TRUE,
                                   !.partials = [plan |-> plan, source |-> source]]
  <2>1. r = Executed(s, w)
    BY <1>6 DEF Executed, plan
  <2>2. source \in Images \cup {Host, None}
    BY <1>1 DEF SlotType
  <2> HIDE DEF source
  <2>3. [plan |-> plan, source |-> source] \in [plan : Plan, source : Images \cup {Host, None}]
    BY <1>4, <2>2
  <2>4. /\ r \in SlotType /\ r.busy = slots[s].busy /\ r.uploaded = slots[s].uploaded
        /\ r.resident = slots[s].resident /\ r.host_plan = slots[s].host_plan
        /\ r.device_plan = plan /\ r.conversion_fence = slots[s].conversion_fence
        /\ r.device_source = source /\ r.partials = [plan |-> plan, source |-> source]
    BY <1>1, <1>4, <2>2, <2>3 DEF SlotType
  <2>5. w.kind = "analysis"
    BY <1>6 DEF Submission
  <2> HIDE DEF r
  <2> QED
    BY <1>2, <1>3, <1>6, <2>1, <2>4, <2>5 DEF plan, source
<1> QED
  BY <1>5, <1>6

\* The owner of the slot finds what it relies on after every execution.
LEMMA ExecuteKeeps ==
    ASSUME IInv, NEW s \in Slots, Execute(s)
    PROVE  IInv'
<1>1. queue[s] # <<>> /\ UNCHANGED <<call, decoding, stop, bounds>>
  BY DEF Execute
<1>2. PICK r \in SlotType, w \in Submission :
         LET slot == slots[s]
             plan == IF w.upload THEN slot.host_plan ELSE slot.device_plan
         IN /\ w = queue[s][1] /\ w = Head(queue[s]) /\ r = Executed(s, w)
            /\ r.busy = slot.busy /\ r.uploaded = slot.uploaded
            /\ r.resident = slot.resident /\ r.host_plan = slot.host_plan
            /\ r.device_plan = plan
            /\ w.kind = "conversion" =>
                  /\ r.fence = slot.fence /\ w.image \in Images
                  /\ r.device_source = w.image
            /\ w.kind # "conversion" =>
                  /\ w.kind = "analysis" /\ r.conversion_fence = slot.conversion_fence
                  /\ r.device_source = (IF w.image = Host THEN Host ELSE slot.device_source)
                  /\ r.partials = [plan |-> r.device_plan, source |-> r.device_source]
  BY <1>1, ExecutedFacts
<1>3. PICK old \in Seq(Submission) : old = queue[s]
  BY DEF IInv, Types
<1>z. PICK q \in Seq(Submission) : q = Tail(old)
  BY <1>1, <1>3, TailIs
<1>4. /\ w = old[1] /\ q \in Seq(Submission) /\ Len(q) = Len(old) - 1
      /\ Len(old) \in Nat /\ Len(old) >= 1
      /\ \A n \in 1 .. Len(q) : q[n] = old[n + 1] /\ n + 1 \in 1 .. Len(old)
      /\ 1 \in 1 .. Len(old)
      /\ q = <<>> <=> Len(q) = 0
  <2>1. /\ q \in Seq(Submission) /\ Len(q) = Len(old) - 1
        /\ Len(old) \in Nat /\ Len(old) >= 1
        /\ \A n \in 1 .. Len(q) : q[n] = old[n + 1]
    BY <1>1, <1>3, <1>z, TailIs
  <2>2. q = <<>> <=> Len(q) = 0
    BY <2>1, EmptyIs
  <2> QED
    BY <1>2, <1>3, <2>1, <2>2
<1>5. /\ slots' = [slots EXCEPT ![s] = r] /\ queue' = [queue EXCEPT ![s] = q]
      /\ w.kind = "conversion" => images[w.image].timeline = w.wait
      /\ images' = IF w.kind = "conversion" THEN [images EXCEPT ![w.image].timeline = w.wait + 1]
                   ELSE images
  BY <1>2, <1>3, <1>z DEF Execute, IInv, Types
<1>6. SlotShape(slots[s], old)
  BY <1>3 DEF IInv, SlotsInv
\* What is left holds no conversion, and after an analysis nothing.
<1>7. /\ \A n \in 1 .. Len(q) : q[n].kind # "conversion"
      /\ ~Pending(q, "conversion")
      /\ Pending(q, "analysis") => Pending(old, "analysis") /\ w.kind = "conversion"
      /\ w.kind = "analysis" => Len(old) = 1 /\ q = <<>>
      /\ ~slots[s].uploaded
  <2>1. \A n \in 1 .. Len(old) : /\ old[n].kind = "conversion" => n = 1 /\ old[n].image # Host
                                 /\ old[n].kind = "analysis" => n = Len(old)
    BY <1>6 DEF SlotShape
  <2>2. ~slots[s].uploaded
    BY <1>1, <1>3, <1>6 DEF SlotShape
  <2>3. w.kind \in {"conversion", "analysis"}
    BY DEF Submission
  <2>4. w.kind = "analysis" => Len(old) = 1 /\ q = <<>>
    BY <1>4, <2>1
  <2>5. ASSUME NEW n \in 1 .. Len(q)
        PROVE  q[n].kind # "conversion"
    <3>1. n + 1 \in 1 .. Len(old) /\ n + 1 # 1 /\ q[n] = old[n + 1]
      BY <1>4
    <3> QED
      BY <2>1, <3>1
  <2>6. w.kind = "conversion" => w.image # Host
    BY <1>4, <2>1
  <2>7. Pending(q, "analysis") => Pending(old, "analysis") /\ w.kind = "conversion"
    BY SMTT(20), <1>4, <2>3, <2>4 DEF Pending
  <2> QED
    BY <2>2, <2>3, <2>4, <2>5, <2>6, <2>7 DEF Pending
<1>8. SlotShape(r, q)
  <2>1. \A n \in 1 .. Len(q) : q[n].kind = "analysis" => n = Len(q)
    BY SMTT(20), <1>4, <1>6 DEF SlotShape
  <2>2. Pending(q, "analysis") => ~r.fence
    BY <1>2, <1>6, <1>7 DEF SlotShape
  <2> QED
    BY <1>2, <1>7, <2>1, <2>2 DEF SlotShape
<1>9. /\ Slots' = Slots /\ slots' \in [Slots -> SlotType] /\ slots'[s] = r
      /\ \A t \in Slots : t # s => slots'[t] = slots[t]
  BY <1>5, SlotUpdate DEF IInv
<1>10. /\ queue' \in [Slots -> Seq(Submission)] /\ queue'[s] = q
       /\ \A t \in Slots : t # s => queue'[t] = queue[t]
  BY <1>4, <1>5 DEF IInv, Types
<1>11. call' = call /\ cache_plans' = cache_plans
  BY <1>1 DEF bounds
<1>12. CallsInv'
  BY <1>11 DEF IInv, CallsInv
<1>13. SlotsInv'
  <2> SUFFICES ASSUME NEW t \in Slots PROVE SlotShape(slots[t], queue[t])'
    BY <1>9 DEF SlotsInv
  <2>1. CASE t = s
    <3>1. slots'[t] = r /\ queue'[t] = q
      BY <1>9, <1>10, <2>1
    <3> QED
      BY <1>8, <1>11, <3>1 DEF SlotShape
  <2>2. CASE t # s
    BY <1>9, <1>10, <1>11, <2>2 DEF IInv, SlotsInv, SlotShape
  <2> QED
    BY <2>1, <2>2
<1>14. ASSUME NEW d \in Callers, call[d].slot = s
       PROVE  OwnerShape(call[d], r, q)
  <2>1. s # None
    BY VulkanBoundsOK DEF IInv, Types
  <2>2. PICK k \in CallType : k = call[d] /\ CallShape(k)
    BY DEF IInv, Types, CallsInv
  <2>3. OwnerShape(k, slots[s], old) /\ k.slot = s
    BY <1>3, <1>14, <2>1, <2>2 DEF IInv, OwnersInv
  <2>4. k.pc # "convert"
    <3> SUFFICES ASSUME k.pc = "convert" PROVE FALSE
      OBVIOUS
    <3>1. ~k.conversion_submitted
      BY <2>2 DEF CallShape
    <3>2. ~Pending(old, "conversion") /\ ~Pending(old, "analysis")
      BY <1>3, <1>14, <2>1, <2>2, <2>3, <3>1, NoConversion DEF OwnerShape
    <3>3. old = <<>>
      BY <1>3, <3>2, QuietSlot
    <3> QED
      BY <1>1, <1>3, <3>3
  <2>5. k.outcome # "ok"
    BY <1>1, <1>3, <2>3 DEF OwnerShape
  <2>6. r.busy
    BY <1>2, <2>3 DEF OwnerShape
  <2>7. CASE k.pc \in {"analyze", "wait"}
    <3>1. \A n \in 1 .. Len(old) :
             /\ old[n].image = k.image
             /\ old[n].upload = (k.upload_plan /\ (old[n].kind = "analysis" => k.image = Host))
      BY <2>3, <2>7 DEF OwnerShape
    <3>2. /\ w.image = k.image
          /\ w.upload = (k.upload_plan /\ (w.kind = "analysis" => k.image = Host))
      BY <1>4, <3>1
    <3>3. /\ cache_plans => slots[s].resident = k.batch
          /\ IF k.upload_plan THEN slots[s].host_plan = k.batch ELSE slots[s].device_plan = k.batch
      BY <2>3, <2>7 DEF OwnerShape
    <3>4. /\ ~r.uploaded /\ (cache_plans => r.resident = k.batch)
          /\ k.upload_plan => r.host_plan = k.batch
      BY <1>2, <1>7, <3>3
    <3>5. k.image # Host /\ ~Pending(old, "conversion") =>
             slots[s].device_plan = k.batch /\ slots[s].device_source = k.image
      BY <2>3, <2>7 DEF OwnerShape
    <3>6. r.device_plan = k.batch /\ r.device_source = k.image
      <4>1. CASE w.kind = "conversion"
        <5>1. w.upload = k.upload_plan /\ k.upload_plan \in BOOLEAN
          BY <3>2, <4>1 DEF CallType
        <5> QED
          BY <1>2, <3>2, <3>3, <4>1, <5>1
      <4>2. CASE w.kind # "conversion"
        <5>1. w.kind = "analysis" /\ ~Pending(old, "conversion")
          <6>1. w.kind = "analysis" /\ Len(old) = 1
            BY <1>2, <1>7, <4>2
          <6> QED
            BY <1>4, <6>1 DEF Pending
        <5>2. r.device_source = k.image
          BY <1>2, <3>2, <3>5, <4>2, <5>1
        <5>3. CASE k.image = Host
          <6>1. w.upload = k.upload_plan /\ k.upload_plan \in BOOLEAN
            BY <3>2, <5>3 DEF CallType
          <6> QED
            BY <1>2, <3>3, <5>2, <6>1
        <5>4. CASE k.image # Host
          <6>1. ~w.upload
            BY <3>2, <5>1, <5>4
          <6> QED
            BY <1>2, <3>5, <5>1, <5>2, <5>4, <6>1
        <5> QED
          BY <5>3, <5>4
      <4> QED
        BY <4>1, <4>2
    <3>7. k.pc = "analyze" => ~Pending(q, "analysis")
      BY <1>7, <2>3 DEF OwnerShape
    <3>8. k.pc = "wait" /\ q # <<>> => q[Len(q)].kind = "analysis"
      <4> SUFFICES ASSUME k.pc = "wait", q # <<>> PROVE q[Len(q)].kind = "analysis"
        OBVIOUS
      <4>1. old[Len(old)].kind = "analysis"
        BY <1>1, <1>3, <2>3 DEF OwnerShape
      <4>2. Len(q) \in 1 .. Len(q) /\ Len(q) + 1 = Len(old)
        BY <1>4
      <4> QED
        BY <1>4, <4>1, <4>2
    <3>9. k.pc = "wait" /\ q = <<>> => r.partials = [plan |-> k.batch, source |-> k.image]
      <4> SUFFICES ASSUME k.pc = "wait", q = <<>>
                   PROVE  r.partials = [plan |-> k.batch, source |-> k.image]
        OBVIOUS
      <4>1. old[Len(old)].kind = "analysis"
        BY <1>1, <1>3, <2>3 DEF OwnerShape
      <4>2. Len(old) = 1
        BY <1>4
      <4>3. w.kind = "analysis"
        BY <1>4, <4>1, <4>2
      <4> QED
        BY <1>2, <3>6, <4>3
    <3>10. \A n \in 1 .. Len(q) :
              /\ q[n].image = k.image
              /\ q[n].upload = (k.upload_plan /\ (q[n].kind = "analysis" => k.image = Host))
      BY <1>4, <3>1
    <3> QED
      BY <2>2, <2>4, <2>5, <2>6, <3>4, <3>6, <3>7, <3>8, <3>9, <3>10 DEF OwnerShape
  <2>8. CASE k.pc \notin {"analyze", "wait"}
    BY <2>2, <2>4, <2>5, <2>6, <2>8 DEF OwnerShape
  <2> QED
    BY <2>7, <2>8
<1>15. OwnersInv'
  <2>1. ASSUME NEW d \in Callers, call[d].slot # None
        PROVE  /\ call[d].slot \in Slots
               /\ OwnerShape(call[d], slots[call[d].slot], queue[call[d].slot])'
    <3>1. call[d].slot \in Slots /\ OwnerShape(call[d], slots[call[d].slot], queue[call[d].slot])
      BY <2>1 DEF IInv, OwnersInv
    <3>2. CASE call[d].slot = s
      <4>1. OwnerShape(call[d], r, q)
        BY <1>14, <3>2
      <4>2. call'[d] = call[d] /\ call'[d].slot = s
        BY <1>11, <3>2
      <4>3. slots'[call'[d].slot] = r /\ queue'[call'[d].slot] = q
        BY <1>9, <1>10, <4>2
      <4>4. OwnerShape(call[d], slots[call[d].slot], queue[call[d].slot])'
        BY <1>11, <4>1, <4>2, <4>3 DEF OwnerShape
      <4> QED
        BY <3>1, <4>4
    <3>3. CASE call[d].slot # s
      <4>1. PICK t \in Slots : t = call[d].slot
        BY <3>1
      <4>2. call'[d] = call[d] /\ call'[d].slot = t
        BY <1>11, <4>1
      <4>3. slots'[call'[d].slot] = slots[t] /\ queue'[call'[d].slot] = queue[t]
        BY <1>9, <1>10, <3>3, <4>1, <4>2
      <4>4. OwnerShape(call[d], slots[call[d].slot], queue[call[d].slot])'
        BY <1>11, <3>1, <4>1, <4>2, <4>3 DEF OwnerShape
      <4> QED
        BY <3>1, <4>4
    <3> QED
      BY <3>1, <3>2, <3>3
  <2> QED
    BY <1>9, <1>11, <2>1 DEF IInv, OwnersInv
<1>16. ConversionsInv'
  <2> SUFFICES ASSUME NEW t \in Slots, NEW n \in 1 .. Len(queue'[t]),
                      queue'[t][n].kind = "conversion"
               PROVE  \E d \in Callers : Converts(d, t, queue[t][n])'
    BY <1>9 DEF ConversionsInv
  <2>1. t # s
    BY <1>7, <1>10
  <2>2. queue'[t] = queue[t]
    BY <1>10, <2>1
  <2>3. PICK d \in Callers : Converts(d, t, queue[t][n])
    BY <2>2 DEF IInv, ConversionsInv
  <2>4. Converts(d, t, queue[t][n])'
    BY <1>11, <2>2, <2>3 DEF Converts
  <2> QED
    BY <2>4
<1>17. /\ ValuesInv' /\ images' \in [Images -> ImageType]
       /\ \A i \in Images : /\ images'[i].lock = images[i].lock
                            /\ images'[i].sem_value = images[i].sem_value
  <2>1. \A i \in Images, v \in Nat :
           /\ WaitsAt(s, i, v) <=> w.kind = "conversion" /\ w.image = i /\ w.wait = v
           /\ ~WaitsAt(s, i, v)'
           /\ \A t \in Slots : t # s => (WaitsAt(t, i, v)' <=> WaitsAt(t, i, v))
    <3>1. \A i \in Images, v \in Nat : ~WaitsAt(s, i, v)'
      <4>1. q # <<>> => q[1].kind # "conversion"
        BY <1>4, <1>7
      <4> QED
        BY <1>10, <4>1 DEF WaitsAt
    <3> QED
      BY <1>1, <1>2, <1>10, <3>1 DEF WaitsAt
  <2>2. CASE w.kind = "conversion"
    <3>1. PICK i0 \in Images, value \in Nat : i0 = w.image /\ value = w.wait
      BY <1>2, <2>2 DEF Submission
    <3>2. WaitsAt(s, i0, value)
      BY <2>1, <2>2, <3>1
    <3>3. Decode(i0, value) \notin decoding /\ \A t \in Slots : WaitsAt(t, i0, value) => s = t
      BY <3>2 DEF IInv, ValuesInv
    <3>4. \A i \in Images, v \in Nat :
             Decode(i, v) \in decoding' <=> Decode(i, v) \in decoding /\ ~(i = i0 /\ v = value)
      BY <1>1, <3>3
    <3>5. \A i \in Images, v \in Nat : \A t \in Slots :
             WaitsAt(t, i, v)' <=> WaitsAt(t, i, v) /\ ~(i = i0 /\ v = value)
      BY <2>1, <3>1, <3>3
    <3>6. images[i0].timeline = value /\ images' = [images EXCEPT ![i0].timeline = value + 1]
      BY <1>5, <2>2, <3>1
    <3> QED
      BY ZenonT(40), <1>9, <3>2, <3>4, <3>5, <3>6, ValueReached
  <2>3. CASE w.kind # "conversion"
    <3>1. images' = images
      BY <1>5, <2>3
    <3>2. \A t \in Slots, i \in Images, v \in Nat : WaitsAt(t, i, v)' <=> WaitsAt(t, i, v)
      BY <2>1, <2>3
    <3>3. ValuesInv'
      BY <1>1, <1>9, <3>1, <3>2, ValuesKeep
    <3> QED
      BY <3>1, <3>3 DEF IInv, Types
  <2> QED
    BY <2>2, <2>3
<1>18. Types'
  BY <1>1, <1>9, <1>10, <1>17 DEF IInv, Types, bounds
<1>19. LocksInv'
  <2>1. \A d \in Callers : call[d].pc \in {"acquire", "pack", "convert"} /\ call[d].image # Host
                           => call[d].image \in Images
    BY DEF IInv, CallsInv, CallShape
  <2> QED
    BY <1>11, <1>17, <2>1 DEF IInv, LocksInv
<1> QED
  BY <1>12, <1>13, <1>15, <1>16, <1>17, <1>18, <1>19 DEF IInv

LEMMA NextIInv ==
    ASSUME IInv, [Next]_vars
    PROVE  IInv'
<1>1. CASE \E c \in Callers : Call(c) \/ Work(c) \/ Fails(c)
  BY <1>1, CallKeeps, LockFrameKeeps, AcquireSlotKeeps, PackKeeps, SubmitConversionKeeps,
     SubmitAnalysisKeeps, WaitAnalysisKeeps, ReleaseKeeps, FailsKeeps DEF Work
<1>2. CASE RequestStop \/ UNCHANGED vars
  BY <1>2, StopKeeps
<1>3. CASE (\E i \in Images : DecoderSubmits(i)) \/ DecoderExecutes \/ (\E s \in Slots : Execute(s))
  BY <1>3, DecoderSubmitsKeeps, DecoderExecutesKeeps, ExecuteKeeps
<1> QED
  BY <1>1, <1>2, <1>3 DEF Next

LEMMA Invariance == Spec => []IInv
<1>1. Init => IInv
  BY InitIInv
<1>2. IInv /\ [Next]_vars => IInv'
  BY NextIInv
<1> QED
  BY <1>1, <1>2, PTL DEF Spec

-----------------------------------------------------------------------------
(* What follows from the invariant.                                        *)

LEMMA InvTypeOK == IInv => TypeOK
<1> SUFFICES ASSUME IInv PROVE TypeOK
  OBVIOUS
<1>1. \A c \in Callers : call[c] \in CallType /\ (call[c].slot # None => call[c].slot \in Slots)
  BY DEF IInv, Types, OwnersInv
<1>2. \A i \in Images : images[i] \in ImageType
  BY DEF IInv, Types
<1>3. \A s \in Slots : slots[s] \in SlotType
  BY DEF IInv, Types
<1>4. \A c \in Callers : /\ call[c].slot \in Slots \cup {None}
                         /\ call[c].outcome \in {None, "ok", "error", "cancelled"}
  BY <1>1 DEF CallType
<1>5. \A i \in Images : images[i].lock \in Callers \cup {None}
  BY <1>2 DEF ImageType
<1>6. \A s \in Slots : /\ slots[s].fence \in BOOLEAN /\ slots[s].uploaded \in BOOLEAN
                       /\ slots[s].resident \in Batches \cup {None}
  BY <1>3 DEF SlotType, Plan
<1> QED
  BY <1>4, <1>5, <1>6 DEF IInv, Types, TypeOK

\* The conversions of an image are the slots that wait for one of its values.
LEMMA ConversionsAre ==
    ASSUME IInv, NEW i \in Images
    PROVE  /\ \A u \in Conversions(i) :
                 /\ u = <<u[1], 1>> /\ u[1] \in Slots
                 /\ queue[u[1]][u[2]].wait \in Nat
                 /\ WaitsAt(u[1], i, queue[u[1]][u[2]].wait)
                 /\ \E c \in Callers : Converts(c, u[1], queue[u[1]][u[2]])
           /\ \A s \in Slots, k \in Nat : WaitsAt(s, i, k) =>
                 <<s, 1>> \in Conversions(i) /\ queue[s][1].wait = k
<1>1. ASSUME NEW u \in Conversions(i)
      PROVE  /\ u = <<u[1], 1>> /\ u[1] \in Slots
             /\ queue[u[1]][u[2]].wait \in Nat
             /\ WaitsAt(u[1], i, queue[u[1]][u[2]].wait)
             /\ \E c \in Callers : Converts(c, u[1], queue[u[1]][u[2]])
  <2>1. /\ u \in Slots \X (1 .. 3) /\ u[2] \in DOMAIN queue[u[1]]
        /\ queue[u[1]][u[2]].kind = "conversion" /\ queue[u[1]][u[2]].image = i
    BY DEF Conversions
  <2>2. PICK s \in Slots, n \in 1 .. 3 : u = <<s, n>>
    BY <2>1
  <2>3. PICK q \in Seq(Submission) : q = queue[s]
    BY DEF IInv, Types
  <2>4. n \in 1 .. Len(q) /\ q[n].kind = "conversion" /\ q[n].image = i
    BY <2>1, <2>2, <2>3
  <2>5. n = 1
    BY <2>3, <2>4 DEF IInv, SlotsInv, SlotShape
  <2>6. q # <<>> /\ q[1] \in Submission
    BY <2>4, <2>5, EmptyIs
  <2>7. q[1].wait \in Nat
    BY <2>6 DEF Submission
  <2>8. WaitsAt(s, i, q[1].wait)
    BY <2>3, <2>4, <2>5, <2>6 DEF WaitsAt
  <2>9. \E c \in Callers : Converts(c, s, q[1])
    BY <2>3, <2>4, <2>5 DEF IInv, ConversionsInv
  <2>10. u = <<s, 1>> /\ u[1] = s /\ u[2] = 1 /\ queue[u[1]][u[2]] = q[1]
    BY <2>2, <2>3, <2>5
  <2> QED
    BY <2>7, <2>8, <2>9, <2>10
<1>2. ASSUME NEW s \in Slots, NEW k \in Nat, WaitsAt(s, i, k)
      PROVE  <<s, 1>> \in Conversions(i) /\ queue[s][1].wait = k
  <2>1. PICK q \in Seq(Submission) : q = queue[s]
    BY DEF IInv, Types
  <2>2. q # <<>> /\ q[1].kind = "conversion" /\ q[1].image = i /\ q[1].wait = k
    BY <1>2, <2>1 DEF WaitsAt
  <2>3. 1 \in DOMAIN q
    BY <2>2
  <2> QED
    BY <2>1, <2>2, <2>3 DEF Conversions
<1> QED
  BY <1>1, <1>2

\* As many values as submissions: each waits for its own.
LEMMA SubmissionsCounted ==
    ASSUME IInv, NEW i \in Images
    PROVE  LET users == {work \in decoding : work.image = i}
               waits == {queue[u[1]][u[2]].wait : u \in Conversions(i)} \cup {w.wait : w \in users}
           IN /\ waits = images[i].timeline .. images[i].sem_value - 1
              /\ Cardinality(waits) = Cardinality(Conversions(i)) + Cardinality(users)
<1> DEFINE users == {work \in decoding : work.image = i}
           C == {queue[u[1]][u[2]].wait : u \in Conversions(i)}
           D == {w.wait : w \in users}
           waits == C \cup D
           range == images[i].timeline .. images[i].sem_value - 1
           WaitOf(u) == queue[u[1]][u[2]].wait
<1>1. images[i].timeline \in Nat /\ images[i].sem_value \in Nat
  BY DEF IInv, Types, ImageType
<1>2. \A k \in Nat : /\ k \in range <=> \/ Decode(i, k) \in decoding
                                     \/ \E s \in Slots : WaitsAt(s, i, k)
                     /\ \A s \in Slots : WaitsAt(s, i, k) =>
                           Decode(i, k) \notin decoding /\ \A t \in Slots : WaitsAt(t, i, k) => s = t
  BY DEF IInv, ValuesInv
<1>3. \A w \in users : w = Decode(i, w.wait) /\ w.wait \in Nat
  BY DEF IInv, Types, Decode
<1>4. \A k \in Nat : k \in D <=> Decode(i, k) \in decoding
  <2>1. \A k \in Nat : Decode(i, k) \in decoding => Decode(i, k) \in users /\ Decode(i, k).wait = k
    BY DEF Decode
  <2> QED
    BY <1>3, <2>1
<1>5. \A k \in Nat : k \in C <=> \E s \in Slots : WaitsAt(s, i, k)
  <2>1. \A s \in Slots, k \in Nat : WaitsAt(s, i, k) => k \in C
    <3> SUFFICES ASSUME NEW s \in Slots, NEW k \in Nat, WaitsAt(s, i, k) PROVE k \in C
      OBVIOUS
    <3>1. <<s, 1>> \in Conversions(i) /\ queue[s][1].wait = k
      BY ConversionsAre
    <3> QED
      BY <3>1
  <2>2. \A k \in C : \E s \in Slots : WaitsAt(s, i, k)
    BY ConversionsAre
  <2> QED
    BY <2>1, <2>2
<1>6. C \subseteq Nat /\ D \subseteq Nat /\ range \subseteq Nat
  BY <1>1, <1>3, ConversionsAre
<1>7. waits = range
  <2> HIDE DEF range, C, D
  <2> QED
    BY <1>2, <1>4, <1>5, <1>6
<1>8. C \cap D = {}
  <2> HIDE DEF C, D
  <2> QED
    BY <1>2, <1>4, <1>5, <1>6
<1>9. IsFiniteSet(range)
  <2>1. images[i].timeline \in Int /\ images[i].sem_value - 1 \in Int
    BY <1>1
  <2> QED
    BY <2>1, FS_Interval
<1>10. IsFiniteSet(C) /\ IsFiniteSet(D)
  <2> HIDE DEF C, D, range
  <2> QED
    BY <1>7, <1>9, FS_Subset
<1>11. Cardinality(Conversions(i)) = Cardinality(C)
  <2> DEFINE f == [u \in Conversions(i) |-> WaitOf(u)]
  <2>1. \A u, v \in Conversions(i) : WaitOf(u) = WaitOf(v) => u = v
    <3> SUFFICES ASSUME NEW u \in Conversions(i), NEW v \in Conversions(i), WaitOf(u) = WaitOf(v)
                 PROVE  u = v
      OBVIOUS
    <3>1. /\ u = <<u[1], 1>> /\ u[1] \in Slots /\ WaitOf(u) \in Nat /\ WaitsAt(u[1], i, WaitOf(u))
          /\ v = <<v[1], 1>> /\ v[1] \in Slots /\ WaitsAt(v[1], i, WaitOf(v))
      BY ConversionsAre
    <3>2. u[1] = v[1]
      BY <1>2, <3>1
    <3> QED
      BY <3>1, <3>2
  <2>2. f \in Bijection(Conversions(i), C)
    BY <2>1 DEF Bijection, Injection, Surjection, IsInjective
  <2>3. ExistsBijection(C, Conversions(i))
    BY <2>2, Fun_ExistsBijSymmetric DEF ExistsBijection
  <2> HIDE DEF C
  <2> QED
    BY <1>10, <2>3, FS_Bijection
<1>12. Cardinality(users) = Cardinality(D)
  <2> DEFINE f == [w \in users |-> w.wait]
  <2>1. \A v, w \in users : v.wait = w.wait => v = w
    BY <1>3
  <2>2. f \in Bijection(users, D)
    BY <2>1 DEF Bijection, Injection, Surjection, IsInjective
  <2>3. ExistsBijection(D, users)
    BY <2>2, Fun_ExistsBijSymmetric DEF ExistsBijection
  <2> HIDE DEF D, users
  <2> QED
    BY <1>10, <2>3, FS_Bijection
<1>13. Cardinality(waits) = Cardinality(C) + Cardinality(D)
  <2> HIDE DEF C, D
  <2>1. Cardinality(C \cup D) = Cardinality(C) + Cardinality(D) - Cardinality(C \cap D)
    BY <1>10, FS_Union
  <2>2. Cardinality(C \cap D) = 0
    BY <1>8, FS_EmptySet
  <2>3. Cardinality(C) \in Nat /\ Cardinality(D) \in Nat
    BY <1>10, FS_CardinalityType
  <2> QED
    BY <2>1, <2>2, <2>3
<1> QED
  BY <1>7, <1>11, <1>12, <1>13

LEMMA InvFramesSettled == IInv => FramesSettled
<1> SUFFICES ASSUME IInv PROVE FramesSettled
  OBVIOUS
<1>1. TypeOK
  BY InvTypeOK
<1>2. ASSUME NEW i \in Images, NEW u \in Conversions(i)
      PROVE  \E c \in Callers : /\ call[c].slot = u[1] /\ call[c].image = i
                                /\ call[c].outcome \in {None, "error"}
  <2>1. PICK c \in Callers : Converts(c, u[1], queue[u[1]][u[2]])
    BY ConversionsAre
  <2>2. queue[u[1]][u[2]].image = i
    BY DEF Conversions
  <2> QED
    BY <2>1, <2>2 DEF Converts
<1>3. \A i \in Images, c \in Callers :
        images[i].lock = c => call[c].image = i /\ ~call[c].conversion_submitted
  BY DEF IInv, LocksInv
<1> QED
  BY <1>1, <1>2, <1>3, SubmissionsCounted DEF FramesSettled

LEMMA InvResultFromBatch == IInv => ResultFromBatch
<1> SUFFICES ASSUME IInv, NEW c \in Callers
             PROVE  /\ At(c, "convert") => queue[call[c].slot] = <<>>
                    /\ call[c].outcome = "ok" =>
                          Slot(c).partials = [plan |-> call[c].batch, source |-> call[c].image]
  BY DEF ResultFromBatch
<1>1. ASSUME call[c].pc = "convert"
      PROVE  queue[call[c].slot] = <<>>
  <2>1. PICK s \in Slots :
           /\ s = call[c].slot /\ s # None
           /\ CallShape(call[c]) /\ OwnerShape(call[c], slots[s], queue[s])
    BY <1>1, OwnerFacts DEF Owning
  <2>2. ~call[c].conversion_submitted
    BY <1>1, <2>1 DEF CallShape
  <2>3. ~Pending(queue[s], "analysis")
    BY <1>1, <2>1 DEF OwnerShape
  <2> QED
    BY <2>1, <2>2, <2>3, NoConversion, QuietSlot
<1>2. ASSUME call[c].outcome = "ok"
      PROVE  Slot(c).partials = [plan |-> call[c].batch, source |-> call[c].image]
  <2>1. call[c].outcome # None
    BY <1>2, VulkanBoundsOK
  <2>2. call[c].pc \in Owning
    BY <2>1 DEF IInv, CallsInv, CallShape, Owning
  <2>3. PICK s \in Slots : s = call[c].slot /\ OwnerShape(call[c], slots[s], queue[s])
    BY <2>2, OwnerFacts
  <2> QED
    BY <1>2, <2>3 DEF OwnerShape, Slot
<1> QED
  BY <1>1, <1>2 DEF At

\* A decoded image and FFmpeg's record of it stay consistent whatever fails: every pending
\* submission, of the decoder or of a conversion, waits for a value of its own below the
\* recorded one, and no gap in the values keeps one waiting; a frame is locked by the one
\* call that has not submitted its conversion; and no conversion of an image outlives the
\* call that holds it.
THEOREM FramesSettledHolds == Spec => []FramesSettled
  BY Invariance, InvFramesSettled, PTL

\* A successful call returns results computed from its own batch's plans and its own frame,
\* though slots, their plans and their half-executed work are handed from call to call; and a
\* slot is recorded anew only while the device has nothing of it left to do.
THEOREM ResultFromBatchHolds == Spec => []ResultFromBatch
  BY Invariance, InvResultFromBatch, PTL
=============================================================================
