------------------------- MODULE EngineClient_proof -------------------------
(***************************************************************************)
(* Proofs about EngineClient, for any jobs, any number of restarts and of   *)
(* crashes, with and without undecodable lines.                             *)
(*                                                                         *)
(* That a job ends once rests on the client's maps: a terminal event finds  *)
(* a job only while it is in jobsByRequest, also by the engine's id.  For   *)
(* that the entry of jobsByEngineId must be the one cleanupTracked deletes, *)
(* so a job must never get two engine ids.  It does not, although events of *)
(* an old session can meet jobs of a new one, because a job is written to   *)
(* one engine once (Fresh) and each `accepted` quotes the one number it got *)
(* there (AcceptedTrue).                                                    *)
(*                                                                         *)
(* A second part, at the end, is about VerifyRing.                          *)
(***************************************************************************)
EXTENDS EngineClient, VerifyRing, TLAPS, FiniteSetTheorems, SequenceTheorems

Commands == [type : {"hello", "capabilities"}, request : Flows]
            \cup [type : {"analyze"}, job : Jobs]
            \cup [type : {"cancel"}, id : {0} \cup EngineIds]
            \cup [type : {"shutdown"}]
JobLines == [type : {"accepted"}, request : Jobs, id : EngineIds]
            \cup [type : Ends, request : Jobs \cup {None}, id : {0} \cup EngineIds]
Lines == JobLines \cup [type : {"answer"}, request : Flows] \cup [type : {"undecodable"}]
Events == [session : Sessions, line : JobLines \cup [type : {"exit"}]]
Shown == Ends \cup {"submit_failed", "worker_exit"}

\* The controller and the processes.
ControllerOK ==
    /\ session \in Sessions \cup {None}
    /\ pc \in [Flows -> {"idle", "take", "tell", "reap", "start", "enter", "insert", "write",
                         "wait", "done", "failed"}]
    /\ op \in [Flows -> {"hello", "capabilities"}]
    /\ lock \in Flows \cup {None}
    /\ \A f \in Flows : lock = f <=> pc[f] \in {"insert", "write", "wait"}
    /\ victim \in [Flows -> Sessions \cup {None}]
    /\ pending \in [Sessions -> SUBSET Flows] /\ answered \subseteq Flows
    /\ child \in [Sessions -> {"none", "up", "dead"}]
    /\ reader \in [Sessions -> {"none", "reading", "exiting", "ended"}]
    /\ crashes \in 0 .. MaxCrashes /\ crossed \in BOOLEAN

\* The command that gives job r to the engine of session s.
Gives(s, i, r) == i \in 1 .. Len(stdin[s]) /\ stdin[s][i].type = "analyze" /\ stdin[s][i].job = r

\* That command waits in one place, and the engine has not seen the job before.
Fresh ==
    /\ \A s \in Sessions, i \in Nat, r \in Jobs :
          Gives(s, i, r) => given[r] = s /\ job_id[r] = 0 /\ ended[r] = "none"
    /\ \A s \in Sessions, i, j \in Nat, r \in Jobs : Gives(s, i, r) /\ Gives(s, j, r) => i = j

WorkOK ==
    /\ stdin \in [Sessions -> Seq(Commands)]
    /\ call \in [Jobs -> {"none", "invoked", "queued", "refused", "returned"}]
    /\ given \in [Jobs -> Sessions \cup {None}]
    /\ job_id \in [Jobs -> {0} \cup EngineIds]
    /\ ended \in [Jobs -> Ends \cup {"none"}]
    /\ cancel_requested \subseteq Jobs
    /\ \A r \in Jobs : call[r] \in {"none", "invoked"} => given[r] = None
    /\ \A r \in Jobs : given[r] = None => job_id[r] = 0 /\ ended[r] = "none"
    /\ Fresh

\* Whatever says that a job is accepted gives it the number the engine gave it.
AcceptedTrue(line) == line.type = "accepted" => line.id = job_id[line.request]

LinesOK ==
    /\ stdout \in [Sessions -> Seq(Lines)]
    /\ wire \in Seq(Events)
    /\ \A s \in Sessions : \A i \in 1 .. Len(stdout[s]) : AcceptedTrue(stdout[s][i])
    /\ \A i \in 1 .. Len(wire) : AcceptedTrue(wire[i].line)

ClientOK ==
    /\ cancels \subseteq cancelSent /\ cancelSent \subseteq cancelRequested
    /\ cancelRequested \subseteq Jobs
    /\ jobsByRequest \subseteq Jobs /\ acceptedWaiters \subseteq VerifyJobs
    /\ jobsByEngineId \in [EngineIds -> Jobs \cup {None}]
    /\ engineJobId \in [Jobs -> {0} \cup EngineIds]
    /\ finished \subseteq Jobs
    /\ shown \in [Jobs -> Seq(Shown)]
    /\ \A r \in finished \cup jobsByRequest \cup cancelRequested : call[r] # "none"
    /\ jobsByRequest \cap finished = {}
    /\ acceptedWaiters \subseteq jobsByRequest
    /\ \A i \in EngineIds : jobsByEngineId[i] # None =>
          LET r == jobsByEngineId[i]
          IN r \in jobsByRequest /\ engineJobId[r] = i /\ job_id[r] = i
    /\ \A r \in Jobs : Len(shown[r]) <= 1 /\ (r \notin finished => shown[r] = <<>>)
    /\ CancelNotForgotten

IInv == ControllerOK /\ WorkOK /\ LinesOK /\ ClientOK
-----------------------------------------------------------------------------
LEMMA IdsArePositive == EngineIds \subseteq Nat \ {0} /\ Cardinality(Jobs) \in Nat
  BY JobsFinite, FS_CardinalityType DEF EngineIds

\* A sequence with one more element, and without its first.
LEMMA AppendedTo ==
    ASSUME NEW S, NEW seq \in Seq(S), NEW e \in S
    PROVE  /\ Append(seq, e) \in Seq(S)
           /\ \A i \in 1 .. Len(Append(seq, e)) :
                 \/ i \in 1 .. Len(seq) /\ Append(seq, e)[i] = seq[i]
                 \/ i = Len(seq) + 1 /\ Append(seq, e)[i] = e
  BY AppendProperties, LenProperties

LEMMA TailOf ==
    ASSUME NEW S, NEW seq \in Seq(S), seq # <<>>
    PROVE  /\ Tail(seq) \in Seq(S) /\ Head(seq) \in S
           /\ Head(seq) = seq[1] /\ Len(seq) \in Nat \ {0}
           /\ \A i \in 1 .. Len(Tail(seq)) : i + 1 \in 1 .. Len(seq) /\ Tail(seq)[i] = seq[i + 1]
  BY HeadTailProperties, LenProperties, EmptySeq

LEMMA InitHolds == Init => IInv
  <1> SUFFICES ASSUME Init PROVE IInv
    OBVIOUS
  <1>1. ControllerOK
    <2>1. None \notin Flows
      BY NamesDistinct
    <2>2. \A f \in Flows : lock = f <=> pc[f] \in {"insert", "write", "wait"}
      BY <2>1 DEF Init
    <2>3. pending \in [Sessions -> SUBSET Flows] /\ victim \in [Flows -> Sessions \cup {None}]
      BY DEF Init
    <2>4. crashes \in 0 .. MaxCrashes
      BY FaultsBounded DEF Init
    <2> QED BY <2>2, <2>3, <2>4 DEF Init, ControllerOK
  <1>2. WorkOK
    BY EmptySeq DEF Init, WorkOK, Fresh, Gives
  <1>3. LinesOK
    BY EmptySeq DEF Init, LinesOK
  <1>4. ClientOK
    BY EmptySeq DEF Init, ClientOK, CancelNotForgotten
  <1> QED BY <1>1, <1>2, <1>3, <1>4 DEF IInv
-----------------------------------------------------------------------------
(* The controller and the processes.                                        *)

LEMMA ControllerStep == ControllerOK /\ [Next]_vars => ControllerOK'
  <1> SUFFICES ASSUME ControllerOK, [Next]_vars PROVE ControllerOK'
    OBVIOUS
  <1> USE NamesDistinct DEF ControllerOK, Sessions, controller, calls, work, engine, delivery,
          client, faults, Alive, Go, WriteTo, Killed
  <1>0. None \notin Flows
    BY DEF Flows
  <1>1. ASSUME NEW f \in Flows, Begin(f) PROVE ControllerOK'
    BY <1>0, <1>1 DEF Begin
  <1>2. ASSUME NEW f \in Flows, TakeSession(f) PROVE ControllerOK'
    BY <1>0, <1>2 DEF TakeSession
  <1>3. ASSUME NEW f \in Flows, TellShutdown(f) PROVE ControllerOK'
    BY <1>0, <1>3 DEF TellShutdown
  <1>4. ASSUME NEW f \in Flows, Reap(f) PROVE ControllerOK'
    BY <1>0, <1>4 DEF Reap
  <1>5. ASSUME NEW f \in Flows, Kill(f) PROVE ControllerOK'
    BY <1>0, <1>5 DEF Kill
  <1>6. ASSUME NEW f \in Flows, Start(f) PROVE ControllerOK'
    BY <1>0, <1>6 DEF Start
  <1>7. ASSUME NEW f \in Flows, EnterCapabilities(f) PROVE ControllerOK'
    BY <1>0, <1>7 DEF EnterCapabilities
  <1>8. ASSUME NEW f \in Flows, InsertWaiter(f) PROVE ControllerOK'
    BY <1>0, <1>8 DEF InsertWaiter
  <1>9. ASSUME NEW f \in Flows, WriteCommand(f) PROVE ControllerOK'
    BY <1>0, <1>9 DEF WriteCommand, FailRoundtrip
  <1>10. ASSUME NEW f \in Flows, ReceiveAnswer(f) PROVE ControllerOK'
    BY <1>0, <1>10 DEF ReceiveAnswer
  <1>11. ASSUME NEW f \in Flows, Disconnected(f) PROVE ControllerOK'
    BY <1>0, <1>11 DEF Disconnected, FailRoundtrip
  <1>12. ASSUME NEW f \in Flows, TimeOut(f) PROVE ControllerOK'
    BY <1>0, <1>12 DEF TimeOut, FailRoundtrip
  <1>13. ASSUME NEW r \in Jobs, Analyze(r) \/ SendCancel(r) PROVE ControllerOK'
    BY <1>13 DEF Analyze, SendCancel, NotWritten
  <1>14. ASSUME NEW r \in Jobs, Submit(r) \/ SubmissionFails(r) \/ Cancel(r) PROVE ControllerOK'
    BY <1>14 DEF Submit, SubmissionFails, Cancel
  <1>15. ASSUME NEW s \in Sessions, Engine(s) PROVE ControllerOK'
    <2>1. child' = child \/ child' = Killed(s)
      BY <1>15 DEF Engine, ReadCommand, EndJob, Say, SayNothing
    <2>2. UNCHANGED <<session, pc, op, lock, victim, pending, answered, reader, crashes, crossed>>
      BY <1>15 DEF Engine, ReadCommand, EndJob
    <2> QED BY <2>1, <2>2
  <1>16. ASSUME NEW s \in Sessions, Crash(s) PROVE ControllerOK'
    BY <1>16, FaultsBounded DEF Crash
  <1>17. ASSUME NEW s \in Sessions, Reader(s) PROVE ControllerOK'
    BY <1>17 DEF Reader, DispatchLine, ClearPending, ReportExit
  <1>18. ASSUME HandleEvent PROVE ControllerOK'
    BY <1>18 DEF HandleEvent
  <1>19. ASSUME UNCHANGED vars PROVE ControllerOK'
    BY <1>19 DEF vars
  <1> QED
    BY <1>1, <1>2, <1>3, <1>4, <1>5, <1>6, <1>7, <1>8, <1>9, <1>10, <1>11, <1>12, <1>13, <1>14,
       <1>15, <1>16, <1>17, <1>18, <1>19 DEF Next, Flow
-----------------------------------------------------------------------------
(* The commands and the jobs given to engines.                              *)

\* A command that gives no job to an engine is appended.
LEMMA OtherCommand ==
    ASSUME WorkOK, NEW s \in Sessions, NEW c \in Commands, c.type # "analyze", WriteTo(s, c),
           UNCHANGED <<call, given, job_id, ended, cancel_requested>>
    PROVE  WorkOK'
  <1>1. stdin' \in [Sessions -> Seq(Commands)]
    BY AppendedTo DEF WorkOK, WriteTo
  <1>2. ASSUME NEW t \in Sessions, NEW i \in Nat, NEW r \in Jobs, Gives(t, i, r)'
        PROVE  Gives(t, i, r)
    <2>1. CASE t = s
      <3>1. stdin[s] \in Seq(Commands) /\ stdin'[s] = Append(stdin[s], c)
        BY DEF WorkOK, WriteTo
      <3> QED BY <1>2, <2>1, <3>1, AppendedTo DEF Gives
    <2>2. CASE t # s
      BY <1>2, <2>2 DEF WorkOK, WriteTo, Gives
    <2> QED BY <2>1, <2>2
  <1>3. Fresh'
    BY <1>2 DEF WorkOK, Fresh
  <1> QED BY <1>1, <1>3 DEF WorkOK

LEMMA AnalyzeKeepsWork ==
    ASSUME ControllerOK, WorkOK, NEW r \in Jobs, Analyze(r)
    PROVE  WorkOK'
  <1>0. None \notin Sessions /\ call[r] = "invoked" /\ given[r] = None /\ job_id[r] = 0 /\ ended[r] = "none"
    BY NamesDistinct DEF WorkOK, Analyze, Sessions
  <1>1. CASE UNCHANGED stdin
    <2>1. call' = [call EXCEPT ![r] = "refused"] /\ UNCHANGED <<given, job_id, ended, cancel_requested>>
      BY <1>0, <1>1, AppendProperties DEF Analyze, NotWritten, WriteTo, WorkOK, ControllerOK, Alive
    <2> QED BY <1>0, <1>1, <2>1 DEF WorkOK, Fresh, Gives
  <1>2. CASE /\ Alive(session) /\ WriteTo(session, [type |-> "analyze", job |-> r])
             /\ given' = [given EXCEPT ![r] = session] /\ call' = [call EXCEPT ![r] = "queued"]
             /\ UNCHANGED <<job_id, ended, cancel_requested>>
    <2> DEFINE c == [type |-> "analyze", job |-> r]
    <2>1. session \in Sessions /\ c \in Commands /\ c.type = "analyze" /\ c.job = r
      BY <1>2 DEF ControllerOK, Alive, Commands
    <2>2. stdin[session] \in Seq(Commands) /\ stdin' = [stdin EXCEPT ![session] = Append(@, c)]
      BY <1>2, <2>1 DEF WorkOK, WriteTo
    <2> HIDE DEF c
    <2>3. stdin' \in [Sessions -> Seq(Commands)]
      BY <2>1, <2>2, AppendedTo DEF WorkOK
    <2>4. ASSUME NEW t \in Sessions, NEW i \in Nat, NEW q \in Jobs, Gives(t, i, q)'
          PROVE  \/ q # r /\ Gives(t, i, q)
                 \/ q = r /\ t = session /\ i = Len(stdin[t]) + 1
      <3>1. ~Gives(t, i, r)
        BY <1>0 DEF WorkOK, Fresh
      <3>2. CASE t = session
        <4>1. \/ i \in 1 .. Len(stdin[t]) /\ stdin'[t][i] = stdin[t][i]
              \/ i = Len(stdin[t]) + 1 /\ stdin'[t][i] = c
          BY <2>1, <2>2, <2>4, <3>2, AppendedTo DEF Gives, WorkOK
        <4> QED BY <2>1, <2>4, <3>1, <3>2, <4>1 DEF Gives
      <3>3. CASE t # session
        BY <2>2, <2>4, <3>1, <3>3 DEF Gives, WorkOK
      <3> QED BY <3>2, <3>3
    <2>5. ASSUME NEW t \in Sessions, NEW i \in Nat, NEW q \in Jobs, Gives(t, i, q)'
          PROVE  given'[q] = t /\ job_id'[q] = 0 /\ ended'[q] = "none"
      BY <1>0, <1>2, <2>4, <2>5 DEF WorkOK, Fresh
    <2>6. ASSUME NEW t \in Sessions, NEW i \in Nat, NEW j \in Nat, NEW q \in Jobs,
                 Gives(t, i, q)', Gives(t, j, q)'
          PROVE  i = j
      BY <2>4, <2>6 DEF WorkOK, Fresh
    <2>7. Fresh'
      BY <2>5, <2>6 DEF Fresh
    <2> QED BY <1>0, <1>2, <2>1, <2>3, <2>7 DEF WorkOK
  <1> QED BY <1>1, <1>2 DEF Analyze, NotWritten, work

\* The engine has not seen a job it is given, so a number is left for it.
LEMMA FirstGives ==
    ASSUME WorkOK, NEW s \in Sessions, stdin[s] # <<>>, Head(stdin[s]).type = "analyze",
           NEW r, r = Head(stdin[s]).job
    PROVE  /\ r \in Jobs /\ Gives(s, 1, r) /\ s # None
           /\ given[r] = s /\ job_id[r] = 0 /\ ended[r] = "none"
           /\ NextJob(s) \in EngineIds
  <1>1. stdin[s] \in Seq(Commands)
    BY DEF WorkOK
  <1>2. Head(stdin[s]) \in Commands /\ Head(stdin[s]) = stdin[s][1] /\ Len(stdin[s]) \in Nat \ {0}
    BY <1>1, TailOf
  <1>3. r \in Jobs /\ Gives(s, 1, r)
    BY <1>2 DEF Commands, Gives
  <1>4. Fresh /\ 1 \in Nat /\ s # None
    BY NamesDistinct DEF WorkOK, Sessions
  <1>5. given[r] = s /\ job_id[r] = 0 /\ ended[r] = "none"
    BY <1>3, <1>4 DEF Fresh
  <1>6. NextJob(s) \in EngineIds
    <2> DEFINE read == {q \in Jobs : given[q] = s /\ (job_id[q] # 0 \/ ended[q] # "none")}
    <2>1. read \subseteq Jobs \ {r}
      BY <1>5
    <2>2. /\ IsFiniteSet(read) /\ Cardinality(read) \in Nat
          /\ Cardinality(read) <= Cardinality(Jobs) /\ Cardinality(read) # Cardinality(Jobs)
      BY <1>3, <2>1, JobsFinite, FS_Subset, FS_CardinalityType
    <2> QED BY <2>2, IdsArePositive DEF NextJob, EngineIds
  <1> QED BY <1>3, <1>4, <1>5, <1>6

\* The engine takes a command from the front: what is left was there before.
LEMMA ReadCommandKeepsWork ==
    ASSUME WorkOK, NEW s \in Sessions, ReadCommand(s)
    PROVE  WorkOK' /\ (\A r \in Jobs : job_id[r] # 0 => job_id'[r] = job_id[r])
  <1> DEFINE c == Head(stdin[s])
  <1>1. /\ stdin[s] \in Seq(Commands) /\ stdin[s] # <<>> /\ c \in Commands /\ c = stdin[s][1]
        /\ stdin' = [stdin EXCEPT ![s] = Tail(@)] /\ Len(stdin[s]) \in Nat \ {0}
    BY TailOf DEF WorkOK, ReadCommand
  <1>2. stdin' \in [Sessions -> Seq(Commands)]
    BY <1>1, TailOf DEF WorkOK
  <1>3. ASSUME NEW t \in Sessions, NEW i \in Nat, NEW r \in Jobs, Gives(t, i, r)'
        PROVE  (t = s => Gives(t, i + 1, r)) /\ (t # s => Gives(t, i, r))
    BY <1>1, <1>3, TailOf DEF WorkOK, Gives
  <1>4. UNCHANGED <<call, given>>
    BY DEF ReadCommand, controller, calls
  <1> HIDE DEF c
  <1>5. CASE UNCHANGED <<job_id, ended>> /\ cancel_requested' \subseteq Jobs
    <2>1. Fresh'
      <3>1. ASSUME NEW t \in Sessions, NEW i \in Nat, NEW r \in Jobs, Gives(t, i, r)'
            PROVE  given[r] = t /\ job_id[r] = 0 /\ ended[r] = "none"
        BY <1>3, <3>1 DEF WorkOK, Fresh
      <3>2. ASSUME NEW t \in Sessions, NEW i \in Nat, NEW j \in Nat, NEW r \in Jobs,
                   Gives(t, i, r)', Gives(t, j, r)'
            PROVE  i = j
        BY <1>3, <3>2 DEF WorkOK, Fresh
      <3> QED BY <1>4, <1>5, <3>1, <3>2 DEF Fresh
    <2> QED BY <1>2, <1>4, <1>5, <2>1 DEF WorkOK
  <1>6. CASE /\ c.type = "analyze" /\ UNCHANGED cancel_requested
             /\ \/ job_id' = [job_id EXCEPT ![c.job] = NextJob(s)] /\ UNCHANGED ended
                \/ ended' = [ended EXCEPT ![c.job] = "error"] /\ UNCHANGED job_id
    <2>1. /\ c.job \in Jobs /\ NextJob(s) \in EngineIds
          /\ given[c.job] = s /\ job_id[c.job] = 0 /\ ended[c.job] = "none" /\ s # None
          /\ Gives(s, 1, c.job)
      BY <1>1, <1>6, FirstGives DEF c
    <2>4. ASSUME NEW t \in Sessions, NEW i \in Nat, NEW r \in Jobs, Gives(t, i, r)'
          PROVE  r # c.job /\ given[r] = t /\ job_id[r] = 0 /\ ended[r] = "none"
      <3>1. CASE t = s
        <4>1. Gives(s, i + 1, r) /\ i \in Nat \ {0}
          BY <1>3, <2>4, <3>1 DEF Gives
        <4> QED BY <2>1, <3>1, <4>1 DEF WorkOK, Fresh
      <3>2. CASE t # s
        BY <1>3, <2>1, <2>4, <3>2 DEF WorkOK, Fresh
      <3> QED BY <3>1, <3>2
    <2>5. Fresh'
      <3>1. ASSUME NEW t \in Sessions, NEW i \in Nat, NEW r \in Jobs, Gives(t, i, r)'
            PROVE  given'[r] = t /\ job_id'[r] = 0 /\ ended'[r] = "none"
        BY <1>4, <1>6, <2>1, <2>4, <3>1 DEF WorkOK
      <3>2. ASSUME NEW t \in Sessions, NEW i \in Nat, NEW j \in Nat, NEW r \in Jobs,
                   Gives(t, i, r)', Gives(t, j, r)'
            PROVE  i = j
        BY <1>3, <3>2 DEF WorkOK, Fresh
      <3> QED BY <3>1, <3>2 DEF Fresh
    <2>6. job_id' \in [Jobs -> {0} \cup EngineIds] /\ ended' \in [Jobs -> Ends \cup {"none"}]
      BY <1>6, <2>1 DEF WorkOK, Ends
    <2>7. \A r \in Jobs : given'[r] = None => job_id'[r] = 0 /\ ended'[r] = "none"
      BY <1>4, <1>6, <2>1 DEF WorkOK
    <2> QED BY <1>2, <1>4, <1>6, <2>1, <2>5, <2>6, <2>7 DEF WorkOK
  <1>7. \/ UNCHANGED <<job_id, ended>> /\ cancel_requested' \subseteq Jobs
        \/ /\ c.type = "analyze" /\ UNCHANGED cancel_requested
           /\ \/ job_id' = [job_id EXCEPT ![c.job] = NextJob(s)] /\ UNCHANGED ended
              \/ ended' = [ended EXCEPT ![c.job] = "error"] /\ UNCHANGED job_id
    BY DEF ReadCommand, c, WorkOK, Open
  <1> QED BY <1>5, <1>6, <1>7 DEF WorkOK

LEMMA WorkStep ==
    ASSUME ControllerOK, WorkOK, ClientOK, [Next]_vars
    PROVE  WorkOK'
  <1> USE DEF controller, calls, work, engine, delivery, client, faults
  <1>0. None \notin Sessions
    BY NamesDistinct DEF Sessions
  <1>1. ASSUME UNCHANGED <<stdin, call, given, job_id, ended, cancel_requested>> PROVE WorkOK'
    BY <1>1 DEF WorkOK, Fresh, Gives
  <1>2. ASSUME NEW f \in Flows, Begin(f) \/ TakeSession(f) \/ Reap(f) \/ Kill(f) \/ Start(f)
                                \/ EnterCapabilities(f) \/ InsertWaiter(f) \/ ReceiveAnswer(f)
                                \/ Disconnected(f) \/ TimeOut(f)
        PROVE  WorkOK'
    BY <1>1, <1>2 DEF Begin, TakeSession, Reap, Kill, Start, EnterCapabilities, InsertWaiter,
                      ReceiveAnswer, Disconnected, TimeOut
  <1>3. ASSUME NEW f \in Flows, TellShutdown(f) PROVE WorkOK'
    <2> DEFINE c == [type |-> "shutdown"]
    <2>1. CASE Alive(victim[f])
      <3>1. victim[f] \in Sessions /\ c \in Commands /\ c.type # "analyze"
        BY <2>1 DEF Alive, ControllerOK, Commands
      <3>2. WriteTo(victim[f], c) /\ UNCHANGED <<call, given, job_id, ended, cancel_requested>>
        BY <1>3, <2>1 DEF TellShutdown
      <3> QED BY <3>1, <3>2, OtherCommand
    <2>2. CASE ~Alive(victim[f])
      BY <1>1, <1>3, <2>2 DEF TellShutdown
    <2> QED BY <2>1, <2>2
  <1>4. ASSUME NEW f \in Flows, WriteCommand(f) PROVE WorkOK'
    <2> DEFINE c == [type |-> op[f], request |-> f]
    <2>1. UNCHANGED <<call, given, job_id, ended, cancel_requested>>
      BY <1>4 DEF WriteCommand
    <2>2. CASE Alive(Peer(f)) /\ WriteTo(Peer(f), c)
      <3>1. Peer(f) \in Sessions /\ c \in Commands /\ c.type # "analyze"
        BY <2>2 DEF Alive, Peer, ControllerOK, Commands, Sessions
      <3> QED BY <2>1, <2>2, <3>1, OtherCommand
    <2>3. CASE UNCHANGED stdin
      BY <1>1, <2>1, <2>3
    <2> QED BY <1>4, <2>2, <2>3 DEF WriteCommand
  <1>5. ASSUME NEW r \in Jobs, SendCancel(r) PROVE WorkOK'
    <2> DEFINE c == [type |-> "cancel", id |-> engineJobId[r]]
    <2>1. UNCHANGED <<call, given, job_id, ended, cancel_requested>>
      BY <1>5 DEF SendCancel
    <2>2. CASE Alive(session) /\ WriteTo(session, c)
      <3>1. session \in Sessions /\ c \in Commands /\ c.type # "analyze"
        BY <2>2 DEF Alive, ControllerOK, ClientOK, Commands
      <3> QED BY <2>1, <2>2, <3>1, OtherCommand
    <2>3. CASE UNCHANGED stdin
      BY <1>1, <2>1, <2>3
    <2> QED BY <1>5, <2>2, <2>3 DEF SendCancel, NotWritten
  <1>6. ASSUME NEW r \in Jobs, Analyze(r) PROVE WorkOK'
    BY <1>6, AnalyzeKeepsWork
  <1>7. ASSUME NEW r \in Jobs, Submit(r) \/ SubmissionFails(r) PROVE WorkOK'
    <2>1. UNCHANGED <<stdin, given, job_id, ended, cancel_requested>>
      BY <1>7 DEF Submit, SubmissionFails
    <2>2. \/ call[r] = "none" /\ call' = [call EXCEPT ![r] = "invoked"]
          \/ call[r] = "refused" /\ call' = [call EXCEPT ![r] = "returned"]
      BY <1>7 DEF Submit, SubmissionFails
    <2> QED BY <2>1, <2>2 DEF WorkOK, Fresh, Gives
  <1>8. ASSUME NEW r \in Jobs, Cancel(r) PROVE WorkOK'
    BY <1>1, <1>8 DEF Cancel
  <1>9. ASSUME NEW s \in Sessions, ReadCommand(s) PROVE WorkOK'
    BY <1>9, ReadCommandKeepsWork
  <1>10. ASSUME NEW s \in Sessions, EndJob(s) PROVE WorkOK'
    <2>1. UNCHANGED <<stdin, call, given, job_id, cancel_requested>>
      BY <1>10 DEF EndJob
    <2>2. PICK r \in Open(s), kind \in Ends : ended' = [ended EXCEPT ![r] = kind]
      BY <1>10 DEF EndJob, Ends
    <2>3. r \in Jobs /\ given[r] # None /\ job_id[r] # 0
      BY <1>0 DEF Open
    <2>4. Fresh'
      BY <2>1, <2>2, <2>3 DEF WorkOK, Fresh, Gives
    <2> QED BY <2>1, <2>2, <2>3, <2>4 DEF WorkOK
  <1>11. ASSUME NEW s \in Sessions, Crash(s) \/ Reader(s) PROVE WorkOK'
    BY <1>1, <1>11 DEF Crash, Reader, DispatchLine, ClearPending, ReportExit
  <1>12. ASSUME HandleEvent PROVE WorkOK'
    BY <1>1, <1>12 DEF HandleEvent
  <1>13. ASSUME UNCHANGED vars PROVE WorkOK'
    BY <1>1, <1>13 DEF vars
  <1> QED
    BY <1>2, <1>3, <1>4, <1>5, <1>6, <1>7, <1>8, <1>9, <1>10, <1>11, <1>12, <1>13
       DEF Next, Flow, Engine
-----------------------------------------------------------------------------
(* The lines of the engines and the events on their way.                    *)

\* A number that has been given stays: what was true of the lines still is.
LEMMA StaysTrue ==
    ASSUME WorkOK, NEW line \in JobLines \cup Lines, AcceptedTrue(line),
           \A r \in Jobs : job_id[r] # 0 => job_id'[r] = job_id[r]
    PROVE  AcceptedTrue(line)'
  <1> SUFFICES ASSUME line.type = "accepted" PROVE line.id = job_id'[line.request]
    BY DEF AcceptedTrue
  <1>1. line.request \in Jobs /\ line.id \in EngineIds
    BY DEF Lines, JobLines, Ends
  <1>2. job_id[line.request] = line.id /\ line.id # 0
    BY <1>1, IdsArePositive DEF AcceptedTrue
  <1> QED BY <1>1, <1>2

LEMMA SaidTrue ==
    ASSUME WorkOK, LinesOK, NEW s \in Sessions, NEW line \in Lines, Say(s, line) \/ SayNothing,
           AcceptedTrue(line)', UNCHANGED wire,
           \A r \in Jobs : job_id[r] # 0 => job_id'[r] = job_id[r]
    PROVE  LinesOK'
  <1>1. ASSUME NEW i \in 1 .. Len(wire) PROVE AcceptedTrue(wire[i].line)'
    <2>1. AcceptedTrue(wire[i].line) /\ wire[i] \in Events
      BY LenProperties DEF LinesOK
    <2>2. wire[i].line \in JobLines \/ wire[i].line.type = "exit"
      BY <2>1 DEF Events
    <2>3. CASE wire[i].line \in JobLines
      <3> DEFINE old == wire[i].line
      <3>1. AcceptedTrue(old)'
        BY <2>1, <2>3, StaysTrue
      <3> QED BY <3>1
    <2> QED BY <2>2, <2>3 DEF AcceptedTrue
  <1>2. CASE UNCHANGED stdout
    <2>1. ASSUME NEW t \in Sessions, NEW i \in 1 .. Len(stdout[t]) PROVE AcceptedTrue(stdout[t][i])'
      <3>1. AcceptedTrue(stdout[t][i]) /\ stdout[t][i] \in Lines
        BY LenProperties DEF LinesOK
      <3> QED BY <1>2, <3>1, StaysTrue
    <2> QED BY <1>1, <1>2, <2>1 DEF LinesOK, AcceptedTrue
  <1>3. CASE stdout' = [stdout EXCEPT ![s] = Append(@, line)]
    <2>1. stdout[s] \in Seq(Lines) /\ stdout'[s] = Append(stdout[s], line)
      BY <1>3 DEF LinesOK
    <2>2. stdout' \in [Sessions -> Seq(Lines)]
      BY <1>3, <2>1, AppendedTo DEF LinesOK
    <2>3. ASSUME NEW t \in Sessions, NEW i \in 1 .. Len(stdout'[t])
          PROVE  AcceptedTrue(stdout[t][i])'
      <3>1. \/ i \in 1 .. Len(stdout[t]) /\ stdout'[t][i] = stdout[t][i]
            \/ stdout'[t][i] = line
        BY <1>3, <2>1, AppendedTo DEF LinesOK
      <3>2. CASE i \in 1 .. Len(stdout[t]) /\ stdout'[t][i] = stdout[t][i]
        <4> DEFINE old == stdout[t][i]
        <4>1. AcceptedTrue(old) /\ old \in Lines
          BY <3>2, LenProperties DEF LinesOK
        <4>2. old.type = "accepted" => old.id = job_id'[old.request]
          BY <4>1, StaysTrue DEF AcceptedTrue
        <4> QED BY <3>2, <4>2 DEF AcceptedTrue
      <3> QED BY <3>1, <3>2 DEF AcceptedTrue
    <2> QED BY <1>1, <2>2, <2>3 DEF LinesOK, AcceptedTrue
  <1> QED BY <1>2, <1>3 DEF Say, SayNothing

LEMMA LinesStep ==
    ASSUME ControllerOK, WorkOK, LinesOK, [Next]_vars
    PROVE  LinesOK'
  <1> USE DEF controller, calls, work, engine, delivery, client, faults
  <1>1. ASSUME UNCHANGED <<stdout, wire, job_id>> PROVE LinesOK'
    BY <1>1 DEF LinesOK, AcceptedTrue
  <1>2. ASSUME NEW f \in Flows, Begin(f) \/ Flow(f) \/ TimeOut(f) PROVE LinesOK'
    BY <1>1, <1>2 DEF Flow, Begin, TakeSession, TellShutdown, Reap, Kill, Start,
       EnterCapabilities, InsertWaiter, WriteCommand, ReceiveAnswer, Disconnected, TimeOut
  <1>3. ASSUME NEW r \in Jobs, Analyze(r) \/ SendCancel(r) \/ Submit(r) \/ SubmissionFails(r)
                               \/ Cancel(r)
        PROVE  LinesOK'
    BY <1>1, <1>3 DEF Analyze, SendCancel, Submit, SubmissionFails, Cancel
  <1>4. ASSUME NEW s \in Sessions, ReadCommand(s) PROVE LinesOK'
    <2>0. PICK c : c = Head(stdin[s])
      OBVIOUS
    <2>a. PICK n : n = NextJob(s)
      OBVIOUS
    <2>1. c \in Commands
      BY <1>4, <2>0, TailOf DEF WorkOK, ReadCommand
    <2>2. UNCHANGED wire /\ \A r \in Jobs : job_id[r] # 0 => job_id'[r] = job_id[r]
      BY <1>4, ReadCommandKeepsWork DEF ReadCommand
    <2>3. CASE c.type \in {"hello", "capabilities"} /\ Say(s, [type |-> "answer", request |-> c.request])
      <3> DEFINE line == [type |-> "answer", request |-> c.request]
      <3>1. line \in Lines /\ AcceptedTrue(line)'
        BY <2>1, <2>3 DEF Commands, Lines, AcceptedTrue
      <3> QED BY <2>2, <2>3, <3>1, SaidTrue
    <2>4. CASE /\ c.type = "analyze" /\ job_id' = [job_id EXCEPT ![c.job] = n]
               /\ Say(s, [type |-> "accepted", request |-> c.job, id |-> n])
      <3> DEFINE line == [type |-> "accepted", request |-> c.job, id |-> n]
      <3>1. c.job \in Jobs /\ n \in EngineIds
        BY <1>4, <2>0, <2>a, <2>4, FirstGives DEF ReadCommand
      <3>2. line \in Lines /\ AcceptedTrue(line)'
        BY <2>4, <3>1 DEF Lines, JobLines, AcceptedTrue, WorkOK
      <3> QED BY <2>2, <2>4, <3>2, SaidTrue
    <2>5. CASE c.type = "analyze" /\ Say(s, [type |-> "error", request |-> c.job, id |-> 0])
      <3> DEFINE line == [type |-> "error", request |-> c.job, id |-> 0]
      <3>1. line \in Lines /\ AcceptedTrue(line)'
        BY <2>1, <2>5 DEF Commands, Lines, JobLines, Ends, AcceptedTrue
      <3> QED BY <2>2, <2>5, <3>1, SaidTrue
    <2>6. CASE /\ c.type = "cancel"
               /\ SayNothing \/ Say(s, [type |-> "cancelled", request |-> None, id |-> c.id])
      <3> DEFINE line == [type |-> "cancelled", request |-> None, id |-> c.id]
      <3>1. line \in Lines /\ AcceptedTrue(line)'
        BY <2>1, <2>6 DEF Commands, Lines, JobLines, Ends, AcceptedTrue
      <3> QED BY <2>2, <2>6, <3>1, SaidTrue
    <2>7. CASE Say(s, [type |-> "error", request |-> None, id |-> 0])
      <3> DEFINE line == [type |-> "error", request |-> None, id |-> 0]
      <3>1. line \in Lines /\ AcceptedTrue(line)'
        BY DEF Lines, JobLines, Ends, AcceptedTrue
      <3> QED BY <2>2, <2>7, <3>1, SaidTrue
    <2> QED BY <1>4, <2>0, <2>a, <2>3, <2>4, <2>5, <2>6, <2>7 DEF ReadCommand
  <1>5. ASSUME NEW s \in Sessions, EndJob(s) PROVE LinesOK'
    <2>1. PICK r \in Open(s), kind \in Ends, n \in {job_id[q] : q \in Open(s)} :
             \/ Say(s, [type |-> kind, request |-> r, id |-> n])
             \/ Say(s, [type |-> "undecodable"])
      BY <1>5 DEF EndJob, Ends
    <2>2. UNCHANGED <<wire, job_id>> /\ r \in Jobs /\ n \in {0} \cup EngineIds
      BY <1>5 DEF EndJob, Open, WorkOK
    <2>3. CASE Say(s, [type |-> kind, request |-> r, id |-> n])
      <3> DEFINE line == [type |-> kind, request |-> r, id |-> n]
      <3>1. line \in Lines /\ AcceptedTrue(line)'
        BY <2>2 DEF Lines, JobLines, Ends, AcceptedTrue
      <3> QED BY <2>2, <2>3, <3>1, SaidTrue
    <2>4. CASE Say(s, [type |-> "undecodable"])
      <3> DEFINE line == [type |-> "undecodable"]
      <3>1. line \in Lines /\ AcceptedTrue(line)'
        BY DEF Lines, AcceptedTrue
      <3> QED BY <2>2, <2>4, <3>1, SaidTrue
    <2> QED BY <2>1, <2>3, <2>4
  <1>6. ASSUME NEW s \in Sessions, Crash(s) \/ ClearPending(s) PROVE LinesOK'
    BY <1>1, <1>6 DEF Crash, ClearPending
  <1>7. ASSUME NEW s \in Sessions, DispatchLine(s) PROVE LinesOK'
    <2> DEFINE line == Head(stdout[s])
    <2>1. /\ stdout[s] \in Seq(Lines) /\ stdout[s] # <<>> /\ ~Undecoded(s)
          /\ stdout' = [stdout EXCEPT ![s] = Tail(@)] /\ UNCHANGED job_id
      BY <1>7 DEF DispatchLine, LinesOK
    <2>2. line \in Lines /\ AcceptedTrue(line)
      BY <2>1, TailOf DEF LinesOK
    <2>3. stdout' \in [Sessions -> Seq(Lines)]
      BY <2>1, TailOf DEF LinesOK
    <2>4. ASSUME NEW t \in Sessions, NEW i \in 1 .. Len(stdout'[t]) PROVE AcceptedTrue(stdout[t][i])'
      <3>1. CASE t = s
        <4>1. stdout'[s] = Tail(stdout[s]) /\ i \in 1 .. Len(Tail(stdout[s]))
          BY <2>1, <2>4, <3>1 DEF LinesOK
        <4>2. \A k \in 1 .. Len(Tail(stdout[s])) :
                 k + 1 \in 1 .. Len(stdout[s]) /\ Tail(stdout[s])[k] = stdout[s][k + 1]
          <5> HIDE DEF line
          <5> QED BY <2>1, TailOf
        <4>3. i + 1 \in 1 .. Len(stdout[s]) /\ stdout'[t][i] = stdout[s][i + 1]
          BY <3>1, <4>1, <4>2
        <4> QED BY <2>1, <4>3 DEF LinesOK, AcceptedTrue
      <3>2. CASE t # s
        BY <2>1, <2>4, <3>2 DEF LinesOK, AcceptedTrue
      <3> QED BY <3>1, <3>2
    <2>5. CASE UNCHANGED wire
      BY <2>1, <2>3, <2>4, <2>5 DEF LinesOK, AcceptedTrue
    <2>6. CASE line.type # "answer" /\ wire' = Append(wire, [session |-> s, line |-> line])
      <3> DEFINE event == [session |-> s, line |-> line]
      <3>1. event \in Events /\ event.line = line
        BY <2>1, <2>2, <2>6 DEF Events, Lines, Undecoded
      <3> HIDE DEF event
      <3>2. wire \in Seq(Events) /\ wire' = Append(wire, event)
        BY <2>6 DEF LinesOK, event
      <3>3. wire' \in Seq(Events)
        BY <3>1, <3>2, AppendedTo
      <3>4. ASSUME NEW i \in 1 .. Len(wire') PROVE AcceptedTrue(wire[i].line)'
        BY <2>1, <2>2, <3>1, <3>2, <3>4, AppendedTo DEF LinesOK, AcceptedTrue
      <3> QED BY <2>3, <2>4, <3>3, <3>4 DEF LinesOK
    <2> QED BY <1>7, <2>5, <2>6 DEF DispatchLine
  <1>8. ASSUME NEW s \in Sessions, ReportExit(s) PROVE LinesOK'
    <2> DEFINE event == [session |-> s, line |-> [type |-> "exit"]]
    <2>1. event \in Events /\ event.line.type = "exit"
      BY DEF Events
    <2>2. wire \in Seq(Events) /\ wire' = Append(wire, event) /\ UNCHANGED <<stdout, job_id>>
      BY <1>8 DEF ReportExit, LinesOK
    <2> HIDE DEF event
    <2>3. wire' \in Seq(Events)
      BY <2>1, <2>2, AppendedTo
    <2>4. ASSUME NEW i \in 1 .. Len(wire') PROVE AcceptedTrue(wire[i].line)'
      BY <2>1, <2>2, <2>4, AppendedTo DEF LinesOK, AcceptedTrue
    <2> QED BY <2>2, <2>3, <2>4 DEF LinesOK, AcceptedTrue
  <1>9. ASSUME HandleEvent PROVE LinesOK'
    <2>1. wire \in Seq(Events) /\ wire # <<>> /\ wire' = Tail(wire) /\ UNCHANGED <<stdout, job_id>>
      BY <1>9 DEF HandleEvent, LinesOK
    <2>2. wire' \in Seq(Events)
      BY <2>1, TailOf
    <2>3. ASSUME NEW i \in 1 .. Len(wire') PROVE AcceptedTrue(wire[i].line)'
      BY <2>1, <2>3, TailOf DEF LinesOK, AcceptedTrue
    <2> QED BY <2>1, <2>2, <2>3 DEF LinesOK, AcceptedTrue
  <1>10. ASSUME UNCHANGED vars PROVE LinesOK'
    BY <1>1, <1>10 DEF vars
  <1> QED
    BY <1>2, <1>3, <1>4, <1>5, <1>6, <1>7, <1>8, <1>9, <1>10 DEF Next, Engine, Reader
-----------------------------------------------------------------------------
(* The client of the interface.                                             *)

\* An end: nobody saw one before, and afterwards nothing leads to the job.
LEMMA EndingKeeps ==
    ASSUME ClientOK, NEW r \in Jobs, NEW kind \in Shown,
           finished' = finished \cup {r}, CleanupTracked(r), call[r] # "none",
           shown' = IF r \in finished THEN shown ELSE [shown EXCEPT ![r] = Append(@, kind)],
           \A q \in Jobs : call[q] # "none" => call'[q] # "none",
           UNCHANGED <<job_id, engineJobId, cancels, cancelSent, cancelRequested>>
    PROVE  ClientOK'
  <1>1. /\ jobsByRequest' = jobsByRequest \ {r} /\ acceptedWaiters' = acceptedWaiters \ {r}
        /\ jobsByEngineId' = [i \in EngineIds |-> IF i = engineJobId[r] THEN None
                                                  ELSE jobsByEngineId[i]]
    BY DEF CleanupTracked
  <1>2. ASSUME NEW i \in EngineIds, jobsByEngineId'[i] # None
        PROVE  LET q == jobsByEngineId'[i]
               IN q \in jobsByRequest' /\ engineJobId'[q] = i /\ job_id'[q] = i
    <2>1. i # engineJobId[r] /\ jobsByEngineId'[i] = jobsByEngineId[i]
      BY <1>1, <1>2
    <2> QED BY <1>1, <1>2, <2>1 DEF ClientOK
  <1>3. /\ shown' \in [Jobs -> Seq(Shown)]
        /\ \A q \in Jobs : Len(shown'[q]) <= 1 /\ (q \notin finished' => shown'[q] = <<>>)
    <2>1. CASE r \in finished
      BY <2>1 DEF ClientOK
    <2>2. CASE r \notin finished
      <3>1. shown[r] = <<>> /\ shown[r] \in Seq(Shown)
        BY <2>2 DEF ClientOK
      <3>2. Append(shown[r], kind) \in Seq(Shown) /\ Len(Append(shown[r], kind)) = 1
        BY <3>1, AppendProperties, EmptySeq
      <3> QED BY <2>2, <3>2 DEF ClientOK
    <2> QED BY <2>1, <2>2
  <1>4. jobsByEngineId' \in [EngineIds -> Jobs \cup {None}]
    BY <1>1 DEF ClientOK
  <1>5. CancelNotForgotten'
    BY <1>1 DEF ClientOK, CancelNotForgotten
  <1>6. \A q \in finished' \cup jobsByRequest' \cup cancelRequested' : call'[q] # "none"
    BY <1>1 DEF ClientOK
  <1> QED BY <1>1, <1>2, <1>3, <1>4, <1>5, <1>6 DEF ClientOK

LEMMA AcceptedKeeps ==
    ASSUME ClientOK, NEW line \in JobLines, AcceptedTrue(line), HandleAccepted(line),
           UNCHANGED <<call, job_id, cancelRequested>>
    PROVE  ClientOK'
  <1>1. line.request \in Jobs /\ line.id \in EngineIds /\ line.id # 0 /\ job_id[line.request] = line.id
    BY IdsArePositive DEF JobLines, Ends, HandleAccepted, AcceptedTrue
  <1>2. UNCHANGED <<jobsByRequest, finished, shown>>
    BY DEF HandleAccepted
  <1>3. CASE UNCHANGED <<engineJobId, jobsByEngineId, acceptedWaiters, cancels, cancelSent>>
    BY <1>2, <1>3 DEF ClientOK, CancelNotForgotten
  <1>4. ASSUME NEW r \in Resolved(line),
               engineJobId' = [engineJobId EXCEPT ![r] = line.id],
               jobsByEngineId' = [jobsByEngineId EXCEPT ![line.id] = r],
               acceptedWaiters' = acceptedWaiters \ {r},
               cancels' = cancels \cup (cancelRequested \cap {r}),
               cancelSent' = cancelSent \cup (cancelRequested \cap {r})
        PROVE  ClientOK'
    <2>1. r \in jobsByRequest /\ r \in Jobs /\ job_id[r] = line.id
      BY <1>1 DEF Resolved, ClientOK
    <2>2. ASSUME NEW i \in EngineIds, jobsByEngineId'[i] # None
          PROVE  LET q == jobsByEngineId'[i]
                 IN q \in jobsByRequest' /\ engineJobId'[q] = i /\ job_id'[q] = i
      <3>1. CASE i = line.id
        BY <1>1, <1>2, <1>4, <2>1, <3>1 DEF ClientOK
      <3>2. CASE i # line.id
        <4>1. jobsByEngineId'[i] = jobsByEngineId[i]
          BY <1>1, <1>4, <3>2 DEF ClientOK
        <4>2. jobsByEngineId[i] # r
          BY <2>1, <2>2, <3>2, <4>1 DEF ClientOK
        <4> QED BY <1>2, <1>4, <2>2, <4>1, <4>2 DEF ClientOK
      <3> QED BY <3>1, <3>2
    <2>3. CancelNotForgotten'
      BY <1>2, <1>4, <2>1 DEF ClientOK, CancelNotForgotten
    <2>4. /\ jobsByEngineId' \in [EngineIds -> Jobs \cup {None}]
          /\ engineJobId' \in [Jobs -> {0} \cup EngineIds]
      BY <1>1, <1>4, <2>1 DEF ClientOK
    <2> QED BY <1>2, <1>4, <2>1, <2>2, <2>3, <2>4 DEF ClientOK
  <1> QED BY <1>3, <1>4 DEF HandleAccepted

LEMMA ExitKeeps ==
    ASSUME ClientOK, NEW line, HandleExit(line), UNCHANGED <<call, job_id, cancelRequested>>
    PROVE  ClientOK'
  <1>1. /\ finished' = finished \cup jobsByRequest /\ jobsByRequest' = {} /\ acceptedWaiters' = {}
        /\ jobsByEngineId' = [i \in EngineIds |-> None]
        /\ UNCHANGED <<engineJobId, cancels, cancelSent>>
        /\ shown' = [r \in Jobs |-> IF r \in jobsByRequest \ finished
                                    THEN Append(shown[r], "worker_exit") ELSE shown[r]]
    BY DEF HandleExit
  <1>2. ASSUME NEW r \in Jobs
        PROVE  /\ shown'[r] \in Seq(Shown) /\ Len(shown'[r]) <= 1
               /\ r \notin finished' => shown'[r] = <<>>
    <2>1. CASE r \in jobsByRequest \ finished
      <3>1. shown[r] = <<>> /\ shown[r] \in Seq(Shown) /\ "worker_exit" \in Shown
        BY <2>1 DEF ClientOK, Shown
      <3>2. Append(shown[r], "worker_exit") \in Seq(Shown) /\ Len(Append(shown[r], "worker_exit")) = 1
        BY <3>1, AppendProperties, EmptySeq
      <3> QED BY <1>1, <2>1, <3>2
    <2>2. CASE r \notin jobsByRequest \ finished
      BY <1>1, <2>2 DEF ClientOK
    <2> QED BY <2>1, <2>2
  <1>3. shown' \in [Jobs -> Seq(Shown)]
    BY <1>1, <1>2
  <1>4. CancelNotForgotten'
    BY <1>1 DEF CancelNotForgotten
  <1>5. \A i \in EngineIds : jobsByEngineId'[i] = None
    BY <1>1
  <1> QED BY <1>1, <1>2, <1>3, <1>4, <1>5 DEF ClientOK

LEMMA HandleEventKeepsClient ==
    ASSUME LinesOK, ClientOK, HandleEvent
    PROVE  ClientOK'
  <1>1. UNCHANGED <<call, job_id, cancelRequested>>
    BY DEF HandleEvent, engine, work
  <1>2. PICK line : /\ line = Head(wire).line
                    /\ HandleAccepted(line) \/ HandleTerminal(line) \/ HandleExit(line)
    BY DEF HandleEvent
  <1>3. /\ line \in JobLines \/ line.type = "exit"
        /\ AcceptedTrue(line)
    <2>1. wire \in Seq(Events) /\ wire # <<>>
      BY DEF LinesOK, HandleEvent
    <2>2. Head(wire) \in Events /\ Head(wire) = wire[1] /\ Len(wire) \in Nat \ {0}
      BY <2>1, TailOf
    <2> QED BY <1>2, <2>2 DEF LinesOK, Events
  <1>4. CASE HandleAccepted(line)
    BY <1>1, <1>3, <1>4, AcceptedKeeps DEF HandleAccepted
  <1>5. CASE HandleExit(line)
    BY <1>1, <1>5, ExitKeeps
  <1>6. CASE HandleTerminal(line)
    <2>1. CASE UNCHANGED <<finished, shown, jobsByRequest, jobsByEngineId, acceptedWaiters>>
      BY <1>1, <1>6, <2>1 DEF HandleTerminal, ClientOK, CancelNotForgotten
    <2>2. ASSUME NEW r \in Resolved(line), finished' = finished \cup {r},
                 shown' = [shown EXCEPT ![r] = Append(@, line.type)], CleanupTracked(r)
          PROVE  ClientOK'
      <3>1. r \in jobsByRequest /\ r \in Jobs /\ r \notin finished /\ call[r] # "none"
        BY DEF Resolved, ClientOK
      <3>2. line.type \in Shown /\ UNCHANGED <<engineJobId, cancels, cancelSent>>
        BY <1>6 DEF HandleTerminal, Shown, Ends
      <3> QED BY <1>1, <2>2, <3>1, <3>2, EndingKeeps
    <2> QED BY <1>6, <2>1, <2>2 DEF HandleTerminal
  <1> QED BY <1>2, <1>4, <1>5, <1>6

LEMMA ClientStep ==
    ASSUME IInv, [Next]_vars
    PROVE  ClientOK'
  <1> USE DEF controller, calls, work, engine, delivery, client, faults
  <1>0. ClientOK /\ WorkOK /\ LinesOK
    BY DEF IInv
  <1>1. ASSUME UNCHANGED <<client, cancels>>,
               \A r \in Jobs : call[r] # "none" => call'[r] # "none",
               \A r \in Jobs : job_id[r] # 0 => job_id'[r] = job_id[r]
        PROVE  ClientOK'
    <2>1. ASSUME NEW i \in EngineIds, jobsByEngineId[i] # None
          PROVE  job_id'[jobsByEngineId[i]] = i
      BY <1>0, <1>1, <2>1, IdsArePositive DEF ClientOK
    <2> QED BY <1>0, <1>1, <2>1 DEF ClientOK, CancelNotForgotten
  <1>2. ASSUME NEW f \in Flows, Begin(f) \/ Flow(f) \/ TimeOut(f) PROVE ClientOK'
    BY <1>1, <1>2 DEF Flow, Begin, TakeSession, TellShutdown, Reap, Kill, Start,
       EnterCapabilities, InsertWaiter, WriteCommand, ReceiveAnswer, Disconnected, TimeOut
  <1>3. ASSUME NEW r \in Jobs, Analyze(r) PROVE ClientOK'
    BY <1>0, <1>1, <1>3 DEF Analyze, WorkOK
  <1>4. ASSUME NEW r \in Jobs, SendCancel(r) PROVE ClientOK'
    BY <1>0, <1>4 DEF SendCancel, ClientOK, CancelNotForgotten
  <1>5. ASSUME NEW r \in Jobs, Submit(r) PROVE ClientOK'
    <2>1. r \notin finished /\ r \notin cancelRequested
      BY <1>0, <1>5 DEF Submit, ClientOK
    <2>2. /\ jobsByRequest' = jobsByRequest \cup {r}
          /\ acceptedWaiters' = acceptedWaiters \cup (VerifyJobs \cap {r})
          /\ call' = [call EXCEPT ![r] = "invoked"]
          /\ UNCHANGED <<cancels, jobsByEngineId, engineJobId, finished, cancelRequested,
                         cancelSent, shown, job_id>>
      BY <1>5 DEF Submit
    <2>3. \A q \in finished' \cup jobsByRequest' \cup cancelRequested' : call'[q] # "none"
      BY <1>0, <2>1, <2>2 DEF ClientOK, WorkOK
    <2> QED BY <1>0, <2>1, <2>2, <2>3 DEF ClientOK, CancelNotForgotten
  <1>6. ASSUME NEW r \in Jobs, SubmissionFails(r) PROVE ClientOK'
    <2>1. /\ finished' = finished \cup {r} /\ CleanupTracked(r) /\ call[r] # "none"
          /\ shown' = IF r \in finished THEN shown
                      ELSE [shown EXCEPT ![r] = Append(@, "submit_failed")]
          /\ call' = [call EXCEPT ![r] = "returned"]
          /\ UNCHANGED <<job_id, engineJobId, cancels, cancelSent, cancelRequested>>
      BY <1>6 DEF SubmissionFails
    <2>2. \A q \in Jobs : call[q] # "none" => call'[q] # "none"
      BY <1>0, <2>1 DEF WorkOK
    <2>3. "submit_failed" \in Shown
      BY DEF Shown
    <2> QED BY <1>0, <2>1, <2>2, <2>3, EndingKeeps
  <1>7. ASSUME NEW r \in Jobs, Cancel(r) PROVE ClientOK'
    BY <1>0, <1>7 DEF Cancel, ClientOK, CancelNotForgotten
  <1>8. ASSUME NEW s \in Sessions, Engine(s) PROVE ClientOK'
    <2>1. UNCHANGED <<client, cancels, call>>
      BY <1>8 DEF Engine, ReadCommand, EndJob
    <2>2. \A r \in Jobs : job_id[r] # 0 => job_id'[r] = job_id[r]
      BY <1>0, <1>8, ReadCommandKeepsWork DEF Engine, EndJob
    <2> QED BY <1>1, <2>1, <2>2
  <1>9. ASSUME NEW s \in Sessions, Crash(s) \/ Reader(s) PROVE ClientOK'
    BY <1>1, <1>9 DEF Crash, Reader, DispatchLine, ClearPending, ReportExit
  <1>10. ASSUME HandleEvent PROVE ClientOK'
    BY <1>0, <1>10, HandleEventKeepsClient
  <1>11. ASSUME UNCHANGED vars PROVE ClientOK'
    BY <1>1, <1>11 DEF vars
  <1> QED
    BY <1>2, <1>3, <1>4, <1>5, <1>6, <1>7, <1>8, <1>9, <1>10, <1>11 DEF Next
-----------------------------------------------------------------------------
(* What the interface shows is what happened.  A job's end travels from the  *)
(* engine's pipe over the wire to the client, and nothing overtakes it: the  *)
(* client has it before it reads the session's exit, and before it reads an  *)
(* answer `not_running` to a cancel, which it finds by the engine's number   *)
(* of a job; two jobs of a session never have the same number.               *)

\* A flow starts one process; a reader stops at the end of the pipe or at a bad line.
ProcessesOK ==
    /\ \A f \in Flows : pc[f] \in {"idle", "take", "tell", "reap", "start"} =>
          child[f] = "none" /\ reader[f] = "none" /\ op[f] = "hello"
    /\ \A f \in Flows : pc[f] = "enter" => op[f] = "capabilities"
    /\ \A f \in Flows : pc[f] \in {"insert", "write", "wait"} /\ op[f] = "hello" => reader[f] # "none"
    /\ \A s \in Sessions : child[s] # "none" => reader[s] # "none"
    /\ \A s \in Sessions : reader[s] \in {"exiting", "ended"} =>
          Undecoded(s) \/ (child[s] = "dead" /\ stdout[s] = <<>>)

\* A job that is not written to an engine ends by its invocation; the client knows every
\* job that was submitted.
CallsOK ==
    /\ \A r \in Jobs : call[r] \in {"refused", "returned"} => given[r] = None
    /\ \A r \in Jobs : call[r] # "none" => r \in jobsByRequest \cup finished

\* The engine of session s has numbered job r.
Numbered(r, s, i) == given[r] = s /\ job_id[r] = i /\ i # 0

NumbersOK ==
    /\ \A r \in Jobs : job_id[r] # 0 => job_id[r] < NextJob(given[r])
    /\ \A r, q \in Jobs : given[r] = given[q] /\ job_id[r] = job_id[q] /\ job_id[r] # 0 => r = q
    /\ \A r \in Jobs : engineJobId[r] \in {0, job_id[r]}
    /\ \A r \in cancels : engineJobId[r] # 0

\* A cancel command names a job of the engine that gets it.
CommandsOK ==
    ~crossed => \A s \in Sessions : \A i \in 1 .. Len(stdin[s]) :
        stdin[s][i].type = "cancel" => \E r \in Jobs : Numbered(r, s, stdin[s][i].id)

\* Job r's end among the first n events, or the first n lines of session s.
EndOf(line, r) == line.type \in Ends /\ line.request = r
OnWire(r, n) == \E j \in 1 .. n : EndOf(wire[j].line, r)
InPipe(r, s, n) ==
    \E j \in 1 .. n : EndOf(stdout[s][j], r) \/ stdout[s][j].type = "undecodable"

\* The client has ended the job or will, before it reads what comes next.
EndedBefore(r, n) == r \in finished \/ OnWire(r, n)
EndSaid(r, s, n) == EndedBefore(r, Len(wire)) \/ InPipe(r, s, n)

EndTrue(line, s) ==
    line.type \in Ends /\ line.request # None =>
        /\ given[line.request] = s /\ ended[line.request] = line.type
        /\ line.id \in {0, job_id[line.request]}

\* The answer to a cancel for a job the engine has ended.
Late(line) == line.type \in Ends /\ line.request = None /\ line.id # 0

PipeOK ==
    \A s \in Sessions : \A k \in 1 .. Len(stdout[s]) :
        /\ EndTrue(stdout[s][k], s)
        /\ ~crossed /\ Late(stdout[s][k]) =>
              \E r \in Jobs : Numbered(r, s, stdout[s][k].id) /\ EndSaid(r, s, k - 1)

WireOK ==
    \A k \in 1 .. Len(wire) : LET s == wire[k].session IN
        /\ EndTrue(wire[k].line, s)
        /\ ~crossed /\ Late(wire[k].line) =>
              \E r \in Jobs : Numbered(r, s, wire[k].line.id) /\ EndedBefore(r, k - 1)
        /\ wire[k].line.type = "exit" =>
              /\ reader[s] = "ended"
              /\ \A r \in Jobs : given[r] = s /\ ended[r] # "none" =>
                    Undecoded(s) \/ EndedBefore(r, k - 1)

EndsSaid == \A r \in Jobs : ended[r] # "none" => EndSaid(r, given[r], Len(stdout[given[r]]))

\* What was shown, and why it stays true.
ShownTrue(r, kind) ==
    CASE kind = "submit_failed" -> call[r] = "returned"
      [] kind = "worker_exit" -> /\ given[r] # None
                                 /\ \/ Undecoded(given[r])
                                    \/ ended[r] = "none" /\ child[given[r]] = "dead"
      [] OTHER -> kind = ended[r]
ShownOK == ~crossed => \A r \in Jobs : \A i \in 1 .. Len(shown[r]) : ShownTrue(r, shown[r][i])

TruthInv == /\ ProcessesOK /\ CallsOK /\ NumbersOK /\ CommandsOK
            /\ PipeOK /\ WireOK /\ EndsSaid /\ ShownOK

\* What has happened stays so.
Stays ==
    /\ \A r \in Jobs : given[r] # None => given'[r] = given[r]
    /\ \A r \in Jobs : job_id[r] # 0 => job_id'[r] = job_id[r]
    /\ \A r \in Jobs : ended[r] # "none" => ended'[r] = ended[r]
    /\ finished \subseteq finished' /\ (crossed => crossed')

LEMMA StepStays ==
    ASSUME IInv, [Next]_vars
    PROVE  Stays
  <1> USE DEF controller, calls, work, engine, delivery, client, faults
  <1>0. WorkOK /\ ClientOK /\ ControllerOK
    BY DEF IInv
  <1>1. ASSUME UNCHANGED <<given, job_id, ended, finished, crossed>> PROVE Stays
    BY <1>1 DEF Stays
  <1>2. ASSUME NEW f \in Flows, Begin(f) \/ Flow(f) \/ TimeOut(f) PROVE Stays
    BY <1>1, <1>2 DEF Flow, Begin, TakeSession, TellShutdown, Reap, Kill, Start,
       EnterCapabilities, InsertWaiter, WriteCommand, ReceiveAnswer, Disconnected, TimeOut
  <1>3. ASSUME NEW r \in Jobs, Analyze(r) PROVE Stays
    <2>1. given[r] = None
      BY <1>0, <1>3 DEF Analyze, WorkOK
    <2> QED BY <1>0, <1>3, <2>1 DEF Analyze, Stays, WorkOK
  <1>4. ASSUME NEW r \in Jobs, SendCancel(r) \/ Submit(r) \/ SubmissionFails(r) \/ Cancel(r)
        PROVE  Stays
    <2>1. UNCHANGED <<given, job_id, ended>>
      BY <1>4 DEF SendCancel, Submit, SubmissionFails, Cancel
    <2>3. crossed => crossed'
      <3>1. SendCancel(r) => (crossed' = (crossed \/ session # given[r])) \/ UNCHANGED crossed
        BY DEF SendCancel
      <3>2. Submit(r) \/ SubmissionFails(r) \/ Cancel(r) => UNCHANGED crossed
        BY DEF Submit, SubmissionFails, Cancel
      <3> QED BY <1>4, <3>1, <3>2
    <2>2. finished \subseteq finished'
      BY <1>4 DEF SendCancel, Submit, SubmissionFails, Cancel
    <2> QED BY <2>1, <2>2, <2>3 DEF Stays
  <1>5. ASSUME NEW s \in Sessions, ReadCommand(s) PROVE Stays
    <2>1. UNCHANGED <<given, finished, crossed>>
      BY <1>5 DEF ReadCommand
    <2>2. \A r \in Jobs : ended[r] # "none" => ended'[r] = ended[r]
      <3>1. CASE UNCHANGED ended
        BY <3>1
      <3>2. CASE Head(stdin[s]).type = "analyze"
                 /\ ended' = [ended EXCEPT ![Head(stdin[s]).job] = "error"]
        <4>1. ended[Head(stdin[s]).job] = "none"
          BY <1>0, <1>5, <3>2, FirstGives DEF ReadCommand
        <4> QED BY <1>0, <3>2, <4>1 DEF WorkOK
      <3> QED BY <1>5, <3>1, <3>2 DEF ReadCommand
    <2> QED BY <1>0, <1>5, <2>1, <2>2, ReadCommandKeepsWork DEF Stays
  <1>6. ASSUME NEW s \in Sessions, EndJob(s) PROVE Stays
    <2>1. UNCHANGED <<given, job_id, finished, crossed>>
      BY <1>6 DEF EndJob
    <2>2. PICK r \in Open(s), kind \in Ends : ended' = [ended EXCEPT ![r] = kind]
      BY <1>6 DEF EndJob, Ends
    <2> QED BY <1>0, <2>1, <2>2 DEF Open, Stays, WorkOK
  <1>7. ASSUME NEW s \in Sessions, Crash(s) \/ Reader(s) PROVE Stays
    BY <1>1, <1>7 DEF Crash, Reader, DispatchLine, ClearPending, ReportExit
  <1>8. ASSUME HandleEvent PROVE Stays
    <2>1. UNCHANGED <<given, job_id, ended>> /\ (crossed => crossed')
      BY <1>8 DEF HandleEvent
    <2>2. finished \subseteq finished'
      BY <1>8 DEF HandleEvent, HandleAccepted, HandleTerminal, HandleExit
    <2> QED BY <2>1, <2>2 DEF Stays
  <1>9. ASSUME UNCHANGED vars PROVE Stays
    BY <1>1, <1>9 DEF vars
  <1> QED
    BY <1>2, <1>3, <1>4, <1>5, <1>6, <1>7, <1>8, <1>9 DEF Next, Engine

\* How a step changes the pipes.
SaysOf(s) == \E line \in Lines : Say(s, line)

LEMMA EngineSays ==
    ASSUME IInv, NEW s \in Sessions, Engine(s)
    PROVE  /\ SaysOf(s) \/ SayNothing
           /\ Alive(s) /\ UNCHANGED <<controller, calls, delivery, client, faults, given>>
  <1>0. WorkOK
    BY DEF IInv
  <1>1. ASSUME ReadCommand(s) PROVE SaysOf(s) \/ SayNothing
    <2>0. PICK c : c = Head(stdin[s])
      OBVIOUS
    <2>a. PICK n : n = NextJob(s)
      OBVIOUS
    <2>1. c \in Commands
      BY <1>0, <1>1, <2>0, TailOf DEF WorkOK, ReadCommand
    <2>2. CASE c.type \in {"hello", "capabilities"} /\ Say(s, [type |-> "answer", request |-> c.request])
      <3>1. [type |-> "answer", request |-> c.request] \in Lines
        BY <2>1, <2>2 DEF Commands, Lines
      <3> QED BY <2>2, <3>1 DEF SaysOf
    <2>3. CASE c.type = "analyze" /\ Say(s, [type |-> "accepted", request |-> c.job, id |-> n])
      <3>1. [type |-> "accepted", request |-> c.job, id |-> n] \in Lines
        BY <1>0, <1>1, <2>0, <2>a, <2>3, FirstGives DEF ReadCommand, Lines, JobLines
      <3> QED BY <2>3, <3>1 DEF SaysOf
    <2>4. CASE c.type = "analyze" /\ Say(s, [type |-> "error", request |-> c.job, id |-> 0])
      <3>1. [type |-> "error", request |-> c.job, id |-> 0] \in Lines
        BY <2>1, <2>4 DEF Commands, Lines, JobLines, Ends
      <3> QED BY <2>4, <3>1 DEF SaysOf
    <2>5. CASE c.type = "cancel" /\ Say(s, [type |-> "cancelled", request |-> None, id |-> c.id])
      <3>1. [type |-> "cancelled", request |-> None, id |-> c.id] \in Lines
        BY <2>1, <2>5 DEF Commands, Lines, JobLines, Ends
      <3> QED BY <2>5, <3>1 DEF SaysOf
    <2>6. CASE Say(s, [type |-> "error", request |-> None, id |-> 0])
      <3>1. [type |-> "error", request |-> None, id |-> 0] \in Lines
        BY DEF Lines, JobLines, Ends
      <3> QED BY <2>6, <3>1 DEF SaysOf
    <2> QED BY <1>1, <2>0, <2>a, <2>2, <2>3, <2>4, <2>5, <2>6 DEF ReadCommand
  <1>2. ASSUME EndJob(s) PROVE SaysOf(s)
    <2>1. PICK r \in Open(s), kind \in Ends, n \in {job_id[q] : q \in Open(s)} :
             \/ Say(s, [type |-> kind, request |-> r, id |-> n])
             \/ Say(s, [type |-> "undecodable"])
      BY <1>2 DEF EndJob, Ends
    <2>2. /\ [type |-> kind, request |-> r, id |-> n] \in Lines
          /\ [type |-> "undecodable"] \in Lines
      BY <1>0 DEF Open, WorkOK, Lines, JobLines, Ends
    <2> QED BY <2>1, <2>2 DEF SaysOf
  <1>3. Alive(s) /\ UNCHANGED <<controller, calls, delivery, client, faults, given>>
    BY DEF Engine, ReadCommand, EndJob
  <1> QED BY <1>1, <1>2, <1>3 DEF Engine

LEMMA BadLineStays ==
    ASSUME IInv, [Next]_vars, NEW s \in Sessions, Undecoded(s)
    PROVE  Undecoded(s)'
  <1> USE DEF controller, calls, work, engine, delivery, client, faults
  <1>0. LinesOK
    BY DEF IInv
  <1>1. CASE UNCHANGED stdout
    BY <1>1 DEF Undecoded
  <1>2. ASSUME NEW t \in Sessions, Engine(t) PROVE Undecoded(s)'
    <2>1. CASE \E line \in Lines : stdout' = [stdout EXCEPT ![t] = Append(@, line)]
      <3>1. PICK line \in Lines : stdout' = [stdout EXCEPT ![t] = Append(@, line)]
        BY <2>1
      <3>2. stdout[s] \in Seq(Lines) /\ stdout[s] # <<>>
        BY <1>0 DEF LinesOK, Undecoded
      <3>3. Append(stdout[s], line) # <<>> /\ Head(Append(stdout[s], line)) = Head(stdout[s])
        BY <3>2, AppendProperties, HeadTailProperties, LenProperties, EmptySeq
      <3>4. stdout'[s] = stdout[s] \/ stdout'[s] = Append(stdout[s], line)
        BY <1>0, <3>1 DEF LinesOK
      <3> QED BY <3>3, <3>4 DEF Undecoded
    <2> QED BY <1>1, <1>2, <2>1, EngineSays DEF SaysOf, Say, SayNothing
  <1>3. ASSUME NEW t \in Sessions, DispatchLine(t) PROVE Undecoded(s)'
    <2>1. t # s /\ stdout'[s] = stdout[s]
      BY <1>0, <1>3 DEF DispatchLine, LinesOK
    <2> QED BY <2>1 DEF Undecoded
  <1>4. ASSUME NEW f \in Flows, Begin(f) \/ Flow(f) \/ TimeOut(f) PROVE UNCHANGED stdout
    BY <1>4 DEF Flow, Begin, TakeSession, TellShutdown, Reap, Kill, Start,
       EnterCapabilities, InsertWaiter, WriteCommand, ReceiveAnswer, Disconnected, TimeOut
  <1>5. ASSUME NEW r \in Jobs, Analyze(r) \/ SendCancel(r) \/ Submit(r) \/ SubmissionFails(r)
                               \/ Cancel(r)
        PROVE  UNCHANGED stdout
    BY <1>5 DEF Analyze, SendCancel, Submit, SubmissionFails, Cancel
  <1>6. ASSUME NEW t \in Sessions, Crash(t) \/ ClearPending(t) \/ ReportExit(t)
        PROVE  UNCHANGED stdout
    BY <1>6 DEF Crash, ClearPending, ReportExit
  <1>7. HandleEvent \/ UNCHANGED vars => UNCHANGED stdout
    BY DEF HandleEvent, vars
  <1> QED BY <1>1, <1>2, <1>3, <1>4, <1>5, <1>6, <1>7 DEF Next, Reader

LEMMA ProcessesStep ==
    ASSUME IInv, ProcessesOK, [Next]_vars
    PROVE  ProcessesOK'
  <1> USE DEF controller, calls, work, engine, delivery, client, faults
  <1>0. ControllerOK /\ LinesOK
    BY DEF IInv
  <1>a. \A s \in Sessions : Undecoded(s) => Undecoded(s)'
    BY BadLineStays
  <1>1. ASSUME UNCHANGED <<pc, child, reader, op, stdout>> PROVE ProcessesOK'
    BY <1>1, <1>a DEF ProcessesOK
  <1>2. ASSUME NEW f \in Flows, Begin(f) \/ TakeSession(f) \/ TellShutdown(f) \/ Reap(f)
        PROVE  ProcessesOK'
    BY <1>0, <1>2, <1>a DEF Begin, TakeSession, TellShutdown, Reap, ProcessesOK, ControllerOK, Go
  <1>3. ASSUME NEW f \in Flows, Kill(f) PROVE ProcessesOK'
    BY <1>0, <1>3, <1>a DEF Kill, ProcessesOK, ControllerOK, Go, Alive, Killed, Sessions
  <1>4. ASSUME NEW f \in Flows, Start(f) PROVE ProcessesOK'
    BY <1>0, <1>4, <1>a DEF Start, ProcessesOK, ControllerOK, Go, Sessions
  <1>5. ASSUME NEW f \in Flows, EnterCapabilities(f) \/ InsertWaiter(f) \/ ReceiveAnswer(f)
        PROVE  ProcessesOK'
    BY <1>0, <1>5, <1>a DEF EnterCapabilities, InsertWaiter, ReceiveAnswer, ProcessesOK, ControllerOK, Go
  <1>6. ASSUME NEW f \in Flows, WriteCommand(f) \/ Disconnected(f) \/ TimeOut(f)
        PROVE  ProcessesOK'
    BY <1>0, <1>6, <1>a DEF WriteCommand, Disconnected, TimeOut, FailRoundtrip, ProcessesOK,
       ControllerOK, Go, Killed, Sessions
  <1>7. ASSUME NEW r \in Jobs, Analyze(r) \/ SendCancel(r) \/ Submit(r) \/ SubmissionFails(r)
                               \/ Cancel(r)
        PROVE  ProcessesOK'
    BY <1>1, <1>7 DEF Analyze, SendCancel, Submit, SubmissionFails, Cancel
  <1>8. ASSUME NEW s \in Sessions, Engine(s) PROVE ProcessesOK'
    <2>1. /\ UNCHANGED <<pc, op, reader>> /\ Alive(s) /\ child' \in {child, Killed(s)}
          /\ stdout' = stdout \/ (reader[s] = "reading"
                                  /\ \A t \in Sessions \ {s} : stdout'[t] = stdout[t])
      BY <1>0, <1>8, EngineSays DEF SaysOf, Say, SayNothing, LinesOK
    <2> QED BY <1>0, <1>a, <2>1 DEF ProcessesOK, ControllerOK, Alive, Killed, Sessions
  <1>9. ASSUME NEW s \in Sessions, Crash(s) PROVE ProcessesOK'
    BY <1>0, <1>9, <1>a DEF Crash, ProcessesOK, ControllerOK, Alive, Killed, Sessions
  <1>10. ASSUME NEW s \in Sessions, DispatchLine(s) PROVE ProcessesOK'
    <2>1. /\ reader[s] = "reading" /\ \A t \in Sessions \ {s} : stdout'[t] = stdout[t]
          /\ UNCHANGED <<pc, op, reader, child>>
      BY <1>0, <1>10 DEF DispatchLine, LinesOK
    <2> QED BY <1>0, <1>a, <2>1 DEF ProcessesOK, ControllerOK
  <1>11. ASSUME NEW s \in Sessions, ClearPending(s) \/ ReportExit(s) PROVE ProcessesOK'
    BY <1>0, <1>11, <1>a DEF ClearPending, ReportExit, LinesEnd, ProcessesOK, ControllerOK, Sessions
  <1>12. ASSUME HandleEvent \/ UNCHANGED vars PROVE ProcessesOK'
    BY <1>1, <1>12 DEF HandleEvent, vars
  <1> QED
    BY <1>2, <1>3, <1>4, <1>5, <1>6, <1>7, <1>8, <1>9, <1>10, <1>11, <1>12 DEF Next, Flow, Reader

LEMMA CallsStep ==
    ASSUME IInv, CallsOK, [Next]_vars
    PROVE  CallsOK'
  <1> USE DEF controller, calls, work, engine, delivery, client, faults
  <1>0. WorkOK /\ ClientOK
    BY DEF IInv
  <1>1. ASSUME UNCHANGED <<call, given, jobsByRequest, finished>> PROVE CallsOK'
    BY <1>1 DEF CallsOK
  <1>2. ASSUME NEW f \in Flows, Begin(f) \/ Flow(f) \/ TimeOut(f) PROVE CallsOK'
    BY <1>1, <1>2 DEF Flow, Begin, TakeSession, TellShutdown, Reap, Kill, Start,
       EnterCapabilities, InsertWaiter, WriteCommand, ReceiveAnswer, Disconnected, TimeOut
  <1>3. ASSUME NEW r \in Jobs, Analyze(r) PROVE CallsOK'
    <2>1. given[r] = None /\ call[r] = "invoked" /\ UNCHANGED <<jobsByRequest, finished>>
      BY <1>0, <1>3 DEF Analyze, WorkOK
    <2>2. \/ call' = [call EXCEPT ![r] = "queued"] /\ given' = [given EXCEPT ![r] = session]
          \/ call' = [call EXCEPT ![r] = "refused"] /\ given' = given
      BY <1>3 DEF Analyze
    <2> QED BY <1>0, <2>1, <2>2 DEF CallsOK, WorkOK
  <1>4. ASSUME NEW r \in Jobs, Submit(r) \/ SubmissionFails(r) PROVE CallsOK'
    <2>1. /\ UNCHANGED given
          /\ \/ /\ call' = [call EXCEPT ![r] = "invoked"] /\ finished' = finished
                /\ jobsByRequest' = jobsByRequest \cup {r}
             \/ /\ call[r] = "refused" /\ call' = [call EXCEPT ![r] = "returned"]
                /\ finished' = finished \cup {r} /\ jobsByRequest' = jobsByRequest \ {r}
      BY <1>4 DEF Submit, SubmissionFails, CleanupTracked
    <2> QED BY <1>0, <2>1 DEF CallsOK, WorkOK
  <1>5. ASSUME NEW r \in Jobs, SendCancel(r) \/ Cancel(r) PROVE CallsOK'
    BY <1>1, <1>5 DEF SendCancel, Cancel
  <1>6. ASSUME NEW s \in Sessions, Engine(s) \/ Crash(s) \/ Reader(s) PROVE CallsOK'
    BY <1>1, <1>6 DEF Engine, ReadCommand, EndJob, Crash, Reader, DispatchLine, ClearPending, ReportExit
  <1>7. ASSUME HandleEvent PROVE CallsOK'
    <2>1. UNCHANGED <<call, given>>
      BY <1>7 DEF HandleEvent
    <2>2. jobsByRequest \cup finished \subseteq jobsByRequest' \cup finished'
      BY <1>7 DEF HandleEvent, HandleAccepted, HandleTerminal, HandleExit, CleanupTracked
    <2> QED BY <2>1, <2>2 DEF CallsOK
  <1>8. ASSUME UNCHANGED vars PROVE CallsOK'
    BY <1>1, <1>8 DEF vars
  <1> QED BY <1>2, <1>3, <1>4, <1>5, <1>6, <1>7, <1>8 DEF Next

\* The numbers session s has used.
Used(s) == {r \in Jobs : given[r] = s /\ (job_id[r] # 0 \/ ended[r] # "none")}

LEMMA MoreUsed ==
    ASSUME NEW A, NEW B \in SUBSET Jobs, A \subseteq B
    PROVE  /\ Cardinality(A) \in Nat /\ Cardinality(B) \in Nat
           /\ Cardinality(A) <= Cardinality(B)
           /\ \A r \in B \ A : Cardinality(A) < Cardinality(B)
  BY JobsFinite, FS_Subset, FS_CardinalityType

LEMMA NumbersAreNatural ==
    ASSUME WorkOK, NEW r \in Jobs
    PROVE  job_id[r] \in Nat
  <1>1. job_id[r] \in {0} \cup EngineIds
    BY DEF WorkOK
  <1>2. \A i \in EngineIds : i \in Nat
    BY IdsArePositive
  <1> QED BY <1>1, <1>2

LEMMA UsedStays ==
    ASSUME IInv, Stays, NEW s \in Sessions
    PROVE  Used(s) \subseteq Used(s)'
  <1>1. None # s
    BY NamesDistinct DEF Sessions
  <1>2. ASSUME NEW r \in Used(s) PROVE r \in Used(s)'
    BY <1>1, <1>2 DEF Used, Stays
  <1> QED BY <1>2

\* Whoever has a number keeps it, and a new one is larger than every one before.
LEMMA NumbersKept ==
    ASSUME IInv, NumbersOK, Stays, UNCHANGED job_id, engineJobId' = engineJobId,
           \A r \in cancels' : engineJobId[r] # 0
    PROVE  NumbersOK'
  <1>0. WorkOK /\ None \notin Sessions
    BY NamesDistinct DEF IInv, Sessions
  <1>1. ASSUME NEW r \in Jobs, job_id'[r] # 0
        PROVE  given[r] \in Sessions /\ given'[r] = given[r] /\ job_id'[r] < NextJob(given[r])'
    <2>1. given[r] # None /\ given[r] \in Sessions /\ given'[r] = given[r]
      BY <1>0, <1>1 DEF WorkOK, Stays
    <2> DEFINE s == given[r]
    <2>2. PICK t \in Sessions : t = given[r]
      BY <2>1
    <2>3. Used(t) \subseteq Used(t)' /\ Used(t)' \in SUBSET Jobs
      BY UsedStays DEF Used
    <2>4. Cardinality(Used(t)) <= Cardinality(Used(t)')
          /\ Cardinality(Used(t)) \in Nat /\ Cardinality(Used(t)') \in Nat
      BY <2>3, MoreUsed
    <2>5. job_id[r] < 1 + Cardinality(Used(t))
      BY <1>1, <2>2 DEF NumbersOK, NextJob, Used
    <2>6. job_id[r] \in Nat
      BY <1>0, NumbersAreNatural
    <2>7. job_id'[r] < 1 + Cardinality(Used(t)')
      BY <2>4, <2>5, <2>6
    <2>8. NextJob(t)' = 1 + Cardinality(Used(t)')
      BY DEF NextJob, Used
    <2> QED BY <2>1, <2>2, <2>7, <2>8
  <1>2. \A r \in Jobs : job_id'[r] # 0 => job_id'[r] < NextJob(given[r])'
    BY <1>1
  <1>3. ASSUME NEW r \in Jobs, NEW q \in Jobs, given'[r] = given'[q], job_id'[r] = job_id'[q],
               job_id'[r] # 0
        PROVE  r = q
    <2>1. given[r] = given[q]
      BY <1>1, <1>3
    <2> QED BY <1>3, <2>1 DEF NumbersOK
  <1> QED BY <1>2, <1>3 DEF NumbersOK

LEMMA NewNumber ==
    ASSUME IInv, NumbersOK, Stays, NEW s \in Sessions, NEW r \in Jobs,
           given[r] = s, job_id[r] = 0, ended[r] = "none", NextJob(s) \in EngineIds,
           job_id' = [job_id EXCEPT ![r] = NextJob(s)],
           UNCHANGED <<given, ended, engineJobId, cancels>>
    PROVE  NumbersOK'
  <1>0. WorkOK /\ None \notin Sessions
    BY NamesDistinct DEF IInv, Sessions
  <1>1. ASSUME NEW q \in Jobs, job_id'[q] # 0
        PROVE  job_id'[q] < NextJob(given[q])'
    <2>1. given[q] \in Sessions
      BY <1>0, <1>1 DEF WorkOK
    <2>2. PICK t \in Sessions : t = given[q]
      BY <2>1
    <2>3. Used(t) \subseteq Used(t)' /\ Used(t)' \in SUBSET Jobs
      BY UsedStays DEF Used
    <2>4. /\ Cardinality(Used(t)) <= Cardinality(Used(t)')
          /\ Cardinality(Used(t)) \in Nat /\ Cardinality(Used(t)') \in Nat
          /\ \A p \in Used(t)' \ Used(t) : Cardinality(Used(t)) < Cardinality(Used(t)')
      BY <2>3, MoreUsed
    <2>5. NextJob(t)' = 1 + Cardinality(Used(t)') /\ NextJob(t) = 1 + Cardinality(Used(t))
      BY DEF NextJob, Used
    <2>6. CASE q = r
      <3>1. r \in Used(s)' \ Used(s) /\ t = s
        BY <1>0, <1>1, <2>2, <2>6 DEF Used, WorkOK
      <3>2. job_id'[q] = NextJob(s)
        BY <1>0, <2>6 DEF WorkOK
      <3> QED BY <2>2, <2>4, <2>5, <3>1, <3>2
    <2>7. CASE q # r
      <3>1. job_id'[q] = job_id[q] /\ job_id[q] \in Nat
        BY <1>0, <2>7, NumbersAreNatural DEF WorkOK
      <3>2. job_id[q] < NextJob(t)
        BY <1>1, <2>2, <3>1 DEF NumbersOK
      <3> QED BY <2>2, <2>4, <2>5, <3>1, <3>2
    <2> QED BY <2>6, <2>7
  <1>2. ASSUME NEW p \in Jobs, NEW q \in Jobs, given'[p] = given'[q], job_id'[p] = job_id'[q],
               job_id'[p] # 0
        PROVE  p = q
    <2>1. ASSUME NEW x \in Jobs, x # r, job_id[x] # 0, given[x] = s PROVE job_id[x] # NextJob(s)
      <3>1. job_id[x] < NextJob(s) /\ job_id[x] \in Nat /\ NextJob(s) \in Nat
        BY <1>0, <2>1, IdsArePositive, NumbersAreNatural DEF NumbersOK
      <3> QED BY <3>1
    <2>2. \A x \in Jobs : job_id'[x] = IF x = r THEN NextJob(s) ELSE job_id[x]
      BY <1>0 DEF WorkOK
    <2>3. CASE p = r /\ q # r
      BY <1>2, <2>1, <2>2, <2>3
    <2>4. CASE p # r /\ q = r
      BY <1>2, <2>1, <2>2, <2>4
    <2>5. CASE p # r /\ q # r
      BY <1>2, <2>2, <2>5 DEF NumbersOK
    <2> QED BY <2>3, <2>4, <2>5
  <1>3. \A q \in Jobs : engineJobId'[q] \in {0, job_id'[q]}
    <2>1. \A q \in Jobs : engineJobId[q] # 0 => job_id'[q] = job_id[q]
      BY DEF NumbersOK, Stays
    <2> QED BY <2>1 DEF NumbersOK
  <1> QED BY <1>1, <1>2, <1>3 DEF NumbersOK

LEMMA AcceptedKeepsNumbers ==
    ASSUME IInv, NumbersOK, Stays, NEW line \in JobLines, AcceptedTrue(line), HandleAccepted(line),
           UNCHANGED <<given, job_id, ended>>
    PROVE  NumbersOK'
  <1>0. ClientOK /\ WorkOK
    BY DEF IInv
  <1>1. line.request \in Jobs /\ line.id \in EngineIds /\ line.id # 0 /\ job_id[line.request] = line.id
    BY IdsArePositive DEF JobLines, Ends, HandleAccepted, AcceptedTrue
  <1>2. \A s : NextJob(s)' = NextJob(s)
    BY DEF NextJob
  <1>3. CASE UNCHANGED <<engineJobId, cancels>>
    BY <1>2, <1>3 DEF NumbersOK
  <1>4. ASSUME NEW r \in Resolved(line),
               engineJobId' = [engineJobId EXCEPT ![r] = line.id],
               cancels' = cancels \cup (cancelRequested \cap {r})
        PROVE  NumbersOK'
    <2>1. r \in Jobs /\ job_id[r] = line.id
      BY <1>0, <1>1 DEF Resolved, ClientOK
    <2>2. \A q \in Jobs : engineJobId'[q] = IF q = r THEN line.id ELSE engineJobId[q]
      BY <1>0, <1>4 DEF ClientOK
    <2>3. cancels \subseteq Jobs
      BY <1>0 DEF ClientOK
    <2> QED BY <1>1, <1>2, <1>4, <2>1, <2>2, <2>3 DEF NumbersOK
  <1> QED BY <1>3, <1>4 DEF HandleAccepted

LEMMA NumbersStep ==
    ASSUME IInv, NumbersOK, Stays, [Next]_vars
    PROVE  NumbersOK'
  <1> USE DEF controller, calls, work, engine, delivery, client, faults
  <1>0. WorkOK /\ ClientOK /\ LinesOK
    BY DEF IInv
  <1>1. ASSUME UNCHANGED <<job_id, engineJobId, cancels>> PROVE NumbersOK'
    BY <1>1, NumbersKept DEF NumbersOK
  <1>2. ASSUME NEW f \in Flows, Begin(f) \/ Flow(f) \/ TimeOut(f) PROVE NumbersOK'
    BY <1>1, <1>2 DEF Flow, Begin, TakeSession, TellShutdown, Reap, Kill, Start,
       EnterCapabilities, InsertWaiter, WriteCommand, ReceiveAnswer, Disconnected, TimeOut
  <1>3. ASSUME NEW r \in Jobs, Analyze(r) \/ Submit(r) \/ SubmissionFails(r) PROVE NumbersOK'
    BY <1>1, <1>3 DEF Analyze, Submit, SubmissionFails
  <1>4. ASSUME NEW r \in Jobs, SendCancel(r) \/ Cancel(r) PROVE NumbersOK'
    <2>1. UNCHANGED <<job_id, engineJobId>>
      BY <1>4 DEF SendCancel, Cancel
    <2>2. \A q \in cancels' : engineJobId[q] # 0
      BY <1>4 DEF SendCancel, Cancel, NumbersOK
    <2> QED BY <2>1, <2>2, NumbersKept
  <1>5. ASSUME NEW s \in Sessions, ReadCommand(s) PROVE NumbersOK'
    <2>1. UNCHANGED <<given, engineJobId, cancels>>
      BY <1>5 DEF ReadCommand
    <2>2. CASE UNCHANGED job_id
      BY <1>1, <2>1, <2>2
    <2>3. CASE /\ Head(stdin[s]).type = "analyze" /\ UNCHANGED ended
               /\ job_id' = [job_id EXCEPT ![Head(stdin[s]).job] = NextJob(s)]
      <3>1. PICK r : r = Head(stdin[s]).job
        OBVIOUS
      <3>2. /\ r \in Jobs /\ given[r] = s /\ job_id[r] = 0 /\ ended[r] = "none"
            /\ NextJob(s) \in EngineIds
        BY <1>0, <1>5, <2>3, <3>1, FirstGives DEF ReadCommand
      <3> QED BY <2>1, <2>3, <3>1, <3>2, NewNumber
    <2> QED BY <1>5, <2>2, <2>3 DEF ReadCommand
  <1>6. ASSUME NEW s \in Sessions, EndJob(s) \/ Crash(s) \/ Reader(s) PROVE NumbersOK'
    BY <1>1, <1>6 DEF EndJob, Crash, Reader, DispatchLine, ClearPending, ReportExit
  <1>7. ASSUME HandleEvent PROVE NumbersOK'
    <2>1. UNCHANGED <<given, job_id, ended>>
      BY <1>7 DEF HandleEvent
    <2>2. PICK line : /\ line = Head(wire).line
                      /\ HandleAccepted(line) \/ HandleTerminal(line) \/ HandleExit(line)
      BY <1>7 DEF HandleEvent
    <2>3. CASE HandleAccepted(line)
      <3>1. wire \in Seq(Events) /\ wire # <<>>
        BY <1>0, <1>7 DEF LinesOK, HandleEvent
      <3>2. Head(wire) \in Events /\ Head(wire) = wire[1] /\ Len(wire) \in Nat \ {0}
        BY <3>1, TailOf
      <3>3. line \in JobLines /\ AcceptedTrue(line)
        <4>1. line = wire[1].line /\ 1 \in 1 .. Len(wire)
          BY <2>2, <3>2
        <4>2. line.type = "accepted"
          BY <2>3 DEF HandleAccepted
        <4>3. line \in JobLines
          BY <4>1, <4>2, <3>2 DEF Events
        <4> QED BY <1>0, <4>1, <4>3 DEF LinesOK
      <3> QED BY <2>1, <2>3, <3>3, AcceptedKeepsNumbers
    <2>4. CASE HandleTerminal(line) \/ HandleExit(line)
      BY <1>1, <2>1, <2>4 DEF HandleTerminal, HandleExit
    <2> QED BY <2>2, <2>3, <2>4
  <1>8. ASSUME UNCHANGED vars PROVE NumbersOK'
    BY <1>1, <1>8 DEF vars
  <1> QED BY <1>2, <1>3, <1>4, <1>5, <1>6, <1>7, <1>8 DEF Next, Engine

LEMMA NumberStays ==
    ASSUME IInv, Stays, NEW r \in Jobs, NEW s \in Sessions, NEW i, Numbered(r, s, i)
    PROVE  Numbered(r, s, i)'
  BY NamesDistinct DEF Numbered, Stays, Sessions

\* Any commands but a cancel that names no job of the session.
LEMMA CommandsKept ==
    ASSUME IInv, CommandsOK, Stays, NEW s \in Sessions, NEW c \in Commands, WriteTo(s, c),
           ~crossed' => (c.type = "cancel" => \E r \in Jobs : Numbered(r, s, c.id)')
    PROVE  CommandsOK'
  <1>0. WorkOK
    BY DEF IInv
  <1> SUFFICES ASSUME ~crossed', NEW t \in Sessions, NEW i \in 1 .. Len(stdin'[t]),
                      stdin'[t][i].type = "cancel"
               PROVE  \E r \in Jobs : Numbered(r, t, stdin[t][i].id)'
    BY DEF CommandsOK
  <1>1. ~crossed
    BY DEF Stays
  <1>2. CASE i \in 1 .. Len(stdin[t]) /\ stdin'[t][i] = stdin[t][i]
    <2>1. PICK r \in Jobs : Numbered(r, t, stdin[t][i].id)
      BY <1>1, <1>2 DEF CommandsOK
    <2>2. PICK n : n = stdin[t][i].id
      OBVIOUS
    <2>3. Numbered(r, t, n)'
      BY <2>1, <2>2, NumberStays
    <2> QED BY <1>2, <2>2, <2>3 DEF Numbered
  <1>3. CASE t = s /\ stdin'[t][i] = c
    BY <1>3 DEF Numbered
  <1>4. stdin[t] \in Seq(Commands) /\ (t # s => stdin'[t] = stdin[t])
        /\ (t = s => stdin'[t] = Append(stdin[t], c))
    BY <1>0 DEF WorkOK, WriteTo
  <1>5. CASE t = s
    BY <1>2, <1>3, <1>4, <1>5, AppendedTo
  <1>6. CASE t # s
    BY <1>2, <1>4, <1>6
  <1> QED BY <1>5, <1>6

LEMMA CommandsStep ==
    ASSUME IInv, NumbersOK, CommandsOK, Stays, [Next]_vars
    PROVE  CommandsOK'
  <1> USE DEF controller, calls, work, engine, delivery, client, faults
  <1>0. WorkOK /\ ClientOK /\ ControllerOK
    BY DEF IInv
  <1>1. ASSUME \A t \in Sessions : \A i \in 1 .. Len(stdin'[t]) :
                  \E j \in 1 .. Len(stdin[t]) : stdin'[t][i] = stdin[t][j]
        PROVE  CommandsOK'
    <2> SUFFICES ASSUME ~crossed', NEW t \in Sessions, NEW i \in 1 .. Len(stdin'[t]),
                        stdin'[t][i].type = "cancel"
                 PROVE  \E r \in Jobs : Numbered(r, t, stdin[t][i].id)'
      BY DEF CommandsOK
    <2>1. PICK j \in 1 .. Len(stdin[t]) : stdin'[t][i] = stdin[t][j]
      BY <1>1
    <2>2. PICK n : n = stdin[t][j].id
      OBVIOUS
    <2>3. PICK r \in Jobs : Numbered(r, t, n)
      BY <2>1, <2>2 DEF CommandsOK, Stays
    <2>4. Numbered(r, t, n)'
      BY <2>3, NumberStays
    <2> QED BY <2>1, <2>2, <2>4 DEF Numbered
  <1>2. ASSUME UNCHANGED stdin PROVE CommandsOK'
    BY <1>1, <1>2
  <1>3. ASSUME NEW f \in Flows, Begin(f) \/ TakeSession(f) \/ Reap(f) \/ Kill(f) \/ Start(f)
                                \/ EnterCapabilities(f) \/ InsertWaiter(f) \/ ReceiveAnswer(f)
                                \/ Disconnected(f) \/ TimeOut(f)
        PROVE  CommandsOK'
    BY <1>2, <1>3 DEF Begin, TakeSession, Reap, Kill, Start, EnterCapabilities, InsertWaiter,
                      ReceiveAnswer, Disconnected, TimeOut
  <1>4. ASSUME NEW f \in Flows, TellShutdown(f) PROVE CommandsOK'
    <2> DEFINE c == [type |-> "shutdown"]
    <2>1. CASE Alive(victim[f])
      <3>1. victim[f] \in Sessions /\ c \in Commands /\ c.type # "cancel"
        BY <1>0, <2>1 DEF Alive, ControllerOK, Commands
      <3>2. WriteTo(victim[f], c)
        BY <1>4, <2>1 DEF TellShutdown
      <3> HIDE DEF c
      <3> QED BY <3>1, <3>2, CommandsKept
    <2>2. CASE ~Alive(victim[f])
      BY <1>2, <1>4, <2>2 DEF TellShutdown
    <2> QED BY <2>1, <2>2
  <1>5. ASSUME NEW f \in Flows, WriteCommand(f) PROVE CommandsOK'
    <2> DEFINE c == [type |-> op[f], request |-> f]
    <2>1. CASE Alive(Peer(f)) /\ WriteTo(Peer(f), c)
      <3>1. Peer(f) \in Sessions /\ c \in Commands /\ c.type # "cancel"
        BY <1>0, <2>1 DEF Alive, Peer, ControllerOK, Commands, Sessions
      <3> HIDE DEF c
      <3> QED BY <2>1, <3>1, CommandsKept
    <2> QED BY <1>2, <1>5, <2>1 DEF WriteCommand
  <1>6. ASSUME NEW r \in Jobs, Analyze(r) PROVE CommandsOK'
    <2> DEFINE c == [type |-> "analyze", job |-> r]
    <2>1. CASE Alive(session) /\ WriteTo(session, c)
      <3>1. session \in Sessions /\ c \in Commands /\ c.type # "cancel"
        BY <1>0, <2>1 DEF Alive, ControllerOK, Commands
      <3> HIDE DEF c
      <3> QED BY <2>1, <3>1, CommandsKept
    <2> QED BY <1>2, <1>6, <2>1 DEF Analyze, NotWritten
  <1>7. ASSUME NEW r \in Jobs, SendCancel(r) PROVE CommandsOK'
    <2> DEFINE c == [type |-> "cancel", id |-> engineJobId[r]]
    <2>1. CASE /\ Alive(session) /\ WriteTo(session, c)
               /\ crossed' = (crossed \/ session # given[r])
      <3>1. PICK s \in Sessions, n \in {0} \cup EngineIds : s = session /\ n = engineJobId[r]
        BY <1>0, <2>1 DEF Alive, ControllerOK, ClientOK
      <3> DEFINE cancel == [type |-> "cancel", id |-> n]
      <3>2. n # 0 /\ n = job_id[r] /\ UNCHANGED <<given, job_id>>
        BY <1>7, <3>1 DEF NumbersOK, SendCancel
      <3>3. ~crossed' => s = given[r]
        BY <2>1, <3>1
      <3>4. ~crossed' => Numbered(r, s, n)'
        BY <3>2, <3>3 DEF Numbered
      <3>5. cancel \in Commands /\ cancel.id = n /\ WriteTo(s, cancel)
        BY <2>1, <3>1 DEF Commands
      <3> HIDE DEF cancel
      <3> QED BY <3>4, <3>5, CommandsKept
    <2>2. CASE UNCHANGED stdin
      BY <1>2, <2>2
    <2> QED BY <1>7, <2>1, <2>2 DEF SendCancel, NotWritten
  <1>8. ASSUME NEW r \in Jobs, Submit(r) \/ SubmissionFails(r) \/ Cancel(r) PROVE CommandsOK'
    BY <1>2, <1>8 DEF Submit, SubmissionFails, Cancel
  <1>9. ASSUME NEW s \in Sessions, ReadCommand(s) PROVE CommandsOK'
    <2>1. /\ stdin[s] \in Seq(Commands) /\ stdin[s] # <<>>
          /\ stdin' = [stdin EXCEPT ![s] = Tail(@)]
      BY <1>0, <1>9 DEF WorkOK, ReadCommand
    <2>2. ASSUME NEW t \in Sessions, NEW i \in 1 .. Len(stdin'[t])
          PROVE  \E j \in 1 .. Len(stdin[t]) : stdin'[t][i] = stdin[t][j]
      <3>1. CASE t = s
        BY <1>0, <2>1, <2>2, <3>1, TailOf DEF WorkOK
      <3>2. CASE t # s
        BY <1>0, <2>1, <2>2, <3>2 DEF WorkOK
      <3> QED BY <3>1, <3>2
    <2> QED BY <1>1, <2>2
  <1>10. ASSUME NEW s \in Sessions, EndJob(s) \/ Crash(s) \/ Reader(s) PROVE CommandsOK'
    BY <1>2, <1>10 DEF EndJob, Crash, Reader, DispatchLine, ClearPending, ReportExit
  <1>11. ASSUME HandleEvent \/ UNCHANGED vars PROVE CommandsOK'
    BY <1>2, <1>11 DEF HandleEvent, vars
  <1> QED
    BY <1>3, <1>4, <1>5, <1>6, <1>7, <1>8, <1>9, <1>10, <1>11 DEF Next, Flow, Engine

\* The ends in the pipes and on the wire.
Delivery == PipeOK /\ WireOK /\ EndsSaid

LEMMA EndTrueStays ==
    ASSUME Stays, NEW s \in Sessions, NEW line \in Lines \cup [type : {"exit"}], EndTrue(line, s)
    PROVE  EndTrue(line, s)'
  <1> SUFFICES ASSUME line.type \in Ends, line.request # None
               PROVE  /\ given'[line.request] = s /\ ended'[line.request] = line.type
                      /\ line.id \in {0, job_id'[line.request]}
    BY DEF EndTrue
  <1>1. PICK r \in Jobs : r = line.request
    BY DEF Lines, JobLines, Ends
  <1>2. given[r] = s /\ ended[r] = line.type /\ line.id \in {0, job_id[r]}
    BY <1>1 DEF EndTrue
  <1>3. s # None /\ ended[r] # "none"
    BY <1>2, NamesDistinct DEF Sessions, Ends
  <1> QED BY <1>1, <1>2, <1>3 DEF Stays

\* What lies in a pipe and on the wire has its type.
LEMMA Carried ==
    ASSUME IInv
    PROVE  /\ \A s \in Sessions : \A k \in 1 .. Len(stdout[s]) : stdout[s][k] \in Lines
           /\ \A k \in 1 .. Len(wire) : /\ wire[k].session \in Sessions
                                        /\ wire[k].line \in JobLines \cup [type : {"exit"}]
           /\ Len(wire) \in Nat /\ \A s \in Sessions : Len(stdout[s]) \in Nat
  <1>1. wire \in Seq(Events) /\ \A s \in Sessions : stdout[s] \in Seq(Lines)
    BY DEF IInv, LinesOK
  <1>2. \A k \in 1 .. Len(wire) : wire[k] \in Events
    BY <1>1, LenProperties
  <1>3. \A s \in Sessions : \A k \in 1 .. Len(stdout[s]) : stdout[s][k] \in Lines
    BY <1>1, LenProperties
  <1> QED BY <1>1, <1>2, <1>3, LenProperties DEF Events

\* A job that has ended was given to an engine.
LEMMA EndedGiven ==
    ASSUME IInv, NEW r \in Jobs, ended[r] # "none"
    PROVE  given[r] \in Sessions
  BY DEF IInv, WorkOK

LEMMA QuietStep ==
    ASSUME IInv, Delivery, Stays, [Next]_vars, UNCHANGED <<stdout, wire, ended>>,
           \A s \in Sessions : reader[s] = "ended" => reader'[s] = "ended"
    PROVE  Delivery'
  <1>a. \A s \in Sessions : Undecoded(s) => Undecoded(s)'
    BY BadLineStays
  <1>b. /\ \A r \in Jobs, n \in Int : EndedBefore(r, n) => EndedBefore(r, n)'
        /\ \A r \in Jobs, s \in Sessions, n \in Int : EndSaid(r, s, n) => EndSaid(r, s, n)'
    BY DEF EndedBefore, EndSaid, InPipe, OnWire, Stays
  <1>1. ASSUME NEW s \in Sessions, NEW k \in 1 .. Len(stdout[s])
        PROVE  /\ EndTrue(stdout[s][k], s)'
               /\ ~crossed' /\ Late(stdout[s][k]) =>
                     \E r \in Jobs : Numbered(r, s, stdout[s][k].id)' /\ EndSaid(r, s, k - 1)'
    <2>1. PICK line \in Lines : line = stdout[s][k]
      BY Carried
    <2>2. EndTrue(line, s)'
      BY <2>1, EndTrueStays DEF Delivery, PipeOK
    <2>3. ASSUME ~crossed', Late(line)
          PROVE  \E r \in Jobs : Numbered(r, s, line.id)' /\ EndSaid(r, s, k - 1)'
      <3>1. PICK r \in Jobs : Numbered(r, s, line.id) /\ EndSaid(r, s, k - 1)
        BY <2>1, <2>3 DEF Delivery, PipeOK, Stays
      <3>2. Numbered(r, s, line.id)'
        BY <3>1, NumberStays
      <3> QED BY <1>b, <3>1, <3>2
    <2> QED BY <2>1, <2>2, <2>3 DEF EndTrue
  <1>2. PipeOK'
    BY <1>1 DEF PipeOK, Late
  <1>3. ASSUME NEW k \in 1 .. Len(wire), NEW s \in Sessions, s = wire[k].session
        PROVE  /\ EndTrue(wire[k].line, s)'
               /\ ~crossed' /\ Late(wire[k].line) =>
                     \E r \in Jobs : Numbered(r, s, wire[k].line.id)' /\ EndedBefore(r, k - 1)'
               /\ wire[k].line.type = "exit" =>
                     /\ reader'[s] = "ended"
                     /\ \A r \in Jobs : given'[r] = s /\ ended'[r] # "none" =>
                           Undecoded(s)' \/ EndedBefore(r, k - 1)'
    <2>1. PICK line \in Lines \cup [type : {"exit"}] : line = wire[k].line
      BY Carried DEF Lines
    <2>2. EndTrue(line, s)'
      BY <1>3, <2>1, EndTrueStays DEF Delivery, WireOK
    <2>3. ASSUME ~crossed', Late(line)
          PROVE  \E r \in Jobs : Numbered(r, s, line.id)' /\ EndedBefore(r, k - 1)'
      <3>1. PICK r \in Jobs : Numbered(r, s, line.id) /\ EndedBefore(r, k - 1)
        BY <1>3, <2>1, <2>3 DEF Delivery, WireOK, Stays
      <3>2. Numbered(r, s, line.id)'
        BY <3>1, NumberStays
      <3> QED BY <1>b, <3>1, <3>2
    <2>4. ASSUME line.type = "exit" PROVE reader'[s] = "ended"
      BY <1>3, <2>1, <2>4 DEF Delivery, WireOK
    <2>5. ASSUME line.type = "exit", NEW r \in Jobs, given'[r] = s, ended'[r] # "none"
          PROVE  Undecoded(s)' \/ EndedBefore(r, k - 1)'
      <3>1. given[r] = s
        BY <2>5, EndedGiven, NamesDistinct DEF Stays, Sessions
      <3>2. Undecoded(s) \/ EndedBefore(r, k - 1)
        BY <1>3, <2>1, <2>5, <3>1 DEF Delivery, WireOK
      <3> QED BY <1>a, <1>b, <3>2
    <2> QED BY <2>1, <2>2, <2>3, <2>4, <2>5 DEF EndTrue
  <1>4. WireOK'
    BY <1>3, Carried DEF WireOK, Late
  <1>5. ASSUME NEW r \in Jobs, ended'[r] # "none"
        PROVE  EndSaid(r, given[r], Len(stdout[given[r]]))'
    <2>1. PICK s \in Sessions : s = given[r]
      BY <1>5, EndedGiven
    <2>2. given'[r] = s
      BY <2>1, NamesDistinct DEF Stays, Sessions
    <2>3. EndSaid(r, s, Len(stdout[s])) /\ Len(stdout[s]) \in Int
      BY <1>5, <2>1, Carried DEF Delivery, EndsSaid
    <2>4. EndSaid(r, s, Len(stdout[s]))'
      BY <1>b, <2>3
    <2> QED BY <2>2, <2>4
  <1>6. EndsSaid'
    BY <1>5 DEF EndsSaid
  <1> QED BY <1>2, <1>4, <1>6 DEF Delivery

\* The engine of s says a line: the end of each job that now has one is in the pipe.
LEMMA SayStep ==
    ASSUME IInv, ProcessesOK, Delivery, Stays, [Next]_vars, NEW s \in Sessions, Alive(s),
           NEW line \in Lines, Say(s, line),
           UNCHANGED <<wire, reader, finished, given, crossed>>,
           EndTrue(line, s)',
           ~crossed /\ Late(line) =>
               \E r \in Jobs : Numbered(r, s, line.id) /\ EndSaid(r, s, Len(stdout[s])),
           \A r \in Jobs : ended[r] = "none" /\ ended'[r] # "none" =>
               given[r] = s /\ (EndOf(line, r) \/ line.type = "undecodable")
    PROVE  Delivery'
  <1>0. LinesOK /\ ControllerOK /\ s # None
    BY NamesDistinct DEF IInv, Sessions
  <1>a. \A t \in Sessions : Undecoded(t) => Undecoded(t)'
    BY BadLineStays
  <1>b. \A t \in Sessions : stdout[t] \in Seq(Lines) /\ Len(stdout[t]) \in Nat
    BY <1>0, LenProperties DEF LinesOK
  <1>c. /\ \A t \in Sessions : Len(stdout[t]) <= Len(stdout'[t])
        /\ \A t \in Sessions : \A k \in 1 .. Len(stdout[t]) : stdout'[t][k] = stdout[t][k]
        /\ \A t \in Sessions \ {s} : stdout'[t] = stdout[t]
        /\ \/ stdout' = stdout /\ reader[s] # "reading"
           \/ Len(stdout'[s]) = Len(stdout[s]) + 1 /\ stdout'[s][Len(stdout[s]) + 1] = line
    <2>1. CASE stdout' = stdout /\ reader[s] # "reading"
      BY <1>b, <2>1
    <2>2. CASE stdout' = [stdout EXCEPT ![s] = Append(@, line)]
      <3>1. /\ stdout'[s] = Append(stdout[s], line)
            /\ \A t \in Sessions \ {s} : stdout'[t] = stdout[t]
        BY <1>0, <2>2 DEF LinesOK
      <3>2. /\ Len(stdout'[s]) = Len(stdout[s]) + 1
            /\ stdout'[s][Len(stdout[s]) + 1] = line
            /\ \A k \in 1 .. Len(stdout[s]) : stdout'[s][k] = stdout[s][k]
        BY <1>b, <3>1, AppendProperties
      <3> QED BY SMTT(20), <1>b, <3>1, <3>2
    <2> QED BY <2>1, <2>2 DEF Say
  <1>d. \A r \in Jobs, t \in Sessions, n \in Int :
            n <= Len(stdout[t]) /\ EndSaid(r, t, n) => EndSaid(r, t, n)'
    BY <1>b, <1>c DEF EndSaid, EndedBefore, OnWire, InPipe
  <1>e. \A r \in Jobs, n \in Int : EndedBefore(r, n) => EndedBefore(r, n)'
    BY DEF EndedBefore, OnWire
  <1>1. ASSUME NEW t \in Sessions, NEW k \in 1 .. Len(stdout'[t])
        PROVE  /\ EndTrue(stdout[t][k], t)'
               /\ ~crossed' /\ Late(stdout'[t][k]) =>
                     \E r \in Jobs : Numbered(r, t, stdout[t][k].id)' /\ EndSaid(r, t, k - 1)'
    <2>1. CASE k \in 1 .. Len(stdout[t])
      <3>1. PICK old \in Lines : old = stdout[t][k]
        BY <2>1, Carried
      <3>2. EndTrue(old, t)'
        BY <2>1, <3>1, EndTrueStays DEF Delivery, PipeOK
      <3>3. ASSUME ~crossed', Late(old)
            PROVE  \E r \in Jobs : Numbered(r, t, old.id)' /\ EndSaid(r, t, k - 1)'
        <4>1. PICK r \in Jobs : Numbered(r, t, old.id) /\ EndSaid(r, t, k - 1)
          BY <2>1, <3>1, <3>3 DEF Delivery, PipeOK, Stays
        <4>2. Numbered(r, t, old.id)'
          BY <4>1, NumberStays
        <4>3. k - 1 \in Int /\ k - 1 <= Len(stdout[t])
          BY <1>b, <2>1
        <4> QED BY <1>d, <4>1, <4>2, <4>3
      <3>4. stdout'[t][k] = old
        BY <1>c, <2>1, <3>1
      <3> QED BY <3>2, <3>3, <3>4 DEF EndTrue, Numbered
    <2>2. CASE k \notin 1 .. Len(stdout[t])
      <3>1. t = s /\ k = Len(stdout[s]) + 1 /\ stdout'[t][k] = line
        BY <1>b, <1>c, <2>2
      <3>2. ASSUME ~crossed', Late(line)
            PROVE  \E r \in Jobs : Numbered(r, t, line.id)' /\ EndSaid(r, t, k - 1)'
        <4>1. PICK r \in Jobs : Numbered(r, s, line.id) /\ EndSaid(r, s, Len(stdout[s]))
          BY <3>2
        <4>2. Numbered(r, s, line.id)'
          BY <4>1, NumberStays
        <4>3. k - 1 = Len(stdout[s]) /\ k - 1 \in Int
          BY <1>b, <3>1
        <4> QED BY <1>b, <1>d, <3>1, <4>1, <4>2, <4>3
      <3> QED BY <3>1, <3>2 DEF EndTrue, Numbered
    <2> QED BY <2>1, <2>2
  <1>2. PipeOK'
    BY <1>1 DEF PipeOK, Late
  <1>f. ASSUME NEW r \in Jobs, ended[r] = "none", ended'[r] # "none"
        PROVE  /\ given[r] = s /\ (reader[s] # "reading" => Undecoded(s))
               /\ EndSaid(r, s, Len(stdout[s]))'
    <2>1. given[r] = s /\ (EndOf(line, r) \/ line.type = "undecodable")
      BY <1>f
    <2>2. reader[s] # "reading" => Undecoded(s)
      BY <1>0 DEF ProcessesOK, ControllerOK, Alive
    <2>3. CASE stdout' = stdout /\ reader[s] # "reading"
      <3>1. stdout[s] # <<>> /\ Head(stdout[s]).type = "undecodable"
        BY <2>2, <2>3 DEF Undecoded
      <3>2. Head(stdout[s]) = stdout[s][1] /\ Len(stdout[s]) \in Nat \ {0}
        BY <1>b, <3>1, TailOf
      <3>3. 1 \in 1 .. Len(stdout'[s]) /\ stdout'[s][1].type = "undecodable"
        BY <2>3, <3>1, <3>2
      <3> QED BY <2>1, <2>2, <3>3 DEF EndSaid, InPipe
    <2>4. CASE Len(stdout'[s]) = Len(stdout[s]) + 1 /\ stdout'[s][Len(stdout[s]) + 1] = line
      <3>1. Len(stdout'[s]) \in 1 .. Len(stdout'[s]) /\ stdout'[s][Len(stdout'[s])] = line
        BY <1>b, <2>4
      <3> QED BY <2>1, <2>2, <3>1 DEF EndSaid, InPipe, EndOf
    <2> QED BY <1>c, <2>3, <2>4
  <1>3. ASSUME NEW k \in 1 .. Len(wire), NEW t \in Sessions, t = wire[k].session
        PROVE  /\ EndTrue(wire[k].line, t)'
               /\ ~crossed' /\ Late(wire[k].line) =>
                     \E r \in Jobs : Numbered(r, t, wire[k].line.id)' /\ EndedBefore(r, k - 1)'
               /\ wire[k].line.type = "exit" =>
                     /\ reader'[t] = "ended"
                     /\ \A r \in Jobs : given'[r] = t /\ ended'[r] # "none" =>
                           Undecoded(t)' \/ EndedBefore(r, k - 1)'
    <2>1. PICK old \in Lines \cup [type : {"exit"}] : old = wire[k].line
      BY Carried DEF Lines
    <2>2. EndTrue(old, t)'
      BY <1>3, <2>1, EndTrueStays DEF Delivery, WireOK
    <2>3. ASSUME ~crossed', Late(old)
          PROVE  \E r \in Jobs : Numbered(r, t, old.id)' /\ EndedBefore(r, k - 1)'
      <3>1. PICK r \in Jobs : Numbered(r, t, old.id) /\ EndedBefore(r, k - 1)
        BY <1>3, <2>1, <2>3 DEF Delivery, WireOK
      <3>2. Numbered(r, t, old.id)'
        BY <3>1, NumberStays
      <3> QED BY <1>e, <3>1, <3>2
    <2>4. ASSUME old.type = "exit" PROVE reader'[t] = "ended" /\ reader[t] = "ended"
      BY <1>3, <2>1, <2>4 DEF Delivery, WireOK
    <2>5. ASSUME old.type = "exit", NEW r \in Jobs, given'[r] = t, ended'[r] # "none"
          PROVE  Undecoded(t)' \/ EndedBefore(r, k - 1)'
      <3>1. CASE ended[r] = "none"
        <4>1. t = s /\ Undecoded(s)
          BY <1>f, <2>4, <2>5, <3>1
        <4> QED BY <1>a, <4>1
      <3>2. CASE ended[r] # "none"
        <4>1. Undecoded(t) \/ EndedBefore(r, k - 1)
          BY <1>3, <2>1, <2>5, <3>2 DEF Delivery, WireOK
        <4> QED BY <1>a, <1>e, <4>1
      <3> QED BY <3>1, <3>2
    <2> QED BY <2>1, <2>2, <2>3, <2>4, <2>5 DEF EndTrue
  <1>4. WireOK'
    BY <1>3, Carried DEF WireOK, Late
  <1>5. ASSUME NEW r \in Jobs, ended'[r] # "none"
        PROVE  EndSaid(r, given[r], Len(stdout[given[r]]))'
    <2>1. CASE ended[r] = "none"
      BY <1>f, <1>5, <2>1
    <2>2. CASE ended[r] # "none"
      <3>1. PICK t \in Sessions : t = given[r]
        BY <2>2, EndedGiven
      <3>2. EndSaid(r, t, Len(stdout[t])) /\ Len(stdout[t]) \in Int
        BY <1>b, <2>2, <3>1 DEF Delivery, EndsSaid
      <3>3. EndSaid(r, t, Len(stdout[t]))'
        <4>1. EndedBefore(r, Len(wire)) => EndedBefore(r, Len(wire))'
          BY DEF EndedBefore, OnWire
        <4>2. InPipe(r, t, Len(stdout[t])) => InPipe(r, t, Len(stdout[t]))'
          <5>1. \A j \in 1 .. Len(stdout[t]) : j \in 1 .. Len(stdout'[t]) /\ stdout'[t][j] = stdout[t][j]
            BY <1>b, <1>c
          <5> QED BY <5>1 DEF InPipe
        <4> QED BY <3>2, <4>1, <4>2 DEF EndSaid
      <3> QED BY <3>1, <3>3
    <2> QED BY <2>1, <2>2
  <1>6. EndsSaid'
    BY <1>5 DEF EndsSaid
  <1> QED BY <1>2, <1>4, <1>6 DEF Delivery

\* The reader of s takes the first line: what it was, or will be, is now on the wire.
LEMMA DispatchStep ==
    ASSUME IInv, Delivery, Stays, [Next]_vars, NEW s \in Sessions, DispatchLine(s)
    PROVE  Delivery'
  <1> USE DEF controller, calls, work, engine, delivery, client, faults
  <1>0. LinesOK
    BY DEF IInv
  <1>a. \A t \in Sessions : Undecoded(t) => Undecoded(t)'
    BY BadLineStays
  <1>b. /\ \A t \in Sessions : stdout[t] \in Seq(Lines) /\ Len(stdout[t]) \in Nat
        /\ wire \in Seq(Events) /\ Len(wire) \in Nat
    BY <1>0, LenProperties DEF LinesOK
  <1>c. UNCHANGED <<reader, finished, given, ended, crossed, job_id>>
    BY DEF DispatchLine
  <1>1. PICK line \in Lines : /\ line = Head(stdout[s]) /\ line = stdout[s][1]
                              /\ line.type # "undecodable" /\ Len(stdout[s]) \in Nat \ {0}
    BY <1>b, TailOf DEF DispatchLine, Undecoded
  <1>2. /\ \A t \in Sessions \ {s} : stdout'[t] = stdout[t]
        /\ stdout'[s] = Tail(stdout[s]) /\ Len(stdout'[s]) = Len(stdout[s]) - 1
        /\ \A k \in 1 .. Len(stdout'[s]) :
              k + 1 \in 1 .. Len(stdout[s]) /\ stdout'[s][k] = stdout[s][k + 1]
    <2>1. stdout' = [stdout EXCEPT ![s] = Tail(@)] /\ stdout[s] # <<>>
      BY DEF DispatchLine
    <2>2. /\ \A t \in Sessions \ {s} : stdout'[t] = stdout[t]
          /\ stdout'[s] = Tail(stdout[s])
      BY <1>0, <2>1 DEF LinesOK
    <2>3. Len(Tail(stdout[s])) = Len(stdout[s]) - 1
      BY <1>b, <2>1, HeadTailProperties
    <2>4. \A k \in 1 .. Len(Tail(stdout[s])) :
              k + 1 \in 1 .. Len(stdout[s]) /\ Tail(stdout[s])[k] = stdout[s][k + 1]
      BY <1>b, <2>1, TailOf
    <2> QED BY <2>2, <2>3, <2>4
  <1>3. \/ line.type = "answer" /\ wire' = wire
        \/ wire' = Append(wire, [session |-> s, line |-> line])
    BY <1>1 DEF DispatchLine
  <1>4. /\ Len(wire) <= Len(wire') /\ Len(wire') \in Nat
        /\ \A k \in 1 .. Len(wire) : wire'[k] = wire[k]
        /\ \/ line.type = "answer" /\ wire' = wire
           \/ /\ Len(wire') = Len(wire) + 1
              /\ wire'[Len(wire) + 1] = [session |-> s, line |-> line]
    BY <1>b, <1>3, AppendProperties
  <1>5. \A r \in Jobs, n \in Int : n <= Len(wire) /\ EndedBefore(r, n) => EndedBefore(r, n)'
    BY <1>c, <1>4 DEF EndedBefore, OnWire
  <1>6. ASSUME NEW r \in Jobs, NEW n \in Nat, n < Len(stdout[s]), EndSaid(r, s, n + 1)
        PROVE  EndSaid(r, s, n)'
    <2>1. CASE EndedBefore(r, Len(wire))
      <3>1. r \in finished' \/ \E j \in 1 .. Len(wire) : EndOf(wire'[j].line, r)
        BY <1>c, <1>4, <2>1 DEF EndedBefore, OnWire
      <3> QED BY <1>4, <1>b, <3>1 DEF EndSaid, EndedBefore, OnWire
    <2>2. ASSUME NEW j \in 1 .. n + 1,
                 EndOf(stdout[s][j], r) \/ stdout[s][j].type = "undecodable"
          PROVE  EndSaid(r, s, n)'
      <3>1. CASE j = 1
        <4>1. EndOf(line, r)
          BY <1>1, <2>2, <3>1
        <4>2. line.type # "answer"
          BY <4>1 DEF EndOf, Ends
        <4>3. Len(wire') \in 1 .. Len(wire') /\ wire'[Len(wire')].line = line
          BY <1>4, <1>b, <4>2
        <4> QED BY <4>1, <4>3 DEF EndSaid, EndedBefore, OnWire, EndOf
      <3>2. CASE j # 1
        <4>1. j - 1 \in 1 .. n /\ j - 1 \in 1 .. Len(stdout'[s])
          BY <1>1, <1>2, <1>6, <3>2
        <4>2. stdout'[s][j - 1] = stdout[s][j]
          BY <1>2, <4>1
        <4> QED BY <2>2, <4>1, <4>2 DEF EndSaid, InPipe, EndOf
      <3> QED BY <3>1, <3>2
    <2> QED BY <1>6, <2>1, <2>2 DEF EndSaid, InPipe
  <1>7. ASSUME NEW r \in Jobs, NEW t \in Sessions \ {s}, NEW n, EndSaid(r, t, n)
        PROVE  EndSaid(r, t, n)'
    <2>1. EndedBefore(r, Len(wire)) => EndedBefore(r, Len(wire))'
      <3>1. EndedBefore(r, Len(wire)) =>
               r \in finished' \/ \E j \in 1 .. Len(wire) : EndOf(wire'[j].line, r)
        BY <1>c, <1>4 DEF EndedBefore, OnWire
      <3> QED BY <1>4, <1>b, <3>1 DEF EndedBefore, OnWire
    <2> QED BY <1>2, <1>7, <2>1 DEF EndSaid, InPipe
  <1>8. ASSUME NEW t \in Sessions, NEW k \in 1 .. Len(stdout'[t])
        PROVE  /\ EndTrue(stdout[t][k], t)'
               /\ ~crossed' /\ Late(stdout'[t][k]) =>
                     \E r \in Jobs : Numbered(r, t, stdout[t][k].id)' /\ EndSaid(r, t, k - 1)'
    <2>1. CASE t = s
      <3>1. PICK old \in Lines : old = stdout[s][k + 1] /\ old = stdout'[s][k]
        BY <1>2, <2>1, Carried
      <3>2. EndTrue(old, t)'
        BY <1>2, <2>1, <3>1, EndTrueStays DEF Delivery, PipeOK
      <3>3. ASSUME ~crossed', Late(old)
            PROVE  \E r \in Jobs : Numbered(r, t, old.id)' /\ EndSaid(r, t, k - 1)'
        <4>1. k + 1 \in 1 .. Len(stdout[s]) /\ (k + 1) - 1 = (k - 1) + 1
              /\ k - 1 \in Nat /\ k - 1 < Len(stdout[s])
          <5>1. k \in 1 .. Len(stdout[s]) - 1 /\ Len(stdout[s]) \in Nat
            BY <1>1, <1>2, <2>1
          <5> QED BY <5>1
        <4>2. PICK r \in Jobs : Numbered(r, t, old.id) /\ EndSaid(r, t, (k + 1) - 1)
          BY <1>c, <2>1, <3>1, <3>3, <4>1 DEF Delivery, PipeOK
        <4>3. Numbered(r, t, old.id)'
          BY <4>2, NumberStays
        <4> QED BY <1>6, <2>1, <4>1, <4>2, <4>3
      <3> QED BY <2>1, <3>1, <3>2, <3>3 DEF EndTrue, Numbered
    <2>2. CASE t # s
      <3>1. PICK old \in Lines : old = stdout[t][k] /\ old = stdout'[t][k]
        BY <1>2, <2>2, Carried
      <3>2. EndTrue(old, t)'
        BY <1>2, <2>2, <3>1, EndTrueStays DEF Delivery, PipeOK
      <3>3. ASSUME ~crossed', Late(old)
            PROVE  \E r \in Jobs : Numbered(r, t, old.id)' /\ EndSaid(r, t, k - 1)'
        <4>1. PICK r \in Jobs : Numbered(r, t, old.id) /\ EndSaid(r, t, k - 1)
          BY <1>c, <1>2, <2>2, <3>1, <3>3 DEF Delivery, PipeOK
        <4>2. Numbered(r, t, old.id)'
          BY <4>1, NumberStays
        <4> QED BY <1>7, <2>2, <4>1, <4>2
      <3> QED BY <3>1, <3>2, <3>3 DEF EndTrue, Numbered
    <2> QED BY <2>1, <2>2
  <1>9. PipeOK'
    BY <1>8 DEF PipeOK, Late
  <1>10. ASSUME NEW k \in 1 .. Len(wire'), NEW t \in Sessions, t = wire'[k].session
         PROVE  /\ EndTrue(wire[k].line, t)'
                /\ ~crossed' /\ Late(wire'[k].line) =>
                     \E r \in Jobs : Numbered(r, t, wire[k].line.id)' /\ EndedBefore(r, k - 1)'
                /\ wire'[k].line.type = "exit" =>
                     /\ reader'[t] = "ended"
                     /\ \A r \in Jobs : given'[r] = t /\ ended'[r] # "none" =>
                           Undecoded(t)' \/ EndedBefore(r, k - 1)'
    <2>1. CASE k \in 1 .. Len(wire)
      <3>1. PICK old \in Lines \cup [type : {"exit"}] : old = wire[k].line /\ old = wire'[k].line
        BY <1>4, <2>1, Carried DEF Lines
      <3>2. t = wire[k].session /\ k - 1 \in Int /\ k - 1 <= Len(wire)
        BY <1>4, <1>10, <1>b, <2>1
      <3>3. EndTrue(old, t)'
        BY <2>1, <3>1, <3>2, EndTrueStays DEF Delivery, WireOK
      <3>4. ASSUME ~crossed', Late(old)
            PROVE  \E r \in Jobs : Numbered(r, t, old.id)' /\ EndedBefore(r, k - 1)'
        <4>1. PICK r \in Jobs : Numbered(r, t, old.id) /\ EndedBefore(r, k - 1)
          BY <1>c, <2>1, <3>1, <3>2, <3>4 DEF Delivery, WireOK
        <4>2. Numbered(r, t, old.id)'
          BY <4>1, NumberStays
        <4> QED BY <1>5, <3>2, <4>1, <4>2
      <3>5. old.type = "exit" => reader'[t] = "ended"
        BY <1>c, <2>1, <3>1, <3>2 DEF Delivery, WireOK
      <3>6. ASSUME old.type = "exit", NEW r \in Jobs, given'[r] = t, ended'[r] # "none"
            PROVE  Undecoded(t)' \/ EndedBefore(r, k - 1)'
        <4>1. Undecoded(t) \/ EndedBefore(r, k - 1)
          BY <1>c, <2>1, <3>1, <3>2, <3>6 DEF Delivery, WireOK
        <4> QED BY <1>5, <1>a, <3>2, <4>1
      <3> QED BY <3>1, <3>3, <3>4, <3>5, <3>6 DEF EndTrue, Numbered
    <2>2. CASE k \notin 1 .. Len(wire)
      <3>1. k = Len(wire) + 1 /\ t = s /\ wire'[k].line = line
        BY <1>4, <1>10, <1>b, <2>2
      <3>2. 1 \in 1 .. Len(stdout[s])
        BY <1>1
      <3>3. EndTrue(line, s)'
        BY <1>1, <3>2, EndTrueStays DEF Delivery, PipeOK
      <3>4. ASSUME ~crossed', Late(line)
            PROVE  \E r \in Jobs : Numbered(r, s, line.id)' /\ EndedBefore(r, k - 1)'
        <4>1. PICK r \in Jobs : Numbered(r, s, line.id) /\ EndSaid(r, s, 1 - 1)
          BY <1>1, <1>c, <3>2, <3>4 DEF Delivery, PipeOK
        <4>2. EndedBefore(r, Len(wire)) /\ k - 1 = Len(wire)
          BY <1>b, <3>1, <4>1 DEF EndSaid, InPipe
        <4>3. Numbered(r, s, line.id)'
          BY <4>1, NumberStays
        <4>4. EndedBefore(r, k - 1) /\ k - 1 \in Int /\ k - 1 <= Len(wire)
          BY <1>b, <4>2
        <4> QED BY <1>5, <4>3, <4>4
      <3>5. line.type # "exit"
        BY DEF Lines, JobLines, Ends
      <3> QED BY <3>1, <3>3, <3>4, <3>5 DEF EndTrue, Numbered
    <2> QED BY <2>1, <2>2
  <1>11. \A k \in 1 .. Len(wire') : wire'[k].session \in Sessions
    BY <1>4, <1>b, Carried
  <1>12. WireOK'
    BY <1>10, <1>11 DEF WireOK, Late
  <1>13. ASSUME NEW r \in Jobs, ended'[r] # "none"
         PROVE  EndSaid(r, given[r], Len(stdout[given[r]]))'
    <2>1. PICK t \in Sessions : t = given[r]
      BY <1>13, <1>c, EndedGiven
    <2>2. EndSaid(r, t, Len(stdout[t]))
      BY <1>13, <1>c, <2>1 DEF Delivery, EndsSaid
    <2>3. CASE t = s
      <3>a. Len(stdout'[s]) = Len(stdout[s]) - 1 /\ Len(stdout[s]) \in Nat \ {0}
        BY <1>1, <1>2
      <3>b. PICK n : n = Len(stdout'[s])
        OBVIOUS
      <3>1. n \in Nat /\ n < Len(stdout[s]) /\ n + 1 = Len(stdout[s])
        BY <3>a, <3>b
      <3>2. EndSaid(r, s, n)'
        BY <1>6, <2>2, <2>3, <3>1
      <3> QED BY <1>c, <2>1, <2>3, <3>b, <3>2
    <2>4. CASE t # s
      <3>1. PICK n : n = Len(stdout[t]) /\ n = Len(stdout'[t])
        BY <1>2, <2>4
      <3>2. EndSaid(r, t, n)'
        BY <1>7, <2>2, <2>4, <3>1
      <3> QED BY <1>c, <2>1, <3>1, <3>2
    <2> QED BY <2>3, <2>4
  <1>14. EndsSaid'
    BY <1>13 DEF EndsSaid
  <1> QED BY <1>9, <1>12, <1>14 DEF Delivery

\* The reader's last event, after every end it has read.
LEMMA ReportExitStep ==
    ASSUME IInv, ProcessesOK, Delivery, Stays, [Next]_vars, NEW s \in Sessions, ReportExit(s)
    PROVE  Delivery'
  <1> USE DEF controller, calls, work, engine, delivery, client, faults
  <1> DEFINE event == [session |-> s, line |-> [type |-> "exit"]]
  <1>0. wire \in Seq(Events) /\ Len(wire) \in Nat /\ reader \in [Sessions -> {"none", "reading", "exiting", "ended"}]
    BY LenProperties DEF IInv, LinesOK, ControllerOK
  <1>c. UNCHANGED <<stdout, finished, given, ended, crossed, job_id>>
    BY DEF ReportExit
  <1>1. /\ wire' = Append(wire, event) /\ Len(wire') = Len(wire) + 1
        /\ \A k \in 1 .. Len(wire) : wire'[k] = wire[k]
        /\ wire'[Len(wire) + 1] = event
    <2>1. wire' = Append(wire, event)
      BY DEF ReportExit
    <2> HIDE DEF event
    <2> QED BY <1>0, <2>1, AppendProperties
  <1>2. event.session = s /\ event.line.type = "exit"
    OBVIOUS
  <1> HIDE DEF event
  <1>3. \A t \in Sessions : reader[t] = "ended" => reader'[t] = "ended"
    BY <1>0 DEF ReportExit
  <1>4. reader'[s] = "ended" /\ reader[s] = "exiting"
    BY <1>0 DEF ReportExit
  <1>5. \A r \in Jobs, n \in Int : n <= Len(wire) /\ EndedBefore(r, n) => EndedBefore(r, n)'
    BY <1>c, <1>1 DEF EndedBefore, OnWire
  <1>6. ASSUME NEW r \in Jobs PROVE EndedBefore(r, Len(wire)) => EndedBefore(r, Len(wire))'
    <2>1. EndedBefore(r, Len(wire)) =>
             r \in finished' \/ \E j \in 1 .. Len(wire) : EndOf(wire'[j].line, r)
      BY <1>c, <1>1 DEF EndedBefore, OnWire
    <2> QED BY <1>0, <1>1, <2>1 DEF EndedBefore, OnWire
  <1>7. \A r \in Jobs, t \in Sessions : \A n : EndSaid(r, t, n) => EndSaid(r, t, n)'
    BY <1>6, <1>c DEF EndSaid, InPipe
  <1>8. PipeOK'
    BY <1>7, <1>c DEF Delivery, PipeOK, EndTrue, Late, Numbered
  <1>9. EndsSaid'
    <2>1. ASSUME NEW r \in Jobs, ended'[r] # "none"
          PROVE  EndSaid(r, given[r], Len(stdout[given[r]]))'
      <3>1. PICK t \in Sessions : t = given[r]
        BY <1>c, <2>1, EndedGiven
      <3>2. PICK n : n = Len(stdout[t])
        OBVIOUS
      <3>3. EndSaid(r, t, n)
        BY <1>c, <2>1, <3>1, <3>2 DEF Delivery, EndsSaid
      <3>4. EndSaid(r, t, n)'
        BY <1>7, <3>3
      <3> QED BY <1>c, <3>1, <3>2, <3>4
    <2> QED BY <2>1 DEF EndsSaid
  <1>11. ASSUME NEW r \in Jobs, given'[r] = s, ended'[r] # "none"
         PROVE  Undecoded(s)' \/ (\A n \in Int : n = Len(wire) => EndedBefore(r, n)')
    <2>1. EndSaid(r, s, Len(stdout[s]))
      BY <1>11, <1>c DEF Delivery, EndsSaid
    <2>2. Undecoded(s) \/ Len(stdout[s]) = 0
      BY <1>4, EmptySeq DEF ProcessesOK
    <2>3. CASE Undecoded(s)
      BY <1>c, <2>3 DEF Undecoded
    <2>4. CASE Len(stdout[s]) = 0
      BY <1>5, <1>0, <2>1, <2>4 DEF EndSaid, InPipe
    <2> QED BY <2>2, <2>3, <2>4
  <1>12. ASSUME NEW k \in 1 .. Len(wire'), NEW t \in Sessions, t = wire'[k].session
         PROVE  /\ EndTrue(wire[k].line, t)'
                /\ ~crossed' /\ Late(wire'[k].line) =>
                     \E r \in Jobs : Numbered(r, t, wire[k].line.id)' /\ EndedBefore(r, k - 1)'
                /\ wire'[k].line.type = "exit" =>
                     /\ reader'[t] = "ended"
                     /\ \A r \in Jobs : given'[r] = t /\ ended'[r] # "none" =>
                           Undecoded(t)' \/ EndedBefore(r, k - 1)'
    <2>1. CASE k \in 1 .. Len(wire)
      <3>1. k - 1 \in Int /\ k - 1 <= Len(wire) /\ wire'[k] = wire[k]
        BY <1>0, <1>1, <2>1
      <3>2. Undecoded(t)' = Undecoded(t)
        BY <1>c DEF Undecoded
      <3>3. EndTrue(wire[k].line, t)'
        BY <1>12, <1>c, <2>1, <3>1 DEF Delivery, WireOK, EndTrue
      <3>4. ASSUME ~crossed', Late(wire'[k].line)
            PROVE  \E r \in Jobs : Numbered(r, t, wire[k].line.id)' /\ EndedBefore(r, k - 1)'
        <4>1. PICK r \in Jobs : Numbered(r, t, wire[k].line.id) /\ EndedBefore(r, k - 1)
          BY <1>12, <1>c, <2>1, <3>1, <3>4 DEF Delivery, WireOK
        <4> QED BY <1>5, <1>c, <3>1, <4>1 DEF Numbered
      <3>5. wire'[k].line.type = "exit" =>
                     /\ reader'[t] = "ended"
                     /\ \A r \in Jobs : given'[r] = t /\ ended'[r] # "none" =>
                           Undecoded(t)' \/ EndedBefore(r, k - 1)'
        BY <1>12, <1>3, <1>5, <1>c, <2>1, <3>1, <3>2 DEF Delivery, WireOK
      <3> QED BY <3>3, <3>4, <3>5
    <2>2. CASE k \notin 1 .. Len(wire)
      <3>1. k = Len(wire) + 1 /\ k - 1 = Len(wire) /\ wire'[k] = event /\ t = s
        BY <1>0, <1>1, <1>12, <1>2, <2>2
      <3>2. event.line.type \notin Ends
        BY <1>2 DEF Ends
      <3>3. \A r \in Jobs : given'[r] = s /\ ended'[r] # "none" =>
               Undecoded(s)' \/ EndedBefore(r, k - 1)'
        <4>0. Len(wire) \in Int /\ k - 1 = Len(wire)
          BY <1>0, <3>1
        <4>1. PICK n : n = Len(wire) /\ n = k - 1
          BY <4>0
        <4> QED BY <1>11, <4>0, <4>1
      <3>4. wire'[k].line.type = "exit" /\ wire'[k].line.type \notin Ends
        BY <1>2, <3>1, <3>2
      <3>5. EndTrue(wire[k].line, t)' /\ ~Late(wire'[k].line)
        BY <3>4 DEF EndTrue, Late
      <3> QED BY <1>4, <3>1, <3>3, <3>5
    <2> QED BY <2>1, <2>2
  <1>13. \A k \in 1 .. Len(wire') : wire'[k].session \in Sessions
    BY <1>0, <1>1, <1>2, Carried
  <1>14. WireOK'
    BY <1>12, <1>13 DEF WireOK, Late
  <1> QED BY <1>8, <1>9, <1>14 DEF Delivery

\* The client reads an event: an end it reads is now among the finished jobs.
LEMMA HandleEventStep ==
    ASSUME IInv, CallsOK, Delivery, Stays, [Next]_vars, HandleEvent
    PROVE  Delivery'
  <1> USE DEF controller, calls, work, engine, delivery, client, faults
  <1>0. wire \in Seq(Events) /\ wire # <<>> /\ wire' = Tail(wire)
    BY DEF IInv, LinesOK, HandleEvent
  <1>c. UNCHANGED <<stdout, given, ended, reader, job_id>>
    BY DEF HandleEvent
  <1>a. \A s : Undecoded(s)' = Undecoded(s)
    BY <1>c DEF Undecoded
  <1>1. /\ Len(wire) \in Nat \ {0} /\ Head(wire) = wire[1] /\ Len(wire') = Len(wire) - 1
        /\ \A k \in 1 .. Len(wire') : k + 1 \in 1 .. Len(wire) /\ wire'[k] = wire[k + 1]
        /\ 1 \in 1 .. Len(wire)
    BY <1>0, TailOf, HeadTailProperties
  <1>2. ASSUME NEW r \in Jobs, EndOf(wire[1].line, r) PROVE r \in finished'
    <2>1. PICK line : line = wire[1].line /\ line.type \in Ends /\ line.request = r
      BY <1>2 DEF EndOf
    <2>2. PICK s \in Sessions : s = wire[1].session
      BY <1>1, Carried
    <2>3. r # None /\ s # None
      BY NamesDistinct DEF Sessions
    <2>4. given[r] = s
      BY <1>1, <2>1, <2>2, <2>3 DEF Delivery, WireOK, EndTrue
    <2>5. r \in jobsByRequest \cup finished
      BY <2>3, <2>4 DEF IInv, WorkOK, CallsOK
    <2>6. line = Head(wire).line /\ line.type \notin {"accepted", "exit"}
      BY <1>1, <2>1 DEF Ends
    <2>7. HandleTerminal(line)
      BY <2>6 DEF HandleEvent, HandleAccepted, HandleExit
    <2>8. r \in jobsByRequest => Resolved(line) = {r}
      BY <2>1 DEF Resolved
    <2> QED BY <2>5, <2>7, <2>8 DEF HandleTerminal, Stays
  <1>3. ASSUME NEW r \in Jobs, NEW n \in Int, n <= Len(wire), EndedBefore(r, n)
        PROVE  EndedBefore(r, n - 1)'
    <2>1. ASSUME NEW j \in 1 .. n, EndOf(wire[j].line, r), j # 1
          PROVE  OnWire(r, n - 1)'
      <3>1. j - 1 \in 1 .. n - 1 /\ j - 1 \in 1 .. Len(wire') /\ (j - 1) + 1 = j
        BY <1>1, <1>3, <2>1
      <3>2. wire'[j - 1] = wire[j]
        BY <1>1, <3>1
      <3> QED BY <2>1, <3>1, <3>2 DEF OnWire, EndOf
    <2> QED BY <1>2, <1>3, <2>1 DEF EndedBefore, OnWire, Stays
  <1>4. ASSUME NEW r \in Jobs, NEW t \in Sessions, NEW n, EndSaid(r, t, n)
        PROVE  EndSaid(r, t, n)'
    <2>1. ASSUME EndedBefore(r, Len(wire)) PROVE EndedBefore(r, Len(wire))'
      <3>1. EndedBefore(r, Len(wire) - 1)'
          \/ (\A m \in Int : m = Len(wire) - 1 => EndedBefore(r, m)')
        BY <1>1, <1>3, <2>1
      <3>2. PICK m \in Int : m = Len(wire) - 1 /\ m = Len(wire')
        BY <1>1
      <3>3. EndedBefore(r, m)'
        BY <1>1, <1>3, <2>1, <3>2
      <3> QED BY <3>2, <3>3
    <2> QED BY <1>4, <1>c, <2>1 DEF EndSaid, InPipe
  <1>5. PipeOK'
    <2>1. ASSUME NEW s \in Sessions, NEW k \in 1 .. Len(stdout[s])
          PROVE  /\ EndTrue(stdout[s][k], s)'
                 /\ ~crossed' /\ Late(stdout[s][k]) =>
                       \E r \in Jobs : Numbered(r, s, stdout[s][k].id)' /\ EndSaid(r, s, k - 1)'
      <3>1. EndTrue(stdout[s][k], s)'
        BY <1>c DEF Delivery, PipeOK, EndTrue
      <3>2. ASSUME ~crossed', Late(stdout[s][k])
            PROVE  \E r \in Jobs : Numbered(r, s, stdout[s][k].id)' /\ EndSaid(r, s, k - 1)'
        <4>1. PICK r \in Jobs : Numbered(r, s, stdout[s][k].id) /\ EndSaid(r, s, k - 1)
          BY <3>2 DEF Delivery, PipeOK, Stays
        <4> QED BY <1>4, <1>c, <4>1 DEF Numbered
      <3> QED BY <3>1, <3>2
    <2> QED BY <1>c, <2>1 DEF PipeOK, Late
  <1>6. EndsSaid'
    <2>1. ASSUME NEW r \in Jobs, ended'[r] # "none"
          PROVE  EndSaid(r, given[r], Len(stdout[given[r]]))'
      <3>1. PICK t \in Sessions : t = given[r]
        BY <1>c, <2>1, EndedGiven
      <3>2. PICK n : n = Len(stdout[t])
        OBVIOUS
      <3>3. EndSaid(r, t, n)
        BY <1>c, <2>1, <3>1, <3>2 DEF Delivery, EndsSaid
      <3>4. EndSaid(r, t, n)'
        BY <1>4, <3>3
      <3> QED BY <1>c, <3>1, <3>2, <3>4
    <2> QED BY <2>1 DEF EndsSaid
  <1>7. ASSUME NEW k \in 1 .. Len(wire'), NEW t \in Sessions, t = wire'[k].session
        PROVE  /\ EndTrue(wire[k].line, t)'
               /\ ~crossed' /\ Late(wire'[k].line) =>
                    \E r \in Jobs : Numbered(r, t, wire[k].line.id)' /\ EndedBefore(r, k - 1)'
               /\ wire'[k].line.type = "exit" =>
                    /\ reader'[t] = "ended"
                    /\ \A r \in Jobs : given'[r] = t /\ ended'[r] # "none" =>
                          Undecoded(t)' \/ EndedBefore(r, k - 1)'
    <2>1. PICK i \in 1 .. Len(wire) : /\ i = k + 1 /\ wire'[k] = wire[i] /\ i - 1 \in Int
                                      /\ i - 1 <= Len(wire) /\ (i - 1) - 1 = k - 1
      BY <1>1
    <2>2. \A r \in Jobs : EndedBefore(r, i - 1) => EndedBefore(r, k - 1)'
      <3> SUFFICES ASSUME NEW r \in Jobs, EndedBefore(r, i - 1) PROVE EndedBefore(r, k - 1)'
        OBVIOUS
      <3>1. EndedBefore(r, k)
        BY <2>1
      <3> QED BY <1>1, <1>3, <2>1, <3>1
    <2>3. EndTrue(wire[k].line, t)'
      BY <1>7, <1>c, <2>1 DEF Delivery, WireOK, EndTrue
    <2>4. ASSUME ~crossed', Late(wire'[k].line)
          PROVE  \E r \in Jobs : Numbered(r, t, wire[k].line.id)' /\ EndedBefore(r, k - 1)'
      <3>1. PICK r \in Jobs : Numbered(r, t, wire[i].line.id) /\ EndedBefore(r, i - 1)
        BY <1>7, <2>1, <2>4 DEF Delivery, WireOK, Stays
      <3> QED BY <1>c, <2>1, <2>2, <3>1 DEF Numbered
    <2>5. wire'[k].line.type = "exit" =>
                    /\ reader'[t] = "ended"
                    /\ \A r \in Jobs : given'[r] = t /\ ended'[r] # "none" =>
                          Undecoded(t)' \/ EndedBefore(r, k - 1)'
      BY <1>7, <1>a, <1>c, <2>1, <2>2 DEF Delivery, WireOK
    <2> QED BY <2>3, <2>4, <2>5
  <1>8. \A k \in 1 .. Len(wire') : wire'[k].session \in Sessions
    BY <1>1, Carried
  <1>9. WireOK'
    BY <1>7, <1>8 DEF WireOK, Late
  <1> QED BY <1>5, <1>6, <1>9 DEF Delivery

LEMMA ReadCommandDelivers ==
    ASSUME IInv, ProcessesOK, CommandsOK, Delivery, Stays, [Next]_vars,
           NEW s \in Sessions, ReadCommand(s)
    PROVE  Delivery'
  <1> USE DEF controller, calls, work, engine, delivery, client, faults
  <1>0. WorkOK /\ ControllerOK
    BY DEF IInv
  <1>a. UNCHANGED <<wire, reader, finished, given, crossed>> /\ Alive(s)
    BY DEF ReadCommand
  <1>b. PICK c : c = Head(stdin[s])
    OBVIOUS
  <1>c. PICK n : n = NextJob(s)
    OBVIOUS
  <1>1. /\ c \in Commands /\ c = stdin[s][1] /\ 1 \in 1 .. Len(stdin[s])
    BY <1>0, <1>b, TailOf DEF WorkOK, ReadCommand
  <1>2. ASSUME NEW line \in Lines, Say(s, line), UNCHANGED ended, line.type \notin Ends \/ line.id = 0,
               line.type \in Ends => line.request = None
        PROVE  Delivery'
    <2>1. EndTrue(line, s)' /\ ~Late(line)
      BY <1>2 DEF EndTrue, Late
    <2> QED BY <1>2, <1>a, <2>1, SayStep
  <1>3. CASE c.type \in {"hello", "capabilities"} /\ Say(s, [type |-> "answer", request |-> c.request])
             /\ UNCHANGED ended
    <2>1. [type |-> "answer", request |-> c.request] \in Lines
      BY <1>1, <1>3 DEF Commands, Lines
    <2> QED BY <1>2, <1>3, <2>1 DEF Ends
  <1>4. CASE c.type = "analyze" /\ Say(s, [type |-> "accepted", request |-> c.job, id |-> n])
             /\ UNCHANGED ended
    <2>1. [type |-> "accepted", request |-> c.job, id |-> n] \in Lines
      BY <1>0, <1>b, <1>c, <1>4, FirstGives DEF ReadCommand, Lines, JobLines
    <2> QED BY <1>2, <1>4, <2>1 DEF Ends
  <1>5. CASE c.type = "analyze" /\ Say(s, [type |-> "error", request |-> c.job, id |-> 0])
             /\ ended' = [ended EXCEPT ![c.job] = "error"]
    <2> DEFINE line == [type |-> "error", request |-> c.job, id |-> 0]
    <2>1. line \in Lines /\ line.type = "error" /\ line.request = c.job /\ line.id = 0
      BY <1>1, <1>5 DEF Commands, Lines, JobLines, Ends
    <2>2. c.job \in Jobs /\ given[c.job] = s /\ ended[c.job] = "none"
      BY <1>0, <1>b, <1>5, FirstGives DEF ReadCommand
    <2>3. Say(s, line)
      BY <1>5
    <2> HIDE DEF line
    <2>4. ended' \in [Jobs -> Ends \cup {"none"}] /\ ended'[c.job] = "error"
          /\ \A r \in Jobs \ {c.job} : ended'[r] = ended[r]
      BY <1>0, <1>5, <2>2 DEF WorkOK, Ends
    <2>5. EndTrue(line, s)' /\ ~Late(line)
      BY <1>a, <2>1, <2>2, <2>4, NamesDistinct DEF EndTrue, Late
    <2>6. \A r \in Jobs : ended[r] = "none" /\ ended'[r] # "none" => given[r] = s /\ EndOf(line, r)
      BY <2>1, <2>2, <2>4 DEF EndOf, Ends
    <2> QED BY <1>a, <2>1, <2>3, <2>5, <2>6, SayStep
  <1>6. CASE c.type = "cancel" /\ {r \in Open(s) : job_id[r] = c.id} = {} /\ UNCHANGED ended
             /\ Say(s, [type |-> "cancelled", request |-> None, id |-> c.id])
    <2> DEFINE line == [type |-> "cancelled", request |-> None, id |-> c.id]
    <2>1. line \in Lines /\ line.type = "cancelled" /\ line.request = None /\ line.id = c.id
      BY <1>1, <1>6 DEF Commands, Lines, JobLines, Ends
    <2>3. Say(s, line)
      BY <1>6
    <2> HIDE DEF line
    <2>4. EndTrue(line, s)'
      BY <2>1 DEF EndTrue
    <2>5. ASSUME ~crossed, Late(line)
          PROVE  \E r \in Jobs : Numbered(r, s, line.id) /\ EndSaid(r, s, Len(stdout[s]))
      <3>1. PICK r \in Jobs : Numbered(r, s, c.id)
        BY <1>1, <1>6, <2>5 DEF CommandsOK
      <3>2. ended[r] # "none"
        BY <1>6, <3>1 DEF Open, Numbered
      <3>3. EndSaid(r, s, Len(stdout[s]))
        BY <3>1, <3>2 DEF Delivery, EndsSaid, Numbered
      <3> QED BY <2>1, <3>1, <3>3
    <2>6. \A r \in Jobs : ~(ended[r] = "none" /\ ended'[r] # "none")
      BY <1>6
    <2> QED BY <1>a, <2>1, <2>3, <2>4, <2>5, <2>6, SayStep
  <1>7. CASE UNCHANGED ended /\ Say(s, [type |-> "error", request |-> None, id |-> 0])
    <2>1. [type |-> "error", request |-> None, id |-> 0] \in Lines
      BY DEF Lines, JobLines, Ends
    <2> QED BY <1>2, <1>7, <2>1
  <1>8. CASE UNCHANGED ended /\ SayNothing
    BY <1>8, <1>a, QuietStep DEF SayNothing
  <1>9. \/ UNCHANGED ended /\ \/ /\ c.type \in {"hello", "capabilities"}
                                 /\ Say(s, [type |-> "answer", request |-> c.request])
                              \/ /\ c.type = "analyze"
                                 /\ Say(s, [type |-> "accepted", request |-> c.job, id |-> n])
                              \/ /\ c.type = "cancel" /\ {r \in Open(s) : job_id[r] = c.id} = {}
                                 /\ Say(s, [type |-> "cancelled", request |-> None, id |-> c.id])
                              \/ Say(s, [type |-> "error", request |-> None, id |-> 0])
                              \/ SayNothing
        \/ /\ c.type = "analyze" /\ Say(s, [type |-> "error", request |-> c.job, id |-> 0])
           /\ ended' = [ended EXCEPT ![c.job] = "error"]
    BY <1>b, <1>c DEF ReadCommand
  <1> QED BY <1>3, <1>4, <1>5, <1>6, <1>7, <1>8, <1>9

LEMMA EndJobDelivers ==
    ASSUME IInv, ProcessesOK, Delivery, Stays, [Next]_vars, NEW s \in Sessions, EndJob(s)
    PROVE  Delivery'
  <1> USE DEF controller, calls, work, engine, delivery, client, faults
  <1>0. WorkOK
    BY DEF IInv
  <1>a. UNCHANGED <<wire, reader, finished, given, crossed, job_id>> /\ Alive(s)
    BY DEF EndJob
  <1>1. PICK r \in Open(s), kind \in Ends :
             /\ ended' = [ended EXCEPT ![r] = kind]
             /\ \/ Say(s, [type |-> kind, request |-> r, id |-> job_id[r]])
                \/ Say(s, [type |-> "undecodable"])
    BY DEF EndJob, Ends
  <1>2. PICK n \in {0} \cup EngineIds : n = job_id[r]
    BY <1>0 DEF Open, WorkOK
  <1>3. /\ r \in Jobs /\ given[r] = s /\ r # None
        /\ ended'[r] = kind /\ \A q \in Jobs \ {r} : ended'[q] = ended[q]
    BY <1>0, <1>1, NamesDistinct DEF Open, WorkOK
  <1>4. CASE Say(s, [type |-> kind, request |-> r, id |-> n])
    <2> DEFINE line == [type |-> kind, request |-> r, id |-> n]
    <2>1. line \in Lines /\ line.type = kind /\ line.request = r /\ line.id = n
      BY <1>3 DEF Lines, JobLines
    <2>2. Say(s, line)
      BY <1>4
    <2> HIDE DEF line
    <2>3. EndTrue(line, s)' /\ ~Late(line)
      BY <1>2, <1>3, <1>a, <2>1 DEF EndTrue, Late
    <2>4. \A q \in Jobs : ended[q] = "none" /\ ended'[q] # "none" => given[q] = s /\ EndOf(line, q)
      BY <1>3, <2>1 DEF EndOf
    <2> QED BY <1>a, <2>1, <2>2, <2>3, <2>4, SayStep
  <1>5. CASE Say(s, [type |-> "undecodable"])
    <2> DEFINE line == [type |-> "undecodable"]
    <2>1. line \in Lines /\ line.type = "undecodable"
      BY DEF Lines
    <2>2. Say(s, line)
      BY <1>5
    <2> HIDE DEF line
    <2>3. EndTrue(line, s)' /\ ~Late(line)
      BY <2>1 DEF EndTrue, Late, Ends
    <2>4. \A q \in Jobs : ended[q] = "none" /\ ended'[q] # "none" => given[q] = s
      BY <1>3
    <2> QED BY <1>a, <2>1, <2>2, <2>3, <2>4, SayStep
  <1> QED BY <1>1, <1>2, <1>4, <1>5

LEMMA DeliveryStep ==
    ASSUME IInv, ProcessesOK, CallsOK, CommandsOK, Delivery, Stays, [Next]_vars
    PROVE  Delivery'
  <1> USE DEF controller, calls, work, engine, delivery, client, faults
  <1>0. ControllerOK
    BY DEF IInv
  <1>1. ASSUME UNCHANGED <<stdout, wire, ended, reader>> PROVE Delivery'
    BY <1>1, QuietStep
  <1>2. ASSUME NEW f \in Flows, Start(f) PROVE Delivery'
    <2>1. /\ UNCHANGED <<stdout, wire, ended>> /\ reader[f] # "ended"
          /\ reader' = reader \/ reader' = [reader EXCEPT ![f] = "reading"]
      BY <1>2 DEF Start, ProcessesOK
    <2>2. \A s \in Sessions : reader[s] = "ended" => reader'[s] = "ended"
      BY <1>0, <2>1 DEF ControllerOK
    <2> QED BY <2>1, <2>2, QuietStep
  <1>3. ASSUME NEW f \in Flows, Begin(f) \/ TakeSession(f) \/ TellShutdown(f) \/ Reap(f) \/ Kill(f)
               \/ EnterCapabilities(f) \/ InsertWaiter(f) \/ WriteCommand(f) \/ ReceiveAnswer(f)
               \/ Disconnected(f) \/ TimeOut(f)
        PROVE  Delivery'
    BY <1>1, <1>3 DEF Begin, TakeSession, TellShutdown, Reap, Kill,
       EnterCapabilities, InsertWaiter, WriteCommand, ReceiveAnswer, Disconnected, TimeOut
  <1>4. ASSUME NEW r \in Jobs, Analyze(r) \/ SendCancel(r) \/ Submit(r) \/ SubmissionFails(r)
                               \/ Cancel(r)
        PROVE  Delivery'
    BY <1>1, <1>4 DEF Analyze, SendCancel, Submit, SubmissionFails, Cancel
  <1>5. ASSUME NEW s \in Sessions, ClearPending(s) PROVE Delivery'
    <2>1. UNCHANGED <<stdout, wire, ended>>
      BY <1>5 DEF ClearPending
    <2>2. \A t \in Sessions : reader[t] = "ended" => reader'[t] = "ended"
      BY <1>0, <1>5 DEF ClearPending, ControllerOK
    <2> QED BY <2>1, <2>2, QuietStep
  <1>6. ASSUME NEW s \in Sessions, Crash(s) PROVE Delivery'
    BY <1>1, <1>6 DEF Crash
  <1>7. UNCHANGED vars => Delivery'
    BY <1>1 DEF vars
  <1> QED
    BY <1>2, <1>3, <1>4, <1>5, <1>6, <1>7, ReadCommandDelivers, EndJobDelivers, DispatchStep,
       ReportExitStep, HandleEventStep DEF Next, Flow, Engine, Reader

\* What was shown stays true: a dead engine ends no job.
LEMMA ShownTrueStays ==
    ASSUME IInv, ProcessesOK, Stays, [Next]_vars, NEW r \in Jobs, NEW kind \in Shown,
           ShownTrue(r, kind)
    PROVE  ShownTrue(r, kind)'
  <1> USE DEF controller, calls, work, engine, delivery, client, faults
  <1>0. WorkOK /\ ControllerOK
    BY DEF IInv
  <1>1. call[r] = "returned" => call'[r] = "returned"
    <2>1. ASSUME NEW q \in Jobs, Analyze(q) \/ Submit(q) \/ SubmissionFails(q),
                 call[r] = "returned"
          PROVE  call'[r] = "returned"
      <3>1. call[q] # "returned" /\ \E v : call' = [call EXCEPT ![q] = v]
        BY <2>1 DEF Analyze, Submit, SubmissionFails
      <3> QED BY <1>0, <2>1, <3>1 DEF WorkOK
    <2>2. ASSUME NEW q \in Jobs, SendCancel(q) \/ Cancel(q) PROVE UNCHANGED call
      BY <2>2 DEF SendCancel, Cancel
    <2>3. ASSUME NEW f \in Flows, Begin(f) \/ Flow(f) \/ TimeOut(f) PROVE UNCHANGED call
      BY <2>3 DEF Flow, Begin, TakeSession, TellShutdown, Reap, Kill, Start,
         EnterCapabilities, InsertWaiter, WriteCommand, ReceiveAnswer, Disconnected, TimeOut
    <2>4. ASSUME NEW s \in Sessions, Engine(s) \/ Crash(s) \/ Reader(s) PROVE UNCHANGED call
      BY <2>4 DEF Engine, ReadCommand, EndJob, Crash, Reader, DispatchLine, ClearPending, ReportExit
    <2>5. HandleEvent \/ UNCHANGED vars => UNCHANGED call
      BY DEF HandleEvent, vars
    <2> QED BY <2>1, <2>2, <2>3, <2>4, <2>5 DEF Next
  <1>2. ASSUME NEW s \in Sessions, child[s] = "dead" PROVE child'[s] = "dead"
    <2>1. ASSUME NEW f \in Flows, Start(f) PROVE child'[s] = "dead"
      BY <1>0, <1>2, <2>1 DEF Start, ProcessesOK, ControllerOK
    <2>2. ASSUME \E t : child' = Killed(t) PROVE child'[s] = "dead"
      BY <1>0, <1>2, <2>2 DEF Killed, ControllerOK
    <2>3. ASSUME UNCHANGED child PROVE child'[s] = "dead"
      BY <1>2, <2>3
    <2>4. ASSUME NEW f \in Flows, Begin(f) \/ TakeSession(f) \/ TellShutdown(f) \/ Reap(f) \/ Kill(f)
               \/ EnterCapabilities(f) \/ InsertWaiter(f) \/ WriteCommand(f) \/ ReceiveAnswer(f)
               \/ Disconnected(f) \/ TimeOut(f)
          PROVE  child'[s] = "dead"
      BY <2>2, <2>3, <2>4 DEF Begin, TakeSession, TellShutdown, Reap, Kill, EnterCapabilities,
         InsertWaiter, WriteCommand, ReceiveAnswer, Disconnected, TimeOut, FailRoundtrip
    <2>5. ASSUME NEW q \in Jobs, Analyze(q) \/ SendCancel(q) \/ Submit(q) \/ SubmissionFails(q)
                                 \/ Cancel(q)
          PROVE  child'[s] = "dead"
      BY <2>3, <2>5 DEF Analyze, SendCancel, Submit, SubmissionFails, Cancel
    <2>6. ASSUME NEW t \in Sessions, Engine(t) PROVE child'[s] = "dead"
      BY <2>2, <2>3, <2>6, EngineSays DEF SaysOf, Say, SayNothing
    <2>7. ASSUME NEW t \in Sessions, Crash(t) \/ Reader(t) PROVE child'[s] = "dead"
      BY <2>2, <2>3, <2>7 DEF Crash, Reader, DispatchLine, ClearPending, ReportExit
    <2>8. HandleEvent \/ UNCHANGED vars => child'[s] = "dead"
      BY <2>3 DEF HandleEvent, vars
    <2> QED BY <2>1, <2>4, <2>5, <2>6, <2>7, <2>8 DEF Next, Flow
  <1>3. ASSUME ended'[r] # ended[r] PROVE given[r] \in Sessions /\ Alive(given[r])
    <2>1. ASSUME NEW f \in Flows, Begin(f) \/ Flow(f) \/ TimeOut(f) PROVE UNCHANGED ended
      BY <2>1 DEF Flow, Begin, TakeSession, TellShutdown, Reap, Kill, Start,
         EnterCapabilities, InsertWaiter, WriteCommand, ReceiveAnswer, Disconnected, TimeOut
    <2>2. ASSUME NEW q \in Jobs, Analyze(q) \/ SendCancel(q) \/ Submit(q) \/ SubmissionFails(q)
                                 \/ Cancel(q)
          PROVE  UNCHANGED ended
      BY <2>2 DEF Analyze, SendCancel, Submit, SubmissionFails, Cancel
    <2>3. ASSUME NEW s \in Sessions, Crash(s) \/ Reader(s) PROVE UNCHANGED ended
      BY <2>3 DEF Crash, Reader, DispatchLine, ClearPending, ReportExit
    <2>4. HandleEvent \/ UNCHANGED vars => UNCHANGED ended
      BY DEF HandleEvent, vars
    <2>5. PICK s \in Sessions : ReadCommand(s) \/ EndJob(s)
      BY <1>3, <2>1, <2>2, <2>3, <2>4 DEF Next, Engine
    <2>6. Alive(s)
      BY <2>5 DEF ReadCommand, EndJob
    <2>7. CASE EndJob(s)
      <3>1. PICK q \in Open(s) : \E v : ended' = [ended EXCEPT ![q] = v]
        BY <2>7 DEF EndJob
      <3>2. q = r
        BY <1>0, <1>3, <3>1 DEF WorkOK
      <3> QED BY <2>6, <3>2 DEF Open
    <2>8. CASE ReadCommand(s)
      <3>1. /\ Head(stdin[s]).type = "analyze"
            /\ ended' = [ended EXCEPT ![Head(stdin[s]).job] = "error"]
        BY <1>3, <2>8 DEF ReadCommand
      <3>2. Head(stdin[s]).job = r
        BY <1>0, <1>3, <3>1 DEF WorkOK
      <3>3. given[r] = s
        BY <1>0, <2>8, <3>1, <3>2, FirstGives DEF ReadCommand
      <3> QED BY <2>6, <3>3
    <2> QED BY <2>5, <2>7, <2>8
  <1>4. CASE kind = "submit_failed"
    BY <1>1, <1>4 DEF ShownTrue
  <1>5. CASE kind = "worker_exit"
    <2>1. PICK s \in Sessions : s = given[r] /\ given'[r] = s /\ s # None
      BY <1>0, <1>5 DEF ShownTrue, WorkOK, Stays
    <2>2. CASE Undecoded(s)
      BY <1>5, <2>1, <2>2, BadLineStays DEF ShownTrue
    <2>3. CASE ended[r] = "none" /\ child[s] = "dead"
      <3>1. ended'[r] = "none" /\ child'[s] = "dead"
        BY <1>2, <1>3, <2>1, <2>3 DEF Alive
      <3> QED BY <1>5, <2>1, <3>1 DEF ShownTrue
    <2> QED BY <1>5, <2>1, <2>2, <2>3 DEF ShownTrue
  <1>6. CASE kind \in Ends
    BY <1>6 DEF ShownTrue, Stays, Ends
  <1> QED BY <1>4, <1>5, <1>6 DEF Shown

\* The event of an end is about the job it ends, or a job of another session is met.
LEMMA TerminalTrue ==
    ASSUME IInv, NumbersOK, Delivery, NEW line, wire # <<>>, line = Head(wire).line,
           NEW s, s = Head(wire).session, HandleTerminal(line), ~crossed,
           NEW r \in Resolved(line), given[r] = s
    PROVE  r \in Jobs /\ line.type = ended[r]
  <1>0. ClientOK /\ wire \in Seq(Events)
    BY DEF IInv, LinesOK
  <1>1. /\ 1 \in 1 .. Len(wire) /\ Head(wire) = wire[1]
        /\ wire[1] \in Events
    BY <1>0, TailOf
  <1>2. s \in Sessions /\ line \in JobLines /\ line.type \in Ends /\ s # None
    BY <1>1, NamesDistinct DEF Events, HandleTerminal, Ends, Sessions
  <1>3. EndTrue(line, s)
    BY <1>1, <1>2 DEF Delivery, WireOK
  <1>4. CASE line.request \in jobsByRequest
    <2>1. r = line.request /\ r \in Jobs /\ r # None
      BY <1>0, <1>4, NamesDistinct DEF Resolved, ClientOK
    <2> QED BY <1>2, <1>3, <2>1 DEF EndTrue
  <1>5. CASE line.request \notin jobsByRequest
    <2>1. /\ line.id \in EngineIds /\ line.id # 0 /\ r = jobsByEngineId[line.id] /\ r # None
      BY <1>5, IdsArePositive DEF Resolved
    <2>2. r \in Jobs /\ r \in jobsByRequest /\ r \notin finished /\ job_id[r] = line.id
      BY <1>0, <2>1 DEF ClientOK
    <2>3. CASE line.request # None
      <3>1. line.request \in Jobs /\ given[line.request] = s /\ line.id = job_id[line.request]
        BY <1>2, <1>3, <2>1, <2>3 DEF EndTrue, JobLines, Ends
      <3>2. line.request = r
        BY <2>1, <2>2, <3>1 DEF NumbersOK
      <3> QED BY <1>5, <2>2, <3>2
    <2>4. CASE line.request = None
      <3>1. Late(line)
        BY <1>2, <2>1, <2>4 DEF Late
      <3>2. PICK q \in Jobs : Numbered(q, s, line.id) /\ EndedBefore(q, 1 - 1)
        BY <1>1, <3>1 DEF Delivery, WireOK
      <3>3. q \in finished
        BY <3>2 DEF EndedBefore, OnWire
      <3>4. q = r
        BY <2>1, <2>2, <3>2 DEF NumbersOK, Numbered
      <3> QED BY <2>2, <3>3, <3>4
    <2> QED BY <2>3, <2>4
  <1> QED BY <1>4, <1>5

LEMMA ShownStep ==
    ASSUME IInv, TruthInv, Stays, [Next]_vars
    PROVE  ShownOK'
  <1> USE DEF controller, calls, work, engine, delivery, client, faults
  <1>0. WorkOK /\ ClientOK /\ LinesOK /\ ControllerOK
    BY DEF IInv
  <1>a. \A r \in Jobs : shown[r] \in Seq(Shown) /\ Len(shown[r]) \in Nat /\ Len(shown[r]) <= 1
                        /\ (r \notin finished => shown[r] = <<>>)
    BY <1>0, LenProperties DEF ClientOK
  <1>1. ASSUME ~crossed', NEW r \in Jobs, NEW i \in 1 .. Len(shown[r])
        PROVE  ShownTrue(r, shown[r][i])' \/ ~(shown'[r] = shown[r])
    <2>1. PICK kind \in Shown : kind = shown[r][i]
      BY <1>a, LenProperties
    <2>2. ShownTrue(r, kind)
      BY <1>1, <2>1 DEF TruthInv, ShownOK, Stays
    <2>3. ShownTrue(r, kind)'
      BY <2>2, ShownTrueStays DEF TruthInv
    <2> QED BY <2>1, <2>3 DEF ShownTrue
  <1>2. ASSUME NEW r \in Jobs, NEW kind, r \notin finished, shown'[r] = Append(shown[r], kind)
        PROVE  \A i \in 1 .. Len(shown'[r]) : shown'[r][i] = kind
    <2>1. shown[r] = <<>>
      BY <1>2, <1>a
    <2>2. Append(shown[r], kind) = <<kind>>
      BY <2>1
    <2> QED BY <1>2, <2>2
  <1>3. ASSUME UNCHANGED shown PROVE ShownOK'
    BY <1>1, <1>3 DEF ShownOK
  <1>4. ASSUME NEW q \in Jobs, NEW kind, q \notin finished, shown' = [shown EXCEPT ![q] = Append(@, kind)],
               ~crossed' => ShownTrue(q, kind)'
        PROVE  ShownOK'
    <2>1. \A r \in Jobs \ {q} : shown'[r] = shown[r]
      BY <1>0, <1>4 DEF ClientOK
    <2>2. shown'[q] = Append(shown[q], kind)
      BY <1>0, <1>4 DEF ClientOK
    <2>3. \A i \in 1 .. Len(shown'[q]) : shown'[q][i] = kind
      BY <1>2, <1>4, <2>2
    <2>4. ASSUME ~crossed', NEW r \in Jobs, NEW i \in 1 .. Len(shown'[r])
          PROVE  ShownTrue(r, shown[r][i])'
      <3>1. CASE r = q
        BY <1>4, <2>3, <2>4, <3>1 DEF ShownTrue
      <3>2. CASE r # q
        BY <1>1, <2>1, <2>4, <3>2
      <3> QED BY <3>1, <3>2
    <2> QED BY <2>4 DEF ShownOK
  <1>5. ASSUME NEW f \in Flows, Begin(f) \/ Flow(f) \/ TimeOut(f) PROVE ShownOK'
    BY <1>3, <1>5 DEF Flow, Begin, TakeSession, TellShutdown, Reap, Kill, Start,
       EnterCapabilities, InsertWaiter, WriteCommand, ReceiveAnswer, Disconnected, TimeOut
  <1>6. ASSUME NEW r \in Jobs, Analyze(r) \/ SendCancel(r) \/ Submit(r) \/ Cancel(r) PROVE ShownOK'
    BY <1>3, <1>6 DEF Analyze, SendCancel, Submit, Cancel
  <1>7. ASSUME NEW r \in Jobs, SubmissionFails(r) PROVE ShownOK'
    <2>1. CASE r \in finished
      BY <1>3, <1>7, <2>1 DEF SubmissionFails
    <2>2. CASE r \notin finished
      <3>1. call'[r] = "returned"
        BY <1>0, <1>7 DEF SubmissionFails, WorkOK
      <3>2. ShownTrue(r, "submit_failed")'
        BY <3>1 DEF ShownTrue
      <3>3. shown' = [shown EXCEPT ![r] = Append(@, "submit_failed")]
        BY <1>7, <2>2 DEF SubmissionFails
      <3> QED BY <1>4, <2>2, <3>2, <3>3
    <2> QED BY <2>1, <2>2
  <1>8. ASSUME NEW s \in Sessions, Engine(s) \/ Crash(s) \/ Reader(s) PROVE ShownOK'
    BY <1>3, <1>8 DEF Engine, ReadCommand, EndJob, Crash, Reader, DispatchLine, ClearPending, ReportExit
  <1>9. ASSUME HandleEvent PROVE ShownOK'
    <2>1. PICK line, s : /\ line = Head(wire).line /\ s = Head(wire).session
                         /\ HandleAccepted(line) \/ HandleTerminal(line) \/ HandleExit(line)
      BY <1>9 DEF HandleEvent
    <2>2. /\ wire \in Seq(Events) /\ wire # <<>> /\ 1 \in 1 .. Len(wire) /\ Head(wire) = wire[1]
          /\ wire[1] \in Events
      BY <1>0, <1>9, TailOf DEF LinesOK, HandleEvent
    <2>3. /\ UNCHANGED <<given, ended, child, stdout, call>>
          /\ ~crossed' => ~crossed
      BY <1>9 DEF HandleEvent, Stays
    <2>4. ASSUME ~crossed', NEW r, r \in IF line.type = "exit" THEN jobsByRequest ELSE Resolved(line)
          PROVE  given[r] = s
      <3>1. crossed' = (crossed \/ \E q \in IF line.type = "exit" THEN jobsByRequest ELSE Resolved(line) :
                                      given[q] # s)
        BY <1>9, <2>1 DEF HandleEvent
      <3> QED BY <2>4, <3>1
    <2>5. CASE HandleAccepted(line)
      BY <1>3, <2>5 DEF HandleAccepted
    <2>6. CASE HandleTerminal(line)
      <3>1. CASE UNCHANGED shown
        BY <1>3, <3>1
      <3>2. ASSUME NEW r \in Resolved(line), shown' = [shown EXCEPT ![r] = Append(@, line.type)]
            PROVE  ShownOK'
        <4>1. r \in Jobs /\ r \notin finished
          BY <1>0 DEF Resolved, ClientOK
        <4>2. line.type \in Ends /\ line.type # "exit"
          BY <2>6 DEF HandleTerminal, Ends
        <4>3. ~crossed' => line.type = ended'[r]
          BY <2>1, <2>2, <2>3, <2>4, <2>6, <4>2, TerminalTrue DEF TruthInv, Delivery
        <4>4. ~crossed' => ShownTrue(r, line.type)'
          BY <4>2, <4>3 DEF ShownTrue, Ends
        <4> QED BY <1>4, <3>2, <4>1, <4>4
      <3> QED BY <2>6, <3>1, <3>2 DEF HandleTerminal
    <2>7. CASE HandleExit(line)
      <3>1. line.type = "exit" /\ s \in Sessions /\ s # None
        BY <2>1, <2>2, <2>7, NamesDistinct DEF HandleExit, Events, Sessions
      <3>2. ASSUME ~crossed', NEW r \in jobsByRequest \ finished
            PROVE  r \in Jobs /\ ShownTrue(r, "worker_exit")'
        <4>1. given[r] = s /\ r \in Jobs
          BY <1>0, <2>4, <3>1, <3>2 DEF ClientOK
        <4>2. reader[s] = "ended" /\ (ended[r] # "none" => Undecoded(s) \/ EndedBefore(r, 1 - 1))
          BY <2>1, <2>2, <3>1, <4>1 DEF TruthInv, WireOK
        <4>3. ~EndedBefore(r, 1 - 1)
          BY <3>2 DEF EndedBefore, OnWire
        <4>4. Undecoded(s) \/ (ended[r] = "none" /\ child[s] = "dead")
          BY <3>1, <4>2, <4>3 DEF TruthInv, ProcessesOK
        <4> QED BY <2>3, <3>1, <4>1, <4>4 DEF ShownTrue, Undecoded
      <3>3. \A r \in Jobs : shown'[r] = IF r \in jobsByRequest \ finished
                                        THEN Append(shown[r], "worker_exit") ELSE shown[r]
        BY <2>7 DEF HandleExit
      <3>4. ASSUME ~crossed', NEW r \in Jobs, NEW i \in 1 .. Len(shown'[r])
            PROVE  ShownTrue(r, shown[r][i])'
        <4>1. CASE r \in jobsByRequest \ finished
          <5>1. shown'[r][i] = "worker_exit"
            BY <1>2, <3>3, <3>4, <4>1
          <5> QED BY <3>2, <3>4, <4>1, <5>1 DEF ShownTrue
        <4>2. CASE r \notin jobsByRequest \ finished
          BY <1>1, <3>3, <3>4, <4>2
        <4> QED BY <4>1, <4>2
      <3> QED BY <3>4 DEF ShownOK
    <2> QED BY <2>1, <2>5, <2>6, <2>7
  <1>10. ASSUME UNCHANGED vars PROVE ShownOK'
    BY <1>3, <1>10 DEF vars
  <1> QED BY <1>5, <1>6, <1>7, <1>8, <1>9, <1>10 DEF Next

LEMMA InitTrue == Init => TruthInv
  <1> SUFFICES ASSUME Init PROVE TruthInv
    OBVIOUS
  <1>1. ProcessesOK /\ CallsOK
    BY DEF Init, ProcessesOK, CallsOK, Sessions
  <1>2. NumbersOK /\ CommandsOK
    BY DEF Init, NumbersOK, CommandsOK
  <1>3. PipeOK /\ WireOK /\ EndsSaid /\ ShownOK
    BY EmptySeq DEF Init, PipeOK, WireOK, EndsSaid, ShownOK
  <1> QED BY <1>1, <1>2, <1>3 DEF TruthInv
-----------------------------------------------------------------------------
LEMMA IInvHolds == Spec => []IInv
  <1>1. IInv /\ [Next]_vars => IInv'
    BY ControllerStep, WorkStep, LinesStep, ClientStep DEF IInv
  <1> QED BY <1>1, InitHolds, PTL DEF Spec

LEMMA TruthHolds == Spec => []TruthInv
  <1>1. Init => TruthInv
    BY InitTrue
  <1>2. IInv /\ TruthInv /\ [Next]_vars => TruthInv'
    <2> SUFFICES ASSUME IInv, TruthInv, [Next]_vars PROVE TruthInv'
      OBVIOUS
    <2>1. Stays
      BY StepStays
    <2>2. ProcessesOK' /\ CallsOK' /\ NumbersOK' /\ CommandsOK'
      BY <2>1, ProcessesStep, CallsStep, NumbersStep, CommandsStep DEF TruthInv
    <2>3. Delivery'
      BY <2>1, DeliveryStep DEF TruthInv, Delivery
    <2>4. ShownOK'
      BY <2>1, ShownStep
    <2> QED BY <2>2, <2>3, <2>4 DEF TruthInv, Delivery
  <1> QED BY <1>1, <1>2, IInvHolds, PTL DEF Spec

\* Every variable of the controller, the engines and the client keeps its type, and the
\* session's mutex is held exactly during a round trip, also when it fails.
THEOREM TypesHold == Spec => []TypeOK
  <1>1. IInv => TypeOK
    BY DEF IInv, ControllerOK, WorkOK, ClientOK, TypeOK, Shown
  <1> QED BY <1>1, IInvHolds, PTL

\* Whatever ends a job for the interface, in whatever order and of whichever session,
\* ends it once.
THEOREM EndsOnceHolds == Spec => []EndsOnce
  <1>1. IInv => EndsOnce
    BY DEF IInv, ClientOK, EndsOnce
  <1> QED BY <1>1, IInvHolds, PTL

\* The client's maps agree: nothing in them leads to a job that has ended.
THEOREM IndexesAgreeHolds == Spec => []IndexesAgree
  <1>1. IInv => IndexesAgree
    BY DEF IInv, ClientOK, IndexesAgree
  <1> QED BY <1>1, IInvHolds, PTL

\* A cancel has been sent for every job that was cancelled before or after it was
\* accepted.
THEOREM CancelNotForgottenHolds == Spec => []CancelNotForgotten
  <1>1. IInv => CancelNotForgotten
    BY DEF IInv, ClientOK
  <1> QED BY <1>1, IInvHolds, PTL

\* The four together: the interface's picture of its jobs stays whole.
THEOREM ClientConsistentHolds == Spec => []ClientConsistent
  <1>1. TypeOK /\ EndsOnce /\ IndexesAgree /\ CancelNotForgotten => ClientConsistent
    BY DEF ClientConsistent
  <1> QED BY <1>1, TypesHold, EndsOnceHolds, IndexesAgreeHolds, CancelNotForgottenHolds, PTL

\* What the interface shows of a job is what happened to it: its engine's own end, an exit
\* only of an engine that has not ended it or could not be read, a failed submission only of
\* a job no engine got.
THEOREM EndIsTrueHolds == Spec => []EndIsTrue
  <1>1. WorkOK /\ ClientOK /\ CallsOK /\ ShownOK => EndIsTrue
    <2> SUFFICES ASSUME WorkOK, CallsOK, ShownOK, ~crossed,
                        NEW r \in Jobs, NEW i \in 1 .. Len(shown[r])
                 PROVE  CASE shown[r][i] = "submit_failed" -> given[r] = None
                          [] shown[r][i] = "worker_exit" -> ended[r] = "none" \/ Undecoded(given[r])
                          [] OTHER -> shown[r][i] = ended[r]
      BY DEF EndIsTrue
    <2>1. PICK kind : kind = shown[r][i]
      OBVIOUS
    <2>2. ShownTrue(r, kind)
      BY <2>1 DEF ShownOK
    <2>3. CASE kind = "submit_failed"
      BY <2>1, <2>2, <2>3 DEF ShownTrue, CallsOK
    <2>4. CASE kind = "worker_exit"
      BY <2>1, <2>2, <2>4 DEF ShownTrue
    <2>5. CASE kind \notin {"submit_failed", "worker_exit"}
      BY <2>1, <2>2, <2>5 DEF ShownTrue
    <2> QED BY <2>3, <2>4, <2>5
  <1> QED BY <1>1, IInvHolds, TruthHolds, PTL DEF IInv, TruthInv

-----------------------------------------------------------------------------
(***************************************************************************)
(* The zero-copy ring of a stream (VerifyRing), for any number of slots,     *)
(* workers and frames.  Its state is a model of its own: the theorem is       *)
(* about RingSpec alone and uses nothing of EngineClient's.                 *)
(*                                                                         *)
(* SlotStable is not inductive: that a slot is not overwritten while a      *)
(* worker reads it follows from the producer's table, which is about         *)
(* announcements, not about workers.  RingInv follows each announcement      *)
(* through the one place it is at (OnePlace) and says that the producer's    *)
(* table names it all the way (Awaited); so a verify_consumed that frees a   *)
(* slot is the last trace of the frame, and no worker still has it.          *)
(***************************************************************************)
LEMMA InitRing ==
    ASSUME RingInit
    PROVE  RingInv
  BY RingBoundsOK, NoFrameIsNoFrame
  DEF RingInit, RingInv, RingTypeOK, OnePlace, Awaited, SlotStable, Reading, Seqs, Frame

\* A new announcement is of a slot nobody has a frame of.
LEMMA WriteFrameKeeps ==
    ASSUME RingInv, NEW s \in Slots, WriteFrame(s)
    PROVE  RingInv'
  <1> DEFINE frame == [seq |-> next, slot |-> s, generation |-> generation[s] + 1]
  <1>1. frame \in Frame /\ frame.slot = s /\ frame.seq = next /\ next \in Seqs
    BY RingBoundsOK DEF WriteFrame, RingInv, RingTypeOK, Frame, Seqs
  <1>2. /\ ring' = [ring EXCEPT ![s] = next]
        /\ owner' = [owner EXCEPT ![s] = frame]
        /\ announced' = announced \cup {frame}
        /\ owner[s] = NoFrame
    BY DEF WriteFrame
  <1>3. UNCHANGED <<verify_inbox, consumed, item, step, results, unaware>>
    BY DEF WriteFrame, workers, job
  <1>4. ASSUME NEW old \in announced \cup verify_inbox \cup consumed
        PROVE  old.slot \in Slots /\ old.slot # s
    <2>1. old \in Frame
      BY DEF RingInv, RingTypeOK
    <2>2. owner[old.slot] = old
      BY DEF RingInv, Awaited
    <2> QED BY <1>2, <2>1, <2>2, NoFrameIsNoFrame DEF Frame
  <1>5. ASSUME NEW w \in Workers, Reading(w)
        PROVE  item[w] \in Frame /\ item[w].slot \in Slots /\ item[w].slot # s
    <2>1. item[w] \in Frame
      BY <1>5 DEF RingInv, RingTypeOK, Reading
    <2>2. owner[item[w].slot] = item[w]
      BY <1>5 DEF RingInv, Awaited
    <2> QED BY <1>2, <2>1, <2>2, NoFrameIsNoFrame DEF Frame
  <1>6. RingTypeOK'
    <2>1. next' = next + 1 /\ generation' = [generation EXCEPT ![s] = @ + 1]
          /\ UNCHANGED <<verify_slot_generations, verify_received>> /\ next < MaxFrames
      BY DEF WriteFrame, commands
    <2> QED BY <1>1, <1>2, <1>3, <2>1, RingBoundsOK DEF RingInv, RingTypeOK
  <1>7. OnePlace'
    BY <1>1, <1>2, <1>3, <1>4, <1>5 DEF RingInv, OnePlace, Reading
  <1>8. Awaited'
    <2>1. ASSUME NEW f \in announced' \cup verify_inbox'
          PROVE  (owner[f.slot] = f /\ ring[f.slot] = f.seq)'
      <3>1. CASE f = frame
        BY <1>1, <1>2, <3>1 DEF RingInv, RingTypeOK
      <3>2. CASE f # frame
        BY <1>2, <1>3, <1>4, <3>2 DEF RingInv, RingTypeOK, Awaited
      <3> QED BY <3>1, <3>2
    <2>2. ASSUME NEW f \in consumed'
          PROVE  owner'[f.slot] = f
      BY <1>2, <1>3, <1>4 DEF RingInv, RingTypeOK, Awaited
    <2>3. ASSUME NEW w \in Workers, Reading(w)'
          PROVE  (owner[item[w].slot] = item[w] /\ ring[item[w].slot] = item[w].seq)'
      <3>1. Reading(w)
        BY <1>3, <2>3 DEF Reading
      <3> QED BY <1>2, <1>3, <1>5, <3>1 DEF RingInv, RingTypeOK, Awaited
    <2> QED BY <2>1, <2>2, <2>3 DEF Awaited
  <1>9. SlotStable'
    <2>1. ASSUME NEW w \in Workers, step'[w] = "read"
          PROVE  ring'[item'[w].slot] = item'[w].seq
      <3>1. Reading(w)
        BY <1>3, <2>1 DEF Reading
      <3> QED BY <1>2, <1>3, <1>5, <2>1, <3>1 DEF RingInv, RingTypeOK, SlotStable
    <2> QED BY <1>3, <2>1 DEF RingInv, SlotStable
  <1> QED BY <1>6, <1>7, <1>8, <1>9 DEF RingInv

\* The frame of a verify_consumed is nowhere else: freeing its slot harms nobody.
LEMMA SeeConsumedKeeps ==
    ASSUME RingInv, SeeConsumed
    PROVE  RingInv'
  <1>1. PICK frame \in consumed :
            /\ consumed' = consumed \ {frame}
            /\ owner' = IF owner[frame.slot] = frame THEN [owner EXCEPT ![frame.slot] = NoFrame]
                        ELSE owner
    BY DEF SeeConsumed
  <1>2. UNCHANGED <<ring, generation, next, announced, verify_slot_generations, verify_received,
                    verify_inbox, item, step, results, unaware>>
    BY DEF SeeConsumed, commands, workers, job
  <1>3. frame \in Frame /\ owner[frame.slot] = frame
    BY DEF RingInv, RingTypeOK, Awaited
  <1>4. ASSUME NEW other \in Frame, other # frame, owner[other.slot] = other
        PROVE  owner'[other.slot] = other
    <2>1. other.slot # frame.slot
      BY <1>3, <1>4
    <2> QED BY <1>1, <1>4, <2>1 DEF RingInv, RingTypeOK
  <1>5. RingTypeOK'
    BY <1>1, <1>2, <1>3 DEF RingInv, RingTypeOK, Frame
  <1>6. OnePlace'
    BY <1>1, <1>2 DEF RingInv, OnePlace, Reading
  <1>7. Awaited'
    <2>1. ASSUME NEW f \in announced' \cup verify_inbox'
          PROVE  (owner[f.slot] = f /\ ring[f.slot] = f.seq)'
      <3>1. f \in Frame /\ f # frame /\ owner[f.slot] = f /\ ring[f.slot] = f.seq
        BY <1>1, <1>2 DEF RingInv, RingTypeOK, OnePlace, Awaited
      <3> QED BY <1>2, <1>4, <3>1
    <2>2. ASSUME NEW f \in consumed'
          PROVE  owner'[f.slot] = f
      BY <1>1, <1>4 DEF RingInv, RingTypeOK, Awaited
    <2>3. ASSUME NEW w \in Workers, Reading(w)'
          PROVE  (owner[item[w].slot] = item[w] /\ ring[item[w].slot] = item[w].seq)'
      <3>1. /\ Reading(w) /\ item[w] \in Frame /\ item[w] # frame
            /\ owner[item[w].slot] = item[w] /\ ring[item[w].slot] = item[w].seq
        BY <1>2, <2>3 DEF RingInv, RingTypeOK, OnePlace, Awaited, Reading
      <3> QED BY <1>2, <1>4, <3>1
    <2> QED BY <2>1, <2>2, <2>3 DEF Awaited
  <1>8. SlotStable'
    BY <1>2 DEF RingInv, SlotStable
  <1> QED BY <1>5, <1>6, <1>7, <1>8 DEF RingInv

\* Steps that change none of the state the invariant is about.
LEMMA OthersKeep ==
    ASSUME RingInv,
           \/ SendEnd \/ SeeTerminal \/ VerifyEnd \/ RequestCancel
           \/ Finish \/ UNCHANGED ringVars
    PROVE  RingInv'
  <1>1. UNCHANGED <<ring, owner, generation, next, announced, verify_slot_generations,
                    verify_received, verify_inbox, item, step, results, consumed>>
    BY DEF SendEnd, SeeTerminal, VerifyEnd, RequestCancel, Finish,
           ringVars, producer, commands, workers
  <1>2. unaware' \in Workers \cup {"executor", "nobody"}
    BY DEF SendEnd, SeeTerminal, VerifyEnd, RequestCancel, Finish, Waiting,
           ringVars, job, RingInv, RingTypeOK
  <1> QED
    BY <1>1, <1>2
    DEF RingInv, RingTypeOK, OnePlace, Awaited, SlotStable, Reading

\* An announcement is queued, or refused and forgotten.
LEMMA VerifyFrameKeeps ==
    ASSUME RingInv, VerifyFrame
    PROVE  RingInv'
  <1>1. PICK frame \in announced : /\ announced' = announced \ {frame}
                                   /\ IF Accepts(frame) THEN Enqueue(frame) ELSE Refuse
    BY DEF VerifyFrame
  <1>2. UNCHANGED <<ring, owner, generation, next, item, step, results, consumed>>
    BY DEF VerifyFrame, producer, workers
  <1>3. frame \in Frame
    BY DEF RingInv, RingTypeOK
  <1>4. /\ verify_inbox' \in {verify_inbox, verify_inbox \cup {frame}}
        /\ verify_slot_generations' \in [Slots -> Nat] /\ verify_received' \in Nat
        /\ unaware' \in {unaware, "nobody"}
    BY <1>1, <1>3 DEF Enqueue, Refuse, RingInv, RingTypeOK, Frame
  <1>5. RingTypeOK'
    BY <1>1, <1>2, <1>3, <1>4 DEF RingInv, RingTypeOK
  <1>6. OnePlace'
    BY <1>1, <1>2, <1>4 DEF RingInv, OnePlace, Reading
  <1>7. Awaited'
    BY <1>1, <1>2, <1>4 DEF RingInv, Awaited, Reading
  <1>8. SlotStable'
    BY <1>2 DEF RingInv, SlotStable
  <1> QED BY <1>5, <1>6, <1>7, <1>8 DEF RingInv

\* A generation that came before is not accepted.
LEMMA RepeatedFrameKeeps ==
    ASSUME RingInv, RepeatedFrame
    PROVE  RingInv'
  <1>1. PICK s \in Slots : \E g \in 1 .. verify_slot_generations[s] :
            LET frame == [seq |-> verify_received, slot |-> s, generation |-> g]
            IN IF Accepts(frame) THEN Enqueue(frame) ELSE Refuse
    BY DEF RepeatedFrame
  <1>2. Refuse
    BY <1>1 DEF Accepts, RingInv, RingTypeOK
  <1>3. UNCHANGED <<ring, owner, generation, next, announced, verify_slot_generations,
                    verify_received, verify_inbox, item, step, results, consumed,
                    unaware>>
    BY <1>2 DEF RepeatedFrame, Refuse, producer, workers
  <1> QED
    BY <1>3
    DEF RingInv, RingTypeOK, OnePlace, Awaited, SlotStable, Reading

LEMMA AttachKeeps ==
    ASSUME RingInv, VerifyRingAttach
    PROVE  RingInv'
  <1>1. UNCHANGED <<ring, owner, generation, next, announced, verify_received, verify_inbox,
                    item, step, results, consumed, unaware>>
    BY DEF VerifyRingAttach, producer, workers
  <1>2. verify_slot_generations' \in [Slots -> Nat]
    BY DEF VerifyRingAttach, RingInv, RingTypeOK
  <1> QED
    BY <1>1, <1>2
    DEF RingInv, RingTypeOK, OnePlace, Awaited, SlotStable, Reading

\* A worker that takes a frame takes it out of the inbox.
LEMMA TakeKeeps ==
    ASSUME RingInv, NEW w \in Workers, Take(w)
    PROVE  RingInv'
  <1>1. PICK frame \in verify_inbox : /\ verify_inbox' = verify_inbox \ {frame}
                                      /\ item' = [item EXCEPT ![w] = frame]
                                      /\ step' = [step EXCEPT ![w] = "read"]
                                      /\ consumed' = consumed
    BY DEF Take, Hold
  <1>2. UNCHANGED <<ring, owner, generation, next, announced, verify_slot_generations,
                    verify_received, results, unaware>>
    BY DEF Take, producer, commands, job
  <1>3. frame \in Frame /\ step[w] = "wait" /\ ~Reading(w)
    BY DEF Take, Reading, RingInv, RingTypeOK
  <1>4. /\ item'[w] = frame /\ step'[w] = "read"
        /\ \A v \in Workers : v # w => item'[v] = item[v] /\ step'[v] = step[v]
    BY <1>1 DEF RingInv, RingTypeOK
  <1>5. RingTypeOK'
    BY <1>1, <1>2, <1>3 DEF RingInv, RingTypeOK
  <1>6. OnePlace'
    BY <1>1, <1>2, <1>3, <1>4 DEF RingInv, OnePlace, Reading
  <1>7. Awaited'
    BY <1>1, <1>2, <1>3, <1>4 DEF RingInv, Awaited, Reading
  <1>8. SlotStable'
    BY <1>1, <1>2, <1>4 DEF RingInv, SlotStable, Awaited
  <1> QED BY <1>5, <1>6, <1>7, <1>8 DEF RingInv

\* The analysis sees the frame that was announced.
LEMMA AnalyzeKeeps ==
    ASSUME RingInv, NEW w \in Workers, AnalyzeSlot(w)
    PROVE  RingInv'
  <1>1. UNCHANGED <<ring, owner, generation, next, announced, verify_slot_generations,
                    verify_received, verify_inbox, item, consumed, unaware>>
    BY DEF AnalyzeSlot, producer, commands, job
  <1>2. step[w] = "read" /\ item[w] \in Frame /\ item[w].seq \in Seqs
        /\ ring[item[w].slot] = item[w].seq
    BY DEF AnalyzeSlot, RingInv, RingTypeOK, SlotStable, Frame
  <1>3. step' \in [Workers -> {"wait", "read", "analyzed", "failed", "push"}]
        /\ step'[w] \in {"analyzed", "failed"}
        /\ \A v \in Workers : v # w => step'[v] = step[v]
    BY DEF AnalyzeSlot, RingInv, RingTypeOK
  <1>4. results' \in {results, [results EXCEPT ![item[w].seq] = item[w].seq]}
    BY <1>2 DEF AnalyzeSlot
  <1>5. \A v \in Workers : Reading(v)' <=> Reading(v)
    BY <1>2, <1>3 DEF Reading
  <1>6. RingTypeOK'
    BY <1>1, <1>2, <1>3, <1>4 DEF RingInv, RingTypeOK
  <1>7. OnePlace' /\ Awaited'
    BY <1>1, <1>5 DEF RingInv, OnePlace, Awaited
  <1>8. SlotStable'
    BY <1>1, <1>2, <1>3, <1>4 DEF RingInv, RingTypeOK, SlotStable
  <1> QED BY <1>6, <1>7, <1>8 DEF RingInv

\* verify_consumed is the worker's last step with the slot.
LEMMA ConsumeKeeps ==
    ASSUME RingInv, NEW w \in Workers, Consume(w)
    PROVE  RingInv'
  <1>1. UNCHANGED <<ring, owner, generation, next, announced, verify_slot_generations,
                    verify_received, verify_inbox, item, results, unaware>>
    BY DEF Consume, producer, commands, job
  <1>2. /\ Reading(w) /\ item[w] \in Frame
        /\ consumed' = consumed \cup {item[w]}
        /\ step' = [step EXCEPT ![w] = "push"]
    BY DEF Consume, Emit, Reading, RingInv, RingTypeOK
  <1>3. step'[w] = "push" /\ ~Reading(w)' /\ \A v \in Workers : v # w => step'[v] = step[v]
    BY <1>2 DEF RingInv, RingTypeOK, Reading
  <1>4. RingTypeOK'
    BY <1>1, <1>2 DEF RingInv, RingTypeOK
  <1>5. OnePlace'
    BY <1>1, <1>2, <1>3 DEF RingInv, OnePlace, Reading
  <1>6. Awaited'
    BY <1>1, <1>2, <1>3 DEF RingInv, Awaited, Reading
  <1>7. SlotStable'
    BY <1>1, <1>3 DEF RingInv, SlotStable
  <1> QED BY <1>4, <1>5, <1>6, <1>7 DEF RingInv

LEMMA PushKeeps ==
    ASSUME RingInv, NEW w \in Workers, Push(w)
    PROVE  RingInv'
  <1>1. UNCHANGED <<ring, owner, generation, next, announced, verify_slot_generations,
                    verify_received, verify_inbox, results, consumed>>
    BY DEF Push, producer, commands
  <1>2. /\ item' = [item EXCEPT ![w] = NoFrame] /\ step' = [step EXCEPT ![w] = "wait"]
        /\ step[w] = "push" /\ unaware' = "nobody"
    BY DEF Push
  <1>3. step'[w] = "wait" /\ \A v \in Workers : v # w => item'[v] = item[v] /\ step'[v] = step[v]
    BY <1>2 DEF RingInv, RingTypeOK
  <1>4. RingTypeOK'
    BY <1>1, <1>2, <1>3 DEF RingInv, RingTypeOK
  <1>5. OnePlace' /\ Awaited' /\ SlotStable'
    BY <1>1, <1>3 DEF RingInv, OnePlace, Awaited, SlotStable, Reading
  <1> QED BY <1>4, <1>5 DEF RingInv

\* The zero-copy ring is safe whatever its size: a slot is not overwritten while a
\* worker reads it, and the producer's table names every frame that is under way.
THEOREM RingIsSafe == RingSpec => []RingInv
  <1>1. RingInit => RingInv
    BY InitRing
  <1>2. RingInv /\ [RingNext]_ringVars => RingInv'
    BY WriteFrameKeeps, SeeConsumedKeeps, OthersKeep, VerifyFrameKeeps, RepeatedFrameKeeps,
       AttachKeeps, TakeKeeps, AnalyzeKeeps, ConsumeKeeps, PushKeeps
    DEF RingNext, Work
  <1> QED BY <1>1, <1>2, PTL DEF RingSpec
=============================================================================
