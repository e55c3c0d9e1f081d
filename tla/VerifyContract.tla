--------------------------- MODULE VerifyContract ---------------------------
(***************************************************************************)
(* What one `verify` stream job promises its client, with no threads, no   *)
(* queues and no locks: frames are received with contiguous sequence       *)
(* numbers, each is reported at most once and only after it was received,  *)
(* and the job settles once.  After it has settled nothing more is         *)
(* reported.  VerifyStream is shown to implement this.                     *)
(***************************************************************************)
EXTENDS Naturals

VARIABLES received,   \* frames received; their sequence numbers are 0..received-1
          ended,      \* the client declared the end of the stream
          reported,   \* sequence numbers reported in progress events
          settled     \* "none", or the kind of the terminal event

vars == <<received, ended, reported, settled>>

Init == /\ received = 0
        /\ ended = FALSE
        /\ reported = {}
        /\ settled = "none"

Receive == /\ ~ended
           /\ received' = received + 1
           /\ UNCHANGED <<ended, reported, settled>>

End == /\ ~ended
       /\ ended' = TRUE
       /\ UNCHANGED <<received, reported, settled>>

Report == /\ settled = "none"
          /\ \E batch \in SUBSET ((0 .. received - 1) \ reported) :
                reported' = reported \cup batch
          /\ UNCHANGED <<received, ended, settled>>

Settle == /\ settled = "none"
          /\ \/ settled' = "result" /\ ended
             \/ settled' \in {"cancelled", "error"}
          /\ UNCHANGED <<received, ended, reported>>

Next == Receive \/ End \/ Report \/ Settle

Spec == Init /\ [][Next]_vars
=============================================================================
