--------------------------- MODULE MCWorkerSession ---------------------------
(* Small instances of WorkerSession for TLC. *)
EXTENDS WorkerSession, TLC

\* Requests of one kind are interchangeable.
RequestSymmetry == Permutations(JobRequests) \cup Permutations(IndexRequests)
                   \cup Permutations(MediaRequests)
=============================================================================
