----------------------- MODULE MCMediaVerifyPipeline -----------------------
(* Small instances of MediaVerifyPipeline for TLC. *)
EXTENDS MediaVerifyPipeline, TLC

\* Workers run the same code, and so do decode sessions.
ThreadSymmetry == Permutations(Workers) \cup Permutations(Producers)
=============================================================================
