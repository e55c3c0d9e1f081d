--------------------------- MODULE MCVerifyStream ---------------------------
(* Small instances of VerifyStream for TLC. *)
EXTENDS VerifyStream, TLC

\* The workers run the same code and no property names one of them.
WorkerSymmetry == Permutations(Workers)
=============================================================================
