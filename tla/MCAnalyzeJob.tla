---------------------------- MODULE MCAnalyzeJob ----------------------------
(* Small instances of AnalyzeJob for TLC. *)
EXTENDS AnalyzeJob, TLC
=============================================================================
