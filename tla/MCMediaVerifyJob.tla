-------------------------- MODULE MCMediaVerifyJob --------------------------
(* Small instances of MediaVerifyJob for TLC. *)
EXTENDS MediaVerifyJob, TLC
=============================================================================
