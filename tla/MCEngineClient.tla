--------------------------- MODULE MCEngineClient ---------------------------
(* Small instances of EngineClient for TLC. *)
EXTENDS EngineClient
=============================================================================
