--------------------------- MODULE MCAdaptiveDecode ---------------------------
(* Small instances of AdaptiveDecode for TLC. *)
EXTENDS AdaptiveDecode
=============================================================================
