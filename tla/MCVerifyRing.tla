---------------------------- MODULE MCVerifyRing ----------------------------
EXTENDS VerifyRing, TLC
=============================================================================
