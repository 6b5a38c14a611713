--------------------------- MODULE MCLiveSession ---------------------------
(* LiveSession for TLC. *)
EXTENDS LiveSession
CONSTANTS t1, t2, b
=============================================================================
