---------------------------- MODULE MCRelayCache ----------------------------
(* RelayCache for TLC.  Relays are interchangeable, and so are requests. *)
EXTENDS RelayCache, TLC

Symmetry == Permutations(Relays) \cup Permutations(Readers)
=============================================================================
