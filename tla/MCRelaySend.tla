----------------------------- MODULE MCRelaySend -----------------------------
(* RelaySend for TLC.  Requests, coins and keys are interchangeable. *)
EXTENDS RelaySend, TLC

Symmetry == Permutations(Requests) \cup Permutations(Keys) \cup Permutations(Coins)

\* Bound of the run: bans come in batches of MaxBatch that share their reason (one
\* ban is sent like one post), and what nobody looks at does not come along.
MCInit ==
  /\ Init
  /\ \A r \in Requests :
       /\ requests[r].handling = "takes" => requests[r].size = MaxBatch
       /\ requests[r].handling = "ignores" => ~requests[r].brought

MCSpec == MCInit /\ [][Next]_vars
=============================================================================
