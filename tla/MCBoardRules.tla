---------------------------- MODULE MCBoardRules ----------------------------
(***************************************************************************)
(* Imageboard for TLC: who may do what, with roles of every rank given and *)
(* taken back, and with a clock, coarser timestamps and migrated posts.    *)
(***************************************************************************)
EXTENDS Imageboard

CONSTANTS RoleTags, ClockTags, Ann, Bob

VARIABLE part

R == INSTANCE Imageboard WITH
  Tweaks <- {1}, Tags <- RoleTags, Appointees <- {Ann}, Precisions <- {}, MaxTime <- 0
C == INSTANCE Imageboard WITH
  Users <- {Root, Ann}, Tags <- ClockTags, Appointees <- {}

MCInit == part \in {"roles", "clock"} /\ Init

MCNext ==
  \/ part = "roles" /\ R!Next /\ UNCHANGED part
  \/ part = "clock" /\ C!Next /\ UNCHANGED part

MCSpec == MCInit /\ [][MCNext]_<<vars, part>>

\* Nobody exceeds the authority of the roles it has, whatever roles were given
\* and taken back before, whatever the clock says and however posts are dated.
AuthorityIsKept ==
  [][IF part = "roles" THEN R!NobodyExceeds ELSE C!NobodyExceeds]_<<vars, part>>
=============================================================================
