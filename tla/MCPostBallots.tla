--------------------------- MODULE MCPostBallots ---------------------------
(***************************************************************************)
(* What is filed in registries, for TLC: reactions, votes and bans.        *)
(*                                                                         *)
(* Two keys, two addresses, two emoji and two options: enough for a sender *)
(* to meet an entry under its key, under its address, or under neither,    *)
(* and for an exchange to come from an address that somebody else already  *)
(* used.  For the bans, two addresses of one subnet.  The two share        *)
(* nothing.                                                                *)
(***************************************************************************)
EXTENDS PostBallots, TLC

CONSTANTS Addresses, Masks, Net, Threads, NoKey, NoRequest, MaxPosts, MaxChanges, MaxTime \* Bans

MCMasks == <<16>>
MCNet == [m \in {16} |-> [a \in {"x", "y"} |-> "both"]]

VARIABLES part, bans, ignores, posts, now, request, changes, lifted, held

B == INSTANCE Bans

ASSUME Assumptions == B!BansAssumption

banvars == <<bans, ignores, posts, now, request, changes, lifted, held>>

MCInit ==
  /\ Init
  /\ \/ /\ part = "ballots"
        /\ bans = 0 /\ ignores = 0 /\ posts = 0 /\ now = 0
        /\ request = 0 /\ changes = 0 /\ lifted = 0 /\ held = 0
     \/ part = "bans" /\ B!Init

MCNext ==
  \/ part = "ballots" /\ Next /\ UNCHANGED <<part, banvars>>
  \/ part = "bans" /\ B!Next /\ UNCHANGED <<part, vars>>

MCSpec == MCInit /\ [][MCNext]_<<vars, part, banvars>>

-----------------------------------------------------------------------------
\* A mark on a post stands for a ban, and nobody posts through one.
BansSafety == part = "bans" => B!BansSafety
=============================================================================
