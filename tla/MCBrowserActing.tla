--------------------------- MODULE MCBrowserActing ---------------------------
(***************************************************************************)
(* What a moderator does things with, for TLC: the selection of posts and  *)
(* its batches, and the dialog of a board's settings.  They share nothing: *)
(* a behaviour is one of one part, and the dialog borrows the variables of *)
(* the selection.                                                          *)
(***************************************************************************)
EXTENDS Selection

CONSTANTS
  Boards, Threads, Images, MaxPins, MaxSaves \* BoardSettings

VARIABLE part

B == INSTANCE BoardSettings WITH
  MaxSteps <- MaxSaves, form <- sel, uploads <- dialog, sent <- flows

ASSUME Assumptions == B!BoardSettingsAssumption

allvars == <<vars, part>>

MCInit ==
  \/ part = "selection" /\ Init
  \/ part = "settings" /\ B!Init /\ pill = 0 /\ matching = 0

MCNext ==
  \/ part = "selection" /\ Next /\ UNCHANGED part
  \/ part = "settings" /\ B!Next /\ UNCHANGED <<part, pill, matching>>

MCSpec == MCInit /\ [][MCNext]_allvars

-----------------------------------------------------------------------------
\* The properties are those of the modules, each for its part.

\* Batches do what was selected, in order, and lose nothing of it.
SelectionPart == part = "selection" => SelectionSafety

\* A dialog that closes by itself has done what it said.
ClosedWhenDonePart == [][part = "selection" => ClosesTruly]_allvars

\* The dialog shows and saves lists and ticks that are the board's.
BoardSettingsSafety == part = "settings" => B!BoardSettingsSafety

\* Saving takes out of a list of the board only what the user took out.
OnlyTakenVanish == [][part = "settings" => B!TakesOnlyTaken]_allvars
=============================================================================
