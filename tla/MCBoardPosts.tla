---------------------------- MODULE MCBoardPosts ----------------------------
(***************************************************************************)
(* Posts, for TLC: in Imageboard their life, and between posts the         *)
(* settings of a board that only a publisher changes; in the browser their *)
(* text and the menus that go with them.  A behaviour is one of one part.  *)
(* The users but the publisher are interchangeable.                        *)
(***************************************************************************)
EXTENDS Imageboard, TLC

CONSTANTS
  MaxTitles, MaxBehind,                      \* Offers
  Written, Tokens, Existing, None, MaxChanges \* Markup

E == INSTANCE SequencesExt

\* Tags of one kind and of two, with and without secrets; references; both.
MCWritten ==
  E!SeqOf({"[b]", "[/b]", "[secret]", "[/secret]"}, 4) \cup E!SeqOf({"[b]", "[/b]", "[url]", "[/url]"}, 4)
  \cup E!SeqOf({"x", "[secret]", "[/secret]"}, 5)
  \cup E!SeqOf({">>", "1", "f/", "c/", ".", "[secret_1]"}, 4)
  \cup E!SeqOf({">>", "1", "[fold]", "[/fold]", "[secret]", "[/secret]"}, 4)

MCExisting == {<<"here", "b/", "1">>, <<"here", "c/", "1">>, <<"f/", "c/", "1">>}

VARIABLES part, chain, page, viewer, behind, refs, left

S == INSTANCE Imageboard WITH
  Users <- {Root}, Tags <- {"set_pinned", "set_max_media", "set_bump_limit"},
  MediaCounts <- {0, 1}, BumpLimits <- {0, 2}, MaxTime <- 0

O == INSTANCE Offers
M == INSTANCE Markup WITH Texts <- Written, phase <- chain, text <- viewer, post <- behind

ASSUME Assumptions == O!OffersAssumption /\ M!MarkupAssumption

browser == <<chain, page, viewer, behind, refs, left>>
allvars == <<vars, part, browser>>

MCInit ==
  /\ Init
  /\ \/ /\ part \in {"posts", "settings"}
        /\ chain = 0 /\ page = 0 /\ viewer = 0 /\ behind = 0 /\ refs = 0 /\ left = 0
     \/ part = "menus" /\ O!Init /\ refs = 0 /\ left = 0
     \/ part = "texts" /\ M!Init

MCNext ==
  \/ part = "posts" /\ Next /\ UNCHANGED <<part, browser>>
  \/ part = "settings" /\ S!Next /\ UNCHANGED <<part, browser>>
  \/ part = "menus" /\ O!Next /\ UNCHANGED <<part, vars, refs, left>>
  \/ part = "texts" /\ M!Next /\ UNCHANGED <<part, vars>>

MCSpec == MCInit /\ [][MCNext]_allvars

Symmetry == Permutations(Users \ {Root})

-----------------------------------------------------------------------------
\* Menus, capabilities and the contract agree on who may do what.
OffersSafety == part = "menus" => O!OffersSafety

\* A text is read as it is nested, loses nothing, and survives an edit; secrets
\* are open to those who are replied to.
MarkupSafety == part = "texts" => M!MarkupSafety
=============================================================================
