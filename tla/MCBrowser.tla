------------------------------ MODULE MCBrowser ------------------------------
(***************************************************************************)
(* What a user reads and writes, for TLC: the composer, the previews of    *)
(* posts, the gallery, the position in a thread, and the addresses and     *)
(* their history.  They share nothing: a behaviour is one of one part, in  *)
(* which the variables of the others stay 0; where two parts have a        *)
(* variable of the same name it is one variable here.                      *)
(***************************************************************************)
EXTENDS Integers, Sequences, SequencesExt, FiniteSetsExt

CONSTANTS
  Words, Sources, Topics, Own, Files, MaxMedia, MaxWrites, \* Composer
  Links, None, MaxId, MaxMoves,              \* Tooltips
  Albums, MaxOpens, MaxTaps,                 \* Gallery
  Window, MaxBox, First, MaxPosts, MaxReads, \* Reading
  Forums, Default, Slugs, Known, Nums, MaxVisits, MaxLoads \* Navigation

MCAlbums == {<<"image">>, <<"video", "image", "pdf">>}

VARIABLES
  part, chain, page, busy, left, excused,
  drafts, comp, sends, posted, wrote, typed, gone, lost, again, strayed,
  touch, fading, closeTimer, hover, at, lastMove, scrolled, nextId, moves,
  items, cur, view, finger, track, inertia, flying, tap, timers, video, counts,
  posts, box, y, visible, event, chase, glide, resyncs, unread, seen, stood, wentUp,
  hist, pos, canGoBack, lastPath, app, runs, shown, topic, stray, popped, misled, outside

C == INSTANCE Composer WITH Posts <- Sources, Threads <- Topics, MaxSteps <- MaxWrites
T == INSTANCE Tooltips
G == INSTANCE Gallery
R == INSTANCE Reading WITH MaxSteps <- MaxReads
N == INSTANCE Navigation WITH MaxSteps <- MaxVisits

ASSUME Assumptions ==
  /\ C!ComposerAssumption /\ G!GalleryAssumption
  /\ R!ReadingAssumption /\ N!NavigationAssumption

\* The variables that only one part has.
ofComposer == <<drafts, comp, sends, posted, wrote, typed, gone, lost, again, strayed>>
ofPreviews == <<touch, fading, closeTimer, hover, at, lastMove, scrolled, nextId, moves>>
ofGallery == <<items, cur, view, finger, track, inertia, flying, tap, timers, video, counts>>
ofReading == <<posts, box, y, visible, event, chase, glide, resyncs, unread, seen, stood, wentUp>>
ofNavigation == <<hist, pos, canGoBack, lastPath, app, runs, shown, topic, stray, popped, misled, outside>>

allvars ==
  <<part, chain, page, busy, left, excused, ofComposer, ofPreviews, ofGallery, ofReading,
    ofNavigation>>

NoComposing ==
  /\ drafts = 0 /\ comp = 0 /\ sends = 0 /\ posted = 0 /\ wrote = 0
  /\ typed = 0 /\ gone = 0 /\ lost = 0 /\ again = 0 /\ strayed = 0
NoPreviews ==
  /\ touch = 0 /\ fading = 0 /\ closeTimer = 0 /\ hover = 0 /\ at = 0 /\ lastMove = 0
  /\ scrolled = 0 /\ nextId = 0 /\ moves = 0
NoGallery ==
  /\ items = 0 /\ cur = 0 /\ view = 0 /\ finger = 0 /\ track = 0 /\ inertia = 0
  /\ flying = 0 /\ tap = 0 /\ timers = 0 /\ video = 0 /\ counts = 0
NoReading ==
  /\ posts = 0 /\ box = 0 /\ y = 0 /\ visible = 0 /\ event = 0 /\ chase = 0
  /\ glide = 0 /\ resyncs = 0 /\ unread = 0 /\ seen = 0 /\ stood = 0 /\ wentUp = 0
NoNavigation ==
  /\ hist = 0 /\ pos = 0 /\ canGoBack = 0 /\ lastPath = 0 /\ app = 0 /\ runs = 0
  /\ shown = 0 /\ topic = 0 /\ stray = 0 /\ popped = 0 /\ misled = 0 /\ outside = 0

MCInit ==
  /\ \/ part = "composer" /\ C!Init /\ chain = 0 /\ page = 0 /\ excused = 0
     \/ part = "previews" /\ T!Init /\ page = 0 /\ busy = 0 /\ left = 0 /\ excused = 0
     \/ part = "gallery" /\ G!Init /\ chain = 0 /\ page = 0 /\ busy = 0 /\ left = 0
     \/ part = "reading" /\ R!Init /\ chain = 0 /\ busy = 0
     \/ part = "navigation" /\ N!Init /\ chain = 0 /\ page = 0 /\ busy = 0 /\ excused = 0
  /\ part # "composer" => NoComposing
  /\ part # "previews" => NoPreviews
  /\ part # "gallery" => NoGallery
  /\ part # "reading" => NoReading
  /\ part # "navigation" => NoNavigation

MCNext ==
  /\ \/ part = "composer" /\ C!Next /\ UNCHANGED <<chain, page, excused>>
     \/ part = "previews" /\ T!Next /\ UNCHANGED <<page, busy, left, excused>>
     \/ part = "gallery" /\ G!Next /\ UNCHANGED <<chain, page, busy, left>>
     \/ part = "reading" /\ R!Next /\ UNCHANGED <<chain, busy>>
     \/ part = "navigation" /\ N!Next /\ UNCHANGED <<chain, page, busy, excused>>
  /\ part # "composer" => UNCHANGED ofComposer
  /\ part # "previews" => UNCHANGED ofPreviews
  /\ part # "gallery" => UNCHANGED ofGallery
  /\ part # "reading" => UNCHANGED ofReading
  /\ part # "navigation" => UNCHANGED ofNavigation
  /\ UNCHANGED part

MCSpec == MCInit /\ [][MCNext]_allvars

-----------------------------------------------------------------------------
\* The properties are those of the modules, each for its part.

\* What is written is posted once, where and as what it was written for, or is
\* still there.
ComposerSafety == part = "composer" => C!ComposerSafety

\* Previews are a chain from the page to the innermost, and close behind the
\* pointer.
TooltipsSafety == part = "previews" => T!TooltipsSafety

\* What the reader points at stays open.
StaysUnderPointer == [][part = "previews" => T!Stays]_allvars

\* Whatever interrupts what, the gallery ends up as the user left it.
GallerySafety == part = "gallery" => G!GallerySafety

\* The position, the marker and the number of unread posts agree with what the
\* reader has seen.
ReadingSafety == part = "reading" => R!ReadingSafety

\* The address, the history, what is shown and what is listened to agree.
NavigationSafety == part = "navigation" => N!NavigationSafety
=============================================================================
