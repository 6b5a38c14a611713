------------------------------ MODULE Gallery ------------------------------
(***************************************************************************)
(* The gallery that lies over a page: ui/components/Gallery, with its      *)
(* gestures, timers, animations and the controls of a video.               *)
(*                                                                         *)
(* One finger, or the mouse, drags: over a zoomed picture it pans, else it *)
(* swipes to the next one or pulls the gallery away.  Two fingers pinch.   *)
(* What a gesture leaves behind is put right by the code of its end, which *)
(* another gesture, a key or a timer may pre-empt: a press begins a drag   *)
(* whatever is under way, with another button of the mouse for instance,   *)
(* or after the system took a touch away, which nothing listens to.        *)
(*                                                                         *)
(* Of lengths the model keeps what the code compares: whether the picture  *)
(* is smaller than the stage, as large, zoomed, or beyond the limit of 8,  *)
(* and whether it is within its bounds.  An animation sets its end at once *)
(* (animateTo), so only the one that closes the gallery and the inertia,   *)
(* which run code when they end or step, are actions.                      *)
(***************************************************************************)
EXTENDS Integers, Sequences, FiniteSets

CONSTANTS
  Albums,   \* the sequences of kinds of media that may be opened
  MaxOpens, \* bounds of a run
  MaxTaps

Kinds == {"image", "video", "pdf"}

GalleryAssumption ==
  /\ Albums \subseteq Seq(Kinds) /\ <<>> \notin Albums
  /\ MaxOpens \in Nat /\ MaxTaps \in Nat

VARIABLES
  items,    \* what is open, <<>> when the gallery is closed
  cur,      \* the one shown
  view,     \* how it is transformed
  finger,   \* the drag of one finger, what it has become, or the pinch of two
  track,    \* where the row of pictures is, and whether the page shows through
  inertia,  \* a picture that was flung is still moving
  flying,   \* overlays whose closing animation runs
  tap,      \* the last tap, if it may still become a double tap
  timers,   \* taps that will toggle the thumbnails, and the one that tapTimer holds
  video,    \* the video and its seek bar
  counts,   \* galleries opened, taps, and how often the thumbnails are still to be toggled
  excused   \* what the gallery cannot be held to, see the properties

vars == <<items, cur, view, finger, track, inertia, flying, tap, timers, video, counts, excused>>

Isopen == items # <<>>
Kind == items[cur]

Rest == [zoom |-> "one", placed |-> TRUE]
Views == [zoom : {"one", "in", "over"}, placed : BOOLEAN] \cup {[zoom |-> "under", placed |-> FALSE]}
Zoomed(v) == v.zoom \in {"in", "over"}
Legal(v) == v.zoom \in {"one", "in"} /\ v.placed

\* zoom: the scale at which the drag began, "one" when it was no larger.
NoFinger == [mode |-> "none", zoom |-> "one", outside |-> FALSE]
Home == [moved |-> FALSE, dim |-> FALSE]
NoTimers == [pending |-> {}, held |-> 0]
NoVideo == [playing |-> FALSE, pressed |-> FALSE, paused |-> FALSE, before |-> FALSE]
NotExcused == [row |-> FALSE, size |-> FALSE, dim |-> FALSE, seek |-> FALSE, taps |-> FALSE]

\* An excuse ends with what it is for.
Lasting(e) == [e EXCEPT !.row = @ /\ track'.moved, !.size = @ /\ ~Legal(view'),
                        !.dim = @ /\ track'.dim, !.seek = @ /\ video'.paused]

-----------------------------------------------------------------------------
\* settleTransform: the scale into [1, 8] and the picture into its bounds.  A PDF
\* has no element that could be moved, and stays as it is.
Settled(v) ==
  IF Kind = "pdf" THEN v
  ELSE [zoom |-> CASE v.zoom = "under" -> "one" [] v.zoom = "over" -> "in" [] OTHER -> v.zoom,
        placed |-> TRUE]

\* doubleTapZoom
Toggled(v) ==
  IF Kind = "pdf" THEN v
  ELSE [zoom |-> IF Zoomed(v) THEN "one" ELSE "in", placed |-> TRUE]

Playable == Kind = "video"

\* The effects of a new cur: other media are paused and the one shown is played,
\* which the browser may refuse, and the transform is reset.  A seek bar that is no
\* longer shown hears no more of the pointer.
Played(kind) ==
  \E plays \in BOOLEAN :
    video' = [video EXCEPT !.playing = plays /\ kind = "video", !.pressed = @ /\ kind = "video"]

Select(k) ==
  /\ cur' = k
  /\ IF k = cur THEN UNCHANGED <<view, video>> ELSE view' = Rest /\ Played(items[k])

\* A seek bar that goes while it is pressed.
BarGone(k) == video.pressed /\ items[k] # "video"

Next1 == (cur % Len(items)) + 1
Prev1 == ((cur + Len(items) - 2) % Len(items)) + 1

-----------------------------------------------------------------------------
Init ==
  /\ items = <<>> /\ cur = 1
  /\ view = Rest /\ finger = NoFinger /\ track = Home
  /\ inertia = FALSE /\ flying = {}
  /\ tap = "none" /\ timers = NoTimers
  /\ video = NoVideo
  /\ counts = [opened |-> 0, taps |-> 0, owed |-> 0]
  /\ excused = NotExcused

\* GalleryProvider.  The state of an overlay begins and ends with it, but for
\* the animation that closes it; what opens one is under it while it is there.
Open ==
  /\ ~Isopen /\ counts.opened < MaxOpens
  /\ \E album \in Albums : \E k \in DOMAIN album :
       /\ items' = album /\ cur' = k
       /\ \E plays \in BOOLEAN :
            video' = [NoVideo EXCEPT !.playing = plays /\ album[k] = "video"]
  /\ counts' = [opened |-> counts.opened + 1, taps |-> 0, owed |-> 0]
  /\ UNCHANGED <<view, finger, track, inertia, flying, tap, timers, excused>>

Closed ==
  /\ items' = <<>> /\ cur' = 1
  /\ view' = Rest /\ finger' = NoFinger /\ track' = Home
  /\ inertia' = FALSE /\ tap' = "none" /\ timers' = NoTimers
  /\ video' = NoVideo /\ counts' = [counts EXCEPT !.taps = 0, !.owed = 0]
  /\ excused' = NotExcused

Escape == Isopen /\ Closed /\ UNCHANGED flying

\* The animation ends and closes what is open then.
FlyEnds ==
  \E id \in flying :
    /\ flying' = flying \ {id}
    /\ IF Isopen THEN Closed
       ELSE UNCHANGED <<items, cur, view, finger, track, inertia, tap, timers, video, counts, excused>>

\* The arrow keys and the thumbnails.
Go ==
  /\ Isopen
  /\ \E k \in {Next1, Prev1} \cup DOMAIN items :
       /\ Select(k)
       /\ track' = [track EXCEPT !.moved = @ /\ k = cur]
       /\ excused' = Lasting([excused EXCEPT !.seek = @ \/ BarGone(k)])
  /\ UNCHANGED <<items, finger, inertia, flying, tap, timers, counts>>

-----------------------------------------------------------------------------
\* cancelTransitions stops the inertia and clamps what it has moved.
Halted(v) == IF inertia THEN [v EXCEPT !.placed = TRUE] ELSE v

Gesturing == UNCHANGED <<items, cur, flying, tap, timers, video, counts>>

\* One finger on the picture, or on the stage beside it.  A drag that was under
\* way is forgotten, and what it has moved stays where it is; so does a picture
\* beyond the limit whose inertia is stopped.  (Only a pinch that the system took
\* away can be pressed over; the end of the next touch settles it, that of a mouse
\* does not.)
Press(outside) ==
  /\ Isopen
  /\ view' = Halted(view) /\ inertia' = FALSE
  /\ finger' = [mode |-> "pending", zoom |-> IF Zoomed(view) THEN view.zoom ELSE "one",
                outside |-> outside]
  /\ UNCHANGED track /\ Gesturing
  /\ excused' = Lasting([excused EXCEPT
                   !.row = @ \/ finger.mode = "swipe",
                   !.size = @ \/ finger.mode \in {"pan", "dismiss", "pinch"}
                              \/ (inertia /\ view.zoom = "over")])

\* Where a drag takes the picture, from the scale at which it began.
Dragged(mode, placed) ==
  CASE mode = "pan" -> [zoom |-> finger.zoom, placed |-> placed]
    [] mode = "dismiss" -> [zoom |-> "under", placed |-> FALSE]
    [] mode = "swipe" -> view

DraggedBy(mode, placed) ==
  /\ view' = Dragged(mode, placed)
  /\ track' = [moved |-> track.moved \/ mode = "swipe", dim |-> track.dim \/ mode = "dismiss"]

\* moveDrag decides what the drag is to be (where it began no longer matters) ...
MoveDecides ==
  /\ finger.mode = "pending"
  /\ \E mode \in IF finger.zoom = "one" THEN {"swipe", "dismiss"} ELSE {"pan"} :
       /\ finger' = [finger EXCEPT !.mode = mode, !.outside = FALSE]
       /\ DraggedBy(mode, FALSE)
  /\ UNCHANGED inertia /\ Gesturing
  /\ excused' = Lasting(excused)

\* ... and goes on with it.  What it moves again its end will put right.
Move ==
  /\ finger.mode \in {"pan", "swipe", "dismiss"}
  /\ \E placed \in BOOLEAN : DraggedBy(finger.mode, placed)
  /\ UNCHANGED <<finger, inertia>> /\ Gesturing
  /\ excused' = Lasting([excused EXCEPT !.row = @ /\ finger.mode # "swipe",
                                        !.dim = @ /\ finger.mode # "dismiss"])

\* A second finger: the drag is forgotten, and the row put back.
Pinch ==
  /\ Isopen
  /\ view' = Halted(view) /\ inertia' = FALSE
  /\ finger' = [NoFinger EXCEPT !.mode = "pinch"]
  /\ track' = [track EXCEPT !.moved = FALSE]
  /\ Gesturing
  /\ excused' = Lasting([excused EXCEPT !.dim = TRUE])

PinchMove ==
  /\ finger.mode = "pinch"
  /\ view' \in Views
  /\ UNCHANGED <<finger, track, inertia>> /\ Gesturing
  /\ excused' = Lasting(excused)

\* The finger that is left does nothing.
PinchEnd ==
  /\ finger.mode = "pinch"
  /\ finger' = NoFinger
  /\ view' = Settled(view)
  /\ UNCHANGED <<track, inertia>> /\ Gesturing
  /\ excused' = Lasting(excused)

\* endDrag removes what dims the page, whatever the drag was.
Undimmed(t) == [t EXCEPT !.dim = FALSE]

TapEndsMutant ==
  /\ finger.mode = "pending" /\ ~finger.outside
  /\ counts.taps < MaxTaps
  /\ finger' = NoFinger /\ track' = Undimmed(track)
  /\ view' = IF tap # "none" THEN Toggled(view) ELSE view
  /\ tap' = IF tap # "none" THEN "none" ELSE "fresh"
  /\ timers' = IF tap # "none" THEN timers
                ELSE [pending |-> timers.pending \cup {counts.taps + 1}, held |-> counts.taps + 1]
  /\ counts' = [counts EXCEPT !.taps = @ + 1, !.owed = IF tap # "none" THEN @ - 1 ELSE @ + 1]
  /\ UNCHANGED <<items, cur, inertia, flying, video>>
  /\ excused' = Lasting([excused EXCEPT
                   !.taps = @ \/ tap = "late" \/ (tap # "none" /\ timers.held = 0)])

\* handleTap, for a tap that begins a double tap ...
FirstTap ==
  /\ tap' = "fresh"
  /\ timers' = [pending |-> timers.pending \cup {counts.taps + 1}, held |-> counts.taps + 1]
  /\ counts' = [counts EXCEPT !.taps = @ + 1, !.owed = @ + 1]
  /\ UNCHANGED <<items, cur, view, inertia, flying, video>>
  /\ excused' = Lasting(excused)

\* ... and for the second one, near the first and within 300 ms.
SecondTap ==
  /\ view' = Toggled(view)
  /\ tap' = "none"
  /\ timers' = [pending |-> timers.pending \ {timers.held}, held |-> 0]
  /\ counts' = [counts EXCEPT !.taps = @ + 1, !.owed = @ - 1]
  /\ UNCHANGED <<items, cur, inertia, flying, video>>
  /\ excused' = Lasting([excused EXCEPT !.taps = @ \/ tap = "late" \/ timers.held = 0])

TapEnds ==
  /\ finger.mode = "pending" /\ ~finger.outside
  /\ counts.taps < MaxTaps
  /\ finger' = NoFinger /\ track' = Undimmed(track)
  /\ IF tap = "none" THEN FirstTap ELSE SecondTap

\* A tap too far from the last one begins anew; the timer of the last one runs on.
TapElsewhere ==
  /\ finger.mode = "pending" /\ ~finger.outside /\ tap # "none"
  /\ counts.taps < MaxTaps
  /\ finger' = NoFinger /\ track' = Undimmed(track)
  /\ FirstTap

\* 280 ms after a tap; 20 ms more and a second one is no double tap.
TimerFires ==
  /\ timers.pending # {}
  /\ LET first == CHOOSE i \in timers.pending : \A j \in timers.pending : i <= j
     IN  /\ timers' = [pending |-> timers.pending \ {first}, held |-> 0]
         /\ tap' = IF tap = "fresh" /\ first = counts.taps THEN "late" ELSE tap
         /\ counts' = [counts EXCEPT !.owed = @ - 1]
  /\ UNCHANGED <<items, cur, view, finger, track, inertia, flying, video, excused>>

TapExpires ==
  /\ tap = "late" /\ tap' = "none"
  /\ UNCHANGED <<items, cur, view, finger, track, inertia, flying, timers, video, counts, excused>>

\* A tap beside the picture closes the gallery.
TapOutside == finger.mode = "pending" /\ finger.outside /\ Closed /\ UNCHANGED flying

\* A drag that was let go of before it was decided, or that panned.
ReleaseInPlace ==
  /\ finger.mode \in {"pending", "pan"}
  /\ finger' = NoFinger /\ track' = Undimmed(track)
  /\ \/ view' = Settled(view) /\ UNCHANGED inertia
     \/ finger.mode = "pan" /\ view.placed /\ inertia' = TRUE /\ UNCHANGED view
  /\ Gesturing
  /\ excused' = Lasting(excused)

\* To another picture, releaseTrack(true) leaves the row to the effect of a new cur.
ReleaseSwipe ==
  /\ finger.mode = "swipe"
  /\ finger' = NoFinger
  /\ \/ /\ view' = Settled(view) /\ track' = Home
        /\ UNCHANGED <<cur, video>>
        /\ excused' = Lasting(excused)
     \/ \E k \in {Next1, Prev1} :
          /\ Select(k)
          /\ track' = [moved |-> k = cur, dim |-> FALSE]
          /\ excused' = Lasting([excused EXCEPT !.row = TRUE, !.seek = @ \/ BarGone(k)])
  /\ UNCHANGED <<items, inertia, flying, tap, timers, counts>>

\* flyBack; without an element there is nothing to animate.
ReleaseDismiss ==
  /\ finger.mode = "dismiss"
  /\ \/ /\ view' = Settled(view) /\ finger' = NoFinger /\ track' = Undimmed(track)
        /\ UNCHANGED inertia /\ Gesturing
        /\ excused' = Lasting(excused)
     \/ /\ Kind = "pdf" /\ Closed /\ UNCHANGED flying
     \/ /\ Kind # "pdf" /\ finger' = NoFinger
        /\ flying' = flying \cup {counts.opened}
        /\ UNCHANGED <<items, cur, view, track, inertia, tap, timers, video, counts, excused>>

-----------------------------------------------------------------------------
\* Inertia moves whatever is shown by then.
InertiaStep ==
  /\ inertia
  /\ \E placed \in BOOLEAN :
       \/ inertia' = TRUE /\ view' = [view EXCEPT !.placed = placed]
       \/ inertia' = FALSE /\ view' = Settled(view)
  /\ UNCHANGED <<finger, track>> /\ Gesturing
  /\ excused' = Lasting(excused)

Wheel ==
  /\ Isopen
  /\ \E zoom \in {"one", "in"} : view' = [zoom |-> zoom, placed |-> TRUE]
  /\ UNCHANGED <<finger, track, inertia>> /\ Gesturing
  /\ excused' = Lasting(excused)

-----------------------------------------------------------------------------
\* The controls of a video.
Controls ==
  /\ UNCHANGED <<items, cur, view, finger, track, inertia, flying, tap, timers, counts>>
  /\ excused' = Lasting(excused)

PlayPause ==
  /\ Isopen /\ Playable
  /\ video' = [video EXCEPT !.playing = ~@]
  /\ Controls

\* A second pointer may press the bar as well.
SeekPress ==
  /\ Isopen /\ Playable
  /\ video' = [playing |-> FALSE, pressed |-> TRUE, paused |-> video.paused \/ video.playing,
               before |-> video.playing \/ (video.pressed /\ video.before)]
  /\ Controls

\* releaseSeek
SeekRelease ==
  /\ Isopen /\ Playable /\ video.pressed
  /\ video' = [video EXCEPT !.pressed = FALSE, !.paused = FALSE, !.before = FALSE,
                            !.playing = @ \/ video.paused]
  /\ Controls

Next ==
  \/ Open \/ Escape \/ FlyEnds \/ Go
  \/ \E outside \in BOOLEAN : Press(outside)
  \/ MoveDecides \/ Move \/ Pinch \/ PinchMove \/ PinchEnd
  \/ TapEnds \/ TapElsewhere \/ TapOutside \/ TimerFires \/ TapExpires
  \/ ReleaseInPlace \/ ReleaseSwipe \/ ReleaseDismiss
  \/ InertiaStep \/ Wheel
  \/ PlayPause \/ SeekPress \/ SeekRelease

Spec == Init /\ [][Next]_vars

-----------------------------------------------------------------------------
\* Well-typed states.
TypeOK ==
  /\ items \in Albums \cup {<<>>}
  /\ Isopen => cur \in DOMAIN items
  /\ view \in Views
  /\ finger \in [mode : {"none", "pending", "pan", "swipe", "dismiss", "pinch"},
                 zoom : {"one", "in", "over"}, outside : BOOLEAN]
  /\ track \in [moved : BOOLEAN, dim : BOOLEAN]
  /\ tap \in {"none", "fresh", "late"}
  /\ timers.held \in timers.pending \cup {0}
  /\ flying \subseteq 1 .. counts.opened

\* Once no gesture and no motion is left the picture has a legal size and place,
\* the row stands where the current one is shown and the page does not show
\* through, whatever interrupted what.  Excepted are
\* - a row of one picture that was swiped (GalleryOverlay.tsx:519: cur stays, so
\*   nothing puts the row back);
\* - a press over a gesture or a motion under way (361, 622): it forgets the drag,
\*   and a tap that ends it puts neither the row nor the picture right, until the
\*   next gesture, the wheel or another picture does;
\* - a second finger on a gallery being pulled away (571: nobody dims it again until
\*   the next drag);
\* - a PDF, which keeps a scale that nothing can settle (262).
RestsWell ==
  Isopen /\ finger.mode = "none" /\ ~inertia /\ flying = {} =>
    /\ Legal(view) \/ excused.size \/ Kind = "pdf"
    /\ track.moved => excused.row
    /\ track.dim => excused.dim

\* Once the timers have run the thumbnails were toggled once for every tap that
\* was not part of a double tap, and not for the others.  Excepted are double taps
\* whose second one comes in the 20 ms after the timer fired (GalleryOverlay.tsx:328
\* and 341) or whose timer is no longer held because that of an earlier tap fired
\* in between (339).
TapsCounted ==
  Isopen /\ timers.pending = {} /\ ~excused.taps => counts.owed = 0

\* A video that did not play before its seek bar was used does not play after,
\* unless the one the bar was pressed for had been left meanwhile for something
\* without a bar (GalleryOverlay.tsx:558: the press is not forgotten then).
SeekKeepsState ==
  Isopen /\ video.pressed /\ ~excused.seek => (video.paused => video.before)

\* Whatever gestures, animations and timers interrupt one another, the gallery
\* ends up as the user left it.
GallerySafety == TypeOK /\ RestsWell /\ TapsCounted /\ SeekKeepsState
=============================================================================
