------------------------------ MODULE Reading ------------------------------
(***************************************************************************)
(* Where a reader is in a thread: the page of a thread scrolls to follow   *)
(* new posts while its reader is at the end (ThreadPage.tsx), and counts   *)
(* as unread, below a marker, those that came otherwise (unread.ts).       *)
(*                                                                         *)
(* The two decide apart: each keeps its own idea of whether the reader is  *)
(* at the end, from the scroll events, which come a frame after the page   *)
(* has moved, and each looks for itself whether posts came live or with a  *)
(* reload.  Following takes two frames and a smooth scroll, during which   *)
(* the reader may move, hide the page or receive more.                     *)
(*                                                                         *)
(* A post is one unit high; so is the window less the box of the composer  *)
(* when it has one line.                                                   *)
(***************************************************************************)
EXTENDS Naturals, FiniteSetsExt

CONSTANTS
  Window,    \* the height of the window
  MaxBox,    \* and of the composer at most
  First,     \* posts of the thread when it is opened
  MaxPosts,  \* bound: posts of the thread
  MaxSteps   \* bound: steps of the reader and of other users

ReadingAssumption ==
  /\ {Window, MaxBox, First, MaxPosts, MaxSteps} \subseteq Nat
  /\ 0 < MaxBox /\ MaxBox < Window /\ 0 < First /\ First <= MaxPosts

VARIABLES
  posts,    \* how many are shown
  box,      \* the height of the composer
  y,        \* the position of the window
  visible,  \* the page can be seen
  event,    \* a scroll event is due
  chase,    \* the frames to wait for before the smooth scroll
  glide,    \* where the smooth scroll goes, or 0
  resyncs,  \* of the store
  page,     \* what ThreadPage.tsx keeps
  unread,   \* what unread.ts keeps
  seen,     \* the last post that was in sight, for the properties
  stood,    \* the reader stood at the end when last looked at
  excused,  \* the last one that may be taken for read unseen, see ReadIsSeen
  wentUp,   \* the reader has gone up from where the page took conclusions
  left      \* what is left of the bound

vars == <<posts, box, y, visible, event, chase, glide, resyncs, page, unread, seen, stood, excused, wentUp, left>>

Started == left > 0 /\ left' = left - 1

Bottom(n, b) == IF n + b > Window THEN n + b - Window ELSE 0

max == Bottom(posts, box)

\* Where the window is when what is below it goes away.
Held(at, end) == Min({at, end})

\* The last post that is in sight.
InSight(n, b, at) == Min({n, at + Window - b})

\* What the reader sees after a step is seen.
Look == seen' = IF visible' THEN Max({seen, InSight(posts', box', y')}) ELSE seen

\* Where the reader stands, looked at with the posts laid out.
Stands == stood' = IF visible' THEN y' >= Bottom(posts', box') ELSE stood

NoMarker == 0

-----------------------------------------------------------------------------
\* measure: after a scroll.  After a step of the page's own to keep up with the
\* composer nothing is concluded for a while.
Measured(p) ==
  LET end == y >= max IN
  IF p.adjusting THEN [p EXCEPT !.lastMax = max, !.lastY = y]
  ELSE IF end
       THEN [p EXCEPT !.lastMax = max, !.lastY = y, !.pinned = TRUE, !.atEnd = TRUE, !.follow = "none"]
       ELSE IF p.follow = "live"
            THEN [p EXCEPT !.lastMax = max, !.lastY = y]
            ELSE [p EXCEPT !.lastMax = max, !.lastY = y, !.atEnd = FALSE,
                           !.pinned = @ /\ y >= p.lastY]

AlignMutant(u, n, at, end) ==
  IF at + 1 >= end THEN [u EXCEPT !.wasAtBottom = TRUE, !.read = n, !.count = 0, !.timer = TRUE]
  ELSE [u EXCEPT !.wasAtBottom = FALSE]

\* align: whoever is at the end of a visible page has read everything.
Align(u, n, at, end) ==
  IF at >= end THEN [u EXCEPT !.wasAtBottom = TRUE, !.read = n, !.count = 0, !.timer = TRUE]
  ELSE [u EXCEPT !.wasAtBottom = FALSE]

\* The effect of unread.ts on the number of posts, with the new ones laid out.
Counted(u, n, reload) ==
  LET missed == reload # u.seenReload
      w == [u EXCEPT !.seenReload = reload]
      end == Bottom(n, box)
  IN IF ~missed /\ u.wasAtBottom /\ visible
     THEN [w EXCEPT !.read = n, !.count = 0, !.wasAtBottom = y >= end]
     ELSE LET a == IF visible THEN Align(w, n, y, end) ELSE w IN
          IF a.read < n
          THEN [a EXCEPT !.timer = FALSE, !.marker = a.read + 1, !.count = n - a.read]
          ELSE a

\* The effect of ThreadPage.tsx on the number of posts.
Followed(p, n, reload) ==
  IF n <= posts THEN p
  ELSE LET w == [p EXCEPT !.seenResync = reload] IN
       IF reload # p.seenResync \/ ~visible
       THEN [w EXCEPT !.pinned = FALSE, !.atEnd = FALSE, !.lastMax = Bottom(n, box), !.lastY = y]
       ELSE [w EXCEPT !.pinned = @ \/ y >= p.lastMax]

Chases(p, n, reload) == n > posts /\ reload = p.seenResync /\ visible /\ Followed(p, n, reload).pinned

-----------------------------------------------------------------------------
Init ==
  /\ posts = First /\ box = 1 /\ y = 0 /\ visible = TRUE
  /\ event = FALSE /\ chase = FALSE /\ glide = 0 /\ resyncs = 0
  /\ page = [pinned |-> max = 0, atEnd |-> max = 0, lastY |-> 0, lastMax |-> max,
             adjusting |-> FALSE, follow |-> "none", seenResync |-> 0]
  /\ unread = [marker |-> NoMarker, count |-> 0, read |-> First, timer |-> FALSE,
               wasAtBottom |-> max = 0, seenReload |-> 0]
  /\ seen = InSight(First, 1, 0) /\ stood = (max = 0) /\ excused = First /\ wentUp = FALSE
  /\ left = MaxSteps

\* New posts, live or with a reload; of those of a reload some may be deleted ones, which
\* are not shown.
Arrive(n, reload) ==
  LET seq == resyncs + (IF reload THEN 1 ELSE 0) IN
  /\ Started
  /\ posts' = posts + n
  /\ n > 0 \/ reload
  /\ resyncs' = seq
  /\ unread' = Counted(unread, posts + n, seq)
  /\ page' = Followed(page, posts + n, seq)
  /\ chase' = (chase \/ Chases(page, posts + n, seq))
  /\ excused' = IF stood /\ visible /\ ~reload /\ ~page'.pinned
                THEN Max({excused, posts + n}) ELSE excused
  /\ wentUp' = (wentUp /\ ~event)
  /\ UNCHANGED <<box, y, visible, event, glide>>
  /\ Look /\ Stands

\* A post is deleted, and not shown.  What is read is a number: of the posts before the
\* deleted one it says no more what it said.
Vanish(k) ==
  /\ Started
  /\ posts > 1
  /\ posts' = posts - 1
  /\ y' = Held(y, Bottom(posts - 1, box))
  /\ event' = (event \/ y' # y)
  /\ glide' = IF y' >= glide THEN 0 ELSE glide
  /\ unread' = Counted(unread, posts - 1, resyncs)
  /\ page' = Followed(page, posts - 1, resyncs)
  /\ excused' = IF k <= unread.read THEN Max({excused, unread.read}) ELSE excused
  /\ wentUp' = (wentUp /\ y' < Bottom(posts', box))
  /\ UNCHANGED <<box, visible, chase, resyncs>>
  /\ Stands
  /\ seen' = LET s == IF k <= seen THEN seen - 1 ELSE seen
             IN IF visible THEN Max({s, InSight(posts', box, y')}) ELSE s

\* Two frames later, after the scroll events of the frame: the scroll to what is the end
\* by then.
ChaseStarts ==
  /\ visible /\ chase /\ ~event
  /\ chase' = FALSE
  /\ glide' = IF max > y THEN max ELSE 0
  /\ page' = [page EXCEPT !.follow = "live"]
  /\ UNCHANGED <<posts, box, y, visible, event, resyncs, unread, seen, stood, excused, wentUp, left>>

Glides ==
  /\ visible /\ glide > 0
  /\ y' = Min({y + 1, max}) /\ event' = (event \/ y' # y)
  /\ glide' = IF y' >= Min({glide, max}) THEN 0 ELSE glide
  /\ UNCHANGED <<posts, box, visible, chase, resyncs, page, unread, stood, excused, wentUp, left>>
  /\ Look

FollowExpires ==
  /\ page.follow = "live"
  /\ page' = [page EXCEPT !.follow = "over"]
  /\ UNCHANGED <<posts, box, y, visible, event, chase, glide, resyncs, unread, seen, stood, excused, wentUp, left>>

AdjustExpires ==
  /\ page.adjusting
  /\ page' = [page EXCEPT !.adjusting = FALSE]
  /\ UNCHANGED <<posts, box, y, visible, event, chase, glide, resyncs, unread, seen, stood, excused, wentUp, left>>

\* The scroll event, and in its frame the count of what was read.
ScrollEvent ==
  /\ visible /\ event
  /\ event' = FALSE
  /\ page' = Measured(page)
  /\ unread' = Align(unread, posts, y, max)
  /\ wentUp' = (wentUp /\ y < max)
  /\ UNCHANGED <<posts, box, y, visible, chase, glide, resyncs, seen, excused, left>>
  /\ Stands

HideMarker ==
  /\ unread.timer
  /\ unread' = [unread EXCEPT !.timer = FALSE, !.marker = NoMarker]
  /\ UNCHANGED <<posts, box, y, visible, event, chase, glide, resyncs, page, seen, stood, excused, wentUp, left>>

-----------------------------------------------------------------------------
\* The reader.  What was being scrolled to when the reader leaves is excused.
Leaves == excused' = IF glide > 0 THEN Max({excused, posts}) ELSE excused

\* By the wheel, by touch and by keys the scroll of the page is given up; by the bar, or
\* by a link to a post, it is not.
Scroll(to, yields) ==
  /\ Started
  /\ visible /\ to # y
  /\ y' = to /\ event' = TRUE /\ glide' = 0
  /\ page' = IF yields THEN [page EXCEPT !.follow = "none"] ELSE page
  /\ wentUp' = (to < y /\ ~event /\ ~chase /\ ~page.adjusting /\ page'.follow # "live")
  /\ UNCHANGED <<posts, box, visible, chase, resyncs, unread, stood>>
  /\ Look /\ Leaves

Up ==
  /\ Started
  /\ visible /\ y > 0
  /\ y' = 0 /\ event' = TRUE /\ glide' = 0
  /\ page' = [page EXCEPT !.adjusting = FALSE, !.pinned = FALSE, !.atEnd = FALSE]
  /\ UNCHANGED <<posts, box, visible, chase, resyncs, unread, stood>>
  /\ wentUp' = ~chase
  /\ Look /\ Leaves

Down ==
  /\ Started
  /\ visible /\ ~page.atEnd
  /\ y' = max /\ event' = (event \/ y # max) /\ glide' = 0
  /\ page' = [page EXCEPT !.adjusting = FALSE, !.pinned = TRUE, !.atEnd = TRUE]
  /\ UNCHANGED <<posts, box, visible, chase, resyncs, unread, stood, excused>>
  /\ wentUp' = FALSE
  /\ Look

Hide ==
  /\ Started
  /\ visible
  /\ visible' = FALSE
  /\ UNCHANGED <<posts, box, y, event, chase, glide, resyncs, page, unread, seen, stood, wentUp>>
  /\ Leaves

Show ==
  /\ ~visible
  /\ visible' = TRUE
  /\ unread' = Align(unread, posts, y, max)
  /\ UNCHANGED <<posts, box, y, event, chase, glide, resyncs, page, excused, wentUp, left>>
  /\ Look /\ Stands

\* The composer grows or shrinks with what is written: at the end, the page keeps up.
Resize(b) ==
  LET pinned == page.pinned \/ y >= page.lastMax
      keeps == b > box /\ pinned /\ page.follow = "none"
      end == Bottom(posts, b)
  IN /\ Started
     /\ visible /\ ~event /\ b # box
     /\ box' = b
     /\ y' = IF keeps THEN end ELSE Held(y, end)
     /\ event' = (event \/ y' # y)
     /\ glide' = IF keeps THEN 0 ELSE Min({glide, end})
     /\ page' = [page EXCEPT !.pinned = pinned, !.adjusting = @ \/ keeps]
     /\ wentUp' = (wentUp /\ y' < end)
     /\ excused' = IF b > box /\ ~keeps /\ glide > 0 THEN Max({excused, posts}) ELSE excused
     /\ UNCHANGED <<posts, visible, chase, resyncs, unread, stood>>
     /\ Look

Next ==
  \/ \E n \in 0..(MaxPosts - posts), reload \in BOOLEAN : Arrive(n, reload)
  \/ \E k \in 1..posts : Vanish(k)
  \/ ChaseStarts \/ Glides \/ FollowExpires \/ AdjustExpires \/ ScrollEvent \/ HideMarker
  \/ \E to \in 0..max, yields \in BOOLEAN : Scroll(to, yields)
  \/ Up \/ Down \/ Hide \/ Show
  \/ \E b \in 1..MaxBox : Resize(b)

Spec == Init /\ [][Next]_vars

-----------------------------------------------------------------------------
\* Type invariant; the window is within the page.
TypeOK ==
  /\ posts \in 1..MaxPosts /\ box \in 1..MaxBox /\ y \in 0..max
  /\ {visible, event, chase, page.pinned, page.atEnd, page.adjusting,
      unread.timer, unread.wasAtBottom} \subseteq BOOLEAN
  /\ page.follow \in {"none", "live", "over"} /\ unread.marker \in Nat
  /\ glide \in 0..(MaxPosts + MaxBox)

\* What counts as read was in sight, or is being scrolled to (ThreadPage.tsx, 152-176;
\* unread.ts, 53-83).  Four things go wrong in the code, and are excused: the reader leaves,
\* or the composer grows, while the page scrolls to a post that counts as read already; the
\* page does not know that the reader of a visible page stands at the end, as when a post has
\* been deleted, and does not follow posts that come live and count as read; and of a
\* number of posts read a deleted one was part.
ReadIsSeen ==
  chase \/ glide > 0 \/ unread.read <= Max({seen, excused})

\* While something is unread its marker stands before the first of it, no timer is about
\* to take it away, and the number is right, unless what was unread has been deleted.
MarkerStands ==
  unread.count > 0 =>
    /\ ~unread.timer /\ unread.marker = unread.read + 1
    /\ unread.read < posts => unread.read + unread.count = posts

\* A reader who has gone up is not pulled to the end, by posts, by what is written in the
\* composer or by both (ThreadPage.tsx, 94-116, 152-203), unless that was under way.
NotPulledBack ==
  wentUp /\ ~event => ~page.pinned /\ ~chase /\ glide = 0

\* The position, the marker and the number of unread posts agree with what the
\* reader has seen.
ReadingSafety == TypeOK /\ ReadIsSeen /\ MarkerStands /\ NotPulledBack
=============================================================================
