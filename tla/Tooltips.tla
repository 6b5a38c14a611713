----------------------------- MODULE Tooltips -----------------------------
(***************************************************************************)
(* The previews of posts that open over the links to them and over one      *)
(* another: a link opens its preview a moment after the pointer enters it   *)
(* (or at a tap), a preview the pointer has left goes after a delay,        *)
(* together with everything opened after it, and fades.                     *)
(*                                                                          *)
(* A link is <<where, name>>: where it stands, 0 for the page or the        *)
(* preview it stands in. A place of the pointer is a link, or               *)
(* <<where, None>> for the rest of the page or of a preview.                *)
(***************************************************************************)
EXTENDS Integers, Sequences, FiniteSets, FiniteSetsExt

CONSTANTS
  Links,      \* links of the page, and of every preview
  None,       \* no link
  MaxId,      \* bound: previews opened in a behaviour
  MaxMoves    \* bound: movements of the pointer and of the page

VARIABLES
  touch,      \* TRUE: fingers, FALSE: a mouse
  chain,      \* the open previews, outermost first: [id, anchor]
  fading,     \* the previews on their way out: groups that go together
  closeTimer, \* the delay after which what the pointer has left goes
  hover,      \* the link about to open its preview, or None
  at,         \* where the pointer is
  lastMove,   \* where it was at its last event
  scrolled,   \* bookkeeping: the page has moved under it since
  nextId, moves

vars == <<touch, chain, fading, closeTimer, hover, at, lastMove, scrolled, nextId, moves>>

Page == <<0, None>>
Ids(c) == {c[i].id : i \in DOMAIN c}
Places == ({0} \cup Ids(chain)) \X (Links \cup {None})

IsOver(entry, place) == place[1] = entry.id \/ place = entry.anchor

DeepestUnderMutant(place) == Max({0} \cup {i \in DOMAIN chain : place[1] = chain[i].id})
DeepestUnder(place) == Max({0} \cup {i \in DOMAIN chain : IsOver(chain[i], place)})

\* `group` starts to fade, unless there is nothing in it.
Fade(group) == fading' = IF group = {} THEN fading ELSE fading \cup {group}

Truncate(keep) ==
  /\ chain' = SubSeq(chain, 1, keep)
  /\ Fade(Ids(chain) \ Ids(SubSeq(chain, 1, keep)))

\* After an event of the pointer at `place`.
KeepUnderMutant(place, delayed) ==
  /\ lastMove' = place /\ scrolled' = FALSE
  /\ IF delayed \/ DeepestUnder(place) = Len(chain)
       THEN /\ closeTimer' = (DeepestUnder(place) \in 1..(Len(chain) - 1))
            /\ UNCHANGED <<chain, fading>>
       ELSE /\ Truncate(DeepestUnder(place))
            /\ closeTimer' = (closeTimer /\ DeepestUnder(place) > 0)
KeepUnder(place, delayed) ==
  /\ lastMove' = place /\ scrolled' = FALSE
  /\ IF delayed \/ DeepestUnder(place) = Len(chain)
       THEN /\ closeTimer' = (DeepestUnder(place) < Len(chain))
            /\ UNCHANGED <<chain, fading>>
       ELSE /\ Truncate(DeepestUnder(place))
            /\ closeTimer' = (closeTimer /\ DeepestUnder(place) > 0)

IsOpen(c, anchor) == \E i \in DOMAIN c : c[i].anchor = anchor
Nested(c, anchor) == anchor[1] \in Ids(c)

\* The preview of `anchor` opens over the previews `c`: in a preview of the
\* chain it joins the chain, elsewhere it takes its place.
Joined(c, anchor) ==
  LET entry == [id |-> nextId, anchor |-> anchor]
  IN  IF IsOpen(c, anchor) THEN c
      ELSE IF Nested(c, anchor) THEN Append(c, entry) ELSE <<entry>>

Open(c, anchor) ==
  /\ IsOpen(c, anchor) \/ nextId <= MaxId
  /\ chain' = Joined(c, anchor)
  /\ nextId' = IF IsOpen(c, anchor) THEN nextId ELSE nextId + 1

---------------------------------------------------------------------------

Init ==
  /\ touch \in BOOLEAN
  /\ chain = <<>> /\ fading = {} /\ closeTimer = FALSE /\ hover = None
  /\ at = Page /\ lastMove = Page /\ scrolled = FALSE /\ nextId = 1 /\ moves = 0

\* Entering a link starts its delay, leaving it ends it.
Hovering(place) == hover' = IF place[2] = None THEN None ELSE place

Move(place) ==
  /\ ~touch /\ place # at /\ moves < MaxMoves
  /\ moves' = moves + 1 /\ at' = place
  /\ KeepUnder(place, TRUE) /\ Hovering(place)
  /\ UNCHANGED <<touch, nextId>>

\* The page moves under a pointer that does not: links are entered and
\* left, and nobody hears of a movement of the pointer.
Scroll(place) ==
  /\ ~touch /\ place # at /\ moves < MaxMoves
  /\ moves' = moves + 1 /\ at' = place /\ Hovering(place) /\ scrolled' = TRUE
  /\ UNCHANGED <<touch, chain, fading, closeTimer, lastMove, nextId>>

Press ==
  /\ ~touch /\ moves < MaxMoves
  /\ moves' = moves + 1 /\ KeepUnder(at, FALSE)
  /\ UNCHANGED <<touch, hover, at, nextId>>

\* A tap presses, then clicks: a link whose preview is not open opens it.
Tap(place) ==
  /\ touch /\ moves < MaxMoves
  /\ moves' = moves + 1 /\ at' = place /\ lastMove' = place /\ scrolled' = FALSE
  /\ LET kept == SubSeq(chain, 1, DeepestUnder(place))
     IN  IF place[2] = None
           THEN chain' = kept /\ UNCHANGED nextId
           ELSE Open(kept, place)
  /\ Fade(Ids(chain) \ Ids(chain'))
  /\ UNCHANGED <<touch, closeTimer, hover>>

HoverEnds ==
  /\ hover # None
  /\ Open(chain, hover)
  /\ Fade(Ids(chain) \ Ids(chain'))
  /\ closeTimer' = (closeTimer /\ IsOpen(chain, hover))
  /\ hover' = None
  /\ UNCHANGED <<touch, at, lastMove, scrolled, moves>>

CloseDelayEnds ==
  /\ closeTimer /\ closeTimer' = FALSE
  /\ Truncate(DeepestUnder(lastMove))
  /\ UNCHANGED <<touch, hover, at, lastMove, scrolled, nextId, moves>>

FadeEnds(group) ==
  /\ fading' = fading \ {group}
  /\ UNCHANGED <<touch, chain, closeTimer, hover, at, lastMove, scrolled, nextId, moves>>

Next ==
  \/ \E place \in Places : Move(place) \/ Scroll(place) \/ Tap(place)
  \/ Press \/ HoverEnds \/ CloseDelayEnds
  \/ \E group \in fading : FadeEnds(group)

Spec == Init /\ [][Next]_vars

---------------------------------------------------------------------------

(* A preview is either open or on its way out, in one group only, and a     *)
(* delay runs only while there is something to close.                       *)
TypeOK ==
  /\ \A i, j \in DOMAIN chain : chain[i].id = chain[j].id => i = j
  /\ \A g, h \in fading : g = h \/ g \cap h = {}
  /\ \A g \in fading : g # {} /\ g \cap Ids(chain) = {}
  /\ closeTimer => chain # <<>>

(* No preview floats alone: the link each one hangs on is on the page or in *)
(* a preview opened before it that is still open, so that closing from the  *)
(* inside out never leaves one whose link has gone. Only the outermost may  *)
(* hang on a link of a preview that has begun to fade.                      *)
HangsOnOpenLink ==
  \A i \in 2..Len(chain) : \E j \in 1..(i - 1) : chain[i].anchor[1] = chain[j].id

(* What the reader points at stays: as long as the page has not moved under *)
(* the pointer, no preview it is over, and none that one hangs on, begins   *)
(* to fade.                                                                 *)
Stays ==
  \A i \in DOMAIN chain :
    /\ at = at' /\ ~scrolled
    /\ \E j \in i..Len(chain) : IsOver(chain[j], at)
    => chain[i].id \in Ids(chain')
StaysUnderPointer == [][Stays]_vars

(* What the pointer has left is about to go: as long as the page has not    *)
(* moved under the pointer, the delay runs whenever it is not over the      *)
(* innermost preview, so that nothing is left to be closed by hand.         *)
LeftIsGoing == ~scrolled /\ DeepestUnder(at) < Len(chain) => closeTimer

(* The open previews are a chain from the page to the innermost, and close  *)
(* behind the pointer.                                                      *)
TooltipsSafety == TypeOK /\ HangsOnOpenLink /\ LeftIsGoing
=============================================================================
