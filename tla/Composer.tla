----------------------------- MODULE Composer -----------------------------
(***************************************************************************)
(* The box a user writes in (PostComposer.tsx): replies to a thread, new   *)
(* threads and edits of posts, with the drafts that outlive it             *)
(* (composerDraft.ts).                                                     *)
(*                                                                         *)
(* There is one draft for replies, whatever the thread, and one for new    *)
(* threads; the box is filled from it when its page is shown and saves     *)
(* itself into it at every change.  An edit uses the box of the replies:   *)
(* the text of the post replaces what is in it, again each time the record *)
(* of the post is rebuilt.  What is sent is what was in the box when the   *)
(* button was pressed; the box stays open to the user meanwhile.           *)
(*                                                                         *)
(* A text is the set of the pieces it is made of: words the user typed and *)
(* the texts of posts.                                                     *)
(***************************************************************************)
EXTENDS Naturals, FiniteSets

CONSTANTS
  Words,     \* pieces of text, each typed once
  Posts,     \* posts the user may edit; a post stands for its text too
  Threads,
  Own,       \* the threads the user opened
  Files,
  MaxMedia,  \* files a post of the board may have
  MaxSteps   \* bound: times a page is shown, an edit begun or a button pressed

ComposerAssumption ==
  /\ Words \cap Posts = {} /\ "no post" \notin Posts /\ Own \subseteq Threads
  /\ IsFiniteSet(Words) /\ IsFiniteSet(Posts) /\ IsFiniteSet(Files)
  /\ MaxMedia \in Nat /\ MaxSteps \in Nat

VARIABLES
  drafts,  \* of each mode
  comp,    \* the composer of the page shown
  sends,   \* what is under way
  busy,    \* a deed of the application is under way
  posted,  \* the new posts of the chain
  wrote,   \* the texts edits gave to posts
  typed, gone, lost, again, strayed,  \* what happened to pieces, for the properties
  left     \* what is left of the bound

vars == <<drafts, comp, sends, busy, posted, wrote, typed, gone, lost, again, strayed, left>>
history == <<typed, gone, lost, again, strayed>>

Modes == {"reply", "thread"}

Forms == [text : SUBSET (Words \cup Posts), files : SUBSET Files, as : {"anonymous", "op"}]

EmptyForm == [text |-> {}, files |-> {}, as |-> "anonymous"]

NoComposer == [shown |-> FALSE]

NoEdit == "no post"

Started == left > 0 /\ left' = left - 1

-----------------------------------------------------------------------------
\* The roles of the user on the page: a new thread has no opening post yet.
Roles(mode, t) == {"anonymous"} \cup (IF mode = "reply" /\ t \in Own THEN {"op"} ELSE {})

\* createEffect: a role the page does not offer falls back.
Fallback(f, mode, t) == IF f.as \in Roles(mode, t) THEN f ELSE [f EXCEPT !.as = "anonymous"]

Creating == \E s \in sends : s.own /\ s.kind # "edit"

CanSend ==
  IF comp.editing # NoEdit THEN ~busy /\ comp.form.text # {}
  ELSE ~Creating /\ (comp.form.files # {} \/ comp.form.text # {})

\* createEffect: every change of the box is saved in the draft of its mode.
Saved(f) == f

Put(f, edit) ==
  /\ comp' = [comp EXCEPT !.form = f, !.editing = edit]
  /\ drafts' = [drafts EXCEPT ![comp.mode] = Saved(f)]

Stay(f) == Put(f, comp.editing)

Init ==
  /\ drafts = [m \in Modes |-> EmptyForm]
  /\ comp = NoComposer
  /\ sends = {} /\ busy = FALSE
  /\ posted = {} /\ wrote = {}
  /\ typed = {} /\ gone = {} /\ lost = {} /\ again = {} /\ strayed = {}
  /\ left = MaxSteps

Mount(mode, t) ==
  /\ Started
  /\ ~comp.shown
  /\ LET f == Fallback(drafts[mode], mode, t) IN
     /\ comp' = [shown |-> TRUE, mode |-> mode, thread |-> t, editing |-> NoEdit,
                 limit |-> FALSE, form |-> f]
     /\ drafts' = [drafts EXCEPT ![mode] = Saved(f)]
  /\ UNCHANGED <<sends, busy, posted, wrote, history>>

\* The page is left: what is being sent goes on, for a box that is no more.
Unmount ==
  /\ comp.shown
  /\ comp' = NoComposer
  /\ sends' = {[s EXCEPT !.own = FALSE] : s \in sends}
  /\ again' = again \cup UNION {s.text : s \in sends}
  /\ strayed' = IF comp.editing # NoEdit THEN strayed \cup (comp.form.text \cap Posts) ELSE strayed
  /\ UNCHANGED <<drafts, busy, posted, wrote, typed, gone, lost, left>>

-----------------------------------------------------------------------------
\* The user at the box.
Type(w) ==
  /\ comp.shown /\ w \notin typed
  /\ Stay([comp.form EXCEPT !.text = @ \cup {w}])
  /\ typed' = typed \cup {w}
  /\ UNCHANGED <<sends, busy, posted, wrote, gone, lost, again, strayed, left>>

\* A quote or a link to a post goes in place of what is selected.
InsertReply(w, selected) ==
  /\ comp.shown /\ w \notin typed /\ selected # {} /\ selected \subseteq comp.form.text
  /\ Stay([comp.form EXCEPT !.text = (@ \ selected) \cup {w}])
  /\ typed' = typed \cup {w} /\ gone' = gone \cup selected
  /\ UNCHANGED <<sends, busy, posted, wrote, lost, again, strayed, left>>

\* Files beyond the limit are left out, once the limit is known.
Accepted(fs) ==
  IF comp.limit
  THEN {g \in SUBSET fs : Cardinality(g) =
          IF Cardinality(comp.form.files) + Cardinality(fs) <= MaxMedia THEN Cardinality(fs)
          ELSE IF Cardinality(comp.form.files) <= MaxMedia
               THEN MaxMedia - Cardinality(comp.form.files) ELSE 0}
  ELSE {fs}

\* The clip is hidden while a post is edited; files that are dropped or pasted are taken
\* then too.
AddFiles(fs) ==
  /\ comp.shown
  /\ fs # {} /\ fs \cap comp.form.files = {}
  /\ \E g \in Accepted(fs) : Stay([comp.form EXCEPT !.files = @ \cup g])
  /\ UNCHANGED <<sends, busy, posted, wrote, history, left>>

RemoveFile(f) ==
  /\ comp.shown /\ f \in comp.form.files
  /\ Stay([comp.form EXCEPT !.files = @ \ {f}])
  /\ UNCHANGED <<sends, busy, posted, wrote, history, left>>

LimitKnown ==
  /\ comp.shown /\ ~comp.limit
  /\ comp' = [comp EXCEPT !.limit = TRUE]
  /\ UNCHANGED <<drafts, sends, busy, posted, wrote, history, left>>

SetSendAs(k) ==
  /\ comp.shown /\ k \in Roles(comp.mode, comp.thread) /\ k # comp.form.as
  /\ Stay([comp.form EXCEPT !.as = k])
  /\ UNCHANGED <<sends, busy, posted, wrote, history, left>>

-----------------------------------------------------------------------------
\* createEffect: the text of the post that is edited takes the place of what is there.
SourceText(f, p) == [f EXCEPT !.text = {p}]

Edit(p) ==
  /\ Started
  /\ comp.shown /\ comp.mode = "reply" /\ comp.editing # p
  /\ Put(SourceText(comp.form, p), p)
  /\ lost' = lost \cup comp.form.text
  /\ UNCHANGED <<sends, busy, posted, wrote, typed, gone, again, strayed>>

\* The record of the post is rebuilt, by a reaction to it or by anything else.
Rebuilt ==
  /\ comp.shown /\ comp.editing # NoEdit
  /\ Stay(SourceText(comp.form, comp.editing))
  /\ lost' = lost \cup comp.form.text
  /\ UNCHANGED <<sends, busy, posted, wrote, typed, gone, again, strayed, left>>

\* The cross beside the box leaves the edit and what is in the box.
CancelEdit ==
  /\ comp.shown /\ comp.editing # NoEdit
  /\ Put(comp.form, NoEdit)
  /\ strayed' = strayed \cup (comp.form.text \cap Posts)
  /\ UNCHANGED <<sends, busy, posted, wrote, typed, gone, lost, again, left>>

\* What goes out is what the box holds now.
Captured(kind) ==
  [kind |-> kind, own |-> TRUE, landed |-> FALSE, on |-> comp.thread, post |-> comp.editing,
   text |-> comp.form.text, files |-> comp.form.files, as |-> comp.form.as]

SubmitNew ==
  /\ Started
  /\ comp.shown /\ comp.editing = NoEdit /\ CanSend
  /\ sends' = sends \cup {Captured(comp.mode)}
  /\ UNCHANGED <<drafts, comp, busy, posted, wrote, history>>

SubmitEdit ==
  /\ Started
  /\ comp.shown /\ comp.editing # NoEdit /\ CanSend
  /\ sends' = sends \cup {Captured("edit")}
  /\ busy' = TRUE
  /\ UNCHANGED <<drafts, comp, posted, wrote, history>>

\* The relay has it.
Lands(s) ==
  /\ ~s.landed
  /\ sends' = (sends \ {s}) \cup {[s EXCEPT !.landed = TRUE]}
  /\ IF s.kind = "edit"
     THEN wrote' = wrote \cup {[post |-> s.post, text |-> s.text]} /\ UNCHANGED posted
     ELSE /\ posted' = posted \cup {[on |-> s.on, kind |-> s.kind, text |-> s.text, as |-> s.as,
                                     n |-> Cardinality(posted)]}
          /\ UNCHANGED wrote
  /\ UNCHANGED <<drafts, comp, busy, history, left>>

AfterNewMutant(f) == [f EXCEPT !.files = {}]

\* The box after a new post: emptied, of what was typed since too; the role stays.
AfterNew(f) == [f EXCEPT !.text = {}, !.files = {}]

NewEnds(s) ==
  /\ s.kind # "edit" /\ s.landed
  /\ sends' = sends \ {s}
  /\ IF s.own
     THEN Stay(AfterNew(comp.form)) /\ lost' = lost \cup (comp.form.text \ s.text)
     ELSE UNCHANGED <<comp, drafts, lost>>
  /\ UNCHANGED <<busy, posted, wrote, typed, gone, again, strayed, left>>

\* It failed, or its answer was lost: the box keeps what it has.
AfterFailure(f) == f

NewFails(s) ==
  /\ s.kind # "edit"
  /\ sends' = sends \ {s}
  /\ IF s.own THEN Stay(AfterFailure(comp.form)) ELSE UNCHANGED <<comp, drafts>>
  /\ again' = IF s.landed THEN again \cup s.text ELSE again
  /\ UNCHANGED <<busy, posted, wrote, typed, gone, lost, strayed, left>>

\* The deed of an edit reports its failure itself; the box is emptied and the edit
\* left, whichever it is by now.
EditEnds(s) ==
  /\ s.kind = "edit"
  /\ sends' = sends \ {s} /\ busy' = FALSE
  /\ IF s.own
     THEN /\ Put([comp.form EXCEPT !.text = {}], NoEdit)
          /\ lost' = lost \cup comp.form.text
     ELSE UNCHANGED <<comp, drafts, lost>>
  /\ UNCHANGED <<posted, wrote, typed, gone, again, strayed, left>>

Next ==
  \/ \E m \in Modes, t \in Threads : Mount(m, t)
  \/ Unmount
  \/ \E w \in Words : Type(w) \/ \E ps \in SUBSET (Words \cup Posts) : InsertReply(w, ps)
  \/ \E fs \in SUBSET Files : AddFiles(fs)
  \/ \E f \in Files : RemoveFile(f)
  \/ LimitKnown
  \/ \E k \in {"anonymous", "op"} : SetSendAs(k)
  \/ \E p \in Posts : Edit(p)
  \/ Rebuilt \/ CancelEdit \/ SubmitNew \/ SubmitEdit
  \/ \E s \in sends : Lands(s) \/ NewEnds(s) \/ NewFails(s) \/ EditEnds(s)

Spec == Init /\ [][Next]_vars

-----------------------------------------------------------------------------
\* Type invariant; a post under way is what busy and the button say, and the draft of
\* the page shown is the box (PostComposer.tsx, 148-160).
TypeOK ==
  /\ drafts \in [Modes -> Forms]
  /\ comp = NoComposer \/
     /\ comp.mode \in Modes /\ comp.thread \in Threads /\ comp.editing \in Posts \cup {NoEdit}
     /\ comp.form \in Forms /\ comp.limit \in BOOLEAN
     /\ drafts[comp.mode] = comp.form
  /\ \A s \in sends : s.kind \in Modes \cup {"edit"} /\ s.text \subseteq Words \cup Posts
  /\ busy <=> \E s \in sends : s.kind = "edit"
  /\ Cardinality({s \in sends : s.kind = "edit"}) <= 1
  /\ Cardinality({s \in sends : s.own /\ s.kind # "edit"}) <= 1

\* A word the user typed is in a draft, on its way or on the chain, unless the user put
\* a quote over it, or an edit was begun, read again or ended over it, or a post that was
\* under way emptied the box of what was typed since.  A send that fails, a page that is
\* left and shown again and a change of mode lose nothing.
NothingLost ==
  typed \ (gone \cup lost) \subseteq
    UNION ({drafts[m].text : m \in Modes} \cup {s.text : s \in sends}
           \cup {p.text : p \in posted} \cup {e.text : e \in wrote})

\* A word is in two new posts only if the page was left while the first was on its way, or
\* its answer was lost: a second press, an edit in between, a draft carried to another
\* thread post nothing twice.  Of new posts only: what was written into an edited post
\* stays in the box when its cross is pressed before the edit has ended
\* (PostComposer.tsx, 440-444), and may go out again as a post.
PostedOnce ==
  \A p, q \in posted : p # q => p.text \cap q.text \cap Words \subseteq again

\* While a post is edited no text of another is in the box; a new post holds the text of a
\* post only if an edit of it was cancelled, or its page left, before it ended.
EditStaysEdit ==
  /\ comp.shown /\ comp.editing # NoEdit => comp.form.text \cap Posts \subseteq {comp.editing}
  /\ \A e \in wrote : e.text \cap Posts \subseteq {e.post}
  /\ \A s \in sends : s.kind # "edit" => s.text \cap Posts \subseteq strayed
  /\ \A p \in posted : p.text \cap Posts \subseteq strayed

\* A reply goes out as the opener of the thread only in a thread of the user's own: the
\* choice outlives the page, in the draft, and not the thread it was made for.
SignedAsShown ==
  /\ \A p \in posted : p.as = "op" => p.kind = "reply" /\ p.on \in Own
  /\ \A s \in sends : s.as = "op" => s.on \in Own

\* What is written is posted once, where and as what it was written for, or is
\* still there.
ComposerSafety == TypeOK /\ NothingLost /\ PostedOnce /\ EditStaysEdit /\ SignedAsShown
=============================================================================
