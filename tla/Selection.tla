----------------------------- MODULE Selection -----------------------------
(***************************************************************************)
(* The posts a moderator selects on the page of a thread, and what is done *)
(* with them: PostSelectionProvider, ThreadSelectionMenu, the dialog of a  *)
(* ban (modals.tsx) and the actions of modActions.ts they run.             *)
(*                                                                         *)
(* A batch goes out in chunks.  For each chunk the nonce of the role's key *)
(* is fetched, an intent is signed for each post with the nonces that      *)
(* follow, and the chunk is sent; the relay takes a chunk whole or not at  *)
(* all (RelaySend), and its answer may be lost.  A deed on a single post   *)
(* is guarded by "busy" and keeps its error to itself; a batch is not, and *)
(* does not.  All intents here are signed with the same key.               *)
(***************************************************************************)
EXTENDS Naturals, Sequences, FiniteSets, SequencesExt, FiniteSetsExt

CONSTANTS
  Posts,        \* the posts of the thread, numbered in their order
  BATCH_CHUNK,  \* posts in a chunk
  MaxFlows,     \* bound: flows that run at a time
  MaxStarts     \* bound: flows and searches that are started, and deeds of others

ASSUME SelectionAssumption ==
  /\ Posts \subseteq Nat /\ IsFiniteSet(Posts) /\ BATCH_CHUNK \in Nat \ {0}
  /\ MaxFlows \in Nat /\ MaxStarts \in Nat

VARIABLES
  chain,    \* the posts that are deleted, and those that are banned
  page,     \* the same as the page has them, and whether it shows deleted ones
  sel,      \* the posts that are selected, the one clicked last, and those selected
            \* by a search although they were gone
  dialog,   \* the dialog of a ban: its posts, whether to delete them
  flows,    \* what is running, by number
  busy,     \* a deed on a single post is under way
  pill,     \* the progress of a batch is shown
  matching, \* the search for the posts of an author: the posts it looks at
  left      \* what is left of the bound

vars == <<chain, page, sel, dialog, flows, busy, pill, matching, left>>

NoPost == 0
NoDialog == [open |-> FALSE, posts |-> <<>>, was |-> {}, delete |-> FALSE]

NoMatching == [on |-> FALSE, ref |-> NoPost, posts |-> {}]

\* The order of the page; it stands for the order in which posts were selected too, in which
\* they are treated: no property tells these apart.
InOrder(set) == SetToSortSeq(set, <)

\* usePosts: the posts that are shown, in their order.
Shown(pg) == Posts \ (IF pg.showDeleted THEN {} ELSE pg.deleted)

-----------------------------------------------------------------------------
\* PostSelectionProvider

\* The selected post closest to the one clicked; of two, the first.
Closest(at, ordered) ==
  LET far(i) == IF i < at THEN at - i ELSE i - at
      among == {i \in DOMAIN ordered : ordered[i] \in sel.ids}
  IN  IF among = {} THEN 0
      ELSE CHOOSE i \in among : \A j \in among : far(i) < far(j) \/ (far(i) = far(j) /\ i <= j)

Toggled(post) ==
  IF post \in sel.ids THEN sel.ids \ {post} ELSE sel.ids \cup {post}

\* A click with shift: everything from the post clicked last, or from the closest
\* one selected if that one is gone.
Ranged(post) ==
  LET ordered == InOrder(Shown(page))
      at(p) == SelectInSeq(ordered, LAMBDA q : q = p)
      from == IF at(sel.last) = 0 THEN Closest(at(post), ordered) ELSE at(sel.last)
  IN  IF from = 0 \/ at(post) = 0 THEN Toggled(post)
      ELSE sel.ids \cup {ordered[i] : i \in (from .. at(post)) \cup (at(post) .. from)}

\* For every batch, the posts it has yet to treat that were taken out of the selection.
Touched(fl, gone) ==
  [n \in DOMAIN fl |->
     [fl[n] EXCEPT !.touched = IF fl[n].from = "menu"
                               THEN (@ \cup gone) \cap ToSet(fl[n].todo) ELSE {}]]

toggle(post, shift) ==
  /\ post \in Shown(page)
  /\ sel' = [sel EXCEPT !.ids = IF shift /\ sel.last # NoPost THEN Ranged(post) ELSE Toggled(post),
                        !.last = post]
  /\ flows' = Touched(flows, sel.ids \ sel'.ids)
  /\ UNCHANGED <<chain, page, dialog, busy, pill, matching, left>>

Cleared == [ids |-> {}, last |-> NoPost, gone |-> {}]

clear ==
  /\ sel.ids # {} /\ sel' = Cleared
  /\ flows' = Touched(flows, sel.ids)
  /\ UNCHANGED <<chain, page, dialog, busy, pill, matching, left>>

\* The effect on the list of posts: what is no longer shown is no longer selected.
Pruned(pg) ==
  LET next == sel.ids \cap Shown(pg)
  IN  [ids |-> next, last |-> IF next = {} /\ next # sel.ids THEN NoPost ELSE sel.last,
       gone |-> {}]

\* The search looks at the posts that are shown when it starts, and selects those
\* it finds when it ends.
selectAllFromAuthor(post) ==
  /\ ~matching.on /\ post \in Shown(page)
  /\ matching' = [on |-> TRUE, ref |-> post, posts |-> Shown(page)]
  /\ left > 0 /\ left' = left - 1
  /\ UNCHANGED <<chain, page, sel, dialog, flows, busy, pill>>

AuthorFound ==
  /\ matching.on
  /\ \E found \in {ids \in SUBSET matching.posts : matching.ref \in ids} :
       sel' = [ids |-> sel.ids \cup found, last |-> NoPost,
               gone |-> (sel.ids \cup found) \ Shown(page)]
  /\ matching' = NoMatching
  /\ UNCHANGED <<chain, page, dialog, flows, busy, pill, left>>

AuthorFails ==
  /\ matching.on
  /\ matching' = NoMatching
  /\ UNCHANGED <<chain, page, sel, dialog, flows, busy, pill, left>>

-----------------------------------------------------------------------------
\* Flows

\* Deletions and restorations of a batch are of the posts on which they make a
\* change, by the flags the page had when the posts were taken; bans are of all.
Targets(op, posts, was) ==
  CASE op = "delete" -> SelectSeq(posts, LAMBDA p : p \notin was)
    [] op = "restore" -> SelectSeq(posts, LAMBDA p : p \in was)
    [] op = "ban" -> posts

\* A single post is deleted or restored as it was asked.
Flow(from, op, next, posts, was) ==
  LET single == from = "post" \/ (from = "dialog" /\ Len(posts) = 1)
  IN  [from |-> from, op |-> op, next |-> next, posts |-> posts, was |-> IF from = "dialog" THEN was ELSE {}, own |-> TRUE,
       single |-> single, todo |-> IF single THEN posts ELSE Targets(op, posts, was),
       base |-> "none", applied |-> {}, swallowed |-> FALSE, touched |-> {}]

Begin(flow) ==
  /\ left > 0 /\ Cardinality(DOMAIN flows) < MaxFlows
  /\ flows' = [n \in DOMAIN flows \cup {left} |->
                 IF n = left THEN flow ELSE flows[n]]
  /\ left' = left - 1

StartBatchMutant(op) ==
  /\ \E p \in sel.ids : p \in page.deleted <=> op = "restore"
  /\ Begin(Flow("menu", op, "none", InOrder(sel.ids), page.deleted))
  /\ sel' = Cleared /\ pill' = TRUE
  /\ UNCHANGED <<chain, page, dialog, busy, matching>>

\* ThreadSelectionMenu, start
StartBatch(op) ==
  /\ \E p \in sel.ids : p \in page.deleted <=> op = "restore"
  /\ Begin(Flow("menu", op, "none", InOrder(sel.ids), page.deleted))
  /\ pill' = TRUE
  /\ UNCHANGED <<chain, page, sel, dialog, busy, matching>>

\* A ban is offered for a post that is neither deleted nor banned, and for
\* whatever is selected; with the deletion, for what is selected only.
openBan(posts, delete) ==
  /\ left > 0 /\ ~dialog.open
  /\ posts # {}
  /\ \/ posts = sel.ids
     \/ ~delete /\ \E p \in Shown(page) \ (page.deleted \cup page.banned) : posts = {p}
  /\ dialog' = [open |-> TRUE, posts |-> InOrder(posts), delete |-> delete,
                was |-> IF delete THEN page.deleted ELSE {}]
  /\ UNCHANGED <<chain, page, sel, flows, busy, pill, matching, left>>

\* The flows of a dialog that is closed know nothing of it.
Orphaned(fl) ==
  [n \in DOMAIN fl |-> [fl[n] EXCEPT !.own = @ /\ fl[n].from # "dialog"]]

closeBan ==
  /\ dialog.open /\ dialog' = NoDialog
  /\ flows' = Orphaned(flows)
  /\ UNCHANGED <<chain, page, sel, busy, pill, matching, left>>

\* onBan: the ban, then the deletion where it was asked for, then the dialog
\* closes.
onBan ==
  /\ dialog.open /\ ~busy
  /\ Begin(Flow("dialog", "ban", IF dialog.delete THEN "delete" ELSE "none",
                dialog.posts, dialog.was))
  /\ busy' = (Len(dialog.posts) = 1)
  /\ UNCHANGED <<chain, page, sel, dialog, pill, matching>>

\* A post's own menu.
runPostDelete(post, op) ==
  /\ ~busy /\ post \in Shown(page) /\ (post \in page.deleted <=> op = "restore")
  /\ Begin(Flow("post", op, "none", <<post>>, page.deleted))
  /\ busy' = TRUE
  /\ UNCHANGED <<chain, page, sel, dialog, pill, matching>>

-----------------------------------------------------------------------------
Chunk(flow) == SubSeq(flow.todo, 1, Min({BATCH_CHUNK, Len(flow.todo)}))

fetchNonce(n) ==
  /\ flows[n].base = "none" /\ flows[n].todo # <<>>
  /\ flows' = [flows EXCEPT ![n].base = "fresh"]
  /\ UNCHANGED <<chain, page, sel, dialog, busy, pill, matching, left>>

\* The contract refuses what makes no change, and a chunk with a refused intent.
Applies(op, posts) ==
  CASE op = "delete" -> posts \cap chain.deleted = {}
    [] op = "restore" -> posts \subseteq chain.deleted
    [] op = "ban" -> posts \cap chain.banned = {}

Effect(op, posts) ==
  CASE op = "delete" -> [chain EXCEPT !.deleted = @ \cup posts]
    [] op = "restore" -> [chain EXCEPT !.deleted = @ \ posts]
    [] op = "ban" -> [chain EXCEPT !.banned = @ \cup posts]

\* A chunk reaches the chain; the nonces the others have fetched are used up.
Landed(n) ==
  [m \in DOMAIN flows |->
     IF m = n
     THEN [flows[n] EXCEPT !.base = "none",
                           !.todo = SubSeq(@, Len(Chunk(flows[n])) + 1, Len(@)),
                           !.applied = IF flows[n].from = "dialog"
                                       THEN @ \cup ({flows[n].op} \X ToSet(Chunk(flows[n]))) ELSE {}]
     ELSE IF flows[m].base = "fresh" THEN [flows[m] EXCEPT !.base = "stale"] ELSE flows[m]]

Accepted(n) ==
  flows[n].base = "fresh" /\ Applies(flows[n].op, ToSet(Chunk(flows[n])))

\* A flow is over: the batch of the menu clears the selection if it succeeded,
\* and hides the pill either way; the dialog closes, unless an error went through.
Over(n, fl, ok) ==
  LET flow == fl[n]
      rest == [m \in DOMAIN fl \ {n} |-> fl[m]]
  IN  /\ flows' = IF ~ok THEN rest
                  ELSE IF flow.from = "dialog" THEN Orphaned(rest)
                  ELSE IF flow.from = "menu" THEN Touched(rest, sel.ids) ELSE rest
      /\ sel' = IF flow.from = "menu" /\ ok THEN Cleared ELSE sel
      /\ pill' = (pill /\ flow.from # "menu")
      /\ dialog' = IF flow.from = "dialog" /\ ok THEN NoDialog ELSE dialog
      /\ busy' = (busy /\ ~flow.single)

\* The deletion that follows a ban.  Between the end of one deed and the next nothing else
\* runs that could take busy: what follows is a continuation of the same task.
NextPart(flow) ==
  [flow EXCEPT !.op = flow.next, !.next = "none", !.base = "none",
               !.todo = IF flow.single THEN flow.posts ELSE Targets("delete", flow.posts, flow.was)]

Onward(n, fl, part) ==
  /\ flows' = [fl EXCEPT ![n] = part]
  /\ UNCHANGED <<sel, pill, dialog, busy>>

FailedMutant(n, fl) ==
  IF fl[n].next # "none" THEN Onward(n, fl, NextPart(fl[n])) ELSE Over(n, fl, TRUE)

\* An error: of a single post it is reported, and the flow goes on as if there
\* was none; a batch is over.
Failed(n, fl) ==
  IF fl[n].single /\ fl[n].next # "none"
  THEN Onward(n, fl, [NextPart(fl[n]) EXCEPT !.swallowed = TRUE])
  ELSE Over(n, fl, fl[n].single)

Send(n) ==
  /\ flows[n].todo # <<>> /\ Accepted(n)
  /\ chain' = Effect(flows[n].op, ToSet(Chunk(flows[n])))
  /\ \/ /\ flows' = Landed(n)
        /\ pill' = (pill \/ flows[n].from = "menu")
        /\ UNCHANGED <<sel, dialog, busy>>
     \/ Failed(n, Landed(n)) \* the answer is lost
  /\ UNCHANGED <<page, matching, left>>

\* A nonce or the marks to ban cannot be fetched, or the relay refuses the chunk.
Refused(n) ==
  /\ flows[n].todo # <<>> /\ ~Accepted(n)
  /\ Failed(n, flows)
  /\ UNCHANGED <<chain, page, matching, left>>

Proceed(n) ==
  /\ flows[n].todo = <<>>
  /\ IF flows[n].next # "none" THEN Onward(n, flows, NextPart(flows[n])) ELSE Over(n, flows, TRUE)
  /\ UNCHANGED <<chain, page, matching, left>>

-----------------------------------------------------------------------------
Init ==
  /\ chain = [deleted |-> {}, banned |-> {}]
  /\ \E shows \in BOOLEAN : page = [deleted |-> {}, banned |-> {}, showDeleted |-> shows]
  /\ sel = Cleared /\ dialog = NoDialog
  /\ flows = <<>> /\ busy = FALSE /\ pill = FALSE
  /\ matching = NoMatching
  /\ left = MaxStarts

\* Another moderator.
Elsewhere ==
  /\ left > 0 /\ left' = left - 1
  /\ \E op \in {"delete", "ban"}, p \in Posts :
       Applies(op, {p}) /\ chain' = Effect(op, {p})
  /\ UNCHANGED <<page, sel, dialog, flows, busy, pill, matching>>

\* The events reach the page.
Deliver ==
  /\ chain # [deleted |-> page.deleted, banned |-> page.banned]
  /\ page' = [page EXCEPT !.deleted = chain.deleted, !.banned = chain.banned]
  /\ sel' = Pruned(page')
  /\ flows' = Touched(flows, sel.ids \ sel'.ids)
  /\ UNCHANGED <<chain, dialog, busy, pill, matching, left>>

Step(n) == fetchNonce(n) \/ Send(n) \/ Refused(n) \/ Proceed(n)

Next ==
  \/ \E p \in Posts, shift \in BOOLEAN : toggle(p, shift)
  \/ \E p \in Posts : selectAllFromAuthor(p)
  \/ clear \/ AuthorFound \/ AuthorFails
  \/ \E op \in {"delete", "restore"} : StartBatch(op)
  \/ \E posts \in SUBSET Posts, delete \in BOOLEAN : openBan(posts, delete)
  \/ closeBan \/ onBan
  \/ \E p \in Posts, op \in {"delete", "restore"} : runPostDelete(p, op)
  \/ \E n \in DOMAIN flows : Step(n)
  \/ Elsewhere \/ Deliver

Spec == Init /\ [][Next]_vars

-----------------------------------------------------------------------------
\* Well-typed states; the pill is there only while a batch of the menu runs.
TypeOK ==
  /\ chain \in [deleted : SUBSET Posts, banned : SUBSET Posts]
  /\ page \in [deleted : SUBSET Posts, banned : SUBSET Posts, showDeleted : BOOLEAN]
  /\ sel \in [ids : SUBSET Posts, last : Posts \cup {NoPost}, gone : SUBSET Posts]
  /\ dialog.was \subseteq Posts /\ ToSet(dialog.posts) \subseteq Posts
  /\ DOMAIN flows \subseteq 1 .. MaxStarts
  /\ \A n \in DOMAIN flows : ToSet(flows[n].todo) \subseteq ToSet(flows[n].posts)
  /\ pill => \E n \in DOMAIN flows : flows[n].from = "menu"

\* What is done is done to what the moderator sees: every selected post is shown,
\* whatever is deleted meanwhile; a search
\* for an author's posts may still bring in posts that vanished while it ran
\* (PostSelectionProvider.tsx:98).
SelectedAreShown == sel.ids \subseteq Shown(page) \cup sel.gone

\* Nothing a batch was asked to do is forgotten: the posts it has not come to are
\* still selected, so that what is left after a failure can be done again, except
\* those that somebody unselected in the meantime, another batch that ended among
\* them (ThreadSelectionMenu.tsx:24).
NothingForgotten ==
  \A n \in DOMAIN flows :
    flows[n].from = "menu" => ToSet(flows[n].todo) \subseteq sel.ids \cup flows[n].touched

\* A post is never deleted by "ban and delete" without having been banned; for a
\* single post it may be, since the error of its ban is kept (modals.tsx:100-103).
BannedFirst ==
  \A n \in DOMAIN flows :
    LET flow == flows[n]
    IN  flow.from = "dialog" /\ ~flow.swallowed =>
          \A p \in Posts : <<"delete", p>> \in flow.applied => <<"ban", p>> \in flow.applied

\* A dialog that closes by itself says the truth: its posts were banned, and
\* deleted if that was asked for, unless they were deleted when it opened.  Not so
\* for a single post, and not when the flow that ends was started from an earlier
\* dialog (modals.tsx:106).
ClosesTruly ==
  \A n \in DOMAIN flows \ DOMAIN flows' :
    LET flow == flows[n]
    IN  dialog.open /\ ~dialog'.open /\ ~flow.single /\ flow.own =>
          \A p \in ToSet(dialog.posts) :
            /\ <<"ban", p>> \in flow.applied
            /\ dialog.delete => <<"delete", p>> \in flow.applied \/ p \in dialog.was

ClosedWhenDone == [][ClosesTruly]_vars

\* Batches do what was selected and lose nothing of it, and ban before they delete.
SelectionSafety == TypeOK /\ SelectedAreShown /\ NothingForgotten /\ BannedFirst
=============================================================================
