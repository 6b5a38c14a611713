----------------------------- MODULE ThreadStore -----------------------------
(***************************************************************************)
(* The page of a thread in the browser: store/store.ts with records.ts,    *)
(* the reactions of Post.tsx and the edits of modActions.ts.               *)
(*                                                                         *)
(* The store keeps the posts as the chain had them and a number of things  *)
(* computed from them: a record per post with what is drawn, the number of *)
(* every live post, the posts each one quotes and the ones that quote it.  *)
(* None of it is computed anew when something changes; each of the ways in *)
(* which something can change (a batch of events, an answer with the text  *)
(* of a post, a post read again after an edit, a reaction shown before it  *)
(* is sent, a reload) updates what it thinks depends on it.                *)
(*                                                                         *)
(* Here the events of the chain arrive once and in order; what losses and  *)
(* overlapping loads do to them is in ThreadReplay and LiveSession.  A     *)
(* text is the set of the posts it quotes, and equal texts have one hash.  *)
(* One emoji stands for all; media and names, which are fetched as texts   *)
(* are, roles and the rest of a record, are left out.                      *)
(***************************************************************************)
EXTENDS Integers, Sequences, FiniteSets

CONSTANTS
  Texts,      \* what posts may say: sets of posts
  NoText,     \* a post without text, which is deleted with it
  FirstPosts, \* posts of the thread when its page is opened
  \* bounds of a run
  MaxPosts, MaxTxs, MaxSends, MaxReloads

ThreadStoreAssumption ==
  /\ FirstPosts \in Nat /\ MaxPosts \in Nat /\ FirstPosts > 0 /\ FirstPosts <= MaxPosts
  /\ Texts \subseteq SUBSET (1 .. MaxPosts)
  /\ NoText \notin Texts
  /\ {MaxTxs, MaxSends, MaxReloads} \subseteq Nat

VARIABLES
  chain,     \* the posts as they are on the chain, and whether the thread is deleted
  log,       \* the events of the thread, in order
  seen,      \* how many of them were applied in the browser
  maps,      \* every content map there ever was: a fetch keeps the one it began with
  store,     \* the page's data and what is computed from them
  fetches,   \* texts being fetched
  reactions, \* reactions the user sent
  edits,     \* edits of the user's own posts and what follows them
  excused    \* what the page cannot be held to, see the properties

vars == <<chain, log, seen, maps, store, fetches, reactions, edits, excused>>

Uids == 1 .. MaxPosts
OnChain == [text : Texts \cup {NoText}, deleted : BOOLEAN, count : Nat, mine : BOOLEAN, nonce : Nat]
InStore == [text : Texts \cup {NoText}, deleted : BOOLEAN, count : Nat]

AsStored(post) == [text |-> post.text, deleted |-> post.deleted, count |-> post.count]
Loaded(s) == 1 .. Len(s.posts)

NoPending == [on |-> FALSE, local |-> FALSE, base |-> FALSE]

-----------------------------------------------------------------------------
\* What is computed from the posts.  s is the store, m the content map it uses.

Known(s, m, p) == s.posts[p].text \in m

\* The number drawn on a post: its place among those not deleted.
Ordinals(posts) ==
  [p \in DOMAIN posts |-> Cardinality({q \in 1 .. p : ~posts[q].deleted})]

Quotes(s, m, p) == IF Known(s, m, p) THEN s.posts[p].text ELSE {}

AffectedMutant(s, m, uids) ==
  UNION {Quotes(s, m, p) \ s.targets[p] : p \in uids \cap Loaded(s)}

\* Posts whose list of answers changes when the quotes of uids are looked at again.
Affected(s, m, uids) ==
  UNION {(s.targets[p] \ Quotes(s, m, p)) \cup (Quotes(s, m, p) \ s.targets[p]) :
           p \in uids \cap Loaded(s)}

UpdateTargets(s, m, uids) ==
  LET again == uids \cap Loaded(s)
  IN  [s EXCEPT
         !.targets = [p \in Uids |-> IF p \in again THEN Quotes(s, m, p) ELSE @[p]],
         !.backrefs = [t \in Uids |->
            (@[t] \ {p \in again : t \notin Quotes(s, m, p)})
              \cup {p \in again : t \in Quotes(s, m, p)}]]

\* The user's reaction to a post as it is drawn: a pending one hides the one
\* the store knows of until that one changes.
Overtaken(s, p) == s.pending[p].on /\ s.pending[p].base # s.mine[p]

Drawn(s, p) ==
  IF s.pending[p].on /\ ~Overtaken(s, p) THEN s.pending[p].local ELSE s.mine[p]

\* The number next to the emoji; one that the store has no count for is drawn
\* only for the user's own reaction.
Bubble(count, local, base) ==
  LET n == IF base /\ ~local THEN count - 1 ELSE IF local /\ ~base THEN count + 1 ELSE count
  IN  IF count > 0 /\ n > 0 THEN n ELSE IF local THEN 1 ELSE 0

Record(s, m, p) ==
  [text |-> s.posts[p].text, parts |-> Known(s, m, p),
   deleted |-> s.posts[p].deleted \/ (p = 1 /\ s.deleted),
   num |-> s.ordinals[p], refs |-> s.backrefs[p],
   count |-> Bubble(s.posts[p].count, Drawn(s, p), s.mine[p]),
   my |-> Drawn(s, p), base |-> s.mine[p]]

Rebuild(s, m, uids) ==
  LET again == uids \cap Loaded(s)
  IN  [s EXCEPT
         !.records = [p \in Loaded(s) |-> IF p \in again THEN Record(s, m, p) ELSE @[p]],
         !.pending = [p \in Uids |-> IF p \in again /\ Overtaken(s, p) THEN NoPending ELSE @[p]]]

\* The posts in the order of the page: one whose text is missing is left out,
\* and one that is deleted is drawn only on request.
AllOrder(s) ==
  {p \in Loaded(s) : s.records[p].text # NoText => s.records[p].parts}

LiveOrder(s) == {p \in AllOrder(s) : ~s.records[p].deleted}

\* Texts to fetch for uids; each is tried once.
Missing(s, m, uids) ==
  {<<p, s.posts[p].text>> : p \in {q \in uids \cap Loaded(s) :
     ~s.posts[q].deleted /\ s.posts[q].text # NoText /\ ~Known(s, m, q)}} \ s.attempted

Hydrate(s, uids) ==
  LET wanted == Missing(s, maps[s.map], uids)
  IN  /\ store' = [s EXCEPT !.attempted = @ \cup wanted]
      /\ fetches' = fetches \cup {[post |-> w[1], text |-> w[2], map |-> s.map] : w \in wanted}

-----------------------------------------------------------------------------
\* loadThread: everything from the page that the relay answered.
Page(posts, deleted, mine, pending, map, m) ==
  LET blank == [posts |-> [p \in DOMAIN posts |-> AsStored(posts[p])], deleted |-> deleted,
                mine |-> mine, map |-> map, attempted |-> {}, pending |-> pending,
                ordinals |-> Ordinals(posts), targets |-> [p \in Uids |-> {}],
                backrefs |-> [p \in Uids |-> {}], records |-> <<>>, page |-> deleted]
      linked == UpdateTargets(blank, m, Uids)
  IN  Rebuild([linked EXCEPT !.records = [p \in DOMAIN posts |-> Record(linked, m, p)]], m, Uids)

TextsOf(posts) == {posts[p].text : p \in DOMAIN posts} \ {NoText}

NothingExcused ==
  [numbers |-> {}, op |-> FALSE, page |-> FALSE, skewed |-> FALSE,
   overtaken |-> {}, blind |-> {}, texts |-> {}]

Init ==
  /\ \E texts \in [1 .. FirstPosts -> Texts] :
       chain = [posts |-> [p \in 1 .. FirstPosts |->
                             [text |-> texts[p], deleted |-> FALSE, count |-> 0, mine |-> FALSE,
                              nonce |-> 0]],
                deleted |-> FALSE, reloads |-> 0]
  /\ log = <<>> /\ seen = 0
  /\ maps = <<TextsOf(chain.posts)>>
  /\ store = Page(chain.posts, FALSE, [p \in Uids |-> FALSE], [p \in Uids |-> NoPending],
                  1, maps[1])
  /\ fetches = {} /\ reactions = <<>> /\ edits = <<>>
  /\ excused = NothingExcused

\* A reload after the connection broke.  The user's reactions are asked for
\* separately, and if that fails the page has none.
Reload ==
  /\ chain.reloads < MaxReloads
  /\ chain' = [chain EXCEPT !.reloads = @ + 1]
  /\ \E known \in BOOLEAN :
       LET mine == [p \in Uids |-> known /\ p \in DOMAIN chain.posts /\ chain.posts[p].mine]
           m == TextsOf(chain.posts)
       IN  /\ maps' = Append(maps, m)
           /\ store' = Page(chain.posts, chain.deleted, mine, store.pending, Len(maps) + 1, m)
           /\ excused' = [NothingExcused EXCEPT !.blind =
                            {p \in DOMAIN chain.posts : chain.posts[p].mine # mine[p]}]
  /\ seen' = Len(log)
  /\ UNCHANGED <<log, fetches, reactions, edits>>

-----------------------------------------------------------------------------
\* What happens on the chain.

Emit(event) == Len(log) < MaxTxs /\ log' = Append(log, event)

Elsewhere == UNCHANGED <<seen, maps, store, fetches, reactions, edits, excused>>

\* A text that is taken away deletes a post that has nothing else.
WithText(post, text) ==
  [post EXCEPT !.text = text, !.deleted = @ \/ text = NoText]

NewPost(text) ==
  /\ Len(chain.posts) < MaxPosts
  /\ Emit([kind |-> "post", post |-> Len(chain.posts) + 1, text |-> text])
  /\ chain' = [chain EXCEPT !.posts =
       Append(@, [text |-> text, deleted |-> FALSE, count |-> 0, mine |-> FALSE, nonce |-> 0])]
  /\ Elsewhere

SetText(p, text) ==
  /\ Emit([kind |-> "text", post |-> p, text |-> text])
  /\ chain' = [chain EXCEPT !.posts[p] = WithText(@, text)]

SetDeleted(p) ==
  /\ Emit([kind |-> "deleted", post |-> p, deleted |-> ~chain.posts[p].deleted])
  /\ chain' = [chain EXCEPT !.posts[p].deleted = ~@]
  /\ Elsewhere

ThreadSetDeleted ==
  /\ Emit([kind |-> "thread", deleted |-> ~chain.deleted])
  /\ chain' = [chain EXCEPT !.deleted = ~@]
  /\ Elsewhere

OtherReacts(p) ==
  /\ Emit([kind |-> "reaction", post |-> p, own |-> FALSE, old |-> FALSE])
  /\ chain' = [chain EXCEPT !.posts[p].count = @ + 1]
  /\ Elsewhere

-----------------------------------------------------------------------------
\* applyThread, for a batch of one event.

\* applyThreadBatch and reactionDelta: the posts and the user's reactions.
Applied(s, ev) ==
  CASE ev.kind = "post" ->
         [s EXCEPT !.posts = Append(@, [text |-> ev.text, deleted |-> FALSE, count |-> 0])]
    [] ev.kind = "text" -> [s EXCEPT !.posts[ev.post] = WithText(@, ev.text)]
    [] ev.kind = "deleted" -> [s EXCEPT !.posts[ev.post].deleted = ev.deleted]
    [] ev.kind = "thread" -> [s EXCEPT !.deleted = ev.deleted]
    [] ev.kind = "reaction" ->
         [s EXCEPT !.posts[ev.post].count = IF ~ev.old THEN @ + 1 ELSE IF @ > 0 THEN @ - 1 ELSE 0,
                   !.mine[ev.post] = IF ev.own THEN ~ev.old ELSE @]

DeletedIn(posts) == {p \in DOMAIN posts : posts[p].deleted}

Renumbers(s, after) ==
  Len(after.posts) # Len(s.posts) \/ DeletedIn(after.posts) # DeletedIn(s.posts)

\* The posts to draw anew: the one the event is about and those it quotes, or
\* did.  An event of the thread itself is about none of them.
Changed(s, m, ev) ==
  IF ev.kind = "thread" THEN {} ELSE {ev.post} \cup Affected(s, m, {ev.post})

\* What drawing uids anew puts right.
Redrawn(e, uids) == [e EXCEPT !.numbers = @ \ uids, !.op = @ /\ 1 \notin uids]

Deliver ==
  /\ seen < Len(log)
  /\ LET ev == log[seen + 1]
         m == maps[store.map]
         after == Applied(store, ev)
         longer == Len(after.posts) # Len(store.posts)
         numbered == IF Renumbers(store, after)
                     THEN [after EXCEPT !.ordinals = Ordinals(after.posts)] ELSE after
         changed == Changed(numbered, m, ev)
         linked == IF ev.kind = "thread" THEN numbered
                   ELSE UpdateTargets(numbered, m, {ev.post})
         moved == {p \in Loaded(store) : numbered.ordinals[p] # store.ordinals[p]}
     IN  /\ Hydrate([Rebuild(linked, m, changed) EXCEPT
                       !.page = IF longer THEN after.deleted ELSE @], changed)
         /\ excused' = Redrawn([excused EXCEPT
              !.numbers = @ \cup moved,
              !.skewed = @ /\ ~Renumbers(store, after),
              !.op = @ \/ ev.kind = "thread",
              !.page = (@ \/ ev.kind = "thread") /\ ~longer], changed)
  /\ seen' = seen + 1
  /\ UNCHANGED <<chain, log, maps, reactions, edits>>

\* An answer to fetchText goes into the map that was current when it was asked
\* for, and the post is drawn anew from the one that is current now.
FetchLands(f) ==
  /\ fetches' = fetches \ {f}
  /\ maps' = [maps EXCEPT ![f.map] = @ \cup {f.text}]
  /\ LET m == maps'[store.map]
         again == {f.post} \cup Affected(store, m, {f.post})
     IN  /\ store' = Rebuild(UpdateTargets(store, m, {f.post}), m, again)
         /\ excused' = Redrawn([excused EXCEPT
              !.texts = IF f.text \in m THEN @ ELSE @ \cup {<<f.post, f.text>>}], again)
  /\ UNCHANGED <<chain, log, seen, reactions, edits>>

FetchFails(f) ==
  /\ fetches' = fetches \ {f}
  /\ excused' = [excused EXCEPT !.texts = @ \cup {<<f.post, f.text>>}]
  /\ UNCHANGED <<chain, log, seen, maps, store, reactions, edits>>

-----------------------------------------------------------------------------
\* The user's reactions: drawn before they are sent, one at a time per post.

React(p) ==
  /\ Len(reactions) + Len(edits) < MaxSends
  /\ \A i \in DOMAIN reactions : reactions[i].post = p => reactions[i].answered
  /\ LET rec == store.records[p]
         pending == [on |-> TRUE, local |-> ~rec.my, base |-> rec.base]
     IN  store' = Rebuild([store EXCEPT !.pending[p] = pending], maps[store.map], {p})
  /\ reactions' = Append(reactions,
       [post |-> p, old |-> store.records[p].my, state |-> "asked", answered |-> FALSE, nonce |-> 0])
  /\ excused' = Redrawn(excused, {p})
  /\ UNCHANGED <<chain, log, seen, maps, fetches, edits>>

\* A reaction is signed with a key of its own for each post, and the nonce that
\* this key has then.
ReactionSigned(i) ==
  /\ reactions[i].state = "asked" /\ ~reactions[i].answered
  /\ reactions' = [reactions EXCEPT ![i].state = "sent",
                                    ![i].nonce = chain.posts[reactions[i].post].nonce]
  /\ UNCHANGED <<chain, log, seen, maps, store, fetches, edits, excused>>

\* The chain refuses a reaction with another nonce than is due, and one that
\* names another reaction than the sender has.
ReactionApplied(i) ==
  LET r == reactions[i]
  IN  /\ r.state = "sent"
      /\ chain.posts[r.post].nonce = r.nonce
      /\ chain.posts[r.post].mine = r.old
      /\ Emit([kind |-> "reaction", post |-> r.post, own |-> TRUE, old |-> r.old])
      /\ chain' = [chain EXCEPT !.posts[r.post].mine = ~r.old,
                                !.posts[r.post].nonce = @ + 1,
                                !.posts[r.post].count = IF r.old THEN @ - 1 ELSE @ + 1]
      /\ reactions' = [reactions EXCEPT ![i].state = "applied"]
      /\ UNCHANGED <<seen, maps, store, fetches, edits, excused>>

ReactionLost(i) ==
  /\ reactions[i].state = "sent"
  /\ reactions' = [reactions EXCEPT ![i].state = "lost"]
  /\ UNCHANGED <<chain, log, seen, maps, store, fetches, edits, excused>>

ReactionConfirmed(i) ==
  /\ ~reactions[i].answered
  /\ reactions[i].state = "applied"
  /\ reactions' = [reactions EXCEPT ![i].answered = TRUE]
  /\ UNCHANGED <<chain, log, seen, maps, store, fetches, edits, excused>>

\* clearPendingReaction
Cleared(s, p) == [s EXCEPT !.pending[p] = NoPending]

\* An error is answered for a reaction that was not signed, that was lost, that
\* may still be applied, or that was.
ReactionFailed(i) ==
  LET p == reactions[i].post
  IN  /\ ~reactions[i].answered
      /\ reactions' = [reactions EXCEPT ![i].answered = TRUE]
      /\ IF store.pending[p].on
         THEN /\ store' = Rebuild(Cleared(store, p), maps[store.map], {p})
              /\ excused' = Redrawn(excused, {p})
         ELSE UNCHANGED <<store, excused>>
      /\ UNCHANGED <<chain, log, seen, maps, fetches, edits>>

-----------------------------------------------------------------------------
\* runPostEdit: the answer puts the text into the store and has the post read
\* again a little later.

EditSent(p, text) ==
  /\ Len(reactions) + Len(edits) < MaxSends
  /\ \A i \in DOMAIN edits : edits[i].phase # "sent"
  /\ SetText(p, text)
  /\ edits' = Append(edits, [post |-> p, text |-> text, phase |-> "sent",
                             copy |-> chain.posts[p], upto |-> 0])
  /\ UNCHANGED <<seen, maps, store, fetches, reactions, excused>>

EditFailed(i) ==
  /\ edits[i].phase = "sent"
  /\ edits' = [edits EXCEPT ![i].phase = "done"]
  /\ UNCHANGED <<chain, log, seen, maps, store, fetches, reactions, excused>>

\* addContent: a new map, and every record is drawn anew from it.
EditAnswered(i) ==
  LET m == maps[store.map] \cup {edits[i].text}
  IN  /\ edits[i].phase = "sent"
      /\ edits' = [edits EXCEPT ![i].phase = "answered"]
      /\ IF edits[i].text = NoText
         THEN UNCHANGED <<maps, store, excused>>
         ELSE /\ maps' = Append(maps, m)
              /\ store' = Rebuild([store EXCEPT !.map = Len(maps) + 1], m, Uids)
              /\ excused' = Redrawn(excused, Uids)
      /\ UNCHANGED <<chain, log, seen, fetches, reactions>>

\* refetchPost asks the relay for the post, in whatever state it is now ...
RefetchAsked(i) ==
  /\ edits[i].phase = "answered"
  /\ edits' = [edits EXCEPT ![i].phase = "asked", ![i].copy = chain.posts[edits[i].post],
                            ![i].upto = Len(log)]
  /\ UNCHANGED <<chain, log, seen, maps, store, fetches, reactions, excused>>

EventsOf(p, upto) == {k \in 1 .. upto : log[k].kind # "thread" /\ log[k].post = p}

\* ... and takes the answer as it is, wherever the events have got to meanwhile.
RefetchLands(i) ==
  LET p == edits[i].post
      copy == edits[i].copy
      fresh == copy.text # NoText
      replaced == [store EXCEPT !.posts[p] = AsStored(copy),
                                !.map = IF fresh THEN Len(maps) + 1 ELSE @]
  IN  /\ edits[i].phase = "asked"
      /\ edits' = [edits EXCEPT ![i].phase = "done"]
      /\ maps' = IF fresh THEN Append(maps, maps[store.map] \cup {copy.text}) ELSE maps
      /\ store' = Rebuild(replaced, maps'[replaced.map], {p})
      /\ excused' = Redrawn([excused EXCEPT
           !.skewed = @ \/ store.posts[p].deleted # copy.deleted,
           !.overtaken = IF EventsOf(p, edits[i].upto) = EventsOf(p, seen)
                         THEN @ ELSE @ \cup {p}], {p})
      /\ UNCHANGED <<chain, log, seen, fetches, reactions>>

-----------------------------------------------------------------------------
OnTheChain ==
  \/ \E text \in Texts : NewPost(text)
  \/ \E p \in DOMAIN chain.posts :
       \/ \E text \in Texts \cup {NoText} : SetText(p, text) /\ Elsewhere
       \/ SetDeleted(p) \/ OtherReacts(p)
  \/ ThreadSetDeleted

Reacting ==
  \/ \E p \in Loaded(store) : React(p)
  \/ \E i \in DOMAIN reactions :
       \/ ReactionSigned(i) \/ ReactionApplied(i) \/ ReactionLost(i)
       \/ ReactionConfirmed(i) \/ ReactionFailed(i)

Editing ==
  \/ \E p \in Loaded(store), text \in Texts \cup {NoText} : EditSent(p, text)
  \/ \E i \in DOMAIN edits : EditAnswered(i) \/ EditFailed(i) \/ RefetchAsked(i) \/ RefetchLands(i)

Next ==
  \/ OnTheChain \/ Deliver \/ Reacting \/ Editing \/ Reload
  \/ \E f \in fetches : FetchLands(f) \/ FetchFails(f)

Spec == Init /\ [][Next]_vars

-----------------------------------------------------------------------------
\* Well-typed states.
TypeOK ==
  /\ chain.posts \in Seq(OnChain) /\ chain.deleted \in BOOLEAN
  /\ seen \in 0 .. Len(log)
  /\ \A i \in DOMAIN maps : maps[i] \subseteq Texts
  /\ store.map \in DOMAIN maps
  /\ store.posts \in Seq(InStore)
  /\ store.mine \in [Uids -> BOOLEAN]
  /\ store.targets \in [Uids -> SUBSET Uids] /\ store.backrefs \in [Uids -> SUBSET Uids]
  /\ DOMAIN store.records = Loaded(store) /\ DOMAIN store.ordinals = Loaded(store)
  /\ \A f \in fetches : f.post \in Uids /\ f.text \in Texts /\ f.map \in DOMAIN maps
  /\ \A i \in DOMAIN reactions : reactions[i].post \in Uids
  /\ \A i \in DOMAIN edits : edits[i].post \in Uids /\ edits[i].copy \in OnChain

\* The two indexes of quotes, each updated on its own (updateTargets,
\* store.ts:675), are inverses of each other whatever happened.
QuotesIndexed ==
  \A p, t \in Uids : t \in store.targets[p] <=> p \in store.backrefs[t]

\* What is drawn is what drawing everything anew would give (store.ts:705, and
\* its callers' choice of what to draw).  Excepted are the numbers of posts
\* after one that was deleted or restored, and the marks of the opening post
\* and of the page after the thread itself was: nothing draws those again
\* (store.ts:558-561).
RecordsCurrent ==
  /\ \A p \in Loaded(store) :
       LET drawn == store.records[p]
           now == Record(store, maps[store.map], p)
       IN  /\ \A field \in {"text", "refs", "count", "my", "base"} : drawn[field] = now[field]
           /\ p \notin excused.numbers => drawn.num = now.num
           /\ (p = 1 /\ excused.op) \/ drawn.deleted = now.deleted
  /\ excused.skewed \/ store.ordinals = Ordinals(store.posts)
  /\ excused.page \/ store.page = store.deleted

\* Once every event has arrived the page has the posts of the chain and the
\* reactions are the ones on the chain, the user's own included, however they
\* were drawn before (store.ts:483-504, Post.tsx:366-391).  Excepted are posts
\* whose copy, read again after an edit, was from another moment than the
\* events had got to (store.ts:440: counters are not compared), even if a later
\* copy put them right again: a text that came in between was indexed for the
\* wrong copy.  Excepted are also reactions
\* that a reload failed to learn of (myReactions.ts:22).
StoreIsChain ==
  seen = Len(log) =>
    /\ store.deleted = chain.deleted /\ Loaded(store) = DOMAIN chain.posts
    /\ \A p \in DOMAIN chain.posts \ excused.overtaken :
         LET settled == \A i \in DOMAIN reactions :
               reactions[i].post = p => reactions[i].answered /\ reactions[i].state # "sent"
         IN  /\ store.posts[p] = AsStored(chain.posts[p])
             /\ settled /\ p \notin excused.blind =>
                  /\ store.records[p].my = chain.posts[p].mine
                  /\ store.records[p].count = chain.posts[p].count

\* Once nothing is on its way every post that is not deleted is on the page and
\* listed under each post it quotes, and under no other.  Excepted are posts
\* whose text could not be fetched, or was put into a content map that had been
\* replaced meanwhile (store.ts:966): they are not asked for again.
NothingHidden ==
  LET quiet == /\ seen = Len(log) /\ fetches = {}
               /\ \A i \in DOMAIN edits : edits[i].phase # "asked"
  IN  quiet =>
        \A p \in Loaded(store) \ excused.overtaken :
          LET post == store.posts[p]
          IN  ~post.deleted /\ <<p, post.text>> \notin excused.texts =>
                /\ p \in AllOrder(store)
                /\ \A t \in Loaded(store) :
                     p \in store.records[t].refs <=> post.text # NoText /\ t \in post.text

\* Indexes, drawn posts and copies of the chain agree in the store.
ThreadStoreSafety == TypeOK /\ QuotesIndexed /\ RecordsCurrent /\ StoreIsChain /\ NothingHidden
=============================================================================
