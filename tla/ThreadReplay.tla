---------------------------- MODULE ThreadReplay ----------------------------
(***************************************************************************)
(* A thread on the chain and the copy of it that a browser shows.  The     *)
(* contract writes what it does into the feeds of the thread and of its    *)
(* posts (thread.move, post.move push).  The relay's observer follows the  *)
(* checkpoints, reads the new entries of the feeds and sends them in       *)
(* batches (realtime.rs).  The browser loads the page, whose objects the   *)
(* relay reads one by one while the chain goes on, keeps the batches that  *)
(* arrive meanwhile, and applies all of them to its copy (client.ts,       *)
(* batch.ts, thread_apply.ts, post_apply.ts), skipping what the page       *)
(* already contains.                                                       *)
(*                                                                         *)
(* Object 0 is the thread, object p is post p.  Who may do what is in      *)
(* Imageboard; which page a cache may answer with is in RelayCache; how    *)
(* the browser connects and when it loads is in LiveSession.               *)
(***************************************************************************)
EXTENDS Integers, Sequences, SequencesExt

CONSTANTS
  FirstPosts, \* posts the thread has at the beginning
  MaxPosts,   \* bound: posts of the thread
  MaxTxs,     \* bound: transactions
  MaxLoads,   \* bound: times the page is loaded
  MaxLosses   \* bound: batches that are lost

ReplayAssumption ==
  /\ FirstPosts \in Nat \ {0} /\ MaxPosts \in Nat /\ FirstPosts <= MaxPosts
  /\ MaxTxs \in Nat /\ MaxLoads \in Nat /\ MaxLosses \in Nat

VARIABLES
  thread, posts, \* the objects on the chain
  feeds,         \* object -> its events so far
  open,          \* transactions that are in no checkpoint yet
  sealed,        \* object -> length of its feed at the last checkpoint
  stream,        \* checkpoints on their way to the observer
  seen,          \* last_seen of the observer
  channel,       \* batches on their way to the browser
  pending,       \* batches the browser keeps while it loads the page
  load,          \* the page as far as it has been read
  view,          \* what the browser shows
  lost,          \* history: a batch was lost since the last load began
  txs, loads, losses \* count up to the bounds

vars == <<thread, posts, feeds, open, sealed, stream, seen, channel, pending,
          load, view, lost, txs, loads, losses>>
chain == <<thread, posts, feeds, open, txs>>
relay == <<sealed, stream, seen>>

Objects == 0 .. MaxPosts
PostIds == DOMAIN posts

\* "on" is the post an event is about.  The events of a thread do not name the
\* post that is moderated, so only properties look at it there.
ThreadKinds == {"new_post", "set_closed", "post_set_deleted", "post_set_text"}
PostKinds == {"genesis", "set_deleted", "set_text", "set_reaction"}
Event == [kind : ThreadKinds \cup PostKinds, on : Objects, yes : BOOLEAN]
Ev(kind, p, yes) == [kind |-> kind, on |-> p, yes |-> yes]

ThreadObject == [closed : BOOLEAN, count : Nat, hidden : Int]
PostObject ==
  [id : Objects, text : BOOLEAN, media : BOOLEAN, deleted : BOOLEAN, likes : Nat]

\* A new post has either text or media.
FreshPost(p, text) ==
  [id |-> p, text |-> text, media |-> ~text, deleted |-> FALSE, likes |-> 0]

Batch == [post : Objects, envelopes : Seq(Objects \X (Nat \ {0}))]
Tx == [post : Objects, roots : SUBSET Objects]
Counters == [Objects -> Nat]
Unread == -1

-----------------------------------------------------------------------------
\* The contract.  Each transaction changes the post and its thread together
\* and pushes the events of both.

Transact(p, inThread, inPost) ==
  /\ txs < MaxTxs /\ txs' = txs + 1
  /\ feeds' = [o \in Objects |->
       CASE o = 0 -> feeds[o] \o inThread
         [] o = p /\ p # 0 -> feeds[o] \o inPost
         [] OTHER -> feeds[o]]
  /\ open' = Append(open,
       [post |-> p,
        roots |-> (IF inThread = <<>> THEN {} ELSE {0}) \cup (IF p = 0 THEN {} ELSE {p})])
  /\ UNCHANGED <<relay, channel, pending, load, view, lost, loads, losses>>

NewPost(text) ==
  LET p == Len(posts) + 1
  IN  /\ p <= MaxPosts
      /\ posts' = Append(posts, FreshPost(p, text))
      /\ thread' = [thread EXCEPT !.count = @ + 1]
      /\ Transact(p, <<Ev("new_post", p, TRUE)>>, <<Ev("genesis", p, text)>>)

SetClosed(closed) ==
  /\ thread.closed # closed
  /\ thread' = [thread EXCEPT !.closed = closed]
  /\ Transact(0, <<Ev("set_closed", 0, closed)>>, <<>>)
  /\ UNCHANGED posts

PostSetDeleted(p, deleted) ==
  /\ posts[p].deleted # deleted
  /\ posts' = [posts EXCEPT ![p].deleted = deleted]
  /\ thread' = [thread EXCEPT !.hidden = IF deleted THEN @ + 1 ELSE @ - 1]
  /\ Transact(p, <<Ev("post_set_deleted", p, deleted)>>, <<Ev("set_deleted", p, deleted)>>)

\* apply_post calls itself for a post that is left with nothing, so that the
\* feeds get the deletion as an event of its own.
PostSetText(p, text) ==
  LET emptied == ~text /\ ~posts[p].media /\ ~posts[p].deleted
      Then(event) == IF emptied THEN <<event>> ELSE <<>>
  IN  /\ posts' = [posts EXCEPT ![p].text = text, ![p].deleted = @ \/ emptied]
      /\ thread' = IF emptied THEN [thread EXCEPT !.hidden = @ + 1] ELSE thread
      /\ Transact(p,
           <<Ev("post_set_text", p, text)>> \o Then(Ev("post_set_deleted", p, TRUE)),
           <<Ev("set_text", p, text)>> \o Then(Ev("set_deleted", p, TRUE)))

\* One reaction more, or one withdrawn.
SetReaction(p, more) ==
  /\ more \/ posts[p].likes > 0
  /\ posts' = [posts EXCEPT ![p].likes = IF more THEN @ + 1 ELSE @ - 1]
  /\ Transact(p, <<>>, <<Ev("set_reaction", p, more)>>)
  /\ UNCHANGED thread

-----------------------------------------------------------------------------
\* Checkpoints and the observer.

\* The objects of a checkpoint are those at its end, whichever transaction
\* changed them, and the entries are those of all its transactions.
Seal ==
  /\ open # <<>>
  /\ LET upto == [o \in Objects |-> Len(feeds[o])]
     IN  /\ stream' = Append(stream, [txs |-> open, from |-> sealed, upto |-> upto])
         /\ sealed' = upto
  /\ open' = <<>>
  /\ UNCHANGED <<thread, posts, feeds, seen, channel, pending, load, view, lost, txs, loads, losses>>

Later(m, n) == IF m > n THEN m ELSE n

\* Entries that were not sent and are in the checkpoint.
Fresh(o, c) ==
  LET start == Later(seen[o], c.from[o])
  IN  [i \in 1 .. c.upto[o] - start |-> <<o, start + i>>]

\* One transaction of the first checkpoint.  The first batch of a checkpoint
\* that names an object has all its entries, under the post of that transaction.
\* The order of the objects in a batch is that of their addresses.
Observe ==
  /\ stream # <<>>
  /\ LET c == Head(stream)
         tx == Head(c.txs)
     IN  /\ \E order \in SetToSeqs(tx.roots) :
              LET envelopes == FlattenSeq([i \in DOMAIN order |-> Fresh(order[i], c)])
              IN  channel' = IF envelopes = <<>> THEN channel
                             ELSE Append(channel, [post |-> tx.post, envelopes |-> envelopes])
         /\ seen' = [o \in Objects |-> IF o \in tx.roots THEN Later(seen[o], c.upto[o]) ELSE seen[o]]
         /\ stream' = IF Len(c.txs) = 1 THEN Tail(stream)
                      ELSE [stream EXCEPT ![1].txs = Tail(@)]
  /\ UNCHANGED <<chain, sealed, pending, load, view, lost, loads, losses>>

\* The observer's connection breaks and with it go the batches of a checkpoint,
\* or the browser lags behind the channel.
Lose ==
  /\ channel # <<>>
  /\ losses < MaxLosses /\ losses' = losses + 1
  /\ channel' = Tail(channel)
  /\ lost' = TRUE
  /\ UNCHANGED <<chain, relay, pending, load, view, txs, loads>>

-----------------------------------------------------------------------------
\* How the browser applies an event.

Shows(v, p) == \E i \in DOMAIN v.posts : v.posts[i].id = p

\* Replaces post p by F of it, if the copy has it.
Changed(v, p, F(_)) ==
  [v EXCEPT !.posts = [i \in DOMAIN @ |-> IF @[i].id = p THEN F(@[i]) ELSE @[i]]]

\* applyPost
ApplyPost(post, event) ==
  CASE event.kind = "set_deleted"  -> [post EXCEPT !.deleted = event.yes]
    [] event.kind = "set_text"     -> [post EXCEPT !.text = event.yes]
    [] event.kind = "set_reaction" ->
         [post EXCEPT !.likes = IF event.yes THEN @ + 1 ELSE Later(@ - 1, 0)]

\* An event of post p.
PostEvent(v, p, event) ==
  IF event.kind # "genesis"
  THEN LET Next(post) == ApplyPost(post, event) IN Changed(v, p, Next)
  ELSE IF Shows(v, p) THEN v
       ELSE [v EXCEPT !.posts = Append(@, FreshPost(p, event.yes))]

WillBeEmpty(post, event) == ~post.deleted /\ ~event.yes /\ ~post.media

\* applyPostFlags
Flagged(post, event) ==
  IF event.kind = "post_set_deleted"
  THEN [post EXCEPT !.deleted = event.yes]
  ELSE [post EXCEPT !.text = event.yes, !.deleted = @ \/ WillBeEmpty(post, event)]

\* postsDeletedDelta
DeltaMutant(post, event) ==
  IF event.kind = "post_set_deleted" THEN (IF event.yes THEN 1 ELSE -1)
  ELSE IF ~event.yes /\ ~post.media THEN 1 ELSE 0

Delta(post, event) ==
  IF event.kind = "post_set_deleted" THEN (IF event.yes THEN 1 ELSE -1)
  ELSE IF WillBeEmpty(post, event) THEN 1 ELSE 0

\* applyThread
ApplyThread(t, event) ==
  CASE event.kind = "new_post"   -> [t EXCEPT !.count = @ + 1]
    [] event.kind = "set_closed" -> [t EXCEPT !.closed = event.yes]

\* An event of the thread in a batch about post p.  What it says of a post is
\* applied to p, and the count is taken from p after that.
ThreadEvent(v, p, event) ==
  LET Next(post) == Flagged(post, event)
      flagged == Changed(v, p, Next)
      about == SelectSeq(flagged.posts, LAMBDA post : post.id = p)
      misled == v.misled \/ event.on # p \/ about = <<>>
  IN  IF event.kind \in {"new_post", "set_closed"}
      THEN [v EXCEPT !.thread = ApplyThread(@, event)]
      ELSE IF about = <<>> THEN [v EXCEPT !.misled = misled]
      ELSE [flagged EXCEPT !.misled = misled, !.thread.hidden = @ + Delta(about[1], event)]

\* Skips what the copy already contains.
ApplyEnvelope(v, p, o, i) ==
  IF i <= v.applied[o] THEN v
  ELSE LET next == [v EXCEPT !.applied[o] = i]
       IN  IF o = 0 THEN ThreadEvent(next, p, feeds[o][i]) ELSE PostEvent(next, o, feeds[o][i])

\* applyThreadBatch
ApplyBatch(v, batch) ==
  FoldLeft(LAMBDA w, env : ApplyEnvelope(w, batch.post, env[1], env[2]), v, batch.envelopes)

-----------------------------------------------------------------------------
\* Loading the page.

NoLoad ==
  [phase |-> "shown", roots |-> [o \in Objects |-> Unread], at |-> [o \in Objects |-> Unread],
   thread |-> [closed |-> FALSE, count |-> 0, hidden |-> 0], posts |-> <<>>]

\* begin: from here on batches are kept.
Begin ==
  /\ load.phase = "shown"
  /\ loads < MaxLoads /\ loads' = loads + 1
  /\ load' = [NoLoad EXCEPT !.phase = "thread"]
  /\ pending' = <<>>
  /\ lost' = FALSE
  /\ UNCHANGED <<chain, relay, channel, view, losses>>

\* With both parts of the thread come its posts: the count in its fields says
\* how many there are (fetch_feed).
Listed(l) ==
  IF l.roots[0] = Unread \/ l.at[0] = Unread THEN l
  ELSE [l EXCEPT !.phase = "posts", !.posts = [p \in 1 .. l.thread.count |-> FreshPost(p, TRUE)]]

\* load_roots_fields reads the roots of objects, which have the counters of
\* their feeds, and their fields at the same time, in either order.
ReadThreadRoot ==
  /\ load.phase = "thread" /\ load.roots[0] = Unread
  /\ load' = Listed([load EXCEPT !.roots[0] = Len(feeds[0])])
  /\ UNCHANGED <<chain, relay, channel, pending, view, lost, loads, losses>>

ReadThreadFields ==
  /\ load.phase = "thread" /\ load.at[0] = Unread
  /\ load' = Listed([load EXCEPT !.thread = thread, !.at[0] = Len(feeds[0])])
  /\ UNCHANGED <<chain, relay, channel, pending, view, lost, loads, losses>>

ReadPostRoots ==
  /\ load.phase = "posts" /\ load.roots[1] = Unread
  /\ load' = [load EXCEPT !.roots =
       [o \in Objects |-> IF o \in DOMAIN load.posts THEN Len(feeds[o]) ELSE @[o]]]
  /\ UNCHANGED <<chain, relay, channel, pending, view, lost, loads, losses>>

ReadPostFields(p) ==
  /\ load.phase = "posts" /\ p \in DOMAIN load.posts /\ load.at[p] = Unread
  /\ load' = [load EXCEPT !.posts[p] = posts[p], !.at[p] = Len(feeds[p])]
  /\ UNCHANGED <<chain, relay, channel, pending, view, lost, loads, losses>>

\* snapshotThread: what the page contains, as its roots say.  History: misled
\* says that a moderation went to another post than its own or to none, torn
\* that roots and fields of an object are of different versions.
Snapshot ==
  [thread |-> load.thread, posts |-> load.posts,
   applied |-> [o \in Objects |-> Later(load.roots[o], 0)],
   misled |-> FALSE, torn |-> load.roots # load.at]

ReplayedMutant(v, batches) == v

Replayed(v, batches) == FoldLeft(ApplyBatch, v, batches)

\* loadThread and commit, in one task of the browser.
Commit ==
  /\ load.phase = "posts"
  /\ \A p \in DOMAIN load.posts : load.roots[p] # Unread /\ load.at[p] # Unread
  /\ view' = Replayed(Snapshot, pending)
  /\ pending' = <<>>
  /\ load' = NoLoad
  /\ UNCHANGED <<chain, relay, channel, lost, loads, losses>>

\* onmessage: kept while a page is loaded.
Deliver ==
  /\ channel # <<>>
  /\ channel' = Tail(channel)
  /\ IF load.phase = "shown"
     THEN view' = ApplyBatch(view, Head(channel)) /\ UNCHANGED pending
     ELSE pending' = Append(pending, Head(channel)) /\ UNCHANGED view
  /\ UNCHANGED <<chain, relay, load, lost, loads, losses>>

-----------------------------------------------------------------------------
Init ==
  /\ thread = [closed |-> FALSE, count |-> FirstPosts, hidden |-> 0]
  /\ posts = [p \in 1 .. FirstPosts |-> FreshPost(p, TRUE)]
  /\ feeds = [o \in Objects |->
       CASE o = 0 -> [p \in 1 .. FirstPosts |-> Ev("new_post", p, TRUE)]
         [] o \in 1 .. FirstPosts -> <<Ev("genesis", o, posts[o].text)>>
         [] OTHER -> <<>>]
  /\ open = <<>> /\ stream = <<>> /\ channel = <<>> /\ pending = <<>>
  /\ sealed = [o \in Objects |-> Len(feeds[o])]
  /\ seen = [o \in Objects |-> 0]
  /\ load = [NoLoad EXCEPT !.phase = "thread"]
  /\ view = [thread |-> thread, posts |-> <<>>, applied |-> [o \in Objects |-> 0],
             misled |-> FALSE, torn |-> FALSE]
  /\ lost = FALSE
  /\ txs = 0 /\ loads = 1 /\ losses = 0

Act ==
  \/ \E x \in BOOLEAN : NewPost(x) \/ SetClosed(x)
  \/ \E p \in PostIds, x \in BOOLEAN :
        PostSetDeleted(p, x) \/ PostSetText(p, x) \/ SetReaction(p, x)

Read ==
  \/ Begin \/ ReadThreadRoot \/ ReadThreadFields
  \/ ReadPostRoots \/ (\E p \in DOMAIN load.posts : ReadPostFields(p)) \/ Commit

Next == Act \/ Seal \/ Observe \/ Lose \/ Deliver \/ Read

Spec == Init /\ [][Next]_vars

-----------------------------------------------------------------------------
View ==
  [thread : ThreadObject, posts : Seq(PostObject), applied : Counters,
   misled : BOOLEAN, torn : BOOLEAN]

\* Well-typed states; no count of reactions goes below zero.
TypeOK ==
  /\ thread \in ThreadObject /\ thread.hidden >= 0
  /\ posts \in Seq(PostObject)
  /\ feeds \in [Objects -> Seq(Event)]
  /\ open \in Seq(Tx)
  /\ sealed \in Counters /\ seen \in Counters
  /\ stream \in Seq([txs : Seq(Tx), from : Counters, upto : Counters])
  /\ channel \in Seq(Batch) /\ pending \in Seq(Batch)
  /\ view \in View
  /\ lost \in BOOLEAN

\* Everything that was done has reached the browser.
Settled == open = <<>> /\ stream = <<>> /\ channel = <<>> /\ load.phase = "shown"

\* When everything has arrived, what the browser shows is what is on the chain,
\* whenever the page was read and however batches and reads interleaved: no
\* event is counted twice or left out, texts, flags and reactions are right, and
\* so is the count of deleted posts, which the browser works out for itself.
\* Excepted are a page of which an object was read in two versions, batches
\* that were lost since, and moderations that were applied to another post than
\* theirs or to one that was not there yet.
CopyAgrees ==
  Settled /\ ~lost /\ ~view.misled /\ ~view.torn
    => view.thread = thread /\ view.posts = posts

\* Even then, no post is missing in the middle, shown twice or out of order,
\* unless batches were lost, and if so no post is shown twice or out of order.
PostsInOrder ==
  /\ \A i, j \in DOMAIN view.posts : i < j => view.posts[i].id < view.posts[j].id
  /\ ~lost /\ load.phase = "shown" =>
       /\ \A i \in DOMAIN view.posts : view.posts[i].id = i
       /\ Settled => Len(view.posts) = Len(posts)
=============================================================================
