# A TLA+ model of ech-board

ech-board is an imageboard whose state is kept by a Move contract on a private
Sui network. This directory models it in TLA+, checks the models with TLC on
small instances and proves the most important results with TLAPS for every value
of the constants. Paths are relative to the repository.

## 1. The system

### Parts and how they interact

    browser (src/frontend) --signed intents--> relay (src/relay) --transactions--> chain (src/move)
       ^    \--pages, nonces, content--< relay <--objects, events--/     ^
       |                                   |  ^                          | genesis, publish, upgrade
       +--------- server-sent events ------+  +-- Dragonfly, content     +-- operator, worker
                                                  store, other relays        (src/operator, src/worker)

A user has no account. The browser derives a key from a secret and a tweak (a
random tweak for a new post, a fixed one where it must act as the same sender again),
asks the relay for the key's nonce, signs an *intent* and sends it. The relay stores text and media under their hashes, adds what only it knows
(an HMAC of the address, the country, a tripcode, the verdict on a captcha),
wraps a batch of intents into a transaction which it pays for and signs, and
broadcasts it. The contract checks each intent's signature, nonce and responses
and applies it. Readers get pages that the relay assembles from chain objects and
keeps in two levels of cache. An observer in the relay turns checkpoints into
events, which the browser replays on the objects it has loaded.

### Components

| Component | State | Operations | What is hard | What makes it correct |
|---|---|---|---|---|
| contract: boards, threads, posts (`move/sources/entities`) | forum, boards, threads, posts, their feeds, roles, settings, counters | the `apply` functions of the four entities: roles, closing, deletion, settings, posting, migrating, moderating | long sequences of legal calls; state kept in two places; five ranks tested in many places | deleted implies closed; `posts_deleted` exact; every post in its place; bumping; nobody acts outside their rank |
| contract: reactions and polls (`post_apply.move`, `registry.move`) | two registries and two maps of counts per post | `set_reaction_v2`, `vote_v2`, `set_reactions` | a person has two identities, and may meet somebody else's entry under one of them | an abstract ballot box; counts equal the entries |
| contract: bans (`bans.move`) | one registry per mask and level, a mark on the post | `ban`, `unban`, `set_banned`, `ignore_forum_bans` | shared entries, lookup by four masks, the relay checks before it sends | marks stand for bans; nobody posts through one |
| contract: intents (`intent.move`, `sharded_counter.move`) | a counter per key | `decode`, `inc_checked` | replay | each intent once, in order |
| contract: upgrades and events (`entity.move`, `event.move`, `responses.move`) | version of each entity, feeds of events | `upgrade`, `init_v2`, `init_v3` | three programs know each version's layout; counters that start at zero on old entities | every version is read as it was written |
| relay: sending (`handlers/send.rs`, `upstream.rs`, `error.rs`, `handlers/nonce.rs`, `sponsor.rs`) | requests under way, the sponsor's coins, the content store | `/nonce`, `/send` with its retry loop | each retry is a new transaction while older ones may still be executed | module IntentLog |
| relay: caches (`cache.rs`, `handlers/invalidate.rs`, readers) | L1 per relay, L2 and generations in Dragonfly, a channel | lookup, build, store, invalidation, reconnection | builds overlap invalidations; messages are lost; steps fail one by one; nothing expires | acknowledged changes are seen |
| relay: realtime observer (`realtime.rs`) | `last_seen`, subscribers | checkpoint, fetch, send, lag, restart | order inside a checkpoint; restarts; lag | every subscriber sees each event once, in order |
| relay: read handlers | none of their own | HTTP handlers | paging over a list that is reordered; objects read piece by piece | a thread is not skipped; a page is one moment of the object |
| relay: content, thumbnails, process | stored files | HTTP handlers | - | - |
| relay: import (`import.rs`) | saved mapping of old to new posts | resumable migration | crash between broadcast and save | each post once |
| operator (`workflow.rs`, `reconcilers/`) and worker | Kubernetes objects | reconcilers run when their dependencies are ready | restarts, partial success, secrets read back | one genesis, one package |
| frontend: intents (`IntentBuilder.ts`, `roles.ts`, `capabilities.ts`) | derived keys, nonces | build and sign for a role | two tabs sign with one nonce; ranks are listed in three places | only one of them is applied; what is offered is accepted |
| frontend: the copy of a thread (`core/events`, `core/realtime`, `core/load.ts`) | copies of objects, buffered batches | replay, load, reconnect | batches that overlap a load | the copy equals the object |
| frontend: the store of posts (`store/store.ts`) | records, indexes of quotes, numbers, orders | ingest, fetch, edit, react | each change updates what it thinks depends on it | what is drawn is what drawing anew would give |
| frontend: the page of a board | pages joined, drawn rows | load, load more, ingest | paging while threads are bumped | every thread once; none missing |
| frontend: versions (`core/bcs`, `projection.ts`) | layouts | decode, upgrade | see upgrades | see upgrades |
| frontend: navigation (`App.tsx`, `nav.tsx`, `route.ts`) | history, context, loads | go, back, settings, compose | loads that overlap, pages that are skipped as loaded | what is shown is what the address names |
| frontend: reading (`ThreadPage.tsx`, `unread.ts`) | position, marker, count | scroll, follow, resync | two frames, smooth scrolls, two ideas of "at the end" | nobody is pulled back; read means seen |
| frontend: writing (`PostComposer.tsx`) | drafts, the edit, the send under way | write, send, edit, cancel, leave | the box stays open while it is sent | nothing is lost or posted twice |
| frontend: markup and secrets (`bbcode.ts`, `secret.ts`, `posts.ts`) | parts, numbered secrets | parse, render for an edit, lock, open | text and parts are turned into each other at each edit | an edit that changes nothing changes nothing |
| frontend: moderation (`modActions.ts`, menus, dialogs) | selection, batches, dialogs | select, ban, delete, settings | partial failures, dialogs that outlive their page | nothing is forgotten; what is offered is accepted |
| frontend: gallery (`GalleryOverlay.tsx`) | zoom, row, gesture, timers | taps, drags, pinches, keys | gestures that interrupt each other's ends | it rests in a legal place |
| frontend: previews (`PostTooltipProvider.tsx`) | a chain of previews, a timer | open, leave, fade | a pointer that moves between nested previews | what is pointed at stays |
| frontend: looks; manifests; deployment | - | - | - | no shared state: not modelled |

`PROJECT.json` lists the same components with their sources and status, and under
"hazards" the places found in the code where a test would hardly reach.

## 2. The modules

### PostBallots, Registry, Ballot: reactions and polls of one post

`Registry` is `registry.move`: three tables (entries, identities, index), and
`Add`, `Find`, `Remove` as pure operators; what `index.add` aborts on is the guard
`CanAdd`. `PostBallots` has the post's two registries, its two published counts and
the board's list of allowed reactions; each action is one transaction.
`set_reaction_v2` has three outcomes that change state, one action each: a new
reaction, an exchange, a withdrawal. `Located` is the code's lookup by key and then
by address, `OwnReaction` the assertion on sender and previous choice.

`Ballot` is the abstract box: at most one ballot per key and one per address, and
a count which is that of the ballots. `BallotsOf` is the refinement mapping from a
registry, and both registries implement the box, the poll with `Final`.

### Bans: registries of subnets, marks and the relay's check

`Bans` keeps a registry per level (forum, board, thread) and size of subnet, over the
same `Registry`. `Ban`, `Unban`, `BanPost`, `UnbanPost`, `SetIgnoreForumBans` are the
transactions; the check of the relay is cut where `check_bans_inner` awaits: `Ask`,
`LoadLevels`, `ReadIndex`, `FetchEntry` for one level and mask after the other, then `Post`,
which is the whole retry loop: the check is not made again.

Worth knowing, and modelled as the code has it:
- a check may be as old as the retries are long when the post lands (`send.rs:537-553`), so
  that only a ban in force all the time from the request on is promised to keep the post out;
- posts of one subnet share the entry: lifting the ban of one leaves the mark on the other (`lifted`);
- a batch of bans that includes a post already marked aborts as a whole (`post_apply.move:172`);
- a moderator is checked like everybody else and can lock himself out by a ban of his own subnet.

### Imageboard: the life of boards, threads and posts

One action per intent of `forum_apply`, `board_apply`, `thread_apply` and of the
parts of `post_apply` that moderate; an action is the whole transaction, nested
`apply` calls included (posting changes the post, the thread's feed and preview,
the board's feed and bumps). A thread or post is identified by its index among
all ever created, which stands for its address; its *number* is its place on the
board. `ForumStaff`, `BoardStaff`, `ThreadOwner`, `ThreadStaff` are the assertions
on the signer, with the ranks in the order of the code. Text and media are
abstracted to "has text" and "how many media".

Worth knowing, and modelled as the code has it:
- a thread's own moderators may not post in it when it is closed;
- posting looks at `closed` only, never at `deleted`; `DeletedIsClosed` is what makes that safe;
- the age of a post is an unsigned subtraction: a post migrated with a timestamp in
  the future makes each moderation by its own sender abort until then (`AgeDefined`),
  even when the sender is staff;
- anybody may delete a post that has neither text nor media;
- with bump limit 0 nothing is ever bumped, not even a new thread.

### RelaySend, IntentLog: sending

`RelaySend` composes the client (`FetchNonce`), the relay (`StoreContent`,
`Refuse`, `Build`, `BuildFails`, `Broadcast`, `Succeed`, `Retry`, `GiveUp`), the
network and the chain (`Apply`, `Abort`, `Cancel`, `Drop`). Every attempt of
`handle_send` builds a new transaction with a random gas coin. A coin is an owned
object: executing a transaction voids all others that name the same version, so a
transaction is a request and a coin, and two attempts with the same coin version
are one. Attempts with different coins are different transactions and any of them
may be executed, whatever error the relay has seen for it. `outcome` records what
became of the current attempt; `FailureKinds` says which errors the relay may see
for it (`broadcast_signed`; a node may also refuse a transaction for good without executing it), `Retryable` is `is_retryable_upstream`. What becomes of the
content an intent names depends on its kind (`Handlings`): that of a board, thread, post, text, topic or
description must come along; the reason of a ban is verified and stored only if it does; an event
without a payload handler (the migrated threads and posts) is let through unseen. `Owed` is
what the relay answers for, and `ContentKept` is about that. The contract's
refusals, wrong nonces among them, are the action `Abort`, which is always
possible: no property rests on the contract saying yes.

`IntentLog` is what a client may rely on: a batch enters the log once, whole and in
nonce order; "ok" means it did; "error" and silence mean nothing. `KeepsPromise` is
the refinement.

### RelayCache: the cached page of a thread

Relays with an L1 each, Dragonfly with L2, the thread's generation and the channel;
requests that read the page in the steps of `thread::fetch` and
`Cache::get_or_build` (load the thread, read the generation and look into L1, look
into L2, build, store twice); changes that are applied and then invalidated in the
steps of `invalidate::apply`, each a call that may fail; subscriptions that are
interrupted and flush both levels when they are back. A page is the set of
changes it shows. The four kinds of changes differ in what tells a reader: posts
change the key, reactions the generation, the moderation of a post drops the
thread's pages by pattern, settings drop everything.

The code does not promise that a page is never stale, and it is not so. What does
hold, and is checked, is stated with history fields that mark the exceptions:
- a page read while an invalidation is under way may be stored after it and then be
  served until the next one, since nothing expires (`late`);
- a flush deletes the generations, so that keys come back: relays that have not
  been told still serve pages under them, and `on_reconnect` tells nobody (`flushed`, `outdated`);
- a failed or interrupted invalidation leaves what it did not reach; such a change is
  never `owed`.

Simplifications: a SCAN is one step; the pages of boards, posts and bans, which use
the same calls, are left out; a relay reads the latest state of the chain (there
is one fullnode url per relay: behind it, a node that lags could
add staleness that no cache is to blame for); a subscription that is back
receives messages again (`fred`, the Dragonfly client, is not part of the repository, and
`start_listener` itself does not subscribe again).

### ThreadReplay: the chain's thread and the browser's copy of it

A thread, its posts and their feeds on the chain; checkpoints; the observer with
`last_seen`; batches; a page that the relay reads piece by piece; the browser's copy
with `applied`, the last event of each object it contains. A transaction is one of
`NewPost`, `SetClosed`, `PostSetDeleted`, `PostSetText`, `SetReaction` and pushes the
events that the `push` at the head of each `apply` writes. `Seal` and `Observe` are
`observe_once`: the objects that come with a checkpoint are those at its end, so the
first transaction that names an object takes all entries of it along, under the scope of
that transaction; a transaction that finds nothing new sends nothing. The order of the
objects in a batch is that of the chain's effects, any order here. `ReadThreadRoot` to
`ReadPostFields` are `load_roots_fields`: the root, which has the feed's counter, and the
fields are read by independent calls. `Commit` is `loadThread`, `snapshotThread` and
`commit` in one task; `ApplyBatch` and what it calls is `applyThreadBatch`.

Worth knowing, and modelled as the code has it:
- the browser works out `posts_deleted` itself. For a text that is taken away it sets the
  flag first and counts after, so the count is 0 then; that is right, because the contract
  calls `apply_post` again for a post that is left empty and the deletion arrives as an
  event of its own;
- an event of the thread does not say which post it is about; the browser takes the one
  the batch names, the first transaction's. If a checkpoint has moderations of two posts
  of a thread, the second is applied to the first post (`misled`);
- a root read later than the fields says that the page contains events it does not
  have, which are skipped; read earlier, reactions and counts are added twice (`torn`);
- what is lost with a connection of the observer or with a lag is not sent again (`lost`).

`CopyAgrees` excepts the three and is exact otherwise; each exception is necessary: TLC
finds a counterexample without it. Bans, votes and a thread's
other settings are left out: their events are applied like those that are in.

### LiveSession: navigation, loading and the connection

What happens in the scope of each page is counted; a page shows a set of such events.
`run` of App.tsx is cut at its awaits: `Start`, `BeginThread` (the address of the thread
has been looked up), `ReadPage` (the relay's reading), `Finish`, `NoThread`, `NoPage`.
A load that a newer one has superseded (`generation`) goes on. `client` is the
`RealtimeClient`, `conn` its EventSource: connecting, subscribed at the relay, open
(`onopen`), or dead after an answer that is an error. `Publish` hands an event to whoever
is subscribed to its scope at that moment.

Worth knowing, and modelled as the code has it:
- a superseded load of a thread still calls `begin` when its lookup ends
  (`App.tsx:103-104`; the generation is asked only later): the connection is then that of
  a page the user has left, and its buffer is never committed (`stray`); its events are
  applied to whatever page is loaded (`tainted`);
- `onopen` reloads unless a page is being loaded. If the page had been read before the
  subscription, and `onopen` came before the commit, what happened in between is on
  neither (`late`);
- an error while a page loads clears `pendingCommit`, so that `onopen` reloads: that
  closes the gap for connections that break.

`OwnEvents`, `UpToDate` and `NotHeldBack` except these, and each exception is
necessary. Applying events twice and in order is ThreadReplay's matter, caches are
RelayCache's, lags are ThreadReplay's `Lose`. The compose page, which loads a board
without a connection, and the settings page are left out.

### The browser's parts

Each of the following modules is a part of the browser with the events, answers and
timers that reach it. A property is stated without exception where the code allows it;
where it does not, the exception names the line, is kept in a history variable
(`excused`, `left`, `lost`, ...) and is necessary: TLC finds a behaviour without it. The
exceptions are listed here since they are what a maintainer would want to know.

**ThreadStore** (`store/store.ts`, `records.ts`, `Post.tsx`, `myReactions.ts`): posts, the
content map, drawn records, both directions of quotes, numbers and orders; batches, texts
that are fetched, edits that read a post again, reactions that are drawn before they are
sent, reloads. A reaction is signed with the nonce its key has between the click and the
sending (`IntentBuilder.ts:336`), so that one which failed can still be applied, but not
after a later one. `RecordsCurrent` says that partial drawing is drawing anew; `StoreIsChain`
and `NothingHidden` that once everything has arrived the page is the chain.
- an answer to a refetch replaces the post without comparing counters (`store.ts:440`);
  a text fetched meanwhile is then indexed for the wrong copy;
- a text that arrives after the content map was replaced is put into the old one (`966`);
- the numbers of posts behind one that was deleted or restored are not drawn again (`558-561`);
- a failure to read one's own reactions is swallowed (`api/myReactions.ts:22`).

**BoardView** (`handlers/board.rs`, `store.ts`, `batch.ts`, `rows.ts`): pages cut from the
bumps, joined while threads are bumped and listed, and the events of the board.
- a further page replaces what events have brought since it was read (`store.ts:383-405`),
  and lands on a list that was reloaded meanwhile (`379`);
- a thread whose opening post precedes it in its batch is not listed (`batch.ts:158`), and
  its opening post is not counted (`151`); a reply that the page had cut off is taken for
  a new one (`188`);
- pinned threads that fill a page end the paging (`board.rs:360`).

**Formats** (`entities/*.move`, `handlers/{board,thread,post}.rs`, `core/bcs`,
`core/events/projection.ts`): the fields of every version by name in the contract, by
position in the relay's answer and in the browser, and the arguments of the events. Those of creation
are compared argument by argument; of the events that set or count something the three programs share one
table of fields in the model, and the two arguments of `set_reaction_v2` are one.
- root and fields are read by two calls (`handlers/mod.rs:89`): a page fails when an upgrade
  comes between them, and counted fields are counted twice or not at all.

**Offers** (`roles.ts`, `capabilities.ts`, `PostMenu.tsx`, `threadModItems.ts`, `modActions.ts`,
`IntentBuilder.ts` against `main.move` and the `_apply` modules): who may do what is written
down three times. What is offered is accepted, what is accepted is offered, and what was done can be undone.
- the menu of a deleted opening post offers to restore its thread (`records.ts:128`);
- a ban by mark from the page of a board offers the level of a thread (`modals.tsx:94`);
- a selection may be banned although one of its posts is (`ThreadSelectionMenu.tsx:41`);
- no menu lifts the ban of an opening post (`PostMenu.tsx:26-36`).

**Selection** (`PostSelectionProvider.tsx`, `ThreadSelectionMenu.tsx`, `modals.tsx`,
`modActions.ts`): selections, batches in chunks of which some fail, the dialog of a ban.
- the flow of an earlier dialog closes the present one, and the error of a single ban is kept
  to itself, so that the post is deleted unbanned (`modals.tsx:100-106`);
- a search for an author's posts brings in posts that vanished meanwhile (`PostSelectionProvider.tsx:98`).
Batches are taken in the order of the page; the code takes the posts in the order they were selected. No
property is about the order within a batch or of batches, only about bans and deletions.

**BoardSettings** (`BoardSettingsModal.tsx`, `entityActions.tsx`, `modals.tsx`): the dialog of
a board's settings, and pins from the menu of a thread; lists are saved as a whole.
- a pin from the page of a thread takes all other pins away (`entityActions.tsx:90`,
  `store.ts:270`: that page has no copy of the board);
- a dialog left open while another board is shown saves onto that one (`modals.tsx:124`);
- the box of a tick is not put back when it was not sent (`BoardSettingsModal.tsx:183`).
While something is being saved the buttons do nothing, but a pin can be added with Enter (`247-249`).

**Composer** (`PostComposer.tsx`, `composerDraft.ts`, `ui/store.tsx`): drafts, replies, new
threads, edits. A text is the set of its pieces.
- a success empties the box of what was typed since it was sent (`293`, `324-327`), a failed
  edit is lost (`326`), and an edit is begun or read again over what is in the box (`214-226`);
- a draft is sent again when its page was left while it was being sent;
- the words of an edit that is cancelled while it is being saved (`440-444`) stay in the box and may go out
  again as a new post: `PostedOnce` counts new posts only.

**Markup** (`bbcode.ts`, `resolver.ts`, `secret.ts`, `posts.ts`, `SecretSpan.tsx`,
`PostContent.tsx`): the parsing of a text into parts, what secrets are locked for, and the
text an edit begins with; a text is a sequence of tokens. `KeepsUnchanged`: an edit that
changes nothing changes nothing; `NestedIsParsed`, `NothingLost`, `RepliedToOpens`.
- the hint of a reference has no forum (`resolver.ts:53`): an edit of a post that names one
  of another forum names another post afterwards, or none;
- tags in a secret count for those around it when the post is written, and not when it
  is edited, since the secret is a number then;
- dots behind a reference are dropped (`bbcode.ts:62-69`); a number of no secret is left out,
  and what stood on its two sides is read together at the next edit;
- secrets are locked for those posts only that the page of the writer had loaded, keep their
  keys when replies are added later, and are not opened by whom only a secret replies to
  (`PostContent.tsx:222` does not look into secrets, `bbcode.ts:254` does);
- a secret that is added by an edit signed for a role (a moderator's edit, or the author's own
  after ten minutes, `modActions.ts:114-122`) is locked with the role's key, but readers unwrap it
  with the key of the post's sender (`SecretSpan.tsx:36`): nobody can open it.

**Reading** (`ThreadPage.tsx`, `unread.ts`): the position in a thread, following its end,
the unread marker. **Navigation** (`App.tsx`, `nav.tsx`, `route.ts`): addresses, history,
what is loaded, shown and subscribed to. **Gallery** (`GalleryOverlay.tsx`): gestures, taps,
timers, animations and the video. **Tooltips** (`PostTooltipProvider.tsx`): the chain of previews.
- what counts as read is marked before it is in sight when the page scrolls to it (`ThreadPage.tsx:152-176`).
  It stays unseen when the reader leaves, or the composer grows, on the way there, and when the page does not
  know that the reader of a visible page stands at the end (as after a deletion, or a scroll event that is
  still to come) and so does not follow a post that `unread.ts` has marked; `excused` is raised in these cases
  only, `stood` says where the reader stood. Posts that come while the reader is above the end are not
  excused. The read count is an index, wrong after deletions (`unread.ts:53-83`);
- a reader who moves between the two frames of a pursuit is pulled back (`ThreadPage.tsx:170-175`). Pursuits
  that are pending at the same time are one here;
- settings visited while a load goes on leave the old content under the new address
  (`App.tsx:154-172`); going back from a page for writing that was opened directly shows a
  board nobody subscribed to (`126-141`); an address of another forum loads the board of the
  same name of this one (`100`); the address of a board named "settings" or "forum" leads to that page
  (`route.ts:58-66`), and going back may then end at the settings (`misled`, the boards of these names are
  in the run); the arrow of a page leads out of the application once the user has
  gone back (`nav.tsx:27-40`). `ShowsItsOwn` is about what stays wrong: old content while the right one is
  loading is allowed. When another forum is chosen, the visit with the old list of boards and what overtakes
  it are one step; a reload happens on any page that loads a board or a thread, as soon as it is one;
- a gallery of one picture that was swiped stays beside its place (`GalleryOverlay.tsx:519`);
  a press over a gesture that is under way (another button, or a touch the system took away: `361`, `622`)
  forgets it, and a tap that ends the new one leaves the row or the picture where the old one had moved it;
  a second finger while it is pulled away leaves it transparent (`571`), a second tap
  within 20 ms of the timer counts twice (`328-341`);
- a page that scrolls under a still pointer leaves a preview open, or closes one just
  opened (`PostTooltipProvider.tsx:140-146`).

### How the modules are run together

`MCBoardPosts` looks at posts: in two instances of `Imageboard`, in the menus of the browser and
in texts; `MCBoardRules` at instances of `Imageboard` with other tags;
`MCPostBallots` at what is filed in registries, reactions, votes and bans;
`MCBrowserCopy` at what the browser has of the chain; `MCBrowser` at what a user reads and
writes, and `MCBrowserActing` at what a moderator does things with. A
behaviour is one of one part, chosen at the beginning (`part`); the others do not move, and
borrow the variables of another where that spares variables. What is run together is chosen so that the
modules of a run can be proved about together: a theorem is one about the specification that the run checks. Nothing is composed by
that: it lets one run ask several questions. Composed are the client, the relays, the network and the chain
in RelaySend; relays, Dragonfly and readers in RelayCache; chain, observer, relay and browser
in ThreadReplay; browser, connection and relay in LiveSession; contract, relay and browser in
Formats; contract and browser in Offers, BoardView and ThreadStore; contract and relay in Bans.

## 3. What is checked

| Run | Question | Instance | Distinct states |
|---|---|---|---|
| `post_ballots` | registries of ballots and bans are sound, counts exact, ballots implement `Ballot`, marks stand for bans, nobody posts through one | 2 keys x 2 tweaks, 2 addresses, 2 emoji, 2 options; for bans 2 addresses of one subnet, one size of subnets, 3 levels and the list the board ignores | 361,000 |
| `board_posts` | numbering, preview, deleted count, bumping, emptied posts; menus; texts and their edits | 3 users, one board, 3 posts in up to 3 threads, bump limits 0 and 2, pins; `Offers`; `Markup` | 835,000 |
| `board_rules` | deletion, closing and authority under changing roles, and with a clock | 3 users of which one gets and loses every rank; or 2 users x 2 tweaks, time 0..2, migrated posts | 114,000 |
| `relay_send` | the safety of sending and the refinement of `IntentLog` | 2 requests, same key or not, batches of up to 2, 2 coins, one text, which is demanded, taken or ignored | 425,000 |
| `relay_send_live` | every request is answered | 2 requests of one key, 2 coins | 26,000 |
| `relay_send_rejected` | finding, see below | 1 request, 2 coins | - |
| `relay_cache` | posts and acknowledged reactions are on the page | 2 relays, 2 of 4 kinds of changes, 2 requests in turn | 2,340,000 |
| `relay_cache_races` | acknowledged moderations are on the page | 2 relays, 2 requests at a time, 1 interruption | 2,611,000 |
| `live_session` | the page ends up complete, with events of its own, and nothing is held back | 2 threads, 1 board, 1 event each, 3 loads, 1 broken connection | 681,000 |
| `browser_copy` | what the browser knows is what is on the chain | `ThreadReplay`, `ThreadStore`, `BoardView`, `Formats` | 1,445,000 |
| `browser_reading` | reading and writing lose nothing and go nowhere else | `Gallery`, `Navigation`, `Reading`, `Tooltips`, `Composer` | 1,578,000 |
| `browser_acting` | batches and settings do what the user asked, and nothing more | `Selection`, `BoardSettings` | 1,544,000 |

The properties; each has a comment in its module, those that are conjunctions on each part.
- *PostBallots* (`BallotsSafety`): `RegistriesSound`, `ReactionTally`, `VoteTally`; the refinements
  `ReactionsAreBallots`, `VotesAreBallots`.
- *Bans* (`BansSafety`): `BansIndexed`, `MarksStand` (a marked post is under a ban, unless
  another ban of the same entry was lifted), `NobodyPostsBanned` (but for what was checked
  before the ban).
- *Imageboard*: `DeletedIsClosed`, `DeletedCountExact`, `PostsInPlace` (the number of every
  post, its place in its thread, the preview); action properties `BumpsWithinLimit`,
  `EmptiedIsDeleted`, `DeletedTakesNoPosts`, `AuthorityIsKept` (whatever a transaction changes
  is within its signer's rank, stated over all objects at once).
- with *board_posts* also `OffersSafety` (what is offered is accepted, staff can act, deeds can be
  undone) and `MarkupSafety`.
- *RelaySend*: `NonceSequence`, `OkMeansApplied`, `ContentKept`,
  the refinement `KeepsPromise`, liveness `Answered`.
- *RelayCache*: `CacheSafety` (`PostsSeen`, `ReactionsSeen`), `ModerationSeen`.
- *LiveSession*: `SessionSafety` (`OwnEvents`), `UpToDate`, liveness `NotHeldBack`.
- *browser_copy*: `ReplaySafety` (the copy agrees, posts in order), `StoreSafety`
  (quotes are indexed, records are current, the store is the chain, nothing is hidden),
  `BoardViewSafety` (rows are current, pages are complete, the board is the chain), `PagingAdvances`,
  `FormatsSafety` (copies agree in every version, reading fails only across an upgrade).
- *browser_reading*: `GallerySafety` (it rests well, taps are counted, seeking keeps the video's state),
  `NavigationSafety` (addresses are read back, a page shows its own, listens to what it
  shows, back leads to content), `ReadingSafety` (read is seen, the marker stands, nobody is
  pulled back), `TooltipsSafety`, `StaysUnderPointer`, `ComposerSafety` (nothing is lost or posted
  twice, an edit stays one, posts are signed as shown).
- *browser_acting*: `SelectionPart` (what is selected is shown, nothing is forgotten, bans come
  before deletions), `ClosedWhenDonePart`, `BoardSettingsSafety` (saved lists are accepted, the box
  tells the truth), `OnlyTakenVanish`.

Where the code breaks a property in a case named in section 2, the property excepts just
that case; without the exception TLC shows it.

### Bounds and why they are enough

- `MaxEntries` 3: one entry each for two people and one exchange; a third person adds
  no new relation between a key, an address and an entry.
- Bans: two addresses that share a subnet, so that posts of both are under one entry; with the bans of
  the board and of the forum two changes make a ban and a second one of the same entry, or a ban and its lifting,
  and marks outlive what they stood for. The clock (0..1) and the relay's check: before and
  after the end of a ban, and a ban between check and post. Several sizes of subnets, more posts and changes
  are covered by the theorem.
- `MaxPosts` 3 with `Preview` 1: a thread with a reply beyond the preview, a thread
  beyond the bump limit, two threads on a board; `Slugs` has one board
  in all runs, since no transaction touches two; the contract has three replies in the
  preview, the constant is `Preview`.
- `Tags` restricts a part to the intents it is about; together the parts fire all.
- `MaxTime` 2 with window 1: before, at and after the end of the window, and the future.
- Two requests and two coins: a second attempt beside a live first one, another
  request's transaction that spends the coin; batches of 2 have a first and a last intent.
- `MaxChanges`, `MaxReads`, `MaxOutages`: a page is warmed by the first request and
  read by the second; a flush and a reaction meet in `relay_cache`; in
  `relay_cache_races` a request at one relay overlaps the invalidation by another.
- `MaxRuns` 3, two threads and a board: a load that is superseded twice, a return to the
  first page, a reload by `onopen`; one event for each scope is enough to be missing, to
  be buffered, or to go to the wrong page; one broken connection (or one that is dead).
- *ThreadReplay*: `MaxTxs` 2 with `FirstPosts` 1, `MaxPosts` 2: two transactions in one checkpoint or in
  two, on one post or on two; a post that arrives while the page is read. `MaxLoads` 2:
  a second page replaces a copy that has had events, and closes the gap of a lost batch.
- *ThreadStore*: two posts that quote each other, two changes and one reload: an answer that comes after
  the edit or the reaction that it does not know. *BoardView*: pages of two of three to four
  threads, with up to two pinned: a first page without and with room, a second, a last one.
  *Formats*: three events on each object, one for each upgrade. *Offers*: a page
  one change behind.
- *Gallery*: an album of one picture, which has no neighbours, and one of a video, a picture
  and a file; two taps, two openings. *Navigation*: two steps of the user besides moving within the history, which is
  bounded by the loads under way only (three); two forums, boards with the names of pages, one that exists and one that does not. *Reading*: a window of three of up to five posts. *Tooltips*: three nested
  previews. *Composer*: two sources, two threads, one own; four steps make a draft, a sending,
  a change meanwhile and an answer.
- *Markup*: texts of up to four tokens over two kinds of tags, and over references,
  of up to five where a secret is one of the kinds; an edit puts in or takes out one token.
- *Selection*: two posts in batches of one (so that one fails and one does not), two dialogs at
  a time. *BoardSettings*: two boards, two threads, at most two pins, one image.

`CHECK_DEADLOCK FALSE` is set where requests end for good (`relay_send*`) or where the
bounds on what happens are reached (`post_ballots` for bans, `relay_cache*`, `live_session`,
`browser_*`).

### Fairness

`FairSpec` of RelaySend assumes that the relay process runs (weak fairness of its own
steps, and of the retry of an attempt that got no result), and that the upstream does
not fail for ever: an attempt that is broadcast again and again is executed at last,
and a result that could be reported again and again is reported at last (strong
fairness of `ExecuteCurrent`, `Succeed`, `GiveUp`). The loop in `handle_send` has no
bound on attempts, so this is what an answer needs; a node that times out for ever
keeps the request for ever. The client's first step is not fair: a request that was
never sent needs no answer.

`FairSpec` of LiveSession assumes that requests end, with a page or an error, that a
subscription is answered and the browser runs its tasks, and that the observer publishes
what has happened: weak fairness of each load, of `Subscribe`, `Open`, `Receive` and of
`Publish` for each scope. Nothing makes the user navigate, things happen or connections
break.

### Finding

`relay_send_rejected`: the relay answers `UpstreamAllFailed`, "all upstream nodes
rejected transaction" (`src/relay/src/error.rs:59`), for a request whose first attempt
was applied. A wait for the checkpoint that times out, or a broken connection, is
retried with another coin; the second transaction aborts on the nonce the first one
consumed, and that abort is final. The user is told that a post failed which is on
the chain, no cache is invalidated, and posting again posts twice, because a new post
has a new key.

## 4. What is proved

All of it for every value of the constants, from the named assumption of the module only.

`ImageboardProofs`: `TypeCorrect`, `DeletionImpliesClosure`, `DeletedCountCorrect`, from
`ImageboardAssumption`. The invariant is
`Inv == TypeOK /\ References /\ DeletedIsClosed /\ DeletedCountExact`. `References`
(every post names an existing thread, every thread an existing board)
is needed because the count of a thread is a cardinality over all posts: a new post
must not belong to a thread that does not exist yet. The steps are grouped by what
they change: settings of a board, forum or thread leave the counted parts alone
(`BoardSettingEffect`, `ForumSettingEffect`, `ThreadSettingEffect`), posting appends a
post that is not deleted (`AppendKeepsDeletedPosts`), moderation moves one post into or
out of one set of deleted posts together with its thread's count (`ModerationInv`).

Also there: `PostsStayInPlace`. The invariant `Placed` adds that each post is
listed in its thread once, at the place its number in the thread says, that each thread
is listed on its board, that the counters are the lengths of these lists, and that the
preview is the newest replies. `NewestIsPreview` is the lemma about the preview;
`PostToKeepsPlaces`, `OpenThreadKeepsPlaces`, `ModerationKeepsPlaces` and
`SettingsKeepPlaces` are the steps.

And `EmptiedPostsAreDeleted`, `DeletedThreadsTakeNoPosts` and
`BumpsAreWithinLimit`, action properties from the same invariants. The last needs both: the code
compares `posts_count - posts_deleted` with the limit, and only `Placed` (the counter is the length of
the thread's list, `PostsLive`) with `DeletedCountExact` make that the number of live posts.

Also there: `AuthorityIsRespected`, one case for each group of intents: posting, moderation,
the settings of a board, a thread and the forum. It needs `Placed`, since in a thread
without posts a reply would become the opening post, which only the thread's owner may change.

`RelaySendProofs` (all requests, keys, coins, batch sizes): `TypeCorrect`,
`NoncesInSequence`, `OkIsTrue`, `ContentIsKept` and the refinement
`PromiseKept`. From `SendAssumption`. The invariant adds to the checked properties
`SentIsSigned` (what is in the network was signed and the content it owes stored), `AllOrNothing`
(a batch stays in the log as `Apply` wrote it: of use to the refinement, no claim of its own), `KnownIsApplied`
(an attempt whose outcome is "applied", and a request answered "ok", is in the log) and
`LogLongEnough` (a counter is at most the length of the log, which bounds the nonce that
`IntentLog!Commit` quantifies over). The heart is `NonceStep`: a transaction is accepted
only when its nonce is the counter of its key, so whatever is still in the network after
its request has been applied can never be applied again.

`RegistryProofs` (tables of any size) has what `add` and `remove` of a registry keep. They keep the
tables of one another's ids by themselves (`AddIsRegistry`), but removing does so only if the
index is the inverse of the identities (`RemoveIsRegistry`): an identity that led to the removed
entry from elsewhere would lead nowhere. Adding keeps the inverse when no identity is
filed yet, which is where `index.add` aborts (`AddKeepsInverse`).

`PostBallotsProofs`: `BallotsAreSafe`, and the refinements `ReactionsImplementBallot` and
`VotesImplementBallot`. The registries and the counts are inductive as they are; a count is a
cardinality over entries, so an exchange is a removal and an addition of one entry.
For the refinement a ballot is a record without an id: `BoxCounts` shows that counting ballots is
counting entries, since no two entries have a ballot in common (`BallotIdentities`: from the
disjointness of keys and addresses in `BallotAssumption`, a registry gives back the key and the
address of each entry).

Also there, for the other part of the run (any addresses, subnets, levels, posts and times): `BansAreSafe`, which
is `BansSafety` of the run. Three parts had to be added to make it inductive: each entry is filed under
exactly one hash (`Filed`; otherwise lifting one ban could lift another, under whose mark a post stays);
a hash that is filed before and after a step leads to the same entry (`SameEntries`);
and of every ban that has been in force since the request came, the index is still to be listed or
its entry is among those found (`ToBeSeen`). That is why it does not matter in which order the relay lists the
registries while bans come and go. `LoadedIsSeen` shows that the list of checks has every
level and size, with the numbering by `\div` and `%`.

`RelayCacheProofs` (`CacheAssumption`; any relays, requests and changes): `CachesAreSafe` and `ModerationsAreSeen`.
Each has an invariant of its own, over `TypeOK` and `JobsInOrder` (which job is left in which phase).
- Posts (`PostsHistory`): there is a function H from numbers to sets of posts, the first n of the thread,
  such that every page under the key `<<n, g>>`, in whatever cache or request, shows H[n]. The state does not
  hold this history, so the invariant says that there is one, and a new post extends it.
- Reactions (`ReactionsHistory`): likewise G[g], what was acknowledged up to generation g; a page that is not
  marked shows it. That a generation names one set needs `FlushesInOrder`: when the
  generations are reset, the pages of old ones are gone or marked, and so is what requests
  under way will still store.
- Moderations and settings (`SweepsInOrder`): while a sweep is under way every request knows; from the scan on,
  every page in Dragonfly is marked or among the keys to be deleted; afterwards every unmarked page
  shows the change, except in L1 of relays that its message has not reached.

`LiveSessionProofs` (`SessionAssumption`; any pages, events, loads and errors): `SessionsAreSafe`, `SessionsCatchUp`.
They are proved of `Spec`, hence of `FairSpec`. The invariant has four parts:
messages in a queue are of the scope the client is subscribed to (`Messages`); the newest load and
the page it leaves are those of the route (`Routes`); unless a superseded load began last, the client buffers while
a load is under way and its scope is the page's when it does not (`Attached`); and everything
published is in what was read, before the subscription, or in a queue (`Covered`).

`BrowserProofs` (`Assumptions` of MCBrowser, that is the assumptions of the parts; any texts, posts,
albums, sizes, addresses and numbers of steps): all that run `browser_reading` checks. Each part has an
inductive invariant, one lemma for each action, and is lifted to `MCSpec` by the part a behaviour is of.
- *Tooltips*: `PreviewsStayAChain`, `PreviewsStayUnderThePointer`. `TipInv` adds to the checked properties
  that ids are below `nextId` and never used twice, and that what fades is disjoint from what is open.
  The innermost preview under the pointer is the greatest of a set of numbers: `GreatestNumber`.
- *Composer*: `WrittenOnceOrKept`. `CompInv` says what is under way for the page shown (`UnderWay`: one new
  post of its mode and one edit at most), that what was typed is still somewhere without counting what is
  under way (`Kept`), and where a word may be that was posted once: in the box that awaits its answer or
  nowhere (`OnceInv`).
- *Gallery*: `GalleryEndsUpRight`. A picture out of its limits is in a gesture that will settle it, has inertia,
  or was left so by a press over one (`LegalView`), a row out of its place is under a finger or was left so
  (`MovedInv`), and the taps that are owed are those whose timer is pending (`TapsInv`), a cardinality of the set of timers.
- *Reading*: `UnreadIsWhatWasNotSeen`. `ReadComes` says that what counts as read and was not yet in sight is where
  a scroll under way ends; `GoneUp` and `Quiet` that the page knows of a reader who has gone up, or that the
  scroll event which tells it is still to come. `EndKnown`: a post that arrives counts as read only if the reader stood at the
  end; then the page pursues it, or is excused because it did not know that. Sizes are arbitrary, so the
  geometry is proved as inequalities between positions, window and box.
- *Navigation*: `BackLeadsToContent`, the whole of `NavigationSafety`, for any names of boards. `NavInv` says that the page the
  application thinks it shows is what the address names, but for the settings (`PrevOK`), that the newest load is for that page
  and has subscribed unless an overtaken one did later (`NewestOK`), and that without a newest load or an error the
  store has that page (`ShownOK`). `ReadBack` proves that `route.ts` reads back every address it writes, but for
  the names of its pages; an address that leads to the settings was written for them, or the user is `misled`.

`LeastNumber` and `GreatestNumber` of `BrowserProofs` show that non-empty (bounded) sets of numbers have a least and a greatest
one, from the well-foundedness of the order: induction over numbers by the least counterexample needs none of
the library theorems with operators as parameters.

All inductive invariants were first run through TLC on the instances of section 3 or smaller ones.

Only model-checked:
- liveness (`Answered`, `NotHeldBack`), which is out of the prover's reach;
- run `browser_acting` (`SelectionPart`, `ClosedWhenDonePart`, `BoardSettingsSafety`, `OnlyTakenVanish`): batches and
  saved lists are cut from sequences with `SelectSeq` and `SetToSortSeq`, of which the provers know only what an
  induction would show;
- of run `browser_copy`: `ReplaySafety`, `StoreSafety`, `BoardViewSafety`, `PagingAdvances` (ThreadReplay and BoardView fold over batches,
  and cut and merge lists, with recursive functions; StoreSafety relates ten tables and is left for later) and `FormatsSafety`;
- of run `board_posts`: `OffersSafety` (lists of menus are made with `SelectSeq`) and `MarkupSafety`, whose module
  parses recursively;
- `AuthorityIsKept` of MCBoardRules as it stands, which is `AuthorityIsLocal` of two instances at a time.

## 5. What is not modelled

- The import of an old board (`relay/src/import.rs`), the operator's reconcilers and the
  worker's jobs: hazards in `PROJECT.json` name where they may go wrong.
- Content and thumbnails, HTTP routing, geolocation, captcha images, how things
  look, manifests and charts: input and output, or text, around state that is modelled or absent.
- Encodings and cryptography: a signature that verifies is one that the key made, a secret is
  opened by whom it was locked for. The consensus of the chain: transactions are atomic and ordered.
- The cached marks of banned posts: a page shows them as they were when it was built,
  since nothing invalidates pages when a ban is made or lifted (`handlers/invalidate.rs:116`);
  there is no promise to check.
- An upgraded thread counts its deleted posts from zero (`thread.move:193`). Formats has the
  upgrade and its fields, Imageboard starts at the last version.
- Media that moderators ban; topic and description texts; the browser's handling of votes
  and of roles; the pages of bans, feeds and of the forum.

## 6. What could be added

1. `Import`: resume after a crash, against "each old post once".
2. `Operator`: the reconcilers' order and restarts, one genesis and one package.
3. Upgrades within `Imageboard`, with the count of deleted posts as it starts then.
4. Theorems about what the browser has of the chain: `ThreadStore`, `ThreadReplay` (whatever is replayed in whatever order,
   the copy is the chain's), `Offers`; and about `Selection` and `BoardSettings`.
