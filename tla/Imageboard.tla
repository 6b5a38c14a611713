----------------------------- MODULE Imageboard -----------------------------
(***************************************************************************)
(* The life of boards, threads and posts on the chain: forum_apply.move,   *)
(* board_apply.move, thread_apply.move and the parts of post_apply.move    *)
(* that moderate a post.                                                   *)
(*                                                                         *)
(* An action is one transaction: an entry function of main.move with every *)
(* nested apply() it makes.  Move transactions are atomic, so an action    *)
(* whose guard fails is the abort that leaves nothing behind.  Objects get *)
(* fresh addresses; here the address of a thread or a post is its index in *)
(* the sequence of all threads or posts ever created.  A post's number is  *)
(* another thing: its place among the posts of its board.                  *)
(*                                                                         *)
(* Text and media are abstracted to whether the post has text and to how   *)
(* many media it has; names, topics, tripcodes, geo and descriptions are   *)
(* left out, nothing here depends on them.  Reactions and votes are module *)
(* PostBallots.                                                            *)
(***************************************************************************)
EXTENDS Integers, Sequences, FiniteSets, Registry

CONSTANTS
  Users,       \* addresses of signers
  Root,        \* forum.admin, the publisher of the package
  Tweaks,      \* second component of a sender
  Slugs,       \* names boards may get
  NoAdmin,     \* option::none, for thread.admin
  Window,      \* time an author may moderate its own post (600000 ms)
  Preview,     \* length of thread.last3 (3)
  \* bounds and inputs of a run
  Tags,        \* the event tags its intents carry
  Appointees,  \* who may be proposed as a moderator or admin
  MediaCounts, BumpLimits, Precisions,
  MaxPosts, MaxTime

ASSUME ImageboardAssumption ==
  /\ Root \in Users
  /\ NoAdmin \notin Users
  /\ Appointees \subseteq Users
  /\ Window \in Nat /\ Preview \in Nat \ {0}
  /\ MediaCounts \subseteq Nat /\ BumpLimits \subseteq Nat /\ Precisions \subseteq Nat
  /\ MaxPosts \in Nat /\ MaxTime \in Nat

VARIABLES
  forum,    \* the forum: its moderators and its timestamp precision
  boards,   \* slug -> board
  threads,  \* address -> thread
  posts,    \* address -> post
  now       \* the chain's clock

vars == <<forum, boards, threads, posts, now>>

Senders == Users \X Tweaks
Addr(s) == s[1]

Forum == [mods : SUBSET Users, precision : Nat]

Board ==
  [closed : BOOLEAN, deleted : BOOLEAN, mods : SUBSET Users,
   maxMedia : Nat, bumpLimit : Nat, pinned : SUBSET Nat,
   posts   : Seq(Nat),            \* number -> address of the post
   threads : SUBSET (Nat \X Nat), \* (number of the first post, address)
   bumps   : Seq(Nat)]            \* feed of addresses of threads

Thread ==
  [board : Slugs, number : Nat, admin : Users \cup {NoAdmin}, mods : SUBSET Users,
   closed : BOOLEAN, deleted : BOOLEAN,
   op : Nat, posts : Seq(Nat), last3 : Seq(Nat), postsDeleted : Nat]

Post ==
  [thread : Nat, number : Nat, sender : Senders, ts : Nat,
   text : BOOLEAN, media : Nat, deleted : BOOLEAN]

ThreadIds == 1 .. Len(threads)
PostIds == 1 .. Len(posts)

-----------------------------------------------------------------------------
\* Who may do what: each rank includes the ranks above it.

ForumStaff(a) == a = Root \/ a \in forum.mods
BoardStaff(b, a) == ForumStaff(a) \/ a \in boards[b].mods
ThreadOwner(t, a) == BoardStaff(threads[t].board, a) \/ threads[t].admin = a
ThreadStaff(t, a) == ThreadOwner(t, a) \/ a \in threads[t].mods

\* The u64 subtraction that computes a post's age aborts when the post is
\* dated in the future; it is evaluated only for the post's own sender.
AgeDefined(s, p) == posts[p].sender = s => posts[p].ts <= now

CanSelfModerate(s, p) == posts[p].sender = s /\ now - posts[p].ts <= Window

Empty(post) == post.media = 0 /\ ~post.text

-----------------------------------------------------------------------------
Init ==
  /\ forum = [mods |-> {}, precision |-> 0]
  /\ boards = NoEntries
  /\ threads = <<>>
  /\ posts = <<>>
  /\ now = 0

Tick ==
  /\ now < MaxTime
  /\ now' = now + 1
  /\ UNCHANGED <<forum, boards, threads, posts>>

-----------------------------------------------------------------------------
\* forum_apply

ForumAddModerator(s, m) ==
  /\ "forum_moderator" \in Tags
  /\ Addr(s) = Root
  /\ m \notin forum.mods
  /\ forum' = [forum EXCEPT !.mods = @ \cup {m}]
  /\ UNCHANGED <<boards, threads, posts, now>>

ForumDelModerator(s, m) ==
  /\ "forum_moderator" \in Tags
  /\ Addr(s) = Root
  /\ m \in forum.mods
  /\ forum' = [forum EXCEPT !.mods = @ \ {m}]
  /\ UNCHANGED <<boards, threads, posts, now>>

SetTimestampPrecision(s, n) ==
  /\ "set_timestamp_precision" \in Tags
  /\ ForumStaff(Addr(s))
  /\ forum' = [forum EXCEPT !.precision = n]
  /\ UNCHANGED <<boards, threads, posts, now>>

NewBoard(s, b, maxMedia, bumpLimit) ==
  /\ ForumStaff(Addr(s))
  /\ b \notin DOMAIN boards
  /\ boards' = Put(boards, b,
       [closed |-> FALSE, deleted |-> FALSE, mods |-> {}, maxMedia |-> maxMedia,
        bumpLimit |-> bumpLimit, pinned |-> {}, posts |-> <<>>, threads |-> {},
        bumps |-> <<>>])
  /\ UNCHANGED <<forum, threads, posts, now>>

-----------------------------------------------------------------------------
\* board_apply: settings

BoardAddModerator(s, b, m) ==
  /\ "board_moderator" \in Tags
  /\ ForumStaff(Addr(s))
  /\ m \notin boards[b].mods
  /\ boards' = [boards EXCEPT ![b].mods = @ \cup {m}]
  /\ UNCHANGED <<forum, threads, posts, now>>

BoardDelModerator(s, b, m) ==
  /\ "board_moderator" \in Tags
  /\ ForumStaff(Addr(s))
  /\ m \in boards[b].mods
  /\ boards' = [boards EXCEPT ![b].mods = @ \ {m}]
  /\ UNCHANGED <<forum, threads, posts, now>>

SetMaxMedia(s, b, n) ==
  /\ "set_max_media" \in Tags
  /\ ForumStaff(Addr(s))
  /\ boards' = [boards EXCEPT ![b].maxMedia = n]
  /\ UNCHANGED <<forum, threads, posts, now>>

SetBumpLimit(s, b, n) ==
  /\ "set_bump_limit" \in Tags
  /\ ForumStaff(Addr(s))
  /\ boards' = [boards EXCEPT ![b].bumpLimit = n]
  /\ UNCHANGED <<forum, threads, posts, now>>

BoardSetClosedMutant(s, b, closed) ==
  /\ "board_set_closed" \in Tags
  /\ ForumStaff(Addr(s))
  /\ boards[b].closed # closed
  /\ boards' = [boards EXCEPT ![b].closed = closed]
  /\ UNCHANGED <<forum, threads, posts, now>>

BoardSetClosed(s, b, closed) ==
  /\ "board_set_closed" \in Tags
  /\ ForumStaff(Addr(s))
  /\ boards[b].closed # closed
  /\ ~boards[b].deleted
  /\ boards' = [boards EXCEPT ![b].closed = closed]
  /\ UNCHANGED <<forum, threads, posts, now>>

BoardSetDeleted(s, b, deleted) ==
  /\ "board_set_closed" \in Tags
  /\ ForumStaff(Addr(s))
  /\ boards[b].deleted # deleted
  /\ boards[b].closed
  /\ boards' = [boards EXCEPT ![b].deleted = deleted]
  /\ UNCHANGED <<forum, threads, posts, now>>

SetPinned(s, b, pinned) ==
  /\ "set_pinned" \in Tags
  /\ BoardStaff(b, Addr(s))
  /\ boards' = [boards EXCEPT ![b].pinned = pinned]
  /\ UNCHANGED <<forum, threads, posts, now>>

-----------------------------------------------------------------------------
\* thread_apply: settings

ThreadAddModerator(s, t, m) ==
  /\ "thread_moderator" \in Tags
  /\ ThreadOwner(t, Addr(s))
  /\ m \notin threads[t].mods
  /\ threads' = [threads EXCEPT ![t].mods = @ \cup {m}]
  /\ UNCHANGED <<forum, boards, posts, now>>

ThreadDelModeratorMutant(s, t, m) ==
  /\ "thread_moderator" \in Tags
  /\ ThreadStaff(t, Addr(s))
  /\ m \in threads[t].mods
  /\ threads' = [threads EXCEPT ![t].mods = @ \ {m}]
  /\ UNCHANGED <<forum, boards, posts, now>>

ThreadDelModerator(s, t, m) ==
  /\ "thread_moderator" \in Tags
  /\ ThreadOwner(t, Addr(s))
  /\ m \in threads[t].mods
  /\ threads' = [threads EXCEPT ![t].mods = @ \ {m}]
  /\ UNCHANGED <<forum, boards, posts, now>>

SetAdmin(s, t, admin) ==
  /\ "set_admin" \in Tags
  /\ ThreadOwner(t, Addr(s))
  /\ threads' = [threads EXCEPT ![t].admin = admin]
  /\ UNCHANGED <<forum, boards, posts, now>>

ThreadSetClosed(s, t, closed) ==
  /\ "thread_set_closed" \in Tags
  /\ ThreadStaff(t, Addr(s))
  /\ threads[t].closed # closed
  /\ ~threads[t].deleted
  /\ threads' = [threads EXCEPT ![t].closed = closed]
  /\ UNCHANGED <<forum, boards, posts, now>>

ThreadSetDeletedMutant(s, t, deleted) ==
  /\ "thread_set_closed" \in Tags
  /\ ThreadStaff(t, Addr(s))
  /\ threads[t].deleted # deleted
  /\ threads' = [threads EXCEPT ![t].deleted = deleted]
  /\ UNCHANGED <<forum, boards, posts, now>>

ThreadSetDeleted(s, t, deleted) ==
  /\ "thread_set_closed" \in Tags
  /\ ThreadStaff(t, Addr(s))
  /\ threads[t].deleted # deleted
  /\ threads[t].closed
  /\ threads' = [threads EXCEPT ![t].deleted = deleted]
  /\ UNCHANGED <<forum, boards, posts, now>>

-----------------------------------------------------------------------------
\* Posting: board_apply new_post_v2 and new_thread_v3 with the thread's own
\* new_post inside them, and their _migrate_ forms, which take the timestamp
\* from the signer instead of the clock.

Stamp == IF forum.precision > 0 THEN now - (now % forum.precision) ELSE now

\* A thread's own moderators are not among those who may post when it is closed.
Accepts(s, b, thread, text, media) ==
  /\ media <= boards[b].maxMedia
  /\ media > 0 \/ text
  /\ boards[b].closed => BoardStaff(b, Addr(s))
  /\ thread.closed => BoardStaff(b, Addr(s)) \/ thread.admin = Addr(s)

NewestMutant(last, p) ==
  LET longer == Append(last, p)
  IN  IF Len(longer) > Preview THEN SubSeq(longer, 1, Preview) ELSE longer

Newest(last, p) ==
  LET longer == Append(last, p)
  IN  IF Len(longer) > Preview THEN Tail(longer) ELSE longer

\* The thread once post p is in it; the first post is the opening one.
WithPost(thread, p) ==
  IF thread.posts = <<>>
  THEN [thread EXCEPT !.posts = <<p>>, !.op = p]
  ELSE [thread EXCEPT !.posts = Append(@, p), !.last3 = Newest(@, p)]

\* posts_live counts the post being added: the feed's next() is one ahead.
PostsLiveMutant(thread) == Len(thread.posts) - thread.postsDeleted

PostsLive(thread) == Len(thread.posts) + 1 - thread.postsDeleted

\* The board once post p is in its thread t, which was as given before.
Listed(board, thread, t, p) ==
  [board EXCEPT
     !.posts = Append(@, p),
     !.bumps = IF PostsLive(thread) <= board.bumpLimit /\ t \notin board.pinned
               THEN Append(@, t) ELSE @]

FreshPost(s, b, t, ts, text, media) ==
  [thread |-> t, number |-> Len(boards[b].posts) + 1, sender |-> s, ts |-> ts,
   text |-> text, media |-> media, deleted |-> FALSE]

FreshThread(b, admin) ==
  [board |-> b, number |-> Len(boards[b].posts) + 1, admin |-> admin, mods |-> {},
   closed |-> FALSE, deleted |-> FALSE,
   op |-> 0, posts |-> <<>>, last3 |-> <<>>, postsDeleted |-> 0]

WithThread(board, number, t) == [board EXCEPT !.threads = @ \cup {<<number, t>>}]

PostTo(s, t, ts, text, media) ==
  LET b == threads[t].board
      p == Len(posts) + 1
  IN  /\ Len(posts) < MaxPosts
      /\ Accepts(s, b, threads[t], text, media)
      /\ posts' = Append(posts, FreshPost(s, b, t, ts, text, media))
      /\ threads' = [threads EXCEPT ![t] = WithPost(@, p)]
      /\ boards' = [boards EXCEPT ![b] = Listed(@, threads[t], t, p)]
      /\ UNCHANGED <<forum, now>>

OpenThread(s, b, admin, ts, text, media) ==
  LET t == Len(threads) + 1
      p == Len(posts) + 1
      thread == FreshThread(b, admin)
  IN  /\ Len(posts) < MaxPosts
      /\ boards[b].maxMedia = 0 \/ media > 0
      /\ Accepts(s, b, thread, text, media)
      /\ posts' = Append(posts, FreshPost(s, b, t, ts, text, media))
      /\ threads' = Append(threads, WithPost(thread, p))
      /\ boards' = [boards EXCEPT ![b] =
           Listed(WithThread(@, thread.number, t), thread, t, p)]
      /\ UNCHANGED <<forum, now>>

NewPost(s, t, text, media) == PostTo(s, t, Stamp, text, media)

MigratePost(s, t, ts, text, media) ==
  /\ "migrate" \in Tags
  /\ PostTo(s, t, ts, text, media)

NewThread(s, b, selfAdmin, text, media) ==
  OpenThread(s, b, IF selfAdmin THEN Addr(s) ELSE NoAdmin, Stamp, text, media)

MigrateThread(s, b, ts, text, media) ==
  /\ "migrate" \in Tags
  /\ OpenThread(s, b, NoAdmin, ts, text, media)

-----------------------------------------------------------------------------
\* thread_apply::apply_post with the post_apply it calls: the thread counts
\* its deleted posts, so a post's deletion always passes through its thread.

\* Adds one or takes one away.
CountedOnceMutant(thread, deleted) ==
  [thread EXCEPT !.postsDeleted = IF deleted THEN @ + 1 ELSE @]

CountedSwappedMutant(thread, deleted) ==
  [thread EXCEPT !.postsDeleted = IF deleted THEN @ - 1 ELSE @ + 1]

Counted(thread, deleted) ==
  [thread EXCEPT !.postsDeleted = IF deleted THEN @ + 1 ELSE @ - 1]

PostSetDeleted(s, p, deleted) ==
  LET t == posts[p].thread
  IN  /\ "moderate" \in Tags
      /\ AgeDefined(s, p)
      /\ posts[p].deleted # deleted
      /\ \/ ThreadStaff(t, Addr(s))
         \/ CanSelfModerate(s, p)
         \/ deleted /\ Empty(posts[p])
      /\ deleted \/ threads[t].postsDeleted > 0
      /\ posts' = [posts EXCEPT ![p].deleted = deleted]
      /\ threads' = [threads EXCEPT ![t] = Counted(@, deleted)]
      /\ UNCHANGED <<forum, boards, now>>

\* A post left with neither text nor media is deleted in the same transaction.
EmptiedMutant(post, text) == Empty(post) /\ ~post.deleted

Emptied(post, text) == Empty([post EXCEPT !.text = text]) /\ ~post.deleted

PostSetText(s, p, text) ==
  LET t == posts[p].thread
      emptied == Emptied(posts[p], text)
  IN  /\ "moderate" \in Tags
      /\ AgeDefined(s, p)
      /\ ThreadStaff(t, Addr(s)) \/ CanSelfModerate(s, p)
      /\ posts' = [posts EXCEPT ![p].text = text, ![p].deleted = @ \/ emptied]
      /\ threads' = IF emptied THEN [threads EXCEPT ![t] = Counted(@, TRUE)] ELSE threads
      /\ UNCHANGED <<forum, boards, now>>

-----------------------------------------------------------------------------
ForumSetting(s) ==
  \/ \E m \in Appointees : ForumAddModerator(s, m) \/ ForumDelModerator(s, m)
  \/ \E n \in Precisions : SetTimestampPrecision(s, n)
  \/ \E b \in Slugs, n \in MediaCounts, k \in BumpLimits : NewBoard(s, b, n, k)

BoardSetting(s, b) ==
  \/ \E m \in Appointees : BoardAddModerator(s, b, m) \/ BoardDelModerator(s, b, m)
  \/ \E n \in MediaCounts : SetMaxMedia(s, b, n)
  \/ \E k \in BumpLimits : SetBumpLimit(s, b, k)
  \/ \E c \in BOOLEAN : BoardSetClosed(s, b, c) \/ BoardSetDeleted(s, b, c)
  \/ \E pinned \in SUBSET ThreadIds : SetPinned(s, b, pinned)

ThreadSetting(s, t) ==
  \/ \E m \in Appointees : ThreadAddModerator(s, t, m) \/ ThreadDelModerator(s, t, m)
  \/ \E admin \in Appointees \cup {NoAdmin} : SetAdmin(s, t, admin)
  \/ \E c \in BOOLEAN : ThreadSetClosed(s, t, c) \/ ThreadSetDeleted(s, t, c)

Posting(s, text, media) ==
  \/ \E b \in DOMAIN boards :
        \/ \E own \in BOOLEAN : NewThread(s, b, own, text, media)
        \/ \E ts \in 0 .. MaxTime : MigrateThread(s, b, ts, text, media)
  \/ \E t \in ThreadIds :
        \/ NewPost(s, t, text, media)
        \/ \E ts \in 0 .. MaxTime : MigratePost(s, t, ts, text, media)

\* Any transaction signed by s.
Step(s) ==
  \/ ForumSetting(s)
  \/ \E b \in DOMAIN boards : BoardSetting(s, b)
  \/ \E t \in ThreadIds : ThreadSetting(s, t)
  \/ \E text \in BOOLEAN, media \in MediaCounts : Posting(s, text, media)
  \/ \E p \in PostIds, x \in BOOLEAN : PostSetDeleted(s, p, x) \/ PostSetText(s, p, x)

Next == Tick \/ \E s \in Senders : Step(s)

Spec == Init /\ [][Next]_vars

-----------------------------------------------------------------------------
\* Well-typed states.
TypeOK ==
  /\ forum \in Forum
  /\ DOMAIN boards \subseteq Slugs
  /\ boards \in [DOMAIN boards -> Board]
  /\ threads \in Seq(Thread)
  /\ posts \in Seq(Post)
  /\ now \in Nat

\* A deleted board or thread is closed.  Deletion is never looked at when
\* somebody posts (board_apply.move:279, thread_apply.move:118), so this is
\* what keeps new posts out of deleted boards and threads; set_closed and
\* set_deleted keep it together.
DeletedIsClosed ==
  /\ \A b \in DOMAIN boards : boards[b].deleted => boards[b].closed
  /\ \A t \in ThreadIds : threads[t].deleted => threads[t].closed

DeletedPosts(t) == {p \in PostIds : posts[p].thread = t /\ posts[p].deleted}

\* posts_deleted of a thread is the number of its posts marked deleted, through
\* moderation, self-moderation and posts that lose their text.  The bump limit
\* is computed from it, and undoing a deletion would abort if it lagged behind.
DeletedCountExact ==
  \A t \in ThreadIds : threads[t].postsDeleted = Cardinality(DeletedPosts(t))

\* What a board page shows of a thread: its opening post is the first one in
\* its feed, and last3 holds its newest posts other than the opening one, in
\* order (thread_apply.move:125-134).
ThreadShape ==
  \A t \in ThreadIds :
    LET feed == threads[t].posts
        rest == Len(feed) - 1
        size == IF rest < Preview THEN rest ELSE Preview
    IN  /\ rest >= 0
        /\ threads[t].op = feed[1]
        /\ threads[t].last3 = SubSeq(feed, Len(feed) - size + 1, Len(feed))

\* Every post is where its number says, on its board, and in exactly one
\* thread, the one it names; the posts of a thread are in the order of their
\* numbers; a thread's number, which is its key in the board's table, is that
\* of its opening post.
NumbersExact ==
  /\ \A p \in PostIds :
       /\ boards[threads[posts[p].thread].board].posts[posts[p].number] = p
       /\ \A t \in ThreadIds :
            Cardinality({i \in DOMAIN threads[t].posts : threads[t].posts[i] = p})
              = IF posts[p].thread = t THEN 1 ELSE 0
  /\ \A t \in ThreadIds :
       /\ <<posts[threads[t].op].number, t>> \in boards[threads[t].board].threads
       /\ threads[t].number = posts[threads[t].op].number
       /\ \A i, j \in DOMAIN threads[t].posts :
            i < j => posts[threads[t].posts[i]].number < posts[threads[t].posts[j]].number

\* Every post is in its place: on its board, in its thread, in the preview.
PostsInPlace == ThreadShape /\ NumbersExact

\* The steps that the action properties allow.

NewPostsBump ==
  \A b \in DOMAIN boards :
    \A p \in PostIds' \ PostIds :
      LET t == posts'[p].thread
          live == {q \in PostIds' : posts'[q].thread = t /\ ~posts'[q].deleted}
      IN  threads'[t].board = b =>
            boards'[b].bumps =
              IF Cardinality(live) <= boards[b].bumpLimit /\ t \notin boards[b].pinned
              THEN Append(boards[b].bumps, t) ELSE boards[b].bumps

EmptiedAreDeleted ==
  \A p \in PostIds : ~Empty(posts[p]) /\ Empty(posts'[p]) => posts'[p].deleted

DeletedGetNoPosts ==
  \A p \in PostIds' \ PostIds :
    LET t == posts'[p].thread
        a == Addr(posts'[p].sender)
        b == threads'[t].board
    IN  /\ boards[b].deleted => BoardStaff(b, a)
        /\ t \in ThreadIds /\ threads[t].deleted => ThreadOwner(t, a)

\* A thread is bumped exactly by a post that leaves it with no more live posts
\* than the board's bump limit, the new one included, and only when it is not
\* pinned: deleting posts lets a thread be bumped again.
BumpsWithinLimit == [][NewPostsBump]_vars

\* A post that loses the last of its content is deleted in the same step.
EmptiedIsDeleted == [][EmptiedAreDeleted]_vars

\* A thread that is deleted, or whose board is, gets no post from an ordinary
\* user, and neither does it through the thread's own moderators.
DeletedTakesNoPosts == [][DeletedGetNoPosts]_vars

\* What a transaction signed by s may at most have changed.  Outside the threads
\* s is staff of, a post changes only if it is s's own and recent, or if it has
\* no content and is deleted.
PostsWithin(s) ==
  \A p \in PostIds :
    \/ posts'[p] = posts[p]
    \/ ThreadStaff(posts[p].thread, Addr(s))
    \/ posts[p].sender = s /\ posts[p].ts <= now /\ now <= posts[p].ts + Window
    \/ Empty(posts[p]) /\ posts'[p] = [posts[p] EXCEPT !.deleted = TRUE]

\* There, a thread changes only by a new post and by the deletion of posts; its
\* roles are its owner's to give.
ApartFromPosts(thread) == [thread EXCEPT !.posts = <<>>, !.last3 = <<>>, !.postsDeleted = 0]

ThreadsWithin(a) ==
  \A t \in ThreadIds :
    /\ \/ ThreadOwner(t, a)
       \/ threads'[t].mods = threads[t].mods /\ threads'[t].admin = threads[t].admin
    /\ ThreadStaff(t, a) \/ ApartFromPosts(threads'[t]) = ApartFromPosts(threads[t])

\* Outside the boards s is staff of, a board changes only by new posts; what it is
\* to its staff is what is pinned.
ApartFromPins(board) ==
  [board EXCEPT !.posts = <<>>, !.threads = {}, !.bumps = <<>>, !.pinned = {}]

BoardsWithin(a) ==
  \A b \in DOMAIN boards :
    /\ ForumStaff(a) \/ ApartFromPins(boards'[b]) = ApartFromPins(boards[b])
    /\ BoardStaff(b, a) \/ boards'[b].pinned = boards[b].pinned

\* The moderators of the forum are the publisher's to name.
ForumWithin(a) ==
  /\ a = Root \/ forum'.mods = forum.mods
  /\ ForumStaff(a) \/ forum'.precision = forum.precision

WithinAuthority(s) ==
  PostsWithin(s) /\ ThreadsWithin(Addr(s)) /\ BoardsWithin(Addr(s)) /\ ForumWithin(Addr(s))

NobodyExceeds == \A s \in Senders : WithinAuthority(s) \/ ~Step(s)

\* Authority is local: no transaction exceeds the authority of its signer,
\* whatever roles were given and taken back before (the checks spread over
\* forum_apply, board_apply, thread_apply and post_apply).  The disjunction is
\* Step(s) => WithinAuthority(s), in the order that is cheap to evaluate.
AuthorityIsLocal == [][NobodyExceeds]_vars
=============================================================================
