-------------------------- MODULE ImageboardProofs --------------------------
(***************************************************************************)
(* Invariants of Imageboard, for any users, boards, bounds and settings.   *)
(*                                                                         *)
(* The proofs first reduce every transaction to its effect (a board        *)
(* setting replaces one board, a post is appended, ...) and then prove the *)
(* invariants of the effects, of which there are far fewer.  The action    *)
(* properties follow at the end, from the same invariants.                 *)
(***************************************************************************)
EXTENDS Imageboard, FiniteSetTheorems, SequenceTheorems, TLAPS

-----------------------------------------------------------------------------
\* Sequences

LEMMA SeqExcept ==
  ASSUME NEW S, NEW seq \in Seq(S), NEW i \in 1 .. Len(seq), NEW e \in S
  PROVE  /\ [seq EXCEPT ![i] = e] \in Seq(S)
         /\ Len([seq EXCEPT ![i] = e]) = Len(seq)
         /\ \A j \in 1 .. Len(seq) : [seq EXCEPT ![i] = e][j] = IF j = i THEN e ELSE seq[j]
OBVIOUS

LEMMA SeqAppend ==
  ASSUME NEW S, NEW seq \in Seq(S), NEW e \in S
  PROVE  /\ Append(seq, e) \in Seq(S)
         /\ Len(Append(seq, e)) = Len(seq) + 1
         /\ \A j \in 1 .. Len(seq) + 1 :
              Append(seq, e)[j] = IF j = Len(seq) + 1 THEN e ELSE seq[j]
OBVIOUS

-----------------------------------------------------------------------------
\* The inductive invariant.  A thread is on a board that exists and a post in
\* a thread that exists: without it nothing would be known of the board a post
\* is added to, or of the thread whose counter a deletion changes.

References ==
  /\ \A t \in ThreadIds : threads[t].board \in DOMAIN boards
  /\ \A p \in PostIds : posts[p].thread \in ThreadIds

Inv == TypeOK /\ References /\ DeletedIsClosed /\ DeletedCountExact

LEMMA InitInv == Init => Inv
<1> SUFFICES ASSUME Init PROVE Inv
  OBVIOUS
<1>1. TypeOK
  BY DEF Init, TypeOK, Forum, NoEntries
<1>2. ThreadIds = {} /\ PostIds = {} /\ DOMAIN boards = {}
  BY DEF Init, ThreadIds, PostIds, NoEntries
<1> QED
  BY <1>1, <1>2 DEF Inv, References, DeletedIsClosed, DeletedCountExact

-----------------------------------------------------------------------------
\* What a setting of a board does: it replaces the board by one of the right
\* type that is not deleted unless closed.

LEMMA BoardWith ==
  ASSUME NEW board \in Board
  PROVE  /\ \A x \in SUBSET Users : [board EXCEPT !.mods = x] \in Board
         /\ \A x \in Nat : [board EXCEPT !.maxMedia = x] \in Board
         /\ \A x \in Nat : [board EXCEPT !.bumpLimit = x] \in Board
         /\ \A x \in BOOLEAN : [board EXCEPT !.closed = x] \in Board
         /\ \A x \in BOOLEAN : [board EXCEPT !.deleted = x] \in Board
         /\ \A x \in SUBSET Nat : [board EXCEPT !.pinned = x] \in Board
         /\ board.mods \subseteq Users
BY DEF Board

ReplacesBoard(b, r) ==
  /\ boards' = [boards EXCEPT ![b] = r]
  /\ UNCHANGED <<forum, threads, posts, now>>

LEMMA BoardSettingEffect ==
  ASSUME ImageboardAssumption, TypeOK, DeletedIsClosed,
         NEW s \in Senders, NEW b \in DOMAIN boards, BoardSetting(s, b)
  PROVE  \E r \in Board : ReplacesBoard(b, r) /\ (r.deleted => r.closed)
<1> DEFINE old == boards[b]
<1>1. old \in Board /\ (old.deleted => old.closed)
  BY DEF TypeOK, DeletedIsClosed
<1>2. DOMAIN old = {"closed", "deleted", "mods", "maxMedia", "bumpLimit", "pinned", "posts",
                    "threads", "bumps"}
  BY <1>1 DEF Board
<1>3. ASSUME NEW m \in Appointees, BoardAddModerator(s, b, m)
      PROVE  \E r \in Board : ReplacesBoard(b, r) /\ (r.deleted => r.closed)
  <2> DEFINE r == [old EXCEPT !.mods = old.mods \cup {m}]
  <2>1. old.mods \cup {m} \in SUBSET Users  BY <1>1, BoardWith DEF ImageboardAssumption
  <2>2. r \in Board                         BY <1>1, <2>1, BoardWith
  <2> QED BY <1>1, <1>2, <1>3, <2>2 DEF BoardAddModerator, ReplacesBoard
<1>4. ASSUME NEW m \in Appointees, BoardDelModerator(s, b, m)
      PROVE  \E r \in Board : ReplacesBoard(b, r) /\ (r.deleted => r.closed)
  <2> DEFINE r == [old EXCEPT !.mods = old.mods \ {m}]
  <2>1. old.mods \ {m} \in SUBSET Users     BY <1>1, BoardWith
  <2>2. r \in Board                         BY <1>1, <2>1, BoardWith
  <2> QED BY <1>1, <1>2, <1>4, <2>2 DEF BoardDelModerator, ReplacesBoard
<1>5. ASSUME NEW n \in MediaCounts, SetMaxMedia(s, b, n)
      PROVE  \E r \in Board : ReplacesBoard(b, r) /\ (r.deleted => r.closed)
  <2> DEFINE r == [old EXCEPT !.maxMedia = n]
  <2>1. r \in Board                         BY <1>1, BoardWith DEF ImageboardAssumption
  <2> QED BY <1>1, <1>2, <1>5, <2>1 DEF SetMaxMedia, ReplacesBoard
<1>6. ASSUME NEW n \in BumpLimits, SetBumpLimit(s, b, n)
      PROVE  \E r \in Board : ReplacesBoard(b, r) /\ (r.deleted => r.closed)
  <2> DEFINE r == [old EXCEPT !.bumpLimit = n]
  <2>1. r \in Board                         BY <1>1, BoardWith DEF ImageboardAssumption
  <2> QED BY <1>1, <1>2, <1>6, <2>1 DEF SetBumpLimit, ReplacesBoard
<1>7. ASSUME NEW c \in BOOLEAN, BoardSetClosed(s, b, c)
      PROVE  \E r \in Board : ReplacesBoard(b, r) /\ (r.deleted => r.closed)
  <2> DEFINE r == [old EXCEPT !.closed = c]
  <2>1. r \in Board /\ ~r.deleted           BY <1>1, <1>2, <1>7, BoardWith DEF BoardSetClosed
  <2> QED BY <1>7, <2>1 DEF BoardSetClosed, ReplacesBoard
<1>8. ASSUME NEW c \in BOOLEAN, BoardSetDeleted(s, b, c)
      PROVE  \E r \in Board : ReplacesBoard(b, r) /\ (r.deleted => r.closed)
  <2> DEFINE r == [old EXCEPT !.deleted = c]
  <2>1. r \in Board /\ r.closed             BY <1>1, <1>2, <1>8, BoardWith DEF BoardSetDeleted
  <2> QED BY <1>8, <2>1 DEF BoardSetDeleted, ReplacesBoard
<1>9. ASSUME NEW pinned \in SUBSET ThreadIds, SetPinned(s, b, pinned)
      PROVE  \E r \in Board : ReplacesBoard(b, r) /\ (r.deleted => r.closed)
  <2> DEFINE r == [old EXCEPT !.pinned = pinned]
  <2>1. pinned \in SUBSET Nat               BY DEF ThreadIds
  <2>2. r \in Board                         BY <1>1, <2>1, BoardWith
  <2> QED BY <1>1, <1>2, <1>9, <2>2 DEF SetPinned, ReplacesBoard
<1> QED
  BY <1>3, <1>4, <1>5, <1>6, <1>7, <1>8, <1>9 DEF BoardSetting

\* A new board, or a setting of the forum: threads and posts stay as they are.
LEMMA ForumSettingEffect ==
  ASSUME ImageboardAssumption, TypeOK, DeletedIsClosed, NEW s \in Senders, ForumSetting(s)
  PROVE  /\ forum' \in Forum
         /\ DOMAIN boards \subseteq DOMAIN boards' /\ DOMAIN boards' \subseteq Slugs
         /\ boards' \in [DOMAIN boards' -> Board]
         /\ \A b \in DOMAIN boards' : boards'[b].deleted => boards'[b].closed
         /\ UNCHANGED <<threads, posts, now>>
<1> DEFINE Goal == /\ forum' \in Forum
                   /\ DOMAIN boards \subseteq DOMAIN boards' /\ DOMAIN boards' \subseteq Slugs
                   /\ boards' \in [DOMAIN boards' -> Board]
                   /\ \A b \in DOMAIN boards' : boards'[b].deleted => boards'[b].closed
                   /\ UNCHANGED <<threads, posts, now>>
<1>1. ASSUME NEW m \in Appointees, ForumAddModerator(s, m) \/ ForumDelModerator(s, m)
      PROVE  Goal
  BY <1>1 DEF ImageboardAssumption, TypeOK, DeletedIsClosed, ForumAddModerator,
              ForumDelModerator, Forum
<1>2. ASSUME NEW n \in Precisions, SetTimestampPrecision(s, n)
      PROVE  Goal
  BY <1>2 DEF ImageboardAssumption, TypeOK, DeletedIsClosed, SetTimestampPrecision, Forum
<1>3. ASSUME NEW b \in Slugs, NEW n \in MediaCounts, NEW k \in BumpLimits, NewBoard(s, b, n, k)
      PROVE  Goal
  <2> DEFINE r == [closed |-> FALSE, deleted |-> FALSE, mods |-> {}, maxMedia |-> n,
                   bumpLimit |-> k, pinned |-> {}, posts |-> <<>>, threads |-> {},
                   bumps |-> <<>>]
  <2>1. r \in Board /\ ~r.deleted
    BY DEF ImageboardAssumption, Board
  <2>2. boards' = Put(boards, b, r) /\ UNCHANGED <<forum, threads, posts, now>>
    BY <1>3 DEF NewBoard
  <2> HIDE DEF r
  <2> QED BY <2>1, <2>2 DEF TypeOK, DeletedIsClosed, Put
<1> QED
  BY <1>1, <1>2, <1>3 DEF ForumSetting

-----------------------------------------------------------------------------
\* What a setting of a thread does: it replaces the thread by one that has the
\* same posts and is not deleted unless closed.

LEMMA ThreadWith ==
  ASSUME NEW thread \in Thread
  PROVE  /\ \A x \in SUBSET Users : [thread EXCEPT !.mods = x] \in Thread
         /\ \A x \in Users \cup {NoAdmin} : [thread EXCEPT !.admin = x] \in Thread
         /\ \A x \in BOOLEAN : [thread EXCEPT !.closed = x] \in Thread
         /\ \A x \in BOOLEAN : [thread EXCEPT !.deleted = x] \in Thread
         /\ \A x \in Nat : [thread EXCEPT !.postsDeleted = x] \in Thread
         /\ thread.mods \subseteq Users
BY DEF Thread

SamePosts(r, thread) ==
  /\ r.board = thread.board /\ r.number = thread.number
  /\ r.op = thread.op /\ r.posts = thread.posts /\ r.last3 = thread.last3
  /\ r.postsDeleted = thread.postsDeleted

ReplacesThread(t, r) ==
  /\ threads' = [threads EXCEPT ![t] = r]
  /\ SamePosts(r, threads[t])
  /\ r.deleted => r.closed
  /\ UNCHANGED <<forum, boards, posts, now>>

LEMMA ThreadSettingEffect ==
  ASSUME ImageboardAssumption, TypeOK, DeletedIsClosed,
         NEW s \in Senders, NEW t \in ThreadIds, ThreadSetting(s, t)
  PROVE  \E r \in Thread : ReplacesThread(t, r)
<1> DEFINE old == threads[t]
<1>1. old \in Thread /\ (old.deleted => old.closed)
  BY DEF TypeOK, DeletedIsClosed, ThreadIds
<1>2. DOMAIN old = {"board", "number", "admin", "mods", "closed", "deleted", "op", "posts",
                    "last3", "postsDeleted"}
  BY <1>1 DEF Thread
<1>3. ASSUME NEW m \in Appointees, ThreadAddModerator(s, t, m)
      PROVE  \E r \in Thread : ReplacesThread(t, r)
  <2> DEFINE r == [old EXCEPT !.mods = old.mods \cup {m}]
  <2>1. old.mods \cup {m} \in SUBSET Users  BY <1>1, ThreadWith DEF ImageboardAssumption
  <2>2. r \in Thread                        BY <1>1, <2>1, ThreadWith
  <2> QED BY <1>1, <1>2, <1>3, <2>2 DEF ThreadAddModerator, ReplacesThread, SamePosts
<1>4. ASSUME NEW m \in Appointees, ThreadDelModerator(s, t, m)
      PROVE  \E r \in Thread : ReplacesThread(t, r)
  <2> DEFINE r == [old EXCEPT !.mods = old.mods \ {m}]
  <2>1. old.mods \ {m} \in SUBSET Users     BY <1>1, ThreadWith
  <2>2. r \in Thread                        BY <1>1, <2>1, ThreadWith
  <2> QED BY <1>1, <1>2, <1>4, <2>2 DEF ThreadDelModerator, ReplacesThread, SamePosts
<1>5. ASSUME NEW admin \in Appointees \cup {NoAdmin}, SetAdmin(s, t, admin)
      PROVE  \E r \in Thread : ReplacesThread(t, r)
  <2> DEFINE r == [old EXCEPT !.admin = admin]
  <2>1. r \in Thread                        BY <1>1, ThreadWith DEF ImageboardAssumption
  <2> QED BY <1>1, <1>2, <1>5, <2>1 DEF SetAdmin, ReplacesThread, SamePosts
<1>6. ASSUME NEW c \in BOOLEAN, ThreadSetClosed(s, t, c)
      PROVE  \E r \in Thread : ReplacesThread(t, r)
  <2> DEFINE r == [old EXCEPT !.closed = c]
  <2>1. r \in Thread /\ ~r.deleted          BY <1>1, <1>2, <1>6, ThreadWith DEF ThreadSetClosed
  <2> QED BY <1>2, <1>6, <2>1 DEF ThreadSetClosed, ReplacesThread, SamePosts
<1>7. ASSUME NEW c \in BOOLEAN, ThreadSetDeleted(s, t, c)
      PROVE  \E r \in Thread : ReplacesThread(t, r)
  <2> DEFINE r == [old EXCEPT !.deleted = c]
  <2>1. r \in Thread /\ r.closed            BY <1>1, <1>2, <1>7, ThreadWith DEF ThreadSetDeleted
  <2> QED BY <1>2, <1>7, <2>1 DEF ThreadSetDeleted, ReplacesThread, SamePosts
<1> QED
  BY <1>3, <1>4, <1>5, <1>6, <1>7 DEF ThreadSetting

-----------------------------------------------------------------------------
\* What posting does: a post that is not deleted is appended, to a thread that
\* was there or to a new one.

LEMMA StampIsNat ==
  ASSUME TypeOK
  PROVE  Stamp \in Nat
<1>1. now \in Nat /\ forum.precision \in Nat
  BY DEF TypeOK, Forum
<1>2. ASSUME forum.precision > 0
      PROVE  now - (now % forum.precision) \in Nat
  <2>1. now % forum.precision \in 0 .. now
    BY <1>1, <1>2
  <2> QED BY <1>1, <2>1
<1> QED
  BY <1>1, <1>2 DEF Stamp

\* The post, its place in the thread and the bump of the thread are of the
\* right types.
LEMMA PostingTypes ==
  ASSUME ImageboardAssumption, NEW s \in Senders, NEW ts \in Nat, NEW text \in BOOLEAN,
         NEW media \in MediaCounts, NEW t \in Nat, NEW p \in Nat,
         NEW board \in Board, NEW thread \in Thread
  PROVE  /\ Listed(board, thread, t, p) \in Board
         /\ Listed(board, thread, t, p).deleted = board.deleted
         /\ Listed(board, thread, t, p).closed = board.closed
         /\ WithPost(thread, p) \in Thread
         /\ WithPost(thread, p).board = thread.board
         /\ WithPost(thread, p).postsDeleted = thread.postsDeleted
         /\ WithPost(thread, p).deleted = thread.deleted
         /\ WithPost(thread, p).closed = thread.closed
<1>1. Append(board.posts, p) \in Seq(Nat) /\ Append(board.bumps, t) \in Seq(Nat)
      /\ board.bumps \in Seq(Nat)
  BY DEF Board
<1>2. Listed(board, thread, t, p) \in Board
  <2> DEFINE bumps == IF PostsLive(thread) <= board.bumpLimit /\ t \notin board.pinned
                      THEN Append(board.bumps, t) ELSE board.bumps
  <2>1. bumps \in Seq(Nat) BY <1>1
  <2> HIDE DEF bumps
  <2>2. [board EXCEPT !.posts = Append(@, p), !.bumps = bumps] \in Board
    BY <1>1, <2>1 DEF Board
  <2> QED BY <2>2 DEF bumps, Listed
<1>3. Newest(thread.last3, p) \in Seq(Nat)
  <2>1. thread.last3 \in Seq(Nat) BY DEF Thread
  <2>2. Append(thread.last3, p) \in Seq(Nat) /\ Append(thread.last3, p) # <<>>
    BY <2>1
  <2>3. Tail(Append(thread.last3, p)) \in Seq(Nat) BY <2>2
  <2> QED BY <2>2, <2>3 DEF Newest
<1>4. Append(thread.posts, p) \in Seq(Nat) /\ <<p>> \in Seq(Nat)
  BY DEF Thread
<1>5. WithPost(thread, p) \in Thread
  BY <1>3, <1>4 DEF WithPost, Thread
<1> QED
  BY <1>2, <1>5 DEF Listed, WithPost, Board, Thread

\* A deletion counted by the thread leaves the rest of the thread alone.
LEMMA CountedType ==
  ASSUME NEW thread \in Thread, NEW deleted \in BOOLEAN, deleted \/ thread.postsDeleted > 0
  PROVE  /\ Counted(thread, deleted) \in Thread
         /\ Counted(thread, deleted).board = thread.board
         /\ Counted(thread, deleted).deleted = thread.deleted
         /\ Counted(thread, deleted).closed = thread.closed
         /\ Counted(thread, deleted).postsDeleted =
              IF deleted THEN thread.postsDeleted + 1 ELSE thread.postsDeleted - 1
<1> DEFINE n == IF deleted THEN thread.postsDeleted + 1 ELSE thread.postsDeleted - 1
<1>1. n \in Nat
  BY DEF Thread
<1>2. Counted(thread, deleted) = [thread EXCEPT !.postsDeleted = n]
  BY DEF Counted
<1> HIDE DEF n
<1>3. Counted(thread, deleted) \in Thread
  BY <1>1, <1>2, ThreadWith
<1>4. /\ Counted(thread, deleted).board = thread.board
      /\ Counted(thread, deleted).deleted = thread.deleted
      /\ Counted(thread, deleted).closed = thread.closed
      /\ Counted(thread, deleted).postsDeleted = n
  BY <1>2 DEF Thread
<1> QED
  BY <1>3, <1>4 DEF n

-----------------------------------------------------------------------------
\* Each effect preserves the invariant.

\* The deleted posts of a thread are the same after a post is appended.
LEMMA AppendKeepsDeletedPosts ==
  ASSUME TypeOK, NEW q \in Post, posts' = Append(posts, q), ~q.deleted
  PROVE  /\ PostIds' = PostIds \cup {Len(posts) + 1}
         /\ posts' \in Seq(Post)
         /\ \A p \in PostIds : posts'[p] = posts[p]
         /\ posts'[Len(posts) + 1] = q
         /\ \A t : DeletedPosts(t)' = DeletedPosts(t)
<1>1. posts \in Seq(Post) /\ Len(posts) \in Nat
  BY DEF TypeOK
<1>2. /\ posts' \in Seq(Post) /\ Len(posts') = Len(posts) + 1
      /\ \A j \in 1 .. Len(posts) + 1 : posts'[j] = IF j = Len(posts) + 1 THEN q ELSE posts[j]
  BY <1>1, SeqAppend
<1>3. PostIds' = PostIds \cup {Len(posts) + 1} /\ Len(posts) + 1 \notin PostIds
  BY <1>1, <1>2 DEF PostIds
<1>4. \A p \in PostIds : posts'[p] = posts[p]
  BY <1>1, <1>2 DEF PostIds
<1>5. posts'[Len(posts) + 1] = q
  BY <1>1, <1>2
<1>6. ASSUME NEW t PROVE DeletedPosts(t)' = DeletedPosts(t)
  BY <1>3, <1>4, <1>5 DEF DeletedPosts
<1> QED
  BY <1>2, <1>3, <1>4, <1>5, <1>6

LEMMA FreshPostType ==
  ASSUME ImageboardAssumption, TypeOK, NEW s \in Senders, NEW b \in DOMAIN boards,
         NEW t \in Nat, NEW ts \in Nat, NEW text \in BOOLEAN, NEW media \in MediaCounts
  PROVE  /\ FreshPost(s, b, t, ts, text, media) \in Post
         /\ FreshPost(s, b, t, ts, text, media).thread = t
         /\ ~FreshPost(s, b, t, ts, text, media).deleted
<1>1. Len(boards[b].posts) + 1 \in Nat
  <2>1. boards[b].posts \in Seq(Nat) BY DEF TypeOK, Board
  <2> QED BY <2>1
<1> QED
  BY <1>1 DEF FreshPost, Post, ImageboardAssumption

LEMMA PostToInv ==
  ASSUME ImageboardAssumption, Inv, NEW s \in Senders, NEW t \in ThreadIds, NEW ts \in Nat,
         NEW text \in BOOLEAN, NEW media \in MediaCounts, PostTo(s, t, ts, text, media)
  PROVE  Inv'
<1> DEFINE b == threads[t].board
           p == Len(posts) + 1
           q == FreshPost(s, b, t, ts, text, media)
           th == WithPost(threads[t], p)
           bd == Listed(boards[b], threads[t], t, p)
<1>1. /\ b \in DOMAIN boards /\ boards[b] \in Board /\ threads[t] \in Thread
      /\ t \in Nat /\ p \in Nat /\ threads \in Seq(Thread) /\ t \in 1 .. Len(threads)
  BY DEF Inv, References, TypeOK, ThreadIds
<1>2. /\ posts' = Append(posts, q)
      /\ threads' = [threads EXCEPT ![t] = th]
      /\ boards' = [boards EXCEPT ![b] = bd]
      /\ UNCHANGED <<forum, now>>
  BY DEF PostTo
<1>3. q \in Post /\ q.thread = t /\ ~q.deleted
  <2>1. TypeOK BY DEF Inv
  <2>2. b \in DOMAIN boards /\ t \in Nat BY <1>1
  <2> HIDE DEF b
  <2> QED BY <2>1, <2>2, FreshPostType DEF q
<1>4. /\ bd \in Board /\ bd.deleted = boards[b].deleted /\ bd.closed = boards[b].closed
      /\ th \in Thread /\ th.board = b /\ th.postsDeleted = threads[t].postsDeleted
      /\ th.deleted = threads[t].deleted /\ th.closed = threads[t].closed
  BY <1>1, PostingTypes
<1> HIDE DEF q, th, bd, p
<1>5. /\ threads' \in Seq(Thread) /\ ThreadIds' = ThreadIds
      /\ \A u \in ThreadIds : threads'[u] = IF u = t THEN th ELSE threads[u]
  BY <1>1, <1>2, <1>4, SeqExcept DEF ThreadIds
<1>6. /\ PostIds' = PostIds \cup {Len(posts) + 1} /\ posts' \in Seq(Post)
      /\ \A i \in PostIds : posts'[i] = posts[i]
      /\ posts'[Len(posts) + 1] = q
      /\ \A u : DeletedPosts(u)' = DeletedPosts(u)
  BY <1>2, <1>3, AppendKeepsDeletedPosts DEF Inv
<1>7. /\ DOMAIN boards' = DOMAIN boards
      /\ \A c \in DOMAIN boards : boards'[c] = IF c = b THEN bd ELSE boards[c]
  BY <1>1, <1>2
<1>8. TypeOK'
  BY <1>2, <1>4, <1>5, <1>6, <1>7 DEF Inv, TypeOK
<1>9. References'
  BY <1>3, <1>4, <1>5, <1>6, <1>7 DEF Inv, References
<1>10. DeletedIsClosed'
  BY <1>1, <1>4, <1>5, <1>7 DEF Inv, DeletedIsClosed
<1>11. DeletedCountExact'
  BY <1>4, <1>5, <1>6 DEF Inv, DeletedCountExact
<1> QED
  BY <1>8, <1>9, <1>10, <1>11 DEF Inv

LEMMA OpenThreadInv ==
  ASSUME ImageboardAssumption, Inv, NEW s \in Senders, NEW b \in DOMAIN boards,
         NEW admin \in Users \cup {NoAdmin}, NEW ts \in Nat, NEW text \in BOOLEAN,
         NEW media \in MediaCounts, OpenThread(s, b, admin, ts, text, media)
  PROVE  Inv'
<1> DEFINE t == Len(threads) + 1
           p == Len(posts) + 1
           q == FreshPost(s, b, t, ts, text, media)
           new == FreshThread(b, admin)
           th == WithPost(new, p)
           board == WithThread(boards[b], new.number, t)
           bd == Listed(board, new, t, p)
<1>1. /\ boards[b] \in Board /\ b \in Slugs
      /\ t \in Nat /\ p \in Nat /\ threads \in Seq(Thread)
  BY DEF Inv, TypeOK
<1>2. /\ posts' = Append(posts, q)
      /\ threads' = Append(threads, th)
      /\ boards' = [boards EXCEPT ![b] = bd]
      /\ UNCHANGED <<forum, now>>
  BY DEF OpenThread
<1>3. q \in Post /\ q.thread = t /\ ~q.deleted
  <2>1. TypeOK BY DEF Inv
  <2> HIDE DEF t
  <2> QED BY <1>1, <2>1, FreshPostType DEF q
<1>4. /\ new \in Thread /\ new.board = b /\ new.postsDeleted = 0
      /\ ~new.deleted /\ ~new.closed /\ new.number \in Nat
  <2>1. Len(boards[b].posts) + 1 \in Nat
    <3>1. boards[b].posts \in Seq(Nat) BY <1>1 DEF Board
    <3> QED BY <3>1
  <2>2. <<>> \in Seq(Nat)
    OBVIOUS
  <2> QED BY <1>1, <2>1, <2>2 DEF FreshThread, Thread
<1>5. board \in Board /\ board.deleted = boards[b].deleted /\ board.closed = boards[b].closed
  <2>1. boards[b].threads \cup {<<new.number, t>>} \in SUBSET (Nat \X Nat)
    BY <1>1, <1>4 DEF Board
  <2> QED BY <1>1, <2>1 DEF Board, WithThread
<1> HIDE DEF new, board
<1>6. /\ bd \in Board /\ bd.deleted = boards[b].deleted /\ bd.closed = boards[b].closed
      /\ th \in Thread /\ th.board = b /\ th.postsDeleted = 0 /\ ~th.deleted
  BY <1>1, <1>4, <1>5, PostingTypes
<1> HIDE DEF q, th, bd, p
<1>7. /\ threads' \in Seq(Thread) /\ ThreadIds' = ThreadIds \cup {t} /\ t \notin ThreadIds
      /\ \A u \in ThreadIds : threads'[u] = threads[u]
      /\ threads'[t] = th
  BY <1>1, <1>2, <1>6, SeqAppend DEF ThreadIds
<1>8. /\ PostIds' = PostIds \cup {Len(posts) + 1} /\ posts' \in Seq(Post)
      /\ \A i \in PostIds : posts'[i] = posts[i]
      /\ posts'[Len(posts) + 1] = q
      /\ \A u : DeletedPosts(u)' = DeletedPosts(u)
  BY <1>2, <1>3, AppendKeepsDeletedPosts DEF Inv
<1>9. /\ DOMAIN boards' = DOMAIN boards
      /\ \A c \in DOMAIN boards : boards'[c] = IF c = b THEN bd ELSE boards[c]
  BY <1>1, <1>2
<1>10. TypeOK'
  BY <1>2, <1>6, <1>7, <1>8, <1>9 DEF Inv, TypeOK
<1> HIDE DEF t
<1>11. References'
  BY <1>3, <1>6, <1>7, <1>8, <1>9 DEF Inv, References
<1>12. DeletedIsClosed'
  BY <1>1, <1>6, <1>7, <1>9 DEF Inv, DeletedIsClosed
<1>13. DeletedCountExact'
  <2>1. DeletedPosts(t) = {}
    BY <1>7 DEF Inv, References, DeletedPosts
  <2> QED BY <1>6, <1>7, <1>8, <2>1, FS_EmptySet DEF Inv, DeletedCountExact
<1> QED
  BY <1>10, <1>11, <1>12, <1>13 DEF Inv

LEMMA PostingInv ==
  ASSUME ImageboardAssumption, Inv, NEW s \in Senders, NEW text \in BOOLEAN,
         NEW media \in MediaCounts, Posting(s, text, media)
  PROVE  Inv'
<1>1. Stamp \in Nat /\ 0 .. MaxTime \subseteq Nat /\ NoAdmin \in Users \cup {NoAdmin}
      /\ Addr(s) \in Users \cup {NoAdmin}
  BY StampIsNat DEF Inv, ImageboardAssumption, Senders, Addr
<1>2. ASSUME NEW b \in DOMAIN boards, NEW own \in BOOLEAN, NewThread(s, b, own, text, media)
      PROVE  Inv'
  BY <1>1, <1>2, OpenThreadInv DEF NewThread
<1>3. ASSUME NEW b \in DOMAIN boards, NEW ts \in 0 .. MaxTime,
             MigrateThread(s, b, ts, text, media)
      PROVE  Inv'
  BY <1>1, <1>3, OpenThreadInv DEF MigrateThread
<1>4. ASSUME NEW t \in ThreadIds, NewPost(s, t, text, media)
      PROVE  Inv'
  BY <1>1, <1>4, PostToInv DEF NewPost
<1>5. ASSUME NEW t \in ThreadIds, NEW ts \in 0 .. MaxTime, MigratePost(s, t, ts, text, media)
      PROVE  Inv'
  BY <1>1, <1>5, PostToInv DEF MigratePost
<1> QED
  BY <1>2, <1>3, <1>4, <1>5 DEF Posting

\* A post replaced by one of the same thread, and the thread's counter moved if
\* its deletion changed.
LEMMA ModerationInv ==
  ASSUME ImageboardAssumption, Inv, NEW p \in PostIds, NEW q \in Post, NEW t,
         t = posts[p].thread, q.thread = t,
         posts' = [posts EXCEPT ![p] = q],
         threads' = IF q.deleted = posts[p].deleted THEN threads
                    ELSE [threads EXCEPT ![t] = Counted(@, q.deleted)],
         q.deleted = posts[p].deleted \/ q.deleted \/ threads[t].postsDeleted > 0,
         UNCHANGED <<forum, boards, now>>
  PROVE  Inv'
<1>1. /\ t \in ThreadIds /\ threads \in Seq(Thread) /\ threads[t] \in Thread
      /\ posts \in Seq(Post) /\ posts[p] \in Post
  BY DEF Inv, References, TypeOK, ThreadIds, PostIds
<1>2. /\ posts' \in Seq(Post) /\ PostIds' = PostIds
      /\ \A i \in PostIds : posts'[i] = IF i = p THEN q ELSE posts[i]
  BY <1>1, SeqExcept DEF PostIds
<1>3. q.deleted \in BOOLEAN /\ posts[p].deleted \in BOOLEAN
  BY <1>1 DEF Post
<1>4. CASE q.deleted = posts[p].deleted
  <2>1. UNCHANGED threads /\ ThreadIds' = ThreadIds
    BY <1>4 DEF ThreadIds
  <2>2. \A u : DeletedPosts(u)' = DeletedPosts(u)
    BY <1>1, <1>2, <1>4 DEF DeletedPosts
  <2>3. TypeOK'
    BY <1>2, <2>1 DEF Inv, TypeOK
  <2>4. References'
    BY <1>1, <1>2, <2>1 DEF Inv, References
  <2>5. DeletedIsClosed' /\ DeletedCountExact'
    BY <2>1, <2>2 DEF Inv, DeletedIsClosed, DeletedCountExact
  <2> QED BY <2>3, <2>4, <2>5 DEF Inv
<1>5. CASE q.deleted # posts[p].deleted
  <2> DEFINE th == Counted(threads[t], q.deleted)
  <2>1. /\ th \in Thread /\ th.board = threads[t].board
        /\ th.deleted = threads[t].deleted /\ th.closed = threads[t].closed
        /\ th.postsDeleted = IF q.deleted THEN threads[t].postsDeleted + 1
                             ELSE threads[t].postsDeleted - 1
    BY <1>1, <1>3, <1>5, CountedType
  <2>2. threads' = [threads EXCEPT ![t] = th]
    BY <1>5
  <2> HIDE DEF th
  <2>3. /\ threads' \in Seq(Thread) /\ ThreadIds' = ThreadIds
        /\ \A u \in ThreadIds : threads'[u] = IF u = t THEN th ELSE threads[u]
    BY <1>1, <2>1, <2>2, SeqExcept DEF ThreadIds
  <2>4. TypeOK'
    BY <1>2, <2>3 DEF Inv, TypeOK
  <2>5. References'
    BY <1>2, <2>1, <2>3 DEF Inv, References
  <2>6. DeletedIsClosed'
    BY <2>1, <2>3 DEF Inv, DeletedIsClosed
  <2>7. ASSUME NEW u \in ThreadIds, u # t
        PROVE  threads'[u].postsDeleted = Cardinality(DeletedPosts(u)')
    <3>1. DeletedPosts(u)' = DeletedPosts(u)
      BY <1>2, <2>7 DEF DeletedPosts
    <3> QED BY <2>3, <2>7, <3>1 DEF Inv, DeletedCountExact
  <2>8. th.postsDeleted = Cardinality(DeletedPosts(t)')
    <3>1. IsFiniteSet(DeletedPosts(t))
      <4>1. IsFiniteSet(PostIds)  BY <1>1, FS_Interval DEF PostIds
      <4> QED BY <4>1, FS_Subset DEF DeletedPosts
    <3>2. threads[t].postsDeleted = Cardinality(DeletedPosts(t))
      BY <1>1 DEF Inv, DeletedCountExact
    <3>3. CASE q.deleted
      <4>1. ~posts[p].deleted
        BY <1>3, <1>5, <3>3
      <4>2. DeletedPosts(t)' = DeletedPosts(t) \cup {p} /\ p \notin DeletedPosts(t)
        BY <1>1, <1>2, <3>3, <4>1 DEF DeletedPosts
      <4>3. Cardinality(DeletedPosts(t)') = Cardinality(DeletedPosts(t)) + 1
        BY <3>1, <4>2, FS_AddElement
      <4> QED BY <2>1, <3>2, <3>3, <4>3
    <3>4. CASE ~q.deleted
      <4>1. posts[p].deleted
        BY <1>3, <1>5, <3>4
      <4>2. DeletedPosts(t)' = DeletedPosts(t) \ {p} /\ p \in DeletedPosts(t)
        BY <1>1, <1>2, <3>4, <4>1 DEF DeletedPosts
      <4>3. Cardinality(DeletedPosts(t)') = Cardinality(DeletedPosts(t)) - 1
        BY <3>1, <4>2, FS_RemoveElement
      <4> QED BY <2>1, <3>2, <3>4, <4>3
    <3> QED BY <3>3, <3>4
  <2>9. DeletedCountExact'
    BY <2>3, <2>7, <2>8 DEF DeletedCountExact
  <2> QED BY <2>4, <2>5, <2>6, <2>9 DEF Inv
<1> QED
  BY <1>4, <1>5

LEMMA PostWith ==
  ASSUME NEW post \in Post
  PROVE  /\ \A d \in BOOLEAN : [post EXCEPT !.deleted = d] \in Post
         /\ \A x, d \in BOOLEAN : [post EXCEPT !.text = x, !.deleted = d] \in Post
         /\ \A d : [post EXCEPT !.deleted = d].deleted = d
         /\ \A x, d : [post EXCEPT !.text = x, !.deleted = d].deleted = d
         /\ \A d : [post EXCEPT !.deleted = d].thread = post.thread
         /\ \A x, d : [post EXCEPT !.text = x, !.deleted = d].thread = post.thread
         /\ post.deleted \in BOOLEAN
BY DEF Post

LEMMA PostSetDeletedInv ==
  ASSUME ImageboardAssumption, Inv, NEW s \in Senders, NEW p \in PostIds,
         NEW d \in BOOLEAN, PostSetDeleted(s, p, d)
  PROVE  Inv'
<1> DEFINE t == posts[p].thread
           q == [posts[p] EXCEPT !.deleted = d]
<1>1. posts[p] \in Post
  BY DEF Inv, TypeOK, PostIds
<1>2. q \in Post /\ q.thread = t /\ q.deleted = d
  BY <1>1, PostWith
<1>3. /\ posts[p].deleted # d /\ (d \/ threads[t].postsDeleted > 0)
      /\ posts' = [posts EXCEPT ![p] = q]
      /\ threads' = [threads EXCEPT ![t] = Counted(@, d)]
      /\ UNCHANGED <<forum, boards, now>>
  BY DEF PostSetDeleted
<1> HIDE DEF q
<1> QED
  BY <1>2, <1>3, ModerationInv

LEMMA PostSetTextInv ==
  ASSUME ImageboardAssumption, Inv, NEW s \in Senders, NEW p \in PostIds,
         NEW text \in BOOLEAN, PostSetText(s, p, text)
  PROVE  Inv'
<1> DEFINE t == posts[p].thread
           emptied == Emptied(posts[p], text)
           d == posts[p].deleted \/ emptied
           q == [posts[p] EXCEPT !.text = text, !.deleted = d]
<1>1. posts[p] \in Post
  BY DEF Inv, TypeOK, PostIds
<1>2. d \in BOOLEAN /\ emptied \in BOOLEAN
  BY <1>1 DEF Emptied, Empty, Post
<1>3. /\ posts' = [posts EXCEPT ![p] = q]
      /\ threads' = IF emptied THEN [threads EXCEPT ![t] = Counted(@, TRUE)] ELSE threads
      /\ UNCHANGED <<forum, boards, now>>
  BY DEF PostSetText
<1>4. emptied => ~posts[p].deleted
  BY DEF Emptied
<1>5. emptied <=> d # posts[p].deleted
  BY <1>1, <1>2, <1>4, PostWith
<1>6. emptied => d
  OBVIOUS
<1> HIDE DEF d, emptied
<1>7. q \in Post /\ q.thread = t /\ q.deleted = d
  BY <1>1, <1>2 DEF Post
<1> HIDE DEF q
<1>8. CASE emptied
  <2>1. q.deleted = TRUE BY <1>2, <1>6, <1>7, <1>8
  <2>2. threads' = [threads EXCEPT ![t] = Counted(@, q.deleted)]
    BY <1>3, <1>8, <2>1
  <2>3. q.deleted # posts[p].deleted BY <1>5, <1>7, <1>8
  <2> QED BY <1>3, <1>7, <2>1, <2>2, <2>3, ModerationInv
<1>9. CASE ~emptied
  <2>1. q.deleted = posts[p].deleted /\ threads' = threads
    BY <1>3, <1>5, <1>7, <1>9
  <2> QED BY <1>3, <1>7, <2>1, ModerationInv
<1> QED
  BY <1>8, <1>9

LEMMA BoardSettingInv ==
  ASSUME ImageboardAssumption, Inv, NEW s \in Senders, NEW b \in DOMAIN boards,
         BoardSetting(s, b)
  PROVE  Inv'
<1>1. PICK r \in Board : ReplacesBoard(b, r) /\ (r.deleted => r.closed)
  BY BoardSettingEffect DEF Inv
<1>2. /\ DOMAIN boards' = DOMAIN boards
      /\ \A c \in DOMAIN boards : boards'[c] = IF c = b THEN r ELSE boards[c]
      /\ UNCHANGED <<forum, threads, posts, now>>
      /\ UNCHANGED <<ThreadIds, PostIds>>
  BY <1>1 DEF ReplacesBoard, Inv, TypeOK, ThreadIds, PostIds
<1>3. boards' \in [DOMAIN boards -> Board]
  BY <1>1 DEF ReplacesBoard, Inv, TypeOK
<1>4. TypeOK'
  BY <1>2, <1>3 DEF Inv, TypeOK
<1>5. References' /\ DeletedIsClosed'
  BY <1>1, <1>2 DEF Inv, References, DeletedIsClosed
<1>6. DeletedCountExact'
  BY <1>2 DEF Inv, DeletedCountExact, DeletedPosts
<1> QED
  BY <1>4, <1>5, <1>6 DEF Inv

LEMMA ForumSettingInv ==
  ASSUME ImageboardAssumption, Inv, NEW s \in Senders, ForumSetting(s)
  PROVE  Inv'
<1>1. /\ forum' \in Forum
      /\ DOMAIN boards \subseteq DOMAIN boards' /\ DOMAIN boards' \subseteq Slugs
      /\ boards' \in [DOMAIN boards' -> Board]
      /\ \A b \in DOMAIN boards' : boards'[b].deleted => boards'[b].closed
      /\ UNCHANGED <<threads, posts, now>>
  BY ForumSettingEffect DEF Inv
<1>2. UNCHANGED <<ThreadIds, PostIds>>
  BY <1>1 DEF ThreadIds, PostIds
<1>3. TypeOK'
  BY <1>1 DEF Inv, TypeOK
<1>4. References' /\ DeletedIsClosed'
  BY <1>1, <1>2 DEF Inv, References, DeletedIsClosed
<1>5. DeletedCountExact'
  BY <1>1, <1>2 DEF Inv, DeletedCountExact, DeletedPosts
<1> QED
  BY <1>3, <1>4, <1>5 DEF Inv

LEMMA ThreadSettingInv ==
  ASSUME ImageboardAssumption, Inv, NEW s \in Senders, NEW t \in ThreadIds,
         ThreadSetting(s, t)
  PROVE  Inv'
<1>1. PICK r \in Thread : ReplacesThread(t, r)
  BY ThreadSettingEffect DEF Inv
<1>2. /\ threads' \in Seq(Thread) /\ ThreadIds' = ThreadIds
      /\ \A u \in ThreadIds : threads'[u] = IF u = t THEN r ELSE threads[u]
  BY <1>1, SeqExcept DEF ReplacesThread, Inv, TypeOK, ThreadIds
<1>3. /\ UNCHANGED <<forum, boards, posts, now, PostIds>>
      /\ r.board = threads[t].board /\ r.postsDeleted = threads[t].postsDeleted
      /\ r.deleted => r.closed
  BY <1>1 DEF ReplacesThread, SamePosts, PostIds
<1>4. TypeOK'
  BY <1>2, <1>3 DEF Inv, TypeOK
<1>5. References' /\ DeletedIsClosed'
  BY <1>2, <1>3 DEF Inv, References, DeletedIsClosed
<1>6. DeletedCountExact'
  BY <1>2, <1>3 DEF Inv, DeletedCountExact, DeletedPosts
<1> QED
  BY <1>4, <1>5, <1>6 DEF Inv

LEMMA UnchangedInv ==
  ASSUME Inv, UNCHANGED <<forum, boards, threads, posts>>, now' \in Nat
  PROVE  Inv'
<1>1. UNCHANGED <<ThreadIds, PostIds>>
  BY DEF ThreadIds, PostIds
<1>2. TypeOK'
  BY DEF Inv, TypeOK
<1>3. References' /\ DeletedIsClosed'
  BY <1>1 DEF Inv, References, DeletedIsClosed
<1>4. DeletedCountExact'
  BY <1>1 DEF Inv, DeletedCountExact, DeletedPosts
<1> QED
  BY <1>2, <1>3, <1>4 DEF Inv

LEMMA NextInv ==
  ASSUME ImageboardAssumption, Inv, [Next]_vars
  PROVE  Inv'
<1>1. CASE Tick
  BY <1>1, UnchangedInv DEF Tick, Inv, TypeOK
<1>2. ASSUME NEW s \in Senders, Step(s)
      PROVE  Inv'
  BY <1>2, ForumSettingInv, BoardSettingInv, ThreadSettingInv, PostingInv,
     PostSetDeletedInv, PostSetTextInv DEF Step
<1>3. CASE UNCHANGED vars
  BY <1>3, UnchangedInv DEF vars, Inv, TypeOK
<1> QED
  BY <1>1, <1>2, <1>3 DEF Next

-----------------------------------------------------------------------------
\* The states of boards, threads and posts are always well-typed.
THEOREM TypeCorrect == Spec => []TypeOK
<1>1. Init => Inv
  BY InitInv
<1>2. Inv /\ [Next]_vars => Inv'
  BY ImageboardAssumption, NextInv
<1>3. Inv => TypeOK
  BY DEF Inv
<1> QED
  BY <1>1, <1>2, <1>3, PTL DEF Spec

\* Whatever is deleted is closed, for boards and for threads: the check that
\* keeps posts out of closed threads also keeps them out of deleted ones.
THEOREM DeletionImpliesClosure == Spec => []DeletedIsClosed
<1>1. Init => Inv
  BY InitInv
<1>2. Inv /\ [Next]_vars => Inv'
  BY ImageboardAssumption, NextInv
<1>3. Inv => DeletedIsClosed
  BY DEF Inv
<1> QED
  BY <1>1, <1>2, <1>3, PTL DEF Spec

\* posts_deleted of every thread is always the number of its deleted posts, so
\* the bump limit is compared with the number of live ones, and undoing a
\* deletion never runs the counter below zero.
THEOREM DeletedCountCorrect == Spec => []DeletedCountExact
<1>1. Init => Inv
  BY InitInv
<1>2. Inv /\ [Next]_vars => Inv'
  BY ImageboardAssumption, NextInv
<1>3. Inv => DeletedCountExact
  BY DEF Inv
<1> QED
  BY <1>1, <1>2, <1>3, PTL DEF Spec

-----------------------------------------------------------------------------
(***************************************************************************)
(* Every post is in its place: on its board under its number, in the one   *)
(* thread it names, and in the preview as long as it is among the newest.  *)
(***************************************************************************)

\* The invariant.  The posts of a thread are ordered by number, which makes
\* them different; they and the posts that name the thread are the same.

SizeOf(feed) == IF Len(feed) - 1 < Preview THEN Len(feed) - 1 ELSE Preview

PreviewOf(feed) == SubSeq(feed, Len(feed) - SizeOf(feed) + 1, Len(feed))

ThreadPlaced(t) ==
  LET feed == threads[t].posts IN
  /\ Len(feed) >= 1
  /\ threads[t].op = feed[1]
  /\ threads[t].last3 = PreviewOf(feed)
  /\ threads[t].number = posts[feed[1]].number
  /\ <<threads[t].number, t>> \in boards[threads[t].board].threads
  /\ \A i \in 1 .. Len(feed) : feed[i] \in PostIds /\ posts[feed[i]].thread = t
  /\ \A i, j \in 1 .. Len(feed) : i < j => posts[feed[i]].number < posts[feed[j]].number

PostPlaced(p) ==
  LET t == posts[p].thread
      board == boards[threads[t].board]
  IN  /\ posts[p].number \in 1 .. Len(board.posts)
      /\ board.posts[posts[p].number] = p
      /\ \E i \in 1 .. Len(threads[t].posts) : threads[t].posts[i] = p

PostsOf(t) == {p \in PostIds : posts[p].thread = t}

Counts(t) == Len(threads[t].posts) = Cardinality(PostsOf(t))

Placed ==
  /\ \A t \in ThreadIds : ThreadPlaced(t) /\ Counts(t)
  /\ \A p \in PostIds : PostPlaced(p)

LEMMA InitPlaced == Init => Placed
BY DEF Init, Placed, ThreadIds, PostIds

-----------------------------------------------------------------------------
\* The preview

\* The preview has the last posts, as many as there are besides the first.
LEMMA PreviewFacts ==
  ASSUME ImageboardAssumption, NEW feed \in Seq(Nat), Len(feed) >= 1
  PROVE  /\ SizeOf(feed) \in Nat /\ SizeOf(feed) <= Len(feed) - 1
         /\ PreviewOf(feed) \in Seq(Nat)
         /\ Len(PreviewOf(feed)) = SizeOf(feed)
         /\ \A i \in 1 .. SizeOf(feed) : PreviewOf(feed)[i] = feed[Len(feed) - SizeOf(feed) + i]
<1> DEFINE n == Len(feed)
           k == SizeOf(feed)
           m == n - k + 1
<1>1. n \in Nat /\ n >= 1 /\ Preview \in Nat /\ Preview >= 1
  BY DEF ImageboardAssumption
<1>2. k \in Nat /\ k <= n - 1
  BY <1>1 DEF SizeOf
<1>3. PreviewOf(feed) = SubSeq(feed, m, n)
  BY DEF PreviewOf
<1>4. \A i \in 1 .. n : feed[i] \in Nat
  OBVIOUS
<1> HIDE DEF n, k
<1>5. m \in Int /\ n \in Int /\ m >= 2 /\ m <= n + 1 /\ n - m + 1 = k
  BY <1>1, <1>2
<1>6. \A i \in m .. n : feed[i] \in Nat
  BY <1>4, <1>5
<1>7. \A i \in 1 .. k : feed[m + i - 1] = feed[n - k + i]
  <2> SUFFICES ASSUME NEW i \in 1 .. k PROVE m + i - 1 = n - k + i
    OBVIOUS
  <2> QED BY <1>1, <1>2
<1> HIDE DEF m
<1>8. /\ SubSeq(feed, m, n) \in Seq(Nat) /\ Len(SubSeq(feed, m, n)) = k
      /\ \A i \in 1 .. k : SubSeq(feed, m, n)[i] = feed[m + i - 1]
  <2>1. /\ SubSeq(feed, m, n) \in Seq(Nat)
        /\ Len(SubSeq(feed, m, n)) = IF m <= n THEN n - m + 1 ELSE 0
        /\ \A i \in 1 .. n - m + 1 : SubSeq(feed, m, n)[i] = feed[m + i - 1]
    BY <1>5, <1>6, SubSeqProperties
  <2>2. k = IF m <= n THEN n - m + 1 ELSE 0
    BY <1>5
  <2> QED BY <1>5, <2>1, <2>2
<1> QED
  BY <1>2, <1>3, <1>7, <1>8 DEF n, k

\* After a post the preview is that of the longer feed.
LEMMA NewestIsPreview ==
  ASSUME ImageboardAssumption, NEW feed \in Seq(Nat), Len(feed) >= 1, NEW p \in Nat
  PROVE  Newest(PreviewOf(feed), p) = PreviewOf(Append(feed, p))
<1> DEFINE n == Len(feed)
           k == SizeOf(feed)
           more == Append(feed, p)
           j == SizeOf(more)
           last == PreviewOf(feed)
           longer == Append(last, p)
<1>1. n \in Nat /\ n >= 1 /\ Preview \in Nat /\ Preview >= 1
  BY DEF ImageboardAssumption
<1>2. /\ more \in Seq(Nat) /\ Len(more) = n + 1
      /\ \A i \in 1 .. n + 1 : more[i] = IF i = n + 1 THEN p ELSE feed[i]
  BY SeqAppend
<1>3. k \in Nat /\ last \in Seq(Nat) /\ Len(last) = k /\ \A i \in 1 .. k : last[i] = feed[n - k + i]
  BY <1>1, PreviewFacts
<1> HIDE DEF more
<1>4. /\ j \in Nat /\ PreviewOf(more) \in Seq(Nat) /\ Len(PreviewOf(more)) = j
      /\ \A i \in 1 .. j : PreviewOf(more)[i] = more[Len(more) - j + i]
  <2>1. Len(more) >= 1 BY <1>1, <1>2
  <2> QED BY <1>2, <2>1, PreviewFacts
<1>5. /\ k = IF n - 1 < Preview THEN n - 1 ELSE Preview
      /\ j = IF n < Preview THEN n ELSE Preview
  BY <1>1, <1>2 DEF SizeOf
<1> HIDE DEF last, j, k, n
<1>6. /\ longer \in Seq(Nat) /\ Len(longer) = k + 1
      /\ \A i \in 1 .. k + 1 : longer[i] = IF i = k + 1 THEN p ELSE last[i]
  BY <1>3, SeqAppend
<1> HIDE DEF longer
<1>7. CASE n - 1 < Preview
  <2>1. k = n - 1 /\ j = n
    BY <1>1, <1>5, <1>7
  <2>2. \A i \in 1 .. n : longer[i] = PreviewOf(more)[i]
    <3> SUFFICES ASSUME NEW i \in 1 .. n PROVE longer[i] = PreviewOf(more)[i]
      OBVIOUS
    <3>1. PreviewOf(more)[i] = more[i + 1]
      BY <1>1, <1>2, <1>4, <2>1
    <3>2. CASE i = n
      BY <1>1, <1>2, <1>6, <2>1, <3>1, <3>2
    <3>3. CASE i # n
      <4>1. i \in 1 .. k /\ i # k + 1 /\ i \in 1 .. k + 1 /\ n - k + i = i + 1
            /\ i + 1 # n + 1 /\ i + 1 \in 1 .. n + 1
        BY <1>1, <2>1, <3>3
      <4>2. last[i] = feed[n - k + i] BY <1>3, <4>1
      <4>3. last[i] = feed[i + 1]     BY <4>1, <4>2
      <4>4. more[i + 1] = feed[i + 1] BY <1>2, <4>1
      <4> QED BY <1>6, <3>1, <4>1, <4>3, <4>4
    <3> QED BY <3>2, <3>3
  <2>3. longer = PreviewOf(more)
    BY <1>4, <1>6, <2>1, <2>2, <1>1, SeqEqual
  <2>4. Newest(last, p) = longer
    BY <1>1, <1>6, <1>7, <2>1 DEF Newest, longer
  <2> QED BY <2>3, <2>4 DEF more, last
<1>8. CASE n - 1 >= Preview
  <2>1. k = Preview /\ j = k /\ k < n
    BY <1>1, <1>5, <1>8
  <2>2. Newest(last, p) = Tail(longer)
    BY <1>1, <1>6, <2>1 DEF Newest, longer
  <2>3. /\ Tail(longer) \in Seq(Nat) /\ Len(Tail(longer)) = k
        /\ \A i \in 1 .. k : Tail(longer)[i] = longer[i + 1]
    <3>1. longer # <<>>
      BY <1>3, <1>6
    <3>2. /\ Tail(longer) \in Seq(Nat) /\ Len(Tail(longer)) = Len(longer) - 1
          /\ \A i \in 1 .. Len(Tail(longer)) : Tail(longer)[i] = longer[i + 1]
      BY <1>6, <3>1, HeadTailProperties
    <3>3. Len(longer) - 1 = k
      BY <1>3, <1>6
    <3> QED BY <3>2, <3>3
  <2>4. \A i \in 1 .. k : Tail(longer)[i] = PreviewOf(more)[i]
    <3> SUFFICES ASSUME NEW i \in 1 .. k PROVE Tail(longer)[i] = PreviewOf(more)[i]
      OBVIOUS
    <3>1. PreviewOf(more)[i] = more[n + 1 - k + i]
      <4>1. PreviewOf(more)[i] = more[Len(more) - j + i] BY <1>4, <2>1
      <4>2. Len(more) - j = n + 1 - k                    BY <1>1, <1>2, <1>3, <2>1
      <4> QED BY <4>1, <4>2
    <3>2. Tail(longer)[i] = longer[i + 1] /\ i + 1 \in 1 .. k + 1
      BY <1>3, <2>3
    <3>3. CASE i = k
      <4>1. n + 1 - k + i = n + 1 /\ n + 1 \in 1 .. n + 1
        BY <1>1, <1>3, <3>3
      <4> QED BY <1>2, <1>6, <3>1, <3>2, <3>3, <4>1
    <3>4. CASE i # k
      <4>1. i + 1 \in 1 .. k /\ i + 1 # k + 1 /\ n - k + (i + 1) = n + 1 - k + i
            /\ n + 1 - k + i \in 1 .. n + 1 /\ n + 1 - k + i # n + 1
        BY <1>1, <1>3, <2>1, <3>4
      <4>2. last[i + 1] = feed[n - k + (i + 1)]               BY <1>3, <4>1
      <4>3. last[i + 1] = feed[n + 1 - k + i]                 BY <4>1, <4>2
      <4>4. more[n + 1 - k + i] = feed[n + 1 - k + i]         BY <1>2, <4>1
      <4>5. longer[i + 1] = last[i + 1]                       BY <1>6, <3>2, <4>1
      <4> QED BY <3>1, <3>2, <4>3, <4>4, <4>5
    <3> QED BY <3>3, <3>4
  <2>5. Tail(longer) = PreviewOf(more)
    BY <1>4, <2>1, <2>3, <2>4, SeqEqual
  <2> QED BY <2>2, <2>5 DEF more, last
<1> QED
  BY <1>1, <1>7, <1>8

-----------------------------------------------------------------------------
\* What a step does to the posts.

\* Settings and the clock leave the posts alone.
LEMMA SettingsKeepPosts ==
  ASSUME NEW s \in Senders,
         \/ ForumSetting(s)
         \/ \E b \in DOMAIN boards : BoardSetting(s, b)
         \/ \E t \in ThreadIds : ThreadSetting(s, t)
  PROVE  UNCHANGED posts
BY DEF ForumSetting, ForumAddModerator, ForumDelModerator, SetTimestampPrecision, NewBoard,
       BoardSetting, BoardAddModerator, BoardDelModerator, SetMaxMedia, SetBumpLimit,
       BoardSetClosed, BoardSetDeleted, SetPinned,
       ThreadSetting, ThreadAddModerator, ThreadDelModerator, SetAdmin, ThreadSetClosed,
       ThreadSetDeleted

\* A post is one of a thread that is there or the first of a new one.
LEMMA PostingForms ==
  ASSUME ImageboardAssumption, TypeOK,
         NEW s \in Senders, NEW text \in BOOLEAN, NEW media \in MediaCounts,
         Posting(s, text, media)
  PROVE  \E ts \in Nat :
           \/ \E t \in ThreadIds : PostTo(s, t, ts, text, media)
           \/ \E b \in DOMAIN boards, admin \in Users \cup {NoAdmin} :
                OpenThread(s, b, admin, ts, text, media)
<1>1. Stamp \in Nat /\ 0 .. MaxTime \subseteq Nat /\ NoAdmin \in Users \cup {NoAdmin}
      /\ Addr(s) \in Users \cup {NoAdmin}
  BY StampIsNat DEF ImageboardAssumption, Senders, Addr
<1>2. ASSUME NEW b \in DOMAIN boards, NEW own \in BOOLEAN, NewThread(s, b, own, text, media)
      PROVE  \E admin \in Users \cup {NoAdmin} : OpenThread(s, b, admin, Stamp, text, media)
  BY <1>1, <1>2 DEF NewThread
<1>3. ASSUME NEW b \in DOMAIN boards, NEW ts \in 0 .. MaxTime,
             MigrateThread(s, b, ts, text, media)
      PROVE  ts \in Nat /\ OpenThread(s, b, NoAdmin, ts, text, media)
  BY <1>1, <1>3 DEF MigrateThread
<1>4. ASSUME NEW t \in ThreadIds, NewPost(s, t, text, media)
      PROVE  PostTo(s, t, Stamp, text, media)
  BY <1>4 DEF NewPost
<1>5. ASSUME NEW t \in ThreadIds, NEW ts \in 0 .. MaxTime, MigratePost(s, t, ts, text, media)
      PROVE  ts \in Nat /\ PostTo(s, t, ts, text, media)
  BY <1>1, <1>5 DEF MigratePost
<1> QED
  BY <1>1, <1>2, <1>3, <1>4, <1>5 DEF Posting

\* Posting appends a post: q, by s, in thread t.
Appends(q, s, t) ==
  /\ q \in Post /\ posts' = Append(posts, q)
  /\ PostIds' = PostIds \cup {Len(posts) + 1} /\ Len(posts) + 1 \notin PostIds
  /\ \A i \in PostIds : posts'[i] = posts[i]
  /\ posts'[Len(posts) + 1] = q
  /\ q.thread = t /\ q.sender = s /\ ~q.deleted

LEMMA PostToAppends ==
  ASSUME ImageboardAssumption, Inv, NEW s \in Senders, NEW t \in ThreadIds, NEW ts \in Nat,
         NEW text \in BOOLEAN, NEW media \in MediaCounts, PostTo(s, t, ts, text, media)
  PROVE  Appends(FreshPost(s, threads[t].board, t, ts, text, media), s, t)
<1> DEFINE b == threads[t].board
           q == FreshPost(s, b, t, ts, text, media)
<1>1. b \in DOMAIN boards /\ t \in Nat /\ posts \in Seq(Post) /\ TypeOK
  BY DEF Inv, References, TypeOK, ThreadIds
<1>2. posts' = Append(posts, q) /\ q.sender = s
  BY DEF PostTo, FreshPost
<1> HIDE DEF b
<1>3. q \in Post /\ q.thread = t /\ ~q.deleted
  BY <1>1, FreshPostType
<1> HIDE DEF q
<1>4. /\ PostIds' = PostIds \cup {Len(posts) + 1} /\ posts'[Len(posts) + 1] = q
      /\ \A i \in PostIds : posts'[i] = posts[i]
  BY <1>1, <1>2, <1>3, AppendKeepsDeletedPosts
<1>5. Len(posts) + 1 \notin PostIds
  BY <1>1 DEF PostIds
<1> QED
  BY <1>2, <1>3, <1>4, <1>5 DEF q, b, Appends

LEMMA OpenThreadAppends ==
  ASSUME ImageboardAssumption, Inv, NEW s \in Senders, NEW b \in DOMAIN boards, NEW admin \in Users \cup {NoAdmin},
         NEW ts \in Nat, NEW text \in BOOLEAN, NEW media \in MediaCounts,
         OpenThread(s, b, admin, ts, text, media)
  PROVE  Appends(FreshPost(s, b, Len(threads) + 1, ts, text, media), s, Len(threads) + 1)
<1> DEFINE t == Len(threads) + 1
           q == FreshPost(s, b, t, ts, text, media)
<1>1. t \in Nat /\ posts \in Seq(Post) /\ TypeOK
  BY DEF Inv, TypeOK
<1>2. posts' = Append(posts, q) /\ q.sender = s
  BY DEF OpenThread, FreshPost
<1> HIDE DEF t
<1>3. q \in Post /\ q.thread = t /\ ~q.deleted
  BY <1>1, FreshPostType
<1> HIDE DEF q
<1>4. /\ PostIds' = PostIds \cup {Len(posts) + 1} /\ posts'[Len(posts) + 1] = q
      /\ \A i \in PostIds : posts'[i] = posts[i]
  BY <1>1, <1>2, <1>3, AppendKeepsDeletedPosts
<1>5. Len(posts) + 1 \notin PostIds
  BY <1>1 DEF PostIds
<1> QED
  BY <1>2, <1>3, <1>4, <1>5 DEF q, t, Appends

LEMMA SeqReplace ==
  ASSUME NEW S, NEW seq \in Seq(S), NEW i \in 1 .. Len(seq), NEW e
  PROVE  /\ Len([seq EXCEPT ![i] = e]) = Len(seq)
         /\ \A j \in 1 .. Len(seq) : j # i => [seq EXCEPT ![i] = e][j] = seq[j]
<1>1. seq \in Seq(S \cup {e})
  OBVIOUS
<1> QED
  BY <1>1, SeqExcept

\* Moderation replaces one post, and changes nothing of it but its text and its
\* deletion.
LEMMA ModerationReplaces ==
  ASSUME Inv, NEW s \in Senders, NEW p \in PostIds, NEW x \in BOOLEAN,
         PostSetDeleted(s, p, x) \/ PostSetText(s, p, x)
  PROVE  /\ PostIds' = PostIds
         /\ \A i \in PostIds : i # p => posts'[i] = posts[i]
         /\ UNCHANGED <<forum, boards>>
<1>1. posts \in Seq(Post)
  BY DEF Inv, TypeOK
<1>2. \E q : posts' = [posts EXCEPT ![p] = q]
  BY DEF PostSetDeleted, PostSetText
<1>3. PostIds' = PostIds /\ \A i \in PostIds : i # p => posts'[i] = posts[i]
  BY <1>1, <1>2, SeqReplace DEF PostIds
<1> QED
  BY <1>3 DEF PostSetDeleted, PostSetText

-----------------------------------------------------------------------------
\* Settings and moderation move nothing.

LEMMA SamePlaces ==
  ASSUME Inv, Placed, ThreadIds' = ThreadIds, PostIds' = PostIds,
         \A p \in PostIds : posts'[p].thread = posts[p].thread /\ posts'[p].number = posts[p].number,
         \A t \in ThreadIds : SamePosts(threads'[t], threads[t]) \/
            /\ threads'[t].board = threads[t].board /\ threads'[t].number = threads[t].number
            /\ threads'[t].op = threads[t].op /\ threads'[t].posts = threads[t].posts
            /\ threads'[t].last3 = threads[t].last3,
         \A b \in DOMAIN boards : /\ boards'[b].posts = boards[b].posts
                                  /\ boards'[b].threads = boards[b].threads
  PROVE  Placed'
<1>1. /\ \A t \in ThreadIds : threads[t].board \in DOMAIN boards
      /\ \A p \in PostIds : posts[p].thread \in ThreadIds
  BY DEF Inv, References
<1>2. \A t \in ThreadIds :
         /\ threads'[t].board = threads[t].board /\ threads'[t].number = threads[t].number
         /\ threads'[t].op = threads[t].op /\ threads'[t].posts = threads[t].posts
         /\ threads'[t].last3 = threads[t].last3
  BY DEF SamePosts
<1>3. ASSUME NEW t \in ThreadIds PROVE ThreadPlaced(t)' /\ Counts(t)'
  <2>1. ThreadPlaced(t) /\ Counts(t)
    BY DEF Placed
  <2>2. PostsOf(t)' = PostsOf(t)
    BY DEF PostsOf
  <2>3. Counts(t)'
    BY <1>2, <2>1, <2>2 DEF Counts
  <2>4. \A i \in 1 .. Len(threads[t].posts) :
           /\ threads[t].posts[i] \in PostIds
           /\ posts'[threads[t].posts[i]].thread = t
           /\ posts'[threads[t].posts[i]].number = posts[threads[t].posts[i]].number
    BY <2>1 DEF ThreadPlaced
  <2>5. Len(threads[t].posts) \in Nat
    <3>1. threads[t] \in Thread
      BY DEF Inv, TypeOK, ThreadIds
    <3> QED BY <3>1 DEF Thread
  <2>6. 1 \in 1 .. Len(threads[t].posts)
    BY <2>1, <2>5 DEF ThreadPlaced
  <2>7. ThreadPlaced(t)'
    <3> DEFINE feed == threads[t].posts
               b == threads[t].board
    <3>1. threads'[t].posts = feed /\ threads'[t].board = b /\ b \in DOMAIN boards
      BY <1>1, <1>2
    <3>2. /\ Len(feed) >= 1 /\ threads'[t].op = feed[1] /\ threads'[t].last3 = PreviewOf(feed)
      BY <1>2, <2>1 DEF ThreadPlaced
    <3>3. threads'[t].number = posts'[feed[1]].number
      BY <1>2, <2>1, <2>4, <2>6 DEF ThreadPlaced
    <3>4. <<threads'[t].number, t>> \in boards'[b].threads
      BY <1>1, <1>2, <2>1 DEF ThreadPlaced
    <3>5. \A i \in 1 .. Len(feed) : feed[i] \in PostIds' /\ posts'[feed[i]].thread = t
      BY <2>4
    <3>6. \A i, j \in 1 .. Len(feed) :
             i < j => posts'[feed[i]].number < posts'[feed[j]].number
      BY <2>1, <2>4 DEF ThreadPlaced
    <3> HIDE DEF feed, b
    <3> QED BY <3>1, <3>2, <3>3, <3>4, <3>5, <3>6 DEF ThreadPlaced, PreviewOf, SizeOf
  <2> QED BY <2>3, <2>7
<1>4. ASSUME NEW p \in PostIds PROVE PostPlaced(p)'
  <2>1. PostPlaced(p)
    BY DEF Placed
  <2> DEFINE t == posts[p].thread
             b == threads[t].board
             n == posts[p].number
  <2>2. t \in ThreadIds /\ b \in DOMAIN boards
    BY <1>1
  <2>3. posts'[p].thread = t /\ posts'[p].number = n /\ threads'[t].board = b
        /\ threads'[t].posts = threads[t].posts /\ boards'[b].posts = boards[b].posts
    BY <1>2, <2>2
  <2>4. n \in 1 .. Len(boards[b].posts) /\ boards[b].posts[n] = p
        /\ \E i \in 1 .. Len(threads[t].posts) : threads[t].posts[i] = p
    BY <2>1 DEF PostPlaced
  <2> HIDE DEF t, b, n
  <2> QED BY <2>3, <2>4 DEF PostPlaced
<1> QED
  BY <1>3, <1>4 DEF Placed

LEMMA SettingsKeepPlaces ==
  ASSUME ImageboardAssumption, Inv, Placed, NEW s \in Senders,
         \/ ForumSetting(s)
         \/ \E b \in DOMAIN boards : BoardSetting(s, b)
         \/ \E t \in ThreadIds : ThreadSetting(s, t)
  PROVE  Placed'
<1>1. UNCHANGED posts /\ PostIds' = PostIds
  BY SettingsKeepPosts DEF PostIds
<1>2. CASE ForumSetting(s)
  <2>1. UNCHANGED threads /\ ThreadIds' = ThreadIds
    BY <1>2, ForumSettingEffect DEF Inv, ThreadIds
  <2>2. \A b \in DOMAIN boards : boards'[b] = boards[b]
    <3>1. CASE UNCHANGED boards
      BY <3>1
    <3>2. ASSUME NEW c, NEW r, c \notin DOMAIN boards, boards' = Put(boards, c, r)
          PROVE  \A b \in DOMAIN boards : boards'[b] = boards[b]
      BY <3>2 DEF Put
    <3>3. \/ UNCHANGED boards
          \/ \E c, r : c \notin DOMAIN boards /\ boards' = Put(boards, c, r)
      BY <1>2 DEF ForumSetting, ForumAddModerator, ForumDelModerator, SetTimestampPrecision,
                  NewBoard
    <3> QED BY <3>1, <3>2, <3>3
  <2> QED BY <1>1, <2>1, <2>2, SamePlaces
<1>3. ASSUME NEW b \in DOMAIN boards, BoardSetting(s, b)
      PROVE  Placed'
  <2>1. UNCHANGED threads /\ ThreadIds' = ThreadIds
    BY <1>3, BoardSettingEffect DEF Inv, ThreadIds, ReplacesBoard
  <2>2. boards \in [DOMAIN boards -> Board]
    BY DEF Inv, TypeOK
  <2>3. ASSUME NEW r, boards' = [boards EXCEPT ![b] = r],
               r.posts = boards[b].posts, r.threads = boards[b].threads
        PROVE  \A c \in DOMAIN boards : /\ boards'[c].posts = boards[c].posts
                                       /\ boards'[c].threads = boards[c].threads
    BY <2>3
  <2>4. ASSUME NEW board \in Board
        PROVE  \A x : /\ [board EXCEPT !.mods = x].posts = board.posts
                     /\ [board EXCEPT !.mods = x].threads = board.threads
                     /\ [board EXCEPT !.maxMedia = x].posts = board.posts
                     /\ [board EXCEPT !.maxMedia = x].threads = board.threads
                     /\ [board EXCEPT !.bumpLimit = x].posts = board.posts
                     /\ [board EXCEPT !.bumpLimit = x].threads = board.threads
                     /\ [board EXCEPT !.closed = x].posts = board.posts
                     /\ [board EXCEPT !.closed = x].threads = board.threads
                     /\ [board EXCEPT !.deleted = x].posts = board.posts
                     /\ [board EXCEPT !.deleted = x].threads = board.threads
                     /\ [board EXCEPT !.pinned = x].posts = board.posts
                     /\ [board EXCEPT !.pinned = x].threads = board.threads
    BY DEF Board
  <2>5. \E x : \/ boards' = [boards EXCEPT ![b] = [boards[b] EXCEPT !.mods = x]]
               \/ boards' = [boards EXCEPT ![b] = [boards[b] EXCEPT !.maxMedia = x]]
               \/ boards' = [boards EXCEPT ![b] = [boards[b] EXCEPT !.bumpLimit = x]]
               \/ boards' = [boards EXCEPT ![b] = [boards[b] EXCEPT !.closed = x]]
               \/ boards' = [boards EXCEPT ![b] = [boards[b] EXCEPT !.deleted = x]]
               \/ boards' = [boards EXCEPT ![b] = [boards[b] EXCEPT !.pinned = x]]
    <3>1. CASE \E m \in Appointees : BoardAddModerator(s, b, m) \/ BoardDelModerator(s, b, m)
      BY <3>1 DEF BoardAddModerator, BoardDelModerator
    <3>2. CASE \E n \in MediaCounts : SetMaxMedia(s, b, n)
      BY <3>2 DEF SetMaxMedia
    <3>3. CASE \E k \in BumpLimits : SetBumpLimit(s, b, k)
      BY <3>3 DEF SetBumpLimit
    <3>4. CASE \E c \in BOOLEAN : BoardSetClosed(s, b, c)
      BY <3>4 DEF BoardSetClosed
    <3>5. CASE \E c \in BOOLEAN : BoardSetDeleted(s, b, c)
      BY <3>5 DEF BoardSetDeleted
    <3>6. CASE \E pinned \in SUBSET ThreadIds : SetPinned(s, b, pinned)
      BY <3>6 DEF SetPinned
    <3> QED BY <1>3, <3>1, <3>2, <3>3, <3>4, <3>5, <3>6 DEF BoardSetting
  <2>6. boards[b] \in Board
    BY <2>2
  <2>7. \A c \in DOMAIN boards : /\ boards'[c].posts = boards[c].posts
                                 /\ boards'[c].threads = boards[c].threads
    <3>1. PICK x : \/ boards' = [boards EXCEPT ![b] = [boards[b] EXCEPT !.mods = x]]
                   \/ boards' = [boards EXCEPT ![b] = [boards[b] EXCEPT !.maxMedia = x]]
                   \/ boards' = [boards EXCEPT ![b] = [boards[b] EXCEPT !.bumpLimit = x]]
                   \/ boards' = [boards EXCEPT ![b] = [boards[b] EXCEPT !.closed = x]]
                   \/ boards' = [boards EXCEPT ![b] = [boards[b] EXCEPT !.deleted = x]]
                   \/ boards' = [boards EXCEPT ![b] = [boards[b] EXCEPT !.pinned = x]]
      BY <2>5
    <3>2. \E r : boards' = [boards EXCEPT ![b] = r]
                /\ r.posts = boards[b].posts /\ r.threads = boards[b].threads
      <4> DEFINE Keeps(r) == r.posts = boards[b].posts /\ r.threads = boards[b].threads
      <4>1. /\ Keeps([boards[b] EXCEPT !.mods = x]) /\ Keeps([boards[b] EXCEPT !.maxMedia = x])
            /\ Keeps([boards[b] EXCEPT !.bumpLimit = x]) /\ Keeps([boards[b] EXCEPT !.closed = x])
            /\ Keeps([boards[b] EXCEPT !.deleted = x]) /\ Keeps([boards[b] EXCEPT !.pinned = x])
        BY <2>4, <2>6
      <4> HIDE DEF Keeps
      <4>2. \E r : boards' = [boards EXCEPT ![b] = r] /\ Keeps(r)
        BY <3>1, <4>1, Zenon
      <4> QED BY <4>2 DEF Keeps
    <3> QED BY <2>3, <3>2
  <2> QED BY <1>1, <2>1, <2>7, SamePlaces
<1>4. ASSUME NEW t \in ThreadIds, ThreadSetting(s, t)
      PROVE  Placed'
  <2>1. PICK r \in Thread : ReplacesThread(t, r)
    BY <1>4, ThreadSettingEffect DEF Inv
  <2>2. /\ ThreadIds' = ThreadIds /\ UNCHANGED boards
        /\ \A u \in ThreadIds : threads'[u] = IF u = t THEN r ELSE threads[u]
    BY <2>1, SeqExcept DEF ReplacesThread, Inv, TypeOK, ThreadIds
  <2>3. \A u \in ThreadIds : SamePosts(threads'[u], threads[u])
    BY <2>1, <2>2 DEF ReplacesThread, SamePosts
  <2> QED BY <1>1, <2>2, <2>3, SamePlaces
<1> QED
  BY <1>2, <1>3, <1>4

LEMMA ModerationKeepsPlaces ==
  ASSUME ImageboardAssumption, Inv, Placed, NEW s \in Senders, NEW p \in PostIds,
         NEW x \in BOOLEAN, PostSetDeleted(s, p, x) \/ PostSetText(s, p, x)
  PROVE  Placed'
<1>1. posts[p] \in Post /\ posts \in Seq(Post) /\ p \in 1 .. Len(posts)
  BY DEF Inv, TypeOK, PostIds
<1>2. /\ PostIds' = PostIds /\ UNCHANGED boards
      /\ \A i \in PostIds : i # p => posts'[i] = posts[i]
  BY ModerationReplaces
<1>3. posts'[p].thread = posts[p].thread /\ posts'[p].number = posts[p].number
  <2>1. CASE PostSetDeleted(s, p, x)
    BY <1>1, <2>1 DEF PostSetDeleted, Post
  <2>2. CASE PostSetText(s, p, x)
    <3> DEFINE d == posts[p].deleted \/ Emptied(posts[p], x)
    <3>1. posts' = [posts EXCEPT ![p] = [posts[p] EXCEPT !.text = x, !.deleted = d]]
      BY <2>2 DEF PostSetText
    <3> HIDE DEF d
    <3> QED BY <1>1, <3>1 DEF Post
  <2> QED BY <2>1, <2>2
<1>4. posts[p].thread \in ThreadIds /\ threads \in Seq(Thread)
  BY DEF Inv, References, TypeOK
<1>5. \/ UNCHANGED threads
      \/ \E d \in BOOLEAN : threads' = [threads EXCEPT ![posts[p].thread] =
                                         Counted(threads[posts[p].thread], d)]
  BY DEF PostSetDeleted, PostSetText
<1>6. /\ ThreadIds' = ThreadIds
      /\ \A t \in ThreadIds : /\ threads'[t].board = threads[t].board
                              /\ threads'[t].number = threads[t].number
                              /\ threads'[t].op = threads[t].op
                              /\ threads'[t].posts = threads[t].posts
                              /\ threads'[t].last3 = threads[t].last3
  <2>1. CASE UNCHANGED threads
    BY <2>1 DEF ThreadIds
  <2>2. ASSUME NEW d \in BOOLEAN, NEW u, u = posts[p].thread,
               threads' = [threads EXCEPT ![u] = Counted(threads[u], d)]
        PROVE  /\ ThreadIds' = ThreadIds
               /\ \A t \in ThreadIds : t # u => threads'[t] = threads[t]
               /\ threads'[u] = Counted(threads[u], d)
    BY <1>4, <2>2, SeqReplace DEF ThreadIds
  <2>3. ASSUME NEW d \in BOOLEAN, NEW thread \in Thread
        PROVE  /\ Counted(thread, d).board = thread.board
               /\ Counted(thread, d).number = thread.number
               /\ Counted(thread, d).op = thread.op
               /\ Counted(thread, d).posts = thread.posts
               /\ Counted(thread, d).last3 = thread.last3
    BY DEF Counted, Thread
  <2>4. \A t \in ThreadIds : threads[t] \in Thread
    BY <1>4 DEF ThreadIds
  <2> QED BY <1>4, <1>5, <2>1, <2>2, <2>3, <2>4
<1> QED
  BY <1>2, <1>3, <1>6, SamePlaces

-----------------------------------------------------------------------------
\* A post that is added takes the next number of its board and comes last in
\* its thread, which is on that board or new.

Gains(t, b, p) ==
  /\ PostIds' = PostIds \cup {p} /\ p \notin PostIds /\ p \in Nat
  /\ \A i \in PostIds : posts'[i] = posts[i]
  /\ posts'[p].thread = t /\ posts'[p].number = Len(boards[b].posts) + 1
  /\ ThreadIds' = ThreadIds \cup {t} /\ t \in Nat
  /\ \A u \in ThreadIds : u # t => threads'[u] = threads[u]
  /\ threads'[t].board = b
  /\ \A c \in DOMAIN boards : c # b => boards'[c] = boards[c]
  /\ boards'[b].posts = Append(boards[b].posts, p)
  /\ boards[b].threads \subseteq boards'[b].threads

\* What was in its place stays there.
LEMMA GainsKeepPlaces ==
  ASSUME Inv, Placed, NEW t, NEW b \in DOMAIN boards, NEW p, Gains(t, b, p),
         t \in ThreadIds => /\ threads[t].board = b
                            /\ threads'[t].posts = Append(threads[t].posts, p)
  PROVE  /\ \A u \in ThreadIds : u # t => ThreadPlaced(u)' /\ Counts(u)'
         /\ \A q \in PostIds : PostPlaced(q)'
         /\ PostsOf(t)' = PostsOf(t) \cup {p}
<1>1. /\ \A u \in ThreadIds : threads[u].board \in DOMAIN boards
      /\ \A q \in PostIds : posts[q].thread \in ThreadIds
  BY DEF Inv, References
<1>2. \A u \in ThreadIds : u # t => PostsOf(u)' = PostsOf(u)
  BY DEF PostsOf, Gains
<1>3. PostsOf(t)' = PostsOf(t) \cup {p}
  BY DEF PostsOf, Gains
<1>4. \A c \in DOMAIN boards : boards[c].threads \subseteq boards'[c].threads
  BY DEF Gains
<1>5. ASSUME NEW c \in DOMAIN boards
      PROVE  \A n \in 1 .. Len(boards[c].posts) :
               n \in 1 .. Len(boards'[c].posts) /\ boards'[c].posts[n] = boards[c].posts[n]
  <2>1. boards[c] \in Board /\ p \in Nat
    BY DEF Inv, TypeOK, Gains
  <2>2. boards[c].posts \in Seq(Nat)
    BY <2>1 DEF Board
  <2>3. CASE c = b
    <3>1. boards'[c].posts = Append(boards[c].posts, p)
      BY <2>3 DEF Gains
    <3> QED BY <2>1, <2>2, <3>1
  <2>4. CASE c # b
    BY <2>4 DEF Gains
  <2> QED BY <2>3, <2>4
<1>6. ASSUME NEW u \in ThreadIds
      PROVE  /\ \A i \in 1 .. Len(threads[u].posts) :
                  i \in 1 .. Len(threads'[u].posts) /\ threads'[u].posts[i] = threads[u].posts[i]
             /\ threads'[u].board = threads[u].board
  <2>1. threads[u] \in Thread /\ p \in Nat
    BY DEF Inv, TypeOK, ThreadIds, Gains
  <2>2. threads[u].posts \in Seq(Nat)
    BY <2>1 DEF Thread
  <2>3. CASE u = t
    <3>1. threads'[u].posts = Append(threads[u].posts, p) /\ threads'[u].board = threads[u].board
      BY <2>3 DEF Gains
    <3> QED BY <2>1, <2>2, <3>1
  <2>4. CASE u # t
    BY <2>4 DEF Gains
  <2> QED BY <2>3, <2>4
<1>7. ASSUME NEW u \in ThreadIds, u # t PROVE ThreadPlaced(u)' /\ Counts(u)'
  <2> DEFINE feed == threads[u].posts
             c == threads[u].board
  <2>1. ThreadPlaced(u) /\ Counts(u)
    BY DEF Placed
  <2>2. threads'[u] = threads[u] /\ PostsOf(u)' = PostsOf(u) /\ c \in DOMAIN boards
    BY <1>1, <1>2, <1>7 DEF Gains
  <2>3. Counts(u)'
    BY <2>1, <2>2 DEF Counts
  <2>4. Len(feed) \in Nat
    <3>1. threads[u] \in Thread
      BY DEF Inv, TypeOK, ThreadIds
    <3> QED BY <3>1 DEF Thread
  <2>5. /\ Len(feed) >= 1 /\ threads[u].op = feed[1] /\ threads[u].last3 = PreviewOf(feed)
        /\ threads[u].number = posts[feed[1]].number
        /\ <<threads[u].number, u>> \in boards[c].threads
        /\ \A i \in 1 .. Len(feed) : feed[i] \in PostIds /\ posts[feed[i]].thread = u
        /\ \A i, j \in 1 .. Len(feed) : i < j => posts[feed[i]].number < posts[feed[j]].number
    BY <2>1 DEF ThreadPlaced
  <2>6. \A i \in 1 .. Len(feed) : posts'[feed[i]] = posts[feed[i]] /\ feed[i] \in PostIds'
    BY <2>5 DEF Gains
  <2>7. <<threads[u].number, u>> \in boards'[c].threads
    BY <1>4, <2>2, <2>5
  <2>8. 1 \in 1 .. Len(feed)
    BY <2>4, <2>5
  <2>9. /\ threads[u].number = posts'[feed[1]].number
        /\ \A i \in 1 .. Len(feed) : feed[i] \in PostIds' /\ posts'[feed[i]].thread = u
        /\ \A i, j \in 1 .. Len(feed) : i < j => posts'[feed[i]].number < posts'[feed[j]].number
    BY <2>5, <2>6, <2>8
  <2>10. threads'[u].posts = feed /\ threads'[u].board = c
    BY <2>2
  <2> HIDE DEF feed, c
  <2>11. ThreadPlaced(u)'
    BY <2>2, <2>5, <2>7, <2>9, <2>10 DEF ThreadPlaced, PreviewOf, SizeOf
  <2> QED BY <2>3, <2>11
<1>8. ASSUME NEW q \in PostIds PROVE PostPlaced(q)'
  <2> DEFINE u == posts[q].thread
             c == threads[u].board
             n == posts[q].number
  <2>1. u \in ThreadIds /\ c \in DOMAIN boards /\ posts'[q] = posts[q]
    BY <1>1 DEF Gains
  <2>2. n \in 1 .. Len(boards[c].posts) /\ boards[c].posts[n] = q
        /\ \E i \in 1 .. Len(threads[u].posts) : threads[u].posts[i] = q
    BY DEF Placed, PostPlaced
  <2>3. posts'[q].thread = u /\ posts'[q].number = n
    BY <2>1
  <2> HIDE DEF u, c, n
  <2>4. n \in 1 .. Len(boards'[c].posts) /\ boards'[c].posts[n] = q
    BY <1>5, <2>1, <2>2
  <2>5. \E i \in 1 .. Len(threads'[u].posts) : threads'[u].posts[i] = q
    BY <1>6, <2>1, <2>2
  <2>6. threads'[u].board = c
    BY <1>6, <2>1 DEF c
  <2> QED BY <2>3, <2>4, <2>5, <2>6 DEF PostPlaced
<1> QED
  BY <1>3, <1>7, <1>8

\* The new post itself.
LEMMA GainedIsPlaced ==
  ASSUME Inv, NEW t, NEW b \in DOMAIN boards, NEW p, Gains(t, b, p),
         \E i \in 1 .. Len(threads'[t].posts) : threads'[t].posts[i] = p
  PROVE  PostPlaced(p)'
<1> DEFINE n == Len(boards[b].posts) + 1
<1>1. boards[b] \in Board /\ p \in Nat
  BY DEF Inv, TypeOK, Gains
<1>2. boards[b].posts \in Seq(Nat)
  BY <1>1 DEF Board
<1>3. boards'[b].posts = Append(boards[b].posts, p)
  BY DEF Gains
<1>4. n \in 1 .. Len(boards'[b].posts) /\ boards'[b].posts[n] = p
  BY <1>1, <1>2, <1>3
<1>5. posts'[p].thread = t /\ posts'[p].number = n /\ threads'[t].board = b
  BY DEF Gains
<1> HIDE DEF n
<1> QED
  BY <1>4, <1>5 DEF PostPlaced

LEMMA CountsOneMore ==
  ASSUME ImageboardAssumption, Inv, NEW t, NEW b, NEW p, Gains(t, b, p),
         PostsOf(t)' = PostsOf(t) \cup {p}
  PROVE  Cardinality(PostsOf(t)') = Cardinality(PostsOf(t)) + 1
<1>1. Len(posts) \in Nat
  BY DEF Inv, TypeOK
<1>2. IsFiniteSet(PostIds)
  BY <1>1, FS_Interval DEF PostIds
<1>3. IsFiniteSet(PostsOf(t)) /\ p \notin PostsOf(t)
  BY <1>2, FS_Subset DEF PostsOf, Gains
<1> QED
  BY <1>3, FS_AddElement

LEMMA PostToKeepsPlaces ==
  ASSUME ImageboardAssumption, Inv, Placed, NEW s \in Senders, NEW t \in ThreadIds,
         NEW ts \in Nat, NEW text \in BOOLEAN, NEW media \in MediaCounts,
         PostTo(s, t, ts, text, media)
  PROVE  Placed'
<1>b. PICK b \in DOMAIN boards : b = threads[t].board
  BY DEF Inv, References
<1>p. PICK p \in Nat : p = Len(posts) + 1
  BY DEF Inv, TypeOK
<1> DEFINE feed == threads[t].posts
           more == Append(feed, p)
<1>1. threads \in Seq(Thread) /\ threads[t] \in Thread /\ b \in DOMAIN boards
      /\ p \in Nat /\ t \in Nat /\ boards[b] \in Board
  BY DEF Inv, TypeOK, ThreadIds
<1>2. feed \in Seq(Nat) /\ threads[t].last3 \in Seq(Nat)
  BY <1>1 DEF Thread
<1>3. ThreadPlaced(t) /\ Counts(t)
  BY DEF Placed
<1>4. Len(feed) \in Nat /\ Len(feed) >= 1 /\ feed # <<>>
  BY <1>2, <1>3 DEF ThreadPlaced
<1>5. /\ more \in Seq(Nat) /\ Len(more) = Len(feed) + 1
      /\ \A i \in 1 .. Len(feed) + 1 : more[i] = IF i = Len(feed) + 1 THEN p ELSE feed[i]
  BY <1>1, <1>2, SeqAppend
<1>6. threads' = [threads EXCEPT ![t] = WithPost(threads[t], p)]
  BY <1>p DEF PostTo
<1>7. /\ ThreadIds' = ThreadIds /\ threads'[t] = WithPost(threads[t], p)
      /\ \A u \in ThreadIds : u # t => threads'[u] = threads[u]
  BY <1>1, <1>6, SeqReplace DEF ThreadIds
<1>8. WithPost(threads[t], p) =
        [threads[t] EXCEPT !.posts = more, !.last3 = Newest(threads[t].last3, p)]
  BY <1>4 DEF WithPost
<1>9. /\ threads'[t].posts = more /\ threads'[t].board = b
      /\ threads'[t].last3 = Newest(threads[t].last3, p)
      /\ threads'[t].op = threads[t].op /\ threads'[t].number = threads[t].number
  <2> HIDE DEF more
  <2> QED BY <1>b, <1>1, <1>7, <1>8 DEF Thread
<1>10. boards' = [boards EXCEPT ![b] = Listed(boards[b], threads[t], t, p)]
  BY <1>b, <1>p DEF PostTo
<1>11. Listed(boards[b], threads[t], t, p).posts = Append(boards[b].posts, p)
       /\ Listed(boards[b], threads[t], t, p).threads = boards[b].threads
  BY <1>1 DEF Listed, Board
<1>12. /\ \A c \in DOMAIN boards : c # b => boards'[c] = boards[c]
       /\ boards'[b].posts = Append(boards[b].posts, p)
       /\ boards'[b].threads = boards[b].threads
  BY <1>1, <1>10, <1>11
<1>13. /\ PostIds' = PostIds \cup {p} /\ p \notin PostIds
       /\ \A i \in PostIds : posts'[i] = posts[i]
       /\ posts'[p] = FreshPost(s, b, t, ts, text, media)
  <2>1. Appends(FreshPost(s, b, t, ts, text, media), s, t)
    BY <1>b, PostToAppends
  <2> QED BY <1>p, <2>1 DEF Appends
<1>14. /\ posts'[p].thread = t /\ posts'[p].number = Len(boards[b].posts) + 1
       /\ p \in PostIds' /\ \A i \in PostIds : posts'[i] = posts[i]
  BY <1>13 DEF FreshPost
<1>15. ThreadIds' = ThreadIds \cup {t}
  BY <1>7
<1>16. Gains(t, b, p)
  <2> QED BY <1>1, <1>7, <1>9, <1>12, <1>13, <1>14, <1>15 DEF Gains
<1>17. /\ \A u \in ThreadIds : u # t => ThreadPlaced(u)' /\ Counts(u)'
       /\ \A q \in PostIds : PostPlaced(q)'
       /\ PostsOf(t)' = PostsOf(t) \cup {p}
  <2> QED BY <1>1, <1>9, <1>16, <1>b, GainsKeepPlaces DEF more
<1>18. PostPlaced(p)'
  <2>1. more[Len(more)] = p /\ Len(more) \in 1 .. Len(more)
    BY <1>4, <1>5
  <2> HIDE DEF more
  <2>2. \E i \in 1 .. Len(threads'[t].posts) : threads'[t].posts[i] = p
    BY <1>9, <2>1
  <2> QED BY <1>1, <1>16, <2>2, GainedIsPlaced
<1>19. Counts(t)'
  <2>1. Cardinality(PostsOf(t)') = Cardinality(PostsOf(t)) + 1
    <3> QED BY <1>16, <1>17, CountsOneMore
  <2>2. Len(feed) = Cardinality(PostsOf(t))
    BY <1>3 DEF Counts
  <2> HIDE DEF more, feed
  <2>3. Len(threads'[t].posts) = Cardinality(PostsOf(t)')
    BY <1>5, <1>9, <2>1, <2>2
  <2> QED BY <2>3 DEF Counts
<1>20. ThreadPlaced(t)'
  <2>1. /\ threads[t].op = feed[1] /\ threads[t].last3 = PreviewOf(feed)
        /\ threads[t].number = posts[feed[1]].number
        /\ <<threads[t].number, t>> \in boards[b].threads
        /\ \A i \in 1 .. Len(feed) : feed[i] \in PostIds /\ posts[feed[i]].thread = t
        /\ \A i, j \in 1 .. Len(feed) : i < j => posts[feed[i]].number < posts[feed[j]].number
    BY <1>b, <1>3 DEF ThreadPlaced
  <2>2. \A i \in 1 .. Len(feed) : /\ more[i] = feed[i] /\ posts'[feed[i]] = posts[feed[i]]
                                  /\ feed[i] \in PostIds /\ posts[feed[i]].thread = t
    <3> HIDE DEF more, feed
    <3>1. \A i \in 1 .. Len(feed) : more[i] = feed[i]
      BY <1>4, <1>5
    <3>2. \A i \in 1 .. Len(feed) :
            posts'[feed[i]] = posts[feed[i]] /\ feed[i] \in PostIds /\ posts[feed[i]].thread = t
      BY <1>13, <2>1
    <3> QED BY <3>1, <3>2
  <2>3. 1 \in 1 .. Len(feed) /\ more[Len(feed) + 1] = p
    <3> HIDE DEF more, feed
    <3> QED BY <1>4, <1>5
  <2>4. \A i \in 1 .. Len(feed) : posts[feed[i]].number \in 1 .. Len(boards[b].posts)
    <3> SUFFICES ASSUME NEW i \in 1 .. Len(feed)
                 PROVE  posts[feed[i]].number \in 1 .. Len(boards[b].posts)
      OBVIOUS
    <3>1. PostPlaced(feed[i]) /\ posts[feed[i]].thread = t
      BY <2>1 DEF Placed
    <3> QED BY <1>b, <3>1 DEF PostPlaced
  <2>5. Len(boards[b].posts) \in Nat
    BY <1>1 DEF Board
  <2>6. threads'[t].op = more[1] /\ threads'[t].number = posts'[more[1]].number
    <3> HIDE DEF more, feed
    <3> QED BY <1>9, <2>1, <2>2, <2>3
  <2>7. threads'[t].last3 = PreviewOf(more)
    <3> QED BY <1>1, <1>2, <1>4, <1>9, <2>1, NewestIsPreview DEF more
  <2>8. <<threads'[t].number, t>> \in boards'[b].threads
    BY <1>9, <1>12, <2>1
  <2>9. \A i \in 1 .. Len(more) : more[i] \in PostIds' /\ posts'[more[i]].thread = t
    <3> SUFFICES ASSUME NEW i \in 1 .. Len(more)
                 PROVE  more[i] \in PostIds' /\ posts'[more[i]].thread = t
      OBVIOUS
    <3> HIDE DEF more, feed
    <3>1. CASE i = Len(feed) + 1
      BY <1>14, <2>3, <3>1
    <3>2. CASE i # Len(feed) + 1
      <4>1. i \in 1 .. Len(feed)
        BY <1>4, <1>5, <3>2
      <4> QED BY <1>13, <2>2, <4>1
    <3> QED BY <3>1, <3>2
  <2>10. \A i, j \in 1 .. Len(more) :
            i < j => posts'[more[i]].number < posts'[more[j]].number
    <3> SUFFICES ASSUME NEW i \in 1 .. Len(more), NEW j \in 1 .. Len(more), i < j
                 PROVE  posts'[more[i]].number < posts'[more[j]].number
      OBVIOUS
    <3> HIDE DEF more, feed
    <3>1. i \in 1 .. Len(feed)
      BY <1>4, <1>5
    <3>2. CASE j = Len(feed) + 1
      <4>1. posts'[more[j]].number = Len(boards[b].posts) + 1
        BY <1>14, <2>3, <3>2
      <4>2. posts'[more[i]].number = posts[feed[i]].number
        BY <2>2, <3>1
      <4>3. posts[feed[i]].number \in 1 .. Len(boards[b].posts)
        BY <2>4, <3>1
      <4> QED BY <2>5, <4>1, <4>2, <4>3
    <3>3. CASE j # Len(feed) + 1
      <4>1. j \in 1 .. Len(feed)
        BY <1>4, <1>5, <3>3
      <4> QED BY <2>1, <2>2, <3>1, <4>1
    <3> QED BY <3>2, <3>3
  <2>11. Len(more) >= 1
    <3> HIDE DEF more, feed
    <3> QED BY <1>4, <1>5
  <2> HIDE DEF more, feed
  <2> QED BY <1>9, <2>6, <2>7, <2>8, <2>9, <2>10, <2>11 DEF ThreadPlaced, PreviewOf, SizeOf
<1>21. PostIds' = PostIds \cup {p}
  BY <1>13
<1> HIDE DEF feed, more
<1>22. \A u \in ThreadIds' : ThreadPlaced(u)' /\ Counts(u)'
  BY <1>7, <1>17, <1>19, <1>20
<1>23. \A q \in PostIds' : PostPlaced(q)'
  BY <1>17, <1>18, <1>21
<1> QED
  BY <1>22, <1>23 DEF Placed

LEMMA OpenThreadKeepsPlaces ==
  ASSUME ImageboardAssumption, Inv, Placed, NEW s \in Senders, NEW b \in DOMAIN boards,
         NEW admin \in Users \cup {NoAdmin}, NEW ts \in Nat, NEW text \in BOOLEAN,
         NEW media \in MediaCounts, OpenThread(s, b, admin, ts, text, media)
  PROVE  Placed'
<1>t. PICK t \in Nat : t = Len(threads) + 1
  BY DEF Inv, TypeOK
<1>p. PICK p \in Nat : p = Len(posts) + 1
  BY DEF Inv, TypeOK
<1>n. PICK n \in Nat : n = Len(boards[b].posts) + 1
  BY DEF Inv, TypeOK, Board
<1> DEFINE thread == FreshThread(b, admin)
           new == WithPost(thread, p)
           board == Listed(WithThread(boards[b], n, t), thread, t, p)
<1>1. threads \in Seq(Thread) /\ boards[b] \in Board /\ boards \in [DOMAIN boards -> Board]
  BY DEF Inv, TypeOK
<1>2. /\ new.posts = <<p>> /\ new.op = p /\ new.last3 = <<>> /\ new.board = b
      /\ new.number = n
  BY <1>n DEF FreshThread, WithPost
<1>3. board.posts = Append(boards[b].posts, p) /\ board.threads = boards[b].threads \cup {<<n, t>>}
  BY <1>1 DEF Listed, WithThread, Board
<1>4. threads' = Append(threads, new) /\ boards' = [boards EXCEPT ![b] = board]
  <2>1. thread.number = n
    BY <1>n DEF FreshThread
  <2> QED BY <1>t, <1>p, <2>1 DEF OpenThread
<1> HIDE DEF new, board
<1>5. /\ ThreadIds' = ThreadIds \cup {t} /\ t \notin ThreadIds /\ threads'[t] = new
      /\ \A u \in ThreadIds : threads'[u] = threads[u]
  <2>1. /\ Len(threads') = Len(threads) + 1
        /\ \A u \in 1 .. Len(threads) + 1 :
             threads'[u] = IF u = Len(threads) + 1 THEN new ELSE threads[u]
    <3>1. threads \in Seq(Thread \cup {new}) /\ new \in Thread \cup {new}
      BY <1>1
    <3> QED BY <1>4, <3>1, SeqAppend
  <2>2. Len(threads) \in Nat
    BY <1>1
  <2> QED BY <1>t, <2>1, <2>2 DEF ThreadIds
<1>6. /\ boards'[b] = board
      /\ \A c \in DOMAIN boards : c # b => boards'[c] = boards[c]
  BY <1>1, <1>4
<1>7. /\ PostIds' = PostIds \cup {p} /\ p \notin PostIds
      /\ \A i \in PostIds : posts'[i] = posts[i]
      /\ posts'[p] = FreshPost(s, b, t, ts, text, media)
  <2>1. Appends(FreshPost(s, b, t, ts, text, media), s, t)
    BY <1>t, OpenThreadAppends
  <2> QED BY <1>p, <2>1 DEF Appends
<1>8. posts'[p].thread = t /\ posts'[p].number = n
  BY <1>7, <1>n DEF FreshPost
<1>9. Gains(t, b, p)
  BY <1>n, <1>2, <1>3, <1>5, <1>6, <1>7, <1>8 DEF Gains
<1>10. /\ \A u \in ThreadIds : u # t => ThreadPlaced(u)' /\ Counts(u)'
       /\ \A i \in PostIds : PostPlaced(i)'
       /\ PostsOf(t)' = PostsOf(t) \cup {p}
  BY <1>5, <1>9, GainsKeepPlaces
<1>11. threads'[t].posts = <<p>> /\ Len(<<p>>) = 1 /\ <<p>>[1] = p
  BY <1>2, <1>5
<1>12. PostPlaced(p)'
  <2>1. \E i \in 1 .. Len(threads'[t].posts) : threads'[t].posts[i] = p
    BY <1>11
  <2> QED BY <1>9, <2>1, GainedIsPlaced
<1>13. Counts(t)'
  <2>1. PostsOf(t) = {}
    BY <1>5 DEF PostsOf, Inv, References
  <2>2. Cardinality(PostsOf(t)') = 1
    BY <1>10, <2>1, FS_Singleton
  <2> QED BY <1>11, <2>2 DEF Counts
<1>14. PreviewOf(<<p>>) = <<>>
  <2>1. SizeOf(<<p>>) = 0
    BY <1>11 DEF SizeOf, ImageboardAssumption
  <2>2. PreviewOf(<<p>>) = SubSeq(<<p>>, 2, 1)
    BY <1>11, <2>1 DEF PreviewOf
  <2>3. SubSeq(<<p>>, 2, 1) = <<>>
    OBVIOUS
  <2> QED BY <2>2, <2>3
<1>15. ThreadPlaced(t)'
  <2> DEFINE feed == <<p>>
  <2>1. threads'[t].op = feed[1] /\ Len(feed) = 1 /\ feed[1] = p
        /\ threads'[t].posts = feed /\ threads'[t].board = b
    BY <1>2, <1>5, <1>11
  <2>2. threads'[t].last3 = PreviewOf(feed)
    BY <1>2, <1>5, <1>14
  <2>3. threads'[t].number = posts'[feed[1]].number
    BY <1>2, <1>5, <1>8, <2>1
  <2>4. <<threads'[t].number, t>> \in boards'[b].threads
    BY <1>2, <1>3, <1>5, <1>6
  <2> HIDE DEF feed
  <2>5. \A i \in 1 .. Len(feed) : feed[i] \in PostIds' /\ posts'[feed[i]].thread = t
    BY <1>7, <1>8, <2>1
  <2>6. \A i, j \in 1 .. Len(feed) : i < j => posts'[feed[i]].number < posts'[feed[j]].number
    BY <2>1
  <2>7. Len(feed) >= 1
    BY <2>1
  <2> QED BY <2>1, <2>2, <2>3, <2>4, <2>5, <2>6, <2>7 DEF ThreadPlaced, PreviewOf, SizeOf
<1>16. \A u \in ThreadIds' : ThreadPlaced(u)' /\ Counts(u)'
  BY <1>5, <1>10, <1>13, <1>15
<1>17. \A i \in PostIds' : PostPlaced(i)'
  BY <1>7, <1>10, <1>12
<1> QED
  BY <1>16, <1>17 DEF Placed

-----------------------------------------------------------------------------
LEMMA NextPlaced ==
  ASSUME ImageboardAssumption, Inv, Placed, [Next]_vars
  PROVE  Placed'
<1>1. CASE UNCHANGED vars
  BY <1>1 DEF vars, Placed, ThreadPlaced, Counts, PostPlaced, PostsOf, ThreadIds, PostIds,
              PreviewOf, SizeOf
<1>2. CASE Tick
  BY <1>2 DEF Tick, Placed, ThreadPlaced, Counts, PostPlaced, PostsOf, ThreadIds, PostIds,
              PreviewOf, SizeOf
<1>3. ASSUME NEW s \in Senders, Step(s)
      PROVE  Placed'
  <2>1. CASE \/ ForumSetting(s)
             \/ \E b \in DOMAIN boards : BoardSetting(s, b)
             \/ \E t \in ThreadIds : ThreadSetting(s, t)
    BY <2>1, SettingsKeepPlaces
  <2>2. ASSUME NEW text \in BOOLEAN, NEW media \in MediaCounts, Posting(s, text, media)
        PROVE  Placed'
    <3>1. PICK ts \in Nat :
             \/ \E t \in ThreadIds : PostTo(s, t, ts, text, media)
             \/ \E b \in DOMAIN boards, admin \in Users \cup {NoAdmin} :
                  OpenThread(s, b, admin, ts, text, media)
      BY <2>2, PostingForms DEF Inv
    <3> QED BY <3>1, PostToKeepsPlaces, OpenThreadKeepsPlaces
  <2>3. ASSUME NEW p \in PostIds, NEW x \in BOOLEAN,
               PostSetDeleted(s, p, x) \/ PostSetText(s, p, x)
        PROVE  Placed'
    BY <2>3, ModerationKeepsPlaces
  <2> QED BY <1>3, <2>1, <2>2, <2>3 DEF Step
<1> QED
  BY <1>1, <1>2, <1>3 DEF Next

-----------------------------------------------------------------------------
\* A post is in one thread, and there once.

LEMMA InOneThread ==
  ASSUME Inv, Placed, NEW p \in PostIds, NEW t \in ThreadIds
  PROVE  Cardinality({i \in DOMAIN threads[t].posts : threads[t].posts[i] = p})
           = IF posts[p].thread = t THEN 1 ELSE 0
<1> DEFINE feed == threads[t].posts
           at == {i \in DOMAIN feed : feed[i] = p}
<1>1. threads[t] \in Thread
  BY DEF Inv, TypeOK, ThreadIds
<1>2. feed \in Seq(Nat) /\ DOMAIN feed = 1 .. Len(feed) /\ Len(feed) \in Nat
  BY <1>1 DEF Thread
<1>3. /\ \A i \in 1 .. Len(feed) : feed[i] \in PostIds /\ posts[feed[i]].thread = t
      /\ \A i, j \in 1 .. Len(feed) : i < j => posts[feed[i]].number < posts[feed[j]].number
  BY DEF Placed, ThreadPlaced
<1>4. posts[p] \in Post
  BY DEF Inv, TypeOK, PostIds
<1>5. posts[p].number \in Nat
  BY <1>4 DEF Post
<1> HIDE DEF feed
<1>6. CASE posts[p].thread # t
  <2>1. at = {}
    BY <1>2, <1>3, <1>6
  <2> HIDE DEF at
  <2> QED BY <1>6, <2>1, FS_EmptySet DEF feed, at
<1>7. CASE posts[p].thread = t
  <2>1. PICK k \in 1 .. Len(feed) : feed[k] = p
    BY <1>7 DEF Placed, PostPlaced, feed
  <2>2. ASSUME NEW i \in 1 .. Len(feed), feed[i] = p
        PROVE  i = k
    <3>1. ~(i < k) /\ ~(k < i)
      BY <1>3, <1>5, <2>1, <2>2
    <3> QED BY <1>2, <3>1
  <2>3. at = {k}
    BY <1>2, <2>1, <2>2
  <2> HIDE DEF at
  <2> QED BY <1>7, <2>3, FS_Singleton DEF feed, at
<1> QED
  BY <1>6, <1>7

LEMMA PlacedAreInPlace ==
  ASSUME Inv, Placed
  PROVE  PostsInPlace
<1>1. ASSUME NEW t \in ThreadIds
      PROVE  LET feed == threads[t].posts
                 rest == Len(feed) - 1
                 size == IF rest < Preview THEN rest ELSE Preview
             IN  /\ rest >= 0
                 /\ threads[t].op = feed[1]
                 /\ threads[t].last3 = SubSeq(feed, Len(feed) - size + 1, Len(feed))
  <2> DEFINE feed == threads[t].posts
  <2>1. Len(feed) >= 1 /\ threads[t].op = feed[1] /\ threads[t].last3 = PreviewOf(feed)
    BY DEF Placed, ThreadPlaced
  <2>2. Len(feed) \in Nat
    <3>1. threads[t] \in Thread
      BY DEF Inv, TypeOK, ThreadIds
    <3> QED BY <3>1 DEF Thread
  <2> HIDE DEF feed
  <2>3. Len(feed) - 1 >= 0
    BY <2>1, <2>2
  <2> QED BY <2>1, <2>3 DEF feed, PreviewOf, SizeOf
<1>2. ASSUME NEW p \in PostIds
      PROVE  boards[threads[posts[p].thread].board].posts[posts[p].number] = p
  BY DEF Placed, PostPlaced
<1>3. ASSUME NEW t \in ThreadIds
      PROVE  /\ <<posts[threads[t].op].number, t>> \in boards[threads[t].board].threads
             /\ threads[t].number = posts[threads[t].op].number
             /\ \A i, j \in DOMAIN threads[t].posts :
                  i < j => posts[threads[t].posts[i]].number < posts[threads[t].posts[j]].number
  <2>1. ThreadPlaced(t)
    BY DEF Placed
  <2>2. DOMAIN threads[t].posts = 1 .. Len(threads[t].posts)
    <3>1. threads[t] \in Thread
      BY DEF Inv, TypeOK, ThreadIds
    <3> QED BY <3>1 DEF Thread
  <2> QED BY <2>1, <2>2 DEF ThreadPlaced
<1>4. ThreadShape
  BY <1>1 DEF ThreadShape
<1>5. NumbersExact
  BY <1>2, <1>3, InOneThread DEF NumbersExact
<1> QED
  BY <1>4, <1>5 DEF PostsInPlace

\* Every post is and stays in its place, whatever is posted and moderated.
THEOREM PostsStayInPlace == Spec => []PostsInPlace
<1>1. Init => Inv /\ Placed
  BY InitInv, InitPlaced
<1>2. Inv /\ Placed /\ [Next]_vars => Inv' /\ Placed'
  BY ImageboardAssumption, NextInv, NextPlaced
<1>3. Inv /\ Placed => PostsInPlace
  BY PlacedAreInPlace
<1> QED
  BY <1>1, <1>2, <1>3, PTL DEF Spec

-----------------------------------------------------------------------------
\* Posts that lose the last of their content.

LEMMA EmptiedStep ==
  ASSUME ImageboardAssumption, Inv, [Next]_vars
  PROVE  EmptiedAreDeleted
<1> SUFFICES ASSUME NEW p \in PostIds, ~Empty(posts[p]), Empty(posts'[p])
             PROVE  posts'[p].deleted
  BY DEF EmptiedAreDeleted
<1>1. posts'[p] # posts[p] /\ posts \in Seq(Post) /\ posts[p] \in Post
  BY DEF Inv, TypeOK, PostIds
<1>2. ~UNCHANGED posts
  BY <1>1
<1>3. PICK s \in Senders : Step(s)
  BY <1>2 DEF Next, vars, Tick
<1>4. ASSUME NEW text \in BOOLEAN, NEW media \in MediaCounts, Posting(s, text, media)
      PROVE  FALSE
  <2>1. PICK ts \in Nat :
           \/ \E t \in ThreadIds : PostTo(s, t, ts, text, media)
           \/ \E b \in DOMAIN boards, admin \in Users \cup {NoAdmin} :
                OpenThread(s, b, admin, ts, text, media)
    BY <1>4, PostingForms DEF Inv
  <2>2. posts'[p] = posts[p]
    BY <2>1, PostToAppends, OpenThreadAppends DEF Appends
  <2> QED BY <1>1, <2>2
<1>5. PICK i \in PostIds, x \in BOOLEAN : PostSetDeleted(s, i, x) \/ PostSetText(s, i, x)
  BY <1>2, <1>3, <1>4, SettingsKeepPosts DEF Step
<1>6. i = p
  BY <1>1, <1>5, ModerationReplaces
<1>7. CASE PostSetDeleted(s, p, x)
  <2>1. posts'[p].text = posts[p].text /\ posts'[p].media = posts[p].media
    BY <1>1, <1>7 DEF PostSetDeleted, PostIds, Post
  <2> QED BY <2>1 DEF Empty
<1>8. CASE PostSetText(s, p, x)
  <2> DEFINE d == posts[p].deleted \/ Emptied(posts[p], x)
  <2>1. posts' = [posts EXCEPT ![p] = [posts[p] EXCEPT !.text = x, !.deleted = d]]
    BY <1>8 DEF PostSetText
  <2> HIDE DEF d
  <2>2. posts'[p].text = x /\ posts'[p].media = posts[p].media /\ posts'[p].deleted = d
    BY <1>1, <2>1 DEF PostIds, Post
  <2>3. Empty([posts[p] EXCEPT !.text = x])
    BY <1>1, <2>2 DEF Empty, Post
  <2>4. d = TRUE
    BY <1>1, <2>3 DEF d, Emptied, Post
  <2> QED BY <2>2, <2>4
<1> QED
  BY <1>5, <1>6, <1>7, <1>8

\* Whatever transactions come, a post that loses the last of its content is
\* deleted by the same transaction.
THEOREM EmptiedPostsAreDeleted == Spec => EmptiedIsDeleted
<1>1. Init => Inv
  BY InitInv
<1>2. Inv /\ [Next]_vars => Inv'
  BY ImageboardAssumption, NextInv
<1>3. Inv /\ [Next]_vars => EmptiedAreDeleted
  BY ImageboardAssumption, EmptiedStep
<1> QED
  BY <1>1, <1>2, <1>3, PTL DEF Spec, EmptiedIsDeleted

-----------------------------------------------------------------------------
\* Deleted boards and threads.

LEMMA NoPostsStep ==
  ASSUME ImageboardAssumption, Inv, [Next]_vars
  PROVE  DeletedGetNoPosts
<1> SUFFICES ASSUME NEW p \in PostIds', p \notin PostIds
             PROVE  LET t == posts'[p].thread
                        a == Addr(posts'[p].sender)
                        b == threads'[t].board
                    IN  /\ boards[b].deleted => BoardStaff(b, a)
                        /\ t \in ThreadIds /\ threads[t].deleted => ThreadOwner(t, a)
  BY DEF DeletedGetNoPosts
<1>1. ~UNCHANGED posts
  BY DEF PostIds
<1>2. PICK s \in Senders : Step(s)
  BY <1>1 DEF Next, vars, Tick
<1>3. PICK text \in BOOLEAN, media \in MediaCounts : Posting(s, text, media)
  BY <1>1, <1>2, SettingsKeepPosts, ModerationReplaces DEF Step
<1>4. PICK ts \in Nat :
         \/ \E t \in ThreadIds : PostTo(s, t, ts, text, media)
         \/ \E b \in DOMAIN boards, admin \in Users \cup {NoAdmin} :
              OpenThread(s, b, admin, ts, text, media)
  BY <1>3, PostingForms DEF Inv
<1>5. ASSUME NEW t \in ThreadIds, PostTo(s, t, ts, text, media)
      PROVE  /\ posts'[p].thread = t /\ posts'[p].sender = s
             /\ threads'[t].board = threads[t].board
             /\ boards[threads[t].board].deleted => BoardStaff(threads[t].board, Addr(s))
             /\ threads[t].deleted => ThreadOwner(t, Addr(s))
  <2>1. posts'[p].thread = t /\ posts'[p].sender = s
    <3>1. Appends(FreshPost(s, threads[t].board, t, ts, text, media), s, t)
      BY <1>5, PostToAppends
    <3> QED BY <3>1 DEF Appends
  <2>2. Accepts(s, threads[t].board, threads[t], text, media)
    BY <1>5 DEF PostTo
  <2>3. threads'[t] = WithPost(threads[t], Len(posts) + 1) /\ threads[t] \in Thread
    BY <1>5 DEF PostTo, Inv, TypeOK, ThreadIds
  <2>4. threads'[t].board = threads[t].board
    BY <2>3 DEF WithPost, Thread
  <2>5. /\ boards[threads[t].board].deleted => boards[threads[t].board].closed
        /\ threads[t].deleted => threads[t].closed
    BY DEF Inv, DeletedIsClosed, References
  <2> QED BY <2>1, <2>2, <2>4, <2>5 DEF Accepts, ThreadOwner
<1>6. ASSUME NEW b \in DOMAIN boards, NEW admin \in Users \cup {NoAdmin},
             OpenThread(s, b, admin, ts, text, media)
      PROVE  /\ posts'[p].thread = Len(threads) + 1 /\ posts'[p].sender = s
             /\ threads'[Len(threads) + 1].board = b
             /\ boards[b].deleted => BoardStaff(b, Addr(s))
  <2> DEFINE new == WithPost(FreshThread(b, admin), Len(posts) + 1)
  <2>1. posts'[p].thread = Len(threads) + 1 /\ posts'[p].sender = s
    <3>1. Appends(FreshPost(s, b, Len(threads) + 1, ts, text, media), s, Len(threads) + 1)
      BY <1>6, OpenThreadAppends
    <3> QED BY <3>1 DEF Appends
  <2>2. Accepts(s, b, FreshThread(b, admin), text, media) /\ threads' = Append(threads, new)
    BY <1>6 DEF OpenThread
  <2>3. new.board = b
    BY DEF WithPost, FreshThread
  <2> HIDE DEF new
  <2>4. threads'[Len(threads) + 1] = new
    BY <2>2 DEF Inv, TypeOK
  <2>5. boards[b].deleted => boards[b].closed
    BY DEF Inv, DeletedIsClosed
  <2> QED BY <2>1, <2>2, <2>3, <2>4, <2>5 DEF Accepts
<1>7. Len(threads) + 1 \notin ThreadIds
  BY DEF Inv, TypeOK, ThreadIds
<1> QED
  BY <1>4, <1>5, <1>6, <1>7

\* A deleted thread, and a thread of a deleted board, gets posts from nobody but
\* those who may restore it.
THEOREM DeletedThreadsTakeNoPosts == Spec => DeletedTakesNoPosts
<1>1. Init => Inv
  BY InitInv
<1>2. Inv /\ [Next]_vars => Inv'
  BY ImageboardAssumption, NextInv
<1>3. Inv /\ [Next]_vars => DeletedGetNoPosts
  BY ImageboardAssumption, NoPostsStep
<1> QED
  BY <1>1, <1>2, <1>3, PTL DEF Spec, DeletedTakesNoPosts

-----------------------------------------------------------------------------
\* Bumping.  The contract computes the number of live posts from the length of
\* the feed and a counter; the property counts the posts themselves.

Live(t) == {q \in PostIds : posts[q].thread = t /\ ~posts[q].deleted}

\* A new post p, not deleted, adds one to the live posts of its thread.
LEMMA OneMoreLive ==
  ASSUME Inv, NEW q, NEW s, NEW t, Appends(q, s, t)
  PROVE  Cardinality(Live(t)') = Cardinality(PostsOf(t)) + 1 - Cardinality(DeletedPosts(t))
<1>1. Len(posts) \in Nat
  BY DEF Inv, TypeOK
<1>2. IsFiniteSet(PostIds)
  BY <1>1, FS_Interval DEF PostIds
<1>3. IsFiniteSet(PostsOf(t)) /\ IsFiniteSet(DeletedPosts(t))
  BY <1>2, FS_Subset DEF PostsOf, DeletedPosts
<1> DEFINE p == Len(posts) + 1
           live == PostsOf(t) \ DeletedPosts(t)
<1>4. Live(t)' = live \cup {p}
  BY DEF Live, PostsOf, DeletedPosts, Appends
<1>5. PostsOf(t) \cap DeletedPosts(t) = DeletedPosts(t)
  BY DEF PostsOf, DeletedPosts
<1>6. IsFiniteSet(live) /\ Cardinality(live) = Cardinality(PostsOf(t)) - Cardinality(DeletedPosts(t))
  BY <1>3, <1>5, FS_Difference
<1>7. p \notin live
  BY DEF Appends, PostsOf
<1>8. Cardinality(Live(t)') = Cardinality(live) + 1
  <2> HIDE DEF p, live
  <2> QED BY <1>4, <1>6, <1>7, FS_AddElement
<1>9. Cardinality(PostsOf(t)) \in Nat /\ Cardinality(DeletedPosts(t)) \in Nat
  BY <1>3, FS_CardinalityType
<1> QED
  BY <1>6, <1>8, <1>9

LEMMA BumpsStep ==
  ASSUME ImageboardAssumption, Inv, Placed, [Next]_vars
  PROVE  NewPostsBump
<1> SUFFICES ASSUME NEW b \in DOMAIN boards, NEW p \in PostIds', p \notin PostIds, NEW t,
                    t = posts'[p].thread, threads'[t].board = b
             PROVE  boards'[b].bumps =
                      IF Cardinality(Live(t)') <= boards[b].bumpLimit /\ t \notin boards[b].pinned
                      THEN Append(boards[b].bumps, t) ELSE boards[b].bumps
  BY DEF NewPostsBump, Live
<1>1. ~UNCHANGED posts
  BY DEF PostIds
<1>2. PICK s \in Senders : Step(s)
  BY <1>1 DEF Next, vars, Tick
<1>3. PICK text \in BOOLEAN, media \in MediaCounts : Posting(s, text, media)
  BY <1>1, <1>2, SettingsKeepPosts, ModerationReplaces DEF Step
<1>4. PICK ts \in Nat :
         \/ \E u \in ThreadIds : PostTo(s, u, ts, text, media)
         \/ \E c \in DOMAIN boards, admin \in Users \cup {NoAdmin} :
              OpenThread(s, c, admin, ts, text, media)
  BY <1>3, PostingForms DEF Inv
<1>5. boards[b] \in Board /\ boards \in [DOMAIN boards -> Board] /\ threads \in Seq(Thread)
  BY DEF Inv, TypeOK
<1>6. CASE \E u \in ThreadIds : PostTo(s, u, ts, text, media)
  <2>1. PICK u \in ThreadIds : PostTo(s, u, ts, text, media)
    BY <1>6
  <2> DEFINE q == FreshPost(s, threads[u].board, u, ts, text, media)
  <2>2. Appends(q, s, u)
    BY <2>1, PostToAppends
  <2> HIDE DEF q
  <2>3. p = Len(posts) + 1 /\ t = u
    BY <2>2 DEF Appends
  <2>4. threads'[t] = WithPost(threads[t], p) /\ threads[t] \in Thread
    BY <1>5, <2>1, <2>3 DEF PostTo, ThreadIds
  <2>5. threads[t].board = b
    BY <2>4 DEF WithPost, Thread
  <2>6. boards' = [boards EXCEPT ![b] = Listed(boards[b], threads[t], t, p)]
    BY <2>1, <2>3, <2>5 DEF PostTo
  <2>7. boards'[b].bumps =
          IF PostsLive(threads[t]) <= boards[b].bumpLimit /\ t \notin boards[b].pinned
          THEN Append(boards[b].bumps, t) ELSE boards[b].bumps
    BY <1>5, <2>6 DEF Listed, Board
  <2>8. Cardinality(Live(t)') = PostsLive(threads[t])
    <3>1. Cardinality(Live(t)') = Cardinality(PostsOf(t)) + 1 - Cardinality(DeletedPosts(t))
      BY <2>2, <2>3, OneMoreLive
    <3>2. Len(threads[t].posts) = Cardinality(PostsOf(t))
      BY <2>3 DEF Placed, Counts
    <3>3. threads[t].postsDeleted = Cardinality(DeletedPosts(t))
      BY <2>3 DEF Inv, DeletedCountExact
    <3> QED BY <3>1, <3>2, <3>3 DEF PostsLive
  <2> QED BY <2>7, <2>8
<1>7. CASE \E c \in DOMAIN boards, admin \in Users \cup {NoAdmin} :
             OpenThread(s, c, admin, ts, text, media)
  <2>1. PICK c \in DOMAIN boards, admin \in Users \cup {NoAdmin} :
               OpenThread(s, c, admin, ts, text, media)
    BY <1>7
  <2>2. PICK u \in Nat : u = Len(threads) + 1
    BY <1>5
  <2> DEFINE q == FreshPost(s, c, u, ts, text, media)
             thread == FreshThread(c, admin)
             new == WithPost(thread, Len(posts) + 1)
             board == Listed(WithThread(boards[c], thread.number, u), thread, u, Len(posts) + 1)
  <2>3. Appends(q, s, u)
    BY <2>1, <2>2, OpenThreadAppends
  <2>4. p = Len(posts) + 1 /\ t = u
    <3> HIDE DEF q
    <3> QED BY <2>3 DEF Appends
  <2>5. threads' = Append(threads, new) /\ boards' = [boards EXCEPT ![c] = board]
    BY <2>1, <2>2 DEF OpenThread
  <2>6. new.board = c
    BY DEF WithPost, FreshThread
  <2>7. c = b
    <3> HIDE DEF new
    <3>1. threads'[u] = new
      BY <1>5, <2>2, <2>5
    <3> QED BY <2>4, <2>6, <3>1
  <2>8. PostsLive(thread) = 1
    BY DEF PostsLive, FreshThread
  <2>9. boards'[b].bumps =
          IF 1 <= boards[b].bumpLimit /\ t \notin boards[b].pinned
          THEN Append(boards[b].bumps, t) ELSE boards[b].bumps
    <3>1. boards'[b] = board
      BY <1>5, <2>5, <2>7
    <3> HIDE DEF thread
    <3> QED BY <1>5, <2>4, <2>7, <2>8, <3>1 DEF Listed, WithThread, Board
  <2>10. Cardinality(Live(t)') = 1
    <3>1. PostsOf(t) = {} /\ DeletedPosts(t) = {}
      BY <1>5, <2>2, <2>4 DEF PostsOf, DeletedPosts, Inv, References, ThreadIds
    <3>2. Cardinality(Live(t)') = Cardinality(PostsOf(t)) + 1 - Cardinality(DeletedPosts(t))
      BY <2>3, <2>4, OneMoreLive
    <3> QED BY <3>1, <3>2, FS_EmptySet
  <2> QED BY <2>9, <2>10
<1> QED
  BY <1>4, <1>6, <1>7

\* A new post bumps its thread when no more posts of it are live than the board's
\* limit and it is not pinned, and at no other time.
THEOREM BumpsAreWithinLimit == Spec => BumpsWithinLimit
<1>1. Init => Inv /\ Placed
  BY InitInv, InitPlaced
<1>2. Inv /\ Placed /\ [Next]_vars => Inv' /\ Placed'
  BY ImageboardAssumption, NextInv, NextPlaced
<1>3. Inv /\ Placed /\ [Next]_vars => NewPostsBump
  BY ImageboardAssumption, BumpsStep
<1> QED
  BY <1>1, <1>2, <1>3, PTL DEF Spec, BumpsWithinLimit

-----------------------------------------------------------------------------
(***************************************************************************)
(* Nobody exceeds the authority of their roles.                            *)
(*                                                                         *)
(* The checks are spread over four modules of the contract, one for each   *)
(* rank of object.  The cases below are the intents, grouped by what they  *)
(* change; a case shows who was let in, and that the rest stays as it was. *)
(***************************************************************************)

\* Each part of the state can be looked at by itself: it stays, or it is changed
\* by those who may.

LEMMA RanksInclude ==
  ASSUME NEW a
  PROVE  /\ \A b : ForumStaff(a) => BoardStaff(b, a)
         /\ \A t : BoardStaff(threads[t].board, a) => ThreadOwner(t, a)
         /\ \A t : ThreadOwner(t, a) => ThreadStaff(t, a)
BY DEF BoardStaff, ThreadOwner, ThreadStaff

LEMMA SameForum ==
  ASSUME UNCHANGED forum, NEW a
  PROVE  ForumWithin(a)
BY DEF ForumWithin

LEMMA SameBoards ==
  ASSUME UNCHANGED boards, NEW a
  PROVE  BoardsWithin(a)
BY DEF BoardsWithin, ApartFromPins

LEMMA SameThreads ==
  ASSUME UNCHANGED threads, NEW a
  PROVE  ThreadsWithin(a)
BY DEF ThreadsWithin, ApartFromPosts, ThreadIds

LEMMA SamePostsWithin ==
  ASSUME \A p \in PostIds : posts'[p] = posts[p], NEW s
  PROVE  PostsWithin(s)
BY DEF PostsWithin

-----------------------------------------------------------------------------
\* Settings

LEMMA ForumSettingWithin ==
  ASSUME Inv, NEW s \in Senders, ForumSetting(s)
  PROVE  WithinAuthority(s)
<1> DEFINE a == Addr(s)
<1>1. UNCHANGED <<threads, posts>> /\ ForumStaff(a)
  BY DEF ForumSetting, ForumAddModerator, ForumDelModerator, SetTimestampPrecision, NewBoard,
         ForumStaff
<1>2. ForumWithin(a)
  <2>1. a = Root \/ forum'.mods = forum.mods
    BY DEF ForumSetting, ForumAddModerator, ForumDelModerator, SetTimestampPrecision, NewBoard,
           Inv, TypeOK, Forum
  <2> QED BY <1>1, <2>1 DEF ForumWithin
<1>3. BoardsWithin(a)
  BY <1>1, RanksInclude DEF BoardsWithin
<1> HIDE DEF a
<1>4. ThreadsWithin(a) /\ PostsWithin(s)
  BY <1>1, SameThreads, SamePostsWithin
<1> QED
  BY <1>2, <1>3, <1>4 DEF WithinAuthority, a

LEMMA BoardSettingWithin ==
  ASSUME Inv, NEW s \in Senders, NEW b \in DOMAIN boards, BoardSetting(s, b)
  PROVE  WithinAuthority(s)
<1> DEFINE a == Addr(s)
<1>1. UNCHANGED <<forum, threads, posts>>
  BY DEF BoardSetting, BoardAddModerator, BoardDelModerator, SetMaxMedia, SetBumpLimit,
         BoardSetClosed, BoardSetDeleted, SetPinned
<1>2. BoardsWithin(a)
  <2>1. CASE ForumStaff(a)
    BY <2>1, RanksInclude DEF BoardsWithin
  <2>2. CASE \E pinned \in SUBSET ThreadIds : SetPinned(s, b, pinned)
    <3>1. PICK pinned : SetPinned(s, b, pinned)
      BY <2>2
    <3>2. BoardStaff(b, a) /\ boards' = [boards EXCEPT ![b] = [boards[b] EXCEPT !.pinned = pinned]]
      BY <3>1 DEF SetPinned
    <3>3. /\ \A c \in DOMAIN boards : c # b => boards'[c] = boards[c]
          /\ boards'[b] = [boards[b] EXCEPT !.pinned = pinned]
      BY <3>2 DEF Inv, TypeOK
    <3>4. ApartFromPins(boards'[b]) = ApartFromPins(boards[b])
      <4>1. boards[b] \in Board
        BY DEF Inv, TypeOK
      <4> QED BY <3>3, <4>1 DEF ApartFromPins, Board
    <3> QED BY <3>2, <3>3, <3>4 DEF BoardsWithin
  <2> QED BY <2>1, <2>2 DEF BoardSetting, BoardAddModerator, BoardDelModerator, SetMaxMedia,
            SetBumpLimit, BoardSetClosed, BoardSetDeleted
<1> HIDE DEF a
<1>3. ForumWithin(a) /\ ThreadsWithin(a) /\ PostsWithin(s)
  BY <1>1, SameForum, SameThreads, SamePostsWithin
<1> QED
  BY <1>2, <1>3 DEF WithinAuthority, a

\* A thread changes in one way, and the others stay.
LEMMA OneThreadWithin ==
  ASSUME Inv, NEW t \in ThreadIds, NEW new, threads' = [threads EXCEPT ![t] = new], NEW a,
         \/ ThreadOwner(t, a)
         \/ new.mods = threads[t].mods /\ new.admin = threads[t].admin,
         ThreadStaff(t, a) \/ ApartFromPosts(new) = ApartFromPosts(threads[t])
  PROVE  ThreadsWithin(a)
<1>1. threads \in Seq(Thread)
  BY DEF Inv, TypeOK
<1>2. threads'[t] = new /\ \A u \in ThreadIds : u # t => threads'[u] = threads[u]
  BY <1>1, SeqReplace DEF ThreadIds
<1> QED
  BY <1>2 DEF ThreadsWithin

LEMMA ThreadSettingWithin ==
  ASSUME Inv, NEW s \in Senders, NEW t \in ThreadIds, ThreadSetting(s, t)
  PROVE  WithinAuthority(s)
<1> DEFINE a == Addr(s)
<1>1. UNCHANGED <<forum, boards, posts>> /\ ThreadStaff(t, a)
  BY RanksInclude DEF ThreadSetting, ThreadAddModerator, ThreadDelModerator, SetAdmin, ThreadSetClosed,
         ThreadSetDeleted
<1>2. \E new : /\ threads' = [threads EXCEPT ![t] = new]
               /\ \/ ThreadOwner(t, a)
                  \/ new.mods = threads[t].mods /\ new.admin = threads[t].admin
  <2>1. threads[t] \in Thread
    BY DEF Inv, TypeOK, ThreadIds
  <2>2. CASE \E m \in Appointees : ThreadAddModerator(s, t, m) \/ ThreadDelModerator(s, t, m)
    BY <2>2 DEF ThreadAddModerator, ThreadDelModerator
  <2>3. CASE \E admin \in Appointees \cup {NoAdmin} : SetAdmin(s, t, admin)
    BY <2>3 DEF SetAdmin
  <2>4. CASE \E c \in BOOLEAN : ThreadSetClosed(s, t, c) \/ ThreadSetDeleted(s, t, c)
    <3>1. PICK c \in BOOLEAN : \/ threads' = [threads EXCEPT ![t].closed = c]
                               \/ threads' = [threads EXCEPT ![t].deleted = c]
      BY <2>4 DEF ThreadSetClosed, ThreadSetDeleted
    <3>2. /\ [threads[t] EXCEPT !.closed = c].mods = threads[t].mods
          /\ [threads[t] EXCEPT !.closed = c].admin = threads[t].admin
          /\ [threads[t] EXCEPT !.deleted = c].mods = threads[t].mods
          /\ [threads[t] EXCEPT !.deleted = c].admin = threads[t].admin
      BY <2>1 DEF Thread
    <3> QED BY <3>1, <3>2
  <2> QED BY <2>2, <2>3, <2>4 DEF ThreadSetting
<1> HIDE DEF a
<1>3. ThreadsWithin(a)
  BY <1>1, <1>2, OneThreadWithin
<1>4. ForumWithin(a) /\ BoardsWithin(a) /\ PostsWithin(s)
  BY <1>1, SameForum, SameBoards, SamePostsWithin
<1> QED
  BY <1>3, <1>4 DEF WithinAuthority, a

-----------------------------------------------------------------------------
\* Posting adds to a board and to a thread what anybody may add.

LEMMA ListedAddsPosts ==
  ASSUME NEW board \in Board, NEW thread, NEW t, NEW p, NEW n
  PROVE  /\ ApartFromPins(Listed(board, thread, t, p)) = ApartFromPins(board)
         /\ Listed(board, thread, t, p).pinned = board.pinned
         /\ ApartFromPins(Listed(WithThread(board, n, t), thread, t, p)) = ApartFromPins(board)
         /\ Listed(WithThread(board, n, t), thread, t, p).pinned = board.pinned
BY DEF Listed, WithThread, ApartFromPins, Board

LEMMA OneBoardWithin ==
  ASSUME Inv, NEW b \in DOMAIN boards, NEW new, boards' = [boards EXCEPT ![b] = new], NEW a,
         ApartFromPins(new) = ApartFromPins(boards[b]), new.pinned = boards[b].pinned
  PROVE  BoardsWithin(a)
<1>1. boards'[b] = new /\ \A c \in DOMAIN boards : c # b => boards'[c] = boards[c]
  BY DEF Inv, TypeOK
<1> QED
  BY <1>1 DEF BoardsWithin

LEMMA PostToWithin ==
  ASSUME ImageboardAssumption, Inv, Placed, NEW s \in Senders, NEW t \in ThreadIds, NEW ts \in Nat,
         NEW text \in BOOLEAN, NEW media \in MediaCounts, PostTo(s, t, ts, text, media)
  PROVE  WithinAuthority(s)
<1> DEFINE a == Addr(s)
           p == Len(posts) + 1
           b == threads[t].board
<1>1. PostsWithin(s)
  <2>1. Appends(FreshPost(s, b, t, ts, text, media), s, t)
    BY PostToAppends
  <2> QED BY <2>1, SamePostsWithin DEF Appends
<1>2. ThreadsWithin(a)
  <2>1. threads' = [threads EXCEPT ![t] = WithPost(threads[t], p)]
    BY DEF PostTo
  <2>2. threads[t] \in Thread
    BY DEF Inv, TypeOK, ThreadIds
  <2>3. threads[t].posts # <<>>
    <3>1. Len(threads[t].posts) >= 1
      BY DEF Placed, ThreadPlaced
    <3>2. Len(<<>>) = 0
      OBVIOUS
    <3> QED BY <3>1, <3>2
  <2>4. /\ WithPost(threads[t], p).mods = threads[t].mods
        /\ WithPost(threads[t], p).admin = threads[t].admin
        /\ ApartFromPosts(WithPost(threads[t], p)) = ApartFromPosts(threads[t])
    BY <2>2, <2>3 DEF WithPost, ApartFromPosts, Thread
  <2> QED BY <2>1, <2>4, OneThreadWithin
<1>3. BoardsWithin(a)
  <2>1. boards' = [boards EXCEPT ![b] = Listed(boards[b], threads[t], t, p)]
    BY DEF PostTo
  <2>2. b \in DOMAIN boards /\ boards[b] \in Board
    BY DEF Inv, References, TypeOK
  <2>3. PICK new : new = Listed(boards[b], threads[t], t, p)
    OBVIOUS
  <2>4. ApartFromPins(new) = ApartFromPins(boards[b]) /\ new.pinned = boards[b].pinned
    BY <2>2, <2>3, ListedAddsPosts
  <2>5. boards' = [boards EXCEPT ![b] = new]
    BY <2>1, <2>3
  <2> HIDE DEF a, b
  <2> QED BY <2>2, <2>4, <2>5, OneBoardWithin
<1>4. ForumWithin(a)
  BY SameForum DEF PostTo
<1> QED
  BY <1>1, <1>2, <1>3, <1>4 DEF WithinAuthority

LEMMA OpenThreadWithin ==
  ASSUME ImageboardAssumption, Inv, NEW s \in Senders, NEW b \in DOMAIN boards,
         NEW admin \in Users \cup {NoAdmin}, NEW ts \in Nat, NEW text \in BOOLEAN,
         NEW media \in MediaCounts, OpenThread(s, b, admin, ts, text, media)
  PROVE  WithinAuthority(s)
<1> DEFINE a == Addr(s)
           p == Len(posts) + 1
           t == Len(threads) + 1
           thread == FreshThread(b, admin)
<1>1. PostsWithin(s)
  <2>1. Appends(FreshPost(s, b, t, ts, text, media), s, t)
    BY OpenThreadAppends
  <2> QED BY <2>1, SamePostsWithin DEF Appends
<1>2. ThreadsWithin(a)
  <2>1. PICK new : threads' = Append(threads, new)
    BY DEF OpenThread
  <2>2. threads \in Seq(Thread)
    BY DEF Inv, TypeOK
  <2>3. \A u \in ThreadIds : threads'[u] = threads[u]
    <3>1. threads \in Seq(Thread \cup {new})
      BY <2>2
    <3> QED BY <2>1, <3>1, SeqAppend DEF ThreadIds
  <2> QED BY <2>3 DEF ThreadsWithin
<1>3. BoardsWithin(a)
  <2>1. boards' = [boards EXCEPT ![b] =
          Listed(WithThread(boards[b], thread.number, t), thread, t, p)]
    BY DEF OpenThread
  <2>2. boards[b] \in Board
    BY DEF Inv, TypeOK
  <2>3. PICK new : new = Listed(WithThread(boards[b], thread.number, t), thread, t, p)
    OBVIOUS
  <2>4. ApartFromPins(new) = ApartFromPins(boards[b]) /\ new.pinned = boards[b].pinned
    BY <2>2, <2>3, ListedAddsPosts
  <2>5. boards' = [boards EXCEPT ![b] = new]
    BY <2>1, <2>3
  <2> HIDE DEF a
  <2> QED BY <2>2, <2>4, <2>5, OneBoardWithin
<1>4. ForumWithin(a)
  BY SameForum DEF OpenThread
<1> QED
  BY <1>1, <1>2, <1>3, <1>4 DEF WithinAuthority

-----------------------------------------------------------------------------
\* Moderation: by staff, by the author in time, or of what is empty.

LEMMA ModerationWithin ==
  ASSUME ImageboardAssumption, Inv, NEW s \in Senders, NEW p \in PostIds, NEW x \in BOOLEAN,
         PostSetDeleted(s, p, x) \/ PostSetText(s, p, x)
  PROVE  WithinAuthority(s)
<1> DEFINE a == Addr(s)
           t == posts[p].thread
<1>1. \A i \in PostIds : i # p => posts'[i] = posts[i]
  BY ModerationReplaces
<1>2. UNCHANGED <<forum, boards>>
  BY ModerationReplaces
<1>3. posts[p] \in Post /\ posts \in Seq(Post) /\ t \in ThreadIds /\ threads[t] \in Thread
      /\ now \in Nat
  BY DEF Inv, TypeOK, References, PostIds, ThreadIds
<1>4. PostsWithin(s)
  <2>1. CASE ThreadStaff(t, a)
    BY <1>1, <2>1 DEF PostsWithin
  <2>2. CASE CanSelfModerate(s, p) /\ AgeDefined(s, p)
    <3>1. posts[p].sender = s /\ posts[p].ts <= now /\ now - posts[p].ts <= Window
      BY <2>2 DEF CanSelfModerate, AgeDefined
    <3>2. now \in Nat /\ posts[p].ts \in Nat /\ Window \in Nat
      BY <1>3 DEF Post, ImageboardAssumption
    <3>3. now <= posts[p].ts + Window
      BY <3>1, <3>2
    <3> QED BY <1>1, <3>1, <3>3 DEF PostsWithin
  <2>3. CASE PostSetDeleted(s, p, x) /\ x /\ Empty(posts[p])
    <3>1. posts' = [posts EXCEPT ![p] = [posts[p] EXCEPT !.deleted = TRUE]]
      BY <2>3 DEF PostSetDeleted
    <3>2. PICK q \in Post : q = [posts[p] EXCEPT !.deleted = TRUE]
      BY <1>3, PostWith
    <3>3. p \in 1 .. Len(posts) /\ posts' = [posts EXCEPT ![p] = q]
      BY <3>1, <3>2 DEF PostIds
    <3>4. posts'[p] = q
      BY <1>3, <3>3, SeqExcept
    <3> QED BY <1>1, <2>3, <3>2, <3>4 DEF PostsWithin
  <2> QED BY <2>1, <2>2, <2>3 DEF PostSetDeleted, PostSetText
<1>5. ThreadsWithin(a)
  <2>1. \/ UNCHANGED threads
        \/ \E d \in BOOLEAN : threads' = [threads EXCEPT ![t] = Counted(threads[t], d)]
    BY DEF PostSetDeleted, PostSetText
  <2>2. ASSUME NEW d \in BOOLEAN
        PROVE  /\ Counted(threads[t], d).mods = threads[t].mods
               /\ Counted(threads[t], d).admin = threads[t].admin
               /\ ApartFromPosts(Counted(threads[t], d)) = ApartFromPosts(threads[t])
    BY <1>3 DEF Counted, ApartFromPosts, Thread
  <2> HIDE DEF a, t
  <2> QED BY <1>3, <2>1, <2>2, SameThreads, OneThreadWithin
<1>6. ForumWithin(a) /\ BoardsWithin(a)
  BY <1>2, SameForum, SameBoards
<1> QED
  BY <1>4, <1>5, <1>6 DEF WithinAuthority

-----------------------------------------------------------------------------
LEMMA StepWithin ==
  ASSUME ImageboardAssumption, Inv, Placed, NEW s \in Senders, Step(s)
  PROVE  WithinAuthority(s)
<1>1. ASSUME NEW text \in BOOLEAN, NEW media \in MediaCounts, Posting(s, text, media)
      PROVE  WithinAuthority(s)
  <2>1. PICK ts \in Nat :
           \/ \E t \in ThreadIds : PostTo(s, t, ts, text, media)
           \/ \E b \in DOMAIN boards, admin \in Users \cup {NoAdmin} :
                OpenThread(s, b, admin, ts, text, media)
    BY <1>1, PostingForms DEF Inv
  <2> QED BY <2>1, PostToWithin, OpenThreadWithin
<1> QED
  BY <1>1, ForumSettingWithin, BoardSettingWithin, ThreadSettingWithin, ModerationWithin DEF Step

\* Whatever roles were given and taken back, in whatever order: a transaction
\* changes the forum, a board, a thread or a post only as far as its signer's
\* rank at that moment reaches.
THEOREM AuthorityIsRespected == Spec => AuthorityIsLocal
<1>1. Init => Inv /\ Placed
  BY InitInv, InitPlaced
<1>2. Inv /\ Placed /\ [Next]_vars => Inv' /\ Placed'
  BY ImageboardAssumption, NextInv, NextPlaced
<1>3. Inv /\ Placed /\ [Next]_vars => NobodyExceeds
  BY ImageboardAssumption, StepWithin DEF NobodyExceeds
<1> QED
  BY <1>1, <1>2, <1>3, PTL DEF Spec, AuthorityIsLocal
=============================================================================
