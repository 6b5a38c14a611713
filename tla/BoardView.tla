----------------------------- MODULE BoardView -----------------------------
(***************************************************************************)
(* The page of a board: how the relay cuts a board into pages              *)
(* (handlers/board.rs fetch) and how the browser puts them together while  *)
(* events arrive (store.ts loadBoard, loadMoreThreads and ingestBoard,     *)
(* batch.ts applyBoardBatch, rows.ts).                                     *)
(*                                                                         *)
(* The page has threads, each with its opening post and its last replies.  *)
(* Only opening posts, replies and their deletion are told apart; a page   *)
(* is read from the chain at one moment (ThreadReplay has objects read one *)
(* after the other, RelayCache has pages that are out of date).            *)
(***************************************************************************)
EXTENDS Integers, Sequences, FiniteSets, SequencesExt, TLC

CONSTANTS
  PageThreads,  \* PAGE_THREADS and BOARD_PAGE_THREADS, 20
  Preview,      \* replies shown under a thread, 3
  FirstThreads, \* threads of the board at the beginning, with one post each
  PinnedSets,   \* sets of threads that may be pinned
  \* bounds of a run
  MaxThreads, MaxPosts, MaxTxs, MaxLoads

BoardViewAssumption ==
  /\ {PageThreads, Preview, FirstThreads, MaxThreads, MaxPosts} \subseteq Nat \ {0}
  /\ {MaxTxs, MaxLoads} \subseteq Nat
  /\ FirstThreads <= MaxThreads
  /\ PinnedSets \subseteq SUBSET (1 .. FirstThreads)

VARIABLES
  chain,   \* the threads of the board with their posts, and the order of bumps
  pinned,  \* threads pinned by the moderators
  log,     \* batches of events, one per transaction
  seen,    \* how many of them were applied in the browser
  data,    \* the page as the browser has it
  applied, \* the counter up to which the events of an object are applied
  drawn,   \* the rows and the records made from it
  more,    \* the further page that is being loaded
  excused  \* what the page cannot be held to, see the properties

vars == <<chain, pinned, log, seen, data, applied, drawn, more, excused>>

\* <<t, 0>> is the object of thread t, <<t, i>> that of its i-th post.
Objects == (1 .. MaxThreads) \X (0 .. MaxPosts)

Live(thread) == {i \in DOMAIN thread.posts : ~thread.posts[i].deleted}

-----------------------------------------------------------------------------
\* The page of the relay that begins below the bump cursor.

ThreadCopy(t) ==
  [id |-> t, count |-> Cardinality(Live(chain.threads[t])), deleted |-> chain.threads[t].deleted]

PostCopy(t, i) == [id |-> <<t, i>>, deleted |-> chain.threads[t].posts[i].deleted]

Replies(t) ==
  LET n == Len(chain.threads[t].posts)
  IN  [k \in 1 .. (IF n - 1 > Preview THEN Preview ELSE n - 1) |->
         PostCopy(t, n + k - (IF n - 1 > Preview THEN Preview ELSE n - 1))]

SeenBumpsMutant(end) ==
  {j \in 1 .. end : j \in DOMAIN chain.bumps /\ chain.bumps[j] \notin pinned /\
                    \A k \in j + 1 .. end - 1 : chain.bumps[k] # chain.bumps[j]}

SeenBumps(end) ==
  {j \in 1 .. end - 1 : chain.bumps[j] \notin pinned /\
                        \A k \in j + 1 .. end - 1 : chain.bumps[k] # chain.bumps[j]}

\* The pinned threads are on every page, then come those that were bumped last.
PageAt(end) ==
  LET newest == SetToSortSeq(SeenBumps(end), >)
      room == IF PageThreads > Cardinality(pinned) THEN PageThreads - Cardinality(pinned) ELSE 0
      taken == SubSeq(newest, 1, IF room < Len(newest) THEN room ELSE Len(newest))
      stop == IF room = 0 THEN end ELSE IF Len(newest) < room THEN 1 ELSE newest[room]
      ids == SetToSortSeq(pinned, <) \o [k \in DOMAIN taken |-> chain.bumps[taken[k]]]
  IN  [threads |-> [k \in DOMAIN ids |-> ThreadCopy(ids[k])],
       ops |-> [t \in {ids[k] : k \in DOMAIN ids} |-> PostCopy(t, 1)],
       last3 |-> [t \in {ids[k] : k \in DOMAIN ids} |-> Replies(t)],
       cursor |-> IF stop > 1 THEN stop ELSE 0]

FirstPage == PageAt(Len(chain.bumps) + 1)

Ids(d) == {d.threads[k].id : k \in DOMAIN d.threads}

-----------------------------------------------------------------------------
\* buildRows: the number of a post is its distance from the end of its thread.

CopyOf(d, t) == d.threads[CHOOSE k \in DOMAIN d.threads : d.threads[k].id = t]

RelNum(d) ==
  LET counted(t) == {<<d.ops[t].id, 1>>} \cup
        {<<d.last3[t][k].id, CopyOf(d, t).count - Len(d.last3[t]) + k>> : k \in DOMAIN d.last3[t]}
      pairs == UNION {counted(t) : t \in Ids(d)}
  IN  [uid \in {p[1] : p \in pairs} |-> (CHOOSE p \in pairs : p[1] = uid)[2]]

Rows(d) ==
  [k \in DOMAIN d.threads |->
     LET t == d.threads[k].id
     IN  [thread |-> d.threads[k],
          replies |-> [i \in DOMAIN d.last3[t] |-> d.last3[t][i].id],
          live |-> ~d.threads[k].deleted /\ ~d.ops[t].deleted]]

PostsOf(d) ==
  {d.ops[t] : t \in Ids(d)} \cup UNION {{d.last3[t][k] : k \in DOMAIN d.last3[t]} : t \in Ids(d)}

Record(d, post) ==
  [num |-> RelNum(d)[post.id],
   deleted |-> post.deleted \/ (post.id[2] = 1 /\ CopyOf(d, post.id[1]).deleted)]

Drawing(d) ==
  [rows |-> Rows(d), nums |-> RelNum(d),
   records |-> [uid \in {p.id : p \in PostsOf(d)} |->
                  Record(d, CHOOSE p \in PostsOf(d) : p.id = uid)]]

\* ingestBoard: the posts it finds changed.
NewlyListed(prev, d) ==
  UNION {LET t == d.threads[k].id
             before == IF t \in DOMAIN prev.last3 THEN prev.last3[t] ELSE <<>>
         IN  {d.ops[t]} \cup {p \in ToSet(d.last3[t]) : \A q \in ToSet(before) : q.id # p.id} :
         k \in {j \in DOMAIN d.threads :
                  j > Len(prev.threads) \/ prev.threads[j] # d.threads[j]}}

Replaced(prev, d) ==
  {d.ops[t] : t \in {u \in DOMAIN d.ops : u \notin DOMAIN prev.ops \/ prev.ops[u] # d.ops[u]}}
    \cup UNION {LET before == IF t \in DOMAIN prev.last3 THEN prev.last3[t] ELSE <<>>
                IN  {d.last3[t][k] : k \in {j \in DOMAIN d.last3[t] :
                       j > Len(before) \/ before[j] # d.last3[t][j]}} : t \in DOMAIN d.last3}

Renumbered(w, d) ==
  {p \in PostsOf(d) : p.id \in DOMAIN w.records /\ w.records[p.id].num # RelNum(d)[p.id]}

Ingested(prev, d) ==
  LET changed == (NewlyListed(prev, d) \cup Replaced(prev, d) \cup Renumbered(drawn, d))
                   \cap PostsOf(d)
  IN  [rows |-> Rows(d), nums |-> RelNum(d),
       records |-> [uid \in {p.id : p \in changed} |->
                      Record(d, CHOOSE p \in changed : p.id = uid)] @@ drawn.records]

-----------------------------------------------------------------------------
\* applyBoardBatch, one envelope after the other.  A thread that begins waits
\* for its opening post.

WithReply(d, post) ==
  LET t == post.id[1]
      list == IF t \in DOMAIN d.last3 THEN d.last3[t] ELSE <<>>
      longer == Append(list, post)
  IN  IF \E k \in DOMAIN list : list[k].id = post.id THEN d
      ELSE [d EXCEPT !.last3 = t :> SubSeq(longer, Len(longer) - (IF Len(longer) > Preview
                                      THEN Preview ELSE Len(longer)) + 1, Len(longer)) @@ @]

\* A thread that nobody has seen begun goes below the pinned ones.  Nothing
\* has counted its opening post.
WithThread(d, post) ==
  LET t == post.id[1]
      head == SelectSeq(d.threads, LAMBDA c : c.id \in pinned)
      rest == SelectSeq(d.threads, LAMBDA c : c.id \notin pinned)
      merged == head \o <<[id |-> t, count |-> 0, deleted |-> FALSE]>> \o rest
  IN  [d EXCEPT !.threads = IF Len(@) < PageThreads /\ Len(merged) > PageThreads
                            THEN SubSeq(merged, 1, PageThreads) ELSE merged,
                !.ops = t :> post @@ @,
                !.last3 = IF t \in DOMAIN @ THEN @ ELSE t :> <<>> @@ @]

OnThread(d, t, op(_)) ==
  [d EXCEPT !.threads = [k \in DOMAIN @ |-> IF @[k].id = t THEN op(@[k]) ELSE @[k]]]

OnPost(d, uid, deleted) ==
  LET set(post) == IF post.id = uid THEN [post EXCEPT !.deleted = deleted] ELSE post
  IN  [d EXCEPT !.ops = [t \in DOMAIN @ |-> set(@[t])],
                !.last3 = [t \in DOMAIN @ |-> [k \in DOMAIN @[t] |-> set(@[t][k])]]]

\* state is the page, the counters and the threads that wait.
Apply(state, env) ==
  LET t == env.target[1]
      d == state.data
      post == [id |-> env.target, deleted |-> FALSE]
  IN  IF env.counter <= state.applied[env.target] THEN state
      ELSE [data |-> CASE env.event = "new_post" ->
                            OnThread(d, t, LAMBDA c : [c EXCEPT !.count = @ + 1])
                       [] env.event = "thread_deleted" ->
                            OnThread(d, t, LAMBDA c : [c EXCEPT !.deleted = env.value])
                       [] env.event = "set_deleted" -> OnPost(d, env.target, env.value)
                       [] env.event = "post" /\ t \in state.pending -> WithThread(d, post)
                       [] env.event = "post" /\ t \notin state.pending /\ t \in Ids(d) ->
                            WithReply(d, post)
                       [] OTHER -> d,
            applied |-> [state.applied EXCEPT ![env.target] = env.counter],
            pending |-> IF env.event = "thread" THEN state.pending \cup {t} ELSE state.pending]

ApplyBatch(batch) ==
  FoldLeft(Apply, [data |-> data, applied |-> applied, pending |-> {}], batch)

-----------------------------------------------------------------------------
\* The counter of an object is the last transaction that its copy contains;
\* snapshotBoard takes them from the copies, and those of at are the page's.
Counters(d, at) ==
  LET listed == {<<t, 0>> : t \in Ids(d)} \cup {p.id : p \in PostsOf(d)}
  IN  [o \in Objects |-> IF o \in listed THEN at[o] ELSE 0]

NothingExcused == [lost |-> {}, counts |-> {}, threads |-> {}, skipped |-> FALSE]

NoMore == [phase |-> "none", cursor |-> 0, page |-> <<>>, at |-> 0]

Init ==
  /\ chain = [threads |-> [t \in 1 .. FirstThreads |->
                             [posts |-> <<[deleted |-> FALSE]>>, deleted |-> FALSE]],
              bumps |-> [t \in 1 .. FirstThreads |-> t], loads |-> 0]
  /\ pinned \in PinnedSets
  /\ log = <<>> /\ seen = 0
  /\ data = FirstPage
  /\ applied = [o \in Objects |-> 0]
  /\ drawn = Drawing(data)
  /\ more = NoMore
  /\ excused = NothingExcused

\* What happens on the chain.
Emit(batch) == Len(log) < MaxTxs /\ log' = Append(log, batch)

Envelope(target, event, value) ==
  [target |-> target, counter |-> Len(log) + 1, event |-> event, value |-> value]

Elsewhere == UNCHANGED <<pinned, seen, data, applied, drawn, more, excused>>

\* The events of a transaction are grouped by object, and the objects come in
\* the order of their identifiers, which is any.  The opening post is counted
\* by an event of the thread as well.
NewThread ==
  LET t == Len(chain.threads) + 1
      ofThread == <<Envelope(<<t, 0>>, "thread", FALSE)>>
      ofPost == <<Envelope(<<t, 1>>, "post", FALSE)>>
  IN  /\ t <= MaxThreads
      /\ \/ Emit(ofThread \o ofPost) \/ Emit(ofPost \o ofThread)
      /\ chain' = [chain EXCEPT
           !.threads = Append(@, [posts |-> <<[deleted |-> FALSE]>>, deleted |-> FALSE]),
           !.bumps = Append(@, t)]
      /\ Elsewhere

\* A reply bumps its thread, or does not: see Imageboard.
NewPost(t) ==
  LET i == Len(chain.threads[t].posts) + 1
  IN  /\ i <= MaxPosts
      /\ Emit(<<Envelope(<<t, 0>>, "new_post", FALSE), Envelope(<<t, i>>, "post", FALSE)>>)
      /\ \E bumped \in BOOLEAN :
           /\ bumped => t \notin pinned
           /\ chain' = [chain EXCEPT !.threads[t].posts = Append(@, [deleted |-> FALSE]),
                                     !.bumps = IF bumped THEN Append(@, t) ELSE @]
      /\ Elsewhere

SetDeleted(t, i) ==
  /\ Emit(<<Envelope(<<t, i>>, "set_deleted", ~chain.threads[t].posts[i].deleted)>>)
  /\ chain' = [chain EXCEPT !.threads[t].posts[i].deleted = ~@]
  /\ Elsewhere

ThreadSetDeleted(t) ==
  /\ Emit(<<Envelope(<<t, 0>>, "thread_deleted", ~chain.threads[t].deleted)>>)
  /\ chain' = [chain EXCEPT !.threads[t].deleted = ~@]
  /\ Elsewhere

-----------------------------------------------------------------------------
\* applyBoard
Deliver ==
  /\ seen < Len(log)
  /\ LET batch == log[seen + 1]
         next == ApplyBatch(batch)
         first == batch[1].target
     IN  /\ data' = next.data
         /\ applied' = next.applied
         /\ drawn' = Ingested(data, next.data)
         /\ excused' = [excused EXCEPT
              !.counts = @ \cup {o[1] : o \in {e.target : e \in
                          {x \in ToSet(batch) : x.event \in {"thread", "set_deleted"}}}},
              !.threads = IF batch[1].event = "post" THEN @ \cup {first[1]} ELSE @]
  /\ seen' = seen + 1
  /\ UNCHANGED <<chain, pinned, log, more>>

\* loadMoreThreads, one at a time.
LoadMore ==
  /\ data.cursor # 0 /\ more.phase = "none"
  /\ chain.loads < MaxLoads /\ chain' = [chain EXCEPT !.loads = @ + 1]
  /\ more' = [NoMore EXCEPT !.phase = "asked", !.cursor = data.cursor]
  /\ UNCHANGED <<pinned, log, seen, data, applied, drawn, excused>>

ReadMore ==
  /\ more.phase = "asked"
  /\ more' = [more EXCEPT !.phase = "read", !.page = PageAt(more.cursor), !.at = Len(log)]
  /\ UNCHANGED <<chain, pinned, log, seen, data, applied, drawn, excused>>

MergedMutant(d, page) ==
  [d EXCEPT !.threads = @ \o page.threads, !.ops = page.ops @@ @, !.last3 = page.last3 @@ @,
            !.cursor = page.cursor]

\* The threads of the page that are there already stay as they are, but the
\* posts are those of the page.
Merged(d, page) ==
  [d EXCEPT !.threads = @ \o SelectSeq(page.threads, LAMBDA c : c.id \notin Ids(d)),
            !.ops = page.ops @@ @, !.last3 = page.last3 @@ @, !.cursor = page.cursor]

EventsAmong(from, upto) == UNION {ToSet(log[k]) : k \in from + 1 .. upto}

\* Threads of a page, read after at transactions, that the events have left
\* behind when it arrives, after upto; and those with a reply whose event is
\* still to come, but which the page has already cut off.
Overtaken(page, at, upto) ==
  {e.target[1] : e \in EventsAmong(at, upto)} \cap Ids(page)

Resurfacing(page, at, upto) ==
  {t \in Ids(page) : \E e \in EventsAmong(upto, at) :
     /\ e.event = "post" /\ e.target[1] = t /\ e.target[2] > 1
     /\ \A k \in DOMAIN page.last3[t] : page.last3[t][k].id # e.target}

MoreLands ==
  /\ more.phase = "read"
  /\ LET next == Merged(data, more.page)
         kept == {<<t, 0>> : t \in Ids(data)}
         behind == Overtaken(more.page, more.at, seen)
         ahead == Resurfacing(more.page, more.at, seen)
     IN  /\ data' = next
         /\ applied' = Counters(next, [o \in Objects |->
                          IF o[1] \in Ids(more.page) /\ o \notin kept THEN more.at ELSE applied[o]])
         /\ drawn' = Ingested(data, next)
         /\ excused' = [excused EXCEPT !.lost = @ \cup behind \cup ahead,
                                       !.counts = @ \cup behind]
  /\ more' = NoMore
  /\ UNCHANGED <<chain, pinned, log, seen>>

MoreFails ==
  /\ more.phase \in {"asked", "read"}
  /\ more' = NoMore
  /\ UNCHANGED <<chain, pinned, log, seen, data, applied, drawn, excused>>

\* loadBoard again, after the connection broke.  The events from the new
\* connection on were kept and are applied to the page, which may contain them.
\* A further page that is being loaded goes on.
Reload ==
  /\ chain.loads < MaxLoads /\ chain' = [chain EXCEPT !.loads = @ + 1]
  /\ seen' \in seen .. Len(log)
  /\ data' = FirstPage
  /\ applied' = Counters(data', [o \in Objects |-> Len(log)])
  /\ drawn' = Drawing(data')
  /\ excused' = [NothingExcused EXCEPT !.lost = Resurfacing(data', Len(log), seen'),
                                        !.skipped = more.phase # "none"]
  /\ UNCHANGED <<pinned, log, more>>

Next ==
  \/ NewThread
  \/ \E t \in DOMAIN chain.threads :
       \/ NewPost(t) \/ ThreadSetDeleted(t)
       \/ \E i \in DOMAIN chain.threads[t].posts : SetDeleted(t, i)
  \/ Deliver \/ LoadMore \/ ReadMore \/ MoreLands \/ MoreFails \/ Reload

Spec == Init /\ [][Next]_vars

-----------------------------------------------------------------------------
\* Well-typed states.
TypeOK ==
  /\ seen \in 0 .. Len(log)
  /\ applied \in [Objects -> 0 .. Len(log)]
  /\ Ids(data) \subseteq DOMAIN data.ops /\ Ids(data) \subseteq DOMAIN data.last3
  /\ Ids(data) \subseteq DOMAIN chain.threads
  /\ \A t \in DOMAIN data.last3 : Len(data.last3[t]) <= Preview
  /\ data.cursor \in 0 .. Len(chain.bumps) + 1

\* What is drawn is what drawing the whole page anew would give, although only
\* the posts that ingestBoard (store.ts:572-626) finds changed are drawn.
RowsCurrent ==
  LET now == Drawing(data)
  IN  /\ drawn.rows = now.rows
      /\ \A uid \in DOMAIN now.records :
           uid \in DOMAIN drawn.records /\ drawn.records[uid] = now.records[uid]

\* However threads are bumped while the user pages, every thread is listed once,
\* and once everything has arrived and the last page is reached every thread of
\* the board is listed (board.rs:351-377, store.ts:380).  Excepted are threads
\* whose opening post came before the thread itself in its batch (batch.ts:158)
\* and boards that were reloaded while a further page was loading, which is then
\* added to a list it does not continue (store.ts:379).
PagesComplete ==
  /\ \A j, k \in DOMAIN data.threads : data.threads[j].id = data.threads[k].id => j = k
  /\ seen = Len(log) /\ data.cursor = 0 /\ ~excused.skipped =>
       DOMAIN chain.threads \ excused.threads \subseteq Ids(data)

\* Once every event has arrived the threads on the page are as on the chain,
\* with their last replies, and so are the counts.  Excepted are threads whose
\* events came while a page with them was on its way (store.ts:383-405: the page
\* replaces the posts and its counters those of the events), threads with a reply
\* that the page had cut off when its event came (batch.ts:188: it is taken for a
\* new one and replaces a newer), and the counts of
\* threads that began before the eyes of the user (batch.ts:151: the opening
\* post is not counted) or that had posts deleted (no event of a board's page
\* changes posts_deleted).
BoardIsChain ==
  seen = Len(log) =>
    \A t \in Ids(data) \ excused.lost :
      LET copy == CopyOf(data, t)
      IN  /\ copy.deleted = chain.threads[t].deleted
          /\ data.ops[t] = PostCopy(t, 1)
          /\ data.last3[t] = Replies(t)
          /\ t \notin excused.counts => copy.count = Cardinality(Live(chain.threads[t]))

\* Every further page continues where the one before ended, so that paging
\* ends, unless the pinned threads fill a page (board.rs:360).
Advances == MoreLands => more.page.cursor < more.cursor \/ Cardinality(pinned) >= PageThreads

PagingAdvances == [][Advances]_vars

\* The list of threads, what is drawn of them and the chain agree.
BoardViewSafety == TypeOK /\ RowsCurrent /\ PagesComplete /\ BoardIsChain
=============================================================================
