----------------------------- MODULE RelayCache -----------------------------
(***************************************************************************)
(* The cached page of one thread, at several relays (cache.rs, thread.rs   *)
(* fetch and get_or_build, invalidate.rs).  Each relay has a cache in      *)
(* memory (L1); all of them share one in Dragonfly (L2), which also keeps  *)
(* the thread's generation and a channel on which relays tell each other   *)
(* what to drop.  Nothing expires: a page that is stale stays stale until  *)
(* its key changes or somebody drops it.                                   *)
(*                                                                         *)
(* Four kinds of changes reach the page.  A post changes its key.  A       *)
(* reaction changes the generation and so its key.  The moderation of a    *)
(* post drops the pages of its thread under any key.  A setting of a board *)
(* or thread drops everything, generations included, and so does a relay   *)
(* whose subscription was interrupted.                                     *)
(*                                                                         *)
(* Every call of Dragonfly or of the chain is a step of its own, for       *)
(* readers and for invalidations.  A page is the set of changes it shows.  *)
(* History fields (owed, late, flushed, outdated) serve the properties.    *)
(***************************************************************************)
EXTENDS Integers, FiniteSets, Sequences, Registry

CONSTANTS
  Relays,       \* processes that serve pages and send intents
  Readers,      \* requests for the page; a request that ended may come again
  Posts, Reactions, Moderations, Settings, \* changes, each made once at most
  MaxChanges,   \* bound: changes made in one behaviour
  MaxReads,     \* bound: requests for the page
  MaxOutages    \* bound: interruptions of subscriptions

Changes == Posts \cup Reactions \cup Moderations \cup Settings

ASSUME CacheAssumption ==
  /\ IsFiniteSet(Changes)
  /\ Posts \cap (Reactions \cup Moderations \cup Settings) = {}
  /\ Reactions \cap (Moderations \cup Settings) = {}
  /\ Moderations \cap Settings = {}
  /\ MaxChanges \in Nat /\ MaxReads \in Nat /\ MaxOutages \in Nat

VARIABLES
  applied,  \* the changes that are on the chain
  changes,  \* each change: what its relay still has to do for it
  gen,      \* the thread's generation in Dragonfly
  l2,       \* key -> page, in Dragonfly
  l1,       \* relay -> key -> page, in memory
  inbox,    \* relay -> messages on their way to it
  links,    \* relay -> state of its subscription
  readers,  \* each request: how far it is
  outdated, \* relays whose L1 has pages of generations that were reset since
  reads, outages \* count up to the bounds

vars == <<applied, changes, gen, l2, l1, inbox, links, readers, outdated, reads, outages>>

Keys == Nat \X Nat \* posts of the thread, generation
Page == [shows : SUBSET Changes, late : BOOLEAN, flushed : BOOLEAN]
NoPage == [shows |-> {}, late |-> FALSE, flushed |-> FALSE]

Jobs == {"incr", "scan", "del", "gens", "publish"}
Change ==
  [phase : {"new", "applied", "running", "lost"}, failed : BOOLEAN,
   relay : SUBSET Relays, \* the relay that sent it, once there is one
   jobs : SUBSET Jobs, keys : SUBSET Keys]

Link == [up : BOOLEAN, jobs : SUBSET Jobs, keys : SUBSET Keys]

Reader ==
  [phase : {"idle", "loaded", "missed", "found", "building", "built", "storing", "done"},
   relay : Relays, first : SUBSET Changes, key : Keys, page : Page,
   caching : BOOLEAN,
   owed : SUBSET Changes,  \* changes whose invalidation was over when it began
   late : BOOLEAN,         \* an invalidation that drops pages was under way meanwhile
   flushed : BOOLEAN]      \* one that resets the generations was

-----------------------------------------------------------------------------
Running(c) == changes[c].jobs # {}
Over(c) == changes[c].phase = "running" /\ changes[c].jobs = {} /\ ~changes[c].failed

\* What the invalidation of a change consists of (invalidate::apply).
JobsOf(c) ==
  CASE c \in Posts       -> {}
    [] c \in Reactions   -> {"incr"}
    [] c \in Moderations -> {"scan", "del", "publish"}
    [] c \in Settings    -> {"scan", "del", "gens", "publish"}

Flushing == (\E c \in Settings : Running(c)) \/ \E r \in Relays : links[r].jobs # {}

Dropping(r) ==
  \/ Flushing
  \/ \E c \in Moderations : Running(c)
  \/ inbox[r] # {} \/ ~links[r].up

Active(q) == q.phase \notin {"idle", "done"}

\* Requests under way when an invalidation begins.
Overtaken(flush) ==
  [q \in Readers |->
     IF Active(readers[q])
     THEN [readers[q] EXCEPT !.late = TRUE, !.flushed = @ \/ flush]
     ELSE readers[q]]

-----------------------------------------------------------------------------
IdleReader(r) ==
  [phase |-> "idle", relay |-> r, first |-> {}, key |-> <<0, 0>>, page |-> NoPage,
   caching |-> TRUE, owed |-> {}, late |-> FALSE, flushed |-> FALSE]

Init ==
  /\ applied = {}
  /\ changes = [c \in Changes |->
       [phase |-> "new", failed |-> FALSE, relay |-> {}, jobs |-> {}, keys |-> {}]]
  /\ gen = 0
  /\ l2 = NoEntries
  /\ l1 = [r \in Relays |-> NoEntries]
  /\ inbox = [r \in Relays |-> {}]
  /\ links = [r \in Relays |-> [up |-> TRUE, jobs |-> {}, keys |-> {}]]
  /\ \E at \in [Readers -> Relays] : readers = [q \in Readers |-> IdleReader(at[q])]
  /\ outdated = {}
  /\ reads = 0 /\ outages = 0

-----------------------------------------------------------------------------
\* Reading the page: thread::fetch with Cache::get_or_build.

Goes(q, phase) == readers' = [readers EXCEPT ![q] = [@ EXCEPT !.phase = phase]]
Answers(q, page) ==
  readers' = [readers EXCEPT ![q] =
    [@ EXCEPT !.phase = "done", !.page = page, !.key = <<0, 0>>]]

\* load_thread: the object of the thread, with its settings and its counter.
Load(q) ==
  /\ readers[q].phase \in {"idle", "done"}
  /\ reads < MaxReads /\ reads' = reads + 1
  /\ LET r == readers[q].relay
     IN  readers' = [readers EXCEPT ![q] =
           [IdleReader(r) EXCEPT
              !.phase = "loaded", !.first = applied,
              !.owed = {c \in Changes : Over(c)},
              !.late = Dropping(r), !.flushed = Flushing]]
  /\ UNCHANGED <<applied, changes, gen, l2, l1, inbox, links, outdated, outages>>

KeyMutant(first, g) == <<0, g>>

Key(first, g) == <<Cardinality(first \cap Posts), g>>

\* gen_get, which gives 0 when Dragonfly fails, and then the look into L1.
GetGen(q) ==
  /\ readers[q].phase = "loaded"
  /\ \E g \in {gen, 0} :
       LET key == Key(readers[q].first, g)
           r == readers[q].relay
           flushed == readers[q].flushed \/ g # gen \/ r \in outdated
       IN  readers' = [readers EXCEPT ![q] =
             IF key \in DOMAIN l1[r]
             THEN [@ EXCEPT !.phase = "done", !.flushed = flushed, !.page = l1[r][key]]
             ELSE [@ EXCEPT !.phase = "missed", !.key = key, !.flushed = flushed]]
  /\ UNCHANGED <<applied, changes, gen, l2, l1, inbox, links, outdated, reads, outages>>

\* l2_get: a page, or none, or an error, after which nothing is cached.
LookIntoL2(q) ==
  /\ readers[q].phase = "missed"
  /\ \/ /\ readers[q].key \in DOMAIN l2
        /\ readers' = [readers EXCEPT ![q] =
             [@ EXCEPT !.phase = "found", !.page = l2[readers[q].key]]]
     \/ readers[q].key \notin DOMAIN l2 /\ Goes(q, "building")
     \/ readers' = [readers EXCEPT ![q] = [@ EXCEPT !.phase = "building", !.caching = FALSE]]
  /\ UNCHANGED <<applied, changes, gen, l2, l1, inbox, links, outdated, reads, outages>>

\* A page once the request has passed on what it knows to be doubtful.
Marked(page, q) ==
  [page EXCEPT !.late = @ \/ readers[q].late, !.flushed = @ \/ readers[q].flushed]

InL1(q, page) == [l1 EXCEPT ![readers[q].relay] = Put(@, readers[q].key, page)]

\* What L2 had goes into L1.
CopyToL1(q) ==
  /\ readers[q].phase = "found"
  /\ l1' = InL1(q, Marked(readers[q].page, q))
  /\ Answers(q, Marked(readers[q].page, q))
  /\ UNCHANGED <<applied, changes, gen, l2, inbox, links, outdated, reads, outages>>

\* The thread as it was loaded with the posts as they are now.
Shown(q) ==
  (readers[q].first \cap (Posts \cup Settings)) \cup (applied \cap (Reactions \cup Moderations))

Build(q) ==
  /\ readers[q].phase = "building"
  /\ LET page == [NoPage EXCEPT !.shows = Shown(q)]
     IN  IF readers[q].caching
         THEN readers' = [readers EXCEPT ![q] = [@ EXCEPT !.phase = "built", !.page = page]]
         ELSE Answers(q, page)
  /\ UNCHANGED <<applied, changes, gen, l2, l1, inbox, links, outdated, reads, outages>>

StoreInL1(q) ==
  /\ readers[q].phase = "built"
  /\ l1' = InL1(q, Marked(readers[q].page, q))
  /\ Goes(q, "storing")
  /\ UNCHANGED <<applied, changes, gen, l2, inbox, links, outdated, reads, outages>>

\* l2_put, or an error of it.
StoreInL2(q) ==
  /\ readers[q].phase = "storing"
  /\ l2' \in {l2, Put(l2, readers[q].key, Marked(readers[q].page, q))}
  /\ Answers(q, Marked(readers[q].page, q))
  /\ UNCHANGED <<applied, changes, gen, l1, inbox, links, outdated, reads, outages>>

\* The client goes away, or the page cannot be built.
Abandon(q) ==
  /\ Active(readers[q])
  /\ readers' = [readers EXCEPT ![q] = IdleReader(@.relay)]
  /\ UNCHANGED <<applied, changes, gen, l2, l1, inbox, links, outdated, reads, outages>>

-----------------------------------------------------------------------------
\* Changes and their invalidation: handle_send after the broadcast.

Apply(c) ==
  /\ changes[c].phase = "new"
  /\ Cardinality(applied) < MaxChanges
  /\ applied' = applied \cup {c}
  /\ \E r \in Relays :
       changes' = [changes EXCEPT ![c] =
         [@ EXCEPT !.phase = IF JobsOf(c) = {} THEN "running" ELSE "applied",
                   !.relay = {r}, !.jobs = JobsOf(c)]]
  /\ readers' = IF c \in Moderations \cup Settings THEN Overtaken(c \in Settings) ELSE readers
  /\ UNCHANGED <<gen, l2, l1, inbox, links, outdated, reads, outages>>

\* The relay never learns that the transaction was executed, or it stops, or
\* the client goes away and the request ends with it.
Lose(c) ==
  /\ changes[c].phase = "applied" \/ Running(c)
  /\ changes' = [changes EXCEPT ![c] = [@ EXCEPT !.phase = "lost", !.relay = {}, !.jobs = {}, !.keys = {}]]
  /\ UNCHANGED <<applied, gen, l2, l1, inbox, links, readers, outdated, reads, outages>>

\* First the relay's own L1, without waiting for anything.
BeginInvalidation(c) ==
  LET emptied == IF c \in Reactions THEN {} ELSE changes[c].relay
  IN  /\ changes[c].phase = "applied"
      /\ changes' = [changes EXCEPT ![c] = [@ EXCEPT !.phase = "running"]]
      /\ l1' = [r \in Relays |-> IF r \in emptied THEN NoEntries ELSE l1[r]]
      /\ outdated' = outdated \ emptied
      /\ UNCHANGED <<applied, gen, l2, inbox, links, readers, reads, outages>>

\* Within one invalidation: pages are looked for, deleted, then the generations;
\* a flush publishes last, the moderation of a post at any time.
Ready(c, job) ==
  /\ changes[c].phase = "running" /\ job \in changes[c].jobs
  /\ CASE job = "del" -> "scan" \notin changes[c].jobs
       [] job = "gens" -> "del" \notin changes[c].jobs
       [] job = "publish" -> c \in Settings => "gens" \notin changes[c].jobs
       [] OTHER -> TRUE

Done(c, job, keys) ==
  changes' = [changes EXCEPT ![c].jobs = @ \ {job}, ![c].keys = keys]

NextGen == gen + 1

Increment(c) ==
  /\ Ready(c, "incr")
  /\ gen' = NextGen
  /\ Done(c, "incr", {})
  /\ UNCHANGED <<applied, l2, l1, inbox, links, readers, outdated, reads, outages>>

Scan(c) ==
  /\ Ready(c, "scan")
  /\ Done(c, "scan", DOMAIN l2)
  /\ UNCHANGED <<applied, gen, l2, l1, inbox, links, readers, outdated, reads, outages>>

Delete(c) ==
  /\ Ready(c, "del")
  /\ l2' = Drop(l2, changes[c].keys)
  /\ Done(c, "del", {})
  /\ UNCHANGED <<applied, gen, l1, inbox, links, readers, outdated, reads, outages>>

ResetGens(c) ==
  /\ Ready(c, "gens")
  /\ gen' = 0
  /\ outdated' = outdated \cup (Relays \ changes[c].relay)
  /\ Done(c, "gens", {})
  /\ UNCHANGED <<applied, l2, l1, inbox, links, readers, reads, outages>>

\* A message reaches the relays that are subscribed at this moment.
SentMutant(c) == inbox

Sent(c) == [r \in Relays |-> IF links[r].up THEN inbox[r] \cup {c} ELSE inbox[r]]

Publish(c) ==
  /\ Ready(c, "publish")
  /\ inbox' = Sent(c)
  /\ Done(c, "publish", changes[c].keys)
  /\ UNCHANGED <<applied, gen, l2, l1, links, readers, outdated, reads, outages>>

\* What is not done when a call fails: the rest of l2_pattern_del and l2_flush.
Skipped(job) ==
  CASE job = "scan" -> {"scan", "del", "gens"}
    [] job = "del"  -> {"del", "gens"}
    [] OTHER        -> {job}

\* An error of Dragonfly is logged and the other calls go on.
Fail(c, job) ==
  /\ Ready(c, job)
  /\ changes' = [changes EXCEPT ![c].failed = TRUE, ![c].jobs = @ \ Skipped(job)]
  /\ UNCHANGED <<applied, gen, l2, l1, inbox, links, readers, outdated, reads, outages>>

\* The listener of relay r drops what the message names.
Receive(r, c) ==
  /\ c \in inbox[r]
  /\ inbox' = [inbox EXCEPT ![r] = @ \ {c}]
  /\ l1' = [l1 EXCEPT ![r] = NoEntries]
  /\ outdated' = outdated \ {r}
  /\ UNCHANGED <<applied, changes, gen, l2, links, readers, reads, outages>>

\* L1 is bounded in size (L1_MAX_BYTES) and lets go of pages.
Evict(r) ==
  /\ \E key \in DOMAIN l1[r] : l1' = [l1 EXCEPT ![r] = Drop(@, {key})]
  /\ UNCHANGED <<applied, changes, gen, l2, inbox, links, readers, outdated, reads, outages>>

-----------------------------------------------------------------------------
\* The subscription of a relay.

\* What was on its way is lost.
Disconnect(r) ==
  /\ links[r].up
  /\ outages < MaxOutages /\ outages' = outages + 1
  /\ links' = [links EXCEPT ![r] = [up |-> FALSE, jobs |-> {}, keys |-> {}]]
  /\ inbox' = [inbox EXCEPT ![r] = {}]
  /\ UNCHANGED <<applied, changes, gen, l2, l1, readers, outdated, reads>>

\* on_reconnect flushes both caches, but the L1 of this relay only.
Reconnect(r) ==
  /\ ~links[r].up
  /\ links' = [links EXCEPT ![r] = [up |-> TRUE, jobs |-> {"scan", "del", "gens"}, keys |-> {}]]
  /\ l1' = [l1 EXCEPT ![r] = NoEntries]
  /\ outdated' = outdated \ {r}
  /\ readers' = Overtaken(TRUE)
  /\ UNCHANGED <<applied, changes, gen, l2, inbox, reads, outages>>

FlushStep(r, job, keys) ==
  /\ links[r].up /\ job \in links[r].jobs
  /\ links' = [links EXCEPT ![r].jobs = @ \ {job}, ![r].keys = keys]

FlushScan(r) ==
  /\ FlushStep(r, "scan", DOMAIN l2)
  /\ UNCHANGED <<applied, changes, gen, l2, l1, inbox, readers, outdated, reads, outages>>

FlushDelete(r) ==
  /\ "scan" \notin links[r].jobs
  /\ FlushStep(r, "del", {})
  /\ l2' = Drop(l2, links[r].keys)
  /\ UNCHANGED <<applied, changes, gen, l1, inbox, readers, outdated, reads, outages>>

FlushGens(r) ==
  /\ "del" \notin links[r].jobs
  /\ FlushStep(r, "gens", {})
  /\ gen' = 0
  /\ outdated' = outdated \cup (Relays \ {r})
  /\ UNCHANGED <<applied, changes, l2, l1, inbox, readers, reads, outages>>

FlushFails(r) ==
  /\ links[r].jobs # {}
  /\ links' = [links EXCEPT ![r] = [@ EXCEPT !.jobs = {}, !.keys = {}]]
  /\ UNCHANGED <<applied, changes, gen, l2, l1, inbox, readers, outdated, reads, outages>>

-----------------------------------------------------------------------------
Read(q) ==
  \/ Load(q) \/ GetGen(q) \/ LookIntoL2(q) \/ CopyToL1(q)
  \/ Build(q) \/ StoreInL1(q) \/ StoreInL2(q) \/ Abandon(q)

Make(c) ==
  \/ Apply(c) \/ Lose(c) \/ BeginInvalidation(c)
  \/ Increment(c) \/ Scan(c) \/ Delete(c) \/ ResetGens(c) \/ Publish(c)
  \/ \E job \in Jobs : Fail(c, job)

Listen(r) ==
  \/ \E c \in Changes : Receive(r, c)
  \/ Evict(r) \/ Disconnect(r) \/ Reconnect(r)
  \/ FlushScan(r) \/ FlushDelete(r) \/ FlushGens(r) \/ FlushFails(r)

Next ==
  \/ \E q \in Readers : Read(q)
  \/ \E c \in Changes : Make(c)
  \/ \E r \in Relays : Listen(r)

Spec == Init /\ [][Next]_vars

-----------------------------------------------------------------------------
PagesIn(cache) == DOMAIN cache \subseteq Keys /\ cache \in [DOMAIN cache -> Page]

\* Well-typed states.
TypeOK ==
  /\ applied \subseteq Changes
  /\ changes \in [Changes -> Change]
  /\ gen \in Nat
  /\ PagesIn(l2)
  /\ DOMAIN l1 = Relays /\ \A r \in Relays : PagesIn(l1[r])
  /\ inbox \in [Relays -> SUBSET Changes]
  /\ links \in [Relays -> Link]
  /\ readers \in [Readers -> Reader]
  /\ outdated \subseteq Relays

Answered == {q \in Readers : readers[q].phase = "done"}

\* A page shows the posts that were on the chain when it was asked for, all of
\* them and no others, whatever is cached where and whatever failed: the key
\* has the counter of the thread in it (thread.rs:258-263).
PostsSeen == \A q \in Answered :
  readers[q].page.shows \cap Posts = readers[q].first \cap Posts

\* Once a reaction has been acknowledged, no relay serves a page without it,
\* although only the generation tells them and no page is dropped.  Excepted are
\* the pages and requests that a reset of the generations overtook, and relays
\* that still have pages from before one another relay made when it reconnected.
ReactionsSeen == \A q \in Answered :
  LET reader == readers[q]
  IN  ~reader.flushed /\ ~reader.page.flushed
        => reader.owed \cap Reactions \subseteq reader.page.shows

\* Pages have all posts, and reactions once they are acknowledged.
CacheSafety == TypeOK /\ PostsSeen /\ ReactionsSeen

\* Once the moderation of a post or a setting has been acknowledged and has
\* reached a relay, the relay does not serve the page as it was before, unless
\* the page was read by a request that was under way during an invalidation.
ModerationSeen == \A q \in Answered :
  LET reader == readers[q]
  IN  ~reader.late /\ ~reader.page.late
        => reader.owed \cap (Moderations \cup Settings) \subseteq reader.page.shows
=============================================================================
