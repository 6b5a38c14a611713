---------------------------- MODULE MCBrowserCopy ----------------------------
(***************************************************************************)
(* What the browser knows of the chain, for TLC: the store of a thread,    *)
(* how the copies are read and replayed, the list of a board, and the      *)
(* formats.  A behaviour is one of one part, and the others borrow the     *)
(* variables of the store.                                                 *)
(***************************************************************************)
EXTENDS ThreadStore

CONSTANTS
  MaxLoads, MaxLosses,                                   \* ThreadReplay
  PageThreads, Preview, FirstThreads, PinnedSets, MaxThreads, MaxReplies, \* BoardView
  None, MaxEvents                                                      \* Formats

VARIABLES part, load, view, lost, txs, loads, losses

R == INSTANCE ThreadReplay WITH
  thread <- chain, posts <- log, feeds <- maps, open <- store, sealed <- fetches,
  stream <- reactions, channel <- edits, pending <- excused
B == INSTANCE BoardView WITH
  MaxPosts <- MaxReplies,
  pinned <- maps, data <- store, applied <- fetches, drawn <- reactions, more <- edits
F == INSTANCE Formats WITH
  kind <- chain, obj <- log, log <- maps, meant <- store, read <- fetches, copy <- reactions

ASSUME Assumptions == ThreadStoreAssumption /\ R!ReplayAssumption /\ B!BoardViewAssumption

ofReplay == <<load, view, lost, txs, loads, losses>>
rest == <<seen, edits, excused>>
allvars == <<vars, part, ofReplay>>

NoReplay == load = 0 /\ view = 0 /\ lost = 0 /\ txs = 0 /\ loads = 0 /\ losses = 0

MCInit ==
  \/ part = "store" /\ Init /\ NoReplay
  \/ part = "replay" /\ R!Init
  \/ part = "board" /\ B!Init /\ NoReplay
  \/ part = "formats" /\ F!Init /\ seen = 0 /\ edits = 0 /\ excused = 0 /\ NoReplay

MCNext ==
  \/ part = "store" /\ Next /\ UNCHANGED <<part, ofReplay>>
  \/ part = "replay" /\ R!Next /\ UNCHANGED part
  \/ part = "board" /\ B!Next /\ UNCHANGED <<part, ofReplay>>
  \/ part = "formats" /\ F!Next /\ UNCHANGED <<part, rest, ofReplay>>

MCSpec == MCInit /\ [][MCNext]_allvars

-----------------------------------------------------------------------------
\* The properties are those of the modules, each for its part.

\* The indexes, the drawn posts and the copy of the chain agree in the store.
StoreSafety == part = "store" => ThreadStoreSafety

\* Once all has arrived the copy of a thread is the thread on the chain, and its
\* posts are those of the feed, in its order.
ReplaySafety == part = "replay" => R!TypeOK /\ R!CopyAgrees /\ R!PostsInOrder

\* The list of threads, what is drawn of them and the chain agree.
BoardViewSafety == part = "board" => B!BoardViewSafety

\* Every further page of a board continues where the one before ended.
PagingAdvances == [][part = "board" => B!Advances]_allvars

\* Every version of an object and of an event is read as it was written.
FormatsSafety == part = "formats" => F!FormatsSafety
=============================================================================
