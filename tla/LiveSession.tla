----------------------------- MODULE LiveSession -----------------------------
(***************************************************************************)
(* A browser that keeps the page it shows up to date: navigation and       *)
(* loading (App.tsx run), the connection on which the relay sends what     *)
(* happens in the scope of one page (client.ts, realtime.rs sse_scope),    *)
(* and what both do to the page in the store.  Loading takes several       *)
(* awaits; a newer load supersedes an older one, which goes on             *)
(* nevertheless.                                                           *)
(*                                                                         *)
(* What happens in a scope is counted; a page shows a set of events.  What *)
(* an event does to a page is in ThreadReplay.                             *)
(***************************************************************************)
EXTENDS Integers, Sequences, Registry

CONSTANTS
  Threads, Boards, \* pages; to load a thread its address is looked up first
  MaxEvents,       \* bound: events of each scope
  MaxRuns,         \* bound: loads
  MaxErrors        \* bound: errors of the connection

Scopes == Threads \cup Boards

ASSUME SessionAssumption ==
  /\ Threads \cap Boards = {} /\ Boards # {}
  /\ MaxEvents \in Nat /\ MaxRuns \in Nat \ {0} /\ MaxErrors \in Nat

VARIABLES
  events, \* scope -> events on the chain
  sent,   \* scope -> those the observer has sent to subscribers
  route,  \* the page the user is at
  generation, \* number of the newest load
  runs,   \* loads under way: number -> how far
  error,  \* the last load failed
  page,   \* what the store has
  conn,   \* the EventSource
  client, \* the RealtimeClient
  stray,  \* history: the connection is not the one of the page's load
  late,   \* history: the page was read before the relay subscribed the browser
  errors  \* counts up to its bound

vars == <<events, sent, route, generation, runs, error, page, conn, client, stray, late, errors>>

Message == Scopes \X (Nat \ {0})
Run == [scope : Scopes, step : {"uid", "fetch", "read"}, at : Nat]
Page == [scope : Scopes, shows : SUBSET Message, tainted : BOOLEAN]
Conn == [state : {"connecting", "subscribed", "open", "dead"}, queue : Seq(Message), since : Nat]
Client ==
  [scope : Scopes, buffering : BOOLEAN, live : BOOLEAN, pendingCommit : BOOLEAN,
   pending : Seq(Message)]

Connecting == [state |-> "connecting", queue |-> <<>>, since |-> 0]
Events(s, n) == {s} \X (1 .. n)

-----------------------------------------------------------------------------
\* What happens elsewhere.

Happen(s) ==
  /\ events[s] < MaxEvents
  /\ events' = [events EXCEPT ![s] = @ + 1]
  /\ UNCHANGED <<sent, route, generation, runs, error, page, conn, client, stray, late, errors>>

Subscribed == conn.state \in {"subscribed", "open"}

NextMessage(s) == <<s, sent[s] + 1>>

\* The observer hands the event to those who are subscribed at this moment.
Publish(s) ==
  /\ sent[s] < events[s]
  /\ sent' = [sent EXCEPT ![s] = @ + 1]
  /\ conn' = IF Subscribed /\ client.scope = s
             THEN [conn EXCEPT !.queue = Append(@, NextMessage(s))] ELSE conn
  /\ UNCHANGED <<events, route, generation, runs, error, page, client, stray, late, errors>>

-----------------------------------------------------------------------------
\* RealtimeClient begin and commit.

\* The connection c is kept when the scope is the same.
Begun(s, c) ==
  /\ client' = [scope |-> s, buffering |-> TRUE, live |-> FALSE, pendingCommit |-> TRUE,
                pending |-> <<>>]
  /\ conn' = IF client.scope = s THEN c ELSE Connecting

\* store.applyBatch on a page, which does not look at the scope.
Applied(p, messages) ==
  [p EXCEPT !.shows = @ \cup Range(messages), !.tainted = @ \/ (stray /\ messages # <<>>)]

CommittedHeldMutant(p) ==
  /\ page' = Applied(p, client.pending)
  /\ client' = [client EXCEPT !.live = TRUE, !.pending = <<>>, !.pendingCommit = FALSE]

Committed(p) ==
  /\ page' = Applied(p, client.pending)
  /\ client' = [client EXCEPT !.live = TRUE, !.buffering = FALSE, !.pending = <<>>,
                              !.pendingCommit = FALSE]

-----------------------------------------------------------------------------
\* Loads: run in App.tsx, one action from one await to the next.

\* A board's address is known, so that its load begins at once; a connection c
\* that has just opened without anybody waiting for it starts to buffer anew.
Start(s, c, buffering) ==
  /\ generation < MaxRuns
  /\ generation' = generation + 1
  /\ runs' = Put(runs, generation + 1,
       [scope |-> s, step |-> IF s \in Threads THEN "uid" ELSE "fetch", at |-> 0])
  /\ error' = FALSE
  /\ IF s \in Boards THEN Begun(s, c) /\ stray' = FALSE
     ELSE /\ client' = IF buffering
                       THEN [client EXCEPT !.buffering = TRUE, !.live = FALSE, !.pending = <<>>]
                       ELSE client
          /\ conn' = c
          /\ UNCHANGED stray

Navigate(s) ==
  /\ s # route
  /\ route' = s
  /\ Start(s, conn, FALSE)
  /\ UNCHANGED <<events, sent, page, late, errors>>

\* getThreadUid has answered.  Whether the load is still the newest is not asked.
BeginThread(g) ==
  /\ runs[g].step = "uid"
  /\ runs' = [runs EXCEPT ![g].step = "fetch"]
  /\ Begun(runs[g].scope, conn)
  /\ stray' = (g # generation)
  /\ UNCHANGED <<events, sent, route, generation, error, page, late, errors>>

\* getThreadUid fails, and nothing has begun that would have to be committed.
NoThread(g) ==
  /\ runs[g].step = "uid"
  /\ runs' = Drop(runs, {g})
  /\ error' = (error \/ g = generation)
  /\ UNCHANGED <<events, sent, route, generation, page, conn, client, stray, late, errors>>

\* The relay reads the page.
ReadPage(g) ==
  /\ runs[g].step = "fetch"
  /\ runs' = [runs EXCEPT ![g].step = "read", ![g].at = events[runs[g].scope]]
  /\ UNCHANGED <<events, sent, route, generation, error, page, conn, client, stray, late, errors>>

\* The page is there.  A superseded load ends without a trace.
NewestMutant(g) == TRUE

Newest(g) == g = generation

Finish(g) ==
  LET run == runs[g]
  IN  /\ run.step = "read"
      /\ runs' = Drop(runs, {g})
      /\ IF Newest(g)
         THEN /\ Committed([scope |-> run.scope, shows |-> Events(run.scope, run.at), tainted |-> FALSE])
              /\ late' = (Subscribed /\ run.at < conn.since)
         ELSE UNCHANGED <<page, client, late>>
      /\ UNCHANGED <<events, sent, route, generation, error, conn, stray, errors>>

\* The page cannot be loaded: what arrives is applied to the page there is.
NoPage(g) ==
  /\ runs[g].step \in {"fetch", "read"}
  /\ runs' = Drop(runs, {g})
  /\ IF Newest(g)
     THEN /\ error' = TRUE
          /\ stray' = TRUE
          /\ Committed([page EXCEPT !.tainted = TRUE])
     ELSE UNCHANGED <<error, stray, client, page>>
  /\ UNCHANGED <<events, sent, route, generation, conn, late, errors>>

-----------------------------------------------------------------------------
\* The connection.

\* The relay's handler subscribes to the channel before it answers.
Subscribe ==
  /\ conn.state = "connecting"
  /\ conn' = [state |-> "subscribed", queue |-> <<>>, since |-> sent[client.scope]]
  /\ UNCHANGED <<events, sent, route, generation, runs, error, page, client, stray, late, errors>>

\* onopen: a page that is being loaded is taken to be recent enough, any other
\* one is loaded again.
ReloadsMutant == FALSE

Reloads == ~client.pendingCommit

Open ==
  LET opened == [conn EXCEPT !.state = "open"]
  IN  /\ conn.state = "subscribed"
      /\ IF Reloads
         THEN Start(route, opened, TRUE)
         ELSE conn' = opened /\ UNCHANGED <<generation, runs, error, client, stray>>
      /\ UNCHANGED <<events, sent, route, page, late, errors>>

\* onmessage
Receive ==
  /\ conn.state = "open" /\ conn.queue # <<>>
  /\ conn' = [conn EXCEPT !.queue = Tail(@)]
  /\ client' = IF client.buffering THEN [client EXCEPT !.pending = Append(@, Head(conn.queue))]
               ELSE client
  /\ page' = IF ~client.buffering /\ client.live THEN Applied(page, <<Head(conn.queue)>>) ELSE page
  /\ UNCHANGED <<events, sent, route, generation, runs, error, stray, late, errors>>

\* onerror.  The browser connects again by itself, unless the relay answered
\* with an error.
Break ==
  /\ conn.state # "dead"
  /\ errors < MaxErrors /\ errors' = errors + 1
  /\ \/ conn' = Connecting
     \/ conn.state = "connecting" /\ conn' = [Connecting EXCEPT !.state = "dead"]
  /\ client' = [client EXCEPT !.pendingCommit = FALSE]
  /\ UNCHANGED <<events, sent, route, generation, runs, error, page, stray, late>>

-----------------------------------------------------------------------------
\* The browser opens at a board.
Init ==
  /\ events = [s \in Scopes |-> 0] /\ sent = events
  /\ \E s \in Boards :
       /\ route = s
       /\ runs = Put(NoEntries, 1, [scope |-> s, step |-> "fetch", at |-> 0])
       /\ page = [scope |-> s, shows |-> {}, tainted |-> FALSE]
       /\ client = [scope |-> s, buffering |-> TRUE, live |-> FALSE, pendingCommit |-> TRUE,
                    pending |-> <<>>]
  /\ generation = 1
  /\ conn = Connecting
  /\ error = FALSE /\ stray = FALSE /\ late = FALSE
  /\ errors = 0

Advance(g) == BeginThread(g) \/ NoThread(g) \/ ReadPage(g) \/ Finish(g) \/ NoPage(g)

Next ==
  \/ \E s \in Scopes : Happen(s) \/ Publish(s) \/ Navigate(s)
  \/ \E g \in DOMAIN runs : Advance(g)
  \/ Subscribe \/ Open \/ Receive \/ Break

Spec == Init /\ [][Next]_vars

\* Requests end, with a page or an error, and the browser runs its tasks.
FairSpec ==
  /\ Spec
  /\ \A g \in 1 .. MaxRuns : WF_vars(g \in DOMAIN runs /\ Advance(g))
  /\ WF_vars(Subscribe) /\ WF_vars(Open) /\ WF_vars(Receive)
  /\ \A s \in Scopes : WF_vars(Publish(s))

-----------------------------------------------------------------------------
\* Well-typed states; the observer never sends what has not happened.
TypeOK ==
  /\ events \in [Scopes -> Nat] /\ sent \in [Scopes -> Nat]
  /\ \A s \in Scopes : sent[s] <= events[s]
  /\ route \in Scopes
  /\ generation \in 1 .. MaxRuns
  /\ DOMAIN runs \subseteq 1 .. generation /\ runs \in [DOMAIN runs -> Run]
  /\ page \in Page /\ conn \in Conn /\ client \in Client
  /\ {error, stray, late} \subseteq BOOLEAN

\* A page shows what happened in its own scope only, although events are applied
\* to whatever page the store has.  Excepted are pages to which events were
\* applied while the connection was another load's: one that was superseded
\* before it began, or one that failed.
OwnEvents == page.tainted \/ page.shows \subseteq {page.scope} \X Nat

\* The page has no events of another page, and none that did not happen.
SessionSafety == TypeOK /\ OwnEvents

Settled ==
  /\ DOMAIN runs = {} /\ sent = events
  /\ conn.state = "open" /\ conn.queue = <<>>

\* When nothing is under way, the page is the one the user is at and shows all
\* that happened there, over navigation, superseded loads and connections that
\* broke.  Excepted are a page that could not be loaded, a connection of another
\* load than the newest, and a page read before the relay had subscribed the
\* browser, when the subscription was confirmed while the page was loading.
UpToDate ==
  Settled /\ ~error /\ ~stray /\ ~late
    => page.scope = route /\ Events(route, events[route]) \subseteq page.shows

\* Events are not kept back for ever: time and again nothing is waiting for a
\* page to be loaded, unless the loading failed or a superseded load began last.
NotHeldBack == []<>(~client.buffering \/ error \/ stray)
=============================================================================
