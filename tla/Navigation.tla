----------------------------- MODULE Navigation -----------------------------
(***************************************************************************)
(* Where the user is in the application: the addresses of pages            *)
(* (route.ts), the history of the browser as the application writes it     *)
(* (nav.tsx), and what App.tsx loads, subscribes to and shows as the       *)
(* address changes.                                                        *)
(*                                                                         *)
(* The application has one forum at a time, its context; an address may    *)
(* name another, and what is loaded is looked up by the name of its board  *)
(* alone.  A page that is thought to be loaded already is not loaded       *)
(* again; the page of the settings is not noted among those that were      *)
(* shown, and while a board is only written for nothing is subscribed to.  *)
(*                                                                         *)
(* How events reach a page that is loaded and subscribed to is in          *)
(* LiveSession.                                                            *)
(***************************************************************************)
EXTENDS Naturals, Sequences, FiniteSets

CONSTANTS
  Forums, Default,  \* the forums, and the one addresses need not name
  Slugs,            \* names of boards that addresses may have
  Known,            \* those there are, in every forum
  Nums,             \* numbers of threads and posts
  MaxSteps,         \* bounds: steps of the user other than moves within the history,
  MaxLoads          \* and loads under way when the user moves

NavigationAssumption ==
  /\ Default \in Forums /\ Known \subseteq Slugs /\ MaxSteps \in Nat /\ MaxLoads \in Nat
  /\ {"new", "settings", "forum", "key"} \cap (Nums \cup Forums) = {}
  /\ Slugs \cap (Nums \cup {"new"}) = {}

VARIABLES
  hist, pos,  \* the entries of the browser's history, and where it is
  canGoBack, lastPath,  \* of nav.tsx
  app,        \* the state of App.tsx
  runs,       \* loads under way
  shown,      \* the content of the store
  topic,      \* what is subscribed to
  stray,      \* a load that was overtaken subscribed last, for the properties
  popped,     \* the user has gone back, for the properties
  misled,     \* an address was written that leads to the settings instead, for the properties
  outside,    \* how the user has left the application
  left        \* what is left of the bound

vars == <<hist, pos, canGoBack, lastPath, app, runs, shown, topic, stray, popped, misled,
          outside, left>>

Nothing == "none"

Route(page, forum, slug, num, post) ==
  [page |-> page, forum |-> forum, slug |-> slug, num |-> num, post |-> post]

NoRoute == Route(Nothing, Nothing, Nothing, Nothing, Nothing)

BoardsRoute(forum) == Route("boards", forum, Nothing, Nothing, Nothing)

SettingsRoute(setting) == Route("settings", Nothing, setting, Nothing, Nothing)

Routes ==
  {BoardsRoute(f) : f \in Forums \cup {Nothing}}
    \cup {SettingsRoute(s) : s \in {Nothing, "key"}}
    \cup {Route(page, f, s, Nothing, Nothing) : page \in {"board", "compose"}, f \in Forums, s \in Slugs}
    \cup {Route("thread", f, s, n, p) : f \in Forums, s \in Slugs, n \in Nums, p \in Nums \cup {Nothing}}

-----------------------------------------------------------------------------
\* route.ts: addresses.  Those of the default forum do not name it.
BasePath(forum) == IF forum = Default THEN <<>> ELSE <<"forum", forum>>

PathOf(r) ==
  [parts |->
     CASE r.page = "boards"   -> IF r.forum = Nothing THEN <<>> ELSE BasePath(r.forum)
       [] r.page = "board"    -> BasePath(r.forum) \o <<r.slug>>
       [] r.page = "thread"   -> BasePath(r.forum) \o <<r.slug, r.num>>
       [] r.page = "compose"  -> BasePath(r.forum) \o <<r.slug, "new">>
       [] r.page = "settings" -> IF r.slug = Nothing THEN <<"settings">> ELSE <<"settings", r.slug>>,
   hash |-> r.post]

\* What is within a forum.
Within(forum, rest, hash) ==
  CASE Len(rest) = 1 -> Route("board", forum, rest[1], Nothing, Nothing)
    [] Len(rest) = 2 /\ rest[2] = "new" -> Route("compose", forum, rest[1], Nothing, Nothing)
    [] Len(rest) = 2 /\ rest[2] \in Nums -> Route("thread", forum, rest[1], rest[2], hash)
    [] OTHER -> BoardsRoute(Nothing)

Parse(path) ==
  LET parts == path.parts IN
  IF parts = <<>> THEN BoardsRoute(Nothing)
  ELSE IF Head(parts) = "settings"
  THEN IF parts = <<"settings">> THEN SettingsRoute(Nothing)
       ELSE IF parts = <<"settings", "key">> THEN SettingsRoute("key") ELSE BoardsRoute(Nothing)
  ELSE IF Head(parts) = "forum"
  THEN CASE Len(parts) = 2 -> BoardsRoute(parts[2])
         [] Len(parts) > 2 -> Within(parts[2], SubSeq(parts, 3, Len(parts)), path.hash)
         [] OTHER -> BoardsRoute(Nothing)
  ELSE Within(Default, parts, path.hash)

DepthOf(r) ==
  CASE r.page = "boards" -> 0
    [] r.page = "board" -> 1
    [] r.page = "thread" -> 2
    [] r.page = "compose" -> 3
    [] r.page = "settings" -> IF r.slug = Nothing THEN 1 ELSE 2

\* The page above, or the page itself when there is none.
ParentRoute(r) ==
  CASE r.page \in {"thread", "compose"} -> Route("board", r.forum, r.slug, Nothing, Nothing)
    [] r.page = "board" -> BoardsRoute(r.forum)
    [] r.page = "settings" /\ r.slug # Nothing -> SettingsRoute(Nothing)
    [] OTHER -> r

Current == Parse(hist[pos])

-----------------------------------------------------------------------------
\* App.tsx.  What a route shows, and what a load of it brings to the store.
Content(r) == <<IF r.page = "thread" THEN "thread" ELSE "board", r.slug, r.num>>

ContentPath(r) == IF r.page \in {"board", "compose", "thread"} THEN <<r.forum, Content(r)>> ELSE <<>>

\* Whether the store is thought to have the page: any thread will do for a thread.
Loaded(r) == shown.kind = r.page

Overtaken == {[r EXCEPT !.mine = FALSE] : r \in runs}

\* What a page is loaded with.
Load(r, a) ==
  [page |-> r.page, content |-> Content(r), forum |-> a.context,
   step |-> IF r.page = "thread" THEN "uid" ELSE "data", mine |-> TRUE]

\* run: what it does before it waits for anything.
Run(r, a) ==
  IF r.page = "boards"
  THEN /\ app' = [a EXCEPT !.loading = FALSE, !.error = FALSE]
       /\ runs' = Overtaken /\ UNCHANGED <<topic, stray>>
  ELSE IF r.slug \notin Known
  THEN /\ app' = [a EXCEPT !.loading = TRUE, !.error = FALSE, !.bounce = TRUE]
       /\ runs' = Overtaken /\ UNCHANGED <<topic, stray>>
  ELSE /\ app' = [a EXCEPT !.loading = TRUE, !.error = FALSE]
       /\ runs' = Overtaken \cup {Load(r, a)}
       /\ IF r.page = "board"
          THEN topic' = <<a.context, Content(r)>> /\ stray' = FALSE
          ELSE UNCHANGED <<topic, stray>>

\* A page is not loaded again, unless that is due.
Skips(r, a) ==
  /\ a.prev # NoRoute /\ ContentPath(r) # <<>> /\ ContentPath(a.prev) = ContentPath(r) /\ Loaded(r)
  /\ ~(a.due /\ r.page \in {"board", "thread"})

\* The effect on the address, the context, the list of boards and the request to reload.
Visit(r, a) ==
  IF r.page = "settings"
  THEN app' = [a EXCEPT !.loading = FALSE] /\ UNCHANGED <<runs, topic, stray, lastPath>>
  ELSE IF r.page # "boards" /\ ~a.ready
  THEN app' = a /\ UNCHANGED <<runs, topic, stray, lastPath>>
  ELSE /\ lastPath' = IF ContentPath(r) # <<>> THEN hist'[pos'] ELSE lastPath
       /\ IF Skips(r, a)
          THEN app' = [a EXCEPT !.prev = r, !.due = FALSE] /\ UNCHANGED <<runs, topic, stray>>
          ELSE Run(r, [a EXCEPT !.prev = r, !.due = FALSE])

\* The address changes to that of the entry the browser is at, which is read once.
Arrive == \E r \in {Parse(hist'[pos'])} : Visit(r, app)

-----------------------------------------------------------------------------
\* nav.tsx: a page at the same depth or above takes the place of the entry; so does
\* whatever follows the settings.
Replaces(from, r) ==
  IF from.page = "settings" THEN TRUE
  ELSE IF r.page = "settings" THEN FALSE ELSE DepthOf(r) <= DepthOf(from)

\* The entry for a page is written.
Writes(r) ==
  LET replace == Replaces(Current, r)
      path == PathOf(r)
  IN /\ hist' = IF replace THEN [hist EXCEPT ![pos] = path] ELSE Append(SubSeq(hist, 1, pos), path)
     /\ pos' = IF replace THEN pos ELSE pos + 1
     /\ canGoBack' = (canGoBack \/ ~replace)
     /\ misled' = (misled \/ (r.page # "settings" /\ Parse(path).page = "settings"))

\* go
Go(r) ==
  IF PathOf(Current) = PathOf(r)
  THEN UNCHANGED <<hist, pos, canGoBack, misled, lastPath, app, runs, topic, stray>>
  ELSE Writes(r) /\ Arrive

\* router(-1): from the first entry it leads out of the application.
Pop(by) ==
  /\ popped' = TRUE
  /\ IF pos = 1
     THEN /\ outside' = IF popped THEN "later" ELSE by
          /\ UNCHANGED <<hist, pos, canGoBack, misled, lastPath, app, runs, topic, stray>>
     ELSE /\ pos' = pos - 1 /\ UNCHANGED <<hist, canGoBack, misled, outside>>
          /\ Arrive

-----------------------------------------------------------------------------
Init ==
  /\ \E r \in Routes : r.post = Nothing /\ hist = <<PathOf(r)>>
  /\ pos = 1 /\ canGoBack = FALSE
  /\ lastPath = PathOf(BoardsRoute(Nothing))
  /\ app = [context |-> Default, ready |-> FALSE, prev |-> NoRoute, due |-> TRUE, loading |-> TRUE,
            error |-> FALSE, bounce |-> FALSE]
  /\ runs = {} /\ shown = [kind |-> Nothing] /\ topic = <<>>
  /\ stray = FALSE /\ popped = FALSE /\ misled = FALSE /\ outside = "no"
  /\ left = MaxSteps

Inside == outside = "no" /\ left > 0 /\ left' = left - 1

\* Within the history the user moves as often as the loads end.
Moves == outside = "no" /\ Cardinality(runs) < MaxLoads /\ UNCHANGED left

\* The list of the boards of the context comes.
BoardsCome ==
  /\ ~app.ready
  /\ UNCHANGED <<hist, pos, canGoBack, shown, popped, misled, outside, left>>
  /\ Visit(Current, [app EXCEPT !.ready = TRUE])

\* An address whose board there is not.
Bounce ==
  /\ app.bounce
  /\ Writes(BoardsRoute(app.context))
  /\ Visit(Parse(hist'[pos']), [app EXCEPT !.bounce = FALSE])
  /\ UNCHANGED <<shown, popped, outside, left>>

\* The user follows a link, within the forum of the page or the one that is chosen.
Follow(r) ==
  /\ Inside
  /\ r.forum \in {app.context, Current.forum, Nothing}
  /\ Go(r)
  /\ UNCHANGED <<shown, popped, outside>>

\* The arrow of a page: within the history once there is one, else to the page above.
Back ==
  /\ Inside
  /\ IF canGoBack THEN Pop("arrow")
     ELSE Go(ParentRoute(Current)) /\ UNCHANGED <<popped, outside>>
  /\ UNCHANGED shown

\* The browser's own arrows.
BrowserBack ==
  /\ Moves
  /\ Pop("browser")
  /\ UNCHANGED shown

BrowserForward ==
  /\ Moves
  /\ pos < Len(hist)
  /\ pos' = pos + 1
  /\ UNCHANGED <<hist, canGoBack, shown, popped, misled, outside>>
  /\ Arrive

\* The tab of the boards, from the settings.
SectionBoards ==
  /\ Inside
  /\ Current.page = "settings"
  /\ IF canGoBack THEN Pop("arrow")
     ELSE Go(Parse(lastPath)) /\ UNCHANGED <<popped, outside>>
  /\ UNCHANGED shown

\* Another forum is chosen: its boards are fetched, and the address becomes its own.
\* Before that the page is visited in the new forum, with the list of the former one: what
\* it loads then is overtaken at once.
SelectForum(f) ==
  LET a == [app EXCEPT !.context = f]
      loads == /\ a.ready /\ Current.page \in {"board", "thread", "compose"}
               /\ Current.slug \in Known /\ ~Skips(Current, a)
  IN /\ Inside
     /\ f # app.context
     /\ Writes(BoardsRoute(f))
     /\ app' = [a EXCEPT !.ready = FALSE, !.prev = Parse(hist'[pos']), !.due = FALSE,
                         !.loading = FALSE, !.error = FALSE]
     /\ runs' = Overtaken \cup (IF loads THEN {[Load(Current, a) EXCEPT !.mine = FALSE]} ELSE {})
     /\ IF loads /\ Current.page = "board"
        THEN topic' = <<f, Content(Current)>> /\ stray' = FALSE
        ELSE UNCHANGED <<topic, stray>>
     /\ UNCHANGED <<lastPath, shown, popped, outside>>

\* A load: a thread is looked up, then subscribed to, be the load overtaken or not.
Lookup(r) ==
  /\ r.step = "uid"
  /\ runs' = (runs \ {r}) \cup {[r EXCEPT !.step = "data"]}
  /\ topic' = <<r.forum, r.content>> /\ stray' = ~r.mine
  /\ UNCHANGED <<hist, pos, canGoBack, lastPath, app, shown, popped, misled, outside, left>>

KeepsMutant(r) == TRUE

\* Only the newest load brings anything to the page.
Keeps(r) == r.mine

LoadEnds(r) ==
  /\ r.step = "data"
  /\ runs' = runs \ {r}
  /\ IF Keeps(r)
     THEN /\ shown' = [kind |-> Head(r.content), of |-> <<r.forum, r.content>>, by |-> r.page]
          /\ app' = [app EXCEPT !.loading = FALSE]
     ELSE UNCHANGED <<shown, app>>
  /\ UNCHANGED <<hist, pos, canGoBack, lastPath, topic, stray, popped, misled, outside, left>>

LoadFails(r) ==
  /\ runs' = runs \ {r}
  /\ app' = IF r.mine THEN [app EXCEPT !.loading = FALSE, !.error = TRUE] ELSE app
  /\ UNCHANGED <<hist, pos, canGoBack, lastPath, shown, topic, stray, popped, misled, outside, left>>

\* The connection was lost: the page is loaded anew, once it is one that can be.
Reload ==
  /\ Inside
  /\ UNCHANGED <<hist, pos, canGoBack, shown, popped, misled, outside>>
  /\ Visit(Current, [app EXCEPT !.due = TRUE])

Next ==
  \/ BoardsCome \/ Bounce \/ Back \/ BrowserBack \/ BrowserForward \/ SectionBoards \/ Reload
  \/ left > 0 /\ \E r \in Routes : r.post = Nothing /\ Follow(r)
  \/ \E f \in Forums : SelectForum(f)
  \/ \E r \in runs : Lookup(r) \/ LoadEnds(r) \/ LoadFails(r)

Spec == Init /\ [][Next]_vars

-----------------------------------------------------------------------------
\* A page is on the screen.
OnScreen == ~app.loading /\ ~app.error /\ ~app.bounce /\ Current.page \in {"board", "thread", "compose"}

Coming == ~app.ready \/ \E r \in runs : r.mine

\* Type invariant; at most one load is the newest, and a page that says it is loading is.
TypeOK ==
  /\ pos \in 1..Len(hist)
  /\ \A i \in 1..Len(hist) : Parse(hist[i]).page \in {"boards", "board", "thread", "compose", "settings"}
  /\ Cardinality({r \in runs : r.mine}) <= 1
  /\ app.loading => Coming \/ app.bounce

\* An address that is written leads to the page it was written for, but for boards named
\* like a page of the application (route.ts, 54-94).  Which state it is looked at in
\* makes no difference.
AddressesReadBack ==
  Len(hist) > 1 \/ \A r \in Routes : r.slug \notin {"settings", "forum"} /\ ~(r.page = "boards" /\ r.forum = Default)
    => Parse(PathOf(r)) = r

\* The page on the screen has the content its address names, or it is on its way, with
\* the list of the boards or by the newest load: what is wrong for a moment is allowed, what
\* stays wrong is not.  An address of another forum than the context is another matter.
ShowsItsOwn ==
  OnScreen /\ Current.forum = app.context =>
    Coming \/ (shown.kind # Nothing /\ shown.of = <<app.context, Content(Current)>>)

\* The board or the thread on the screen is the one that is subscribed to, unless the
\* page for writing loaded it, or a load that was overtaken subscribed last.
ListensToShown ==
  OnScreen /\ Current.page # "compose" /\ Current.forum = app.context /\ ~Coming
    => topic = shown.of \/ stray \/ shown.by = "compose"

\* Going back never ends at the settings (nav.tsx, 29-38), until the user has gone to a
\* board that is named like them, whose address leads to the settings; and the arrow of a
\* page does not lead out of the application as long as the user has not gone back.
BackIsContent ==
  /\ misled \/ \A i \in 1..(pos - 1) : Parse(hist[i]).page # "settings"
  /\ outside # "arrow"

\* The address, the history, what is shown and what is listened to agree.
NavigationSafety ==
  TypeOK /\ AddressesReadBack /\ ShowsItsOwn /\ ListensToShown /\ BackIsContent
=============================================================================
