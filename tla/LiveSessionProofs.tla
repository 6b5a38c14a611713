------------------------- MODULE LiveSessionProofs -------------------------
(***************************************************************************)
(* Proofs about module LiveSession, for any pages and any numbers of       *)
(* events, loads and errors.                                               *)
(***************************************************************************)
EXTENDS LiveSession, TLAPS

-----------------------------------------------------------------------------
\* The messages in a queue

LEMMA EmptyQueue == Range(<<>>) = {}
BY DEF Range

LEMMA LongerQueue ==
  ASSUME NEW S, NEW queue \in Seq(S), NEW m \in S
  PROVE  Append(queue, m) \in Seq(S) /\ Range(Append(queue, m)) = Range(queue) \cup {m}
<1>1. /\ Append(queue, m) \in Seq(S) /\ Len(queue) \in Nat
      /\ DOMAIN queue = 1 .. Len(queue)
      /\ DOMAIN Append(queue, m) = 1 .. (Len(queue) + 1)
      /\ \A i \in 1 .. Len(queue) : Append(queue, m)[i] = queue[i]
      /\ Append(queue, m)[Len(queue) + 1] = m
  OBVIOUS
<1>2. \A i \in 1 .. (Len(queue) + 1) : i \in 1 .. Len(queue) \/ i = Len(queue) + 1
  BY <1>1
<1>3. Len(queue) + 1 \in 1 .. (Len(queue) + 1)
      /\ \A i \in 1 .. Len(queue) : i \in 1 .. (Len(queue) + 1)
  BY <1>1
<1> QED
  BY <1>1, <1>2, <1>3 DEF Range

LEMMA ShorterQueue ==
  ASSUME NEW S, NEW queue \in Seq(S), queue # <<>>
  PROVE  /\ Tail(queue) \in Seq(S) /\ Head(queue) \in S
         /\ Range(queue) = Range(Tail(queue)) \cup {Head(queue)}
<1>1. /\ Tail(queue) \in Seq(S) /\ Head(queue) \in S /\ Head(queue) = queue[1]
      /\ Len(queue) \in Nat \ {0} /\ DOMAIN queue = 1 .. Len(queue)
      /\ DOMAIN Tail(queue) = 1 .. (Len(queue) - 1)
      /\ \A i \in 1 .. (Len(queue) - 1) : Tail(queue)[i] = queue[i + 1]
  OBVIOUS
<1>2. \A i \in 1 .. Len(queue) : i = 1 \/ (i - 1 \in 1 .. (Len(queue) - 1) /\ i = (i - 1) + 1)
  BY <1>1
<1>3. 1 \in 1 .. Len(queue) /\ \A i \in 1 .. (Len(queue) - 1) : i + 1 \in 1 .. Len(queue)
  BY <1>1
<1>4. ASSUME NEW m \in Range(queue)
      PROVE  m \in Range(Tail(queue)) \cup {Head(queue)}
  <2>1. PICK i \in 1 .. Len(queue) : m = queue[i]
    BY <1>1 DEF Range
  <2>2. i = 1 \/ (i - 1 \in 1 .. (Len(queue) - 1) /\ m = Tail(queue)[i - 1])
    BY <1>1, <1>2, <2>1
  <2> QED BY <1>1, <2>1, <2>2 DEF Range
<1>5. ASSUME NEW m \in Range(Tail(queue)) \cup {Head(queue)}
      PROVE  m \in Range(queue)
  BY <1>1, <1>3, <1>5 DEF Range
<1> QED
  BY <1>1, <1>4, <1>5

LEMMA QueueType ==
  ASSUME NEW S, NEW queue \in Seq(S)
  PROVE  Range(queue) \subseteq S
BY DEF Range

-----------------------------------------------------------------------------
\* Types

LEMMA ConnectingType == Connecting \in Conn
BY DEF Connecting, Conn

LEMMA AppliedType ==
  ASSUME stray \in BOOLEAN, NEW p \in Page, NEW messages \in Seq(Message)
  PROVE  /\ Applied(p, messages) \in Page
         /\ Applied(p, messages).scope = p.scope
         /\ Applied(p, messages).shows = p.shows \cup Range(messages)
         /\ Applied(p, messages).tainted = (p.tainted \/ (stray /\ messages # <<>>))
<1>1. Range(messages) \subseteq Message
  BY QueueType
<1> QED
  BY <1>1 DEF Applied, Page

LEMMA CommittedType ==
  ASSUME TypeOK, NEW p \in Page, Committed(p)
  PROVE  /\ page' \in Page /\ client' \in Client
         /\ client'.scope = client.scope /\ client'.live /\ ~client'.buffering
         /\ client'.pending = <<>> /\ ~client'.pendingCommit
         /\ page' = Applied(p, client.pending)
<1>1. client \in Client /\ client.pending \in Seq(Message) /\ stray \in BOOLEAN
  BY DEF TypeOK, Client
<1>2. page' = Applied(p, client.pending) /\ Applied(p, client.pending) \in Page
  BY <1>1, AppliedType DEF Committed
<1>3. client' = [client EXCEPT !.live = TRUE, !.buffering = FALSE, !.pending = <<>>,
                               !.pendingCommit = FALSE]
  BY DEF Committed
<1>4. <<>> \in Seq(Message)
  OBVIOUS
<1> QED
  BY <1>1, <1>2, <1>3, <1>4 DEF Client

LEMMA BegunType ==
  ASSUME NEW s \in Scopes, NEW c \in Conn, Begun(s, c)
  PROVE  /\ client' \in Client /\ client'.scope = s /\ client'.buffering /\ ~client'.live
         /\ client'.pending = <<>> /\ client'.pendingCommit
         /\ conn' \in Conn
         /\ conn' = Connecting \/ (conn' = c /\ client.scope = s)
<1>1. <<>> \in Seq(Message)
  OBVIOUS
<1> QED
  BY <1>1, ConnectingType DEF Begun, Client

\* A table of loads with one more, one less or one of them further.
LEMMA RunsType ==
  ASSUME TypeOK
  PROVE  /\ \A g \in DOMAIN runs : runs[g] \in Run /\ g \in 1 .. generation
         /\ generation \in Nat
         /\ \A g : DOMAIN Drop(runs, {g}) = DOMAIN runs \ {g}
         /\ \A g : Drop(runs, {g}) \in [DOMAIN runs \ {g} -> Run]
         /\ \A g : \A h \in DOMAIN runs \ {g} : Drop(runs, {g})[h] = runs[h]
BY SessionAssumption DEF TypeOK, Drop, Restrict, SessionAssumption

LEMMA StartType ==
  ASSUME SessionAssumption, TypeOK, NEW s \in Scopes, NEW c \in Conn, NEW buffering \in BOOLEAN,
         Start(s, c, buffering)
  PROVE  /\ generation' = generation + 1 /\ generation' \in 1 .. MaxRuns
         /\ DOMAIN runs' \subseteq 1 .. generation' /\ runs' \in [DOMAIN runs' -> Run]
         /\ generation' \in DOMAIN runs' /\ runs'[generation'].scope = s
         /\ runs'[generation'].step = IF s \in Threads THEN "uid" ELSE "fetch"
         /\ error' = FALSE
         /\ client' \in Client /\ conn' \in Conn /\ stray' \in BOOLEAN
         /\ s \in Boards => Begun(s, c)
         /\ s \in Boards \/ s \in Threads
         /\ s \notin Boards =>
              /\ conn' = c /\ stray' = stray
              /\ \/ client' = client
                 \/ client'.scope = client.scope /\ client'.buffering /\ client'.pending = <<>>
<1>1. client \in Client /\ stray \in BOOLEAN /\ generation \in 1 .. MaxRuns
  BY DEF TypeOK
<1>2. s \in Boards \/ s \in Threads
  BY DEF Scopes
<1>3. PICK run : run = [scope |-> s, step |-> IF s \in Threads THEN "uid" ELSE "fetch", at |-> 0]
  OBVIOUS
<1>4. run \in Run
  BY <1>3 DEF Run
<1>5. runs' = Put(runs, generation + 1, run) /\ generation' = generation + 1 /\ generation < MaxRuns
      /\ error' = FALSE
  BY <1>3 DEF Start
<1>6. generation' \in 1 .. MaxRuns /\ \A g \in 1 .. generation : g \in 1 .. generation'
  BY <1>1, <1>5, SessionAssumption DEF SessionAssumption
<1>7. DOMAIN runs' = DOMAIN runs \cup {generation'} /\ runs' \in [DOMAIN runs' -> Run]
      /\ runs'[generation'] = run
  BY <1>4, <1>5, RunsType DEF Put
<1>8. DOMAIN runs' \subseteq 1 .. generation'
  BY <1>6, <1>7 DEF TypeOK
<1>9. [client EXCEPT !.buffering = TRUE, !.live = FALSE, !.pending = <<>>] \in Client
  <2>1. <<>> \in Seq(Message)
    OBVIOUS
  <2> QED BY <1>1, <2>1 DEF Client
<1>10. CASE s \in Boards
  <2>1. Begun(s, c) /\ stray' = FALSE
    BY <1>10 DEF Start
  <2>2. client' \in Client /\ conn' \in Conn
    BY <2>1, BegunType
  <2>3. runs'[generation'].scope = s
        /\ runs'[generation'].step = IF s \in Threads THEN "uid" ELSE "fetch"
    BY <1>3, <1>7
  <2> QED BY <1>5, <1>6, <1>7, <1>8, <1>10, <2>1, <2>2, <2>3
<1>11. CASE s \notin Boards
  <2>1. /\ conn' = c /\ stray' = stray
        /\ \/ client' = client
           \/ client' = [client EXCEPT !.buffering = TRUE, !.live = FALSE, !.pending = <<>>]
    BY <1>11 DEF Start
  <2>2. client' = client
        \/ (client'.scope = client.scope /\ client'.buffering /\ client'.pending = <<>>)
    BY <1>1, <2>1 DEF Client
  <2> QED BY <1>1, <1>2, <1>3, <1>5, <1>6, <1>7, <1>8, <1>9, <1>11, <2>1, <2>2
<1> QED
  BY <1>10, <1>11

-----------------------------------------------------------------------------
\* The invariant

\* The newest load has begun: the connection is asked for, and what arrives is kept.
LoadBegun ==
  generation \in DOMAIN runs /\ runs[generation].step \in {"fetch", "read"}

\* The newest load is over and there is a page.
Loaded == generation \notin DOMAIN runs /\ ~error

Held == Range(client.pending) \cup Range(conn.queue)

Messages ==
  /\ Range(conn.queue) \subseteq {client.scope} \X Nat
  /\ Range(client.pending) \subseteq {client.scope} \X Nat

Routes ==
  /\ generation \in DOMAIN runs => runs[generation].scope = route
  /\ Loaded => page.scope = route

\* Events are applied to the page that they belong to.
Attached ==
  /\ ~stray /\ LoadBegun => client.scope = route /\ client.buffering
  /\ ~stray /\ client.live /\ ~client.buffering => client.scope = page.scope
  /\ ~stray /\ Loaded =>
       client.live /\ ~client.buffering /\ ~client.pendingCommit /\ client.scope = route

\* What was sent is in the page, or is going to be.
Covered ==
  /\ ~stray /\ LoadBegun /\ runs[generation].step = "read" /\ Subscribed =>
       Events(route, sent[route])
         \subseteq Events(route, runs[generation].at) \cup Events(route, conn.since) \cup Held
  /\ ~stray /\ Loaded /\ ~late /\ conn.state = "open" =>
       Events(route, sent[route]) \subseteq page.shows \cup Range(conn.queue)

SessionInvariant == TypeOK /\ OwnEvents /\ Messages /\ Routes /\ Attached /\ Covered

LEMMA InitInvariant ==
  ASSUME SessionAssumption, Init
  PROVE  SessionInvariant
<1>1. PICK s \in Boards :
        /\ route = s
        /\ runs = Put(NoEntries, 1, [scope |-> s, step |-> "fetch", at |-> 0])
        /\ page = [scope |-> s, shows |-> {}, tainted |-> FALSE]
        /\ client = [scope |-> s, buffering |-> TRUE, live |-> FALSE, pendingCommit |-> TRUE,
                     pending |-> <<>>]
  BY DEF Init
<1>2. s \in Scopes
  BY DEF Scopes
<1>3. PICK run : run = [scope |-> s, step |-> "fetch", at |-> 0]
  OBVIOUS
<1>4. run \in Run
  BY <1>2, <1>3 DEF Run
<1>5. DOMAIN runs = {1} /\ runs = [g \in {1} |-> run] /\ runs[1] = run
  BY <1>1, <1>3 DEF Put, NoEntries
<1>6. /\ generation = 1 /\ conn = Connecting /\ ~error /\ ~stray /\ ~late
      /\ {error, stray, late} \subseteq BOOLEAN
      /\ events \in [Scopes -> Nat] /\ sent \in [Scopes -> Nat] /\ \A x \in Scopes : sent[x] <= events[x]
  <2>1. events = [x \in Scopes |-> 0] /\ sent = events /\ error = FALSE /\ stray = FALSE /\ late = FALSE
    BY DEF Init
  <2>2. generation = 1 /\ conn = Connecting
    BY DEF Init
  <2>3. events \in [Scopes -> Nat] /\ sent \in [Scopes -> Nat] /\ \A x \in Scopes : sent[x] <= events[x]
    BY <2>1
  <2> QED BY <2>1, <2>2, <2>3
<1>7. TypeOK
  <2>1. 1 \in 1 .. MaxRuns /\ {1} \subseteq 1 .. 1
    BY DEF SessionAssumption
  <2>2. client \in Client /\ page \in Page
    <3>1. <<>> \in Seq(Message)
      OBVIOUS
    <3> QED BY <1>1, <1>2, <3>1 DEF Client, Page
  <2>3. route \in Scopes
    BY <1>1, <1>2
  <2>4. runs \in [DOMAIN runs -> Run]
    BY <1>4, <1>5
  <2> QED BY <1>5, <1>6, <2>1, <2>2, <2>3, <2>4, ConnectingType DEF TypeOK
<1>8. Messages
  BY <1>1, <1>6, EmptyQueue DEF Messages, Connecting
<1>9. Routes /\ Attached /\ Covered
  <2>1. generation \in DOMAIN runs /\ runs[generation].scope = route /\ runs[generation].step = "fetch"
    BY <1>1, <1>3, <1>5, <1>6
  <2> QED BY <1>1, <2>1 DEF Routes, Attached, Covered, Loaded
<1>10. OwnEvents
  BY <1>1 DEF OwnEvents
<1> QED
  BY <1>7, <1>8, <1>9, <1>10 DEF SessionInvariant

\* A load begins, after navigation or because the connection was open again.
LEMMA StartInvariant ==
  ASSUME SessionAssumption, SessionInvariant, NEW s \in Scopes, NEW c \in Conn,
         NEW buffering \in BOOLEAN, Start(s, c, buffering),
         c.queue = conn.queue, route' = s, UNCHANGED <<events, sent, page, late>>
  PROVE  SessionInvariant'
<1>1. TypeOK /\ OwnEvents /\ Messages /\ Attached
  BY DEF SessionInvariant
<1>2. TypeOK'
  BY <1>1, StartType DEF TypeOK
<1>3. /\ generation' \in DOMAIN runs' /\ runs'[generation'].scope = route'
      /\ runs'[generation'].step # "read" /\ (LoadBegun' => s \in Boards)
  BY <1>1, StartType, SessionAssumption DEF LoadBegun, SessionAssumption
<1>4. CASE s \in Boards
  <2>1. /\ client'.scope = s /\ client'.buffering /\ client'.pending = <<>>
        /\ (conn'.queue = <<>> \/ (conn'.queue = conn.queue /\ client.scope = s))
    <3>1. Begun(s, c)
      BY <1>1, <1>4, StartType
    <3> QED BY <3>1, BegunType DEF Connecting
  <2>2. Messages'
    BY <1>1, <2>1, EmptyQueue DEF Messages
  <2>3. Routes' /\ Attached' /\ Covered'
    BY <1>3, <2>1 DEF Routes, Attached, Covered, Loaded
  <2> QED BY <1>1, <1>2, <2>2, <2>3 DEF SessionInvariant, OwnEvents
<1>5. CASE s \notin Boards
  <2>1. /\ conn' = c /\ stray' = stray /\ ~LoadBegun'
        /\ \/ client' = client
           \/ client'.scope = client.scope /\ client'.buffering /\ client'.pending = <<>>
    BY <1>1, <1>3, <1>5, StartType
  <2>2. Messages'
    BY <1>1, <2>1, EmptyQueue DEF Messages
  <2>3. Routes' /\ Attached' /\ Covered'
    BY <1>1, <1>3, <2>1 DEF Routes, Attached, Covered, Loaded
  <2> QED BY <1>1, <1>2, <2>2, <2>3 DEF SessionInvariant, OwnEvents
<1> QED
  BY <1>4, <1>5

LEMMA HappenInvariant ==
  ASSUME SessionInvariant, NEW s \in Scopes, Happen(s)
  PROVE  SessionInvariant'
<1>1. TypeOK'
  BY DEF SessionInvariant, TypeOK, Happen
<1> QED
  BY <1>1 DEF SessionInvariant, Happen, OwnEvents, Messages, Routes, Attached, Covered, LoadBegun, Loaded, Held, Subscribed

LEMMA PublishInvariant ==
  ASSUME SessionInvariant, NEW s \in Scopes, Publish(s)
  PROVE  SessionInvariant'
<1>1. TypeOK /\ OwnEvents /\ Messages /\ Routes /\ Attached /\ Covered
  BY DEF SessionInvariant
<1>2. /\ sent \in [Scopes -> Nat] /\ sent[s] \in Nat /\ events[s] \in Nat /\ conn \in Conn
      /\ conn.queue \in Seq(Message) /\ route \in Scopes
  BY <1>1 DEF TypeOK, Conn
<1>3. NextMessage(s) \in Message /\ NextMessage(s) = <<s, sent[s] + 1>>
  BY <1>2 DEF NextMessage, Message
<1>4. /\ sent' = [sent EXCEPT ![s] = sent[s] + 1]
      /\ UNCHANGED <<events, route, generation, runs, error, page, client, stray, late, errors>>
  BY <1>2 DEF Publish
<1>5. \/ /\ Subscribed /\ client.scope = s /\ conn'.state = conn.state /\ conn'.since = conn.since
         /\ conn' \in Conn /\ Range(conn'.queue) = Range(conn.queue) \cup {<<s, sent[s] + 1>>}
      \/ conn' = conn /\ ~(Subscribed /\ client.scope = s)
  <2>1. CASE Subscribed /\ client.scope = s
    <3>1. conn' = [conn EXCEPT !.queue = Append(conn.queue, NextMessage(s))]
      BY <1>2, <2>1 DEF Publish
    <3>2. /\ Append(conn.queue, NextMessage(s)) \in Seq(Message)
          /\ Range(Append(conn.queue, NextMessage(s))) = Range(conn.queue) \cup {NextMessage(s)}
      BY <1>2, <1>3, LongerQueue
    <3> QED BY <1>2, <1>3, <2>1, <3>1, <3>2 DEF Conn
  <2>2. CASE ~(Subscribed /\ client.scope = s)
    BY <2>2 DEF Publish
  <2> QED BY <2>1, <2>2
<1>6. conn' \in Conn /\ conn'.state = conn.state /\ conn'.since = conn.since
      /\ Range(conn.queue) \subseteq Range(conn'.queue)
  BY <1>2, <1>5
<1>7. TypeOK'
  <2>1. sent' \in [Scopes -> Nat] /\ \A x \in Scopes : sent'[x] <= events[x]
    BY <1>1, <1>2, <1>4 DEF TypeOK, Publish
  <2> QED BY <1>1, <1>4, <1>6, <2>1 DEF TypeOK
<1>8. Messages'
  <2>1. sent[s] + 1 \in Nat
    BY <1>2
  <2> QED BY <1>1, <1>4, <1>5, <2>1 DEF Messages
<1>9. Routes' /\ Attached' /\ OwnEvents'
  BY <1>1, <1>4 DEF Routes, Attached, OwnEvents, LoadBegun, Loaded
\* What is sent to the page's scope is in the queue.
<1>10. ASSUME Subscribed, client.scope = route
       PROVE  Events(route, sent'[route]) \subseteq Events(route, sent[route]) \cup Range(conn'.queue)
  <2>1. CASE route = s
    <3>1. \A n \in 1 .. (sent[s] + 1) : n \in 1 .. sent[s] \/ n = sent[s] + 1
      BY <1>2
    <3>2. sent'[s] = sent[s] + 1 /\ <<s, sent[s] + 1>> \in Range(conn'.queue)
      BY <1>2, <1>4, <1>5, <1>10, <2>1
    <3> QED BY <2>1, <3>1, <3>2 DEF Events
  <2>2. CASE route # s
    BY <1>2, <1>4, <2>2
  <2> QED BY <2>1, <2>2
<1>11. Covered'
  <2>1. ASSUME ~stray, LoadBegun, runs[generation].step = "read", Subscribed
        PROVE  Events(route, sent'[route])
                 \subseteq Events(route, runs[generation].at) \cup Events(route, conn.since)
                           \cup Range(client.pending) \cup Range(conn'.queue)
    BY <1>1, <1>6, <1>10, <2>1 DEF Covered, Attached, Held
  <2>2. ASSUME ~stray, Loaded, ~late, conn.state = "open"
        PROVE  Events(route, sent'[route]) \subseteq page.shows \cup Range(conn'.queue)
    <3>1. Subscribed /\ client.scope = route
      BY <1>1, <2>2 DEF Attached, Subscribed
    <3> QED BY <1>1, <1>6, <1>10, <2>2, <3>1 DEF Covered
  <2>3. Subscribed' = Subscribed /\ LoadBegun' = LoadBegun /\ Loaded' = Loaded
    BY <1>4, <1>6 DEF Subscribed, LoadBegun, Loaded
  <2> QED BY <1>4, <1>6, <2>1, <2>2, <2>3 DEF Covered, Held
<1> QED
  BY <1>7, <1>8, <1>9, <1>11 DEF SessionInvariant

LEMMA NavigateInvariant ==
  ASSUME SessionAssumption, SessionInvariant, NEW s \in Scopes, Navigate(s)
  PROVE  SessionInvariant'
<1>1. conn \in Conn
  BY DEF SessionInvariant, TypeOK
<1> QED
  BY <1>1, StartInvariant DEF Navigate

-----------------------------------------------------------------------------
\* Steps of a load

LEMMA BeginInvariant ==
  ASSUME SessionInvariant, NEW g \in DOMAIN runs, BeginThread(g)
  PROVE  SessionInvariant'
<1>1. TypeOK /\ OwnEvents /\ Messages /\ Routes
  BY DEF SessionInvariant
<1>2. runs[g] \in Run /\ runs[g].scope \in Scopes /\ conn \in Conn
  BY <1>1, RunsType DEF Run, TypeOK
<1>3. /\ DOMAIN runs' = DOMAIN runs /\ runs' \in [DOMAIN runs -> Run]
      /\ \A h \in DOMAIN runs : runs'[h].scope = runs[h].scope
      /\ runs'[g].step = "fetch" /\ stray' = (g # generation)
  BY <1>1, <1>2 DEF BeginThread, TypeOK, Run
<1>4. Begun(runs[g].scope, conn)
  BY DEF BeginThread
<1>5. /\ client' \in Client /\ client'.scope = runs[g].scope /\ client'.buffering
      /\ client'.pending = <<>> /\ conn' \in Conn
      /\ (conn'.queue = <<>> \/ (conn'.queue = conn.queue /\ client.scope = client'.scope))
  BY <1>2, <1>4, BegunType DEF Connecting
<1>6. UNCHANGED <<events, sent, route, generation, error, page, late>>
  BY DEF BeginThread
<1>7. TypeOK'
  BY <1>1, <1>3, <1>5, <1>6 DEF TypeOK
<1>8. Messages'
  BY <1>1, <1>5, EmptyQueue DEF Messages
<1>9. Routes'
  BY <1>1, <1>3, <1>6 DEF Routes, Loaded
<1>10. Attached' /\ Covered'
  BY <1>1, <1>3, <1>5, <1>6 DEF Attached, Covered, Routes, Loaded, LoadBegun
<1> QED
  BY <1>1, <1>6, <1>7, <1>8, <1>9, <1>10 DEF SessionInvariant, OwnEvents

\* A superseded load, or the newest while it is looking up an address, ends.
LEMMA EndInvariant ==
  ASSUME SessionInvariant, NEW g \in DOMAIN runs, runs' = Drop(runs, {g}),
         error' \in BOOLEAN, error => error', g = generation => error',
         UNCHANGED <<events, sent, route, generation, page, conn, client, stray, late>>
  PROVE  SessionInvariant'
<1>1. TypeOK /\ OwnEvents /\ Messages /\ Routes /\ Attached /\ Covered
  BY DEF SessionInvariant
<1>2. /\ DOMAIN runs' = DOMAIN runs \ {g} /\ runs' \in [DOMAIN runs' -> Run]
      /\ \A h \in DOMAIN runs' : runs'[h] = runs[h]
  BY <1>1, RunsType
<1>3. TypeOK'
  BY <1>1, <1>2 DEF TypeOK
<1>4. /\ LoadBegun' => LoadBegun
      /\ Loaded' => Loaded
      /\ generation \in DOMAIN runs' => runs'[generation] = runs[generation]
  BY <1>2 DEF LoadBegun, Loaded
<1>5. Messages' /\ OwnEvents' /\ Routes' /\ Attached'
  BY <1>1, <1>2, <1>4 DEF Messages, OwnEvents, Routes, Attached
<1>6. Covered'
  BY <1>1, <1>2, <1>4 DEF Covered, Held, Subscribed, LoadBegun
<1> QED
  BY <1>3, <1>5, <1>6 DEF SessionInvariant

LEMMA ReadInvariant ==
  ASSUME SessionInvariant, NEW g \in DOMAIN runs, ReadPage(g)
  PROVE  SessionInvariant'
<1>1. TypeOK /\ OwnEvents /\ Messages /\ Routes /\ Attached /\ Covered
  BY DEF SessionInvariant
<1>2. /\ runs[g] \in Run /\ runs[g].scope \in Scopes /\ route \in Scopes
      /\ events[runs[g].scope] \in Nat /\ sent[runs[g].scope] \in Nat
      /\ sent[runs[g].scope] <= events[runs[g].scope]
  BY <1>1, RunsType DEF Run, TypeOK
<1>3. runs' = [runs EXCEPT ![g] = [runs[g] EXCEPT !.step = "read", !.at = events[runs[g].scope]]]
  BY <1>1, <1>2 DEF ReadPage, TypeOK, Run
<1>4. [runs[g] EXCEPT !.step = "read", !.at = events[runs[g].scope]] \in Run
  BY <1>2 DEF Run
<1>5. /\ DOMAIN runs' = DOMAIN runs /\ runs' \in [DOMAIN runs -> Run]
      /\ \A h \in DOMAIN runs \ {g} : runs'[h] = runs[h]
      /\ runs'[g].scope = runs[g].scope /\ runs'[g].step = "read" /\ runs[g].step = "fetch"
      /\ runs'[g].at = events[runs[g].scope]
  BY <1>1, <1>2, <1>3, <1>4 DEF TypeOK, Run, ReadPage
<1>6. UNCHANGED <<events, sent, route, generation, error, page, conn, client, stray, late>>
  BY DEF ReadPage
<1>7. TypeOK'
  BY <1>1, <1>5, <1>6 DEF TypeOK
<1>8. LoadBegun' = LoadBegun /\ Loaded' = Loaded
  BY <1>5, <1>6 DEF LoadBegun, Loaded
<1>9. Messages' /\ OwnEvents' /\ Routes' /\ Attached'
  BY <1>1, <1>5, <1>6, <1>8 DEF Messages, OwnEvents, Routes, Attached
\* The page was read after everything was sent that has been sent.
<1>10. ASSUME g = generation
       PROVE  Events(route, sent[route]) \subseteq Events(route, runs'[generation].at)
  <2>1. runs[g].scope = route
    BY <1>1, <1>10 DEF Routes
  <2>2. \A n \in 1 .. sent[route] : n \in 1 .. events[route]
    BY <1>2, <2>1
  <2> QED BY <1>5, <1>10, <2>1, <2>2 DEF Events
<1>11. Covered'
  BY <1>1, <1>5, <1>6, <1>8, <1>10 DEF Covered, Held, Subscribed, LoadBegun
<1> QED
  BY <1>7, <1>9, <1>11 DEF SessionInvariant

LEMMA FinishInvariant ==
  ASSUME SessionInvariant, NEW g \in DOMAIN runs, Finish(g)
  PROVE  SessionInvariant'
<1>1. TypeOK /\ OwnEvents /\ Messages /\ Routes /\ Attached /\ Covered
  BY DEF SessionInvariant
<1>2. runs' = Drop(runs, {g}) /\ UNCHANGED <<events, sent, route, generation, error, conn, stray>>
  BY DEF Finish
<1>3. CASE g # generation
  <2>1. UNCHANGED <<page, client, late>>
    BY <1>3 DEF Finish, Newest
  <2>2. error \in BOOLEAN
    BY <1>1 DEF TypeOK
  <2> QED BY <1>2, <1>3, <2>1, <2>2, EndInvariant
<1>4. CASE g = generation
  <2>1. PICK p : p = [scope |-> runs[g].scope, shows |-> Events(runs[g].scope, runs[g].at), tainted |-> FALSE]
    OBVIOUS
  <2>2. Committed(p) /\ late' = (Subscribed /\ runs[g].at < conn.since) /\ runs[g].step = "read"
    BY <1>4, <2>1 DEF Finish, Newest
  <2>3. runs[g].scope = route /\ route \in Scopes /\ runs[g].at \in Nat
    BY <1>1, <1>4, RunsType DEF Routes, Run, TypeOK
  <2>4. Events(route, runs[g].at) \subseteq Message /\ Events(route, runs[g].at) \subseteq {route} \X Nat
    BY <2>3 DEF Events, Message
  <2>5. p \in Page /\ p.scope = route /\ p.shows = Events(route, runs[g].at) /\ p.tainted = FALSE
    BY <2>1, <2>3, <2>4 DEF Page
  <2>6. /\ page' \in Page /\ client' \in Client
        /\ client'.scope = client.scope /\ client'.live /\ ~client'.buffering
        /\ client'.pending = <<>> /\ ~client'.pendingCommit
        /\ page' = Applied(p, client.pending)
    BY <1>1, <2>2, <2>5, CommittedType
  <2>7. /\ page'.scope = route
        /\ page'.shows = Events(route, runs[g].at) \cup Range(client.pending)
        /\ page'.tainted = (stray /\ client.pending # <<>>)
    <3>1. client.pending \in Seq(Message) /\ stray \in BOOLEAN
      BY <1>1 DEF TypeOK, Client
    <3> QED BY <2>5, <2>6, <3>1, AppliedType
  <2>8. /\ DOMAIN runs' = DOMAIN runs \ {g} /\ runs' \in [DOMAIN runs' -> Run]
        /\ \A h \in DOMAIN runs' : runs'[h] = runs[h] /\ ~LoadBegun'
    BY <1>1, <1>2, <1>4, RunsType DEF LoadBegun
  <2>9. TypeOK'
    <3>1. late' \in BOOLEAN
      BY <2>2
    <3> QED BY <1>1, <1>2, <2>6, <2>8, <3>1 DEF TypeOK
  <2>10. LoadBegun
    BY <1>4, <2>2 DEF LoadBegun
  <2>11. OwnEvents'
    <3>1. CASE stray /\ client.pending # <<>>
      BY <2>7, <3>1 DEF OwnEvents
    <3>2. CASE client.pending = <<>>
      BY <2>4, <2>7, <3>2, EmptyQueue DEF OwnEvents
    <3>3. CASE ~stray
      <4>1. Range(client.pending) \subseteq {route} \X Nat
        BY <1>1, <2>10, <3>3 DEF Attached, Messages
      <4> QED BY <2>4, <2>7, <4>1 DEF OwnEvents
    <3> QED BY <3>1, <3>2, <3>3
  <2>12. Messages'
    BY <1>1, <1>2, <2>6, EmptyQueue DEF Messages
  <2>13. Routes' /\ Attached'
    BY <1>1, <1>2, <1>4, <2>6, <2>7, <2>8, <2>10 DEF Routes, Attached, LoadBegun
  <2>14. ASSUME ~stray, ~late', conn.state = "open"
         PROVE  Events(route, sent[route]) \subseteq page'.shows \cup Range(conn.queue)
    <3>1. Subscribed
      BY <2>14 DEF Subscribed
    <3>2. conn.since \in Nat /\ conn.since <= runs[g].at
      <4>1. conn.since \in Nat
        BY <1>1 DEF TypeOK, Conn
      <4>2. ~(runs[g].at < conn.since)
        BY <2>2, <2>14, <3>1
      <4> QED BY <2>3, <4>1, <4>2
    <3>3. \A n \in 1 .. conn.since : n \in 1 .. runs[g].at
      BY <2>3, <3>2
    <3>4. Events(route, conn.since) \subseteq Events(route, runs[g].at)
      BY <3>3 DEF Events
    <3> QED BY <1>1, <1>4, <2>2, <2>7, <2>10, <2>14, <3>1, <3>4 DEF Covered, Held
  <2>15. Covered'
    BY <1>2, <1>4, <2>8, <2>14 DEF Covered, LoadBegun
  <2> QED BY <2>9, <2>11, <2>12, <2>13, <2>15 DEF SessionInvariant
<1> QED
  BY <1>3, <1>4

LEMMA NoPageInvariant ==
  ASSUME SessionInvariant, NEW g \in DOMAIN runs, NoPage(g)
  PROVE  SessionInvariant'
<1>1. TypeOK /\ OwnEvents /\ Messages /\ Routes
  BY DEF SessionInvariant
<1>2. runs' = Drop(runs, {g}) /\ UNCHANGED <<events, sent, route, generation, conn, late>>
  BY DEF NoPage
<1>3. CASE g # generation
  <2>1. UNCHANGED <<error, stray, client, page>>
    BY <1>3 DEF NoPage, Newest
  <2>2. error \in BOOLEAN
    BY <1>1 DEF TypeOK
  <2> QED BY <1>2, <1>3, <2>1, <2>2, EndInvariant
<1>4. CASE g = generation
  <2>1. PICK p : p = [page EXCEPT !.tainted = TRUE]
    OBVIOUS
  <2>2. Committed(p) /\ error' = TRUE /\ stray' = TRUE
    BY <1>4, <2>1 DEF NoPage, Newest
  <2>3. p \in Page /\ p.tainted
    BY <1>1, <2>1 DEF TypeOK, Page
  <2>4. /\ page' \in Page /\ client' \in Client
        /\ client'.scope = client.scope /\ client'.pending = <<>>
        /\ page' = Applied(p, client.pending)
    BY <1>1, <2>2, <2>3, CommittedType
  <2>5. page'.tainted
    <3>1. client.pending \in Seq(Message) /\ stray \in BOOLEAN
      BY <1>1 DEF TypeOK, Client
    <3> QED BY <2>3, <2>4, <3>1, AppliedType
  <2>6. /\ DOMAIN runs' = DOMAIN runs \ {g} /\ runs' \in [DOMAIN runs' -> Run]
    BY <1>1, <1>2, RunsType
  <2>7. TypeOK'
    BY <1>1, <1>2, <2>2, <2>4, <2>6 DEF TypeOK
  <2>8. Messages'
    BY <1>1, <1>2, <2>4, EmptyQueue DEF Messages
  <2>9. Routes' /\ Attached' /\ Covered' /\ OwnEvents'
    BY <1>2, <1>4, <2>2, <2>5, <2>6 DEF Routes, Attached, Covered, OwnEvents, Loaded
  <2> QED BY <2>7, <2>8, <2>9 DEF SessionInvariant
<1> QED
  BY <1>3, <1>4

-----------------------------------------------------------------------------
\* The connection

LEMMA SubscribeInvariant ==
  ASSUME SessionInvariant, Subscribe
  PROVE  SessionInvariant'
<1>1. TypeOK /\ OwnEvents /\ Messages /\ Routes /\ Attached /\ Covered
  BY DEF SessionInvariant
<1>2. UNCHANGED <<events, sent, route, generation, runs, error, page, client, stray, late>>
  BY DEF Subscribe
<1>3. client.scope \in Scopes /\ sent[client.scope] \in Nat
  BY <1>1 DEF TypeOK, Client
<1>4. /\ conn'.state = "subscribed" /\ conn'.queue = <<>> /\ conn'.since = sent[client.scope]
      /\ conn' \in Conn
  <2>1. <<>> \in Seq(Message)
    OBVIOUS
  <2> QED BY <1>3, <2>1 DEF Subscribe, Conn
<1>5. TypeOK'
  BY <1>1, <1>2, <1>4 DEF TypeOK
<1>6. Messages' /\ Routes' /\ Attached' /\ OwnEvents'
  BY <1>1, <1>2, <1>4, EmptyQueue DEF Messages, Routes, Attached, OwnEvents, LoadBegun, Loaded
<1>7. Covered'
  BY <1>1, <1>2, <1>4 DEF Covered, Attached, LoadBegun
<1> QED
  BY <1>5, <1>6, <1>7 DEF SessionInvariant

LEMMA OpenInvariant ==
  ASSUME SessionAssumption, SessionInvariant, Open
  PROVE  SessionInvariant'
<1>1. TypeOK /\ OwnEvents /\ Messages /\ Routes /\ Attached /\ Covered
  BY DEF SessionInvariant
<1>2. UNCHANGED <<events, sent, route, page, late>> /\ conn.state = "subscribed" /\ conn \in Conn
  BY <1>1 DEF Open, TypeOK
<1>3. PICK opened : opened = [conn EXCEPT !.state = "open"]
  OBVIOUS
<1>4. opened \in Conn /\ opened.queue = conn.queue /\ opened.since = conn.since /\ opened.state = "open"
  BY <1>2, <1>3 DEF Conn
<1>5. CASE Reloads
  <2>1. Start(route, opened, TRUE) /\ route \in Scopes
    BY <1>1, <1>3, <1>5 DEF Open, TypeOK
  <2> QED BY <1>2, <1>4, <2>1, StartInvariant
<1>6. CASE ~Reloads
  <2>1. conn' = opened /\ UNCHANGED <<generation, runs, error, client, stray>>
    BY <1>3, <1>6 DEF Open
  <2>2. TypeOK' /\ Messages' /\ Routes' /\ Attached' /\ OwnEvents'
    BY <1>1, <1>2, <1>4, <2>1 DEF TypeOK, Messages, Routes, Attached, OwnEvents, LoadBegun, Loaded
  <2>3. client.pendingCommit
    BY <1>6 DEF Reloads
  <2>4. Covered'
    BY <1>1, <1>2, <1>4, <2>1, <2>3 DEF Covered, Attached, Held, Subscribed, LoadBegun, Loaded
  <2> QED BY <2>2, <2>4 DEF SessionInvariant
<1> QED
  BY <1>5, <1>6

LEMMA ReceiveInvariant ==
  ASSUME SessionInvariant, Receive
  PROVE  SessionInvariant'
<1>1. TypeOK /\ OwnEvents /\ Messages /\ Routes /\ Attached /\ Covered
  BY DEF SessionInvariant
<1>2. /\ UNCHANGED <<events, sent, route, generation, runs, error, stray, late>>
      /\ conn.state = "open" /\ conn.queue # <<>>
  BY DEF Receive
<1>3. /\ conn \in Conn /\ client \in Client /\ page \in Page /\ conn.queue \in Seq(Message)
      /\ client.pending \in Seq(Message) /\ stray \in BOOLEAN
  BY <1>1 DEF TypeOK, Conn, Client
<1>4. PICK m : m = Head(conn.queue)
  OBVIOUS
<1>5. /\ m \in Message /\ m \in Range(conn.queue) /\ Tail(conn.queue) \in Seq(Message)
      /\ Range(conn.queue) = Range(Tail(conn.queue)) \cup {m}
  BY <1>2, <1>3, <1>4, ShorterQueue
<1>6. /\ conn' \in Conn /\ conn'.queue = Tail(conn.queue)
      /\ conn'.state = conn.state /\ conn'.since = conn.since
  BY <1>3, <1>5 DEF Receive, Conn
<1>7. m \in {client.scope} \X Nat
  BY <1>1, <1>5 DEF Messages
<1>8. CASE client.buffering
  <2>1. client' = [client EXCEPT !.pending = Append(client.pending, m)] /\ page' = page
    BY <1>3, <1>4, <1>8 DEF Receive
  <2>2. /\ Append(client.pending, m) \in Seq(Message)
        /\ Range(Append(client.pending, m)) = Range(client.pending) \cup {m}
    BY <1>3, <1>5, LongerQueue
  <2>3. /\ client' \in Client /\ Range(client'.pending) = Range(client.pending) \cup {m}
        /\ client'.scope = client.scope /\ client'.buffering = client.buffering
        /\ client'.live = client.live /\ client'.pendingCommit = client.pendingCommit
    BY <1>3, <2>1, <2>2 DEF Client
  <2>4. TypeOK'
    BY <1>1, <1>2, <1>6, <2>1, <2>3 DEF TypeOK
  <2>5. Messages' /\ Routes' /\ Attached' /\ OwnEvents'
    BY <1>1, <1>2, <1>5, <1>6, <1>7, <2>1, <2>3 DEF Messages, Routes, Attached, OwnEvents, LoadBegun, Loaded
  <2>6. Held' = Held
    BY <1>5, <1>6, <2>3 DEF Held
  <2>7. Covered'
    BY <1>1, <1>2, <1>6, <1>8, <2>1, <2>6 DEF Covered, Attached, Subscribed, LoadBegun, Loaded
  <2> QED BY <2>4, <2>5, <2>7 DEF SessionInvariant
<1>9. CASE ~client.buffering
  <2>1. client' = client
    BY <1>9 DEF Receive
  <2>2. \/ page' = page /\ ~client.live
        \/ /\ client.live /\ page' \in Page /\ page'.scope = page.scope
           /\ page'.shows = page.shows \cup {m}
           /\ page'.tainted = (page.tainted \/ stray)
    <3>1. CASE ~client.live
      BY <1>9, <3>1 DEF Receive
    <3>2. CASE client.live
      <4>1. page' = Applied(page, <<m>>)
        BY <1>4, <1>9, <3>2 DEF Receive
      <4>2. <<m>> \in Seq(Message) /\ <<m>> # <<>> /\ Range(<<m>>) = {m}
        <5>1. DOMAIN <<m>> = {1} /\ <<m>>[1] = m
          OBVIOUS
        <5>2. Range(<<m>>) = {m}
          BY <5>1 DEF Range
        <5> QED BY <1>5, <5>2
      <4>3. /\ page' \in Page /\ page'.scope = page.scope
            /\ page'.shows = page.shows \cup Range(<<m>>)
            /\ page'.tainted = (page.tainted \/ (stray /\ <<m>> # <<>>))
        BY <1>3, <4>1, <4>2, AppliedType
      <4>4. page'.tainted = (page.tainted \/ stray)
        BY <4>2, <4>3
      <4> QED BY <3>2, <4>2, <4>3, <4>4
    <3> QED BY <3>1, <3>2
  <2>3. page' \in Page /\ page'.scope = page.scope /\ page.shows \subseteq page'.shows
    BY <1>3, <2>2
  <2>4. TypeOK'
    BY <1>1, <1>2, <1>6, <2>1, <2>3 DEF TypeOK
  <2>5. Messages' /\ Routes' /\ Attached'
    BY <1>1, <1>2, <1>5, <1>6, <2>1, <2>3 DEF Messages, Routes, Attached, LoadBegun, Loaded
  <2>6. OwnEvents'
    <3>1. ASSUME client.live, ~stray
          PROVE  m \in {page.scope} \X Nat
      BY <1>1, <1>7, <1>9, <3>1 DEF Attached
    <3> QED BY <1>1, <2>2, <3>1 DEF OwnEvents
  <2>7. Covered'
    <3>1. ~stray /\ Loaded => client.live
      BY <1>1 DEF Attached
    <3> QED BY <1>1, <1>2, <1>5, <1>6, <1>9, <2>1, <2>2, <3>1 DEF Covered, Attached, LoadBegun, Loaded
  <2> QED BY <2>4, <2>5, <2>6, <2>7 DEF SessionInvariant
<1> QED
  BY <1>8, <1>9

LEMMA BreakInvariant ==
  ASSUME SessionInvariant, Break
  PROVE  SessionInvariant'
<1>1. TypeOK /\ OwnEvents /\ Messages /\ Routes /\ Attached
  BY DEF SessionInvariant
<1>2. UNCHANGED <<events, sent, route, generation, runs, error, page, stray, late>>
  BY DEF Break
<1>3. conn' \in Conn /\ conn'.state \in {"connecting", "dead"} /\ conn'.queue = <<>>
  <2>1. conn' = Connecting \/ conn' = [Connecting EXCEPT !.state = "dead"]
    BY DEF Break
  <2>2. Connecting.state = "connecting" /\ Connecting.queue = <<>>
    BY DEF Connecting
  <2>3. [Connecting EXCEPT !.state = "dead"] \in Conn
    BY ConnectingType DEF Conn
  <2>4. /\ [Connecting EXCEPT !.state = "dead"].state = "dead"
        /\ [Connecting EXCEPT !.state = "dead"].queue = <<>>
    BY DEF Connecting
  <2> QED BY <2>1, <2>2, <2>3, <2>4, ConnectingType
<1>4. /\ client' \in Client /\ client'.scope = client.scope /\ client'.buffering = client.buffering
      /\ client'.live = client.live /\ client'.pending = client.pending /\ ~client'.pendingCommit
  BY <1>1 DEF Break, TypeOK, Client
<1>5. TypeOK'
  BY <1>1, <1>2, <1>3, <1>4 DEF TypeOK
<1>6. Messages' /\ Routes' /\ Attached' /\ OwnEvents'
  BY <1>1, <1>2, <1>3, <1>4, EmptyQueue DEF Messages, Routes, Attached, OwnEvents, LoadBegun, Loaded
<1>7. Covered'
  BY <1>3 DEF Covered, Subscribed
<1> QED
  BY <1>5, <1>6, <1>7 DEF SessionInvariant

-----------------------------------------------------------------------------
LEMMA NextInvariant ==
  ASSUME SessionAssumption, SessionInvariant, [Next]_vars
  PROVE  SessionInvariant'
<1>1. CASE UNCHANGED vars
  BY <1>1 DEF vars, SessionInvariant, TypeOK, OwnEvents, Messages, Routes, Attached, Covered, LoadBegun, Loaded, Held, Subscribed
<1>2. ASSUME NEW g \in DOMAIN runs, NoThread(g)
      PROVE  SessionInvariant'
  <2>1. error' \in BOOLEAN /\ (error => error') /\ (g = generation => error')
    BY <1>2 DEF NoThread
  <2> QED BY <1>2, <2>1, EndInvariant DEF NoThread
<1>3. ASSUME NEW g \in DOMAIN runs, Advance(g)
      PROVE  SessionInvariant'
  BY <1>2, <1>3, BeginInvariant, ReadInvariant, FinishInvariant, NoPageInvariant DEF Advance
<1> QED
  BY <1>1, <1>3, HappenInvariant, PublishInvariant, NavigateInvariant, SubscribeInvariant,
     OpenInvariant, ReceiveInvariant, BreakInvariant DEF Next

LEMMA SessionInvariantHolds == Spec => []SessionInvariant
<1>1. Init => SessionInvariant
  BY SessionAssumption, InitInvariant
<1>2. SessionInvariant /\ [Next]_vars => SessionInvariant'
  BY SessionAssumption, NextInvariant
<1> QED
  BY <1>1, <1>2, PTL DEF Spec

\* Whatever the user opens, however loads overtake one another and connections
\* break, a page shows events of its own scope only, unless events were applied to
\* it while the connection was another load's (App.tsx run, client.ts commit).
THEOREM SessionsAreSafe == Spec => []SessionSafety
<1>1. SessionInvariant => SessionSafety
  BY DEF SessionInvariant, SessionSafety
<1> QED
  BY <1>1, SessionInvariantHolds, PTL

\* When nothing is under way the page is the one the user is at, with everything
\* that happened there, over any number of loads and broken connections (client.ts
\* onopen and commit, App.tsx reload).
THEOREM SessionsCatchUp == Spec => []UpToDate
<1>1. SessionInvariant => UpToDate
  <2> SUFFICES ASSUME SessionInvariant, Settled, ~error, ~stray, ~late
               PROVE  page.scope = route /\ Events(route, events[route]) \subseteq page.shows
    BY DEF UpToDate
  <2>1. Loaded /\ conn.state = "open" /\ sent = events /\ Range(conn.queue) = {}
    BY EmptyQueue DEF Settled, Loaded
  <2> QED BY <2>1 DEF SessionInvariant, Routes, Covered
<1> QED
  BY <1>1, SessionInvariantHolds, PTL
=============================================================================
