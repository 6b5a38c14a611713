--------------------------- MODULE RelaySendProofs ---------------------------
(***************************************************************************)
(* RelaySend keeps the promise of IntentLog for any number of requests,    *)
(* keys, coins and texts and any size of batches.                          *)
(***************************************************************************)
EXTENDS RelaySend, TLAPS

LEMMA SeqConcat ==
  ASSUME NEW S, NEW s \in Seq(S), NEW t \in Seq(S)
  PROVE  /\ s \o t \in Seq(S)
         /\ Len(s \o t) = Len(s) + Len(t)
         /\ \A i \in 1 .. Len(s) : (s \o t)[i] = s[i]
         /\ \A i \in 1 .. Len(t) : (s \o t)[Len(s) + i] = t[i]
OBVIOUS

\* A request that was signed has its nonce: it is never signed again, and all
\* that was sent of it agrees with it.  The content it owes is stored
\* before it is sent.
Backed(r) == Owed(r) => requests[r].text \in store

SentIsSigned ==
  /\ \A tx \in network :
       /\ requests[tx.req].phase # "new"
       /\ Backed(tx.req)
  /\ \A i \in DOMAIN log : requests[log[i].req].phase # "new"
  /\ \A r \in Requests :
       requests[r].phase \in {"stored", "built", "waiting"}
         => Backed(r)

\* What the relay knows of success is true.
KnownIsApplied == \A r \in Requests :
  requests[r].phase = "ok" \/ requests[r].outcome = "applied" => Committed(r)

\* A batch is in the log as a whole and in one piece, with the nonces and in the
\* order it was signed, although each of its intents is verified and applied on
\* its own (build_transaction_many).
AllOrNothing ==
  \A i \in DOMAIN log :
    LET r == log[i].req
        q == requests[r]
        first == i - log[i].index + 1
    IN  /\ first \in DOMAIN log /\ first + q.size - 1 \in DOMAIN log
        /\ \A k \in 1 .. q.size :
             LET e == log[first + k - 1]
             IN  <<e.req, e.index, e.key, e.nonce>> = <<r, k, q.key, q.nonce + k - 1>>

\* There are at least as many intents in the log as any key has used nonces.
LogLongEnough == \A k \in Keys : nonces[k] <= Len(log)

Inv ==
  /\ TypeOK /\ SentIsSigned /\ KnownIsApplied /\ LogLongEnough
  /\ NonceSequence /\ AllOrNothing /\ ContentKept

LEMMA InitInv == Init => Inv
<1> SUFFICES ASSUME Init PROVE Inv
  OBVIOUS
<1>1. TypeOK
  BY DEF Init, TypeOK, Request, Phases, Outcomes, Handlings
<1>2. network = {} /\ DOMAIN log = {} /\ Len(log) = 0
  BY DEF Init
<1>3. \A k \in Keys : nonces[k] = 0
  BY DEF Init
<1>4. \A r \in Requests : requests[r].phase = "new" /\ requests[r].outcome = "pending"
  BY DEF Init
<1>5. NonceSequence
  BY <1>2, <1>3 DEF NonceSequence
<1> QED
  BY <1>1, <1>2, <1>3, <1>4, <1>5
     DEF Inv, SentIsSigned, KnownIsApplied, LogLongEnough, AllOrNothing, ContentKept

-----------------------------------------------------------------------------
\* A step either appends one batch whose nonce is the next one, or leaves the
\* log and the nonces alone.

Unapplied == log' = log /\ nonces' = nonces

LEMMA StepKinds ==
  ASSUME Next
  PROVE  Unapplied \/ \E tx \in network : Apply(tx)
BY DEF Next, Unapplied, FetchNonce, StoreContent, Refuse, Build, BuildFails, Broadcast,
       Succeed, Retry, GiveUp, Vanish, Abort, Cancel, Drop

\* Nothing ever leaves the store.
LEMMA StoreGrows ==
  ASSUME Next
  PROVE  store' = store \/ \E r \in Requests : store' = Stored(r)
BY DEF Next, FetchNonce, StoreContent, Refuse, Build, BuildFails, Broadcast,
       Succeed, Retry, GiveUp, Cleanup, Vanish, Apply, Abort, Cancel, Drop

\* What never changes of a request.
Kept(q, old) ==
  /\ q.key = old.key /\ q.size = old.size /\ q.text = old.text
  /\ q.handling = old.handling /\ q.brought = old.brought
  /\ old.phase # "new" => q.phase # "new" /\ q.nonce = old.nonce

LEMMA PhaseWith ==
  ASSUME NEW q \in Request, NEW phase \in Phases \ {"new"}
  PROVE  LET to == [q EXCEPT !.phase = phase]
         IN  /\ to \in Request /\ to.phase = phase
             /\ to.coin = q.coin /\ to.outcome = q.outcome /\ Kept(to, q)
BY DEF Request, Kept

LEMMA AttemptWith ==
  ASSUME NEW q \in Request, NEW phase \in Phases \ {"new"}, NEW c \in Coins \cup {NoCoin}
  PROVE  LET to == Attempt(q, phase, c)
         IN  /\ to \in Request /\ to.phase = phase
             /\ to.coin = c /\ to.outcome = "pending" /\ Kept(to, q)
BY DEF Request, Kept, Outcomes, Attempt

LEMMA NonceWith ==
  ASSUME NEW q \in Request, q.phase = "new", NEW n \in Nat
  PROVE  LET to == Signed(q, n)
         IN  /\ to \in Request /\ to.phase = "signed"
             /\ to.coin = q.coin /\ to.outcome = q.outcome /\ Kept(to, q)
BY DEF Request, Kept, Phases, Signed

LEMMA OutcomeWith ==
  ASSUME NEW q \in Request, NEW x \in Outcomes
  PROVE  LET to == [q EXCEPT !.outcome = x]
         IN  /\ to \in Request /\ to.phase = q.phase
             /\ to.coin = q.coin /\ to.outcome = x /\ Kept(to, q)
BY DEF Request, Kept, Outcomes

\* What a step does to one request: the phase, the coin and the outcome.
\* Only Build takes a coin, only the chain gives an outcome.
Moves(q, old) ==
  /\ q \in Request /\ Kept(q, old)
  /\ q.phase \in {"built", "waiting"} => q.coin \in Coins

LEMMA RequestsMove ==
  ASSUME TypeOK, Next
  PROVE  /\ requests' \in [Requests -> Request]
         /\ \A r \in Requests : Moves(requests'[r], requests[r])
<1>0. /\ \A r \in Requests : requests[r] \in Request /\ Moves(requests[r], requests[r])
      /\ requests \in [Requests -> Request]
  BY DEF Kept, Moves, TypeOK
<1> DEFINE Good == /\ requests' \in [Requests -> Request]
                   /\ \A s \in Requests : Moves(requests'[s], requests[s])
<1>a. ASSUME NEW r \in Requests, NEW q \in Request, Moves(q, requests[r]),
             requests' = [requests EXCEPT ![r] = q]
      PROVE  Good
  BY <1>a, <1>0
<1> HIDE DEF Good
<1>1. ASSUME NEW r \in Requests, FetchNonce(r)
      PROVE  Good
  <2> DEFINE q == Signed(requests[r], nonces[requests[r].key])
  <2>1. nonces[requests[r].key] \in Nat
    BY <1>0 DEF Request, TypeOK
  <2>2. q \in Request /\ q.phase = "signed" /\ Kept(q, requests[r])
    BY <1>0, <1>1, <2>1, NonceWith DEF FetchNonce
  <2>3. requests' = [requests EXCEPT ![r] = q]
    BY <1>1 DEF FetchNonce
  <2> HIDE DEF q
  <2> QED
    BY <1>a, <2>2, <2>3 DEF Moves
<1>2. ASSUME NEW r \in Requests, NEW phase \in {"stored", "failed"}, Goto(r, phase)
      PROVE  Good
  <2> DEFINE q == [requests[r] EXCEPT !.phase = phase]
  <2>1. phase \in Phases \ {"new"} /\ phase \notin {"built", "waiting"}
    BY DEF Phases
  <2>2. q \in Request /\ q.phase = phase /\ Kept(q, requests[r])
    BY <1>0, <2>1, PhaseWith
  <2>3. requests' = [requests EXCEPT ![r] = q]
    BY <1>2 DEF Goto
  <2> HIDE DEF q
  <2> QED
    BY <1>a, <2>1, <2>2, <2>3 DEF Moves
<1>3. ASSUME NEW r \in Requests, Broadcast(r)
      PROVE  Good
  <2> DEFINE q == [requests[r] EXCEPT !.phase = "waiting"]
  <2>1. q \in Request /\ q.phase = "waiting" /\ q.coin = requests[r].coin /\ Kept(q, requests[r])
    BY <1>0, PhaseWith DEF Phases
  <2>2. requests[r].coin \in Coins
    BY <1>3 DEF Broadcast, TypeOK
  <2>3. requests' = [requests EXCEPT ![r] = q]
    BY <1>3 DEF Broadcast, Goto
  <2> HIDE DEF q
  <2> QED
    BY <1>a, <2>1, <2>2, <2>3 DEF Moves
<1>4. ASSUME NEW r \in Requests, Build(r)
      PROVE  Good
  <2> PICK c \in Coins :
        requests' = [requests EXCEPT ![r] = Attempt(requests[r], "built", c)]
    BY <1>4 DEF Build
  <2> DEFINE q == Attempt(requests[r], "built", c)
  <2>0. requests[r] \in Request /\ c \in Coins \cup {NoCoin} /\ "built" \in Phases \ {"new"}
    BY <1>0 DEF Phases
  <2>1. q \in Request /\ q.coin = c /\ Kept(q, requests[r])
    BY <2>0, AttemptWith
  <2>2. requests' = [requests EXCEPT ![r] = q]
    OBVIOUS
  <2> HIDE DEF q
  <2> QED
    BY <1>a, <2>1, <2>2 DEF Moves
<1>5. ASSUME NEW r \in Requests, NEW phase \in {"ok", "stored", "rejected", "gone"},
             Leave(r, phase)
      PROVE  Good
  <2> DEFINE q == Attempt(requests[r], phase, NoCoin)
  <2>1. phase \in Phases \ {"new"} /\ phase \notin {"built", "waiting"}
    BY DEF Phases
  <2>0. requests[r] \in Request /\ NoCoin \in Coins \cup {NoCoin}
    BY <1>0
  <2>2. q \in Request /\ q.phase = phase /\ Kept(q, requests[r])
    BY <2>0, <2>1, AttemptWith
  <2>3. requests' = [requests EXCEPT ![r] = q]
    BY <1>5 DEF Leave
  <2> HIDE DEF q
  <2> QED
    BY <1>a, <2>1, <2>2, <2>3 DEF Moves
<1>6. ASSUME NEW tx \in network, NEW x \in Outcomes, Spent(tx, x)
      PROVE  Good
  <2>1. \A s \in Requests : \E y \in Outcomes :
          requests'[s] = requests[s] \/ requests'[s] = [requests[s] EXCEPT !.outcome = y]
    BY <1>6 DEF Spent, Outcomes
  <2>2. ASSUME NEW s \in Requests
        PROVE  requests'[s] \in Request /\ Moves(requests'[s], requests[s])
    <3>1. CASE requests'[s] = requests[s]
      BY <1>0, <3>1
    <3>2. CASE requests'[s] # requests[s]
      <4> PICK y \in Outcomes : requests'[s] = [requests[s] EXCEPT !.outcome = y]
        BY <2>1, <3>2
      <4> DEFINE q == [requests[s] EXCEPT !.outcome = y]
      <4>1. /\ q \in Request /\ q.phase = requests[s].phase
            /\ q.coin = requests[s].coin /\ Kept(q, requests[s])
        BY <1>0, OutcomeWith
      <4>2. requests[s].phase \in {"built", "waiting"} => requests[s].coin \in Coins
        BY DEF TypeOK
      <4>3. requests'[s] = q
        OBVIOUS
      <4> HIDE DEF q
      <4> QED
        BY <4>1, <4>2, <4>3 DEF Moves
    <3> QED
      BY <3>1, <3>2
  <2>3. requests' = [s \in Requests |-> requests'[s]]
    BY <1>6 DEF Spent
  <2> QED
    BY <2>2, <2>3 DEF Good
<1>7. ASSUME NEW tx \in network, Drop(tx)
      PROVE  Good
  BY <1>0, <1>7 DEF Drop, Good
<1>8. Good
  BY <1>1, <1>2, <1>3, <1>4, <1>5, <1>6, <1>7
     DEF Next, StoreContent, Refuse, BuildFails, Succeed, Retry, GiveUp, Vanish,
         Apply, Abort, Cancel, Outcomes
<1> QED
  BY <1>8 DEF Good

LEMMA BatchType ==
  ASSUME TypeOK, NEW r \in Requests
  PROVE  /\ requests[r].key \in Keys /\ requests[r].nonce \in Nat
         /\ requests[r].size \in 1 .. MaxBatch /\ requests[r].size \in Nat \ {0}
         /\ Batch(r) \in Seq(Entry)
         /\ Len(Batch(r)) = requests[r].size
         /\ \A i \in 1 .. requests[r].size :
              Batch(r)[i] = [req |-> r, index |-> i, key |-> requests[r].key,
                             nonce |-> requests[r].nonce + i - 1,
                             content |-> requests[r].text]
<1>1. /\ requests[r].key \in Keys /\ requests[r].nonce \in Nat
      /\ requests[r].size \in 1 .. MaxBatch /\ requests[r].text \in Texts \cup {NoText}
  BY DEF TypeOK, Request
<1>2. requests[r].size \in Nat \ {0}
  BY <1>1, SendAssumption
<1>3. \A i \in 1 .. requests[r].size :
        [req |-> r, index |-> i, key |-> requests[r].key,
         nonce |-> requests[r].nonce + i - 1, content |-> requests[r].text] \in Entry
  <2> SUFFICES ASSUME NEW i \in 1 .. requests[r].size
               PROVE  [req |-> r, index |-> i, key |-> requests[r].key,
                       nonce |-> requests[r].nonce + i - 1,
                       content |-> requests[r].text] \in Entry
    OBVIOUS
  <2>1. i \in 1 .. MaxBatch /\ requests[r].nonce + i - 1 \in Nat
    BY <1>1, <1>2, SendAssumption
  <2> QED
    BY <1>1, <2>1 DEF Entry
<1>4. Batch(r) \in [1 .. requests[r].size -> Entry]
  BY <1>3 DEF Batch
<1>5. Batch(r) \in Seq(Entry) /\ Len(Batch(r)) = requests[r].size
  BY <1>2, <1>4
<1> QED
  BY <1>1, <1>2, <1>5 DEF Batch

LEMMA BatchAt ==
  ASSUME TypeOK, NEW r \in Requests, NEW i \in 1 .. requests[r].size
  PROVE  /\ Batch(r)[i].req = r /\ Batch(r)[i].index = i
         /\ Batch(r)[i].key = requests[r].key
         /\ Batch(r)[i].nonce = requests[r].nonce + i - 1
         /\ Batch(r)[i].content = requests[r].text
BY DEF Batch

LEMMA EntryAt ==
  ASSUME TypeOK, NEW i \in DOMAIN log
  PROVE  /\ i \in 1 .. Len(log) /\ log[i] \in Entry
         /\ log[i].req \in Requests /\ log[i].key \in Keys /\ log[i].nonce \in Nat
         /\ log[i].index \in 1 .. MaxBatch
<1>1. i \in 1 .. Len(log) /\ log[i] \in Entry
  BY DEF TypeOK
<1> QED
  BY <1>1 DEF Entry

\* The log after a batch was appended.
LEMMA Appended ==
  ASSUME TypeOK, NEW tx \in network, Apply(tx)
  PROVE  LET size == requests[tx.req].size
         IN  /\ tx.req \in Requests
             /\ log' \in Seq(Entry)
             /\ Len(log') = Len(log) + size
             /\ \A i \in 1 .. Len(log) : log'[i] = log[i]
             /\ \A i \in 1 .. size : log'[Len(log) + i] = Batch(tx.req)[i]
<1>1. tx.req \in Requests
  BY DEF TypeOK
<1>2. log \in Seq(Entry) /\ log' = log \o Batch(tx.req)
  BY DEF TypeOK, Apply
<1>3. /\ Batch(tx.req) \in Seq(Entry)
      /\ Len(Batch(tx.req)) = requests[tx.req].size /\ requests[tx.req].size \in Nat
  BY <1>1, BatchType
<1>4. Len(log') = Len(log) + Len(Batch(tx.req)) /\ log' \in Seq(Entry)
  BY <1>2, <1>3, SeqConcat
<1>5. \A i \in 1 .. Len(log) : log'[i] = log[i]
  BY <1>2, <1>3, SeqConcat
<1>6. \A i \in 1 .. Len(Batch(tx.req)) : log'[Len(log) + i] = Batch(tx.req)[i]
  BY <1>2, <1>3, SeqConcat
<1> QED
  BY <1>1, <1>3, <1>4, <1>5, <1>6

-----------------------------------------------------------------------------
LEMMA TypeStep ==
  ASSUME TypeOK, Next
  PROVE  TypeOK'
<1> USE DEF TypeOK
<1>1. /\ requests' \in [Requests -> Request]
      /\ \A r \in Requests :
           requests'[r].phase \in {"built", "waiting"} => requests'[r].coin \in Coins
  BY RequestsMove DEF Moves
<1>2. network' \subseteq [req : Requests, coin : Coins]
  <2>1. ASSUME NEW r \in Requests, Broadcast(r)
        PROVE  network' \subseteq [req : Requests, coin : Coins]
    BY <2>1 DEF Broadcast, Tx
  <2> QED
    BY <2>1 DEF Next, FetchNonce, StoreContent, Refuse, Build, BuildFails,
         Succeed, Retry, GiveUp, Vanish, Apply, Abort, Cancel, Drop, Spent
<1>3. nonces' \in [Keys -> Nat] /\ log' \in Seq(Entry)
  <2>1. CASE Unapplied
    BY <2>1 DEF Unapplied
  <2>2. ASSUME NEW tx \in network, Apply(tx)
        PROVE  nonces' \in [Keys -> Nat] /\ log' \in Seq(Entry)
    BY <2>2, Appended, BatchType DEF Apply
  <2> QED
    BY <2>1, <2>2, StepKinds
<1>4. store' \subseteq Texts
  <2>1. \A r \in Requests : requests[r].text \in Texts \cup {NoText}
    BY DEF Request
  <2> QED
    BY <2>1, StoreGrows DEF TypeOK, Stored
<1> QED
  BY <1>1, <1>2, <1>3, <1>4

\* How a request comes to be sent, to be acknowledged and to be known as applied.
Sending == {"stored", "built", "waiting"}

Filed(r) == store' = Stored(r) /\ ~Missing(r)

LEMMA RequestsReach ==
  ASSUME TypeOK, Next, NEW s \in Requests
  PROVE  /\ requests'[s].phase \in Sending =>
              requests[s].phase \in Sending \/ Filed(s)
         /\ requests'[s].phase = "ok" =>
              requests[s].phase = "ok" \/ requests[s].outcome = "applied"
         /\ requests'[s].outcome = "applied" =>
              requests[s].outcome = "applied" \/ \E tx \in network : tx.req = s /\ Apply(tx)
<1> DEFINE Good ==
      /\ requests'[s].phase \in Sending =>
           requests[s].phase \in Sending \/ Filed(s)
      /\ requests'[s].phase = "ok" =>
           requests[s].phase = "ok" \/ requests[s].outcome = "applied"
      /\ requests'[s].outcome = "applied" =>
           requests[s].outcome = "applied" \/ \E tx \in network : tx.req = s /\ Apply(tx)
<1>0. requests \in [Requests -> Request] /\ requests[s] \in Request
  BY DEF TypeOK
<1>a. ASSUME requests'[s] = requests[s] PROVE Good
  BY <1>a
<1>b. ASSUME NEW phase \in Phases \ {"new"},
             requests'[s].phase = phase, requests'[s].outcome \in {requests[s].outcome, "pending"},
             phase = "ok" => requests[s].outcome = "applied",
             phase \in Sending => requests[s].phase \in Sending \/ Filed(s)
      PROVE  Good
  BY <1>b
<1> HIDE DEF Good
<1>1. ASSUME NEW r \in Requests, FetchNonce(r) PROVE Good
  <2>1. CASE s = r
    <3>1. nonces[requests[s].key] \in Nat /\ requests[s].phase = "new"
      BY <1>0, <1>1, <2>1 DEF Request, TypeOK, FetchNonce
    <3>2. requests'[s] = Signed(requests[s], nonces[requests[s].key])
      BY <1>0, <1>1, <2>1 DEF FetchNonce
    <3>3. requests'[s].phase = "signed" /\ requests'[s].outcome = requests[s].outcome
      BY <1>0, <3>1, <3>2, NonceWith
    <3> QED
      BY <1>b, <3>3 DEF Phases, Sending
  <2>2. CASE s # r
    BY <1>0, <1>1, <1>a, <2>2 DEF FetchNonce
  <2> QED
    BY <2>1, <2>2
<1>2. ASSUME NEW r \in Requests, NEW phase \in {"stored", "failed", "waiting"}, Goto(r, phase),
             phase \in Sending => requests[r].phase \in Sending \/ Filed(r)
      PROVE  Good
  <2>1. CASE s = r
    <3>1. phase \in Phases \ {"new"}
      BY DEF Phases
    <3>2. requests'[s] = [requests[s] EXCEPT !.phase = phase]
      BY <1>0, <1>2, <2>1 DEF Goto
    <3>3. requests'[s].phase = phase /\ requests'[s].outcome = requests[s].outcome
      BY <1>0, <3>1, <3>2, PhaseWith
    <3> QED
      BY <1>b, <1>2, <2>1, <3>1, <3>3
  <2>2. CASE s # r
    BY <1>0, <1>2, <1>a, <2>2 DEF Goto
  <2> QED
    BY <2>1, <2>2
<1>3. ASSUME NEW r \in Requests, NEW phase \in Phases \ {"new"}, NEW c \in Coins \cup {NoCoin},
             requests' = [requests EXCEPT ![r] = Attempt(@, phase, c)],
             phase = "ok" => requests[r].outcome = "applied",
             phase \in Sending => requests[r].phase \in Sending
      PROVE  Good
  <2>1. CASE s = r
    <3>1. requests'[s] = Attempt(requests[s], phase, c)
      BY <1>0, <1>3, <2>1
    <3>2. requests'[s].phase = phase /\ requests'[s].outcome = "pending"
      BY <1>0, <3>1, AttemptWith
    <3> QED
      BY <1>b, <1>3, <2>1, <3>2
  <2>2. CASE s # r
    BY <1>0, <1>3, <1>a, <2>2
  <2> QED
    BY <2>1, <2>2
<1>4. ASSUME NEW tx \in network, NEW x \in Outcomes, Spent(tx, x), x = "applied" => Apply(tx)
      PROVE  Good
  <2>1. CASE requests'[s] = requests[s]
    BY <1>a, <2>1
  <2>2. CASE requests'[s] # requests[s]
    <3> DEFINE y == IF s = tx.req THEN x ELSE "stale"
    <3>1. requests'[s] = [requests[s] EXCEPT !.outcome = y]
      BY <1>4, <2>2 DEF Spent
    <3>2. y \in Outcomes
      BY DEF Outcomes
    <3>3. y = "applied" => tx.req = s /\ Apply(tx)
      BY <1>4
    <3> HIDE DEF y
    <3>4. requests'[s].phase = requests[s].phase /\ requests'[s].outcome = y
      BY <1>0, <3>1, <3>2, OutcomeWith
    <3> QED
      BY <3>3, <3>4 DEF Good
  <2> QED
    BY <2>1, <2>2
<1>5. ASSUME NEW r \in Requests, StoreContent(r) \/ Refuse(r) \/ BuildFails(r) \/ Broadcast(r)
      PROVE  Good
  <2>1. CASE StoreContent(r)
    <3>1. Goto(r, "stored") /\ Filed(r)
      BY <2>1 DEF StoreContent, Filed
    <3> QED
      BY <1>2, <3>1
  <2>2. CASE Refuse(r) \/ BuildFails(r)
    <3>1. Goto(r, "failed") /\ "failed" \notin Sending
      BY <2>2 DEF Refuse, BuildFails, Sending
    <3> QED
      BY <1>2, <3>1
  <2>3. CASE Broadcast(r)
    <3>1. Goto(r, "waiting") /\ requests[r].phase \in Sending
      BY <2>3 DEF Broadcast, Sending
    <3> QED
      BY <1>2, <3>1
  <2> QED
    BY <1>5, <2>1, <2>2, <2>3
<1>6. ASSUME NEW r \in Requests, Build(r) PROVE Good
  <2>1. "built" \in Phases \ {"new"} /\ requests[r].phase \in Sending
    BY <1>6 DEF Build, Phases, Sending
  <2>2. PICK c \in Coins \cup {NoCoin} :
          requests' = [requests EXCEPT ![r] = Attempt(@, "built", c)]
    BY <1>6 DEF Build
  <2> QED
    BY <1>3, <2>1, <2>2
<1>7. ASSUME NEW r \in Requests, Succeed(r) \/ Retry(r) \/ GiveUp(r) \/ Vanish(r) PROVE Good
  <2>0. NoCoin \in Coins \cup {NoCoin}
    OBVIOUS
  <2>1. CASE Succeed(r)
    <3>1. /\ requests' = [requests EXCEPT ![r] = Attempt(@, "ok", NoCoin)]
          /\ requests[r].outcome = "applied"
          /\ "ok" \in Phases \ {"new"} /\ "ok" \notin Sending
      BY <2>1 DEF Succeed, Succeeded, Leave, Phases, Sending
    <3> QED
      BY <1>3, <2>0, <3>1
  <2>2. CASE Retry(r)
    <3>1. /\ requests' = [requests EXCEPT ![r] = Attempt(@, "stored", NoCoin)]
          /\ "stored" \in Phases \ {"new"} /\ requests[r].phase \in Sending
      BY <2>2 DEF Retry, Leave, Phases, Sending
    <3> QED
      BY <1>3, <2>0, <3>1
  <2>3. CASE GiveUp(r)
    <3>1. /\ requests' = [requests EXCEPT ![r] = Attempt(@, "rejected", NoCoin)]
          /\ "rejected" \in Phases \ {"new"} /\ "rejected" \notin Sending
      BY <2>3 DEF GiveUp, Leave, Phases, Sending
    <3> QED
      BY <1>3, <2>0, <3>1
  <2>4. CASE Vanish(r)
    <3>1. /\ requests' = [requests EXCEPT ![r] = Attempt(@, "gone", NoCoin)]
          /\ "gone" \in Phases \ {"new"} /\ "gone" \notin Sending
      BY <2>4 DEF Vanish, Leave, Phases, Sending
    <3> QED
      BY <1>3, <2>0, <3>1
  <2> QED
    BY <1>7, <2>1, <2>2, <2>3, <2>4
<1>8. ASSUME NEW tx \in network, Apply(tx) \/ Abort(tx) \/ Cancel(tx) PROVE Good
  <2>1. PICK x \in Outcomes : Spent(tx, x) /\ (x = "applied" => Apply(tx))
    BY <1>8 DEF Apply, Abort, Cancel, Outcomes
  <2> QED
    BY <1>4, <2>1
<1>9. ASSUME NEW tx \in network, Drop(tx) PROVE Good
  BY <1>9, <1>a DEF Drop
<1>10. Good
  BY <1>1, <1>5, <1>6, <1>7, <1>8, <1>9 DEF Next
<1> QED
  BY <1>10 DEF Good

LEMMA NetworkReach ==
  ASSUME Next
  PROVE  \A tx \in network' :
           tx \in network \/ \E r \in Requests : requests[r].phase = "built" /\ tx = Tx(r)
<1>1. ASSUME NEW r \in Requests, Broadcast(r)
      PROVE  \A tx \in network' : tx \in network \/ (requests[r].phase = "built" /\ tx = Tx(r))
  BY <1>1 DEF Broadcast
<1> QED
  BY <1>1 DEF Next, FetchNonce, StoreContent, Refuse, Build, BuildFails,
       Succeed, Retry, GiveUp, Vanish, Apply, Abort, Cancel, Drop, Spent

LEMMA LogGrows ==
  ASSUME TypeOK, Next
  PROVE  /\ log \in Seq(Entry) /\ log' \in Seq(Entry)
         /\ Len(log) <= Len(log')
         /\ \A i \in 1 .. Len(log) : log'[i] = log[i]
<1>1. CASE Unapplied
  BY <1>1 DEF Unapplied, TypeOK
<1>2. ASSUME NEW tx \in network, Apply(tx)
      PROVE  /\ log' \in Seq(Entry) /\ Len(log) <= Len(log')
             /\ \A i \in 1 .. Len(log) : log'[i] = log[i]
  <2>1. requests[tx.req].size \in Nat /\ Len(log) \in Nat
    BY <1>2, Appended, BatchType DEF TypeOK
  <2> QED
    BY <1>2, <2>1, Appended
<1> QED
  BY <1>1, <1>2, StepKinds DEF TypeOK

-----------------------------------------------------------------------------
\* Each part of the invariant is kept by every step.

LEMMA SentStep ==
  ASSUME TypeOK, SentIsSigned, Next
  PROVE  SentIsSigned'
<1>1. store \subseteq store'
  BY StoreGrows DEF Stored
<1>2. \A r \in Requests : Kept(requests'[r], requests[r])
  BY RequestsMove DEF Moves
<1>6. \A r \in Requests : requests[r].brought \in BOOLEAN
  BY DEF TypeOK, Request
<1>7. ASSUME NEW r \in Requests, Backed(r) \/ Filed(r)
      PROVE  Backed(r)'
  <2> SUFFICES ASSUME Owed(r)' PROVE requests'[r].text \in store'
    BY DEF Backed
  <2>1. Owed(r) /\ requests'[r].text = requests[r].text
    BY <1>2 DEF Owed, Kept
  <2>2. CASE Backed(r)
    BY <1>1, <2>1, <2>2 DEF Backed
  <2>3. CASE Filed(r)
    <3>1. requests[r].brought /\ requests[r].handling # "ignores" /\ requests[r].text # NoText
      BY <2>1, <2>3 DEF Filed, Missing, Owed
    <3> QED
      BY <2>1, <2>3, <3>1 DEF Filed, Stored
  <2> QED
    BY <1>7, <2>2, <2>3
<1>3. ASSUME NEW tx \in network'
      PROVE  requests'[tx.req].phase # "new" /\ Backed(tx.req)'
  <2>1. CASE tx \in network
    <3>1. tx.req \in Requests
      BY <2>1 DEF TypeOK
    <3> QED
      BY <1>2, <1>7, <2>1, <3>1 DEF SentIsSigned, Kept
  <2>2. CASE tx \notin network
    <3>1. PICK r \in Requests : requests[r].phase = "built" /\ tx = Tx(r)
      BY <2>2, NetworkReach
    <3>2. tx.req = r /\ Backed(r)
      BY <3>1 DEF Tx, SentIsSigned
    <3> QED
      BY <1>2, <1>7, <3>1, <3>2 DEF Kept
  <2> QED
    BY <2>1, <2>2
<1>4. ASSUME NEW i \in DOMAIN log'
      PROVE  requests'[log'[i].req].phase # "new"
  <2>1. CASE i \in DOMAIN log
    <3>1. log'[i] = log[i] /\ log[i].req \in Requests
      BY <2>1, LogGrows, EntryAt
    <3> QED
      BY <1>2, <2>1, <3>1 DEF SentIsSigned, Kept
  <2>2. CASE i \notin DOMAIN log
    <3>1. PICK tx \in network : Apply(tx)
      BY <2>2, StepKinds DEF Unapplied
    <3>2. tx.req \in Requests /\ requests[tx.req].size \in Nat
      BY <3>1, Appended, BatchType
    <3>3. log \in Seq(Entry) /\ log' \in Seq(Entry) /\ Len(log') = Len(log) + requests[tx.req].size
      BY <3>1, Appended DEF TypeOK
    <3>4. i - Len(log) \in 1 .. requests[tx.req].size /\ i = Len(log) + (i - Len(log))
      BY <2>2, <3>2, <3>3
    <3>5. log'[i] = Batch(tx.req)[i - Len(log)]
      BY <3>1, <3>4, Appended
    <3>6. log'[i].req = tx.req
      BY <3>2, <3>4, <3>5, BatchAt
    <3> QED
      BY <1>2, <3>2, <3>6 DEF SentIsSigned, Kept
  <2> QED
    BY <2>1, <2>2
<1>5. ASSUME NEW r \in Requests, requests'[r].phase \in {"stored", "built", "waiting"}
      PROVE  Backed(r)'
  BY <1>5, <1>7, RequestsReach DEF SentIsSigned, Sending
<1> QED
  BY <1>3, <1>4, <1>5 DEF SentIsSigned

LEMMA CommittedStays ==
  ASSUME TypeOK, Next, NEW r \in Requests, Committed(r)
  PROVE  Committed(r)'
BY LogGrows DEF Committed

LEMMA ApplyCommits ==
  ASSUME TypeOK, NEW tx \in network, Apply(tx)
  PROVE  Committed(tx.req)'
<1>1. /\ log \in Seq(Entry) /\ log' \in Seq(Entry) /\ Len(log) \in Nat
      /\ requests[tx.req].size \in Nat \ {0} /\ Len(log') = Len(log) + requests[tx.req].size
  BY Appended, BatchType DEF TypeOK
<1>2. Len(log) + 1 \in DOMAIN log' /\ 1 \in 1 .. requests[tx.req].size
  BY <1>1
<1>3. log'[Len(log) + 1] = Batch(tx.req)[1]
  BY <1>2, Appended
<1>4. log'[Len(log) + 1].req = tx.req
  BY <1>2, <1>3, Appended, BatchAt
<1> QED
  BY <1>2, <1>4 DEF Committed

LEMMA KnownStep ==
  ASSUME TypeOK, KnownIsApplied, Next
  PROVE  KnownIsApplied'
<1> SUFFICES ASSUME NEW r \in Requests,
                    requests'[r].phase = "ok" \/ requests'[r].outcome = "applied"
             PROVE  Committed(r)'
  BY DEF KnownIsApplied
<1>1. \/ requests[r].phase = "ok" \/ requests[r].outcome = "applied"
      \/ \E tx \in network : tx.req = r /\ Apply(tx)
  BY RequestsReach
<1> QED
  BY <1>1, CommittedStays, ApplyCommits DEF KnownIsApplied

LEMMA LengthStep ==
  ASSUME TypeOK, LogLongEnough, Next
  PROVE  LogLongEnough'
<1>1. CASE Unapplied
  BY <1>1 DEF Unapplied, LogLongEnough
<1>2. ASSUME NEW tx \in network, Apply(tx) PROVE LogLongEnough'
  <2>1. /\ requests[tx.req].size \in Nat /\ Len(log) \in Nat
        /\ Len(log') = Len(log) + requests[tx.req].size
    BY <1>2, Appended, BatchType DEF TypeOK
  <2>2. nonces' = [nonces EXCEPT ![requests[tx.req].key] = @ + requests[tx.req].size]
    BY <1>2 DEF Apply
  <2> QED
    BY <2>1, <2>2 DEF LogLongEnough, TypeOK
<1> QED
  BY <1>1, <1>2, StepKinds

LEMMA NonceStep ==
  ASSUME TypeOK, NonceSequence, Next
  PROVE  NonceSequence'
<1>1. CASE Unapplied
  BY <1>1 DEF Unapplied, NonceSequence
<1>2. ASSUME NEW tx \in network, Apply(tx) PROVE NonceSequence'
  <2> DEFINE r == tx.req
             key == requests[r].key
             size == requests[r].size
             old == Len(log)
  <2>1. /\ r \in Requests /\ key \in Keys /\ size \in Nat \ {0} /\ old \in Nat
        /\ log \in Seq(Entry) /\ log' \in Seq(Entry) /\ Len(log') = old + size
        /\ nonces \in [Keys -> Nat]
    BY <1>2, Appended, BatchType DEF TypeOK
  <2>2. requests[r].nonce = nonces[key] /\ nonces' = [nonces EXCEPT ![key] = @ + size]
    BY <1>2 DEF Apply, Accepted
  <2>3. \A i \in 1 .. old : /\ log'[i] = log[i] /\ log[i].key \in Keys /\ log[i].nonce \in Nat
                            /\ log[i].nonce < nonces[log[i].key]
    BY <1>2, <2>1, Appended, EntryAt DEF NonceSequence
  <2>4. \A i \in old + 1 .. old + size : log'[i].key = key /\ log'[i].nonce = nonces[key] + (i - old) - 1
    <3> SUFFICES ASSUME NEW i \in old + 1 .. old + size
                 PROVE  log'[i].key = key /\ log'[i].nonce = nonces[key] + (i - old) - 1
      OBVIOUS
    <3>1. i - old \in 1 .. size /\ i = old + (i - old)
      BY <2>1
    <3>2. log'[i] = Batch(r)[i - old]
      BY <1>2, <3>1, Appended
    <3> QED
      BY <2>1, <2>2, <3>1, <3>2, BatchAt
  <2>5. DOMAIN log' = 1 .. old + size /\ DOMAIN log = 1 .. old
    BY <2>1
  <2> HIDE DEF r, key, size, old
  <2>6. ASSUME NEW i \in DOMAIN log', NEW j \in DOMAIN log', i < j, log'[i].key = log'[j].key
        PROVE  log'[i].nonce < log'[j].nonce
    <3>1. CASE j \in 1 .. old
      <4>1. i \in 1 .. old
        BY <2>1, <2>5, <2>6, <3>1
      <4>2. log[i].key = log[j].key
        BY <2>3, <2>6, <3>1, <4>1
      <4>3. log[i].nonce < log[j].nonce
        BY <2>5, <2>6, <3>1, <4>1, <4>2 DEF NonceSequence
      <4> QED
        BY <2>3, <3>1, <4>1, <4>3
    <3>2. CASE i \in 1 .. old /\ j \in old + 1 .. old + size
      <4>1. log[i].key = key /\ log'[i].nonce < nonces[key] /\ log'[i].nonce \in Nat
        BY <2>3, <2>4, <2>6, <3>2
      <4>2. log'[j].nonce = nonces[key] + (j - old) - 1 /\ j - old >= 1 /\ j \in Nat
        BY <2>1, <2>4, <3>2
      <4> QED
        BY <2>1, <4>1, <4>2
    <3>3. CASE i \in old + 1 .. old + size /\ j \in old + 1 .. old + size
      BY <2>1, <2>4, <2>6, <3>3
    <3> QED
      BY <2>1, <2>5, <2>6, <3>1, <3>2, <3>3
  <2>7. ASSUME NEW i \in DOMAIN log' PROVE log'[i].nonce < nonces'[log'[i].key]
    <3>1. CASE i \in 1 .. old
      BY <2>1, <2>2, <2>3, <3>1
    <3>2. CASE i \in old + 1 .. old + size
      BY <2>1, <2>2, <2>4, <3>2
    <3> QED
      BY <2>1, <2>5, <3>1, <3>2
  <2>8. ASSUME NEW k \in Keys, NEW n \in 0 .. nonces'[k] - 1
        PROVE  \E i \in DOMAIN log' : log'[i].key = k /\ log'[i].nonce = n
    <3>1. CASE n < nonces[k]
      <4>1. n \in 0 .. nonces[k] - 1
        BY <2>1, <2>2, <3>1
      <4>2. PICK i \in DOMAIN log : log[i].key = k /\ log[i].nonce = n
        BY <4>1 DEF NonceSequence
      <4>3. i \in DOMAIN log' /\ log'[i] = log[i]
        BY <2>1, <2>3, <2>5, <4>2
      <4> QED
        BY <4>2, <4>3
    <3>2. CASE ~(n < nonces[k])
      <4>1. k = key
        BY <2>1, <2>2, <3>2
      <4>2. old + (n - nonces[k]) + 1 \in old + 1 .. old + size
        BY <2>1, <2>2, <3>2, <4>1
      <4>3. log'[old + (n - nonces[k]) + 1].nonce = n /\ log'[old + (n - nonces[k]) + 1].key = k
        BY <2>1, <2>4, <3>2, <4>1, <4>2
      <4> QED
        BY <2>1, <2>5, <4>2, <4>3
    <3> QED
      BY <3>1, <3>2
  <2> QED
    BY <2>6, <2>7, <2>8 DEF NonceSequence
<1> QED
  BY <1>1, <1>2, StepKinds

LEMMA BatchKept ==
  ASSUME TypeOK, Next, NEW r \in Requests, requests[r].phase # "new"
  PROVE  /\ requests'[r].size = requests[r].size /\ requests'[r].key = requests[r].key
         /\ requests'[r].nonce = requests[r].nonce /\ requests'[r].text = requests[r].text
         /\ Batch(r)' = Batch(r)
<1>1. Kept(requests'[r], requests[r])
  BY RequestsMove DEF Moves
<1> QED
  BY <1>1 DEF Kept, Batch

\* AllOrNothing for one entry, of the log l, and its request as q.
Whole(l, i, q) ==
  LET first == i - l[i].index + 1
  IN  /\ first \in DOMAIN l /\ first + q.size - 1 \in DOMAIN l
      /\ \A k \in 1 .. q.size :
           /\ l[first + k - 1].req = l[i].req /\ l[first + k - 1].index = k
           /\ l[first + k - 1].key = q.key /\ l[first + k - 1].nonce = q.nonce + k - 1

LEMMA AllWhole == AllOrNothing <=> \A i \in DOMAIN log : Whole(log, i, requests[log[i].req])
BY DEF AllOrNothing, Whole

LEMMA AllWholeNext ==
  ASSUME \A i \in DOMAIN log' : Whole(log', i, requests'[log'[i].req])
  PROVE  AllOrNothing'
BY DEF AllOrNothing, Whole

LEMMA WholeStep ==
  ASSUME TypeOK, SentIsSigned, AllOrNothing, Next
  PROVE  AllOrNothing'
<1> SUFFICES ASSUME NEW i \in DOMAIN log'
             PROVE  Whole(log', i, requests'[log'[i].req])
  BY AllWholeNext
<1>1. CASE i \in DOMAIN log
  <2> DEFINE r == log[i].req
             first == i - log[i].index + 1
             size == requests[r].size
  <2>1. /\ log'[i] = log[i] /\ r \in Requests /\ requests[r].phase # "new"
        /\ i \in Nat /\ log[i].index \in Nat
    BY <1>1, LogGrows, EntryAt DEF SentIsSigned
  <2>2. /\ requests'[r].size = size /\ requests'[r].key = requests[r].key
        /\ requests'[r].nonce = requests[r].nonce /\ size \in Nat \ {0}
    BY <2>1, BatchKept, BatchType
  <2>3. /\ first \in DOMAIN log /\ first + size - 1 \in DOMAIN log
        /\ \A k \in 1 .. size :
             /\ log[first + k - 1].req = r /\ log[first + k - 1].index = k
             /\ log[first + k - 1].key = requests[r].key
             /\ log[first + k - 1].nonce = requests[r].nonce + k - 1
    BY <1>1, AllWhole DEF Whole
  <2>4. /\ DOMAIN log = 1 .. Len(log) /\ DOMAIN log' = 1 .. Len(log')
        /\ Len(log) \in Nat /\ Len(log') \in Nat /\ Len(log) <= Len(log')
        /\ \A k \in 1 .. Len(log) : log'[k] = log[k]
    BY LogGrows
  <2>5. first = i - log'[i].index + 1 /\ log'[i].req = r
    BY <2>1
  <2> HIDE DEF r, first, size
  <2>6. \A k \in 1 .. size : log'[first + k - 1] = log[first + k - 1]
    <3> SUFFICES ASSUME NEW k \in 1 .. size PROVE first + k - 1 \in 1 .. Len(log)
      BY <2>4
    <3> QED
      BY <2>2, <2>3, <2>4
  <2>7. first \in DOMAIN log' /\ first + size - 1 \in DOMAIN log'
    BY <2>3, <2>4
  <2> QED
    BY <2>2, <2>3, <2>5, <2>6, <2>7 DEF Whole
<1>2. CASE i \notin DOMAIN log
  <2>1. PICK tx \in network : Apply(tx)
    BY <1>2, StepKinds DEF Unapplied
  <2> DEFINE r == tx.req
             size == requests[r].size
             old == Len(log)
  <2>2. /\ r \in Requests /\ size \in Nat \ {0} /\ old \in Nat
        /\ log \in Seq(Entry) /\ log' \in Seq(Entry) /\ Len(log') = old + size
    BY <2>1, Appended, BatchType DEF TypeOK
  <2>3. requests[r].phase # "new"
    BY <2>1 DEF SentIsSigned
  <2>4. /\ requests'[r].size = size /\ requests'[r].key = requests[r].key
        /\ requests'[r].nonce = requests[r].nonce
    BY <2>2, <2>3, BatchKept
  <2>5. \A k \in 1 .. size :
          /\ log'[old + k].req = r /\ log'[old + k].index = k
          /\ log'[old + k].key = requests[r].key
          /\ log'[old + k].nonce = requests[r].nonce + k - 1
    <3> TAKE k \in 1 .. size
    <3>1. log'[old + k] = Batch(r)[k]
      BY <2>1, Appended
    <3> QED
      BY <2>2, <3>1, BatchAt
  <2>6. i - old \in 1 .. size /\ i = old + (i - old)
    BY <1>2, <2>2
  <2>7. log'[i].req = r /\ log'[i].index = i - old
    BY <2>5, <2>6
  <2> HIDE DEF r, size, old
  <2>8. i - log'[i].index + 1 = old + 1
    BY <2>2, <2>6, <2>7
  <2>9. old + 1 \in DOMAIN log' /\ (old + 1) + size - 1 \in DOMAIN log'
    BY <2>2
  <2>10. \A k \in 1 .. size : (old + 1) + k - 1 = old + k
    BY <2>2
  <2> QED
    BY <2>4, <2>5, <2>7, <2>8, <2>9, <2>10 DEF Whole
<1> QED
  BY <1>1, <1>2

LEMMA OwedKept ==
  ASSUME TypeOK, Next, NEW r \in Requests
  PROVE  Owed(r)' => Owed(r)
<1>1. Kept(requests'[r], requests[r])
  BY RequestsMove DEF Moves
<1> QED
  BY <1>1 DEF Kept, Owed

LEMMA ContentStep ==
  ASSUME TypeOK, SentIsSigned, ContentKept, Next
  PROVE  ContentKept'
<1>1. store \subseteq store'
  BY StoreGrows DEF Stored
<1> SUFFICES ASSUME NEW i \in DOMAIN log', Owed(log[i].req)'
             PROVE  log'[i].content \in store'
  BY DEF ContentKept
<1>2. CASE i \in DOMAIN log
  <2>1. log'[i] = log[i] /\ log[i].req \in Requests
    BY <1>2, LogGrows, EntryAt
  <2>2. Owed(log[i].req)
    BY <2>1, OwedKept DEF Owed
  <2> QED
    BY <1>1, <1>2, <2>1, <2>2 DEF ContentKept
<1>3. CASE i \notin DOMAIN log
  <2>1. PICK tx \in network : Apply(tx)
    BY <1>3, StepKinds DEF Unapplied
  <2>2. /\ tx.req \in Requests /\ requests[tx.req].size \in Nat \ {0} /\ Len(log) \in Nat
        /\ log \in Seq(Entry) /\ log' \in Seq(Entry)
        /\ Len(log') = Len(log) + requests[tx.req].size
    BY <2>1, Appended, BatchType DEF TypeOK
  <2>3. i - Len(log) \in 1 .. requests[tx.req].size /\ i = Len(log) + (i - Len(log))
    BY <1>3, <2>2
  <2>4. log'[i] = Batch(tx.req)[i - Len(log)]
    BY <2>1, <2>3, Appended
  <2>5. log'[i].content = requests[tx.req].text /\ log'[i].req = tx.req
    BY <2>2, <2>3, <2>4, BatchAt
  <2>6. Owed(tx.req)
    BY <2>2, <2>5, OwedKept DEF Owed
  <2> QED
    BY <1>1, <2>1, <2>5, <2>6 DEF SentIsSigned, Backed
<1> QED
  BY <1>2, <1>3

LEMMA StepInv == Inv /\ [Next]_vars => Inv'
<1> SUFFICES ASSUME Inv, [Next]_vars PROVE Inv'
  OBVIOUS
<1>1. CASE Next
  BY <1>1, TypeStep, SentStep, KnownStep, LengthStep, NonceStep, WholeStep, ContentStep DEF Inv
<1>2. CASE UNCHANGED vars
  <2>1. TypeOK' /\ SentIsSigned' /\ KnownIsApplied' /\ LogLongEnough'
    BY <1>2 DEF vars, Inv, TypeOK, SentIsSigned, Backed, Owed, KnownIsApplied, Committed, LogLongEnough
  <2>2. NonceSequence' /\ ContentKept'
    BY <1>2 DEF vars, Inv, NonceSequence, ContentKept, Owed
  <2>3. AllOrNothing'
    BY <1>2 DEF vars, Inv, AllOrNothing
  <2> QED
    BY <2>1, <2>2, <2>3 DEF Inv
<1> QED
  BY <1>1, <1>2

LEMMA InvHolds == Spec => []Inv
BY InitInv, StepInv, PTL DEF Spec

-----------------------------------------------------------------------------
\* RelaySend is well typed.
THEOREM TypeCorrect == Spec => []TypeOK
BY InvHolds, PTL DEF Inv

\* Nonces are used in order, without a gap and once, whatever the relay repeats.
THEOREM NoncesInSequence == Spec => []NonceSequence
BY InvHolds, PTL DEF Inv

\* An "ok" is true.
THEOREM OkIsTrue == Spec => []OkMeansApplied
<1>1. Inv => OkMeansApplied
  BY DEF Inv, KnownIsApplied, OkMeansApplied
<1> QED
  BY <1>1, InvHolds, PTL

\* The content of what was applied is in the store.
THEOREM ContentIsKept == Spec => []ContentKept
BY InvHolds, PTL DEF Inv

-----------------------------------------------------------------------------
\* The refinement: only Apply commits.

LEMMA PromiseInit == Init => Promise!Init
<1> SUFFICES ASSUME Init PROVE Promise!Init
  OBVIOUS
<1>1. \A r \in Requests : requests[r].phase = "new"
  BY DEF Init
<1>2. [r \in Requests |-> Answer(requests[r].phase)] = [r \in Requests |-> "none"]
  BY <1>1 DEF Answer
<1> QED
  BY <1>2 DEF Init, Promise!Init

LEMMA PhaseSteps ==
  ASSUME TypeOK, Next
  PROVE  \/ \A s \in Requests : requests'[s].phase = requests[s].phase
         \/ /\ Unapplied
            /\ \E r \in Requests :
                 /\ requests[r].phase \notin Final
                 /\ requests'[r].phase = "ok" => requests[r].outcome = "applied"
                 /\ \A s \in Requests \ {r} : requests'[s].phase = requests[s].phase
<1>1. ASSUME NEW r \in Requests,
             \/ FetchNonce(r) \/ StoreContent(r) \/ Refuse(r) \/ Build(r) \/ BuildFails(r)
             \/ Broadcast(r) \/ Succeed(r) \/ Retry(r) \/ GiveUp(r) \/ Vanish(r)
      PROVE  /\ Unapplied
             /\ requests[r].phase \notin Final
             /\ requests'[r].phase = "ok" => requests[r].outcome = "applied"
             /\ \A s \in Requests \ {r} : requests'[s].phase = requests[s].phase
  <2>1. Unapplied
    BY <1>1 DEF Unapplied, FetchNonce, StoreContent, Refuse, Build, BuildFails, Broadcast,
                Succeed, Retry, GiveUp, Vanish
  <2>2. requests[r].phase \notin Final
    BY <1>1 DEF Final, FetchNonce, StoreContent, Refuse, Build, BuildFails, Broadcast,
                Succeed, Retry, GiveUp, Vanish
  <2>3. requests'[r].phase = "ok" => requests[r].outcome = "applied"
    BY <2>2, RequestsReach DEF Final
  <2>4. \E q : requests' = [requests EXCEPT ![r] = q]
    BY <1>1 DEF Goto, Leave, FetchNonce, StoreContent, Refuse, Build, BuildFails, Broadcast,
                Succeed, Retry, GiveUp, Vanish
  <2> QED
    BY <2>1, <2>2, <2>3, <2>4 DEF TypeOK
<1>2. ASSUME NEW tx \in network, Apply(tx) \/ Abort(tx) \/ Cancel(tx)
      PROVE  \A s \in Requests : requests'[s].phase = requests[s].phase
  <2>1. PICK x \in Outcomes : Spent(tx, x)
    BY <1>2 DEF Apply, Abort, Cancel, Outcomes
  <2>2. TAKE s \in Requests
  <2>3. requests[s] \in Request
    BY DEF TypeOK
  <2>4. PICK y \in Outcomes :
          requests'[s] = requests[s] \/ requests'[s] = [requests[s] EXCEPT !.outcome = y]
    BY <2>1 DEF Spent, Outcomes
  <2>5. [requests[s] EXCEPT !.outcome = y].phase = requests[s].phase
    BY <2>3, OutcomeWith
  <2> QED
    BY <2>4, <2>5
<1>3. ASSUME NEW tx \in network, Drop(tx)
      PROVE  \A s \in Requests : requests'[s].phase = requests[s].phase
  BY <1>3 DEF Drop
<1> QED
  BY <1>1, <1>2, <1>3 DEF Next

LEMMA ApplyKeepsPhases ==
  ASSUME TypeOK, NEW tx \in network, Apply(tx)
  PROVE  \A s \in Requests : requests'[s].phase = requests[s].phase
<1>1. Next
  BY DEF Next
<1>2. ~Unapplied
  BY Appended, BatchType DEF Unapplied, TypeOK
<1> QED
  BY <1>1, <1>2, PhaseSteps

\* A batch that is accepted was never applied before: its first nonce would
\* have been used.
LEMMA AcceptedIsNew ==
  ASSUME Inv, NEW r \in Requests, Accepted(r)
  PROVE  ~Committed(r)
<1> SUFFICES ASSUME NEW i \in DOMAIN log, log[i].req = r PROVE FALSE
  BY DEF Committed
<1> DEFINE first == i - log[i].index + 1
<1>1. requests[r].size \in Nat \ {0} /\ requests[r].nonce \in Nat
  BY BatchType DEF Inv
<1>2. /\ first \in DOMAIN log
      /\ \A k \in 1 .. requests[r].size :
           /\ log[first + k - 1].key = requests[r].key
           /\ log[first + k - 1].nonce = requests[r].nonce + k - 1
  BY AllWhole DEF Whole, Inv
<1>3. first + 1 - 1 = first /\ 1 \in 1 .. requests[r].size /\ requests[r].nonce + 1 - 1 = requests[r].nonce
  BY <1>1, <1>2 DEF Inv, TypeOK
<1>4. log[first].key = requests[r].key /\ log[first].nonce = requests[r].nonce
  BY <1>2, <1>3
<1>5. log[first].nonce < nonces[log[first].key]
  BY <1>2 DEF Inv, NonceSequence
<1> QED
  BY <1>1, <1>4, <1>5 DEF Accepted

LEMMA PromiseStep == Inv /\ [Next]_vars => [Promise!Next]_(Promise!vars)
<1> SUFFICES ASSUME Inv, [Next]_vars PROVE [Promise!Next]_(Promise!vars)
  OBVIOUS
<1> DEFINE answers == [r \in Requests |-> Answer(requests[r].phase)]
<1>0. TypeOK
  BY DEF Inv
<1>1. ASSUME NEW tx \in network, Apply(tx) PROVE Promise!Next
  <2> DEFINE r == tx.req
             k == requests[r].key
             n == requests[r].nonce
  <2>1. /\ r \in Requests /\ k \in Keys /\ n \in Nat /\ n = nonces[k]
        /\ requests[r].size \in 1 .. MaxBatch /\ requests[r].text \in Texts \cup {NoText}
    BY <1>0, <1>1, BatchType DEF TypeOK, Request, Apply, Accepted
  <2>2. ~Promise!Committed(r)
    BY <1>1, <2>1, AcceptedIsNew DEF Apply, Committed, Promise!Committed
  <2>3. Promise!NextNonce(k, n)
    BY <2>1 DEF Inv, NonceSequence, Promise!NextNonce, Promise!Applied
  <2>4. n \in 0 .. Len(log)
    BY <1>0, <2>1 DEF Inv, LogLongEnough, TypeOK
  <2>5. log' = log \o [i \in 1 .. requests[r].size |->
                         [req |-> r, index |-> i, key |-> k, nonce |-> n + i - 1,
                          content |-> requests[r].text]]
    BY <1>1 DEF Apply, Batch
  <2>6. answers' = answers
    BY <1>0, <1>1, ApplyKeepsPhases
  <2>7. Promise!Commit(r)
    BY <2>1, <2>2, <2>3, <2>4, <2>5, <2>6 DEF Promise!Commit
  <2> QED
    BY <2>1, <2>7 DEF Promise!Next
<1>2. ASSUME log' = log, \A s \in Requests : requests'[s].phase = requests[s].phase
      PROVE  UNCHANGED Promise!vars
  BY <1>2 DEF Promise!vars
<1>3. ASSUME Unapplied, NEW r \in Requests,
             requests[r].phase \notin Final,
             requests'[r].phase = "ok" => requests[r].outcome = "applied",
             \A s \in Requests \ {r} : requests'[s].phase = requests[s].phase
      PROVE  [Promise!Next]_(Promise!vars)
  <2>1. answers[r] = "none" /\ answers'[r] \in {"none", "ok", "error"}
    BY <1>3 DEF Answer, Final
  <2>2. answers' = [answers EXCEPT ![r] = answers'[r]]
    BY <1>3
  <2>3. CASE answers'[r] = "none"
    BY <1>3, <2>1, <2>2, <2>3 DEF Unapplied, Promise!vars
  <2>4. CASE answers'[r] = "error"
    BY <1>3, <2>1, <2>2, <2>4 DEF Unapplied, Promise!Next, Promise!Fail
  <2>5. CASE answers'[r] = "ok"
    <3>1. requests'[r].phase = "ok"
      BY <1>3, <2>5 DEF Answer
    <3>2. Promise!Committed(r)
      BY <1>3, <3>1 DEF Inv, KnownIsApplied, Committed, Promise!Committed
    <3> QED
      BY <1>3, <2>1, <2>2, <2>5, <3>2 DEF Unapplied, Promise!Next, Promise!Acknowledge
  <2> QED
    BY <2>1, <2>3, <2>4, <2>5
<1>4. CASE Next
  <2>1. CASE Unapplied
    BY <1>0, <1>2, <1>3, <1>4, <2>1, PhaseSteps DEF Unapplied
  <2>2. CASE ~Unapplied
    BY <1>1, <1>4, <2>2, StepKinds
  <2> QED
    BY <2>1, <2>2
<1>5. CASE UNCHANGED vars
  BY <1>2, <1>5 DEF vars
<1> QED
  BY <1>4, <1>5

\* The relay and the chain keep the promise of IntentLog.
THEOREM PromiseKept == Spec => KeepsPromise
BY PromiseInit, PromiseStep, InvHolds, PTL DEF Spec, KeepsPromise, Promise!Spec
=============================================================================
