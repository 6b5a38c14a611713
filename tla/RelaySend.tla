------------------------------ MODULE RelaySend ------------------------------
(***************************************************************************)
(* How signed intents travel to the chain: the client fetches a nonce and  *)
(* signs (frontend, IntentBuilder.ts), the relay stores the content, wraps *)
(* the batch into a transaction of its own, broadcasts it and tries again  *)
(* until the upstream node gives a final answer (handlers/send.rs,         *)
(* upstream.rs, error.rs), and the chain executes what reaches it, checking*)
(* each intent's nonce (sharded_counter.move).                             *)
(*                                                                         *)
(* Every attempt builds a NEW transaction, paid with a coin picked at      *)
(* random from the sponsor's pool at the coin's present version.  The      *)
(* coin is an owned object: executing one transaction that pays with it    *)
(* invalidates every other one that names the same version.  So versions   *)
(* need no numbers: a transaction is its request and its coin, it is in    *)
(* "network" as long as it may still be executed, and two attempts with    *)
(* the same coin at the same version are one transaction (one digest).     *)
(* Attempts with different coins are different transactions, and both may  *)
(* be executed, in any order, after any error the relay saw.               *)
(***************************************************************************)
EXTENDS Naturals, Sequences, FiniteSets

CONSTANTS
  Requests,  \* calls of /send, from all clients, through all relays
  Keys,      \* public keys; a key may be used by several requests at once
  Coins,     \* the sponsor's gas coins
  NoCoin,    \* before an attempt and after the last one
  Texts,     \* content of posts, filed in the store under its hash
  NoText,    \* the content of an intent that has none
  MaxBatch   \* bound: intents in one batch (100 in modActions.ts)

ASSUME SendAssumption ==
  /\ NoText \notin Texts
  /\ NoCoin \notin Coins
  /\ MaxBatch \in Nat \ {0}

VARIABLES
  requests,  \* each request: where the relay stands with it
  network,   \* transactions that may still be executed
  nonces,    \* the chain's counter of each key
  log,       \* the chain's log of applied intents
  store      \* texts in the content store

vars == <<requests, network, nonces, log, store>>

Phases == {"new", "signed", "stored", "built", "waiting", "ok", "rejected", "failed", "gone"}
Outcomes == {"pending", "applied", "aborted", "cancelled", "stale"}

\* What the relay does about the content an intent names by its hash.  It demands
\* and stores that of a new board, thread or post, of a text, topic or
\* description; it takes the reason of a ban when one comes along; and it ignores
\* that of every other event, the migrated threads and posts among them.
Handlings == {"demands", "takes", "ignores"}

Request ==
  [phase : Phases, key : Keys, nonce : Nat, size : 1 .. MaxBatch, text : Texts \cup {NoText},
   handling : Handlings, brought : BOOLEAN, \* whether the content comes along
   coin : Coins \cup {NoCoin}, \* that pays for the current attempt
   outcome : Outcomes]         \* what became of the current attempt

Entry ==
  [req : Requests, index : 1 .. MaxBatch, key : Keys, nonce : Nat,
   content : Texts \cup {NoText}]

Final == {"ok", "rejected", "failed", "gone"}

Tx(r) == [req |-> r, coin |-> requests[r].coin]

-----------------------------------------------------------------------------
Init ==
  /\ requests \in [Requests ->
       [phase : {"new"}, key : Keys, nonce : {0}, size : 1 .. MaxBatch,
        text : Texts \cup {NoText}, handling : Handlings, brought : BOOLEAN,
        coin : {NoCoin}, outcome : {"pending"}]]
  /\ \A r \in Requests :
       IF requests[r].text = NoText
       THEN requests[r].handling = "ignores" /\ ~requests[r].brought
       ELSE requests[r].handling = "takes" \/ requests[r].size = 1
  /\ network = {}
  /\ nonces = [k \in Keys |-> 0]
  /\ log = <<>>
  /\ store = {}

\* The request goes on in another phase, with or without an attempt under way.
Goto(r, phase) == requests' = [requests EXCEPT ![r] = [@ EXCEPT !.phase = phase]]

Attempt(q, phase, coin) == [q EXCEPT !.phase = phase, !.coin = coin, !.outcome = "pending"]

Leave(r, phase) == requests' = [requests EXCEPT ![r] = Attempt(@, phase, NoCoin)]

Signed(q, nonce) == [q EXCEPT !.phase = "signed", !.nonce = nonce]

\* The client asks for the chain's counter and signs its batch with it.
FetchNonce(r) ==
  /\ requests[r].phase = "new"
  /\ requests' = [requests EXCEPT ![r] = Signed(@, nonces[requests[r].key])]
  /\ UNCHANGED <<network, nonces, log, store>>

\* The content is named and demanded, but it did not come along.
MissingMutant(r) == FALSE

Missing(r) ==
  requests[r].text # NoText /\ requests[r].handling = "demands" /\ ~requests[r].brought

Stored(r) ==
  IF requests[r].brought /\ requests[r].handling # "ignores"
  THEN store \cup ({requests[r].text} \ {NoText})
  ELSE store

\* The relay verifies the payload and puts the text into the store.
StoreContent(r) ==
  /\ requests[r].phase = "signed"
  /\ ~Missing(r)
  /\ Goto(r, "stored")
  /\ store' = Stored(r)
  /\ UNCHANGED <<network, nonces, log>>

\* The payload is invalid or incomplete, the store is not available, the address is banned or
\* the responses cannot be sealed: the request ends, its text stored or not.
Refuse(r) ==
  /\ requests[r].phase = "signed"
  /\ Goto(r, "failed")
  /\ store' \in {store, Stored(r)}
  /\ UNCHANGED <<network, nonces, log>>

\* A transaction with fresh references to its objects and a random coin.
Build(r) ==
  /\ requests[r].phase = "stored"
  /\ \E c \in Coins : requests' = [requests EXCEPT ![r] = Attempt(@, "built", c)]
  /\ UNCHANGED <<network, nonces, log, store>>

\* An error while the references are read ends the request at once, whatever
\* its kind, although earlier attempts may be under way.
BuildFails(r) ==
  /\ requests[r].phase = "stored"
  /\ Goto(r, "failed")
  /\ UNCHANGED <<network, nonces, log, store>>

Broadcast(r) ==
  /\ requests[r].phase = "built"
  /\ Goto(r, "waiting")
  /\ network' = IF requests[r].outcome = "pending" THEN network \cup {Tx(r)} ELSE network
  /\ UNCHANGED <<nonces, log, store>>

-----------------------------------------------------------------------------
\* The chain.

\* inc_checked, for the first intent of the batch; the others follow it.
AcceptedMutant(r) == nonces[requests[r].key] >= requests[r].nonce

Accepted(r) == nonces[requests[r].key] = requests[r].nonce

Batch(r) ==
  [i \in 1 .. requests[r].size |->
     [req |-> r, index |-> i, key |-> requests[r].key,
      nonce |-> requests[r].nonce + i - 1, content |-> requests[r].text]]

\* The coin of tx has a new version: what else pays with the old one is void.
Spent(tx, outcome) ==
  /\ network' = {other \in network : other.coin # tx.coin}
  /\ requests' = [r \in Requests |->
       IF requests[r].coin = tx.coin /\ requests[r].outcome = "pending"
       THEN [requests[r] EXCEPT !.outcome = IF r = tx.req THEN outcome ELSE "stale"]
       ELSE requests[r]]

\* Every intent of the batch is applied, in one transaction.
Apply(tx) ==
  /\ Accepted(tx.req)
  /\ nonces' = [nonces EXCEPT ![requests[tx.req].key] = @ + requests[tx.req].size]
  /\ log' = log \o Batch(tx.req)
  /\ Spent(tx, "applied")
  /\ UNCHANGED store

\* A nonce does not match, or the forum's contract says no to one of the
\* intents: nothing happens but that the gas is paid.
Abort(tx) == Spent(tx, "aborted") /\ UNCHANGED <<nonces, log, store>>

\* Execution is cancelled, by congestion for instance; the gas is paid as well.
Cancel(tx) == Spent(tx, "cancelled") /\ UNCHANGED <<nonces, log, store>>

\* The transaction is lost on its way.
Drop(tx) ==
  /\ network' = network \ {tx}
  /\ UNCHANGED <<requests, nonces, log, store>>

-----------------------------------------------------------------------------
\* What broadcast_signed returns.  Each error may hide what really happened.

SucceededMutant(r) == requests[r].outcome \in {"applied", "aborted"}

Succeeded(r) == requests[r].outcome = "applied"

RetryableMutant(kind) == kind \in {"Timeout", "Rpc", "ExecutionTransient", "ExecutionDeterministic"}

Retryable(kind) == kind \in {"Timeout", "Rpc", "ExecutionTransient"}

\* The kinds of failure the relay may see: a connection may break at any time,
\* the node may refuse the transaction without executing it, for good or not,
\* the wait for a checkpoint may end after an execution of any result.
FailureKinds(outcome) ==
  {"Rpc"} \cup
  CASE outcome = "pending"   -> {"ExecutionDeterministic"}
    [] outcome = "applied"   -> {"Timeout"}
    [] outcome = "aborted"   -> {"Timeout", "ExecutionDeterministic"}
    [] outcome = "cancelled" -> {"Timeout", "ExecutionTransient"}
    [] outcome = "stale"     -> {"ExecutionTransient", "ExecutionDeterministic"}

\* What is left of the store when a request was given up: deleting the content
\* is commented out in every payload's cleanup.
CleanupMutant(r) == store \ {requests[r].text}

Cleanup(r) == store

Succeed(r) ==
  /\ requests[r].phase = "waiting"
  /\ Succeeded(r)
  /\ Leave(r, "ok")
  /\ UNCHANGED <<network, nonces, log, store>>

\* The loop starts over, with a new transaction.
Retry(r) ==
  /\ requests[r].phase = "waiting"
  /\ \E kind \in FailureKinds(requests[r].outcome) : Retryable(kind)
  /\ Leave(r, "stored")
  /\ UNCHANGED <<network, nonces, log, store>>

GiveUp(r) ==
  /\ requests[r].phase = "waiting"
  /\ \E kind \in FailureKinds(requests[r].outcome) : ~Retryable(kind)
  /\ Leave(r, "rejected")
  /\ store' = Cleanup(r)
  /\ UNCHANGED <<network, nonces, log>>

\* The client goes away, or the relay stops, and takes the request with it.
Vanish(r) ==
  /\ requests[r].phase \notin Final \cup {"new"}
  /\ Leave(r, "gone")
  /\ UNCHANGED <<network, nonces, log, store>>

Next ==
  \/ \E r \in Requests :
       \/ FetchNonce(r) \/ StoreContent(r) \/ Refuse(r)
       \/ Build(r) \/ BuildFails(r) \/ Broadcast(r)
       \/ Succeed(r) \/ Retry(r) \/ GiveUp(r) \/ Vanish(r)
  \/ \E tx \in network : Apply(tx) \/ Abort(tx) \/ Cancel(tx) \/ Drop(tx)

Spec == Init /\ [][Next]_vars

\* The relay keeps running, and the upstream is not at fault forever: an attempt
\* that is made again and again is executed at last, and its result, reported
\* again and again, is heard at last.
ExecuteCurrent(r) ==
  /\ Tx(r) \in network
  /\ requests[r].phase = "waiting"
  /\ Apply(Tx(r)) \/ Abort(Tx(r))

Fairness == \A r \in Requests :
  /\ WF_vars(StoreContent(r) \/ Build(r) \/ Broadcast(r))
  /\ SF_vars(ExecuteCurrent(r))
  /\ SF_vars(Succeed(r))
  /\ SF_vars(GiveUp(r))
  /\ WF_vars(requests[r].outcome \in {"pending", "cancelled"} /\ Retry(r))

FairSpec == Spec /\ Fairness

-----------------------------------------------------------------------------
\* Well-typed states.
TypeOK ==
  /\ requests \in [Requests -> Request]
  /\ \A r \in Requests : requests[r].phase \in {"built", "waiting"} => requests[r].coin \in Coins
  /\ network \subseteq [req : Requests, coin : Coins]
  /\ nonces \in [Keys -> Nat]
  /\ log \in Seq(Entry)
  /\ store \subseteq Texts

\* The intents of a key are in the log in the order of their nonces, each nonce
\* below the key's counter exactly once: however often the relay broadcasts a
\* batch, and however late the chain executes a forgotten attempt, no intent is
\* applied twice (sharded_counter.move:61, send.rs:523).
NonceSequence ==
  /\ \A i, j \in DOMAIN log :
       i < j /\ log[i].key = log[j].key => log[i].nonce < log[j].nonce
  /\ \A i \in DOMAIN log : log[i].nonce < nonces[log[i].key]
  /\ \A k \in Keys : \A n \in 0 .. nonces[k] - 1 :
       \E i \in DOMAIN log : log[i].key = k /\ log[i].nonce = n

Committed(r) == \E i \in DOMAIN log : log[i].req = r

\* A request that was answered "ok" is in the log.
OkMeansApplied == \A r \in Requests : requests[r].phase = "ok" => Committed(r)

\* Content the relay answers for.  Two kinds it does not: the reason of a ban
\* that named one by its hash and did not bring it (send.rs:315), and whatever an
\* event without a payload handler names, a migrated post for instance (send.rs:522).
Owed(r) ==
  /\ requests[r].text # NoText
  /\ \/ requests[r].handling = "demands"
     \/ requests[r].handling = "takes" /\ requests[r].brought

\* The content of every applied intent is in the store if the relay answers for
\* it, even when the relay believes that the request failed and cleans up, and
\* even when another request with the same content failed (send.rs:418, 586).
ContentKept == \A i \in DOMAIN log : Owed(log[i].req) => log[i].content \in store

\* Every request that reached the relay ends.
Answered == \A r \in Requests :
  requests[r].phase = "signed" ~> requests[r].phase \in Final


-----------------------------------------------------------------------------
Answer(phase) ==
  CASE phase = "ok" -> "ok"
    [] phase \in {"rejected", "failed"} -> "error"
    [] OTHER -> "none"

Promise == INSTANCE IntentLog WITH
  Contents <- Texts \cup {NoText},
  answers <- [r \in Requests |-> Answer(requests[r].phase)]

\* The relay and the chain together keep the promise of module IntentLog: a
\* batch enters the log once, whole and in nonce order, and "ok" means it did.
KeepsPromise == Promise!Spec
=============================================================================
