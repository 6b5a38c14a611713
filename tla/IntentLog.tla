------------------------------ MODULE IntentLog ------------------------------
(***************************************************************************)
(* What a client may rely on when it sends a batch of intents to a relay:  *)
(* the chain keeps one log of intents; a batch enters it at most once and  *)
(* as a whole, and the intents of one key enter it in the order of their   *)
(* nonces, without a gap.  An "ok" means that the batch is in the log.  An *)
(* "error", or no answer at all, means nothing: the batch may be in the    *)
(* log already, may enter it later, or never.                              *)
(***************************************************************************)
EXTENDS Naturals, Sequences

CONSTANTS
  Requests, \* batches sent to a relay
  Keys,     \* public keys
  Contents, \* what an intent carries
  MaxBatch  \* intents in one batch

VARIABLES
  log,      \* the intents applied, in order
  answers   \* what the relay said of each batch

vars == <<log, answers>>

\* How many intents of key k were applied: the next nonce of k.
Applied(k) == {i \in DOMAIN log : log[i].key = k}

Committed(r) == \E i \in DOMAIN log : log[i].req = r

NextNonce(k, n) ==
  /\ \A i \in Applied(k) : log[i].nonce < n
  /\ \A m \in 0 .. n - 1 : \E i \in Applied(k) : log[i].nonce = m

Init ==
  /\ log = <<>>
  /\ answers = [r \in Requests |-> "none"]

Commit(r) ==
  /\ ~Committed(r)
  /\ \E k \in Keys, size \in 1 .. MaxBatch, content \in Contents, n \in 0 .. Len(log) :
       /\ NextNonce(k, n)
       /\ log' = log \o [i \in 1 .. size |->
                    [req |-> r, index |-> i, key |-> k, nonce |-> n + i - 1,
                     content |-> content]]
  /\ UNCHANGED answers

Acknowledge(r) ==
  /\ answers[r] = "none"
  /\ Committed(r)
  /\ answers' = [answers EXCEPT ![r] = "ok"]
  /\ UNCHANGED log

Fail(r) ==
  /\ answers[r] = "none"
  /\ answers' = [answers EXCEPT ![r] = "error"]
  /\ UNCHANGED log

Next == \E r \in Requests : Commit(r) \/ Acknowledge(r) \/ Fail(r)

Spec == Init /\ [][Next]_vars
=============================================================================
