------------------------------- MODULE Ballot -------------------------------
(***************************************************************************)
(* What the reactions and the polls of a post promise: a box of ballots,   *)
(* at most one per public key and at most one per IP address, and a        *)
(* published count that is the count of the ballots in the box.  Reactions *)
(* may be exchanged or withdrawn; votes are final.                         *)
(***************************************************************************)
EXTENDS Naturals, FiniteSets

CONSTANTS
  Pks,      \* public keys
  Ips,      \* IP addresses, as the HMAC of the address for this post
  Choices,  \* emoji or poll options
  Final     \* TRUE when a ballot can be neither exchanged nor withdrawn

VARIABLES
  ballots,  \* the ballots in the box
  shown     \* the published count of each choice

vars == <<ballots, shown>>

BallotType == [pk : Pks, ip : Ips, choices : SUBSET Choices]

Count(box) == [c \in Choices |-> Cardinality({b \in box : c \in b.choices})]

\* b may join the box: its key and its address are not in use.
Fresh(b, box) == \A other \in box : other.pk # b.pk /\ other.ip # b.ip

Init == ballots = {} /\ shown = Count({})

Cast == \E b \in BallotType :
  /\ Fresh(b, ballots)
  /\ ballots' = ballots \cup {b}

\* The holder of a key exchanges its ballot, perhaps from another address.
Exchange == \E b \in ballots, n \in BallotType :
  /\ ~Final
  /\ n.pk = b.pk /\ n.choices # b.choices
  /\ Fresh(n, ballots \ {b})
  /\ ballots' = (ballots \ {b}) \cup {n}

Withdraw == \E b \in ballots : ~Final /\ ballots' = ballots \ {b}

Next == (Cast \/ Exchange \/ Withdraw) /\ shown' = Count(ballots')

Spec == Init /\ [][Next]_vars
=============================================================================
