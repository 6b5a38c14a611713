----------------------------- MODULE PostBallots -----------------------------
(***************************************************************************)
(* The reactions and the poll of one post (post_apply.move, set_reaction_v2*)
(* and vote_v2), together with the board's list of allowed reactions that  *)
(* a moderator may change at any time (board_apply.move, set_reactions).   *)
(*                                                                         *)
(* Every action is one transaction: it happens as a whole or, when one of  *)
(* the contract's assertions fails, not at all.  A sender is a public key  *)
(* and a tweak (sender.move); the relay binds each intent to one IP hash.  *)
(* Whether the clock allows the author of a migrated post to act at all is *)
(* left to module Imageboard: here the transaction may always abort.       *)
(***************************************************************************)
EXTENDS Integers, FiniteSets, Registry

CONSTANTS
  Pks, Tweaks, \* what a sender is made of
  Ips,         \* IP hashes the relay may respond with
  Emoji,       \* reactions a board may allow
  Options,     \* the post's vote keys
  MultiVote,   \* the post's multi_vote flag
  None,        \* option::none
  MaxEntries   \* bound: entries ever added to a registry

ASSUME BallotAssumption ==
  /\ Pks \cap Ips = {}
  /\ IsFiniteSet(Options) /\ Cardinality(Options) <= 16
  /\ MultiVote \in BOOLEAN
  /\ None \notin Emoji
  /\ MaxEntries \in Nat

VARIABLES
  allowed,    \* board.reactions
  reactions,  \* post.reactions: the published count of each emoji in use
  reacted,    \* post.reacted: who reacted with what
  votes,      \* post.votes: the published count of each option
  voted       \* post.voted: who voted for what

vars == <<allowed, reactions, reacted, votes, voted>>

Senders == Pks \X Tweaks
Pk(s) == s[1]
Identities == Pks \cup Ips
UserEntry(Choices) == [sender : Senders, options : SUBSET Choices]

-----------------------------------------------------------------------------
\* Counting

ReactionInc(counts, h) ==
  Put(counts, h, IF h \in DOMAIN counts THEN counts[h] + 1 ELSE 1)

ReactionDec(counts, h) ==
  IF counts[h] = 1 THEN Drop(counts, {h}) ELSE Put(counts, h, counts[h] - 1)

-----------------------------------------------------------------------------
Init ==
  /\ allowed = {}
  /\ reactions = NoEntries
  /\ reacted = EmptyRegistry
  /\ votes = [o \in Options |-> 0]
  /\ voted = EmptyRegistry

\* A moderator of the board replaces the list of allowed reactions.
SetReactions(emoji) ==
  /\ allowed' = emoji
  /\ UNCHANGED <<reactions, reacted, votes, voted>>

\* The entry an intent is about: the one filed under the sender's key, or
\* else the one filed under its IP hash.
Located(s, ip) ==
  IF Find(reacted, Pk(s)) # {} THEN Find(reacted, Pk(s)) ELSE Find(reacted, ip)

AddReaction(s, ip, old, h) ==
  /\ h \in allowed
  /\ Located(s, ip) = {}
  /\ old = None
  /\ CanAdd(reacted, {ip, Pk(s)})
  /\ reacted.counter < MaxEntries
  /\ reactions' = ReactionInc(reactions, h)
  /\ reacted' = Add(reacted, {ip, Pk(s)}, [sender |-> s, options |-> {h}])
  /\ UNCHANGED <<allowed, votes, voted>>

OwnReactionMutant(s, ip, old) ==
  {id \in Located(s, ip) : old # None /\ reacted.entries[id].options = {old}}
\* The entry the sender may exchange or withdraw: its own, stated correctly.
OwnReaction(s, ip, old) ==
  {id \in Located(s, ip) :
     /\ reacted.entries[id].sender = s
     /\ old # None /\ reacted.entries[id].options = {old}}

ReplaceReaction(s, ip, old, h) ==
  /\ h \in allowed
  /\ old # h
  /\ reacted.counter < MaxEntries
  /\ \E id \in OwnReaction(s, ip, old) :
       /\ CanAdd(Remove(reacted, id), {ip, Pk(s)})
       /\ reactions' = ReactionInc(ReactionDec(reactions, old), h)
       /\ reacted' = Add(Remove(reacted, id), {ip, Pk(s)},
                         [sender |-> s, options |-> {h}])
  /\ UNCHANGED <<allowed, votes, voted>>

\* Sending the reaction one already has takes it back.
WithdrawReaction(s, ip, old, h) ==
  /\ h \in allowed
  /\ old = h
  /\ \E id \in OwnReaction(s, ip, old) :
       /\ reactions' = ReactionDec(reactions, old)
       /\ reacted' = Remove(reacted, id)
  /\ UNCHANGED <<allowed, votes, voted>>

SetReaction(s, ip, old, h) ==
  \/ AddReaction(s, ip, old, h)
  \/ ReplaceReaction(s, ip, old, h)
  \/ WithdrawReaction(s, ip, old, h)

\* Someone voted with this key or from this address.
Voted(s, ip) == Find(voted, ip) # {} \/ Find(voted, Pk(s)) # {}

VoteCountMutant(options) ==
  [o \in Options |-> votes[o] + (IF options = {o} THEN 1 ELSE 0)]
VoteCount(options) == [o \in Options |-> votes[o] + (IF o \in options THEN 1 ELSE 0)]

\* options is a set: vec_set::from_keys aborts on a repeated option.
Vote(s, ip, options) ==
  /\ Cardinality(options) = 1 \/ (options # {} /\ MultiVote)
  /\ ~Voted(s, ip)
  /\ options \subseteq Options
  /\ CanAdd(voted, {ip, Pk(s)})
  /\ voted.counter < MaxEntries
  /\ votes' = VoteCount(options)
  /\ voted' = Add(voted, {ip, Pk(s)}, [sender |-> s, options |-> options])
  /\ UNCHANGED <<allowed, reactions, reacted>>

Next ==
  \/ \E emoji \in SUBSET Emoji : SetReactions(emoji)
  \/ \E s \in Senders, ip \in Ips :
       \/ \E old \in Emoji \cup {None}, h \in Emoji : SetReaction(s, ip, old, h)
       \/ \E options \in SUBSET Options : Vote(s, ip, options)

Spec == Init /\ [][Next]_vars

-----------------------------------------------------------------------------
\* Every variable has its type; a count that is kept is positive.
TypeOK ==
  /\ allowed \subseteq Emoji
  /\ DOMAIN reactions \subseteq Emoji
  /\ reactions \in [DOMAIN reactions -> Nat \ {0}]
  /\ IsRegistry(reacted, Identities, UserEntry(Emoji))
  /\ votes \in [Options -> Nat]
  /\ IsRegistry(voted, Identities, UserEntry(Options))

\* Each entry is filed under exactly one key, its sender's, and one address.
FiledUnderSender(r) == \A id \in DOMAIN r.entries :
  \E ip \in Ips : r.identities[id] = {ip, Pk(r.entries[id].sender)}

\* The three tables of a registry stay in step through every sequence of
\* additions, exchanges and withdrawals, although add, find and remove each
\* touch them separately: no identity leads to two entries, none to an entry
\* that is gone, and an entry is filed under its own sender.
RegistriesSound ==
  /\ IndexIsInverse(reacted) /\ FiledUnderSender(reacted)
  /\ IndexIsInverse(voted) /\ FiledUnderSender(voted)

Entries(r, choice) == {id \in DOMAIN r.entries : choice \in r.entries[id].options}

\* The published count of a reaction, which is what every reader shows, is
\* the number of people whose reaction it is, and an emoji nobody uses any
\* more is gone from the map.
ReactionTally == \A e \in Emoji :
  Cardinality(Entries(reacted, e)) = IF e \in DOMAIN reactions THEN reactions[e] ELSE 0

\* The published count of an option is the number of voters who chose it.
VoteTally == \A o \in Options : votes[o] = Cardinality(Entries(voted, o))

\* The registries are sound and the published counts are theirs.
BallotsSafety == TypeOK /\ RegistriesSound /\ ReactionTally /\ VoteTally

-----------------------------------------------------------------------------
\* The ballots a registry stands for.
BallotsOf(r) ==
  {[pk      |-> Pk(r.entries[id].sender),
    ip      |-> CHOOSE ip \in Ips : ip \in r.identities[id],
    choices |-> r.entries[id].options] : id \in DOMAIN r.entries}

ReactionBox == INSTANCE Ballot WITH
  Choices <- Emoji, Final <- FALSE, ballots <- BallotsOf(reacted),
  shown <- [e \in Emoji |-> IF e \in DOMAIN reactions THEN reactions[e] ELSE 0]

VoteBox == INSTANCE Ballot WITH
  Choices <- Options, Final <- TRUE, ballots <- BallotsOf(voted), shown <- votes

\* The reactions implement the abstract ballot box: one reaction per key and
\* per address, exchanged only by its owner, and the count always exact.
ReactionsAreBallots == ReactionBox!Spec

\* The poll implements it too, and there a ballot once cast is final.
VotesAreBallots == VoteBox!Spec
=============================================================================
