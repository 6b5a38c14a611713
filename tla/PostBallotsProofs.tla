-------------------------- MODULE PostBallotsProofs --------------------------
(***************************************************************************)
(* Proofs about what is filed in registries.  PostBallots: the registries  *)
(* of reactions and votes stay sound, the published counts are exact, and  *)
(* both implement the ballot box of module Ballot, for any numbers of      *)
(* keys, addresses, emoji and options.  Bans: the registries of bans stay  *)
(* sound, marks name bans, and nobody posts through one, for any           *)
(* addresses, subnets, threads and times.                                  *)
(***************************************************************************)
EXTENDS MCPostBallots, RegistryProofs, Sequences

Sound(r, C) ==
  IsRegistry(r, Identities, UserEntry(C)) /\ IndexIsInverse(r) /\ FiledUnderSender(r)

Hashes(s, ip) == {ip, Pk(s)}
Entry(s, options) == [sender |-> s, options |-> options]

LEMMA EmptyIsSound ==
  ASSUME NEW C
  PROVE  Sound(EmptyRegistry, C)
<1>1. DOMAIN EmptyRegistry.entries = {}
  BY DEF EmptyRegistry, NoEntries
<1> QED
  BY <1>1, EmptySound DEF Sound, FiledUnderSender

LEMMA AddKeepsSound ==
  ASSUME NEW C, NEW r, Sound(r, C), NEW s \in Senders, NEW ip \in Ips, NEW o \in SUBSET C,
         CanAdd(r, Hashes(s, ip))
  PROVE  Sound(Add(r, Hashes(s, ip), Entry(s, o)), C)
<1> DEFINE n == Add(r, Hashes(s, ip), Entry(s, o))
<1>1. IsRegistry(r, Identities, UserEntry(C)) /\ IndexIsInverse(r) /\ FiledUnderSender(r)
  BY DEF Sound
<1>2. Hashes(s, ip) \in SUBSET Identities /\ Entry(s, o) \in UserEntry(C)
  BY DEF Hashes, Entry, Identities, UserEntry, Senders, Pk
<1>3. IsRegistry(n, Identities, UserEntry(C)) /\ IndexIsInverse(n)
  BY <1>1, <1>2, AddIsRegistry, AddKeepsInverse
<1>4. Added(r, n, Hashes(s, ip), Entry(s, o))
  BY <1>1, AddTables
<1> HIDE DEF n
<1>5. ASSUME NEW id \in DOMAIN n.entries
      PROVE  \E x \in Ips : n.identities[id] = {x, Pk(n.entries[id].sender)}
  <2>1. CASE id = r.counter
    BY <1>4, <2>1 DEF Added, Hashes, Entry
  <2>2. CASE id \in DOMAIN r.entries
    BY <1>1, <1>4, <2>2 DEF Added, FiledUnderSender
  <2> QED BY <1>4, <1>5, <2>1, <2>2 DEF Added
<1> QED
  BY <1>3, <1>5 DEF Sound, FiledUnderSender, n

LEMMA RemoveKeepsSound ==
  ASSUME NEW C, NEW r, Sound(r, C), NEW id \in DOMAIN r.entries
  PROVE  Sound(Remove(r, id), C)
<1> DEFINE n == Remove(r, id)
<1>1. IsRegistry(r, Identities, UserEntry(C)) /\ IndexIsInverse(r) /\ FiledUnderSender(r)
  BY DEF Sound
<1>2. IsRegistry(n, Identities, UserEntry(C)) /\ IndexIsInverse(n)
  BY <1>1, RemoveIsRegistry, RemoveKeepsInverse
<1>3. Removed(r, n, id)
  BY <1>1, RemoveTables
<1> HIDE DEF n
<1>4. FiledUnderSender(n)
  BY <1>1, <1>3 DEF Removed, FiledUnderSender
<1> QED
  BY <1>2, <1>4 DEF Sound, n

-----------------------------------------------------------------------------
\* Counting entries

LEMMA FiniteEntriesOf ==
  ASSUME NEW C, NEW r, Sound(r, C), NEW c
  PROVE  IsFiniteSet(Entries(r, c)) /\ Cardinality(Entries(r, c)) \in Nat
<1>1. IsFiniteSet(DOMAIN r.entries)
  BY FiniteEntries DEF Sound
<1>2. Entries(r, c) \in SUBSET DOMAIN r.entries
  BY DEF Entries
<1> QED
  BY <1>1, <1>2, FS_Subset, FS_CardinalityType

\* An entry counts once for each of its choices.
LEMMA AddCounts ==
  ASSUME NEW C, NEW r, Sound(r, C), NEW hashes, NEW s, NEW o, NEW c
  PROVE  Cardinality(Entries(Add(r, hashes, Entry(s, o)), c))
           = Cardinality(Entries(r, c)) + (IF c \in o THEN 1 ELSE 0)
<1> DEFINE n == Add(r, hashes, Entry(s, o))
<1>1. Added(r, n, hashes, Entry(s, o))
  BY AddTables DEF Sound
<1>2. IsFiniteSet(Entries(r, c)) /\ Cardinality(Entries(r, c)) \in Nat
  BY FiniteEntriesOf
<1>3. r.counter \notin Entries(r, c)
  BY <1>1 DEF Added, Entries
<1> HIDE DEF n
<1>4. CASE c \in o
  <2>1. Entries(n, c) = Entries(r, c) \cup {r.counter}
    BY <1>1, <1>4 DEF Added, Entries, Entry
  <2> QED BY <1>2, <1>3, <1>4, <2>1, FS_AddElement DEF n
<1>5. CASE c \notin o
  <2>1. Entries(n, c) = Entries(r, c)
    BY <1>1, <1>5 DEF Added, Entries, Entry
  <2> QED BY <1>2, <1>5, <2>1 DEF n
<1> QED
  BY <1>4, <1>5

LEMMA RemoveCounts ==
  ASSUME NEW C, NEW r, Sound(r, C), NEW id \in DOMAIN r.entries, NEW c
  PROVE  Cardinality(Entries(r, c))
           = Cardinality(Entries(Remove(r, id), c))
               + (IF c \in r.entries[id].options THEN 1 ELSE 0)
<1> DEFINE n == Remove(r, id)
<1>1. Removed(r, n, id)
  BY RemoveTables DEF Sound
<1>2. IsFiniteSet(Entries(n, c)) /\ Cardinality(Entries(n, c)) \in Nat
  BY RemoveKeepsSound, FiniteEntriesOf
<1>3. id \notin Entries(n, c)
  BY <1>1 DEF Removed, Entries
<1> HIDE DEF n
<1>4. CASE c \in r.entries[id].options
  <2>1. Entries(r, c) = Entries(n, c) \cup {id}
    BY <1>1, <1>4 DEF Removed, Entries
  <2> QED BY <1>2, <1>3, <1>4, <2>1, FS_AddElement DEF n
<1>5. CASE c \notin r.entries[id].options
  <2>1. Entries(r, c) = Entries(n, c)
    BY <1>1, <1>5 DEF Removed, Entries
  <2> QED BY <1>2, <1>5, <2>1 DEF n
<1> QED
  BY <1>4, <1>5

-----------------------------------------------------------------------------
\* The published counts of reactions

Shown(counts, e) == IF e \in DOMAIN counts THEN counts[e] ELSE 0

Positive(counts) ==
  DOMAIN counts \subseteq Emoji /\ counts \in [DOMAIN counts -> Nat \ {0}]

LEMMA IncCounts ==
  ASSUME NEW counts, Positive(counts), NEW h \in Emoji
  PROVE  /\ Positive(ReactionInc(counts, h))
         /\ \A e \in Emoji : Shown(ReactionInc(counts, h), e)
                               = Shown(counts, e) + (IF e = h THEN 1 ELSE 0)
<1> DEFINE n == ReactionInc(counts, h)
<1>1. /\ DOMAIN n = DOMAIN counts \cup {h}
      /\ \A e \in DOMAIN n : n[e] = IF e = h THEN IF h \in DOMAIN counts THEN counts[h] + 1 ELSE 1
                                    ELSE counts[e]
      /\ n = [e \in DOMAIN n |-> n[e]]
  BY DEF ReactionInc, Put
<1>2. \A e \in DOMAIN counts : counts[e] \in Nat \ {0}
  BY DEF Positive
<1> HIDE DEF n
<1>3. \A e \in DOMAIN n : n[e] \in Nat \ {0}
  BY <1>1, <1>2
<1>4. Positive(n)
  BY <1>1, <1>3 DEF Positive
<1>5. \A e \in Emoji : Shown(n, e) = Shown(counts, e) + (IF e = h THEN 1 ELSE 0)
  BY <1>1, <1>2 DEF Shown
<1> QED
  BY <1>4, <1>5 DEF n

LEMMA DecCounts ==
  ASSUME NEW counts, Positive(counts), NEW h \in DOMAIN counts
  PROVE  /\ Positive(ReactionDec(counts, h))
         /\ \A e \in Emoji : Shown(counts, e)
                               = Shown(ReactionDec(counts, h), e) + (IF e = h THEN 1 ELSE 0)
<1> DEFINE n == ReactionDec(counts, h)
<1>1. \A e \in DOMAIN counts : counts[e] \in Nat \ {0}
  BY DEF Positive
<1>2. DOMAIN counts \subseteq Emoji
  BY DEF Positive
<1>3. CASE counts[h] = 1
  <2>1. /\ DOMAIN n = DOMAIN counts \ {h}
        /\ \A e \in DOMAIN n : n[e] = counts[e]
        /\ n = [e \in DOMAIN n |-> n[e]]
    BY <1>3 DEF ReactionDec, Drop, Restrict
  <2> HIDE DEF n
  <2>2. Positive(n)
    BY <1>1, <1>2, <2>1 DEF Positive
  <2>3. \A e \in Emoji : Shown(counts, e) = Shown(n, e) + (IF e = h THEN 1 ELSE 0)
    BY <1>1, <1>3, <2>1 DEF Shown
  <2> QED BY <2>2, <2>3 DEF n
<1>4. CASE counts[h] # 1
  <2>1. /\ DOMAIN n = DOMAIN counts
        /\ \A e \in DOMAIN n : n[e] = IF e = h THEN counts[h] - 1 ELSE counts[e]
        /\ n = [e \in DOMAIN n |-> n[e]]
    BY <1>4 DEF ReactionDec, Put
  <2> HIDE DEF n
  <2>2. \A e \in DOMAIN n : n[e] \in Nat \ {0}
    BY <1>1, <1>4, <2>1
  <2>3. Positive(n)
    BY <1>2, <2>1, <2>2 DEF Positive
  <2>4. \A e \in Emoji : Shown(counts, e) = Shown(n, e) + (IF e = h THEN 1 ELSE 0)
    BY <1>1, <2>1 DEF Shown
  <2> QED BY <2>3, <2>4 DEF n
<1> QED
  BY <1>3, <1>4

-----------------------------------------------------------------------------
\* The safety of the two registries and of their counts

Tallied(counts, r) == \A e \in Emoji : Cardinality(Entries(r, e)) = Shown(counts, e)

LEMMA SafetyParts ==
  BallotsSafety <=>
    /\ allowed \subseteq Emoji
    /\ Positive(reactions) /\ Sound(reacted, Emoji) /\ Tallied(reactions, reacted)
    /\ votes \in [Options -> Nat] /\ Sound(voted, Options) /\ VoteTally
BY DEF BallotsSafety, TypeOK, RegistriesSound, ReactionTally, Positive, Sound, Tallied, Shown

LEMMA InitSafety ==
  ASSUME Init
  PROVE  BallotsSafety
<1>1. Sound(reacted, Emoji) /\ Sound(voted, Options)
  BY EmptyIsSound DEF Init
<1>2. Positive(reactions) /\ \A e \in Emoji : Shown(reactions, e) = 0
  BY DEF Init, NoEntries, Positive, Shown
<1>3. \A c : Entries(reacted, c) = {} /\ Entries(voted, c) = {}
  BY DEF Init, EmptyRegistry, NoEntries, Entries
<1>4. \A c : Cardinality(Entries(reacted, c)) = 0 /\ Cardinality(Entries(voted, c)) = 0
  BY <1>3, FS_EmptySet
<1>5. votes \in [Options -> Nat] /\ \A o \in Options : votes[o] = 0
  BY DEF Init
<1>6. VoteTally /\ Tallied(reactions, reacted)
  BY <1>2, <1>4, <1>5 DEF VoteTally, Tallied
<1>7. allowed \subseteq Emoji
  BY DEF Init
<1> QED
  BY <1>1, <1>2, <1>5, <1>6, <1>7, SafetyParts

LEMMA AddReactionSafety ==
  ASSUME BallotsSafety, NEW s \in Senders, NEW ip \in Ips, NEW old, NEW h \in Emoji,
         AddReaction(s, ip, old, h)
  PROVE  BallotsSafety'
<1>1. Positive(reactions) /\ Sound(reacted, Emoji) /\ Tallied(reactions, reacted)
  BY SafetyParts
<1>2. /\ CanAdd(reacted, Hashes(s, ip))
      /\ reactions' = ReactionInc(reactions, h)
      /\ reacted' = Add(reacted, Hashes(s, ip), Entry(s, {h}))
      /\ UNCHANGED <<allowed, votes, voted>>
  BY DEF AddReaction, Hashes, Entry
<1>3. Sound(reacted', Emoji)
  BY <1>1, <1>2, AddKeepsSound
<1>4. /\ Positive(reactions')
      /\ \A e \in Emoji : Shown(reactions', e) = Shown(reactions, e) + (IF e = h THEN 1 ELSE 0)
  BY <1>1, <1>2, IncCounts
<1>5. \A e \in Emoji : Cardinality(Entries(reacted', e))
                         = Cardinality(Entries(reacted, e)) + (IF e \in {h} THEN 1 ELSE 0)
  BY <1>1, <1>2, AddCounts
<1>6. Tallied(reactions', reacted')
  BY <1>1, <1>4, <1>5 DEF Tallied
<1> QED
  BY <1>2, <1>3, <1>4, <1>6 DEF BallotsSafety, TypeOK, RegistriesSound, ReactionTally, VoteTally,
     Positive, Sound, Tallied, Shown

\* The entry that a sender exchanges or withdraws, and its emoji, which is shown.
LEMMA OwnReactionShown ==
  ASSUME BallotsSafety, NEW s, NEW ip, NEW old, NEW id \in OwnReaction(s, ip, old)
  PROVE  /\ id \in DOMAIN reacted.entries
         /\ reacted.entries[id].sender = s /\ reacted.entries[id].options = {old}
         /\ old \in Emoji /\ old \in DOMAIN reactions
<1>1. Sound(reacted, Emoji) /\ Tallied(reactions, reacted)
  BY SafetyParts
<1>2. reacted.entries[id].sender = s /\ reacted.entries[id].options = {old}
  BY DEF OwnReaction
<1>3. id \in DOMAIN reacted.entries
  BY <1>1 DEF OwnReaction, Located, Find, Sound, IsRegistry
<1>4. old \in Emoji
  BY <1>1, <1>2, <1>3 DEF Sound, IsRegistry, UserEntry
<1>5. Cardinality(Entries(reacted, old)) # 0
  <2>1. id \in Entries(reacted, old)
    BY <1>2, <1>3 DEF Entries
  <2>2. IsFiniteSet(Entries(reacted, old))
    BY <1>1, FiniteEntriesOf
  <2> QED BY <2>1, <2>2, FS_EmptySet
<1>6. old \in DOMAIN reactions
  BY <1>1, <1>4, <1>5 DEF Tallied, Shown
<1> QED
  BY <1>2, <1>3, <1>4, <1>6

\* What taking an own reaction away leaves, in the registry and in the counts.
LEMMA TakeAway ==
  ASSUME BallotsSafety, NEW s, NEW ip, NEW old, NEW id \in OwnReaction(s, ip, old)
  PROVE  /\ Sound(Remove(reacted, id), Emoji)
         /\ Positive(ReactionDec(reactions, old))
         /\ Tallied(ReactionDec(reactions, old), Remove(reacted, id))
<1>1. Sound(reacted, Emoji) /\ Tallied(reactions, reacted) /\ Positive(reactions)
  BY SafetyParts
<1>2. /\ id \in DOMAIN reacted.entries /\ reacted.entries[id].options = {old}
      /\ old \in DOMAIN reactions
  BY OwnReactionShown
<1>3. Sound(Remove(reacted, id), Emoji)
  BY <1>1, <1>2, RemoveKeepsSound
<1>4. /\ Positive(ReactionDec(reactions, old))
      /\ \A e \in Emoji : Shown(reactions, e)
                            = Shown(ReactionDec(reactions, old), e) + (IF e = old THEN 1 ELSE 0)
  BY <1>1, <1>2, DecCounts
<1>5. ASSUME NEW e \in Emoji
      PROVE  Cardinality(Entries(reacted, e))
               = Cardinality(Entries(Remove(reacted, id), e)) + (IF e = old THEN 1 ELSE 0)
  BY <1>1, <1>2, RemoveCounts
<1>6. ASSUME NEW e \in Emoji
      PROVE  /\ Cardinality(Entries(Remove(reacted, id), e)) \in Nat
             /\ Shown(ReactionDec(reactions, old), e) \in Nat
  BY <1>3, <1>4, FiniteEntriesOf DEF Positive, Shown
<1>7. Tallied(ReactionDec(reactions, old), Remove(reacted, id))
  BY <1>1, <1>4, <1>5, <1>6 DEF Tallied
<1> QED
  BY <1>3, <1>4, <1>7

LEMMA ReplaceReactionSafety ==
  ASSUME BallotsSafety, NEW s \in Senders, NEW ip \in Ips, NEW old, NEW h \in Emoji,
         ReplaceReaction(s, ip, old, h)
  PROVE  BallotsSafety'
<1>1. PICK id \in OwnReaction(s, ip, old) :
        /\ CanAdd(Remove(reacted, id), Hashes(s, ip))
        /\ reactions' = ReactionInc(ReactionDec(reactions, old), h)
        /\ reacted' = Add(Remove(reacted, id), Hashes(s, ip), Entry(s, {h}))
        /\ UNCHANGED <<allowed, votes, voted>>
  BY DEF ReplaceReaction, Hashes, Entry
<1> DEFINE r == Remove(reacted, id)
           counts == ReactionDec(reactions, old)
<1>2. Positive(counts) /\ Sound(r, Emoji) /\ Tallied(counts, r)
  BY TakeAway
<1>3. /\ CanAdd(r, Hashes(s, ip))
      /\ reactions' = ReactionInc(counts, h)
      /\ reacted' = Add(r, Hashes(s, ip), Entry(s, {h}))
  BY <1>1
<1> HIDE DEF r, counts
<1>4. Sound(reacted', Emoji)
  BY <1>2, <1>3, AddKeepsSound
<1>5. /\ Positive(reactions')
      /\ \A e \in Emoji : Shown(reactions', e) = Shown(counts, e) + (IF e = h THEN 1 ELSE 0)
  BY <1>2, <1>3, IncCounts
<1>6. \A e \in Emoji : Cardinality(Entries(reacted', e))
                         = Cardinality(Entries(r, e)) + (IF e \in {h} THEN 1 ELSE 0)
  BY <1>2, <1>3, AddCounts
<1>7. Tallied(reactions', reacted')
  BY <1>2, <1>5, <1>6 DEF Tallied
<1> QED
  BY <1>1, <1>4, <1>5, <1>7 DEF BallotsSafety, TypeOK, RegistriesSound, ReactionTally, VoteTally,
     Positive, Sound, Tallied, Shown

LEMMA WithdrawReactionSafety ==
  ASSUME BallotsSafety, NEW s \in Senders, NEW ip \in Ips, NEW old, NEW h \in Emoji,
         WithdrawReaction(s, ip, old, h)
  PROVE  BallotsSafety'
<1>1. PICK id \in OwnReaction(s, ip, old) :
        /\ reactions' = ReactionDec(reactions, old)
        /\ reacted' = Remove(reacted, id)
        /\ UNCHANGED <<allowed, votes, voted>>
  BY DEF WithdrawReaction
<1>2. Sound(reacted', Emoji) /\ Positive(reactions') /\ Tallied(reactions', reacted')
  BY <1>1, TakeAway
<1> QED
  BY <1>1, <1>2 DEF BallotsSafety, TypeOK, RegistriesSound, ReactionTally, VoteTally,
     Positive, Sound, Tallied, Shown

LEMMA VoteSafety ==
  ASSUME BallotsSafety, NEW s \in Senders, NEW ip \in Ips, NEW options, Vote(s, ip, options)
  PROVE  BallotsSafety'
<1>1. votes \in [Options -> Nat] /\ Sound(voted, Options) /\ VoteTally
  BY SafetyParts
<1>2. /\ options \in SUBSET Options /\ CanAdd(voted, Hashes(s, ip))
      /\ votes' = [o \in Options |-> votes[o] + (IF o \in options THEN 1 ELSE 0)]
      /\ voted' = Add(voted, Hashes(s, ip), Entry(s, options))
      /\ UNCHANGED <<allowed, reactions, reacted>>
  BY DEF Vote, VoteCount, Hashes, Entry
<1>3. Sound(voted', Options)
  BY <1>1, <1>2, AddKeepsSound
<1>4. \A o \in Options : Cardinality(Entries(voted', o))
                           = Cardinality(Entries(voted, o)) + (IF o \in options THEN 1 ELSE 0)
  BY <1>1, <1>2, AddCounts
<1>5. votes' \in [Options -> Nat]
  BY <1>1, <1>2
<1>6. \A o \in Options : votes'[o] = Cardinality(Entries(voted', o))
  BY <1>1, <1>2, <1>4 DEF VoteTally
<1> QED
  BY <1>2, <1>3, <1>5, <1>6 DEF BallotsSafety, TypeOK, RegistriesSound, ReactionTally, VoteTally,
     Positive, Sound, Tallied, Shown

LEMMA NextSafety ==
  ASSUME BallotsSafety, [Next]_vars
  PROVE  BallotsSafety'
<1>1. CASE UNCHANGED vars
  BY <1>1 DEF vars, BallotsSafety, TypeOK, RegistriesSound, ReactionTally, VoteTally, Entries,
     IsRegistry, IndexIsInverse, FiledUnderSender
<1>2. ASSUME NEW emoji \in SUBSET Emoji, SetReactions(emoji)
      PROVE  BallotsSafety'
  BY <1>2 DEF SetReactions, BallotsSafety, TypeOK, RegistriesSound, ReactionTally, VoteTally, Entries,
     IsRegistry, IndexIsInverse, FiledUnderSender
<1>3. ASSUME NEW s \in Senders, NEW ip \in Ips, NEW old, NEW h \in Emoji,
             SetReaction(s, ip, old, h)
      PROVE  BallotsSafety'
  BY <1>3, AddReactionSafety, ReplaceReactionSafety, WithdrawReactionSafety DEF SetReaction
<1>4. ASSUME NEW s \in Senders, NEW ip \in Ips, NEW options, Vote(s, ip, options)
      PROVE  BallotsSafety'
  BY <1>4, VoteSafety
<1> QED
  BY <1>1, <1>2, <1>3, <1>4 DEF Next

\* However people react, exchange, withdraw and vote, from whatever addresses:
\* the registries of a post stay sound, and the published counts are exactly
\* the numbers of entries for each emoji and option (post_apply.move).
THEOREM BallotsAreSafe == Spec => []BallotsSafety
BY InitSafety, NextSafety, PTL DEF Spec

-----------------------------------------------------------------------------
\* A registry as a box of ballots

BallotIp(r, id) == CHOOSE ip \in Ips : ip \in r.identities[id]

BallotOf(r, id) ==
  [pk |-> Pk(r.entries[id].sender), ip |-> BallotIp(r, id), choices |-> r.entries[id].options]

LEMMA BoxOf ==
  ASSUME NEW r
  PROVE  BallotsOf(r) = {BallotOf(r, id) : id \in DOMAIN r.entries}
BY DEF BallotsOf, BallotOf, BallotIp

\* The key and the address of a ballot are the identities of its entry: which is
\* which is clear, because no key is an address.
LEMMA BallotIdentities ==
  ASSUME BallotAssumption, NEW C, NEW r, Sound(r, C), NEW id \in DOMAIN r.entries
  PROVE  /\ Pk(r.entries[id].sender) \in Pks
         /\ BallotIp(r, id) \in Ips
         /\ r.identities[id] = {BallotIp(r, id), Pk(r.entries[id].sender)}
         /\ r.entries[id].options \in SUBSET C
<1>1. r.entries[id] \in UserEntry(C)
  BY DEF Sound, IsRegistry
<1>2. Pk(r.entries[id].sender) \in Pks /\ r.entries[id].options \in SUBSET C
  BY <1>1 DEF UserEntry, Senders, Pk
<1>3. PICK ip \in Ips : r.identities[id] = {ip, Pk(r.entries[id].sender)}
  BY DEF Sound, FiledUnderSender
<1>4. BallotIp(r, id) \in Ips /\ BallotIp(r, id) \in r.identities[id]
  BY <1>3 DEF BallotIp
<1>5. BallotIp(r, id) # Pk(r.entries[id].sender)
  BY <1>2, <1>4 DEF BallotAssumption
<1> QED
  BY <1>2, <1>3, <1>4, <1>5

LEMMA BallotsTyped ==
  ASSUME BallotAssumption, NEW C, NEW r, Sound(r, C), NEW id \in DOMAIN r.entries
  PROVE  BallotOf(r, id) \in [pk : Pks, ip : Ips, choices : SUBSET C]
BY BallotIdentities DEF BallotOf

\* Two entries share neither their key nor their address.
LEMMA BallotsApart ==
  ASSUME BallotAssumption, NEW C, NEW r, Sound(r, C),
         NEW x \in DOMAIN r.entries, NEW y \in DOMAIN r.entries,
         \/ Pk(r.entries[x].sender) = Pk(r.entries[y].sender)
         \/ BallotIp(r, x) = BallotIp(r, y)
  PROVE  x = y
<1>1. /\ r.identities[x] = {BallotIp(r, x), Pk(r.entries[x].sender)}
      /\ r.identities[y] = {BallotIp(r, y), Pk(r.entries[y].sender)}
  BY BallotIdentities
<1>2. PICK h : h \in r.identities[x] /\ h \in r.identities[y]
  BY <1>1
<1>3. r.index[h] = x /\ r.index[h] = y
  BY <1>2 DEF Sound, IndexIsInverse
<1> QED
  BY <1>3

\* The count of a box is the count of the entries.
LEMMA BoxCounts ==
  ASSUME BallotAssumption, NEW C, NEW r, Sound(r, C), NEW c
  PROVE  Cardinality({b \in BallotsOf(r) : c \in b.choices}) = Cardinality(Entries(r, c))
<1> DEFINE S == Entries(r, c)
           T == {b \in BallotsOf(r) : c \in b.choices}
           f == [id \in S |-> BallotOf(r, id)]
<1>1. ASSUME NEW id \in S
      PROVE  f[id] \in T
  BY BoxOf DEF Entries, BallotOf
<1>2. ASSUME NEW b \in T
      PROVE  \E id \in S : f[id] = b
  BY BoxOf DEF Entries, BallotOf
<1>3. ASSUME NEW x \in S, NEW y \in S, f[x] = f[y]
      PROVE  x = y
  <2>1. x \in DOMAIN r.entries /\ y \in DOMAIN r.entries
    BY DEF Entries
  <2>2. Pk(r.entries[x].sender) = Pk(r.entries[y].sender)
    BY <1>3 DEF BallotOf
  <2> QED BY <2>1, <2>2, BallotsApart
<1>4. f \in [S -> T] /\ DOMAIN f = S
  BY <1>1
<1> HIDE DEF f, T, S
<1>5. f \in Bijection(S, T)
  BY <1>2, <1>3, <1>4 DEF Bijection, Injection, Surjection, IsInjective
<1>6. IsFiniteSet(S)
  BY FiniteEntriesOf DEF S
<1> QED
  BY <1>5, <1>6, FS_Bijection DEF ExistsBijection, S, T

NewBallot(s, ip, o) == [pk |-> Pk(s), ip |-> ip, choices |-> o]
BallotsFor(C) == [pk : Pks, ip : Ips, choices : SUBSET C]

\* What is added joins the box, and its key and address are new there.
LEMMA AddIsCast ==
  ASSUME BallotAssumption, NEW C, NEW r, Sound(r, C), NEW s \in Senders, NEW ip \in Ips,
         NEW o \in SUBSET C, CanAdd(r, Hashes(s, ip))
  PROVE  /\ BallotsOf(Add(r, Hashes(s, ip), Entry(s, o)))
               = BallotsOf(r) \cup {NewBallot(s, ip, o)}
         /\ \A other \in BallotsOf(r) : /\ other.pk # NewBallot(s, ip, o).pk
                                        /\ other.ip # NewBallot(s, ip, o).ip
         /\ NewBallot(s, ip, o) \in BallotsFor(C)
<1> DEFINE n == Add(r, Hashes(s, ip), Entry(s, o))
           b == [pk |-> Pk(s), ip |-> ip, choices |-> o]
<1>1. Added(r, n, Hashes(s, ip), Entry(s, o)) /\ Sound(n, C)
  BY AddTables, AddKeepsSound DEF Sound
<1>2. Pk(s) \in Pks
  BY DEF Senders, Pk
<1> HIDE DEF n
<1>3. BallotOf(n, r.counter) = b
  <2>1. r.counter \in DOMAIN n.entries /\ n.entries[r.counter] = Entry(s, o)
        /\ n.identities[r.counter] = {ip, Pk(s)}
    BY <1>1 DEF Added, Hashes
  <2>2. BallotIp(n, r.counter) \in Ips /\ BallotIp(n, r.counter) \in {ip, Pk(s)}
    BY <1>1, <2>1, BallotIdentities
  <2>3. BallotIp(n, r.counter) = ip
    BY <1>2, <2>2 DEF BallotAssumption
  <2> QED BY <2>1, <2>3 DEF BallotOf, Entry
<1>4. \A id \in DOMAIN r.entries : BallotOf(n, id) = BallotOf(r, id)
  BY <1>1 DEF Added, BallotOf, BallotIp
<1>5. BallotsOf(n) = BallotsOf(r) \cup {b}
  <2>1. BallotsOf(n) = {BallotOf(n, id) : id \in DOMAIN r.entries \cup {r.counter}}
    BY <1>1, BoxOf DEF Added
  <2> QED BY <1>3, <1>4, <2>1, BoxOf
<1>6. ASSUME NEW other \in BallotsOf(r)
      PROVE  other.pk # b.pk /\ other.ip # b.ip
  <2>1. PICK id \in DOMAIN r.entries : other = BallotOf(r, id)
    BY BoxOf
  <2>2. \A h \in r.identities[id] : h \in DOMAIN r.index
    BY DEF Sound, IndexIsInverse
  <2>3. other.pk \in DOMAIN r.index /\ other.ip \in DOMAIN r.index
    BY <2>1, <2>2, BallotIdentities DEF BallotOf
  <2> QED BY <2>3 DEF CanAdd, Hashes
<1>7. b \in [pk : Pks, ip : Ips, choices : SUBSET C]
  BY <1>2
<1> QED
  BY <1>5, <1>6, <1>7 DEF n, NewBallot, BallotsFor

\* What is removed leaves the box alone.
LEMMA RemoveIsWithdraw ==
  ASSUME BallotAssumption, NEW C, NEW r, Sound(r, C), NEW id \in DOMAIN r.entries
  PROVE  /\ BallotsOf(Remove(r, id)) = BallotsOf(r) \ {BallotOf(r, id)}
         /\ BallotOf(r, id) \in BallotsOf(r)
<1> DEFINE n == Remove(r, id)
<1>1. Removed(r, n, id)
  BY RemoveTables DEF Sound
<1> HIDE DEF n
<1>2. \A x \in DOMAIN r.entries \ {id} : BallotOf(n, x) = BallotOf(r, x)
  BY <1>1 DEF Removed, BallotOf, BallotIp
<1>3. BallotsOf(n) = {BallotOf(r, x) : x \in DOMAIN r.entries \ {id}}
  <2>1. BallotsOf(n) = {BallotOf(n, x) : x \in DOMAIN r.entries \ {id}}
    BY <1>1, BoxOf DEF Removed
  <2> QED BY <1>2, <2>1
<1>4. ASSUME NEW x \in DOMAIN r.entries, BallotOf(r, x) = BallotOf(r, id)
      PROVE  x = id
  <2>1. Pk(r.entries[x].sender) = Pk(r.entries[id].sender)
    BY <1>4 DEF BallotOf
  <2> QED BY <2>1, BallotsApart
<1> QED
  BY <1>3, <1>4, BoxOf DEF n

-----------------------------------------------------------------------------
\* The reactions implement the box

\* Each instance has its own copy of the operators of FiniteSets.
LEMMA SameCardinality ==
  ASSUME NEW S
  PROVE  ReactionBox!Cardinality(S) = Cardinality(S) /\ VoteBox!Cardinality(S) = Cardinality(S)
BY DEF Cardinality, ReactionBox!Cardinality, VoteBox!Cardinality

ShownReactions == [e \in Emoji |-> IF e \in DOMAIN reactions THEN reactions[e] ELSE 0]

ReactionsExact == ShownReactions = ReactionBox!Count(BallotsOf(reacted))

LEMMA ReactionsShown ==
  BallotsSafety => ReactionsExact
<1> SUFFICES ASSUME BallotsSafety
             PROVE  ReactionsExact
  OBVIOUS
<1>1. Sound(reacted, Emoji) /\ Tallied(reactions, reacted)
  BY SafetyParts
<1>2. ASSUME NEW e \in Emoji
      PROVE  (IF e \in DOMAIN reactions THEN reactions[e] ELSE 0)
               = Cardinality({b \in BallotsOf(reacted) : e \in b.choices})
  BY <1>1, BoxCounts, BallotAssumption DEF Tallied, Shown
<1> QED
  BY <1>2, SameCardinality DEF ReactionsExact, ShownReactions, ReactionBox!Count

LEMMA AddReactionCasts ==
  ASSUME BallotAssumption, BallotsSafety, NEW s \in Senders, NEW ip \in Ips, NEW old,
         NEW h \in Emoji, AddReaction(s, ip, old, h)
  PROVE  ReactionBox!Cast
<1> DEFINE b == NewBallot(s, ip, {h})
<1>1. /\ CanAdd(reacted, Hashes(s, ip))
      /\ reacted' = Add(reacted, Hashes(s, ip), Entry(s, {h}))
  BY DEF AddReaction, Hashes, Entry
<1>2. /\ BallotsOf(reacted') = BallotsOf(reacted) \cup {b}
      /\ \A other \in BallotsOf(reacted) : other.pk # b.pk /\ other.ip # b.ip
      /\ b \in BallotsFor(Emoji)
  BY <1>1, SafetyParts, AddIsCast
<1> QED
  BY <1>2 DEF ReactionBox!Cast, ReactionBox!Fresh, ReactionBox!BallotType, BallotsFor

LEMMA ReplaceReactionExchanges ==
  ASSUME BallotAssumption, BallotsSafety, NEW s \in Senders, NEW ip \in Ips, NEW old,
         NEW h \in Emoji, ReplaceReaction(s, ip, old, h)
  PROVE  ReactionBox!Exchange
<1>1. PICK id \in OwnReaction(s, ip, old) :
        /\ CanAdd(Remove(reacted, id), Hashes(s, ip))
        /\ reacted' = Add(Remove(reacted, id), Hashes(s, ip), Entry(s, {h}))
  BY DEF ReplaceReaction, Hashes, Entry
<1>2. old # h
  BY DEF ReplaceReaction
<1> DEFINE r == Remove(reacted, id)
           b == BallotOf(reacted, id)
           n == NewBallot(s, ip, {h})
<1>3. /\ id \in DOMAIN reacted.entries
      /\ reacted.entries[id].sender = s /\ reacted.entries[id].options = {old}
  BY OwnReactionShown
<1>4. BallotsOf(r) = BallotsOf(reacted) \ {b} /\ b \in BallotsOf(reacted)
  BY <1>3, SafetyParts, RemoveIsWithdraw
<1>5. n.pk = b.pk /\ n.choices # b.choices
  BY <1>2, <1>3 DEF BallotOf, NewBallot
<1>6. Sound(r, Emoji)
  BY TakeAway
<1>7. CanAdd(r, Hashes(s, ip)) /\ reacted' = Add(r, Hashes(s, ip), Entry(s, {h}))
  BY <1>1
<1> HIDE DEF r
<1>8. /\ BallotsOf(reacted') = BallotsOf(r) \cup {n}
      /\ \A other \in BallotsOf(r) : other.pk # n.pk /\ other.ip # n.ip
      /\ n \in BallotsFor(Emoji)
  BY <1>6, <1>7, AddIsCast
<1> QED
  BY <1>4, <1>5, <1>8 DEF ReactionBox!Exchange, ReactionBox!Fresh, ReactionBox!BallotType, BallotsFor

LEMMA WithdrawReactionWithdraws ==
  ASSUME BallotAssumption, BallotsSafety, NEW s \in Senders, NEW ip \in Ips, NEW old,
         NEW h \in Emoji, WithdrawReaction(s, ip, old, h)
  PROVE  ReactionBox!Withdraw
<1>1. PICK id \in OwnReaction(s, ip, old) : reacted' = Remove(reacted, id)
  BY DEF WithdrawReaction
<1>2. id \in DOMAIN reacted.entries
  BY OwnReactionShown
<1>3. /\ BallotsOf(reacted') = BallotsOf(reacted) \ {BallotOf(reacted, id)}
      /\ BallotOf(reacted, id) \in BallotsOf(reacted)
  BY <1>1, <1>2, SafetyParts, RemoveIsWithdraw
<1> QED
  BY <1>3 DEF ReactionBox!Withdraw

\* Each step of the post is one of the box of reactions, or none.
LEMMA ReactionStep ==
  ASSUME BallotAssumption, BallotsSafety, [Next]_vars, ReactionsExact'
  PROVE  [ReactionBox!Next]_(ReactionBox!vars)
<1>1. ASSUME UNCHANGED <<reactions, reacted>>
      PROVE  UNCHANGED ReactionBox!vars
  BY <1>1 DEF ReactionBox!vars, BallotsOf
<1>2. ASSUME ReactionBox!Cast \/ ReactionBox!Exchange \/ ReactionBox!Withdraw
      PROVE  ReactionBox!Next
  BY <1>2 DEF ReactionsExact, ReactionBox!Next, ShownReactions, ReactionBox!Count
<1>3. CASE UNCHANGED vars
  BY <1>1, <1>3 DEF vars
<1>4. ASSUME NEW emoji \in SUBSET Emoji, SetReactions(emoji)
      PROVE  UNCHANGED ReactionBox!vars
  BY <1>1, <1>4 DEF SetReactions
<1>5. ASSUME NEW s \in Senders, NEW ip \in Ips, NEW old, NEW h \in Emoji,
             SetReaction(s, ip, old, h)
      PROVE  ReactionBox!Next
  BY <1>2, <1>5, AddReactionCasts, ReplaceReactionExchanges, WithdrawReactionWithdraws DEF SetReaction
<1>6. ASSUME NEW s, NEW ip, NEW options, Vote(s, ip, options)
      PROVE  UNCHANGED ReactionBox!vars
  BY <1>1, <1>6 DEF Vote
<1> QED
  BY <1>3, <1>4, <1>5, <1>6 DEF Next

LEMMA ReactionInit ==
  ASSUME BallotAssumption, Init
  PROVE  ReactionBox!Init
<1>1. BallotsOf(reacted) = {}
  BY DEF Init, EmptyRegistry, NoEntries, BallotsOf
<1>2. ReactionsExact
  BY InitSafety, ReactionsShown
<1> QED
  BY <1>1, <1>2 DEF ReactionsExact, ReactionBox!Init, ShownReactions, ReactionBox!Count

\* The reactions of a post (set_reaction_v2) implement the abstract box: one
\* ballot per key and per address, exchanged or withdrawn by its owner only, and
\* a published count that is the count of the box in every state.
THEOREM ReactionsImplementBallot == Spec => ReactionsAreBallots
<1>1. Init => ReactionBox!Init
  BY BallotAssumption, ReactionInit
<1>2. BallotsSafety /\ [Next]_vars /\ ReactionsExact' => [ReactionBox!Next]_(ReactionBox!vars)
  BY BallotAssumption, ReactionStep
<1> QED
  BY <1>1, <1>2, BallotsAreSafe, ReactionsShown, PTL DEF Spec, ReactionsAreBallots, ReactionBox!Spec

-----------------------------------------------------------------------------
\* The poll implements the box

VotesExact == votes = VoteBox!Count(BallotsOf(voted))

LEMMA VotesShown ==
  BallotsSafety => VotesExact
<1> SUFFICES ASSUME BallotsSafety
             PROVE  VotesExact
  OBVIOUS
<1>1. Sound(voted, Options) /\ VoteTally /\ votes \in [Options -> Nat]
  BY SafetyParts
<1>2. ASSUME NEW o \in Options
      PROVE  votes[o] = Cardinality({b \in BallotsOf(voted) : o \in b.choices})
  BY <1>1, BoxCounts, BallotAssumption DEF VoteTally
<1> QED
  BY <1>1, <1>2, SameCardinality DEF VotesExact, VoteBox!Count

LEMMA VoteCasts ==
  ASSUME BallotAssumption, BallotsSafety, NEW s \in Senders, NEW ip \in Ips, NEW options,
         Vote(s, ip, options)
  PROVE  VoteBox!Cast
<1> DEFINE b == NewBallot(s, ip, options)
<1>1. /\ options \in SUBSET Options /\ CanAdd(voted, Hashes(s, ip))
      /\ voted' = Add(voted, Hashes(s, ip), Entry(s, options))
  BY DEF Vote, Hashes, Entry
<1>2. /\ BallotsOf(voted') = BallotsOf(voted) \cup {b}
      /\ \A other \in BallotsOf(voted) : other.pk # b.pk /\ other.ip # b.ip
      /\ b \in BallotsFor(Options)
  BY <1>1, SafetyParts, AddIsCast
<1> QED
  BY <1>2 DEF VoteBox!Cast, VoteBox!Fresh, VoteBox!BallotType, BallotsFor

LEMMA VoteStep ==
  ASSUME BallotAssumption, BallotsSafety, [Next]_vars, VotesExact'
  PROVE  [VoteBox!Next]_(VoteBox!vars)
<1>1. ASSUME UNCHANGED <<votes, voted>>
      PROVE  UNCHANGED VoteBox!vars
  BY <1>1 DEF VoteBox!vars, BallotsOf
<1>2. CASE UNCHANGED vars
  BY <1>1, <1>2 DEF vars
<1>3. ASSUME NEW emoji \in SUBSET Emoji, SetReactions(emoji)
      PROVE  UNCHANGED VoteBox!vars
  BY <1>1, <1>3 DEF SetReactions
<1>4. ASSUME NEW s, NEW ip, NEW old, NEW h, SetReaction(s, ip, old, h)
      PROVE  UNCHANGED VoteBox!vars
  BY <1>1, <1>4 DEF SetReaction, AddReaction, ReplaceReaction, WithdrawReaction
<1>5. ASSUME NEW s \in Senders, NEW ip \in Ips, NEW options, Vote(s, ip, options)
      PROVE  VoteBox!Next
  <2>1. VoteBox!Cast
    BY <1>5, VoteCasts
  <2> QED BY <2>1 DEF VotesExact, VoteBox!Next, VoteBox!Count
<1> QED
  BY <1>2, <1>3, <1>4, <1>5 DEF Next

\* The poll of a post (vote_v2) implements the abstract box with final ballots:
\* one ballot per key and per address, never exchanged or withdrawn.
THEOREM VotesImplementBallot == Spec => VotesAreBallots
<1>1. Init => VoteBox!Init
  <2> SUFFICES ASSUME Init PROVE VoteBox!Init
    OBVIOUS
  <2>1. BallotsOf(voted) = {}
    BY DEF Init, EmptyRegistry, NoEntries, BallotsOf
  <2>2. VotesExact
    BY BallotAssumption, InitSafety, VotesShown
  <2> QED BY <2>1, <2>2 DEF VotesExact, VoteBox!Init, VoteBox!Count
<1>2. BallotsSafety /\ [Next]_vars /\ VotesExact' => [VoteBox!Next]_(VoteBox!vars)
  BY BallotAssumption, VoteStep
<1> QED
  BY <1>1, <1>2, BallotsAreSafe, VotesShown, PTL DEF Spec, VotesAreBallots, VoteBox!Spec

-----------------------------------------------------------------------------
\* Bans

BanHashes(m) == {Net[m][a] : a \in Addresses}

\* A registry of bans on subnets of size m: each entry is filed under one hash.
Filed(r, m) ==
  /\ r = [counter |-> r.counter, entries |-> r.entries,
          identities |-> r.identities, index |-> r.index]
  /\ B!IsRegistry(r, BanHashes(m), B!Expiries)
  /\ B!IndexIsInverse(r)
  /\ \A id \in DOMAIN r.entries : \E h \in BanHashes(m) : r.identities[id] = {h}

PostRecord ==
  [thread : Threads, by : Addresses, banned : B!Keys \cup {NoKey},
   despite : SUBSET (B!Levels \X B!Sizes)]

\* The invariant.  What the relay still has to look at holds every ban that has
\* been in force since the request came: its index is still to be listed, or its
\* entry is among the found ones, where it is now.
Registries ==
  /\ DOMAIN bans = B!Levels
  /\ \A l \in B!Levels : DOMAIN bans[l] = B!Sizes /\ \A m \in B!Sizes : Filed(bans[l][m], m)

BansTyped ==
  /\ posts \in Seq(PostRecord)
  /\ ignores \in BOOLEAN
  /\ now \in Nat

Entered(f) == bans[f[1]][f[2]].index[Net[f[2]][request.by]]

ToBeSeen(f) ==
  \E i \in DOMAIN request.checks :
    /\ request.checks[i] = f
    /\ i \in request.unread \/ (i \in DOMAIN request.found /\ request.found[i] = Entered(f))

RequestOK ==
  /\ request = [by |-> request.by, thread |-> request.thread, at |-> request.at,
                checks |-> request.checks, unread |-> request.unread, found |-> request.found]
  /\ request.by \in Addresses /\ request.thread \in Threads
  /\ request.at \in Nat /\ request.at <= now

HeldIsSeen ==
  /\ held \subseteq B!InForceNow
  /\ request.unread # {0} => \A f \in held : ToBeSeen(f)

Checked == request # NoRequest => RequestOK /\ HeldIsSeen

BansInvariant == Registries /\ BansTyped /\ B!MarksStand /\ Checked /\ B!NobodyPostsBanned

-----------------------------------------------------------------------------
\* The registries of Bans are those of the ballots.
LEMMA SameRegistry ==
  /\ B!EmptyRegistry = EmptyRegistry
  /\ \A r, hashes, x : B!Add(r, hashes, x) = Add(r, hashes, x)
  /\ \A r, id : B!Remove(r, id) = Remove(r, id)
  /\ \A r, hashes : B!CanAdd(r, hashes) <=> CanAdd(r, hashes)
  /\ \A r, ids, entries : B!IsRegistry(r, ids, entries) <=> IsRegistry(r, ids, entries)
  /\ \A r : B!IndexIsInverse(r) <=> IndexIsInverse(r)
<1>1. /\ B!NoEntries = NoEntries
      /\ \A f, k, v : B!Put(f, k, v) = Put(f, k, v)
      /\ \A f, S : B!Drop(f, S) = Drop(f, S)
  BY DEF B!NoEntries, NoEntries, B!Put, Put, B!Drop, Drop, B!Restrict, Restrict
<1> QED
  BY <1>1 DEF B!EmptyRegistry, EmptyRegistry, B!Add, Add, B!Remove, Remove, B!CanAdd, CanAdd,
       B!IsRegistry, IsRegistry, B!IndexIsInverse, IndexIsInverse

\* bans.move on one registry.

\* What bans and lifting do to the index: h is filed or not, and everything else
\* leads where it led.
IndexOf(n, r, D) ==
  /\ DOMAIN n.index = D
  /\ \A g \in DOMAIN r.index \cap D : n.index[g] = r.index[g]

LEMMA NewBanFiled ==
  ASSUME NEW m, NEW r, Filed(r, m), NEW h \in BanHashes(m), NEW x \in B!Expiries, B!Find(r, h) = {}
  PROVE  Filed(B!Add(r, {h}, x), m) /\ IndexOf(B!Add(r, {h}, x), r, DOMAIN r.index \cup {h})
<1> DEFINE n == B!Add(r, {h}, x)
<1>1. B!IsRegistry(r, BanHashes(m), B!Expiries) /\ B!IndexIsInverse(r)
  BY DEF Filed
<1>2. h \notin DOMAIN r.index
  BY DEF B!Find
<1>3. B!CanAdd(r, {h})
  BY <1>2 DEF B!CanAdd
<1>4. B!IsRegistry(n, BanHashes(m), B!Expiries)
  BY <1>1, AddIsRegistry, SameRegistry
<1>5. B!IndexIsInverse(n)
  BY <1>1, <1>3, AddKeepsInverse, SameRegistry
<1>6. Added(r, n, {h}, x)
  BY <1>1, AddTables, SameRegistry
<1>7. n = [counter |-> n.counter, entries |-> n.entries,
           identities |-> n.identities, index |-> n.index]
  BY DEF B!Add
<1> HIDE DEF n
<1>8. ASSUME NEW id \in DOMAIN n.entries
      PROVE  \E g \in BanHashes(m) : n.identities[id] = {g}
  <2>1. CASE id = r.counter
    BY <2>1, <1>6 DEF Added
  <2>2. CASE id \in DOMAIN r.entries
    BY <2>2, <1>6 DEF Added, Filed
  <2> QED BY <1>8, <2>1, <2>2, <1>6 DEF Added
<1>9. IndexOf(n, r, DOMAIN r.index \cup {h})
  BY <1>2, <1>6 DEF Added, IndexOf
<1> QED
  BY <1>4, <1>5, <1>7, <1>8, <1>9 DEF Filed, n

LEMMA RenewedFiled ==
  ASSUME NEW m, NEW r, Filed(r, m), NEW h \in DOMAIN r.index, NEW x \in B!Expiries
  PROVE  LET n == [r EXCEPT !.entries = B!Put(@, r.index[h], x)]
         IN  Filed(n, m) /\ n.index = r.index
<1> DEFINE n == [r EXCEPT !.entries = B!Put(@, r.index[h], x)]
<1>1. B!IsRegistry(r, BanHashes(m), B!Expiries) /\ B!IndexIsInverse(r)
  BY DEF Filed
<1>2. r.index[h] \in DOMAIN r.entries
  BY <1>1 DEF B!IsRegistry
<1>3. n = [counter |-> r.counter, entries |-> B!Put(r.entries, r.index[h], x),
           identities |-> r.identities, index |-> r.index]
  BY DEF Filed
<1> HIDE DEF n
<1>4. n.entries \in [DOMAIN r.entries -> B!Expiries]
  BY <1>1, <1>2, <1>3 DEF B!IsRegistry, B!Put
<1>5. DOMAIN n.entries = DOMAIN r.entries
  BY <1>4
<1>6. n.counter = r.counter /\ n.identities = r.identities /\ n.index = r.index
  BY <1>3
<1>7. B!IsRegistry(n, BanHashes(m), B!Expiries)
  BY <1>1, <1>4, <1>5, <1>6 DEF B!IsRegistry
<1>8. B!IndexIsInverse(n)
  BY <1>1, <1>5, <1>6 DEF B!IndexIsInverse
<1>9. \A id \in DOMAIN n.entries : \E g \in BanHashes(m) : n.identities[id] = {g}
  BY <1>5, <1>6 DEF Filed
<1>10. n = [counter |-> n.counter, entries |-> n.entries,
            identities |-> n.identities, index |-> n.index]
  BY <1>3
<1> QED
  BY <1>6, <1>7, <1>8, <1>9, <1>10 DEF Filed, n

LEMMA BannedFiled ==
  ASSUME NEW m, NEW r, Filed(r, m), NEW h \in BanHashes(m), NEW x \in B!Expiries
  PROVE  /\ Filed(B!Banned(r, h, x), m)
         /\ IndexOf(B!Banned(r, h, x), r, DOMAIN r.index \cup {h})
<1>1. CASE B!Find(r, h) = {}
  BY <1>1, NewBanFiled DEF B!Banned
<1>2. CASE B!Find(r, h) # {}
  <2>1. h \in DOMAIN r.index
    BY <1>2 DEF B!Find
  <2>2. B!Banned(r, h, x) = [r EXCEPT !.entries = B!Put(@, r.index[h], x)]
    BY <1>2 DEF B!Banned
  <2>3. Filed(B!Banned(r, h, x), m) /\ B!Banned(r, h, x).index = r.index
    BY <2>1, <2>2, RenewedFiled
  <2> QED
    BY <2>1, <2>3 DEF IndexOf
<1> QED
  BY <1>1, <1>2

\* Each entry has one hash, so lifting one ban lifts no other.
LEMMA UnbannedFiled ==
  ASSUME NEW m, NEW r, Filed(r, m), NEW h
  PROVE  /\ Filed(B!Unbanned(r, h), m)
         /\ IndexOf(B!Unbanned(r, h), r, DOMAIN r.index \ {h})
<1>1. CASE B!Find(r, h) = {}
  <2>1. h \notin DOMAIN r.index
    BY <1>1 DEF B!Find
  <2> QED
    BY <1>1, <2>1 DEF B!Unbanned, IndexOf
<1>2. CASE B!Find(r, h) # {}
  <2> DEFINE id == r.index[h]
             n == B!Remove(r, id)
  <2>1. h \in DOMAIN r.index
    BY <1>2 DEF B!Find
  <2>2. B!IsRegistry(r, BanHashes(m), B!Expiries) /\ B!IndexIsInverse(r)
    BY DEF Filed
  <2>3. id \in DOMAIN r.entries /\ h \in r.identities[id]
    BY <2>1, <2>2 DEF B!IsRegistry, B!IndexIsInverse
  <2>4. r.identities[id] = {h}
    BY <2>3 DEF Filed
  <2>5. B!IsRegistry(n, BanHashes(m), B!Expiries) /\ B!IndexIsInverse(n)
    BY <2>2, <2>3, RemoveIsRegistry, RemoveKeepsInverse, SameRegistry
  <2>6. Removed(r, n, id)
    BY <2>2, <2>3, RemoveTables, SameRegistry
  <2>7. n = [counter |-> n.counter, entries |-> n.entries,
             identities |-> n.identities, index |-> n.index]
    BY DEF B!Remove
  <2>8. B!Unbanned(r, h) = n
    BY <1>2 DEF B!Unbanned
  <2> HIDE DEF n, id
  <2>9. \A x \in DOMAIN n.entries : \E g \in BanHashes(m) : n.identities[x] = {g}
    BY <2>6 DEF Removed, Filed
  <2>10. IndexOf(n, r, DOMAIN r.index \ {h})
    BY <2>4, <2>6 DEF Removed, IndexOf
  <2> QED
    BY <2>5, <2>7, <2>8, <2>9, <2>10 DEF Filed
<1> QED
  BY <1>1, <1>2

-----------------------------------------------------------------------------
\* The tables of registries.

LEMMA KeyParts ==
  ASSUME NEW key \in B!Keys
  PROVE  /\ key.level \in B!Levels /\ key.mask \in B!Sizes /\ key.hash \in BanHashes(key.mask)
         /\ key = [level |-> key.level, mask |-> key.mask, hash |-> key.hash]
BY DEF B!Keys, B!Key, BanHashes

LEMMA KeyOf ==
  ASSUME NEW l \in B!Levels, NEW m \in B!Sizes, NEW a \in Addresses
  PROVE  B!Key(l, m, a) \in B!Keys
BY DEF B!Keys

\* Every hash that is filed before and after leads to the same entry.
SameEntries ==
  \A l \in B!Levels, m \in B!Sizes :
    \A g \in DOMAIN bans[l][m].index \cap DOMAIN bans'[l][m].index :
      bans'[l][m].index[g] = bans[l][m].index[g]

\* The bans on the chain are those of before, with key or without it.
OnChain(key, D) ==
  /\ DOMAIN bans' = B!Levels
  /\ \A l \in B!Levels : DOMAIN bans'[l] = B!Sizes
  /\ \A l \in B!Levels, m \in B!Sizes : Filed(bans'[l][m], m)
  /\ \A l \in B!Levels, m \in B!Sizes :
       IF l = key.level /\ m = key.mask
       THEN IndexOf(bans'[l][m], bans[l][m], D)
       ELSE bans'[l][m] = bans[l][m]

LEMMA SetBanTables ==
  ASSUME Registries, NEW key \in B!Keys, NEW x \in B!Expiries, B!SetBan(key, x)
  PROVE  OnChain(key, DOMAIN bans[key.level][key.mask].index \cup {key.hash})
<1> DEFINE n == B!Banned(bans[key.level][key.mask], key.hash, x)
<1>1. key.level \in B!Levels /\ key.mask \in B!Sizes /\ key.hash \in BanHashes(key.mask)
  BY KeyParts
<1>2. Filed(bans[key.level][key.mask], key.mask)
  BY <1>1 DEF Registries
<1>3. /\ Filed(n, key.mask)
      /\ IndexOf(n, bans[key.level][key.mask],
                 DOMAIN bans[key.level][key.mask].index \cup {key.hash})
  BY <1>1, <1>2, BannedFiled
<1>4. bans' = [bans EXCEPT ![key.level][key.mask] = n]
  BY DEF B!SetBan
<1> HIDE DEF n
<1>5. /\ DOMAIN bans' = B!Levels
      /\ \A l \in B!Levels : DOMAIN bans'[l] = B!Sizes
      /\ \A l \in B!Levels, m \in B!Sizes :
           bans'[l][m] = IF l = key.level /\ m = key.mask THEN n ELSE bans[l][m]
  BY <1>1, <1>4 DEF Registries
<1> QED
  BY <1>3, <1>5 DEF OnChain, Registries

LEMMA LiftBanTables ==
  ASSUME Registries, NEW key \in B!Keys, NEW others, B!LiftBan(key, others)
  PROVE  OnChain(key, DOMAIN bans[key.level][key.mask].index \ {key.hash})
<1> DEFINE n == B!Unbanned(bans[key.level][key.mask], key.hash)
<1>1. key.level \in B!Levels /\ key.mask \in B!Sizes
  BY KeyParts
<1>2. Filed(bans[key.level][key.mask], key.mask)
  BY <1>1 DEF Registries
<1>3. /\ Filed(n, key.mask)
      /\ IndexOf(n, bans[key.level][key.mask],
                 DOMAIN bans[key.level][key.mask].index \ {key.hash})
  BY <1>2, UnbannedFiled
<1>4. bans' = [bans EXCEPT ![key.level][key.mask] = n]
  BY DEF B!LiftBan
<1> HIDE DEF n
<1>5. /\ DOMAIN bans' = B!Levels
      /\ \A l \in B!Levels : DOMAIN bans'[l] = B!Sizes
      /\ \A l \in B!Levels, m \in B!Sizes :
           bans'[l][m] = IF l = key.level /\ m = key.mask THEN n ELSE bans[l][m]
  BY <1>1, <1>4 DEF Registries
<1> QED
  BY <1>3, <1>5 DEF OnChain, Registries

LEMMA TablesStay ==
  ASSUME NEW key, NEW D, OnChain(key, D)
  PROVE  Registries' /\ SameEntries
<1>1. Registries'
  BY DEF OnChain, Registries
<1>2. SameEntries
  BY DEF OnChain, SameEntries, IndexOf
<1> QED
  BY <1>1, <1>2

LEMMA KeysOnChain ==
  ASSUME NEW key \in B!Keys, NEW D, OnChain(key, D), NEW k \in B!Keys
  PROVE  /\ k = key => (B!InRegistry(k)' <=> k.hash \in D)
         /\ k # key /\ D \cup {key.hash} = DOMAIN bans[key.level][key.mask].index \cup {key.hash}
              => (B!InRegistry(k)' <=> B!InRegistry(k))
<1>1. /\ key.level \in B!Levels /\ key.mask \in B!Sizes
      /\ key = [level |-> key.level, mask |-> key.mask, hash |-> key.hash]
  BY KeyParts
<1>2. /\ k.level \in B!Levels /\ k.mask \in B!Sizes
      /\ k = [level |-> k.level, mask |-> k.mask, hash |-> k.hash]
  BY KeyParts
<1>3. B!InRegistry(k) <=> k.hash \in DOMAIN bans[k.level][k.mask].index
  BY DEF B!InRegistry, B!Find
<1>4. B!InRegistry(k)' <=> k.hash \in DOMAIN bans'[k.level][k.mask].index
  BY DEF B!InRegistry, B!Find
<1>5. CASE k.level = key.level /\ k.mask = key.mask
  <2>1. DOMAIN bans'[k.level][k.mask].index = D
    BY <1>2, <1>5 DEF OnChain, IndexOf
  <2>2. k # key => k.hash # key.hash
    BY <1>1, <1>2, <1>5
  <2> QED BY <1>3, <1>4, <1>5, <2>1, <2>2
<1>6. CASE ~(k.level = key.level /\ k.mask = key.mask)
  BY <1>2, <1>3, <1>4, <1>6 DEF OnChain
<1> QED
  BY <1>5, <1>6

-----------------------------------------------------------------------------
\* Marks.

\* InRegistry, with the tables as a parameter.
FiledIn(tables, key) == B!Find(tables[key.level][key.mask], key.hash) # {}

LEMMA MarkedPosts ==
  ASSUME BansTyped, NEW p \in DOMAIN posts, NEW key \in B!Keys \cup {NoKey}, B!SetBanned(p, key)
  PROVE  /\ posts' \in Seq(PostRecord)
         /\ DOMAIN posts' = DOMAIN posts
         /\ \A q \in DOMAIN posts :
              /\ posts'[q].banned = IF q = p THEN key ELSE posts[q].banned
              /\ posts'[q].despite = posts[q].despite
<1>1. posts[p] \in PostRecord /\ \A q \in DOMAIN posts : posts[q] \in PostRecord
  BY DEF BansTyped
<1>2. posts' = [posts EXCEPT ![p] = [posts[p] EXCEPT !.banned = key]]
  BY DEF B!SetBanned
<1>3. [posts[p] EXCEPT !.banned = key] \in PostRecord
  BY <1>1 DEF PostRecord
<1>4. [posts[p] EXCEPT !.banned = key].banned = key
      /\ [posts[p] EXCEPT !.banned = key].despite = posts[p].despite
  BY <1>1 DEF PostRecord
<1>5. posts' \in Seq(PostRecord)
  BY <1>2, <1>3 DEF BansTyped
<1> QED
  BY <1>2, <1>4, <1>5

LEMMA BanKeepsMarks ==
  ASSUME Registries, BansTyped, B!MarksStand, B!NobodyPostsBanned,
         NEW key \in B!Keys, NEW x \in B!Expiries, B!SetBan(key, x),
         \/ posts' = posts
         \/ \E p \in DOMAIN posts : B!SetBanned(p, key)
  PROVE  Registries' /\ SameEntries /\ posts' \in Seq(PostRecord) /\ B!MarksStand'
         /\ B!NobodyPostsBanned'
<1> DEFINE D == DOMAIN bans[key.level][key.mask].index \cup {key.hash}
<1>1. OnChain(key, D)
  BY SetBanTables
<1>2. Registries' /\ SameEntries
  BY <1>1, TablesStay
<1>3. lifted' = lifted \ {key}
  BY DEF B!SetBan
<1>4. FiledIn(bans', key)
  BY <1>1, KeysOnChain DEF B!InRegistry, FiledIn
<1>5. \A k \in B!Keys : FiledIn(bans, k) => FiledIn(bans', k)
  BY <1>1, KeysOnChain DEF B!InRegistry, FiledIn
<1> HIDE DEF D
<1>6. CASE posts' = posts
  <2>1. ASSUME NEW q \in DOMAIN posts
        PROVE  posts[q].banned = NoKey \/ FiledIn(bans', posts[q].banned) \/ posts[q].banned \in lifted'
    <3>1. posts[q] \in PostRecord
      BY DEF BansTyped
    <3>2. posts[q].banned \in B!Keys \cup {NoKey}
      BY <3>1 DEF PostRecord
    <3> QED BY <3>2, <1>3, <1>4, <1>5 DEF B!MarksStand, B!InRegistry, FiledIn
  <2>2. B!MarksStand'
    BY <1>6, <2>1 DEF B!MarksStand, B!InRegistry, FiledIn
  <2> QED BY <1>2, <1>6, <2>2 DEF BansTyped, B!NobodyPostsBanned
<1>7. ASSUME NEW p \in DOMAIN posts, B!SetBanned(p, key)
      PROVE  posts' \in Seq(PostRecord) /\ B!MarksStand' /\ B!NobodyPostsBanned'
  <2>1. /\ posts' \in Seq(PostRecord)
        /\ DOMAIN posts' = DOMAIN posts
        /\ \A q \in DOMAIN posts :
             /\ posts'[q].banned = IF q = p THEN key ELSE posts[q].banned
             /\ posts'[q].despite = posts[q].despite
    BY <1>7, MarkedPosts
  <2>2. ASSUME NEW q \in DOMAIN posts
        PROVE  posts'[q].banned = NoKey \/ FiledIn(bans', posts'[q].banned) \/ posts'[q].banned \in lifted'
    <3>1. posts[q] \in PostRecord
      BY DEF BansTyped
    <3>2. posts[q].banned \in B!Keys \cup {NoKey}
      BY <3>1 DEF PostRecord
    <3>3. CASE q = p
      BY <3>3, <2>1, <1>4
    <3>4. CASE q # p
      BY <3>2, <3>4, <2>1, <1>3, <1>4, <1>5 DEF B!MarksStand, B!InRegistry, FiledIn
    <3> QED BY <3>3, <3>4
  <2> QED BY <2>1, <2>2 DEF B!MarksStand, B!InRegistry, FiledIn, B!NobodyPostsBanned
<1> QED
  BY <1>2, <1>6, <1>7

\* The marks that name the lifted ban are the reason it is among the lifted ones.
LEMMA LiftKeepsMarks ==
  ASSUME Registries, BansTyped, B!MarksStand, B!NobodyPostsBanned,
         NEW key \in B!Keys,
         \/ B!LiftBan(key, DOMAIN posts) /\ posts' = posts
         \/ \E p \in DOMAIN posts :
              posts[p].banned = key /\ B!LiftBan(key, DOMAIN posts \ {p}) /\ B!SetBanned(p, NoKey)
  PROVE  Registries' /\ SameEntries /\ posts' \in Seq(PostRecord) /\ B!MarksStand'
         /\ B!NobodyPostsBanned'
<1> DEFINE D == DOMAIN bans[key.level][key.mask].index \ {key.hash}
<1>1. OnChain(key, D)
  BY LiftBanTables
<1>2. Registries' /\ SameEntries
  BY <1>1, TablesStay
<1>3. \A k \in B!Keys : k # key /\ FiledIn(bans, k) => FiledIn(bans', k)
  BY <1>1, KeysOnChain DEF B!InRegistry, FiledIn
<1> HIDE DEF D
<1>4. lifted \subseteq lifted'
  BY DEF B!LiftBan
<1>5. CASE B!LiftBan(key, DOMAIN posts) /\ posts' = posts
  <2>1. ASSUME NEW q \in DOMAIN posts
        PROVE  posts[q].banned = NoKey \/ FiledIn(bans', posts[q].banned) \/ posts[q].banned \in lifted'
    <3>1. posts[q] \in PostRecord
      BY DEF BansTyped
    <3>2. posts[q].banned \in B!Keys \cup {NoKey}
      BY <3>1 DEF PostRecord
    <3>3. posts[q].banned = key => key \in lifted'
      BY <1>5 DEF B!LiftBan, B!MarkedWith
    <3> QED BY <3>2, <3>3, <1>3, <1>4 DEF B!MarksStand, B!InRegistry, FiledIn
  <2>2. B!MarksStand'
    BY <1>5, <2>1 DEF B!MarksStand, B!InRegistry, FiledIn
  <2> QED BY <1>2, <1>5, <2>2 DEF BansTyped, B!NobodyPostsBanned
<1>6. ASSUME NEW p \in DOMAIN posts, posts[p].banned = key, B!LiftBan(key, DOMAIN posts \ {p}),
             B!SetBanned(p, NoKey)
      PROVE  posts' \in Seq(PostRecord) /\ B!MarksStand' /\ B!NobodyPostsBanned'
  <2>1. /\ posts' \in Seq(PostRecord)
        /\ DOMAIN posts' = DOMAIN posts
        /\ \A q \in DOMAIN posts :
             /\ posts'[q].banned = IF q = p THEN NoKey ELSE posts[q].banned
             /\ posts'[q].despite = posts[q].despite
    BY <1>6, MarkedPosts
  <2>2. ASSUME NEW q \in DOMAIN posts
        PROVE  posts'[q].banned = NoKey \/ FiledIn(bans', posts'[q].banned) \/ posts'[q].banned \in lifted'
    <3>1. posts[q] \in PostRecord
      BY DEF BansTyped
    <3>2. posts[q].banned \in B!Keys \cup {NoKey}
      BY <3>1 DEF PostRecord
    <3>3. CASE q = p
      BY <3>3, <2>1
    <3>4. CASE q # p
      <4>1. posts[q].banned = key => key \in lifted'
        BY <1>6, <3>4 DEF B!LiftBan, B!MarkedWith
      <4> QED BY <3>2, <3>4, <4>1, <2>1, <1>3, <1>4 DEF B!MarksStand, B!InRegistry, FiledIn
    <3> QED BY <3>3, <3>4
  <2> QED BY <2>1, <2>2 DEF B!MarksStand, B!InRegistry, FiledIn, B!NobodyPostsBanned
<1> QED
  BY <1>2, <1>5, <1>6

-----------------------------------------------------------------------------
\* The relay's check.

\* What has been in force all the time is in the index, and led to where it does.
LEMMA HeldIsFiled ==
  ASSUME Registries, BansTyped, request # NoRequest, Checked, NEW f \in B!InForceNow
  PROVE  /\ f[1] \in B!Levels /\ f[2] \in B!Sizes /\ f = <<f[1], f[2]>>
         /\ f[1] \in {"board", request.thread} \cup (IF ignores THEN {} ELSE {"forum"})
         /\ Net[f[2]][request.by] \in DOMAIN bans[f[1]][f[2]].index
         /\ bans[f[1]][f[2]].entries[Entered(f)] > now
<1>1. request.thread \in Threads
  BY DEF Checked, RequestOK
<1> DEFINE L == {"board", request.thread} \cup (IF ignores THEN {} ELSE {"forum"})
<1>2. /\ f \in L \X B!Sizes
      /\ \E id \in B!Find(bans[f[1]][f[2]], Net[f[2]][request.by]) : bans[f[1]][f[2]].entries[id] > now
  BY DEF B!InForceNow, B!InForce
<1>3. L \subseteq B!Levels
  BY <1>1 DEF B!Levels
<1> HIDE DEF L
<1>4. f[1] \in L /\ f[2] \in B!Sizes /\ f = <<f[1], f[2]>>
  BY <1>2
<1>5. /\ Net[f[2]][request.by] \in DOMAIN bans[f[1]][f[2]].index
      /\ bans[f[1]][f[2]].entries[Entered(f)] > now
  BY <1>2 DEF B!Find, Entered
<1> QED
  BY <1>3, <1>4, <1>5 DEF L

\* The chain goes on and the relay does not: a ban that is in force before and
\* after leads to the same entry.
LEMMA ChainKeepsCheck ==
  ASSUME Registries, BansTyped, Checked, Registries', BansTyped', SameEntries, B!Watch,
         UNCHANGED request, now' >= now
  PROVE  Checked'
<1> SUFFICES ASSUME request # NoRequest
             PROVE  RequestOK' /\ HeldIsSeen'
  BY DEF Checked
<1>1. RequestOK /\ HeldIsSeen
  BY DEF Checked
<1>2. held' = held \cap B!InForceNow' \/ held' = {}
  BY DEF B!Watch
<1>3. RequestOK'
  BY <1>1 DEF RequestOK, BansTyped
<1>4. ASSUME request'.unread # {0}, NEW f \in held'
      PROVE  ToBeSeen(f)'
  <2>1. f \in B!InForceNow /\ f \in B!InForceNow' /\ ToBeSeen(f)
    BY <1>1, <1>2, <1>4 DEF HeldIsSeen
  <2>2. /\ f[1] \in B!Levels /\ f[2] \in B!Sizes
        /\ Net[f[2]][request.by] \in DOMAIN bans[f[1]][f[2]].index
    BY <2>1, HeldIsFiled
  <2>3. Net[f[2]][request.by] \in DOMAIN bans'[f[1]][f[2]].index
    <3>1. PICK l \in B!Levels, m \in B!Sizes :
            f = <<l, m>> /\ B!Find(bans'[l][m], Net[m][request.by]) # {}
      BY <2>1, <1>1 DEF B!InForceNow, B!InForce, B!Levels, RequestOK
    <3> QED BY <3>1 DEF B!Find
  <2>4. bans'[f[1]][f[2]].index[Net[f[2]][request.by]] = Entered(f)
    BY <2>2, <2>3 DEF SameEntries, Entered
  <2> QED BY <2>1, <2>4 DEF ToBeSeen, Entered
<1>5. held' \subseteq B!InForceNow'
  BY <1>2
<1> QED
  BY <1>3, <1>4, <1>5 DEF HeldIsSeen

LEMMA NewRequestChecked ==
  ASSUME BansTyped, NEW a \in Addresses, NEW t \in Threads, B!Ask(a, t), B!Watch
  PROVE  Checked'
<1> SUFFICES ASSUME request' # NoRequest
             PROVE  RequestOK' /\ HeldIsSeen'
  BY DEF Checked
<1>1. request' = [by |-> a, thread |-> t, at |-> now, checks |-> <<>>,
                  unread |-> {0}, found |-> B!NoEntries] /\ now' = now
  BY DEF B!Ask
<1>2. RequestOK'
  BY <1>1 DEF RequestOK, BansTyped
<1>3. held' = B!InForceNow'
  BY DEF B!Watch, B!Ask
<1>4. request'.unread = {0}
  BY <1>1
<1> QED
  BY <1>2, <1>3, <1>4 DEF HeldIsSeen

LEMMA ConsultedLevels ==
  ASSUME BansTyped, NEW t \in Threads,
         NEW l \in {"board", t} \cup (IF ignores THEN {} ELSE {"forum"})
  PROVE  /\ Len(B!Consulted(t)) \in {2, 3}
         /\ \E j \in 0 .. Len(B!Consulted(t)) - 1 : B!Consulted(t)[j + 1] = l
<1>1. CASE ignores
  <2>1. B!Consulted(t) = <<"board", t>>
    BY <1>1 DEF B!Consulted
  <2>2. l = "board" \/ l = t
    BY <1>1
  <2>3. B!Consulted(t)[0 + 1] = "board" /\ B!Consulted(t)[1 + 1] = t /\ Len(B!Consulted(t)) = 2
    BY <2>1
  <2> QED BY <2>2, <2>3
<1>2. CASE ~ignores
  <2>0. B!Consulted(t) = <<"forum">> \o <<"board", t>>
    BY <1>2 DEF B!Consulted
  <2>1. <<"forum">> \in Seq({"forum", "board", t}) /\ <<"board", t>> \in Seq({"forum", "board", t})
    OBVIOUS
  <2>2. l = "board" \/ l = t \/ l = "forum"
    BY <1>2
  <2>3. /\ B!Consulted(t)[0 + 1] = "forum" /\ B!Consulted(t)[1 + 1] = "board"
        /\ B!Consulted(t)[2 + 1] = t /\ Len(B!Consulted(t)) = 3
    BY <2>0, <2>1
  <2> QED BY <2>2, <2>3
<1> QED
  BY <1>1, <1>2

\* The checks are counted through from 1, by level and in it by size.
LEMMA CheckNumber ==
  ASSUME NEW n \in Nat, n >= 1, NEW k \in {2, 3}, NEW j \in 0 .. k - 1, NEW b \in 1 .. n
  PROVE  LET i == j * n + b
         IN  i \in 1 .. k * n /\ (i - 1) \div n = j /\ (i - 1) % n = b - 1
<1>1. b - 1 \in 0 .. n - 1
  OBVIOUS
<1>2. CASE j = 0
  BY <1>1, <1>2
<1>3. CASE j = 1
  BY <1>1, <1>3
<1>4. CASE j = 2
  BY <1>1, <1>4
<1> QED
  BY <1>2, <1>3, <1>4

LEMMA LoadedIsSeen ==
  ASSUME B!BansAssumption, Registries, BansTyped, Checked, B!LoadLevels, B!Watch
  PROVE  Checked'
<1>1. request # NoRequest /\ RequestOK /\ HeldIsSeen
  BY DEF B!LoadLevels, Checked
<1> SUFFICES ASSUME request' # NoRequest
             PROVE  RequestOK' /\ HeldIsSeen'
  BY DEF Checked
<1> DEFINE levels == B!Consulted(request.thread)
           checks == [i \in 1 .. Len(levels) * Len(Masks) |->
                        <<levels[((i - 1) \div Len(Masks)) + 1],
                          Masks[((i - 1) % Len(Masks)) + 1]>>]
<1>2. request' = [request EXCEPT !.checks = checks, !.unread = DOMAIN checks]
      /\ UNCHANGED <<bans, ignores, now>>
  BY DEF B!LoadLevels
<1> HIDE DEF checks
<1>3. /\ request' = [by |-> request.by, thread |-> request.thread, at |-> request.at,
                     checks |-> checks, unread |-> DOMAIN checks, found |-> request.found]
  BY <1>1, <1>2 DEF RequestOK
<1>4. /\ request'.by = request.by /\ request'.thread = request.thread
      /\ request'.at = request.at /\ request'.checks = checks
      /\ request'.unread = DOMAIN checks /\ request'.found = request.found
  BY <1>3
<1>5. RequestOK'
  BY <1>1, <1>2, <1>3, <1>4 DEF RequestOK
<1>6. held' = held \cap B!InForceNow'
  BY <1>1 DEF B!Watch
<1>7. ASSUME NEW f \in held'
      PROVE  \E i \in DOMAIN checks : checks[i] = f
  <2>1. f \in B!InForceNow
    BY <1>1, <1>6, <1>7 DEF HeldIsSeen
  <2>2. /\ f[2] \in B!Sizes /\ f = <<f[1], f[2]>>
        /\ f[1] \in {"board", request.thread} \cup (IF ignores THEN {} ELSE {"forum"})
    BY <1>1, <2>1, HeldIsFiled
  <2>3. request.thread \in Threads
    BY <1>1 DEF RequestOK
  <2>4. PICK j \in 0 .. Len(levels) - 1 : levels[j + 1] = f[1]
    BY <2>2, <2>3, ConsultedLevels
  <2>5. Len(levels) \in {2, 3}
    BY <2>2, <2>3, ConsultedLevels
  <2>6. Len(Masks) \in Nat /\ Len(Masks) >= 1 /\ DOMAIN Masks = 1 .. Len(Masks)
    BY DEF B!BansAssumption
  <2>7. PICK b \in 1 .. Len(Masks) : Masks[b] = f[2]
    BY <2>2, <2>6 DEF B!Sizes
  <2> DEFINE i == j * Len(Masks) + b
  <2> HIDE DEF levels
  <2>8. /\ i \in 1 .. Len(levels) * Len(Masks)
        /\ (i - 1) \div Len(Masks) = j /\ (i - 1) % Len(Masks) = b - 1
    BY <2>5, <2>6, CheckNumber
  <2> HIDE DEF i
  <2>9. i \in DOMAIN checks /\ checks[i] = <<levels[j + 1], Masks[(b - 1) + 1]>>
    BY <2>8 DEF checks
  <2>10. (b - 1) + 1 = b
    BY <2>6
  <2> QED BY <2>2, <2>4, <2>7, <2>9, <2>10
<1>8. \A f \in held' : ToBeSeen(f)'
  BY <1>4, <1>7 DEF ToBeSeen
<1>9. held' \subseteq B!InForceNow'
  BY <1>6
<1> QED
  BY <1>5, <1>8, <1>9 DEF HeldIsSeen

\* The step of the relay keeps the request but for what it has yet to see.
SameRequest ==
  /\ request'.by = request.by /\ request'.thread = request.thread
  /\ request'.at = request.at /\ request'.checks = request.checks
  /\ request' = [by |-> request'.by, thread |-> request'.thread, at |-> request'.at,
                 checks |-> request'.checks, unread |-> request'.unread, found |-> request'.found]
  /\ UNCHANGED <<bans, ignores, now>>

LEMMA RelayKeepsCheck ==
  ASSUME request # NoRequest, RequestOK, HeldIsSeen, SameRequest, B!Watch,
         \A f \in B!InForceNow : ToBeSeen(f) => ToBeSeen(f)', request.unread # {0}
  PROVE  Checked'
<1> SUFFICES ASSUME request' # NoRequest
             PROVE  RequestOK' /\ HeldIsSeen'
  BY DEF Checked
<1>1. held' = held \cap B!InForceNow'
  BY DEF B!Watch
<1>2. RequestOK'
  BY DEF SameRequest, RequestOK
<1>3. \A f \in held' : ToBeSeen(f)'
  BY <1>1 DEF HeldIsSeen
<1> QED
  BY <1>1, <1>2, <1>3 DEF HeldIsSeen

LEMMA ListedIsSeen ==
  ASSUME Registries, BansTyped, Checked, B!ReadIndex, B!Watch
  PROVE  Checked'
<1>1. request # NoRequest /\ RequestOK /\ HeldIsSeen /\ request.unread # {0}
  BY DEF B!ReadIndex, Checked
<1>2. PICK i \in request.unread :
        LET l == request.checks[i][1]
            m == request.checks[i][2]
            ids == B!Find(bans[l][m], Net[m][request.by])
        IN  request' = [request EXCEPT
              !.unread = @ \ {i},
              !.found = IF ids = {} THEN @ ELSE B!Put(@, i, bans[l][m].index[Net[m][request.by]])]
  BY DEF B!ReadIndex
<1> DEFINE g == request.checks[i]
           ids == B!Find(bans[g[1]][g[2]], Net[g[2]][request.by])
           found == IF ids = {} THEN request.found ELSE B!Put(request.found, i, Entered(g))
<1>3. request' = [request EXCEPT !.unread = request.unread \ {i}, !.found = found]
  BY <1>2 DEF Entered
<1> HIDE DEF found
<1>4. request' = [by |-> request.by, thread |-> request.thread, at |-> request.at,
                  checks |-> request.checks, unread |-> request.unread \ {i}, found |-> found]
  BY <1>1, <1>3 DEF RequestOK
<1>5. /\ request'.by = request.by /\ request'.thread = request.thread
      /\ request'.at = request.at /\ request'.checks = request.checks
      /\ request'.unread = request.unread \ {i} /\ request'.found = found
  BY <1>4
<1>6. UNCHANGED <<bans, ignores, now>>
  BY DEF B!ReadIndex
<1>7. SameRequest
  BY <1>4, <1>5, <1>6 DEF SameRequest
<1>8. ASSUME NEW f \in B!InForceNow, ToBeSeen(f)
      PROVE  ToBeSeen(f)'
  <2>1. PICK j \in DOMAIN request.checks :
          /\ request.checks[j] = f
          /\ \/ j \in request.unread
             \/ j \in DOMAIN request.found /\ request.found[j] = Entered(f)
    BY <1>8 DEF ToBeSeen
  <2>2. Net[f[2]][request.by] \in DOMAIN bans[f[1]][f[2]].index
    BY <1>1, HeldIsFiled
  <2>3. Entered(f)' = Entered(f)
    BY <1>5, <1>6 DEF Entered
  <2>4. j = i => j \in DOMAIN found /\ found[j] = Entered(f)
    <3>1. SUFFICES ASSUME j = i
                   PROVE  j \in DOMAIN found /\ found[j] = Entered(f)
      OBVIOUS
    <3>2. g = f
      BY <2>1, <3>1
    <3>3. ids # {}
      BY <2>2, <3>2 DEF B!Find
    <3>4. found = B!Put(request.found, i, Entered(f))
      BY <3>2, <3>3 DEF found
    <3> QED BY <3>1, <3>4 DEF B!Put
  <2>5. j # i /\ j \in DOMAIN request.found =>
          j \in DOMAIN found /\ found[j] = request.found[j]
    BY DEF found, B!Put
  <2>6. \/ j \in request'.unread
        \/ j \in DOMAIN request'.found /\ request'.found[j] = Entered(f)
    BY <2>1, <2>4, <2>5, <1>5
  <2> QED BY <2>1, <2>3, <2>6, <1>5 DEF ToBeSeen
<1> QED
  BY <1>1, <1>7, <1>8, RelayKeepsCheck

\* An entry that has not expired ends the request, so what is dropped from the
\* list is no ban that has been in force all the time.
LEMMA FetchedIsSeen ==
  ASSUME B!BansAssumption, Registries, BansTyped, Checked, B!FetchEntry, B!Watch
  PROVE  Checked'
<1>1. request # NoRequest /\ RequestOK /\ HeldIsSeen /\ request.unread = {}
      /\ UNCHANGED <<bans, ignores, now>>
  BY DEF B!FetchEntry, Checked
<1> DEFINE k == B!Fetched
           g == request.checks[k]
           r == bans[g[1]][g[2]]
           id == request.found[k]
<1>2. request' = IF id \in DOMAIN r.entries /\ r.entries[id] > request.at
                 THEN NoRequest
                 ELSE [request EXCEPT !.found = B!Drop(@, {k})]
  BY DEF B!FetchEntry
<1> HIDE DEF k
<1>3. CASE request' = NoRequest
  BY <1>3 DEF Checked
<1>4. CASE request' # NoRequest
  <2>1. ~(id \in DOMAIN r.entries /\ r.entries[id] > request.at)
    BY <1>2, <1>4
  <2>2. request' = [by |-> request.by, thread |-> request.thread, at |-> request.at,
                    checks |-> request.checks, unread |-> request.unread,
                    found |-> B!Drop(request.found, {k})]
    BY <1>1, <1>2, <1>4 DEF RequestOK
  <2>3. /\ request'.by = request.by /\ request'.thread = request.thread
        /\ request'.at = request.at /\ request'.checks = request.checks
        /\ request'.unread = request.unread /\ request'.found = B!Drop(request.found, {k})
    BY <2>2
  <2>4. SameRequest
    BY <2>2, <2>3, <1>1 DEF SameRequest
  <2>5. ASSUME NEW f \in B!InForceNow, ToBeSeen(f)
        PROVE  ToBeSeen(f)'
    <3>1. PICK j \in DOMAIN request.checks :
            request.checks[j] = f /\ j \in DOMAIN request.found /\ request.found[j] = Entered(f)
      BY <2>5, <1>1 DEF ToBeSeen
    <3>2. /\ f[1] \in B!Levels /\ f[2] \in B!Sizes
          /\ Net[f[2]][request.by] \in DOMAIN bans[f[1]][f[2]].index
          /\ bans[f[1]][f[2]].entries[Entered(f)] > now
      BY <1>1, HeldIsFiled
    <3>3. j # k
      <4>1. SUFFICES ASSUME j = k PROVE FALSE
        OBVIOUS
      <4>2. r = bans[f[1]][f[2]] /\ id = Entered(f)
        BY <3>1, <4>1
      <4>3. B!IsRegistry(r, BanHashes(f[2]), B!Expiries)
        BY <3>2, <4>2 DEF Registries, Filed
      <4>4. id \in DOMAIN r.entries
        BY <3>2, <4>2, <4>3 DEF B!IsRegistry, Entered
      <4>5. r.entries[id] \in B!Expiries
        BY <4>3, <4>4 DEF B!IsRegistry
      <4>6. r.entries[id] \in Int
        <5>1. MaxTime \in Nat
          BY DEF B!BansAssumption
        <5>2. B!Expiries \subseteq Int
          BY <5>1 DEF B!Expiries
        <5> QED BY <4>5, <5>2
      <4>7. r.entries[id] > now
        BY <3>2, <4>2
      <4> QED BY <4>4, <4>6, <4>7, <2>1, <1>1 DEF RequestOK, BansTyped
    <3>4. j \in DOMAIN request'.found /\ request'.found[j] = Entered(f)
      BY <3>1, <3>3, <2>3 DEF B!Drop, B!Restrict
    <3>5. Entered(f)' = Entered(f)
      BY <2>3, <1>1 DEF Entered
    <3> QED BY <3>1, <3>4, <3>5, <2>3 DEF ToBeSeen
  <2> QED
    BY <1>1, <2>4, <2>5, RelayKeepsCheck
<1> QED
  BY <1>3, <1>4

\* When nothing is left to be looked at, nothing has been in force all the time.
LEMMA PostedUnbanned ==
  ASSUME Registries, BansTyped, B!MarksStand, B!NobodyPostsBanned, Checked, B!Post, B!Watch
  PROVE  BansTyped' /\ B!MarksStand' /\ B!NobodyPostsBanned' /\ Checked'
<1>1. /\ request # NoRequest /\ RequestOK /\ HeldIsSeen
      /\ request.unread = {} /\ DOMAIN request.found = {}
      /\ request' = NoRequest /\ UNCHANGED <<bans, ignores, now, lifted>>
  BY DEF B!Post, Checked, B!Watch
<1>2. held = {}
  BY <1>1 DEF HeldIsSeen, ToBeSeen
<1> DEFINE n == [thread |-> request.thread, by |-> request.by, banned |-> NoKey, despite |-> {}]
<1>3. posts' = Append(posts, n)
  BY <1>2 DEF B!Post
<1>4. n \in PostRecord
  BY <1>1 DEF PostRecord, RequestOK
<1>5. n.banned = NoKey /\ n.despite = {}
  OBVIOUS
<1> HIDE DEF n
<1>6. posts' \in Seq(PostRecord)
  BY <1>3, <1>4 DEF BansTyped
<1>7. \A q \in DOMAIN posts' : posts'[q] = n \/ (q \in DOMAIN posts /\ posts'[q] = posts[q])
  BY <1>3, <1>4 DEF BansTyped
<1> QED
  BY <1>1, <1>5, <1>6, <1>7 DEF BansTyped, B!MarksStand, B!NobodyPostsBanned, Checked, B!InRegistry

-----------------------------------------------------------------------------
\* The invariant.

LEMMA InitBans == B!Init => BansInvariant
<1> SUFFICES ASSUME B!Init PROVE BansInvariant
  OBVIOUS
<1>1. Registries
  <2>1. \A l \in B!Levels, m \in B!Sizes : bans[l][m] = B!EmptyRegistry
    BY DEF B!Init
  <2>2. DOMAIN bans = B!Levels /\ \A l \in B!Levels : DOMAIN bans[l] = B!Sizes
    BY DEF B!Init
  <2>3. ASSUME NEW m \in B!Sizes
        PROVE  Filed(B!EmptyRegistry, m)
    <3>1. B!IsRegistry(B!EmptyRegistry, BanHashes(m), B!Expiries) /\ B!IndexIsInverse(B!EmptyRegistry)
      BY EmptySound, SameRegistry
    <3>2. DOMAIN B!EmptyRegistry.entries = {}
      BY DEF B!EmptyRegistry, B!NoEntries
    <3>3. B!EmptyRegistry = [counter |-> B!EmptyRegistry.counter, entries |-> B!EmptyRegistry.entries,
                           identities |-> B!EmptyRegistry.identities, index |-> B!EmptyRegistry.index]
      BY DEF B!EmptyRegistry
    <3> QED BY <3>1, <3>2, <3>3 DEF Filed
  <2> QED BY <2>1, <2>2, <2>3 DEF Registries
<1>2. BansTyped /\ B!MarksStand /\ B!NobodyPostsBanned
  <2>1. PICK a \in Addresses, b \in Addresses, t \in Threads, u \in Threads :
          posts = <<[thread |-> t, by |-> a, banned |-> NoKey, despite |-> {}],
                    [thread |-> u, by |-> b, banned |-> NoKey, despite |-> {}]>>
    BY DEF B!Init
  <2>2. posts \in Seq(PostRecord)
    BY <2>1 DEF PostRecord
  <2>3. \A q \in DOMAIN posts : posts[q].banned = NoKey /\ posts[q].despite = {}
    BY <2>1
  <2> QED BY <2>2, <2>3 DEF B!Init, BansTyped, B!MarksStand, B!NobodyPostsBanned
<1>3. Checked
  BY DEF B!Init, Checked
<1> QED
  BY <1>1, <1>2, <1>3 DEF BansInvariant

\* What moderators do and the relay does not see.
LEMMA ModerateStep ==
  ASSUME BansInvariant, B!Moderate, B!Watch
  PROVE  BansInvariant'
<1>1. Registries /\ BansTyped /\ B!MarksStand /\ Checked /\ B!NobodyPostsBanned
  BY DEF BansInvariant
<1>2. UNCHANGED <<now, request>>
  BY DEF B!Moderate, B!Ban, B!Unban, B!BanPost, B!UnbanPost, B!SetIgnoreForumBans
<1> SUFFICES /\ Registries' /\ SameEntries /\ posts' \in Seq(PostRecord)
             /\ B!MarksStand' /\ B!NobodyPostsBanned' /\ ignores' \in BOOLEAN
  <2>1. ASSUME Registries', SameEntries, posts' \in Seq(PostRecord), ignores' \in BOOLEAN
        PROVE  BansTyped' /\ Checked'
    <3>1. BansTyped'
      BY <1>1, <1>2, <2>1 DEF BansTyped
    <3>2. now' >= now
      BY <1>1, <1>2 DEF BansTyped
    <3> QED BY <1>1, <1>2, <2>1, <3>1, <3>2, ChainKeepsCheck
  <2> QED BY <2>1 DEF BansInvariant
<1>3. ASSUME NEW key \in B!Keys, B!Unban(key)
      PROVE  /\ Registries' /\ SameEntries /\ posts' \in Seq(PostRecord)
             /\ B!MarksStand' /\ B!NobodyPostsBanned' /\ ignores' \in BOOLEAN
  <2>1. B!LiftBan(key, DOMAIN posts) /\ posts' = posts /\ ignores' = ignores
    BY <1>3 DEF B!Unban
  <2>2. /\ Registries' /\ SameEntries /\ posts' \in Seq(PostRecord)
        /\ B!MarksStand' /\ B!NobodyPostsBanned'
    BY <1>1, <2>1, LiftKeepsMarks
  <2> QED BY <1>1, <2>1, <2>2 DEF BansTyped
<1>4. ASSUME NEW key \in B!Keys, NEW x \in B!Expiries, B!Ban(key, x)
      PROVE  /\ Registries' /\ SameEntries /\ posts' \in Seq(PostRecord)
             /\ B!MarksStand' /\ B!NobodyPostsBanned' /\ ignores' \in BOOLEAN
  <2>1. B!SetBan(key, x) /\ posts' = posts /\ ignores' = ignores
    BY <1>4 DEF B!Ban
  <2>2. /\ Registries' /\ SameEntries /\ posts' \in Seq(PostRecord)
        /\ B!MarksStand' /\ B!NobodyPostsBanned'
    BY <1>1, <2>1, BanKeepsMarks
  <2> QED BY <1>1, <2>1, <2>2 DEF BansTyped
<1>5. ASSUME NEW p \in DOMAIN posts, B!UnbanPost(p)
      PROVE  /\ Registries' /\ SameEntries /\ posts' \in Seq(PostRecord)
             /\ B!MarksStand' /\ B!NobodyPostsBanned' /\ ignores' \in BOOLEAN
  <2>1. /\ posts[p].banned # NoKey /\ B!LiftBan(posts[p].banned, DOMAIN posts \ {p})
        /\ B!SetBanned(p, NoKey) /\ ignores' = ignores
    BY <1>5 DEF B!UnbanPost
  <2>2. posts[p] \in PostRecord
    BY <1>1 DEF BansTyped
  <2>3. posts[p].banned \in B!Keys
    BY <2>1, <2>2 DEF PostRecord
  <2>4. /\ Registries' /\ SameEntries /\ posts' \in Seq(PostRecord)
        /\ B!MarksStand' /\ B!NobodyPostsBanned'
    BY <1>1, <2>1, <2>3, LiftKeepsMarks
  <2> QED BY <1>1, <2>1, <2>4 DEF BansTyped
<1>6. ASSUME NEW p \in DOMAIN posts, NEW l \in B!Levels, NEW m \in B!Sizes, NEW x \in B!Expiries,
             B!BanPost(p, l, m, x)
      PROVE  /\ Registries' /\ SameEntries /\ posts' \in Seq(PostRecord)
             /\ B!MarksStand' /\ B!NobodyPostsBanned' /\ ignores' \in BOOLEAN
  <2> DEFINE key == B!Key(l, m, posts[p].by)
  <2>1. B!SetBan(key, x) /\ B!SetBanned(p, key) /\ ignores' = ignores
    BY <1>6 DEF B!BanPost
  <2>2. posts[p] \in PostRecord
    BY <1>1 DEF BansTyped
  <2>3. key \in B!Keys
    BY <2>2, KeyOf DEF PostRecord
  <2> HIDE DEF key
  <2>4. /\ Registries' /\ SameEntries /\ posts' \in Seq(PostRecord)
        /\ B!MarksStand' /\ B!NobodyPostsBanned'
    BY <1>1, <2>1, <2>3, BanKeepsMarks
  <2> QED BY <1>1, <2>1, <2>4 DEF BansTyped
<1>7. ASSUME B!SetIgnoreForumBans
      PROVE  /\ Registries' /\ SameEntries /\ posts' \in Seq(PostRecord)
             /\ B!MarksStand' /\ B!NobodyPostsBanned' /\ ignores' \in BOOLEAN
  <2>1. UNCHANGED <<bans, posts, lifted>> /\ ignores' \in BOOLEAN
    BY <1>7 DEF B!SetIgnoreForumBans
  <2> QED
    BY <1>1, <2>1 DEF BansTyped, Registries, SameEntries, B!MarksStand, B!InRegistry, B!NobodyPostsBanned
<1> QED
  BY <1>3, <1>4, <1>5, <1>6, <1>7 DEF B!Moderate

\* What the relay reads, and time, change nothing on the chain.
LEMMA ReadStep ==
  ASSUME BansInvariant, UNCHANGED <<bans, ignores, posts, lifted>>, now' \in Nat, Checked'
  PROVE  BansInvariant'
BY DEF BansInvariant, Registries, BansTyped, B!MarksStand, B!InRegistry, B!NobodyPostsBanned

LEMMA BansNext ==
  ASSUME B!BansAssumption, BansInvariant, [B!Next]_(B!vars)
  PROVE  BansInvariant'
<1>1. Registries /\ BansTyped /\ B!MarksStand /\ Checked /\ B!NobodyPostsBanned
  BY DEF BansInvariant
<1>2. CASE UNCHANGED B!vars
  BY <1>2 DEF B!vars, BansInvariant, Registries, BansTyped, B!MarksStand, B!InRegistry, B!NobodyPostsBanned,
              Checked, RequestOK, HeldIsSeen, B!InForceNow, B!InForce, ToBeSeen, Entered
<1>3. ASSUME B!Moderate, B!Watch
      PROVE  BansInvariant'
  BY <1>3, ModerateStep
<1>4. ASSUME NEW a \in Addresses, NEW t \in Threads, B!Ask(a, t), B!Watch
      PROVE  BansInvariant'
  <2>1. UNCHANGED <<bans, ignores, posts, now, lifted>> /\ Checked'
    BY <1>1, <1>4, NewRequestChecked DEF B!Ask
  <2> QED BY <1>1, <2>1, ReadStep DEF BansTyped
<1>5. ASSUME B!LoadLevels, B!Watch
      PROVE  BansInvariant'
  <2>1. UNCHANGED <<bans, ignores, posts, now, lifted>> /\ Checked'
    BY <1>1, <1>5, LoadedIsSeen DEF B!LoadLevels
  <2> QED BY <1>1, <2>1, ReadStep DEF BansTyped
<1>6. ASSUME B!ReadIndex, B!Watch
      PROVE  BansInvariant'
  <2>1. UNCHANGED <<bans, ignores, posts, now, lifted>> /\ Checked'
    BY <1>1, <1>6, ListedIsSeen DEF B!ReadIndex
  <2> QED BY <1>1, <2>1, ReadStep DEF BansTyped
<1>7. ASSUME B!FetchEntry, B!Watch
      PROVE  BansInvariant'
  <2>1. UNCHANGED <<bans, ignores, posts, now, lifted>> /\ Checked'
    BY <1>1, <1>7, FetchedIsSeen DEF B!FetchEntry
  <2> QED BY <1>1, <2>1, ReadStep DEF BansTyped
<1>8. ASSUME B!Post, B!Watch
      PROVE  BansInvariant'
  <2>1. bans' = bans
    BY <1>8 DEF B!Post
  <2>2. Registries'
    BY <1>1, <2>1 DEF Registries
  <2> QED BY <1>1, <1>8, <2>2, PostedUnbanned DEF BansInvariant
<1>9. ASSUME B!Tick, B!Watch
      PROVE  BansInvariant'
  <2>1. UNCHANGED <<bans, ignores, posts, request, lifted>> /\ now' = now + 1
    BY <1>9 DEF B!Tick
  <2>2. now' \in Nat /\ now' >= now
    BY <1>1, <2>1 DEF BansTyped
  <2>3. Registries' /\ BansTyped' /\ SameEntries
    BY <1>1, <2>1, <2>2 DEF Registries, BansTyped, SameEntries
  <2>4. Checked'
    BY <1>1, <1>9, <2>1, <2>2, <2>3, ChainKeepsCheck
  <2> QED BY <2>1, <2>2, <2>4, ReadStep
<1> QED
  BY <1>2, <1>3, <1>4, <1>5, <1>6, <1>7, <1>8, <1>9 DEF B!Next, B!Relay

LEMMA InvariantIsSafe == BansInvariant => B!BansSafety
<1> SUFFICES ASSUME BansInvariant PROVE B!BansSafety
  OBVIOUS
<1>1. ASSUME NEW l \in B!Levels, NEW m \in B!Sizes
      PROVE  /\ B!IsRegistry(bans[l][m], {Net[m][a] : a \in Addresses}, B!Expiries)
             /\ B!IndexIsInverse(bans[l][m])
             /\ \A id \in DOMAIN bans[l][m].entries : bans[l][m].identities[id] # {}
  <2>1. Filed(bans[l][m], m)
    BY DEF BansInvariant, Registries
  <2> QED BY <2>1 DEF Filed, BanHashes
<1> QED
  BY <1>1 DEF B!BansSafety, B!BansIndexed, BansInvariant

\* The registries of bans are sound, however bans are made, renewed and lifted;
\* a mark on a post names a ban on the chain or one that was lifted elsewhere;
\* and the relay's check, read piece by piece, lets nobody post through a ban
\* that was in force from the request to the post.
THEOREM BansAreSafe == MCSpec => []BansSafety
<1>1. MCInit => (part = "bans" => BansInvariant)
  BY Assumptions, InitBans DEF MCInit
<1>2. (part = "bans" => BansInvariant) /\ [MCNext]_<<vars, part, banvars>>
        => (part = "bans" => BansInvariant)'
  <2> SUFFICES ASSUME part = "bans" => BansInvariant, [MCNext]_<<vars, part, banvars>>,
                      part' = "bans"
               PROVE  BansInvariant'
    OBVIOUS
  <2>1. CASE part = "ballots" /\ UNCHANGED part
    BY <2>1
  <2>2. CASE part = "bans" /\ B!Next
    BY <2>2, Assumptions, BansNext
  <2>3. CASE UNCHANGED <<vars, part, banvars>>
    BY <2>3, Assumptions, BansNext DEF banvars, B!vars
  <2> QED BY <2>1, <2>2, <2>3 DEF MCNext
<1>3. (part = "bans" => BansInvariant) => BansSafety
  BY InvariantIsSafe DEF BansSafety
<1> QED
  BY <1>1, <1>2, <1>3, PTL DEF MCSpec
=============================================================================
