--------------------------- MODULE RegistryProofs ---------------------------
(***************************************************************************)
(* What add and remove of forum::registry keep, for tables of any size:    *)
(* the lemmas that the proofs about ballots and bans share.                *)
(***************************************************************************)
EXTENDS Registry, FiniteSetTheorems, TLAPS

LEMMA EmptySound ==
  ASSUME NEW I, NEW E
  PROVE  IsRegistry(EmptyRegistry, I, E) /\ IndexIsInverse(EmptyRegistry)
BY DEF IsRegistry, IndexIsInverse, EmptyRegistry, NoEntries

\* n is r with an entry that has been added, as the tables show it.
Added(r, n, hashes, e) ==
  /\ r.counter \in Nat
  /\ r.counter \notin DOMAIN r.entries
  /\ n.counter = r.counter + 1
  /\ DOMAIN n.entries = DOMAIN r.entries \cup {r.counter}
  /\ DOMAIN n.identities = DOMAIN r.entries \cup {r.counter}
  /\ n.entries[r.counter] = e
  /\ n.identities[r.counter] = hashes
  /\ \A id \in DOMAIN r.entries :
       n.entries[id] = r.entries[id] /\ n.identities[id] = r.identities[id]
  /\ DOMAIN n.index = DOMAIN r.index \cup hashes
  /\ \A h \in DOMAIN n.index :
       n.index[h] = IF h \in hashes THEN r.counter ELSE r.index[h]

\* n is r without the entry id.
Removed(r, n, id) ==
  /\ n.counter = r.counter
  /\ DOMAIN n.entries = DOMAIN r.entries \ {id}
  /\ DOMAIN n.identities = DOMAIN r.entries \ {id}
  /\ \A x \in DOMAIN r.entries \ {id} :
       n.entries[x] = r.entries[x] /\ n.identities[x] = r.identities[x]
  /\ DOMAIN n.index = DOMAIN r.index \ r.identities[id]
  /\ \A h \in DOMAIN r.index \ r.identities[id] : n.index[h] = r.index[h]

LEMMA AddTables ==
  ASSUME NEW I, NEW E, NEW r, IsRegistry(r, I, E), NEW hashes, NEW e
  PROVE  Added(r, Add(r, hashes, e), hashes, e)
<1>1. r.counter \in Nat /\ r.counter \notin DOMAIN r.entries
  BY DEF IsRegistry
<1>2. DOMAIN r.identities = DOMAIN r.entries
  BY DEF IsRegistry
<1> QED
  BY <1>1, <1>2 DEF Add, Put, Added

LEMMA RemoveTables ==
  ASSUME NEW I, NEW E, NEW r, IsRegistry(r, I, E), NEW id \in DOMAIN r.entries
  PROVE  Removed(r, Remove(r, id), id)
<1>1. DOMAIN r.identities = DOMAIN r.entries
  BY DEF IsRegistry
<1> QED
  BY <1>1 DEF Remove, Drop, Restrict, Removed

LEMMA AddIsRegistry ==
  ASSUME NEW I, NEW E, NEW r, IsRegistry(r, I, E), NEW hashes \in SUBSET I, NEW e \in E
  PROVE  IsRegistry(Add(r, hashes, e), I, E)
<1> DEFINE n == Add(r, hashes, e)
<1>0. Added(r, n, hashes, e)
  BY AddTables
<1>9. /\ n.entries = [x \in DOMAIN n.entries |-> n.entries[x]]
      /\ n.identities = [x \in DOMAIN n.identities |-> n.identities[x]]
      /\ n.index = [x \in DOMAIN n.index |-> n.index[x]]
  BY DEF Add, Put
<1> HIDE DEF n
<1>1. n.counter \in Nat /\ DOMAIN n.entries \subseteq 0 .. n.counter - 1
  <2>1. DOMAIN r.entries \subseteq 0 .. r.counter - 1
    BY DEF IsRegistry
  <2> QED BY <2>1, <1>0 DEF Added
<1>2. n.entries \in [DOMAIN n.entries -> E]
  <2>1. \A id \in DOMAIN r.entries : r.entries[id] \in E
    BY DEF IsRegistry
  <2>2. \A id \in DOMAIN n.entries : n.entries[id] \in E
    BY <2>1, <1>0 DEF Added
  <2> QED BY <1>9, <2>2
<1>3. n.identities \in [DOMAIN n.entries -> SUBSET I]
  <2>1. \A id \in DOMAIN r.entries : r.identities[id] \in SUBSET I
    BY DEF IsRegistry
  <2>2. \A id \in DOMAIN n.entries : n.identities[id] \in SUBSET I
    BY <2>1, <1>0 DEF Added
  <2>3. DOMAIN n.identities = DOMAIN n.entries
    BY <1>0 DEF Added
  <2> QED BY <1>9, <2>2, <2>3
<1>4. DOMAIN n.index \subseteq I
  BY <1>0 DEF Added, IsRegistry
<1>5. n.index \in [DOMAIN n.index -> DOMAIN n.entries]
  <2>1. \A h \in DOMAIN r.index : r.index[h] \in DOMAIN r.entries
    BY DEF IsRegistry
  <2>2. \A h \in DOMAIN n.index : n.index[h] \in DOMAIN n.entries
    BY <2>1, <1>0 DEF Added
  <2> QED BY <1>9, <2>2
<1> QED
  BY <1>1, <1>2, <1>3, <1>4, <1>5 DEF IsRegistry, n

LEMMA AddKeepsInverse ==
  ASSUME NEW I, NEW E, NEW r, IsRegistry(r, I, E), IndexIsInverse(r),
         NEW hashes, CanAdd(r, hashes), NEW e
  PROVE  IndexIsInverse(Add(r, hashes, e))
<1> DEFINE n == Add(r, hashes, e)
<1>0. Added(r, n, hashes, e)
  BY AddTables
<1>9. /\ n.entries = [x \in DOMAIN n.entries |-> n.entries[x]]
      /\ n.identities = [x \in DOMAIN n.identities |-> n.identities[x]]
      /\ n.index = [x \in DOMAIN n.index |-> n.index[x]]
  BY DEF Add, Put
<1> HIDE DEF n
<1>1. ASSUME NEW id \in DOMAIN n.entries, NEW h \in n.identities[id]
      PROVE  h \in DOMAIN n.index /\ n.index[h] = id
  <2>1. CASE id = r.counter
    BY <1>1, <2>1, <1>0 DEF Added
  <2>2. CASE id \in DOMAIN r.entries
    <3>1. h \in DOMAIN r.index /\ r.index[h] = id
      BY <1>1, <2>2, <1>0 DEF Added, IndexIsInverse
    <3>2. h \notin hashes
      BY <3>1 DEF CanAdd
    <3> QED BY <3>1, <3>2, <1>0 DEF Added
  <2> QED BY <1>1, <2>1, <2>2, <1>0 DEF Added
<1>2. ASSUME NEW h \in DOMAIN n.index
      PROVE  h \in n.identities[n.index[h]]
  <2>1. CASE h \in hashes
    BY <2>1, <1>2, <1>0 DEF Added
  <2>2. CASE h \notin hashes
    <3>1. h \in DOMAIN r.index /\ n.index[h] = r.index[h]
      BY <1>2, <2>2, <1>0 DEF Added
    <3>2. r.index[h] \in DOMAIN r.entries /\ h \in r.identities[r.index[h]]
      BY <3>1 DEF IndexIsInverse, IsRegistry
    <3> QED BY <3>1, <3>2, <1>0 DEF Added
  <2> QED BY <2>1, <2>2
<1> QED
  BY <1>1, <1>2 DEF IndexIsInverse, n

\* Without the inverse this would be false: identities that led to a removed
\* entry from elsewhere would now lead nowhere.
LEMMA RemoveIsRegistry ==
  ASSUME NEW I, NEW E, NEW r, IsRegistry(r, I, E), IndexIsInverse(r), NEW id \in DOMAIN r.entries
  PROVE  IsRegistry(Remove(r, id), I, E)
<1> DEFINE n == Remove(r, id)
<1>0. Removed(r, n, id)
  BY RemoveTables
<1>9. /\ n.entries = [x \in DOMAIN n.entries |-> n.entries[x]]
      /\ n.identities = [x \in DOMAIN n.identities |-> n.identities[x]]
      /\ n.index = [x \in DOMAIN n.index |-> n.index[x]]
  BY DEF Remove, Drop, Restrict
<1> HIDE DEF n
<1>1. n.counter \in Nat /\ DOMAIN n.entries \subseteq 0 .. n.counter - 1
  BY <1>0 DEF Removed, IsRegistry
<1>2. n.entries \in [DOMAIN n.entries -> E]
  <2>1. \A x \in DOMAIN n.entries : n.entries[x] \in E
    BY <1>0 DEF Removed, IsRegistry
  <2> QED BY <1>9, <2>1
<1>3. n.identities \in [DOMAIN n.entries -> SUBSET I]
  <2>1. \A x \in DOMAIN n.entries : n.identities[x] \in SUBSET I
    BY <1>0 DEF Removed, IsRegistry
  <2>2. DOMAIN n.identities = DOMAIN n.entries
    BY <1>0 DEF Removed
  <2> QED BY <1>9, <2>1, <2>2
<1>4. DOMAIN n.index \subseteq I
  BY <1>0 DEF Removed, IsRegistry
<1>5. n.index \in [DOMAIN n.index -> DOMAIN n.entries]
  <2>1. ASSUME NEW h \in DOMAIN n.index
        PROVE  n.index[h] \in DOMAIN n.entries
    <3>1. h \in DOMAIN r.index /\ h \notin r.identities[id] /\ n.index[h] = r.index[h]
      BY <2>1, <1>0 DEF Removed
    <3>2. r.index[h] \in DOMAIN r.entries /\ h \in r.identities[r.index[h]]
      BY <3>1 DEF IndexIsInverse, IsRegistry
    <3> QED BY <3>1, <3>2, <1>0 DEF Removed
  <2> QED BY <1>9, <2>1
<1> QED
  BY <1>1, <1>2, <1>3, <1>4, <1>5 DEF IsRegistry, n

LEMMA RemoveKeepsInverse ==
  ASSUME NEW I, NEW E, NEW r, IsRegistry(r, I, E), IndexIsInverse(r), NEW id \in DOMAIN r.entries
  PROVE  IndexIsInverse(Remove(r, id))
<1> DEFINE n == Remove(r, id)
<1>0. Removed(r, n, id)
  BY RemoveTables
<1>9. /\ n.entries = [x \in DOMAIN n.entries |-> n.entries[x]]
      /\ n.identities = [x \in DOMAIN n.identities |-> n.identities[x]]
      /\ n.index = [x \in DOMAIN n.index |-> n.index[x]]
  BY DEF Remove, Drop, Restrict
<1> HIDE DEF n
<1>1. ASSUME NEW x \in DOMAIN n.entries, NEW h \in n.identities[x]
      PROVE  h \in DOMAIN n.index /\ n.index[h] = x
  <2>1. x \in DOMAIN r.entries /\ x # id /\ h \in r.identities[x]
    BY <1>1, <1>0 DEF Removed
  <2>2. h \in DOMAIN r.index /\ r.index[h] = x
    BY <2>1 DEF IndexIsInverse
  <2>3. h \notin r.identities[id]
    BY <2>1, <2>2 DEF IndexIsInverse
  <2> QED BY <2>2, <2>3, <1>0 DEF Removed
<1>2. ASSUME NEW h \in DOMAIN n.index
      PROVE  h \in n.identities[n.index[h]]
  <2>1. h \in DOMAIN r.index /\ h \notin r.identities[id] /\ n.index[h] = r.index[h]
    BY <1>2, <1>0 DEF Removed
  <2>2. r.index[h] \in DOMAIN r.entries /\ h \in r.identities[r.index[h]]
    BY <2>1 DEF IndexIsInverse, IsRegistry
  <2> QED BY <2>1, <2>2, <1>0 DEF Removed
<1> QED
  BY <1>1, <1>2 DEF IndexIsInverse, n

LEMMA FiniteEntries ==
  ASSUME NEW I, NEW E, NEW r, IsRegistry(r, I, E)
  PROVE  IsFiniteSet(DOMAIN r.entries)
<1>1. r.counter - 1 \in Int /\ DOMAIN r.entries \in SUBSET (0 .. r.counter - 1)
  BY DEF IsRegistry
<1>2. IsFiniteSet(0 .. r.counter - 1)
  BY <1>1, FS_Interval
<1> QED
  BY <1>1, <1>2, FS_Subset
=============================================================================
