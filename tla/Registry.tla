------------------------------ MODULE Registry ------------------------------
(***************************************************************************)
(* forum::registry: a table of entries in which each entry is filed under  *)
(* several identities and an index leads from an identity to its entry.    *)
(* The contract keeps one per ban mask (filed under one IP hash) and two   *)
(* per post, for the people who reacted and the people who voted (filed    *)
(* under an IP hash and a public key).                                     *)
(*                                                                         *)
(* The three Move tables are functions with a finite domain.  An abort of  *)
(* the Move code is a guard that is false: the caller's transaction does   *)
(* not happen.                                                             *)
(***************************************************************************)
EXTENDS Naturals, Functions

\* f with v stored under k (table::add, or an assignment through a borrow).
\* TLC!@@ says the same, but the provers cannot expand it.
Put(f, k, v) == [x \in DOMAIN f \cup {k} |-> IF x = k THEN v ELSE f[x]]

\* f without the keys of S (table::remove).
Drop(f, S) == Restrict(f, DOMAIN f \ S)

NoEntries == [x \in {} |-> x]

EmptyRegistry ==
  [counter |-> 0, entries |-> NoEntries, identities |-> NoEntries, index |-> NoEntries]

\* index.add aborts on an identity that is already filed.
CanAdd(r, hashes) == hashes \cap DOMAIN r.index = {}

AddMutant(r, hashes, entry) ==
  [counter    |-> r.counter,
   entries    |-> Put(r.entries, r.counter, entry),
   identities |-> Put(r.identities, r.counter, hashes),
   index      |-> [h \in DOMAIN r.index \cup hashes |->
                      IF h \in hashes THEN r.counter ELSE r.index[h]]]

Add(r, hashes, entry) ==
  [counter    |-> r.counter + 1,
   entries    |-> Put(r.entries, r.counter, entry),
   identities |-> Put(r.identities, r.counter, hashes),
   index      |-> [h \in DOMAIN r.index \cup hashes |->
                      IF h \in hashes THEN r.counter ELSE r.index[h]]]

\* The set of ids find() returns: empty for option::none.
Find(r, hash) == IF hash \in DOMAIN r.index THEN {r.index[hash]} ELSE {}

Remove(r, id) ==
  [counter    |-> r.counter,
   entries    |-> Drop(r.entries, {id}),
   identities |-> Drop(r.identities, {id}),
   index      |-> Drop(r.index, r.identities[id])]

-----------------------------------------------------------------------------
\* What add, find and remove rely on together: the tables have the same ids,
\* all of them below the counter, and the index is exactly the inverse of the
\* identities, so that no identity leads to two entries.
IsRegistry(r, Identities, Entries) ==
  /\ r.counter \in Nat
  /\ DOMAIN r.entries \subseteq 0 .. r.counter - 1
  /\ r.entries \in [DOMAIN r.entries -> Entries]
  /\ r.identities \in [DOMAIN r.entries -> SUBSET Identities]
  /\ DOMAIN r.index \subseteq Identities
  /\ r.index \in [DOMAIN r.index -> DOMAIN r.entries]

IndexIsInverse(r) ==
  /\ \A id \in DOMAIN r.entries : \A h \in r.identities[id] :
        h \in DOMAIN r.index /\ r.index[h] = id
  /\ \A h \in DOMAIN r.index : h \in r.identities[r.index[h]]
=============================================================================
