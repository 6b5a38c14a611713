-------------------------------- MODULE Bans --------------------------------
(***************************************************************************)
(* Bans: the registries that the forum, a board and each of its threads    *)
(* keep for four sizes of subnets (bans.move), the mark on the post that   *)
(* somebody was banned for (post.banned), and the relay's check of an      *)
(* address before a post is signed for it (check_bans_inner of send.rs).   *)
(*                                                                         *)
(* A transaction is one step.  The check reads the chain piece by piece,   *)
(* once for each request; what it has passed is then sent as often as it   *)
(* takes, and the contract does not ask again.  Who may ban is the matter  *)
(* of module Offers: here somebody with the rank does.  Moderators are     *)
(* checked like everybody else and may be locked out by their own bans;    *)
(* that is left out, as a moderator with another address undoes it.        *)
(***************************************************************************)
EXTENDS Integers, Sequences, Registry

CONSTANTS
  Addresses,
  Masks,      \* the sizes of subnets, in the order in which they are checked
  Net,        \* Net[m][a] is the hash of the subnet of size m that a is in
  Threads,
  NoKey,      \* option::none of a post's ban
  NoRequest,  \* the relay is not checking anything
  MaxPosts, MaxChanges, MaxTime \* bounds

Sizes == {Masks[i] : i \in DOMAIN Masks}

BansAssumption ==
  /\ Masks \in Seq(Sizes) /\ Len(Masks) >= 1
  /\ Net \in [Sizes -> [Addresses -> UNION {{Net[m][a] : a \in Addresses} : m \in Sizes}]]
  /\ Threads \cap {"forum", "board"} = {}
  /\ MaxPosts \in Nat /\ MaxChanges \in Nat /\ MaxTime \in Nat

VARIABLES
  bans,     \* bans[l][m]: registry of a level and a size; an entry is when it expires
  ignores,  \* board.ignore_forum_bans
  posts,    \* thread, address and ban key of every post
  now,
  request,  \* the post that the relay is checking
  changes,  \* bounds what moderators do
  lifted,   \* history: keys taken away from under a marked post
  held      \* history: bans on request.by in force ever since the request came

vars == <<bans, ignores, posts, now, request, changes, lifted, held>>

Levels == {"forum", "board"} \cup Threads
Key(l, m, a) == [level |-> l, mask |-> m, hash |-> Net[m][a]]
Keys == {Key(l, m, a) : l \in Levels, m \in Sizes, a \in Addresses}
Expiries == 1 .. MaxTime + 1

-----------------------------------------------------------------------------
\* bans.move on one registry

Banned(r, hash, expires) ==
  IF Find(r, hash) = {} THEN Add(r, {hash}, expires)
  ELSE [r EXCEPT !.entries = Put(@, r.index[hash], expires)]

Unbanned(r, hash) ==
  IF Find(r, hash) = {} THEN r ELSE Remove(r, r.index[hash])

InRegistry(key) == Find(bans[key.level][key.mask], key.hash) # {}

\* The bans that keep an address from posting in a thread.
InForce(a, t) ==
  {f \in ({"board", t} \cup (IF ignores THEN {} ELSE {"forum"})) \X Sizes :
     \E id \in Find(bans[f[1]][f[2]], Net[f[2]][a]) : bans[f[1]][f[2]].entries[id] > now}

-----------------------------------------------------------------------------
\* The contract

Changed == changes < MaxChanges /\ changes' = changes + 1

SetBan(key, expires) ==
  /\ bans' = [bans EXCEPT ![key.level][key.mask] = Banned(@, key.hash, expires)]
  /\ lifted' = lifted \ {key}

MarkedWith(key, S) == \E p \in S : posts[p].banned = key

\* A ban taken away goes for every post that was marked with it.
LiftBan(key, others) ==
  /\ bans' = [bans EXCEPT ![key.level][key.mask] = Unbanned(@, key.hash)]
  /\ lifted' = IF MarkedWith(key, others) THEN lifted \cup {key} ELSE lifted

\* By the address itself (the "ban" and "unban" of the three apply functions).
Ban(key, expires) ==
  /\ Changed
  /\ SetBan(key, expires)
  /\ UNCHANGED <<ignores, posts, now, request>>

Unban(key) ==
  /\ Changed
  /\ LiftBan(key, DOMAIN posts)
  /\ UNCHANGED <<ignores, posts, now, request>>

\* set_banned of the post, which only marks an unmarked post and unmarks a
\* marked one.
SetBanned(p, key) ==
  /\ (posts[p].banned = NoKey) # (key = NoKey)
  /\ posts' = [posts EXCEPT ![p].banned = key]

\* For a post (the "ban" and "unban" of the three apply_post functions), at the
\* level of the forum, the board or the post's thread.
BanPost(p, l, m, expires) ==
  /\ Changed
  /\ l \in {"forum", "board", posts[p].thread}
  /\ SetBan(Key(l, m, posts[p].by), expires)
  /\ SetBanned(p, Key(l, m, posts[p].by))
  /\ UNCHANGED <<ignores, now, request>>

UnbanPost(p) ==
  /\ Changed
  /\ posts[p].banned # NoKey
  /\ LiftBan(posts[p].banned, DOMAIN posts \ {p})
  /\ SetBanned(p, NoKey)
  /\ UNCHANGED <<ignores, now, request>>

SetIgnoreForumBans ==
  /\ Changed
  /\ ignores' = ~ignores
  /\ UNCHANGED <<bans, posts, now, request, lifted>>

-----------------------------------------------------------------------------
\* The relay

\* The levels that are asked, in this order.
Consulted(t) ==
  (IF ignores THEN <<>> ELSE <<"forum">>) \o <<"board", t>>

Ask(a, t) ==
  /\ request = NoRequest
  /\ Len(posts) < MaxPosts
  /\ request' = [by |-> a, thread |-> t, at |-> now, checks |-> <<>>,
                 unread |-> {0}, found |-> NoEntries]
  /\ UNCHANGED <<bans, ignores, posts, now, changes, lifted>>

\* load_forum, load_board and load_thread: which registries are to be asked.
LoadLevels ==
  /\ request # NoRequest /\ request.unread = {0}
  /\ LET levels == Consulted(request.thread)
         checks == [i \in 1 .. Len(levels) * Len(Masks) |->
                      <<levels[((i - 1) \div Len(Masks)) + 1], Masks[((i - 1) % Len(Masks)) + 1]>>]
     IN  request' = [request EXCEPT !.checks = checks, !.unread = DOMAIN checks]
  /\ UNCHANGED <<bans, ignores, posts, now, changes, lifted>>

\* The indexes are listed by calls of their own, in any order.
ReadIndex ==
  /\ request # NoRequest /\ 0 \notin request.unread
  /\ \E i \in request.unread :
       LET l == request.checks[i][1]
           m == request.checks[i][2]
           ids == Find(bans[l][m], Net[m][request.by])
       IN  request' = [request EXCEPT
             !.unread = @ \ {i},
             !.found = IF ids = {} THEN @ ELSE Put(@, i, bans[l][m].index[Net[m][request.by]])]
  /\ UNCHANGED <<bans, ignores, posts, now, changes, lifted>>

Fetched == CHOOSE i \in DOMAIN request.found : \A j \in DOMAIN request.found : i <= j

\* A mutant: a ban that has expired is enough.
FetchEntryMutant ==
  /\ request # NoRequest /\ request.unread = {} /\ DOMAIN request.found # {}
  /\ LET r == bans[request.checks[Fetched][1]][request.checks[Fetched][2]]
         id == request.found[Fetched]
     IN  request' = IF id \in DOMAIN r.entries /\ r.entries[id] > request.at
                    THEN NoRequest
                    ELSE [request EXCEPT !.found = NoEntries]
  /\ UNCHANGED <<bans, ignores, posts, now, changes, lifted>>

\* Entries are then fetched one after the other; the first that has not expired
\* when the request came ends it.
FetchEntry ==
  /\ request # NoRequest /\ request.unread = {} /\ DOMAIN request.found # {}
  /\ LET r == bans[request.checks[Fetched][1]][request.checks[Fetched][2]]
         id == request.found[Fetched]
     IN  request' = IF id \in DOMAIN r.entries /\ r.entries[id] > request.at
                    THEN NoRequest
                    ELSE [request EXCEPT !.found = Drop(@, {Fetched})]
  /\ UNCHANGED <<bans, ignores, posts, now, changes, lifted>>

\* The contract takes the post at some time after the check, if at all.
Post ==
  /\ request # NoRequest /\ request.unread = {} /\ DOMAIN request.found = {}
  /\ posts' = Append(posts, [thread |-> request.thread, by |-> request.by,
                             banned |-> NoKey, despite |-> held])
  /\ request' = NoRequest
  /\ UNCHANGED <<bans, ignores, now, changes, lifted>>

Tick ==
  /\ now < MaxTime
  /\ now' = now + 1
  /\ UNCHANGED <<bans, ignores, posts, request, changes, lifted>>

-----------------------------------------------------------------------------
\* Posts from before the bans; the one address has posted in a thread or two.
Init ==
  /\ bans = [l \in Levels |-> [m \in Sizes |-> EmptyRegistry]]
  /\ ignores \in BOOLEAN
  /\ \E a, b \in Addresses, t, u \in Threads :
       posts = <<[thread |-> t, by |-> a, banned |-> NoKey, despite |-> {}],
                 [thread |-> u, by |-> b, banned |-> NoKey, despite |-> {}]>>
  /\ now = 0
  /\ request = NoRequest
  /\ changes = 0
  /\ lifted = {}
  /\ held = {}

Moderate ==
  \/ \E key \in Keys : Unban(key) \/ \E x \in Expiries : Ban(key, x)
  \/ \E p \in DOMAIN posts :
       \/ UnbanPost(p)
       \/ \E l \in Levels, m \in Sizes, x \in Expiries : BanPost(p, l, m, x)
  \/ SetIgnoreForumBans

Relay ==
  \/ \E a \in Addresses, t \in Threads : Ask(a, t)
  \/ LoadLevels \/ ReadIndex \/ FetchEntry \/ Post

\* What has been in force in every state since the request came.
InForceNow == InForce(request.by, request.thread)

Watch ==
  \/ request' = NoRequest /\ held' = {}
  \/ request' # NoRequest /\ request = NoRequest /\ held' = InForceNow'
  \/ request' # NoRequest /\ request # NoRequest /\ held' = held \cap InForceNow'

Next == (Moderate \/ Relay \/ Tick) /\ Watch

Spec == Init /\ [][Next]_vars

-----------------------------------------------------------------------------
\* In each registry the index leads to one entry for each subnet, however bans
\* are renewed and lifted (bans.move relies on it without looking).
BansIndexed ==
  \A l \in Levels, m \in Sizes :
    /\ IsRegistry(bans[l][m], {Net[m][a] : a \in Addresses}, Expiries)
    /\ IndexIsInverse(bans[l][m])
    /\ \A id \in DOMAIN bans[l][m].entries : bans[l][m].identities[id] # {}

\* A post marked as banned names a ban that is on the chain, unless it was lifted
\* by its key or through another post of the same subnet, which are the ways to
\* leave a mark behind.
MarksStand ==
  \A p \in DOMAIN posts :
    posts[p].banned = NoKey \/ InRegistry(posts[p].banned) \/ posts[p].banned \in lifted

\* Nobody posts through a ban that was in force all the time from the request
\* to the post, at whatever level and size.  One that comes during the check, or
\* after it, may be too late.
NobodyPostsBanned == \A p \in DOMAIN posts : posts[p].despite = {}

BansSafety == BansIndexed /\ MarksStand /\ NobodyPostsBanned
=============================================================================
