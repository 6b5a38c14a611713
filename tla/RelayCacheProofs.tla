-------------------------- MODULE RelayCacheProofs --------------------------
(***************************************************************************)
(* Proofs about module RelayCache, for any numbers of relays, requests and *)
(* changes and whatever fails.                                             *)
(***************************************************************************)
EXTENDS RelayCache, FiniteSetTheorems, TLAPS

-----------------------------------------------------------------------------
\* Types

LEMMA CountType ==
  ASSUME CacheAssumption, NEW S, S \subseteq Changes
  PROVE  IsFiniteSet(S \cap Posts) /\ Cardinality(S \cap Posts) \in Nat
<1>1. IsFiniteSet(S \cap Posts)
  BY FS_Subset DEF CacheAssumption
<1> QED
  BY <1>1, FS_CardinalityType

LEMMA PutPage ==
  ASSUME NEW cache, PagesIn(cache), NEW k \in Keys, NEW page \in Page
  PROVE  PagesIn(Put(cache, k, page))
BY DEF PagesIn, Put

LEMMA DropPages ==
  ASSUME NEW cache, PagesIn(cache), NEW S
  PROVE  PagesIn(Drop(cache, S))
BY DEF PagesIn, Drop, Restrict

LEMMA NoPages == PagesIn(NoEntries)
BY DEF PagesIn, NoEntries

LEMMA MarkedPage ==
  ASSUME TypeOK, NEW q \in Readers
  PROVE  Marked(readers[q].page, q) \in Page
BY DEF TypeOK, Marked, Page, Reader

LEMMA IdleType ==
  ASSUME NEW r \in Relays
  PROVE  IdleReader(r) \in Reader
BY DEF IdleReader, Reader, Keys, NoPage, Page

LEMMA OvertakenType ==
  ASSUME TypeOK, NEW flush \in BOOLEAN
  PROVE  Overtaken(flush) \in [Readers -> Reader]
<1>1. readers \in [Readers -> Reader]
  BY DEF TypeOK
<1> QED
  BY <1>1 DEF Overtaken, Reader

LEMMA InitType ==
  ASSUME CacheAssumption, Init
  PROVE  TypeOK
<1>1. readers \in [Readers -> Reader]
  BY IdleType DEF Init
<1>2. changes \in [Changes -> Change]
  BY DEF Init, Change
<1>3. links \in [Relays -> Link] /\ inbox \in [Relays -> SUBSET Changes]
  BY DEF Init, Link
<1>4. PagesIn(l2) /\ \A r \in Relays : PagesIn(l1[r])
  BY NoPages DEF Init
<1> QED
  BY <1>1, <1>2, <1>3, <1>4 DEF Init, TypeOK

LEMMA LoadType ==
  ASSUME TypeOK, NEW q \in Readers, Load(q)
  PROVE  readers' \in [Readers -> Reader]
<1>1. IdleReader(readers[q].relay) \in Reader
  BY IdleType DEF TypeOK, Reader
<1>2. Dropping(readers[q].relay) \in BOOLEAN /\ Flushing \in BOOLEAN
  BY DEF Dropping, Flushing
<1>3. applied \in SUBSET Changes /\ {c \in Changes : Over(c)} \in SUBSET Changes
  BY DEF TypeOK
<1>4. readers \in [Readers -> Reader]
  BY DEF TypeOK
<1> HIDE DEF TypeOK, IdleReader, Dropping, Flushing, Over, Changes
<1>5. [IdleReader(readers[q].relay) EXCEPT
         !.phase = "loaded", !.first = applied,
         !.owed = {c \in Changes : Over(c)},
         !.late = Dropping(readers[q].relay), !.flushed = Flushing] \in Reader
  BY <1>1, <1>2, <1>3 DEF Reader
<1> QED
  BY <1>4, <1>5 DEF Load

LEMMA ReadType ==
  ASSUME CacheAssumption, TypeOK, NEW q \in Readers, Read(q)
  PROVE  TypeOK'
<1>1. readers \in [Readers -> Reader] /\ readers[q] \in Reader
  BY DEF TypeOK
<1>2. CASE Load(q)
  <2>1. readers' \in [Readers -> Reader]
    BY <1>2, LoadType
  <2> QED BY <1>2, <2>1 DEF Load, TypeOK
<1>3. CASE GetGen(q)
  <2>1. PICK g \in {gen, 0} :
          readers' = [readers EXCEPT ![q] =
            IF Key(readers[q].first, g) \in DOMAIN l1[readers[q].relay]
            THEN [@ EXCEPT !.phase = "done",
                           !.flushed = readers[q].flushed \/ g # gen \/ readers[q].relay \in outdated,
                           !.page = l1[readers[q].relay][Key(readers[q].first, g)]]
            ELSE [@ EXCEPT !.phase = "missed", !.key = Key(readers[q].first, g),
                           !.flushed = readers[q].flushed \/ g # gen \/ readers[q].relay \in outdated]]
    BY <1>3 DEF GetGen
  <2>2. readers[q].first \subseteq Changes /\ readers[q].relay \in Relays
    BY <1>1 DEF Reader
  <2>3. g \in Nat
    BY DEF TypeOK
  <2>4. Key(readers[q].first, g) \in Keys
    BY <2>2, <2>3, CountType DEF Key, Keys
  <2>5. PagesIn(l1[readers[q].relay])
    BY <2>2 DEF TypeOK
  <2> DEFINE k == Key(readers[q].first, g)
             f == readers[q].flushed \/ g # gen \/ readers[q].relay \in outdated
             p == l1[readers[q].relay][k]
  <2>6. f \in BOOLEAN
    BY <1>1 DEF Reader
  <2>7. k \in DOMAIN l1[readers[q].relay] => p \in Page
    BY <2>5 DEF PagesIn
  <2> HIDE DEF k, f, p
  <2>8. readers' \in [Readers -> Reader]
    <3>1. CASE k \in DOMAIN l1[readers[q].relay]
      <4>1. readers' = [readers EXCEPT ![q] =
              [readers[q] EXCEPT !.phase = "done", !.flushed = f, !.page = p]]
        BY <1>1, <2>1, <3>1 DEF k, f, p
      <4> QED BY <1>1, <2>6, <2>7, <3>1, <4>1 DEF Reader
    <3>2. CASE k \notin DOMAIN l1[readers[q].relay]
      <4>1. readers' = [readers EXCEPT ![q] =
              [readers[q] EXCEPT !.phase = "missed", !.key = k, !.flushed = f]]
        BY <1>1, <2>1, <3>2 DEF k, f
      <4>2. k \in Keys
        BY <2>4 DEF k
      <4> QED BY <1>1, <2>6, <4>1, <4>2 DEF Reader
    <3> QED BY <3>1, <3>2
  <2> QED BY <1>3, <2>8 DEF GetGen, TypeOK
<1>4. CASE LookIntoL2(q)
  <2>1. readers[q].key \in DOMAIN l2 => l2[readers[q].key] \in Page
    BY DEF TypeOK, PagesIn
  <2>2. readers[q].key \in DOMAIN l2
          => [readers[q] EXCEPT !.phase = "found", !.page = l2[readers[q].key]] \in Reader
    BY <1>1, <2>1 DEF Reader
  <2>3. /\ [readers[q] EXCEPT !.phase = "building"] \in Reader
        /\ [readers[q] EXCEPT !.phase = "building", !.caching = FALSE] \in Reader
    BY <1>1 DEF Reader
  <2>4. readers' \in [Readers -> Reader]
    BY <1>1, <1>4, <2>2, <2>3 DEF LookIntoL2, Goes
  <2> QED BY <1>4, <2>4 DEF LookIntoL2, TypeOK
<1>5. ASSUME l1' = InL1(q, Marked(readers[q].page, q))
      PROVE  DOMAIN l1' = Relays /\ \A r \in Relays : PagesIn(l1'[r])
  <2>1. readers[q].key \in Keys /\ readers[q].relay \in Relays
    BY <1>1 DEF Reader
  <2>2. PagesIn(Put(l1[readers[q].relay], readers[q].key, Marked(readers[q].page, q)))
    BY <2>1, MarkedPage, PutPage DEF TypeOK
  <2> QED BY <1>5, <2>1, <2>2 DEF InL1, TypeOK
<1>6. ASSUME NEW page \in Page, Answers(q, page)
      PROVE  readers' \in [Readers -> Reader]
  BY <1>1, <1>6 DEF Answers, Reader, Keys
<1>7. ASSUME NEW phase \in {"idle", "loaded", "missed", "found", "building", "built", "storing", "done"},
             Goes(q, phase)
      PROVE  readers' \in [Readers -> Reader]
  BY <1>1, <1>7 DEF Goes, Reader
<1>8. CASE CopyToL1(q)
  BY <1>5, <1>6, <1>8, MarkedPage DEF CopyToL1, TypeOK
<1>9. CASE Build(q)
  <2>1. Shown(q) \subseteq Changes
    BY DEF Shown, Changes
  <2>2. [NoPage EXCEPT !.shows = Shown(q)] \in Page
    BY <2>1 DEF NoPage, Page
  <2> DEFINE page == [NoPage EXCEPT !.shows = Shown(q)]
  <2> HIDE DEF page
  <2>3. [readers[q] EXCEPT !.phase = "built", !.page = page] \in Reader
    BY <1>1, <2>2 DEF Reader, page
  <2>4. \/ readers' = [readers EXCEPT ![q] = [readers[q] EXCEPT !.phase = "built", !.page = page]]
        \/ Answers(q, page)
    BY <1>1, <1>9 DEF Build, page
  <2>5. readers' \in [Readers -> Reader]
    BY <1>1, <1>6, <2>2, <2>3, <2>4 DEF page
  <2> QED BY <1>9, <2>5 DEF Build, TypeOK
<1>10. CASE StoreInL1(q)
  BY <1>5, <1>7, <1>10 DEF StoreInL1, TypeOK
<1>11. CASE StoreInL2(q)
  <2>1. PagesIn(Put(l2, readers[q].key, Marked(readers[q].page, q)))
    BY <1>1, MarkedPage, PutPage DEF Reader, TypeOK
  <2>2. PagesIn(l2')
    BY <1>11, <2>1 DEF StoreInL2, TypeOK
  <2> QED BY <1>6, <1>11, <2>2, MarkedPage DEF StoreInL2, TypeOK
<1>12. CASE Abandon(q)
  <2>1. IdleReader(readers[q].relay) \in Reader
    BY <1>1, IdleType DEF Reader
  <2>2. readers' \in [Readers -> Reader]
    BY <1>1, <1>12, <2>1 DEF Abandon
  <2> QED BY <1>12, <2>2 DEF Abandon, TypeOK
<1> QED
  BY <1>2, <1>3, <1>4, <1>8, <1>9, <1>10, <1>11, <1>12 DEF Read

LEMMA MakeType ==
  ASSUME CacheAssumption, TypeOK, NEW c \in Changes, Make(c)
  PROVE  TypeOK'
<1>1. /\ changes \in [Changes -> Change] /\ changes[c] \in Change
      /\ readers \in [Readers -> Reader] /\ gen \in Nat /\ PagesIn(l2)
  BY DEF TypeOK
<1>2. JobsOf(c) \in SUBSET Jobs
  BY DEF JobsOf, Jobs, Changes
<1>3. ASSUME NEW job, NEW keys \in SUBSET Keys, Done(c, job, keys)
      PROVE  changes' \in [Changes -> Change]
  <2> DEFINE jobs == changes[c].jobs \ {job}
  <2>1. jobs \in SUBSET Jobs
    BY <1>1 DEF Change
  <2>2. changes' = [changes EXCEPT ![c] = [changes[c] EXCEPT !.jobs = jobs, !.keys = keys]]
    BY <1>1, <1>3 DEF Done, Change
  <2> HIDE DEF jobs
  <2>3. [changes[c] EXCEPT !.jobs = jobs, !.keys = keys] \in Change
    BY <1>1, <2>1 DEF Change
  <2> QED BY <1>1, <2>2, <2>3
<1>4. ASSUME Apply(c)
      PROVE  TypeOK'
  <2>1. PICK r \in Relays : changes' = [changes EXCEPT ![c] =
           [changes[c] EXCEPT !.phase = IF JobsOf(c) = {} THEN "running" ELSE "applied",
                              !.relay = {r}, !.jobs = JobsOf(c)]]
    BY <1>1, <1>4 DEF Apply
  <2> DEFINE phase == IF JobsOf(c) = {} THEN "running" ELSE "applied"
             jobs == JobsOf(c)
  <2>2. phase \in {"running", "applied"} /\ jobs \in SUBSET Jobs
    BY <1>2
  <2> HIDE DEF phase, jobs
  <2>3. changes' = [changes EXCEPT ![c] =
           [changes[c] EXCEPT !.phase = phase, !.relay = {r}, !.jobs = jobs]]
    BY <2>1 DEF phase, jobs
  <2>4. changes' \in [Changes -> Change]
    BY <1>1, <2>2, <2>3 DEF Change
  <2>5. (c \in Settings) \in BOOLEAN
    OBVIOUS
  <2>6. readers' \in [Readers -> Reader]
    BY <1>1, <1>4, <2>5, OvertakenType DEF Apply
  <2>7. applied' \in SUBSET Changes
    BY <1>4 DEF Apply, TypeOK
  <2> QED BY <1>4, <2>4, <2>6, <2>7 DEF Apply, TypeOK
<1>5. ASSUME Lose(c)
      PROVE  TypeOK'
  <2>1. changes' \in [Changes -> Change]
    BY <1>1, <1>5 DEF Lose, Change
  <2> QED BY <1>5, <2>1 DEF Lose, TypeOK
<1>6. ASSUME BeginInvalidation(c)
      PROVE  TypeOK'
  <2>1. changes' \in [Changes -> Change]
    BY <1>1, <1>6 DEF BeginInvalidation, Change
  <2>2. \A r \in Relays : PagesIn(l1'[r])
    BY <1>6, NoPages DEF BeginInvalidation, TypeOK
  <2> QED BY <1>6, <2>1, <2>2 DEF BeginInvalidation, TypeOK
<1>7. ASSUME Increment(c) \/ ResetGens(c)
      PROVE  TypeOK'
  <2>1. changes' \in [Changes -> Change]
    BY <1>3, <1>7 DEF Increment, ResetGens
  <2>2. gen' \in Nat
    BY <1>1, <1>7 DEF Increment, ResetGens, NextGen
  <2>3. outdated' \subseteq Relays
    BY <1>7 DEF Increment, ResetGens, TypeOK
  <2> QED BY <1>7, <2>1, <2>2, <2>3 DEF Increment, ResetGens, TypeOK
<1>8. ASSUME Scan(c) \/ Delete(c)
      PROVE  TypeOK'
  <2>1. DOMAIN l2 \in SUBSET Keys
    BY DEF TypeOK, PagesIn
  <2>2. changes' \in [Changes -> Change]
    BY <1>3, <1>8, <2>1 DEF Scan, Delete
  <2>3. PagesIn(l2')
    BY <1>1, <1>8, DropPages DEF Scan, Delete
  <2> QED BY <1>8, <2>2, <2>3 DEF Scan, Delete, TypeOK
<1>9. ASSUME Publish(c)
      PROVE  TypeOK'
  <2>1. changes[c].keys \in SUBSET Keys
    BY <1>1 DEF Change
  <2>2. changes' \in [Changes -> Change]
    BY <1>3, <1>9, <2>1 DEF Publish
  <2>3. inbox' \in [Relays -> SUBSET Changes]
    BY <1>9 DEF Publish, Sent, TypeOK
  <2> QED BY <1>9, <2>2, <2>3 DEF Publish, TypeOK
<1>10. ASSUME NEW job, Fail(c, job)
       PROVE  TypeOK'
  <2> DEFINE jobs == changes[c].jobs \ Skipped(job)
  <2>1. jobs \in SUBSET Jobs
    BY <1>1 DEF Change
  <2>2. changes' = [changes EXCEPT ![c] = [changes[c] EXCEPT !.failed = TRUE, !.jobs = jobs]]
    BY <1>1, <1>10 DEF Fail, Change
  <2> HIDE DEF jobs
  <2>3. [changes[c] EXCEPT !.failed = TRUE, !.jobs = jobs] \in Change
    BY <1>1, <2>1 DEF Change
  <2>4. changes' \in [Changes -> Change]
    BY <1>1, <2>2, <2>3
  <2> QED BY <1>10, <2>4 DEF Fail, TypeOK
<1> QED
  BY <1>4, <1>5, <1>6, <1>7, <1>8, <1>9, <1>10 DEF Make

LEMMA ListenType ==
  ASSUME CacheAssumption, TypeOK, NEW r \in Relays, Listen(r)
  PROVE  TypeOK'
<1>1. /\ links \in [Relays -> Link] /\ links[r] \in Link
      /\ inbox \in [Relays -> SUBSET Changes] /\ PagesIn(l2) /\ PagesIn(l1[r])
      /\ \A x \in Relays : PagesIn(l1[x])
  BY DEF TypeOK
<1>2. ASSUME NEW job, NEW keys \in SUBSET Keys, FlushStep(r, job, keys)
      PROVE  links' \in [Relays -> Link]
  <2> DEFINE jobs == links[r].jobs \ {job}
  <2>1. jobs \in SUBSET Jobs
    BY <1>1 DEF Link
  <2>2. links' = [links EXCEPT ![r] = [links[r] EXCEPT !.jobs = jobs, !.keys = keys]]
    BY <1>1, <1>2 DEF FlushStep, Link
  <2> HIDE DEF jobs
  <2>3. [links[r] EXCEPT !.jobs = jobs, !.keys = keys] \in Link
    BY <1>1, <2>1 DEF Link
  <2> QED BY <1>1, <2>2, <2>3
<1>3. ASSUME NEW cache, PagesIn(cache), l1' = [l1 EXCEPT ![r] = cache]
      PROVE  \A x \in Relays : PagesIn(l1'[x])
  BY <1>1, <1>3
<1>4. ASSUME NEW c, Receive(r, c)
      PROVE  TypeOK'
  <2>1. \A x \in Relays : PagesIn(l1'[x])
    BY <1>3, <1>4, NoPages DEF Receive
  <2>2. inbox' \in [Relays -> SUBSET Changes]
    BY <1>1, <1>4 DEF Receive
  <2> QED BY <1>4, <2>1, <2>2 DEF Receive, TypeOK
<1>5. CASE Evict(r)
  <2>1. PICK key : l1' = [l1 EXCEPT ![r] = Drop(l1[r], {key})]
    BY <1>5 DEF Evict
  <2>2. \A x \in Relays : PagesIn(l1'[x])
    BY <1>1, <1>3, <2>1, DropPages
  <2> QED BY <1>5, <2>2 DEF Evict, TypeOK
<1>6. CASE Disconnect(r)
  <2>1. links' \in [Relays -> Link] /\ inbox' \in [Relays -> SUBSET Changes]
    BY <1>1, <1>6 DEF Disconnect, Link
  <2> QED BY <1>6, <2>1 DEF Disconnect, TypeOK
<1>7. CASE Reconnect(r)
  <2>1. links' \in [Relays -> Link]
    BY <1>1, <1>7 DEF Reconnect, Link, Jobs
  <2>2. \A x \in Relays : PagesIn(l1'[x])
    BY <1>3, <1>7, NoPages DEF Reconnect
  <2>3. readers' \in [Readers -> Reader]
    BY <1>7, OvertakenType DEF Reconnect
  <2> QED BY <1>7, <2>1, <2>2, <2>3 DEF Reconnect, TypeOK
<1>8. CASE FlushScan(r)
  <2>1. DOMAIN l2 \in SUBSET Keys
    BY DEF TypeOK, PagesIn
  <2>2. links' \in [Relays -> Link]
    BY <1>2, <1>8, <2>1 DEF FlushScan
  <2> QED BY <1>8, <2>2 DEF FlushScan, TypeOK
<1>9. CASE FlushDelete(r)
  <2>1. links' \in [Relays -> Link]
    BY <1>2, <1>9 DEF FlushDelete
  <2>2. PagesIn(l2')
    BY <1>1, <1>9, DropPages DEF FlushDelete
  <2> QED BY <1>9, <2>1, <2>2 DEF FlushDelete, TypeOK
<1>10. CASE FlushGens(r)
  <2>1. links' \in [Relays -> Link]
    BY <1>2, <1>10 DEF FlushGens
  <2> QED BY <1>10, <2>1 DEF FlushGens, TypeOK
<1>11. CASE FlushFails(r)
  <2>1. links' \in [Relays -> Link]
    BY <1>1, <1>11 DEF FlushFails, Link
  <2> QED BY <1>11, <2>1 DEF FlushFails, TypeOK
<1> QED
  BY <1>4, <1>5, <1>6, <1>7, <1>8, <1>9, <1>10, <1>11 DEF Listen

LEMMA NextType ==
  ASSUME CacheAssumption, TypeOK, [Next]_vars
  PROVE  TypeOK'
<1>1. CASE UNCHANGED vars
  BY <1>1 DEF vars, TypeOK
<1> QED
  BY <1>1, ReadType, MakeType, ListenType DEF Next

-----------------------------------------------------------------------------
\* What a step can do to caches and requests

SubCache(new, old) == DOMAIN new \subseteq DOMAIN old /\ \A k \in DOMAIN new : new[k] = old[k]

\* y is x, perhaps with marks added.
Aged(x, y) ==
  /\ y.phase = x.phase /\ y.relay = x.relay /\ y.first = x.first /\ y.key = x.key
  /\ y.page = x.page /\ y.caching = x.caching /\ y.owed = x.owed
  /\ x.late => y.late
  /\ x.flushed => y.flushed

\* Changes and relays drop pages and mark requests; neither puts pages anywhere.
OnlyDrops ==
  /\ \A q \in Readers : Aged(readers[q], readers'[q])
  /\ SubCache(l2', l2)
  /\ \A r \in Relays : SubCache(l1'[r], l1[r])

LEMMA OvertakenAged ==
  ASSUME TypeOK, NEW flush \in BOOLEAN, readers' = Overtaken(flush), NEW q \in Readers
  PROVE  /\ Aged(readers[q], readers'[q])
         /\ Active(readers[q]) => readers'[q].late /\ (flush => readers'[q].flushed)
BY DEF TypeOK, Overtaken, Reader, Aged

LEMMA SameAged ==
  ASSUME UNCHANGED readers, NEW q \in Readers
  PROVE  Aged(readers[q], readers'[q])
BY DEF Aged

LEMMA DropSub ==
  ASSUME NEW cache, NEW S
  PROVE  SubCache(Drop(cache, S), cache) /\ SubCache(NoEntries, cache) /\ SubCache(cache, cache)
BY DEF SubCache, Drop, Restrict, NoEntries

LEMMA MakeDrops ==
  ASSUME TypeOK, NEW c \in Changes, Make(c)
  PROVE  OnlyDrops
<1>1. CASE Apply(c)
  <2>1. (c \in Settings) \in BOOLEAN
    OBVIOUS
  <2>2. \A q \in Readers : Aged(readers[q], readers'[q])
    BY <1>1, <2>1, OvertakenAged, SameAged DEF Apply
  <2> QED BY <1>1, <2>2, DropSub DEF Apply, OnlyDrops
<1>2. CASE BeginInvalidation(c)
  BY <1>2, SameAged, DropSub DEF BeginInvalidation, OnlyDrops
<1>3. CASE Delete(c)
  BY <1>3, SameAged, DropSub DEF Delete, OnlyDrops
<1>4. ASSUME Lose(c) \/ Increment(c) \/ Scan(c) \/ ResetGens(c) \/ Publish(c) \/ \E job \in Jobs : Fail(c, job)
      PROVE  OnlyDrops
  <2>1. UNCHANGED <<readers, l1, l2>>
    BY <1>4 DEF Lose, Increment, Scan, ResetGens, Publish, Fail
  <2> QED BY <2>1, SameAged, DropSub DEF OnlyDrops
<1> QED
  BY <1>1, <1>2, <1>3, <1>4 DEF Make

LEMMA ListenDrops ==
  ASSUME TypeOK, NEW r \in Relays, Listen(r)
  PROVE  OnlyDrops
<1>1. ASSUME NEW c, Receive(r, c)
      PROVE  OnlyDrops
  BY <1>1, SameAged, DropSub DEF Receive, OnlyDrops
<1>2. CASE Evict(r)
  BY <1>2, SameAged, DropSub DEF Evict, OnlyDrops
<1>3. CASE Reconnect(r)
  <2>1. \A q \in Readers : Aged(readers[q], readers'[q])
    BY <1>3, OvertakenAged DEF Reconnect
  <2>2. UNCHANGED l2 /\ \A x \in Relays : SubCache(l1'[x], l1[x])
    BY <1>3, DropSub DEF Reconnect
  <2> QED BY <2>1, <2>2, DropSub DEF OnlyDrops
<1>4. CASE FlushDelete(r)
  BY <1>4, SameAged, DropSub DEF FlushDelete, OnlyDrops
<1>5. ASSUME Disconnect(r) \/ FlushScan(r) \/ FlushGens(r) \/ FlushFails(r)
      PROVE  OnlyDrops
  <2>1. UNCHANGED <<readers, l1, l2>>
    BY <1>5 DEF Disconnect, FlushScan, FlushGens, FlushFails
  <2> QED BY <2>1, SameAged, DropSub DEF OnlyDrops
<1> QED
  BY <1>1, <1>2, <1>3, <1>4, <1>5 DEF Listen

-----------------------------------------------------------------------------
\* What each step of a request does to it

\* What a request keeps while it goes on.
SameRequest(x, y) ==
  /\ y.relay = x.relay /\ y.first = x.first /\ y.owed = x.owed /\ y.late = x.late

LEMMA LoadEffect ==
  ASSUME TypeOK, NEW q \in Readers, Load(q)
  PROVE  /\ readers'[q].phase = "loaded" /\ readers'[q].relay = readers[q].relay
         /\ readers'[q].first = applied /\ readers'[q].owed = {c \in Changes : Over(c)}
         /\ readers'[q].late = Dropping(readers[q].relay) /\ readers'[q].flushed = Flushing
BY DEF Load, TypeOK, IdleReader, Reader

LEMMA GetGenEffect ==
  ASSUME TypeOK, NEW q \in Readers, GetGen(q)
  PROVE  /\ readers[q].phase = "loaded" /\ SameRequest(readers[q], readers'[q])
         /\ \E g \in {gen, 0} :
              /\ readers'[q].flushed
                   = (readers[q].flushed \/ g # gen \/ readers[q].relay \in outdated)
              /\ LET key == Key(readers[q].first, g)
                     cache == l1[readers[q].relay]
                 IN  \/ key \in DOMAIN cache /\ readers'[q].phase = "done"
                        /\ readers'[q].page = cache[key]
                     \/ readers'[q].phase = "missed" /\ readers'[q].key = key
<1>1. readers \in [Readers -> Reader] /\ readers[q] \in Reader
  BY DEF TypeOK
<1>2. PICK g \in {gen, 0} :
        readers' = [readers EXCEPT ![q] =
          IF Key(readers[q].first, g) \in DOMAIN l1[readers[q].relay]
          THEN [readers[q] EXCEPT !.phase = "done",
                         !.flushed = readers[q].flushed \/ g # gen \/ readers[q].relay \in outdated,
                         !.page = l1[readers[q].relay][Key(readers[q].first, g)]]
          ELSE [readers[q] EXCEPT !.phase = "missed", !.key = Key(readers[q].first, g),
                         !.flushed = readers[q].flushed \/ g # gen \/ readers[q].relay \in outdated]]
  BY <1>1 DEF GetGen
<1> DEFINE k == Key(readers[q].first, g)
           f == readers[q].flushed \/ g # gen \/ readers[q].relay \in outdated
           p == l1[readers[q].relay][k]
<1>3. \/ /\ k \in DOMAIN l1[readers[q].relay]
         /\ readers'[q] = [readers[q] EXCEPT !.phase = "done", !.flushed = f, !.page = p]
      \/ readers'[q] = [readers[q] EXCEPT !.phase = "missed", !.key = k, !.flushed = f]
  BY <1>1, <1>2
<1> HIDE DEF k, f, p
<1>4. /\ SameRequest(readers[q], readers'[q]) /\ readers'[q].flushed = f
      /\ \/ /\ k \in DOMAIN l1[readers[q].relay]
            /\ readers'[q].phase = "done" /\ readers'[q].page = p
         \/ readers'[q].phase = "missed" /\ readers'[q].key = k
  <2>1. CASE readers'[q] = [readers[q] EXCEPT !.phase = "missed", !.key = k, !.flushed = f]
    BY <1>1, <2>1 DEF Reader, SameRequest
  <2>2. CASE /\ k \in DOMAIN l1[readers[q].relay]
             /\ readers'[q] = [readers[q] EXCEPT !.phase = "done", !.flushed = f, !.page = p]
    BY <1>1, <2>2 DEF Reader, SameRequest
  <2> QED BY <1>3, <2>1, <2>2
<1> QED
  BY <1>4 DEF GetGen, k, f, p

LEMMA LookEffect ==
  ASSUME TypeOK, NEW q \in Readers, LookIntoL2(q)
  PROVE  /\ readers[q].phase = "missed" /\ SameRequest(readers[q], readers'[q])
         /\ readers'[q].key = readers[q].key /\ readers'[q].flushed = readers[q].flushed
         /\ \/ /\ readers'[q].phase = "found" /\ readers[q].key \in DOMAIN l2
               /\ readers'[q].page = l2[readers[q].key]
            \/ readers'[q].phase = "building"
<1>1. readers \in [Readers -> Reader] /\ readers[q] \in Reader
  BY DEF TypeOK
<1>2. \/ /\ readers[q].key \in DOMAIN l2
         /\ readers'[q] = [readers[q] EXCEPT !.phase = "found", !.page = l2[readers[q].key]]
      \/ readers'[q] = [readers[q] EXCEPT !.phase = "building"]
      \/ readers'[q] = [readers[q] EXCEPT !.phase = "building", !.caching = FALSE]
  BY <1>1 DEF LookIntoL2, Goes
<1>3. CASE /\ readers[q].key \in DOMAIN l2
           /\ readers'[q] = [readers[q] EXCEPT !.phase = "found", !.page = l2[readers[q].key]]
  BY <1>1, <1>3 DEF Reader, SameRequest, LookIntoL2
<1>4. CASE readers'[q] = [readers[q] EXCEPT !.phase = "building"]
  BY <1>1, <1>4 DEF Reader, SameRequest, LookIntoL2
<1>5. CASE readers'[q] = [readers[q] EXCEPT !.phase = "building", !.caching = FALSE]
  BY <1>1, <1>5 DEF Reader, SameRequest, LookIntoL2
<1> QED
  BY <1>2, <1>3, <1>4, <1>5

LEMMA CopyEffect ==
  ASSUME TypeOK, NEW q \in Readers, CopyToL1(q)
  PROVE  /\ readers[q].phase = "found" /\ SameRequest(readers[q], readers'[q])
         /\ readers'[q].phase = "done" /\ readers'[q].page = Marked(readers[q].page, q)
         /\ readers'[q].flushed = readers[q].flushed
BY DEF CopyToL1, Answers, TypeOK, Reader, SameRequest

LEMMA BuildEffect ==
  ASSUME TypeOK, NEW q \in Readers, Build(q)
  PROVE  /\ readers[q].phase = "building" /\ SameRequest(readers[q], readers'[q])
         /\ readers'[q].flushed = readers[q].flushed
         /\ readers'[q].page = [NoPage EXCEPT !.shows = Shown(q)]
         /\ \/ readers'[q].phase = "built" /\ readers'[q].key = readers[q].key
            \/ readers'[q].phase = "done"
<1>1. readers \in [Readers -> Reader] /\ readers[q] \in Reader
  BY DEF TypeOK
<1> DEFINE page == [NoPage EXCEPT !.shows = Shown(q)]
<1> HIDE DEF page
<1>2. \/ readers'[q] = [readers[q] EXCEPT !.phase = "built", !.page = page]
      \/ readers'[q] = [readers[q] EXCEPT !.phase = "done", !.page = page, !.key = <<0, 0>>]
  BY <1>1 DEF Build, Answers, page
<1>3. CASE readers'[q] = [readers[q] EXCEPT !.phase = "built", !.page = page]
  BY <1>1, <1>3 DEF Reader, SameRequest, Build, page
<1>4. CASE readers'[q] = [readers[q] EXCEPT !.phase = "done", !.page = page, !.key = <<0, 0>>]
  BY <1>1, <1>4 DEF Reader, SameRequest, Build, page
<1> QED
  BY <1>2, <1>3, <1>4

LEMMA StoreL1Effect ==
  ASSUME TypeOK, NEW q \in Readers, StoreInL1(q)
  PROVE  /\ readers[q].phase = "built" /\ SameRequest(readers[q], readers'[q])
         /\ readers'[q].phase = "storing" /\ readers'[q].key = readers[q].key
         /\ readers'[q].page = readers[q].page /\ readers'[q].flushed = readers[q].flushed
BY DEF StoreInL1, Goes, TypeOK, Reader, SameRequest

LEMMA StoreL2Effect ==
  ASSUME TypeOK, NEW q \in Readers, StoreInL2(q)
  PROVE  /\ readers[q].phase = "storing" /\ SameRequest(readers[q], readers'[q])
         /\ readers'[q].phase = "done" /\ readers'[q].page = Marked(readers[q].page, q)
         /\ readers'[q].flushed = readers[q].flushed
BY DEF StoreInL2, Answers, TypeOK, Reader, SameRequest

LEMMA AbandonEffect ==
  ASSUME TypeOK, NEW q \in Readers, Abandon(q)
  PROVE  /\ readers'[q].phase = "idle" /\ readers'[q].relay = readers[q].relay
         /\ readers'[q].first = {} /\ readers'[q].owed = {}
BY DEF Abandon, TypeOK, IdleReader, Reader

-----------------------------------------------------------------------------
\* How far changes are

\* A change is on the chain once it has been applied, and its jobs are those of
\* its kind: all of them until its invalidation begins.
JobsInOrder ==
  \A c \in Changes :
    /\ (changes[c].phase = "new") <=> (c \notin applied)
    /\ changes[c].jobs \subseteq JobsOf(c)
    /\ changes[c].phase = "applied" => changes[c].jobs = JobsOf(c) /\ JobsOf(c) # {}
    /\ changes[c].phase \in {"new", "lost"} => changes[c].jobs = {}

LEMMA InitJobs ==
  ASSUME Init
  PROVE  JobsInOrder
BY DEF Init, JobsInOrder

LEMMA MakeJobs ==
  ASSUME TypeOK, JobsInOrder, NEW c \in Changes, Make(c)
  PROVE  JobsInOrder'
<1>1. changes \in [Changes -> Change] /\ changes[c] \in Change
  BY DEF TypeOK
<1>2. \A d \in Changes \ {c} : changes'[d] = changes[d] /\ (d \in applied' <=> d \in applied)
  <2>1. CASE Apply(c)
    BY <1>1, <2>1 DEF Apply
  <2>2. CASE Lose(c) \/ BeginInvalidation(c)
    BY <1>1, <2>2 DEF Lose, BeginInvalidation
  <2>3. CASE Increment(c) \/ Scan(c) \/ Delete(c) \/ ResetGens(c) \/ Publish(c)
    BY <1>1, <2>3 DEF Increment, Scan, Delete, ResetGens, Publish, Done
  <2>4. ASSUME NEW job, Fail(c, job)
        PROVE  \A d \in Changes \ {c} : changes'[d] = changes[d] /\ (d \in applied' <=> d \in applied)
    BY <1>1, <2>4 DEF Fail
  <2> QED BY <2>1, <2>2, <2>3, <2>4 DEF Make
<1>3. JobsOf(c)' = JobsOf(c) /\ \A d \in Changes : JobsOf(d)' = JobsOf(d)
  BY DEF JobsOf
<1>4. CASE Apply(c)
  <2>1. c \in applied'
    BY <1>4 DEF Apply
  <2>2. /\ changes'[c].jobs = JobsOf(c)
        /\ changes'[c].phase = IF JobsOf(c) = {} THEN "running" ELSE "applied"
    BY <1>1, <1>4 DEF Apply, Change
  <2> QED BY <1>2, <1>3, <2>1, <2>2 DEF JobsInOrder
<1>5. CASE Lose(c)
  <2>1. changes'[c].jobs = {} /\ changes'[c].phase = "lost" /\ applied' = applied
    BY <1>1, <1>5 DEF Lose, Change
  <2>2. changes[c].phase # "new"
    BY <1>5 DEF Lose, Running, JobsInOrder
  <2> QED BY <1>2, <1>3, <2>1, <2>2 DEF JobsInOrder
<1>6. CASE BeginInvalidation(c)
  <2>1. /\ changes'[c].jobs = changes[c].jobs /\ changes'[c].phase = "running"
        /\ applied' = applied /\ changes[c].phase = "applied"
    BY <1>1, <1>6 DEF BeginInvalidation, Change
  <2> QED BY <1>2, <1>3, <2>1 DEF JobsInOrder
<1>7. ASSUME NEW S, changes[c].phase = "running", changes'[c].phase = "running",
             changes'[c].jobs = changes[c].jobs \ S, applied' = applied
      PROVE  JobsInOrder'
  BY <1>2, <1>3, <1>7 DEF JobsInOrder
<1>8. ASSUME NEW job, NEW keys, Ready(c, job), Done(c, job, keys), applied' = applied
      PROVE  JobsInOrder'
  <2>1. changes'[c].phase = changes[c].phase /\ changes'[c].jobs = changes[c].jobs \ {job}
    BY <1>1, <1>8 DEF Done, Change
  <2> QED BY <1>7, <1>8, <2>1 DEF Ready
<1>9. CASE Increment(c) \/ Scan(c) \/ Delete(c) \/ ResetGens(c) \/ Publish(c)
  BY <1>8, <1>9 DEF Increment, Scan, Delete, ResetGens, Publish
<1>10. ASSUME NEW job, Fail(c, job)
       PROVE  JobsInOrder'
  <2>1. changes'[c].phase = changes[c].phase /\ changes'[c].jobs = changes[c].jobs \ Skipped(job)
    BY <1>1, <1>10 DEF Fail, Change
  <2> QED BY <1>7, <1>10, <2>1 DEF Ready, Fail
<1> QED
  BY <1>4, <1>5, <1>6, <1>9, <1>10 DEF Make

LEMMA NextJobs ==
  ASSUME TypeOK, JobsInOrder, [Next]_vars
  PROVE  JobsInOrder'
<1>1. ASSUME UNCHANGED <<changes, applied>>
      PROVE  JobsInOrder'
  BY <1>1 DEF JobsInOrder, JobsOf
<1>2. CASE UNCHANGED vars
  BY <1>1, <1>2 DEF vars
<1>3. ASSUME NEW q \in Readers, Read(q)
      PROVE  JobsInOrder'
  BY <1>1, <1>3 DEF Read, Load, GetGen, LookIntoL2, CopyToL1, Build, StoreInL1, StoreInL2, Abandon
<1>4. ASSUME NEW r \in Relays, Listen(r)
      PROVE  JobsInOrder'
  BY <1>1, <1>4 DEF Listen, Receive, Evict, Disconnect, Reconnect, FlushScan, FlushDelete, FlushGens, FlushFails
<1> QED
  BY <1>2, <1>3, <1>4, MakeJobs DEF Next

-----------------------------------------------------------------------------
\* Posts.  A thread only grows, so that how many posts it had says which: H[n]
\* are the first n.  A page under the key <<n, g>> shows these.

NPosts == Cardinality(applied \cap Posts)
Holding(x) == x.phase \in {"missed", "found", "building", "built", "storing"}
HasPage(x) == x.phase \in {"found", "built", "storing"}

PagePosts(H, k, page) == k[1] <= NPosts /\ page.shows \cap Posts = H[k[1]]

ReaderPosts(H, x) ==
  /\ x.first \subseteq applied
  /\ x.first \cap Posts = H[Cardinality(x.first \cap Posts)]
  /\ Holding(x) => x.key[1] = Cardinality(x.first \cap Posts)
  /\ HasPage(x) \/ x.phase = "done" => x.page.shows \cap Posts = x.first \cap Posts

PostsHistory(H) ==
  /\ H \in [Nat -> SUBSET Posts] /\ H[0] = {}
  /\ H[NPosts] = applied \cap Posts
  /\ \A k \in DOMAIN l2 : PagePosts(H, k, l2[k])
  /\ \A r \in Relays : \A k \in DOMAIN l1[r] : PagePosts(H, k, l1[r][k])
  /\ \A q \in Readers : ReaderPosts(H, readers[q])

LEMMA InitPosts ==
  ASSUME CacheAssumption, Init
  PROVE  \E H : PostsHistory(H)
<1> DEFINE H == [n \in Nat |-> {}]
<1>1. applied = {} /\ NPosts = 0
  BY FS_EmptySet DEF Init, NPosts
<1>2. \A q \in Readers : readers[q].first = {} /\ readers[q].phase = "idle"
  BY DEF Init, IdleReader
<1>3. \A q \in Readers : ReaderPosts(H, readers[q])
  <2>1. Cardinality({} \cap Posts) = 0
    BY FS_EmptySet
  <2> QED BY <1>1, <1>2, <2>1 DEF ReaderPosts, Holding, HasPage
<1>4. DOMAIN l2 = {} /\ \A r \in Relays : DOMAIN l1[r] = {}
  BY DEF Init, NoEntries
<1>5. H \in [Nat -> SUBSET Posts] /\ H[0] = {}
  OBVIOUS
<1> HIDE DEF H
<1> QED
  BY <1>1, <1>3, <1>4, <1>5 DEF PostsHistory

\* Counts and posts that a request has seen.
LEMMA FirstPosts ==
  ASSUME CacheAssumption, TypeOK, NEW S, S \subseteq applied
  PROVE  /\ NPosts \in Nat /\ Cardinality(S \cap Posts) \in Nat
         /\ Cardinality(S \cap Posts) <= NPosts
<1>1. applied \subseteq Changes /\ S \subseteq Changes
  BY DEF TypeOK
<1>2. IsFiniteSet(applied \cap Posts) /\ NPosts \in Nat
  BY <1>1, CountType DEF NPosts
<1>3. S \cap Posts \in SUBSET (applied \cap Posts)
  OBVIOUS
<1> QED
  BY <1>1, <1>2, <1>3, CountType, FS_Subset DEF NPosts

\* A step of a request, which changes nothing but the request and, at its own
\* key, the cache of its relay or L2.
LEMMA ReaderStepPosts ==
  ASSUME CacheAssumption, TypeOK, NEW q \in Readers, NEW H, PostsHistory(H),
         UNCHANGED applied,
         \A p \in Readers \ {q} : readers'[p] = readers[p],
         ReaderPosts(H, readers'[q]),
         \A k \in DOMAIN l2' : PagePosts(H, k, l2'[k]),
         \A r \in Relays : \A k \in DOMAIN l1'[r] : PagePosts(H, k, l1'[r][k])
  PROVE  PostsHistory(H)'
<1>1. NPosts' = NPosts
  BY DEF NPosts
<1>2. \A k, page : PagePosts(H, k, page)' <=> PagePosts(H, k, page)
  BY <1>1 DEF PagePosts
<1>3. \A p \in Readers : ReaderPosts(H, readers'[p])
  BY DEF PostsHistory
<1> QED
  BY <1>1, <1>2, <1>3 DEF PostsHistory, PagePosts, ReaderPosts, Holding, HasPage

LEMMA ReadPosts ==
  ASSUME CacheAssumption, TypeOK, NEW q \in Readers, Read(q), NEW H, PostsHistory(H)
  PROVE  PostsHistory(H)'
<1> DEFINE x == readers[q]
           y == readers'[q]
<1>1. /\ readers \in [Readers -> Reader] /\ x \in Reader /\ x.key \in Keys /\ x.relay \in Relays
      /\ x.page \in Page
  BY DEF TypeOK, Reader
<1>2. /\ UNCHANGED applied
      /\ \A p \in Readers \ {q} : readers'[p] = readers[p]
  BY <1>1 DEF Read, Load, GetGen, LookIntoL2, CopyToL1, Build, StoreInL1, StoreInL2, Abandon, Goes, Answers
<1>3. /\ ReaderPosts(H, x)
      /\ H[0] = {} /\ H[NPosts] = applied \cap Posts
      /\ \A k \in DOMAIN l2 : PagePosts(H, k, l2[k])
      /\ \A r \in Relays : \A k \in DOMAIN l1[r] : PagePosts(H, k, l1[r][k])
  BY DEF PostsHistory
<1>4. Cardinality(x.first \cap Posts) \in Nat /\ Cardinality(x.first \cap Posts) <= NPosts
  BY <1>3, FirstPosts DEF ReaderPosts
<1>5. Marked(x.page, q).shows = x.page.shows
  BY <1>1 DEF Marked, Page
\* The page that a request holds fits its key.
<1>6. ASSUME HasPage(x)
      PROVE  PagePosts(H, x.key, Marked(x.page, q))
  BY <1>3, <1>4, <1>5, <1>6 DEF PagePosts, ReaderPosts, HasPage, Holding
<1>7. ASSUME HasPage(x), l1' = InL1(q, Marked(x.page, q))
      PROVE  \A r \in Relays : \A k \in DOMAIN l1'[r] : PagePosts(H, k, l1'[r][k])
  BY <1>3, <1>6, <1>7 DEF InL1, Put, TypeOK
<1>8. ASSUME ReaderPosts(H, y), UNCHANGED <<l1, l2>>
      PROVE  PostsHistory(H)'
  BY <1>2, <1>3, <1>8, ReaderStepPosts
<1>9. Cardinality({} \cap Posts) = 0
  BY FS_EmptySet
<1>10. CASE Load(q)
  <2>1. y.first = applied /\ y.phase = "loaded"
    BY <1>10, LoadEffect
  <2>2. ReaderPosts(H, y)
    BY <1>3, <2>1 DEF ReaderPosts, Holding, HasPage, NPosts
  <2> QED BY <1>8, <1>10, <2>2 DEF Load
<1>11. CASE GetGen(q)
  <2>1. PICK g \in {gen, 0} :
          \/ /\ Key(x.first, g) \in DOMAIN l1[x.relay]
             /\ y.phase = "done" /\ y.page = l1[x.relay][Key(x.first, g)]
          \/ y.phase = "missed" /\ y.key = Key(x.first, g)
    BY <1>11, GetGenEffect
  <2>2. y.first = x.first
    BY <1>11, GetGenEffect DEF SameRequest
  <2>3. Key(x.first, g)[1] = Cardinality(x.first \cap Posts)
    BY DEF Key
  <2>4. ASSUME Key(x.first, g) \in DOMAIN l1[x.relay]
        PROVE  PagePosts(H, Key(x.first, g), l1[x.relay][Key(x.first, g)])
    BY <1>1, <1>3, <2>4
  <2>5. ReaderPosts(H, y)
    BY <1>3, <2>1, <2>2, <2>3, <2>4 DEF ReaderPosts, PagePosts, Holding, HasPage
  <2> QED BY <1>8, <1>11, <2>5 DEF GetGen
<1>12. CASE LookIntoL2(q)
  <2>1. y.first = x.first /\ y.key = x.key /\ x.phase = "missed"
    BY <1>12, LookEffect DEF SameRequest, LookIntoL2
  <2>2. ASSUME y.phase = "found", x.key \in DOMAIN l2, y.page = l2[x.key]
        PROVE  ReaderPosts(H, y)
    BY <1>3, <2>1, <2>2 DEF ReaderPosts, PagePosts, Holding, HasPage
  <2>3. ASSUME y.phase = "building"
        PROVE  ReaderPosts(H, y)
    BY <1>3, <2>1, <2>3 DEF ReaderPosts, Holding, HasPage
  <2>4. ReaderPosts(H, y)
    BY <1>12, <2>2, <2>3, LookEffect
  <2> QED BY <1>8, <1>12, <2>4 DEF LookIntoL2
<1>13. CASE CopyToL1(q)
  <2>1. ReaderPosts(H, y)
    BY <1>3, <1>5, <1>13, CopyEffect DEF SameRequest, ReaderPosts, Holding, HasPage
  <2>2. \A r \in Relays : \A k \in DOMAIN l1'[r] : PagePosts(H, k, l1'[r][k])
    BY <1>7, <1>13 DEF CopyToL1, HasPage
  <2> QED BY <1>2, <1>3, <1>13, <2>1, <2>2, ReaderStepPosts DEF CopyToL1
<1>14. CASE Build(q)
  <2>1. y.page.shows = Shown(q)
    BY <1>14, BuildEffect DEF NoPage
  <2>2. Shown(q) \cap Posts = x.first \cap Posts
    BY DEF Shown, CacheAssumption
  <2>3. ReaderPosts(H, y)
    BY <1>3, <1>14, <2>1, <2>2, BuildEffect DEF SameRequest, ReaderPosts, Holding, HasPage
  <2> QED BY <1>8, <1>14, <2>3 DEF Build
<1>15. CASE StoreInL1(q)
  <2>1. ReaderPosts(H, y)
    BY <1>3, <1>15, StoreL1Effect DEF SameRequest, ReaderPosts, Holding, HasPage
  <2>2. \A r \in Relays : \A k \in DOMAIN l1'[r] : PagePosts(H, k, l1'[r][k])
    BY <1>7, <1>15 DEF StoreInL1, HasPage
  <2> QED BY <1>2, <1>3, <1>15, <2>1, <2>2, ReaderStepPosts DEF StoreInL1
<1>16. CASE StoreInL2(q)
  <2>1. ReaderPosts(H, y)
    BY <1>3, <1>5, <1>16, StoreL2Effect DEF SameRequest, ReaderPosts, Holding, HasPage
  <2>2. \A k \in DOMAIN l2' : PagePosts(H, k, l2'[k])
    BY <1>3, <1>6, <1>16 DEF StoreInL2, Put, HasPage
  <2> QED BY <1>2, <1>3, <1>16, <2>1, <2>2, ReaderStepPosts DEF StoreInL2
<1>17. CASE Abandon(q)
  <2>1. ReaderPosts(H, y)
    BY <1>3, <1>9, <1>17, AbandonEffect DEF ReaderPosts, Holding, HasPage
  <2> QED BY <1>8, <1>17, <2>1 DEF Abandon
<1> QED
  BY <1>10, <1>11, <1>12, <1>13, <1>14, <1>15, <1>16, <1>17 DEF Read

\* Dropping pages and marking requests change nothing here, as long as no post
\* is made; and of what a post changes only the next place of the history.
Continues(G, H) ==
  /\ G \in [Nat -> SUBSET Posts] /\ \A n \in Nat : n <= NPosts => G[n] = H[n]
  /\ NPosts' \in Nat /\ NPosts <= NPosts'
  /\ G[NPosts'] = applied' \cap Posts

LEMMA DropPosts ==
  ASSUME CacheAssumption, TypeOK, NEW H, PostsHistory(H), OnlyDrops,
         applied \subseteq applied', NEW G, Continues(G, H)
  PROVE  PostsHistory(G)'
<1>1. NPosts \in Nat
  BY FirstPosts
<1>2. ASSUME NEW k, k[1] \in Nat, NEW page, PagePosts(H, k, page)
      PROVE  PagePosts(G, k, page)'
  BY <1>1, <1>2 DEF PagePosts, Continues
<1>3. \A k \in Keys : k[1] \in Nat
  BY DEF Keys
<1>4. \A k \in DOMAIN l2' : PagePosts(G, k, l2[k])'
  <2>1. \A k \in DOMAIN l2' : k \in DOMAIN l2 /\ l2'[k] = l2[k] /\ k \in Keys
    BY DEF OnlyDrops, SubCache, TypeOK, PagesIn
  <2> QED BY <1>2, <1>3, <2>1 DEF PostsHistory
<1>5. \A r \in Relays : \A k \in DOMAIN l1'[r] : PagePosts(G, k, l1[r][k])'
  <2>1. \A r \in Relays : \A k \in DOMAIN l1'[r] :
          k \in DOMAIN l1[r] /\ l1'[r][k] = l1[r][k] /\ k \in Keys
    BY DEF OnlyDrops, SubCache, TypeOK, PagesIn
  <2> QED BY <1>2, <1>3, <2>1 DEF PostsHistory
<1>6. ASSUME NEW q \in Readers
      PROVE  ReaderPosts(G, readers[q])'
  <2>1. ReaderPosts(H, readers[q]) /\ Aged(readers[q], readers'[q])
    BY DEF PostsHistory, OnlyDrops
  <2>2. /\ Cardinality(readers[q].first \cap Posts) \in Nat
        /\ Cardinality(readers[q].first \cap Posts) <= NPosts
    BY <2>1, FirstPosts DEF ReaderPosts
  <2>3. G[Cardinality(readers[q].first \cap Posts)] = H[Cardinality(readers[q].first \cap Posts)]
    BY <2>2 DEF Continues
  <2> QED BY <2>1, <2>3 DEF ReaderPosts, Aged, Holding, HasPage
<1>7. G[0] = {}
  BY <1>1 DEF PostsHistory, Continues
<1> QED
  BY <1>4, <1>5, <1>6, <1>7 DEF PostsHistory, Continues

LEMMA NextPosts ==
  ASSUME CacheAssumption, TypeOK, JobsInOrder, [Next]_vars, \E H : PostsHistory(H)
  PROVE  \E H : PostsHistory(H)'
<1>1. PICK H : PostsHistory(H)
  OBVIOUS
<1>2. NPosts \in Nat /\ H \in [Nat -> SUBSET Posts] /\ H[NPosts] = applied \cap Posts
  BY <1>1, FirstPosts DEF PostsHistory
<1>3. ASSUME OnlyDrops, applied \subseteq applied', applied' \cap Posts = applied \cap Posts
      PROVE  PostsHistory(H)'
  <2>1. NPosts' = NPosts
    BY <1>3 DEF NPosts
  <2>2. Continues(H, H)
    BY <1>2, <1>3, <2>1 DEF Continues
  <2> QED BY <1>1, <1>3, <2>2, DropPosts
<1>4. CASE UNCHANGED vars
  <2>1. OnlyDrops /\ UNCHANGED applied
    BY <1>4, SameAged, DropSub DEF vars, OnlyDrops
  <2> QED BY <1>3, <2>1
<1>5. ASSUME NEW q \in Readers, Read(q)
      PROVE  PostsHistory(H)'
  BY <1>1, <1>5, ReadPosts
<1>6. ASSUME NEW r \in Relays, Listen(r)
      PROVE  PostsHistory(H)'
  <2>1. UNCHANGED applied
    BY <1>6 DEF Listen, Receive, Evict, Disconnect, Reconnect, FlushScan, FlushDelete, FlushGens, FlushFails
  <2> QED BY <1>3, <1>6, <2>1, ListenDrops
<1>7. ASSUME NEW c \in Changes, Make(c), ~Apply(c)
      PROVE  PostsHistory(H)'
  <2>1. UNCHANGED applied
    BY <1>7 DEF Make, Lose, BeginInvalidation, Increment, Scan, Delete, ResetGens, Publish, Fail
  <2> QED BY <1>3, <1>7, <2>1, MakeDrops
<1>8. ASSUME NEW c \in Changes, Apply(c)
      PROVE  \E G : PostsHistory(G)'
  <2>1. applied' = applied \cup {c} /\ OnlyDrops
    BY <1>8, MakeDrops DEF Apply, Make
  <2>2. CASE c \notin Posts
    <3>1. applied' \cap Posts = applied \cap Posts
      BY <2>1, <2>2
    <3> QED BY <1>3, <2>1, <3>1
  <2>3. CASE c \in Posts
    <3>1. c \notin applied
      BY <1>8 DEF Apply, JobsInOrder
    <3>2. IsFiniteSet(applied \cap Posts)
      BY CountType DEF TypeOK
    <3>3. applied' \cap Posts = (applied \cap Posts) \cup {c}
      BY <2>1, <2>3
    <3>4. NPosts' = NPosts + 1
      BY <3>1, <3>2, <3>3, FS_AddElement DEF NPosts
    <3>5. PICK G : G = [H EXCEPT ![NPosts + 1] = applied' \cap Posts]
      OBVIOUS
    <3>6. Continues(G, H)
      BY <1>2, <3>4, <3>5 DEF Continues
    <3>7. PostsHistory(G)'
      BY <1>1, <2>1, <3>6, DropPosts
    <3> QED BY <3>7
  <2> QED BY <2>2, <2>3
<1> QED
  BY <1>4, <1>5, <1>6, <1>7, <1>8 DEF Next, Make

-----------------------------------------------------------------------------
\* What a request does to the caches: it puts its page under its key.

Stored(q, new, old) ==
  \A k \in DOMAIN new :
    \/ k \in DOMAIN old /\ new[k] = old[k]
    \/ /\ HasPage(readers[q]) /\ k = readers[q].key
       /\ new[k] = Marked(readers[q].page, q)

LEMMA ReadCaches ==
  ASSUME TypeOK, NEW q \in Readers, Read(q)
  PROVE  /\ UNCHANGED <<applied, changes, gen, inbox, links, outdated>>
         /\ \A p \in Readers \ {q} : readers'[p] = readers[p]
         /\ Stored(q, l2', l2)
         /\ \A r \in Relays : Stored(q, l1'[r], l1[r])
         /\ \A r \in Relays \ {readers[q].relay} : l1'[r] = l1[r]
<1>1. readers \in [Readers -> Reader]
  BY DEF TypeOK
<1>2. /\ UNCHANGED <<applied, changes, gen, inbox, links, outdated>>
      /\ \A p \in Readers \ {q} : readers'[p] = readers[p]
  BY <1>1 DEF Read, Load, GetGen, LookIntoL2, CopyToL1, Build, StoreInL1, StoreInL2, Abandon, Goes, Answers
<1>3. l2' = l2 \/ (HasPage(readers[q]) /\ l2' = Put(l2, readers[q].key, Marked(readers[q].page, q)))
  BY DEF Read, Load, GetGen, LookIntoL2, CopyToL1, Build, StoreInL1, StoreInL2, Abandon, HasPage
<1>4. l1' = l1 \/ (HasPage(readers[q]) /\ l1' = InL1(q, Marked(readers[q].page, q)))
  BY DEF Read, Load, GetGen, LookIntoL2, CopyToL1, Build, StoreInL1, StoreInL2, Abandon, HasPage
<1>5. Stored(q, l2', l2)
  BY <1>3 DEF Stored, Put
<1>6. /\ \A r \in Relays : Stored(q, l1'[r], l1[r])
      /\ \A r \in Relays \ {readers[q].relay} : l1'[r] = l1[r]
  <2>1. CASE l1' = l1
    BY <2>1 DEF Stored
  <2>2. CASE HasPage(readers[q]) /\ l1' = InL1(q, Marked(readers[q].page, q))
    BY <2>2 DEF Stored, InL1, Put
  <2> QED BY <1>4, <2>1, <2>2
<1> QED
  BY <1>2, <1>5, <1>6

\* A request begins, ends without an answer, or goes on with the marks it has.
LEMMA ReadMarks ==
  ASSUME TypeOK, NEW q \in Readers, Read(q)
  PROVE  \/ Load(q)
         \/ readers'[q].phase = "idle"
         \/ /\ Active(readers[q]) /\ SameRequest(readers[q], readers'[q])
            /\ readers[q].flushed => readers'[q].flushed
<1>1. CASE Load(q)
  BY <1>1
<1>2. CASE GetGen(q)
  BY <1>2, GetGenEffect DEF Active
<1>3. CASE LookIntoL2(q)
  BY <1>3, LookEffect DEF Active
<1>4. CASE CopyToL1(q)
  BY <1>4, CopyEffect DEF Active
<1>5. CASE Build(q)
  BY <1>5, BuildEffect DEF Active
<1>6. CASE StoreInL1(q) \/ StoreInL2(q)
  BY <1>6, StoreL1Effect, StoreL2Effect DEF Active
<1>7. CASE Abandon(q)
  BY <1>7, AbandonEffect
<1> QED
  BY <1>1, <1>2, <1>3, <1>4, <1>5, <1>6, <1>7 DEF Read

-----------------------------------------------------------------------------
\* Flushes.  While one is under way every request knows, and what requests put
\* into a cache is marked.  So when the generations are reset, the pages that are
\* not marked are gone: from L2 and from L1 of the relay that does it.

Flushed(cache) == \A k \in DOMAIN cache : cache[k].flushed

Sweeping(cache, flush) ==
  "gens" \in flush.jobs =>
    /\ "scan" \in flush.jobs => "del" \in flush.jobs
    /\ "scan" \notin flush.jobs =>
         \A k \in DOMAIN cache : cache[k].flushed \/ ("del" \in flush.jobs /\ k \in flush.keys)

OwnEmptied(c) ==
  changes[c].phase = "running" /\ Running(c) => \A r \in changes[c].relay : Flushed(l1[r])

FlushesInOrder ==
  /\ Flushing => \A q \in Readers : Active(readers[q]) => readers[q].flushed
  /\ \A c \in Settings : OwnEmptied(c) /\ Sweeping(l2, changes[c])
  /\ \A r \in Relays :
       /\ links[r].jobs # {} => Flushed(l1[r])
       /\ Sweeping(l2, links[r])

LEMMA InitFlushes ==
  ASSUME Init
  PROVE  FlushesInOrder
<1>1. /\ \A c \in Settings : changes[c].jobs = {} /\ changes[c].phase = "new"
      /\ \A r \in Relays : links[r].jobs = {}
  BY DEF Init, Changes
<1> QED
  BY <1>1 DEF FlushesInOrder, OwnEmptied, Running, Flushing, Sweeping

LEMMA SubFlushed ==
  ASSUME NEW new, NEW old, SubCache(new, old)
  PROVE  /\ Flushed(old) => Flushed(new)
         /\ \A flush : Sweeping(old, flush) => Sweeping(new, flush)
BY DEF SubCache, Flushed, Sweeping

LEMMA ReadFlushes ==
  ASSUME TypeOK, FlushesInOrder, NEW q \in Readers, Read(q)
  PROVE  FlushesInOrder'
<1>1. readers[q] \in Reader /\ readers[q].page \in Page
  BY DEF TypeOK, Reader
<1>2. Flushing' = Flushing /\ \A c \in Changes : Running(c)' = Running(c)
  BY ReadCaches DEF Flushing, Running
\* What is stored while a flush is under way is marked.
<1>3. ASSUME Flushing, HasPage(readers[q])
      PROVE  Marked(readers[q].page, q).flushed
  BY <1>1, <1>3 DEF FlushesInOrder, HasPage, Active, Marked, Page
<1>4. ASSUME Flushing, NEW new, NEW old, Stored(q, new, old)
      PROVE  /\ Flushed(old) => Flushed(new)
             /\ \A flush : Sweeping(old, flush) => Sweeping(new, flush)
  BY <1>3, <1>4 DEF Stored, Flushed, Sweeping
<1>5. Flushing' => \A p \in Readers : Active(readers'[p]) => readers'[p].flushed
  <2>1. ASSUME Flushing, Active(readers'[q])
        PROVE  readers'[q].flushed
    BY <2>1, ReadMarks, LoadEffect DEF FlushesInOrder, Active
  <2> QED BY <1>2, <2>1, ReadCaches DEF FlushesInOrder
<1>6. ASSUME NEW c \in Settings
      PROVE  OwnEmptied(c)' /\ Sweeping(l2', changes'[c])
  <2>1. c \in Changes /\ changes[c] \in Change
    BY DEF Changes, TypeOK
  <2>2. changes'[c] = changes[c]
    BY ReadCaches
  <2>3. CASE Running(c)
    <3>1. Flushing
      BY <2>3 DEF Flushing
    <3>2. changes[c].relay \subseteq Relays
      BY <2>1 DEF Change
    <3> QED BY <1>2, <1>4, <2>1, <2>2, <3>1, <3>2, ReadCaches DEF FlushesInOrder, OwnEmptied
  <2>4. CASE ~Running(c)
    BY <1>2, <2>1, <2>2, <2>4 DEF OwnEmptied, Sweeping, Running
  <2> QED BY <2>3, <2>4
<1>7. ASSUME NEW r \in Relays
      PROVE  (links'[r].jobs # {} => Flushed(l1'[r])) /\ Sweeping(l2', links'[r])
  <2>1. links'[r] = links[r]
    BY ReadCaches
  <2>2. CASE links[r].jobs # {}
    BY <1>4, <2>1, <2>2, ReadCaches DEF FlushesInOrder, Flushing
  <2>3. CASE links[r].jobs = {}
    BY <2>1, <2>3 DEF Sweeping
  <2> QED BY <2>2, <2>3
<1> QED
  BY <1>5, <1>6, <1>7 DEF FlushesInOrder

\* A step of a change leaves the other changes alone.
LEMMA OtherChanges ==
  ASSUME TypeOK, NEW c \in Changes, Make(c)
  PROVE  /\ UNCHANGED links
         /\ \A d \in Changes \ {c} : changes'[d] = changes[d]
<1>1. changes \in [Changes -> Change]
  BY DEF TypeOK
<1>2. CASE Apply(c)
  BY <1>1, <1>2 DEF Apply
<1>3. CASE Lose(c) \/ BeginInvalidation(c)
  BY <1>1, <1>3 DEF Lose, BeginInvalidation
<1>4. CASE Increment(c) \/ Scan(c) \/ Delete(c) \/ ResetGens(c) \/ Publish(c)
  BY <1>1, <1>4 DEF Increment, Scan, Delete, ResetGens, Publish, Done
<1>5. ASSUME NEW job, Fail(c, job)
      PROVE  UNCHANGED links /\ \A d \in Changes \ {c} : changes'[d] = changes[d]
  BY <1>1, <1>5 DEF Fail
<1> QED
  BY <1>2, <1>3, <1>4, <1>5 DEF Make

\* A step that begins no flush.
LEMMA GoOnFlushes ==
  ASSUME TypeOK, FlushesInOrder, OnlyDrops, NEW S, NEW T,
         \A c \in Settings \ S : changes'[c] = changes[c],
         \A r \in Relays \ T : links'[r] = links[r],
         Flushing' => Flushing,
         \A c \in Settings \cap S : OwnEmptied(c)' /\ Sweeping(l2', changes'[c]),
         \A r \in Relays \cap T :
           (links'[r].jobs # {} => Flushed(l1'[r])) /\ Sweeping(l2', links'[r])
  PROVE  FlushesInOrder'
<1>1. Flushing' => \A q \in Readers : Active(readers'[q]) => readers'[q].flushed
  BY DEF FlushesInOrder, OnlyDrops, Aged, Active
<1>2. ASSUME NEW c \in Settings \ S
      PROVE  OwnEmptied(c)' /\ Sweeping(l2', changes'[c])
  <2>1. changes'[c] = changes[c] /\ changes[c].relay \subseteq Relays
    BY DEF TypeOK, Changes, Change
  <2> QED BY <2>1, SubFlushed DEF FlushesInOrder, OnlyDrops, OwnEmptied, Running
<1>3. ASSUME NEW r \in Relays \ T
      PROVE  (links'[r].jobs # {} => Flushed(l1'[r])) /\ Sweeping(l2', links'[r])
  BY SubFlushed DEF FlushesInOrder, OnlyDrops
<1> QED
  BY <1>1, <1>2, <1>3 DEF FlushesInOrder

\* The jobs that an invalidation still has, after one that was done or failed.
LEMMA JobDone ==
  ASSUME TypeOK, NEW c \in Changes, NEW job, NEW keys, Done(c, job, keys)
  PROVE  /\ changes'[c].jobs = changes[c].jobs \ {job} /\ changes'[c].keys = keys
         /\ changes'[c].phase = changes[c].phase /\ changes'[c].failed = changes[c].failed
         /\ changes'[c].relay = changes[c].relay
BY DEF Done, TypeOK, Change

LEMMA JobFailed ==
  ASSUME TypeOK, NEW c \in Changes, NEW job, Fail(c, job)
  PROVE  /\ changes'[c].jobs = changes[c].jobs \ Skipped(job) /\ changes'[c].failed = TRUE
         /\ changes'[c].phase = changes[c].phase /\ changes'[c].keys = changes[c].keys
         /\ changes'[c].relay = changes[c].relay
BY DEF Fail, TypeOK, Change

LEMMA MakeFlushes ==
  ASSUME CacheAssumption, TypeOK, JobsInOrder, FlushesInOrder, NEW c \in Changes, Make(c)
  PROVE  FlushesInOrder'
<1>1. /\ changes \in [Changes -> Change] /\ changes[c] \in Change
      /\ OnlyDrops /\ UNCHANGED links
      /\ \A d \in Changes \ {c} : changes'[d] = changes[d]
  BY MakeDrops, OtherChanges DEF TypeOK
<1>2. Settings \subseteq Changes
  BY DEF Changes
\* It is enough to look at c, if it is a setting.
<1>3. ASSUME c \in Settings => (OwnEmptied(c)' /\ Sweeping(l2', changes'[c])),
             c \in Settings /\ Running(c)' => Flushing
      PROVE  FlushesInOrder'
  <2>1. Flushing' => Flushing
    BY <1>1, <1>2, <1>3 DEF Flushing, Running
  <2>2. \A d \in Settings \ {c} : changes'[d] = changes[d]
    BY <1>1, <1>2
  <2>3. \A r \in Relays \ {} : links'[r] = links[r]
    BY <1>1
  <2>4. \A d \in Settings \cap {c} : OwnEmptied(d)' /\ Sweeping(l2', changes'[d])
    BY <1>3
  <2>5. \A r \in Relays \cap {} :
          (links'[r].jobs # {} => Flushed(l1'[r])) /\ Sweeping(l2', links'[r])
    OBVIOUS
  <2> QED BY <1>1, <2>1, <2>2, <2>3, <2>4, <2>5, GoOnFlushes
\* Fewer jobs, and the pages that are not marked stay within the keys.
<1>4. ASSUME changes'[c].phase = changes[c].phase, changes'[c].relay = changes[c].relay,
             changes'[c].jobs \subseteq changes[c].jobs,
             c \in Settings => Sweeping(l2', changes'[c])
      PROVE  FlushesInOrder'
  <2>1. c \in Settings /\ Running(c)' => Flushing
    BY <1>4 DEF Running, Flushing
  <2>2. changes[c].relay \subseteq Relays
    BY <1>1 DEF Change
  <2>3. c \in Settings => OwnEmptied(c)'
    BY <1>1, <1>4, <2>2, SubFlushed DEF FlushesInOrder, OwnEmptied, Running, OnlyDrops
  <2> QED BY <1>3, <1>4, <2>1, <2>3
<1>5. ASSUME c \in Settings
      PROVE  Sweeping(l2', changes[c])
  BY <1>1, <1>5, SubFlushed DEF FlushesInOrder, OnlyDrops
<1>6. CASE Apply(c)
  <2>1. /\ changes'[c].jobs = JobsOf(c)
        /\ changes'[c].phase = IF JobsOf(c) = {} THEN "running" ELSE "applied"
    BY <1>1, <1>6 DEF Apply, Change
  <2>2. CASE c \notin Settings
    BY <1>3, <2>2
  <2>3. CASE c \in Settings
    <3>1. changes'[c].phase = "applied" /\ {"scan", "del"} \subseteq changes'[c].jobs
      BY <2>1, <2>3 DEF JobsOf, CacheAssumption
    <3>2. \A q \in Readers : Active(readers'[q]) => readers'[q].flushed
      BY <1>6, <2>3, OvertakenAged DEF Apply, Aged, Active
    <3>3. OwnEmptied(c)' /\ Sweeping(l2', changes'[c])
      BY <3>1 DEF OwnEmptied, Sweeping
    <3>4. ASSUME NEW d \in Settings \ {c}
          PROVE  OwnEmptied(d)' /\ Sweeping(l2', changes'[d])
      <4>1. changes'[d] = changes[d] /\ UNCHANGED <<l1, l2>>
        BY <1>1, <1>2, <1>6 DEF Apply
      <4> QED BY <4>1 DEF FlushesInOrder, OwnEmptied, Running
    <3>5. UNCHANGED <<l1, l2, links>>
      BY <1>6 DEF Apply
    <3> QED BY <3>2, <3>3, <3>4, <3>5 DEF FlushesInOrder
  <2> QED BY <2>2, <2>3
<1>7. CASE Lose(c)
  <2>1. changes'[c].jobs = {}
    BY <1>1, <1>7 DEF Lose, Change
  <2> QED BY <1>3, <2>1 DEF OwnEmptied, Sweeping, Running
<1>8. CASE BeginInvalidation(c)
  <2>1. changes'[c].jobs = changes[c].jobs /\ changes'[c].relay = changes[c].relay
        /\ changes'[c].keys = changes[c].keys
    BY <1>1, <1>8 DEF BeginInvalidation, Change
  <2>2. c \in Settings => \A r \in changes[c].relay : l1'[r] = NoEntries
    BY <1>1, <1>8 DEF BeginInvalidation, CacheAssumption, Change
  <2>3. c \in Settings => OwnEmptied(c)'
    BY <2>1, <2>2 DEF OwnEmptied, Flushed, NoEntries
  <2>4. c \in Settings => Sweeping(l2', changes'[c])
    BY <1>5, <2>1 DEF Sweeping
  <2>5. c \in Settings /\ Running(c)' => Flushing
    BY <2>1 DEF Running, Flushing
  <2> QED BY <1>3, <2>3, <2>4, <2>5
<1>9. CASE Increment(c)
  <2>1. c \notin Settings
    BY <1>9 DEF Increment, Ready, JobsInOrder, JobsOf, CacheAssumption
  <2> QED BY <1>3, <2>1
<1>10. CASE Scan(c)
  <2>1. c \in Settings => Sweeping(l2', changes'[c])
    <3>1. /\ changes'[c].jobs = changes[c].jobs \ {"scan"}
          /\ changes'[c].keys = DOMAIN l2 /\ l2' = l2
      BY <1>10, JobDone DEF Scan
    <3> QED BY <1>10, <3>1 DEF FlushesInOrder, Sweeping, Scan, Ready
  <2> QED BY <1>4, <1>10, <2>1, JobDone DEF Scan
<1>11. CASE Delete(c)
  <2>1. /\ changes'[c].jobs = changes[c].jobs \ {"del"} /\ "scan" \notin changes[c].jobs
        /\ l2' = Drop(l2, changes[c].keys)
    BY <1>11, JobDone DEF Delete, Ready
  <2>2. c \in Settings => Sweeping(l2', changes'[c])
    BY <2>1 DEF FlushesInOrder, Sweeping, Drop, Restrict
  <2> QED BY <1>4, <1>11, <2>2, JobDone DEF Delete
<1>12. CASE ResetGens(c)
  <2>1. changes'[c].jobs = changes[c].jobs \ {"gens"}
    BY <1>12, JobDone DEF ResetGens
  <2>2. Sweeping(l2', changes'[c])
    BY <2>1 DEF Sweeping
  <2> QED BY <1>4, <1>12, <2>1, <2>2, JobDone DEF ResetGens
<1>13. CASE Publish(c)
  <2>1. changes'[c].jobs = changes[c].jobs \ {"publish"} /\ changes'[c].keys = changes[c].keys
    BY <1>13, JobDone DEF Publish
  <2>2. c \in Settings => Sweeping(l2', changes'[c])
    BY <1>5, <2>1 DEF Sweeping
  <2> QED BY <1>4, <1>13, <2>1, <2>2, JobDone DEF Publish
<1>14. ASSUME NEW job, Fail(c, job)
       PROVE  FlushesInOrder'
  <2>1. changes'[c].jobs = changes[c].jobs \ Skipped(job) /\ changes'[c].keys = changes[c].keys
    BY <1>14, JobFailed
  <2>2. c \in Settings => Sweeping(l2', changes'[c])
    BY <1>5, <2>1 DEF Sweeping, Skipped
  <2> QED BY <1>4, <1>14, <2>1, <2>2, JobFailed
<1> QED
  BY <1>6, <1>7, <1>8, <1>9, <1>10, <1>11, <1>12, <1>13, <1>14 DEF Make

\* The same for a step of a relay.
LEMMA OtherRelays ==
  ASSUME TypeOK, NEW r \in Relays, Listen(r)
  PROVE  /\ UNCHANGED <<applied, changes>>
         /\ \A x \in Relays \ {r} : links'[x] = links[x]
<1>1. links \in [Relays -> Link]
  BY DEF TypeOK
<1> QED
  BY <1>1 DEF Listen, Receive, Evict, Disconnect, Reconnect, FlushScan, FlushDelete, FlushGens, FlushFails, FlushStep

LEMMA FlushJobDone ==
  ASSUME TypeOK, NEW r \in Relays, NEW job, NEW keys, FlushStep(r, job, keys)
  PROVE  /\ links'[r].jobs = links[r].jobs \ {job} /\ links'[r].keys = keys
         /\ job \in links[r].jobs /\ links'[r].up = links[r].up
BY DEF FlushStep, TypeOK, Link

LEMMA ListenFlushes ==
  ASSUME TypeOK, FlushesInOrder, NEW r \in Relays, Listen(r)
  PROVE  FlushesInOrder'
<1>1. /\ links \in [Relays -> Link] /\ OnlyDrops /\ UNCHANGED changes
      /\ \A x \in Relays \ {r} : links'[x] = links[x]
  BY ListenDrops, OtherRelays DEF TypeOK
<1>2. ASSUME (links'[r].jobs # {} => Flushed(l1'[r])) /\ Sweeping(l2', links'[r]),
             links'[r].jobs # {} => Flushing
      PROVE  FlushesInOrder'
  <2>1. Flushing' => Flushing
    BY <1>1, <1>2 DEF Flushing, Running
  <2>2. \A c \in Settings \ {} : changes'[c] = changes[c]
    BY <1>1
  <2>3. \A c \in Settings \cap {} : OwnEmptied(c)' /\ Sweeping(l2', changes'[c])
    OBVIOUS
  <2>4. \A x \in Relays \cap {r} :
          (links'[x].jobs # {} => Flushed(l1'[x])) /\ Sweeping(l2', links'[x])
    BY <1>2
  <2> QED BY <1>1, <2>1, <2>2, <2>3, <2>4, GoOnFlushes
<1>3. ASSUME links'[r].jobs \subseteq links[r].jobs, Sweeping(l2', links'[r])
      PROVE  FlushesInOrder'
  <2>1. links'[r].jobs # {} => Flushed(l1'[r])
    BY <1>1, <1>3, SubFlushed DEF FlushesInOrder, OnlyDrops
  <2> QED BY <1>2, <1>3, <2>1 DEF Flushing
<1>4. ASSUME UNCHANGED links
      PROVE  FlushesInOrder'
  <2>1. Sweeping(l2', links'[r])
    BY <1>1, <1>4, SubFlushed DEF FlushesInOrder, OnlyDrops
  <2> QED BY <1>3, <1>4, <2>1
<1>5. ASSUME NEW c, Receive(r, c)
      PROVE  FlushesInOrder'
  BY <1>4, <1>5 DEF Receive
<1>6. CASE Evict(r)
  BY <1>4, <1>6 DEF Evict
<1>7. CASE Disconnect(r) \/ FlushFails(r)
  <2>1. Disconnect(r) => links'[r].jobs = {}
    BY <1>1 DEF Disconnect
  <2>2. FlushFails(r) => links'[r].jobs = {}
    BY <1>1 DEF FlushFails, Link
  <2> QED BY <1>3, <1>7, <2>1, <2>2 DEF Sweeping
<1>8. CASE Reconnect(r)
  <2>1. links'[r].jobs = {"scan", "del", "gens"} /\ l1'[r] = NoEntries /\ UNCHANGED l2
    <3>1. DOMAIN l1 = Relays
      BY DEF TypeOK
    <3> QED BY <1>1, <1>8, <3>1 DEF Reconnect
  <2>2. \A q \in Readers : Active(readers'[q]) => readers'[q].flushed
    BY <1>8, OvertakenAged DEF Reconnect, Aged, Active
  <2>3. ASSUME NEW c \in Settings
        PROVE  OwnEmptied(c)' /\ Sweeping(l2', changes'[c])
    <3>1. changes[c].relay \subseteq Relays
      BY DEF TypeOK, Change, Changes
    <3> QED BY <1>1, <2>1, <3>1, SubFlushed DEF FlushesInOrder, OwnEmptied, Running, OnlyDrops
  <2>4. ASSUME NEW x \in Relays \ {r}
        PROVE  (links'[x].jobs # {} => Flushed(l1'[x])) /\ Sweeping(l2', links'[x])
    BY <1>1, <2>1, SubFlushed DEF FlushesInOrder, OnlyDrops
  <2>5. Flushed(l1'[r]) /\ Sweeping(l2', links'[r])
    BY <2>1 DEF Flushed, NoEntries, Sweeping
  <2> QED BY <2>2, <2>3, <2>4, <2>5 DEF FlushesInOrder
<1>9. CASE FlushScan(r)
  <2>1. Sweeping(l2', links'[r])
    <3>1. /\ links'[r].jobs = links[r].jobs \ {"scan"} /\ "scan" \in links[r].jobs
          /\ links'[r].keys = DOMAIN l2 /\ l2' = l2
      BY <1>9, FlushJobDone DEF FlushScan
    <3> QED BY <3>1 DEF FlushesInOrder, Sweeping
  <2> QED BY <1>3, <1>9, <2>1, FlushJobDone DEF FlushScan
<1>10. CASE FlushDelete(r)
  <2>1. /\ links'[r].jobs = links[r].jobs \ {"del"} /\ "scan" \notin links[r].jobs
        /\ l2' = Drop(l2, links[r].keys)
    BY <1>10, FlushJobDone DEF FlushDelete
  <2>2. Sweeping(l2', links'[r])
    BY <2>1 DEF FlushesInOrder, Sweeping, Drop, Restrict
  <2> QED BY <1>3, <2>1, <2>2
<1>11. CASE FlushGens(r)
  <2>1. links'[r].jobs = links[r].jobs \ {"gens"}
    BY <1>11, FlushJobDone DEF FlushGens
  <2> QED BY <1>3, <2>1 DEF Sweeping
<1> QED
  BY <1>5, <1>6, <1>7, <1>8, <1>9, <1>10, <1>11 DEF Listen

LEMMA NextFlushes ==
  ASSUME CacheAssumption, TypeOK, JobsInOrder, FlushesInOrder, [Next]_vars
  PROVE  FlushesInOrder'
<1>1. CASE UNCHANGED vars
  BY <1>1 DEF vars, FlushesInOrder, OwnEmptied, Flushing, Running, Active
<1> QED
  BY <1>1, ReadFlushes, MakeFlushes, ListenFlushes DEF Next

-----------------------------------------------------------------------------
\* Reactions.  G[g] is what had been acknowledged while the generation was g, since
\* the generations were last reset.  A page under a key of generation g that no flush
\* has overtaken shows at least these.

Acked == {c \in Reactions : Over(c)}

PageReactions(G, k, page) == ~page.flushed => k[2] <= gen /\ G[k[2]] \subseteq page.shows

ReaderReactions(G, x) ==
  ~x.flushed =>
    /\ Active(x) => x.owed \cap Reactions \subseteq Acked
    /\ Holding(x) => x.key[2] <= gen /\ x.owed \cap Reactions \subseteq G[x.key[2]]
    /\ HasPage(x) => PageReactions(G, x.key, x.page)
    /\ x.phase = "done" /\ ~x.page.flushed => x.owed \cap Reactions \subseteq x.page.shows

ReactionsHistory(G) ==
  /\ G \in [Nat -> SUBSET Reactions]
  /\ G[gen] = Acked
  /\ \A g \in Nat : G[g] \subseteq applied
  /\ \A k \in DOMAIN l2 : PageReactions(G, k, l2[k])
  /\ \A r \in Relays \ outdated : \A k \in DOMAIN l1[r] : PageReactions(G, k, l1[r][k])
  /\ \A q \in Readers : ReaderReactions(G, readers[q])

LEMMA InitReactions ==
  ASSUME CacheAssumption, Init
  PROVE  \E G : ReactionsHistory(G)
<1> DEFINE G == [g \in Nat |-> {}]
<1>1. Acked = {} /\ applied = {} /\ gen = 0
  BY DEF Init, Acked, Over, Changes
<1>2. \A q \in Readers : readers[q].owed = {} /\ readers[q].phase = "idle"
  BY DEF Init, IdleReader
<1>3. \A q \in Readers : ReaderReactions(G, readers[q])
  BY <1>2 DEF ReaderReactions, Holding, HasPage, Active
<1>4. DOMAIN l2 = {} /\ \A r \in Relays : DOMAIN l1[r] = {}
  BY DEF Init, NoEntries
<1> QED
  BY <1>1, <1>3, <1>4 DEF ReactionsHistory

\* A step that drops pages and marks requests, and at most acknowledges a reaction
\* under the next generation.
ContinuesGens(F, G) ==
  /\ F \in [Nat -> SUBSET Reactions]
  /\ \A g \in Nat : (g <= gen => F[g] = G[g]) /\ F[g] \subseteq applied'
  /\ gen' \in Nat /\ gen <= gen'
  /\ F[gen'] = Acked' /\ Acked \subseteq Acked'

LEMMA DropReactions ==
  ASSUME TypeOK, NEW G, ReactionsHistory(G), OnlyDrops, NEW F, ContinuesGens(F, G),
         \A r \in Relays \ outdated' : r \notin outdated \/ l1'[r] = NoEntries
  PROVE  ReactionsHistory(F)'
<1>1. gen \in Nat
  BY DEF TypeOK
<1>2. ASSUME NEW k \in Keys, NEW page, PageReactions(G, k, page)
      PROVE  PageReactions(F, k, page)'
  BY <1>1, <1>2 DEF PageReactions, ContinuesGens, Keys
<1>3. \A k \in DOMAIN l2' : PageReactions(F, k, l2[k])'
  <2>1. \A k \in DOMAIN l2' : k \in DOMAIN l2 /\ l2'[k] = l2[k] /\ k \in Keys
    BY DEF OnlyDrops, SubCache, TypeOK, PagesIn
  <2> QED BY <1>2, <2>1 DEF ReactionsHistory
<1>4. \A r \in Relays \ outdated' : \A k \in DOMAIN l1'[r] : PageReactions(F, k, l1[r][k])'
  <2>1. \A r \in Relays : \A k \in DOMAIN l1'[r] :
          k \in DOMAIN l1[r] /\ l1'[r][k] = l1[r][k] /\ k \in Keys
    BY DEF OnlyDrops, SubCache, TypeOK, PagesIn
  <2>2. DOMAIN NoEntries = {}
    BY DEF NoEntries
  <2> QED BY <1>2, <2>1, <2>2 DEF ReactionsHistory
<1>5. ASSUME NEW q \in Readers
      PROVE  ReaderReactions(F, readers[q])'
  <2>1. ReaderReactions(G, readers[q]) /\ Aged(readers[q], readers'[q])
    BY DEF ReactionsHistory, OnlyDrops
  <2>5. readers[q].key \in Keys
    BY DEF TypeOK, Reader
  <2>2. PageReactions(G, readers[q].key, readers[q].page)
          => PageReactions(F, readers[q].key, readers[q].page)'
    BY <1>2, <2>1, <2>5 DEF Aged
  <2>3. readers[q].key[2] <= gen
          => readers[q].key[2] <= gen' /\ F[readers[q].key[2]] = G[readers[q].key[2]]
    BY <1>1, <2>5 DEF ContinuesGens, Keys
  <2>4. ASSUME ~readers'[q].flushed
        PROVE  ~readers[q].flushed
    BY <2>1, <2>4 DEF Aged
  <2> QED BY <2>1, <2>2, <2>3, <2>4 DEF ReaderReactions, PageReactions, Aged, Holding, HasPage, Active, ContinuesGens
<1> QED
  BY <1>3, <1>4, <1>5 DEF ReactionsHistory, ContinuesGens

LEMMA ReadReactions ==
  ASSUME CacheAssumption, TypeOK, NEW q \in Readers, Read(q), NEW G, ReactionsHistory(G)
  PROVE  ReactionsHistory(G)'
<1> DEFINE x == readers[q]
           y == readers'[q]
<1>1. /\ x \in Reader /\ x.key \in Keys /\ x.relay \in Relays /\ x.page \in Page /\ gen \in Nat
  <2>1. x \in Reader
    BY DEF TypeOK
  <2> QED BY <2>1 DEF Reader, TypeOK
<1>2. /\ ReaderReactions(G, x)
      /\ G[gen] = Acked /\ \A g \in Nat : G[g] \subseteq applied
      /\ \A k \in DOMAIN l2 : PageReactions(G, k, l2[k])
      /\ \A r \in Relays \ outdated : \A k \in DOMAIN l1[r] : PageReactions(G, k, l1[r][k])
  BY DEF ReactionsHistory
<1>3. /\ gen' = gen /\ applied' = applied /\ outdated' = outdated
      /\ \A c \in Changes : Over(c)' = Over(c)
  BY ReadCaches DEF Over
<1>4. Acked' = Acked
  BY <1>3 DEF Acked, Changes
<1>5. \A k, page : PageReactions(G, k, page)' <=> PageReactions(G, k, page)
  BY <1>3 DEF PageReactions
<1>6. Marked(x.page, q).shows = x.page.shows
      /\ (Marked(x.page, q).flushed <=> x.page.flushed \/ x.flushed)
  BY <1>1 DEF Marked, Page
\* What the request stores fits its key.
<1>7. HasPage(x) => PageReactions(G, x.key, Marked(x.page, q))
  BY <1>2, <1>6 DEF PageReactions, ReaderReactions
<1>8. \A k \in DOMAIN l2' : PageReactions(G, k, l2'[k])
  BY <1>2, <1>7, ReadCaches DEF Stored
<1>9. \A r \in Relays \ outdated : \A k \in DOMAIN l1'[r] : PageReactions(G, k, l1'[r][k])
  BY <1>2, <1>7, ReadCaches DEF Stored
<1>10. ASSUME ReaderReactions(G, y)
       PROVE  ReactionsHistory(G)'
  <2>1. \A p \in Readers : ReaderReactions(G, readers'[p])
    BY <1>10, ReadCaches DEF ReactionsHistory
  <2>2. \A p \in Readers : ReaderReactions(G, readers[p])'
    BY <1>3, <1>4, <2>1 DEF ReaderReactions, PageReactions
  <2> QED BY <1>3, <1>4, <1>5, <1>8, <1>9, <2>2 DEF ReactionsHistory
<1>11. CASE Load(q)
  <2>1. y.phase = "loaded" /\ y.owed = {c \in Changes : Over(c)}
    BY <1>11, LoadEffect
  <2>2. y.owed \cap Reactions \subseteq Acked
    BY <2>1 DEF Acked
  <2> QED BY <1>10, <2>1, <2>2 DEF ReaderReactions, Holding, HasPage
<1>12. CASE GetGen(q)
  <2>1. PICK g \in {gen, 0} :
          /\ y.flushed = (x.flushed \/ g # gen \/ x.relay \in outdated)
          /\ \/ /\ Key(x.first, g) \in DOMAIN l1[x.relay]
                /\ y.phase = "done" /\ y.page = l1[x.relay][Key(x.first, g)]
             \/ y.phase = "missed" /\ y.key = Key(x.first, g)
    BY <1>12, GetGenEffect
  <2>2. y.owed = x.owed /\ x.phase = "loaded"
    BY <1>12, GetGenEffect DEF SameRequest
  <2>3. Key(x.first, g)[2] = g
    BY DEF Key
  <2>4. ASSUME ~y.flushed
        PROVE  /\ ~x.flushed /\ g = gen /\ x.relay \in Relays \ outdated
               /\ x.owed \cap Reactions \subseteq G[gen]
    BY <1>1, <1>2, <2>1, <2>2, <2>4 DEF ReaderReactions, Active
  <2>5. ASSUME y.phase = "done", Key(x.first, g) \in DOMAIN l1[x.relay],
               y.page = l1[x.relay][Key(x.first, g)]
        PROVE  ReaderReactions(G, y)
    BY <1>2, <2>2, <2>3, <2>4, <2>5 DEF ReaderReactions, PageReactions, Active, Holding, HasPage
  <2>6. ASSUME y.phase = "missed", y.key = Key(x.first, g)
        PROVE  ReaderReactions(G, y)
    BY <1>1, <1>2, <2>2, <2>3, <2>4, <2>6 DEF ReaderReactions, Active, Holding, HasPage
  <2> QED BY <1>10, <2>1, <2>5, <2>6
<1>13. CASE LookIntoL2(q)
  <2>1. y.owed = x.owed /\ x.phase = "missed" /\ y.key = x.key /\ y.flushed = x.flushed
    BY <1>13, LookEffect DEF SameRequest
  <2>2. ASSUME y.phase = "found", x.key \in DOMAIN l2, y.page = l2[x.key]
        PROVE  ReaderReactions(G, y)
    BY <1>2, <2>1, <2>2 DEF ReaderReactions, Active, Holding, HasPage
  <2>3. ASSUME y.phase = "building"
        PROVE  ReaderReactions(G, y)
    BY <1>2, <2>1, <2>3 DEF ReaderReactions, Active, Holding, HasPage
  <2> QED BY <1>10, <1>13, <2>2, <2>3, LookEffect
<1>14. CASE CopyToL1(q) \/ StoreInL2(q)
  <2>1. /\ y.owed = x.owed /\ Holding(x) /\ HasPage(x) /\ y.phase = "done"
        /\ y.page = Marked(x.page, q) /\ y.flushed = x.flushed
    BY <1>14, CopyEffect, StoreL2Effect DEF SameRequest, Holding, HasPage
  <2>2. ReaderReactions(G, y)
    BY <1>2, <1>6, <2>1 DEF ReaderReactions, PageReactions, Active, Holding, HasPage
  <2> QED BY <1>10, <2>2
<1>15. CASE Build(q)
  <2>1. /\ y.owed = x.owed /\ x.phase = "building" /\ y.flushed = x.flushed
        /\ y.page.shows = Shown(q)
    BY <1>15, BuildEffect DEF SameRequest, NoPage
  <2>2. applied \cap Reactions \subseteq Shown(q)
    BY DEF Shown
  <2>3. G[x.key[2]] \subseteq Shown(q)
    BY <1>1, <1>2, <2>2 DEF Keys, ReactionsHistory
  <2>4. ASSUME y.phase = "built", y.key = x.key
        PROVE  ReaderReactions(G, y)
    BY <1>2, <2>1, <2>3, <2>4 DEF ReaderReactions, PageReactions, Active, Holding, HasPage
  <2>5. ASSUME y.phase = "done"
        PROVE  ReaderReactions(G, y)
    BY <1>2, <2>1, <2>3, <2>5 DEF ReaderReactions, Active, Holding, HasPage
  <2> QED BY <1>10, <1>15, <2>4, <2>5, BuildEffect
<1>16. CASE StoreInL1(q)
  <2>1. /\ y.owed = x.owed /\ x.phase = "built" /\ y.phase = "storing" /\ y.key = x.key
        /\ y.page = x.page /\ y.flushed = x.flushed
    BY <1>16, StoreL1Effect DEF SameRequest
  <2>2. ReaderReactions(G, y)
    BY <1>2, <2>1 DEF ReaderReactions, Active, Holding, HasPage
  <2> QED BY <1>10, <2>2
<1>17. CASE Abandon(q)
  <2>1. y.phase = "idle"
    BY <1>17, AbandonEffect
  <2> QED BY <1>10, <2>1 DEF ReaderReactions, Active, Holding, HasPage
<1> QED
  BY <1>11, <1>12, <1>13, <1>14, <1>15, <1>16, <1>17 DEF Read

\* When the generations are reset, nothing is left that is not marked.
LEMMA ResetReactions ==
  ASSUME JobsInOrder, NEW G, ReactionsHistory(G), OnlyDrops,
         gen' = 0, Acked' = Acked, applied' = applied,
         \A q \in Readers : Active(readers[q]) => readers[q].flushed,
         Flushed(l2'), \A r \in Relays \ outdated' : Flushed(l1'[r])
  PROVE  \E F : ReactionsHistory(F)'
<1>1. PICK F : F = [g \in Nat |-> Acked]
  OBVIOUS
<1>2. Acked \subseteq applied
  BY DEF Acked, Over, JobsInOrder, Changes
<1>3. /\ F \in [Nat -> SUBSET Reactions] /\ F[gen'] = Acked'
      /\ \A g \in Nat : F[g] \subseteq applied'
  BY <1>1, <1>2 DEF Acked
<1>4. ASSUME NEW q \in Readers
      PROVE  ReaderReactions(F, readers[q])'
  <2>1. ReaderReactions(G, readers[q]) /\ Aged(readers[q], readers'[q])
    BY DEF ReactionsHistory, OnlyDrops
  <2>2. ASSUME ~readers'[q].flushed
        PROVE  ~readers[q].flushed /\ ~Active(readers[q])
    BY <2>1, <2>2 DEF Aged
  <2> QED BY <2>1, <2>2 DEF ReaderReactions, Aged, Holding, HasPage, Active
<1>5. /\ \A k \in DOMAIN l2' : PageReactions(F, k, l2[k])'
      /\ \A r \in Relays \ outdated' : \A k \in DOMAIN l1'[r] : PageReactions(F, k, l1[r][k])'
  BY DEF Flushed, PageReactions
<1> QED
  BY <1>3, <1>4, <1>5 DEF ReactionsHistory

\* A change that is still made is not over, and its steps concern no other.
LEMMA MakeOver ==
  ASSUME TypeOK, JobsInOrder, NEW c \in Changes, Make(c)
  PROVE  ~Over(c) /\ \A d \in Changes \ {c} : Over(d)' = Over(d)
<1>1. \A d \in Changes \ {c} : Over(d)' = Over(d)
  BY OtherChanges DEF Over
<1>2. ~Over(c)
  BY DEF Make, Apply, Lose, BeginInvalidation, Increment, Scan, Delete, ResetGens, Publish, Fail, Ready, Over, Running
<1> QED
  BY <1>1, <1>2

\* Only incrementing the generation acknowledges a reaction.
LEMMA MakeAcked ==
  ASSUME CacheAssumption, TypeOK, JobsInOrder, NEW c \in Changes, Make(c), ~Increment(c)
  PROVE  Acked' = Acked
<1>1. changes \in [Changes -> Change] /\ changes[c] \in Change
  BY DEF TypeOK
<1>2. c \in Reactions => JobsOf(c) = {"incr"}
  BY DEF JobsOf, CacheAssumption
<1>3. ASSUME c \in Reactions, Over(c)'
      PROVE  FALSE
  <2>1. Apply(c) => changes'[c].phase = "applied"
    BY <1>1, <1>2, <1>3 DEF Apply, Change
  <2>2. Lose(c) => changes'[c].phase = "lost"
    BY <1>1 DEF Lose, Change
  <2>3. ~BeginInvalidation(c)
    BY <1>1, <1>3 DEF BeginInvalidation, Over, JobsInOrder, Change
  <2>4. ~Scan(c) /\ ~Delete(c) /\ ~ResetGens(c) /\ ~Publish(c)
    BY <1>2, <1>3 DEF Scan, Delete, ResetGens, Publish, Ready, JobsInOrder
  <2>5. ASSUME NEW job, Fail(c, job)
        PROVE  FALSE
    BY <1>3, <2>5, JobFailed DEF Over
  <2> QED BY <1>3, <2>1, <2>2, <2>3, <2>4, <2>5 DEF Make, Over
<1> QED
  BY <1>3, MakeOver DEF Acked, Changes

LEMMA NextReactions ==
  ASSUME CacheAssumption, TypeOK, JobsInOrder, FlushesInOrder, [Next]_vars,
         \E G : ReactionsHistory(G)
  PROVE  \E G : ReactionsHistory(G)'
<1>1. PICK G : ReactionsHistory(G)
  OBVIOUS
<1>2. gen \in Nat /\ G \in [Nat -> SUBSET Reactions] /\ G[gen] = Acked
      /\ \A g \in Nat : G[g] \subseteq applied
  BY <1>1 DEF ReactionsHistory, TypeOK
<1>3. ASSUME OnlyDrops, applied \subseteq applied', UNCHANGED gen, Acked' = Acked,
             \A r \in Relays \ outdated' : r \notin outdated \/ l1'[r] = NoEntries
      PROVE  ReactionsHistory(G)'
  <2>1. ContinuesGens(G, G)
    BY <1>2, <1>3 DEF ContinuesGens
  <2> QED BY <1>1, <1>3, <2>1, DropReactions
<1>4. CASE UNCHANGED vars
  <2>1. OnlyDrops
    BY <1>4, SameAged, DropSub DEF vars, OnlyDrops
  <2>2. UNCHANGED <<applied, gen, outdated>> /\ Acked' = Acked
    BY <1>4 DEF vars, Acked, Over
  <2> QED BY <1>3, <2>1, <2>2
<1>5. ASSUME NEW q \in Readers, Read(q)
      PROVE  ReactionsHistory(G)'
  BY <1>1, <1>5, ReadReactions
<1>6. ASSUME NEW c \in Changes, Make(c)
      PROVE  \E F : ReactionsHistory(F)'
  <2>1. OnlyDrops
    BY <1>6, MakeDrops
  <2>2. CASE Increment(c)
    <3>1. UNCHANGED <<applied, outdated>> /\ gen' = gen + 1
      BY <2>2 DEF Increment, NextGen
    <3>2. Acked \subseteq Acked'
      BY <1>6, MakeOver DEF Acked, Changes
    <3>3. Acked' \subseteq applied' /\ Acked' \subseteq Reactions
      <4>1. JobsInOrder'
        BY <1>6, MakeJobs
      <4> QED BY <4>1 DEF JobsInOrder, Acked, Over, Changes
    <3>4. PICK F : F = [G EXCEPT ![gen + 1] = Acked']
      OBVIOUS
    <3>5. ContinuesGens(F, G)
      BY <1>2, <3>1, <3>2, <3>3, <3>4 DEF ContinuesGens
    <3>6. ReactionsHistory(F)'
      BY <1>1, <2>1, <3>1, <3>5, DropReactions
    <3> QED BY <3>6
  <2>3. CASE ResetGens(c)
    <3>1. c \in Settings
      BY <2>3 DEF ResetGens, Ready, JobsInOrder, JobsOf, CacheAssumption, Changes
    <3>2. "gens" \in changes[c].jobs /\ "del" \notin changes[c].jobs /\ changes[c].phase = "running"
      BY <2>3 DEF ResetGens, Ready
    <3>3. Flushing /\ Running(c)
      BY <3>1, <3>2 DEF Flushing, Running
    <3>4. Flushed(l2)
      BY <3>1, <3>2 DEF FlushesInOrder, Sweeping, Flushed
    <3>5. \A r \in Relays \ outdated' : Flushed(l1[r])
      BY <2>3, <3>1, <3>2, <3>3 DEF FlushesInOrder, OwnEmptied, ResetGens
    <3>6. \A q \in Readers : Active(readers[q]) => readers[q].flushed
      BY <3>3 DEF FlushesInOrder
    <3>7. gen' = 0 /\ UNCHANGED <<applied, l1, l2>>
      BY <2>3 DEF ResetGens
    <3>8. Acked' = Acked
      BY <1>6, <2>3, <3>1, MakeOver DEF Acked, CacheAssumption, Changes
    <3> QED BY <1>1, <2>1, <3>4, <3>5, <3>6, <3>7, <3>8, ResetReactions
  <2>4. CASE ~Increment(c) /\ ~ResetGens(c)
    <3>1. Acked' = Acked
      BY <1>6, <2>4, MakeAcked
    <3>2. applied \subseteq applied' /\ UNCHANGED gen
      BY <1>6, <2>4 DEF Make, Apply, Lose, BeginInvalidation, Scan, Delete, Publish, Fail
    <3>3. \A r \in Relays \ outdated' : r \notin outdated \/ l1'[r] = NoEntries
      BY <1>6, <2>4 DEF Make, Apply, Lose, BeginInvalidation, Scan, Delete, Publish, Fail
    <3> QED BY <1>3, <2>1, <3>1, <3>2, <3>3
  <2> QED BY <2>2, <2>3, <2>4
<1>7. ASSUME NEW r \in Relays, Listen(r)
      PROVE  \E F : ReactionsHistory(F)'
  <2>1. OnlyDrops /\ UNCHANGED <<applied, changes>>
    BY <1>7, ListenDrops, OtherRelays
  <2>2. Acked' = Acked
    BY <2>1 DEF Acked, Over
  <2>3. CASE FlushGens(r)
    <3>1. "gens" \in links[r].jobs /\ "del" \notin links[r].jobs
      BY <2>3 DEF FlushGens, FlushStep
    <3>2. Flushing
      BY <3>1 DEF Flushing
    <3>3. Flushed(l2) /\ Flushed(l1[r])
      BY <3>1 DEF FlushesInOrder, Sweeping, Flushed
    <3>4. gen' = 0 /\ UNCHANGED <<l1, l2>> /\ outdated' = outdated \cup (Relays \ {r})
      BY <2>3 DEF FlushGens
    <3>5. \A q \in Readers : Active(readers[q]) => readers[q].flushed
      BY <3>2 DEF FlushesInOrder
    <3> QED BY <1>1, <2>1, <2>2, <3>3, <3>4, <3>5, ResetReactions
  <2>4. CASE ~FlushGens(r)
    <3>1. UNCHANGED gen
      BY <1>7, <2>4 DEF Listen, Receive, Evict, Disconnect, Reconnect, FlushScan, FlushDelete, FlushFails
    <3>2. \A x \in Relays \ outdated' : x \notin outdated \/ l1'[x] = NoEntries
      <4>1. DOMAIN l1 = Relays
        BY DEF TypeOK
      <4> QED
        BY <1>7, <2>4, <4>1 DEF Listen, Receive, Evict, Disconnect, Reconnect, FlushScan, FlushDelete, FlushFails
    <3> QED BY <1>3, <2>1, <2>2, <3>1, <3>2
  <2> QED BY <2>3, <2>4
<1> QED
  BY <1>4, <1>5, <1>6, <1>7 DEF Next

-----------------------------------------------------------------------------
CacheInvariant ==
  /\ TypeOK /\ JobsInOrder /\ FlushesInOrder
  /\ \E H : PostsHistory(H)
  /\ \E G : ReactionsHistory(G)

LEMMA CacheInvariantHolds == Spec => []CacheInvariant
<1>1. Init => CacheInvariant
  BY CacheAssumption, InitType, InitJobs, InitFlushes, InitPosts, InitReactions DEF CacheInvariant
<1>2. CacheInvariant /\ [Next]_vars => CacheInvariant'
  BY CacheAssumption, NextType, NextJobs, NextFlushes, NextPosts, NextReactions DEF CacheInvariant
<1> QED
  BY <1>1, <1>2, PTL DEF Spec

LEMMA PagesAreComplete ==
  ASSUME CacheInvariant
  PROVE  CacheSafety
<1>1. PostsSeen
  BY DEF CacheInvariant, PostsHistory, ReaderPosts, PostsSeen, Answered
<1>2. ReactionsSeen
  BY DEF CacheInvariant, ReactionsHistory, ReaderReactions, ReactionsSeen, Answered
<1> QED
  BY <1>1, <1>2 DEF CacheSafety, CacheInvariant

\* Whatever is cached where, whatever fails and however reads and invalidations
\* interleave, a page has all posts of the thread as it was loaded and no others,
\* and the reactions that had been acknowledged before, unless the generations were
\* reset meanwhile (thread.rs get_or_build, invalidate.rs).
THEOREM CachesAreSafe == Spec => []CacheSafety
<1>1. CacheInvariant => CacheSafety
  BY PagesAreComplete
<1> QED
  BY <1>1, CacheInvariantHolds, PTL

-----------------------------------------------------------------------------
\* Moderations and settings, whose invalidations drop pages.  While one is under way
\* every request knows; once it is over every page that is not marked shows it,
\* except in L1 of a relay that the message has not reached.

Sweepers == Moderations \cup Settings
Told == {c \in Sweepers : Over(c)}
Ongoing == (\E c \in Sweepers : Running(c)) \/ \E r \in Relays : links[r].jobs # {}

Reached(c, r) == links[r].up /\ c \notin inbox[r]
LateOnly(cache) == \A k \in DOMAIN cache : cache[k].late
PageShows(page, S) == ~page.late => S \subseteq page.shows

Swept(cache, flush) ==
  /\ "scan" \in flush.jobs => "del" \in flush.jobs
  /\ "scan" \notin flush.jobs =>
       \A k \in DOMAIN cache : cache[k].late \/ ("del" \in flush.jobs /\ k \in flush.keys)

SweepMade(c) ==
  /\ Swept(l2, changes[c])
  /\ "publish" \notin changes[c].jobs => \A r \in Relays : Reached(c, r) => LateOnly(l1[r])

ReaderTold(x) ==
  ~x.late =>
    /\ Active(x) =>
         /\ applied \cap Sweepers \subseteq x.first
         /\ x.owed \cap Sweepers \subseteq Told
         /\ \A k \in DOMAIN l1[x.relay] : PageShows(l1[x.relay][k], x.owed \cap Sweepers)
    /\ HasPage(x) => PageShows(x.page, Told)
    /\ x.phase = "done" => PageShows(x.page, x.owed \cap Sweepers)

SweepsInOrder ==
  /\ Ongoing => \A q \in Readers : Active(readers[q]) => readers[q].late
  /\ \A c \in Sweepers : Running(c) /\ ~changes[c].failed => SweepMade(c)
  /\ \A k \in DOMAIN l2 : PageShows(l2[k], Told)
  /\ \A c \in Told : \A r \in Relays :
       Reached(c, r) => \A k \in DOMAIN l1[r] : PageShows(l1[r][k], {c})
  /\ \A q \in Readers : ReaderTold(readers[q])

LEMMA InitSweeps ==
  ASSUME Init
  PROVE  SweepsInOrder
<1>1. /\ \A c \in Sweepers : changes[c].jobs = {} /\ changes[c].phase = "new"
      /\ \A r \in Relays : links[r].jobs = {}
  BY DEF Init, Changes, Sweepers
<1>2. Told = {} /\ ~Ongoing /\ \A c \in Sweepers : ~Running(c)
  BY <1>1 DEF Told, Over, Ongoing, Running
<1>3. \A q \in Readers : readers[q].phase = "idle"
  BY DEF Init, IdleReader
<1>4. \A q \in Readers : ReaderTold(readers[q])
  BY <1>3 DEF ReaderTold, Active, HasPage
<1>5. \A k \in DOMAIN l2 : PageShows(l2[k], Told)
  BY <1>2 DEF PageShows
<1> QED
  BY <1>2, <1>4, <1>5 DEF SweepsInOrder

LEMMA SubLate ==
  ASSUME NEW new, NEW old, SubCache(new, old)
  PROVE  /\ LateOnly(old) => LateOnly(new)
         /\ \A flush : Swept(old, flush) => Swept(new, flush)
BY DEF SubCache, LateOnly, Swept

LEMMA ReadSweeps ==
  ASSUME CacheAssumption, TypeOK, JobsInOrder, SweepsInOrder, NEW q \in Readers, Read(q)
  PROVE  SweepsInOrder'
<1> DEFINE x == readers[q]
           y == readers'[q]
<1>1. x \in Reader /\ x.relay \in Relays /\ x.page \in Page
  <2>1. x \in Reader
    BY DEF TypeOK
  <2> QED BY <2>1 DEF Reader
<1>2. /\ applied' = applied
      /\ \A c \in Changes : Over(c)' = Over(c) /\ Running(c)' = Running(c) /\ changes'[c] = changes[c]
      /\ \A c, r : Reached(c, r)' = Reached(c, r)
  BY ReadCaches DEF Over, Running, Reached
<1>3. Told' = Told /\ Ongoing' = Ongoing /\ Sweepers \subseteq Changes
  BY <1>2, ReadCaches DEF Told, Ongoing, Sweepers, Changes
<1>4. Marked(x.page, q).shows = x.page.shows
      /\ (Marked(x.page, q).late <=> x.page.late \/ x.late)
  BY <1>1 DEF Marked, Page
<1>5. ReaderTold(x)
  BY DEF SweepsInOrder
<1>6. Told \subseteq applied
  BY DEF Told, Over, JobsInOrder, Sweepers, Changes
\* What the request stores shows all that is over, or it is marked.
<1>7. HasPage(x) => PageShows(Marked(x.page, q), Told)
  BY <1>4, <1>5 DEF ReaderTold, PageShows
<1>8. Ongoing /\ HasPage(x) => Marked(x.page, q).late
  BY <1>4 DEF SweepsInOrder, HasPage, Active
<1>9. Ongoing' => \A p \in Readers : Active(readers'[p]) => readers'[p].late
  <2>1. Ongoing => Dropping(x.relay)
    BY DEF Ongoing, Dropping, Flushing, Sweepers
  <2>2. ASSUME Ongoing, Active(y)
        PROVE  y.late
    BY <2>1, <2>2, ReadMarks, LoadEffect DEF SweepsInOrder, Active, SameRequest
  <2> QED BY <1>3, <2>2, ReadCaches DEF SweepsInOrder
<1>10. ASSUME NEW c \in Sweepers, Running(c)', ~changes'[c].failed
       PROVE  SweepMade(c)'
  <2>1. /\ c \in Changes /\ Running(c) /\ ~changes[c].failed /\ changes'[c] = changes[c]
        /\ \A r \in Relays : Reached(c, r)' = Reached(c, r)
    BY <1>2, <1>3, <1>10
  <2>2. Ongoing
    BY <2>1 DEF Ongoing
  <2>3. ASSUME NEW new, NEW old, Stored(q, new, old)
        PROVE  /\ LateOnly(old) => LateOnly(new)
               /\ \A flush : Swept(old, flush) => Swept(new, flush)
    BY <1>8, <2>2, <2>3 DEF Stored, LateOnly, Swept
  <2>4. SweepMade(c)
    BY <2>1 DEF SweepsInOrder
  <2> QED BY <2>1, <2>3, <2>4, ReadCaches DEF SweepMade
<1>11. \A k \in DOMAIN l2' : PageShows(l2'[k], Told)
  BY <1>7, ReadCaches DEF Stored, SweepsInOrder
<1>12. ASSUME NEW c \in Told, NEW r \in Relays, Reached(c, r)
       PROVE  \A k \in DOMAIN l1'[r] : PageShows(l1'[r][k], {c})
  <2>1. HasPage(x) => PageShows(Marked(x.page, q), {c})
    BY <1>7 DEF PageShows
  <2>2. \A k \in DOMAIN l1[r] : PageShows(l1[r][k], {c})
    BY <1>12 DEF SweepsInOrder
  <2> QED BY <2>1, <2>2, ReadCaches DEF Stored
\* The pages at the relay of a request, for that request.
<1>13. ASSUME NEW S, S \subseteq Told, NEW r \in Relays,
              \A k \in DOMAIN l1[r] : PageShows(l1[r][k], S)
       PROVE  \A k \in DOMAIN l1'[r] : PageShows(l1'[r][k], S)
  <2>1. HasPage(x) => PageShows(Marked(x.page, q), S)
    BY <1>7, <1>13 DEF PageShows
  <2> QED BY <1>13, <2>1, ReadCaches DEF Stored
<1>14. ASSUME NEW p \in Readers \ {q}
       PROVE  ReaderTold(readers[p])'
  <2>1. readers'[p] = readers[p] /\ ReaderTold(readers[p])
    BY ReadCaches DEF SweepsInOrder
  <2>2. readers[p].relay \in Relays
    BY DEF TypeOK, Reader
  <2> QED BY <1>2, <1>3, <1>13, <2>1, <2>2 DEF ReaderTold
<1>15. ASSUME ReaderTold(readers[q])'
       PROVE  SweepsInOrder'
  <2>1. \A p \in Readers : ReaderTold(readers[p])'
    BY <1>14, <1>15
  <2> QED BY <1>2, <1>3, <1>9, <1>10, <1>11, <1>12, <2>1 DEF SweepsInOrder
\* It is enough to look at the request itself.
<1>16. ASSUME y.late \/ y.phase = "idle"
       PROVE  SweepsInOrder'
  BY <1>15, <1>16 DEF ReaderTold, Active, HasPage
<1>17. CASE Load(q)
  <2>1. /\ y.phase = "loaded" /\ y.relay = x.relay /\ y.first = applied
        /\ y.owed = {c \in Changes : Over(c)} /\ y.late = Dropping(x.relay)
        /\ UNCHANGED l1
    BY <1>17, LoadEffect DEF Load
  <2>2. y.owed \cap Sweepers = Told
    BY <1>3, <2>1 DEF Told
  <2>3. CASE Dropping(x.relay)
    BY <1>16, <2>1, <2>3
  <2>4. CASE ~Dropping(x.relay)
    <3>1. \A c \in Told : Reached(c, x.relay)
      BY <2>4 DEF Dropping, Reached
    <3>2. \A k \in DOMAIN l1[x.relay] : PageShows(l1[x.relay][k], Told)
      BY <1>1, <3>1 DEF SweepsInOrder, PageShows
    <3>3. ReaderTold(readers[q])'
      BY <1>2, <1>3, <2>1, <2>2, <3>2 DEF ReaderTold, HasPage
    <3> QED BY <1>15, <3>3
  <2> QED BY <2>3, <2>4
<1>18. ASSUME Active(x), SameRequest(x, y), ~x.late,
              HasPage(y) => PageShows(y.page, Told),
              y.phase = "done" => PageShows(y.page, x.owed \cap Sweepers)
       PROVE  SweepsInOrder'
  <2>1. \A k \in DOMAIN l1'[x.relay] : PageShows(l1'[x.relay][k], x.owed \cap Sweepers)
    BY <1>1, <1>5, <1>13, <1>18 DEF ReaderTold
  <2>2. ReaderTold(readers[q])'
    BY <1>2, <1>3, <1>5, <1>18, <2>1 DEF ReaderTold, SameRequest
  <2> QED BY <1>15, <2>2
\* A page that shows all that is over shows what is owed.
<1>19. ASSUME Active(x), ~x.late, NEW page, PageShows(page, Told)
       PROVE  PageShows(page, x.owed \cap Sweepers)
  BY <1>5, <1>19 DEF ReaderTold, PageShows
<1>20. CASE GetGen(q)
  <2>1. x.phase = "loaded" /\ SameRequest(x, y)
    BY <1>20, GetGenEffect
  <2>2. \/ y.phase = "missed"
        \/ y.phase = "done" /\ \E k \in DOMAIN l1[x.relay] : y.page = l1[x.relay][k]
    BY <1>20, GetGenEffect
  <2>3. ~x.late /\ y.phase = "done" => PageShows(y.page, x.owed \cap Sweepers)
    BY <1>5, <2>1, <2>2 DEF ReaderTold, Active
  <2> QED BY <1>16, <1>18, <2>1, <2>2, <2>3 DEF SameRequest, Active, HasPage
<1>21. CASE LookIntoL2(q)
  <2>1. x.phase = "missed" /\ SameRequest(x, y)
    BY <1>21, LookEffect
  <2>2. y.phase = "building" \/ (y.phase = "found" /\ PageShows(y.page, Told))
    BY <1>21, LookEffect DEF SweepsInOrder
  <2> QED BY <1>16, <1>18, <2>1, <2>2 DEF SameRequest, Active, HasPage
<1>22. CASE CopyToL1(q) \/ StoreInL2(q)
  <2>1. HasPage(x) /\ SameRequest(x, y) /\ y.phase = "done" /\ y.page = Marked(x.page, q)
    BY <1>22, CopyEffect, StoreL2Effect DEF HasPage
  <2>2. Active(x) /\ ~HasPage(y)
    BY <2>1 DEF HasPage, Active
  <2>3. ~x.late => PageShows(y.page, x.owed \cap Sweepers)
    BY <1>7, <1>19, <2>1, <2>2
  <2> QED BY <1>16, <1>18, <2>1, <2>2, <2>3 DEF SameRequest
<1>23. CASE Build(q)
  <2>1. /\ x.phase = "building" /\ SameRequest(x, y) /\ y.page.shows = Shown(q)
        /\ y.phase \in {"built", "done"}
    BY <1>23, BuildEffect DEF NoPage
  <2>2. Active(x)
    BY <2>1 DEF Active
  <2>3. ~x.late => Told \subseteq Shown(q)
    BY <1>5, <1>6, <2>2 DEF ReaderTold, Shown, Sweepers, Told
  <2>4. ~x.late => PageShows(y.page, Told)
    BY <2>1, <2>3 DEF PageShows
  <2> QED BY <1>16, <1>18, <1>19, <2>1, <2>2, <2>4 DEF SameRequest
<1>24. CASE StoreInL1(q)
  <2>1. x.phase = "built" /\ SameRequest(x, y) /\ y.phase = "storing" /\ y.page = x.page
    BY <1>24, StoreL1Effect
  <2>2. ~x.late => PageShows(y.page, Told)
    BY <1>5, <2>1 DEF ReaderTold, HasPage
  <2> QED BY <1>16, <1>18, <2>1, <2>2 DEF SameRequest, Active
<1>25. CASE Abandon(q)
  BY <1>16, <1>25, AbandonEffect
<1> QED
  BY <1>17, <1>20, <1>21, <1>22, <1>23, <1>24, <1>25 DEF Read

\* What is known of requests when pages are only dropped: either no change becomes
\* over and none is made that drops pages, or every request that goes on is marked.
LEMMA DropSweeps ==
  ASSUME TypeOK, SweepsInOrder, OnlyDrops,
         \/ Told' = Told /\ applied' \cap Sweepers = applied \cap Sweepers
         \/ \A q \in Readers : Active(readers'[q]) => readers'[q].late,
         NEW q \in Readers
  PROVE  ReaderTold(readers[q])'
<1>1. ReaderTold(readers[q]) /\ Aged(readers[q], readers'[q])
  BY DEF SweepsInOrder, OnlyDrops
<1>2. readers[q].relay \in Relays
  BY DEF TypeOK, Reader
<1>3. \A S : (\A k \in DOMAIN l1[readers[q].relay] : PageShows(l1[readers[q].relay][k], S))
        => \A k \in DOMAIN l1'[readers[q].relay] : PageShows(l1'[readers[q].relay][k], S)
  BY <1>2 DEF OnlyDrops, SubCache
<1>4. ASSUME ~readers'[q].late
      PROVE  ~readers[q].late
  BY <1>1, <1>4 DEF Aged
<1>5. ASSUME Active(readers'[q]) => readers'[q].late
      PROVE  ReaderTold(readers[q])'
  BY <1>1, <1>4, <1>5 DEF ReaderTold, Aged, HasPage, Active
<1>6. ASSUME Told' = Told, applied' \cap Sweepers = applied \cap Sweepers
      PROVE  ReaderTold(readers[q])'
  BY <1>1, <1>3, <1>4, <1>6 DEF ReaderTold, Aged, HasPage, Active
<1> QED
  BY <1>5, <1>6

\* The invalidation of c itself, by one step of it.
LEMMA MakeSweep ==
  ASSUME CacheAssumption, TypeOK, JobsInOrder, SweepsInOrder,
         NEW c \in Sweepers, Make(c), ~changes'[c].failed, changes'[c].phase # "lost"
  PROVE  SweepMade(c)'
<1>1. /\ c \in Changes /\ changes \in [Changes -> Change] /\ changes[c] \in Change
      /\ OnlyDrops /\ UNCHANGED links
  <2>1. c \in Changes
    BY DEF Sweepers, Changes
  <2> QED BY <2>1, MakeDrops, OtherChanges DEF TypeOK
<1>2. CASE Apply(c)
  <2>1. changes'[c].jobs = JobsOf(c)
    BY <1>1, <1>2 DEF Apply, Change
  <2>2. {"scan", "del", "publish"} \subseteq JobsOf(c)
    BY DEF JobsOf, Sweepers, CacheAssumption
  <2> QED BY <2>1, <2>2 DEF SweepMade, Swept
<1>3. CASE Lose(c)
  BY <1>1, <1>3 DEF Lose, Change
<1>4. CASE Increment(c)
  BY <1>1, <1>4 DEF Increment, Ready, JobsInOrder, JobsOf, Sweepers, CacheAssumption
\* Nothing fails that goes on, and what a step leaves alone stays as it was.
<1>5. ASSUME changes[c].jobs # {}, ~changes[c].failed
      PROVE  /\ SweepMade(c) /\ Swept(l2', changes[c])
             /\ \A r \in Relays : LateOnly(l1[r]) => LateOnly(l1'[r])
  <2>1. SweepMade(c)
    BY <1>5 DEF SweepsInOrder, Running
  <2>2. Swept(l2, changes[c]) /\ SubCache(l2', l2)
    BY <1>1, <2>1 DEF SweepMade, OnlyDrops
  <2>3. Swept(l2', changes[c])
    BY <2>2, SubLate
  <2>4. \A r \in Relays : LateOnly(l1[r]) => LateOnly(l1'[r])
    BY <1>1, SubLate DEF OnlyDrops
  <2> QED BY <2>1, <2>3, <2>4
<1>6. ASSUME changes[c].jobs # {}, ~changes[c].failed, UNCHANGED inbox,
             changes'[c].jobs \subseteq changes[c].jobs,
             "publish" \in changes[c].jobs => "publish" \in changes'[c].jobs,
             Swept(l2', changes'[c])
      PROVE  SweepMade(c)'
  BY <1>1, <1>5, <1>6 DEF SweepMade, Reached
<1>7. CASE BeginInvalidation(c)
  <2>1. /\ changes'[c].jobs = changes[c].jobs /\ changes'[c].keys = changes[c].keys
        /\ changes'[c].failed = changes[c].failed /\ UNCHANGED inbox
    BY <1>1, <1>7 DEF BeginInvalidation, Change
  <2>2. changes[c].jobs # {}
    BY <1>1, <1>7 DEF BeginInvalidation, JobsInOrder
  <2>3. Swept(l2', changes'[c])
    BY <1>5, <2>1, <2>2 DEF Swept
  <2> QED BY <1>6, <2>1, <2>2, <2>3
<1>8. CASE Scan(c)
  <2>1. /\ changes'[c].jobs = changes[c].jobs \ {"scan"} /\ changes'[c].keys = DOMAIN l2
        /\ l2' = l2 /\ "scan" \in changes[c].jobs /\ ~changes[c].failed /\ UNCHANGED inbox
    BY <1>1, <1>8, JobDone DEF Scan, Ready
  <2>2. "del" \in changes[c].jobs
    BY <1>5, <2>1 DEF SweepMade, Swept
  <2>3. Swept(l2', changes'[c])
    BY <2>1, <2>2 DEF Swept
  <2> QED BY <1>6, <2>1, <2>3
<1>9. CASE Delete(c)
  <2>1. /\ changes'[c].jobs = changes[c].jobs \ {"del"} /\ "scan" \notin changes[c].jobs
        /\ l2' = Drop(l2, changes[c].keys) /\ "del" \in changes[c].jobs
        /\ ~changes[c].failed /\ UNCHANGED inbox
    BY <1>1, <1>9, JobDone DEF Delete, Ready
  <2>2. Swept(l2, changes[c])
    BY <1>5, <2>1 DEF SweepMade
  <2>3. Swept(l2', changes'[c])
    BY <2>1, <2>2 DEF Swept, Drop, Restrict
  <2> QED BY <1>6, <2>1, <2>3
<1>10. CASE ResetGens(c)
  <2>1. /\ changes'[c].jobs = changes[c].jobs \ {"gens"} /\ "del" \notin changes[c].jobs
        /\ l2' = l2 /\ "gens" \in changes[c].jobs
        /\ ~changes[c].failed /\ UNCHANGED inbox
    BY <1>1, <1>10, JobDone DEF ResetGens, Ready
  <2>2. Swept(l2, changes[c])
    BY <1>5, <2>1 DEF SweepMade
  <2>3. Swept(l2', changes'[c])
    BY <2>1, <2>2 DEF Swept
  <2> QED BY <1>6, <2>1, <2>3
<1>11. CASE Publish(c)
  <2>1. /\ changes'[c].jobs = changes[c].jobs \ {"publish"} /\ changes'[c].keys = changes[c].keys
        /\ "publish" \in changes[c].jobs /\ ~changes[c].failed /\ inbox' = Sent(c)
    BY <1>1, <1>11, JobDone DEF Publish, Ready
  <2>2. Swept(l2', changes'[c])
    BY <1>5, <2>1 DEF Swept
  <2>3. \A r \in Relays : ~Reached(c, r)'
    BY <1>1, <2>1 DEF Reached, Sent
  <2> QED BY <2>2, <2>3 DEF SweepMade
<1>12. ASSUME NEW job, Fail(c, job)
       PROVE  FALSE
  BY <1>1, <1>12, JobFailed
<1> QED
  BY <1>2, <1>3, <1>4, <1>7, <1>8, <1>9, <1>10, <1>11, <1>12 DEF Make

\* The invalidations of others, by a step that only drops pages: a message is off
\* the list of a relay only when the relay has emptied its L1.
LEMMA OtherSweeps ==
  ASSUME TypeOK, SweepsInOrder, OnlyDrops, NEW c \in Sweepers, changes'[c] = changes[c],
         \A r \in Relays : Reached(c, r)' => Reached(c, r) \/ l1'[r] = NoEntries
  PROVE  /\ Running(c)' /\ ~changes'[c].failed => SweepMade(c)'
         /\ c \in Told => \A r \in Relays :
              Reached(c, r)' => \A k \in DOMAIN l1'[r] : PageShows(l1'[r][k], {c})
<1>1. DOMAIN NoEntries = {}
  BY DEF NoEntries
<1>2. ASSUME Running(c)', ~changes'[c].failed
      PROVE  SweepMade(c)'
  <2>1. SweepMade(c)
    BY <1>2 DEF SweepsInOrder, Running
  <2>2. Swept(l2', changes'[c])
    BY <2>1, SubLate DEF SweepMade, OnlyDrops
  <2>3. ASSUME "publish" \notin changes'[c].jobs, NEW r \in Relays, Reached(c, r)'
        PROVE  LateOnly(l1'[r])
    <3>1. CASE Reached(c, r)
      BY <2>1, <2>3, <3>1, SubLate DEF SweepMade, OnlyDrops
    <3>2. CASE l1'[r] = NoEntries
      BY <1>1, <3>2 DEF LateOnly
    <3> QED BY <2>3, <3>1, <3>2
  <2> QED BY <2>2, <2>3 DEF SweepMade
<1>3. ASSUME c \in Told, NEW r \in Relays, Reached(c, r)'
      PROVE  \A k \in DOMAIN l1'[r] : PageShows(l1'[r][k], {c})
  <2>1. CASE Reached(c, r)
    <3>1. \A k \in DOMAIN l1[r] : PageShows(l1[r][k], {c})
      BY <1>3, <2>1 DEF SweepsInOrder
    <3> QED BY <3>1 DEF OnlyDrops, SubCache
  <2>2. CASE l1'[r] = NoEntries
    BY <1>1, <2>2
  <2> QED BY <1>3, <2>1, <2>2
<1> QED
  BY <1>2, <1>3

LEMMA MakeSweeps ==
  ASSUME CacheAssumption, TypeOK, JobsInOrder, SweepsInOrder, NEW c \in Changes, Make(c)
  PROVE  SweepsInOrder'
<1>1. /\ changes \in [Changes -> Change] /\ changes[c] \in Change
      /\ OnlyDrops /\ UNCHANGED links /\ Sweepers \subseteq Changes
      /\ \A d \in Changes \ {c} : changes'[d] = changes[d]
  BY MakeDrops, OtherChanges DEF TypeOK, Sweepers, Changes
<1>2. ~Over(c) /\ \A d \in Changes \ {c} : Over(d)' = Over(d)
  BY MakeOver
<1>3. Told \subseteq Told' /\ Told' \subseteq Told \cup {c}
  BY <1>1, <1>2 DEF Told
<1>4. ASSUME NEW d \in Changes \ {c}, NEW r \in Relays, Reached(d, r)'
      PROVE  Reached(d, r)
  <2>1. inbox' = inbox \/ inbox' = Sent(c)
    BY DEF Make, Apply, Lose, BeginInvalidation, Increment, Scan, Delete, ResetGens, Publish, Fail
  <2> QED BY <1>1, <1>4, <2>1 DEF Reached, Sent
\* If c becomes over, its invalidation has left nothing that is not marked.
<1>5. ASSUME c \in Sweepers, Over(c)'
      PROVE  /\ Running(c) /\ LateOnly(l2')
             /\ \A r \in Relays : Reached(c, r)' => LateOnly(l1'[r])
  <2>1. SweepMade(c)' /\ changes'[c].jobs = {}
    BY <1>5, MakeSweep DEF Over
  <2>2. LateOnly(l2') /\ \A r \in Relays : Reached(c, r)' => LateOnly(l1'[r])
    BY <2>1 DEF SweepMade, Swept, LateOnly
  <2>3. Apply(c) => changes'[c].phase = "applied"
    <3>1. JobsOf(c) # {}
      BY <1>5 DEF JobsOf, Sweepers, CacheAssumption
    <3> QED BY <1>1, <3>1 DEF Apply, Change
  <2>4. Lose(c) => changes'[c].phase = "lost"
    BY <1>1 DEF Lose, Change
  <2>5. BeginInvalidation(c) => changes'[c].jobs # {}
    BY <1>1 DEF BeginInvalidation, JobsInOrder, Change
  <2>6. Running(c)
    BY <1>5, <2>1, <2>3, <2>4, <2>5 DEF Make, Over, Running, Increment, Scan, Delete, ResetGens, Publish, Fail, Ready
  <2> QED BY <2>2, <2>6
\* Every request that goes on is marked, unless nothing of the kind happens.
<1>6. ASSUME Ongoing \/ (Apply(c) /\ c \in Sweepers)
      PROVE  \A q \in Readers : Active(readers'[q]) => readers'[q].late
  <2>1. CASE Ongoing
    BY <1>1, <2>1 DEF SweepsInOrder, OnlyDrops, Aged, Active
  <2>2. CASE Apply(c) /\ c \in Sweepers
    <3>1. (c \in Settings) \in BOOLEAN
      OBVIOUS
    <3> QED BY <2>2, <3>1, OvertakenAged DEF Apply, Sweepers, Aged, Active
  <2> QED BY <1>6, <2>1, <2>2
<1>7. Ongoing' => \A q \in Readers : Active(readers'[q]) => readers'[q].late
  <2>1. ASSUME Ongoing', ~(Apply(c) /\ c \in Sweepers)
        PROVE  Ongoing
    <3>1. ASSUME c \in Sweepers, Running(c)'
          PROVE  Running(c)
      <4>1. ~Apply(c)
        BY <2>1, <3>1
      <4>2. Lose(c) => changes'[c].jobs = {}
        BY <1>1 DEF Lose, Change
      <4>3. BeginInvalidation(c) => changes'[c].jobs = changes[c].jobs
        BY <1>1 DEF BeginInvalidation, Change
      <4> QED
        BY <3>1, <4>1, <4>2, <4>3 DEF Make, Increment, Scan, Delete, ResetGens, Publish, Fail, Ready, Running
    <3> QED BY <1>1, <2>1, <3>1 DEF Ongoing, Running
  <2> QED BY <1>6, <2>1
<1>8. ASSUME NEW q \in Readers
      PROVE  ReaderTold(readers[q])'
  <2>1. CASE c \in Sweepers /\ Over(c)'
    <3>1. Ongoing
      BY <1>5, <2>1 DEF Ongoing
    <3> QED BY <1>1, <1>6, <3>1, DropSweeps
  <2>2. CASE Apply(c) /\ c \in Sweepers
    BY <1>1, <1>6, <2>2, DropSweeps
  <2>3. CASE ~(c \in Sweepers /\ Over(c)') /\ ~(Apply(c) /\ c \in Sweepers)
    <3>1. Told' = Told
      BY <1>3, <2>3 DEF Told
    <3>2. applied' \cap Sweepers = applied \cap Sweepers
      BY <2>3 DEF Make, Apply, Lose, BeginInvalidation, Increment, Scan, Delete, ResetGens, Publish, Fail
    <3> QED BY <1>1, <3>1, <3>2, DropSweeps
  <2> QED BY <2>1, <2>2, <2>3
<1>9. ASSUME NEW d \in Sweepers, Running(d)', ~changes'[d].failed
      PROVE  SweepMade(d)'
  <2>1. CASE d = c
    <3>1. changes'[c].phase # "lost"
      <4>1. Lose(c) => changes'[c].jobs = {}
        BY <1>1 DEF Lose, Change
      <4>2. JobsInOrder'
        BY MakeJobs
      <4> QED BY <1>9, <2>1, <4>2 DEF JobsInOrder, Running
    <3> QED BY <1>9, <2>1, <3>1, MakeSweep
  <2>2. CASE d # c
    BY <1>1, <1>4, <1>9, <2>2, OtherSweeps
  <2> QED BY <2>1, <2>2
<1>10. ASSUME NEW d \in Told', NEW r \in Relays, Reached(d, r)'
       PROVE  \A k \in DOMAIN l1'[r] : PageShows(l1'[r][k], {d})
  <2>1. CASE d = c
    <3>1. c \in Sweepers /\ Over(c)'
      BY <1>10, <2>1 DEF Told
    <3> QED BY <1>5, <1>10, <2>1, <3>1 DEF LateOnly, PageShows
  <2>2. CASE d # c
    <3>1. d \in Told /\ d \in Sweepers /\ d \in Changes
      BY <1>1, <1>3, <1>10, <2>2 DEF Told
    <3> QED BY <1>1, <1>4, <1>10, <2>2, <3>1, OtherSweeps
  <2> QED BY <2>1, <2>2
<1>11. \A k \in DOMAIN l2' : PageShows(l2'[k], Told')
  <2>1. CASE c \in Sweepers /\ Over(c)'
    BY <1>5, <2>1 DEF LateOnly, PageShows
  <2>2. CASE ~(c \in Sweepers /\ Over(c)')
    <3>1. Told' = Told
      BY <1>3, <2>2 DEF Told
    <3> QED BY <1>1, <3>1 DEF SweepsInOrder, OnlyDrops, SubCache
  <2> QED BY <2>1, <2>2
<1> QED
  BY <1>7, <1>8, <1>9, <1>10, <1>11 DEF SweepsInOrder, PageShows

LEMMA ListenSweeps ==
  ASSUME CacheAssumption, TypeOK, SweepsInOrder, NEW r \in Relays, Listen(r)
  PROVE  SweepsInOrder'
<1>1. /\ OnlyDrops /\ UNCHANGED <<applied, changes>>
      /\ \A x \in Relays \ {r} : links'[x] = links[x]
  BY ListenDrops, OtherRelays
<1>2. /\ Told' = Told /\ Sweepers \subseteq Changes /\ \A c \in Sweepers : Running(c)' = Running(c)
  BY <1>1 DEF Told, Over, Running, Sweepers, Changes
<1>3. /\ DOMAIN l1 = Relays /\ links \in [Relays -> Link] /\ inbox \in [Relays -> SUBSET Changes]
  BY DEF TypeOK
<1>4. ASSUME NEW c, NEW x \in Relays, Reached(c, x)'
      PROVE  Reached(c, x) \/ l1'[x] = NoEntries
  <2>1. ASSUME NEW d, Receive(r, d)
        PROVE  Reached(c, x) \/ l1'[x] = NoEntries
    BY <1>3, <1>4, <2>1 DEF Receive, Reached
  <2>2. CASE Reconnect(r)
    BY <1>3, <1>4, <2>2 DEF Reconnect, Reached
  <2>3. CASE Disconnect(r)
    BY <1>3, <1>4, <2>3 DEF Disconnect, Reached
  <2>4. CASE Evict(r)
    BY <1>4, <2>4 DEF Evict, Reached
  <2>5. CASE FlushScan(r) \/ FlushDelete(r) \/ FlushGens(r) \/ FlushFails(r)
    <3>1. UNCHANGED inbox /\ (FlushFails(r) \/ \E job, keys : FlushStep(r, job, keys))
      BY <2>5 DEF FlushScan, FlushDelete, FlushGens, FlushFails
    <3>2. FlushFails(r) => links'[r].up = links[r].up
      BY <1>3 DEF FlushFails, Link
    <3>3. links'[r].up = links[r].up
      BY <3>1, <3>2, FlushJobDone
    <3> QED BY <1>1, <1>4, <3>1, <3>3 DEF Reached
  <2> QED BY <2>1, <2>2, <2>3, <2>4, <2>5 DEF Listen
<1>5. Ongoing' => \A q \in Readers : Active(readers'[q]) => readers'[q].late
  <2>1. CASE Reconnect(r)
    BY <2>1, OvertakenAged DEF Reconnect, Aged, Active
  <2>2. CASE ~Reconnect(r)
    <3>1. links'[r].jobs \subseteq links[r].jobs
      <4>1. CASE Disconnect(r)
        BY <1>3, <4>1 DEF Disconnect
      <4>2. CASE FlushFails(r)
        BY <1>3, <4>2 DEF FlushFails, Link
      <4>3. CASE FlushScan(r) \/ FlushDelete(r) \/ FlushGens(r)
        BY <4>3, FlushJobDone DEF FlushScan, FlushDelete, FlushGens
      <4>4. CASE Evict(r) \/ \E c \in Changes : Receive(r, c)
        BY <4>4 DEF Evict, Receive
      <4> QED BY <2>2, <4>1, <4>2, <4>3, <4>4 DEF Listen
    <3>2. Ongoing' => Ongoing
      BY <1>1, <1>2, <3>1 DEF Ongoing
    <3> QED BY <1>1, <3>2 DEF SweepsInOrder, OnlyDrops, Aged, Active
  <2> QED BY <2>1, <2>2
<1>6. \A q \in Readers : ReaderTold(readers[q])'
  BY <1>1, <1>2, DropSweeps
<1>7. \A c \in Sweepers :
        /\ Running(c)' /\ ~changes'[c].failed => SweepMade(c)'
        /\ c \in Told => \A x \in Relays :
             Reached(c, x)' => \A k \in DOMAIN l1'[x] : PageShows(l1'[x][k], {c})
  BY <1>1, <1>4, OtherSweeps
<1>8. \A k \in DOMAIN l2' : PageShows(l2'[k], Told)
  BY <1>1 DEF SweepsInOrder, OnlyDrops, SubCache
<1>9. Told \subseteq Sweepers
  BY DEF Told
<1> QED
  BY <1>2, <1>5, <1>6, <1>7, <1>8, <1>9 DEF SweepsInOrder, PageShows

LEMMA NextSweeps ==
  ASSUME CacheAssumption, TypeOK, JobsInOrder, SweepsInOrder, [Next]_vars
  PROVE  SweepsInOrder'
<1>1. CASE UNCHANGED vars
  <2>1. Told' = Told
    BY <1>1 DEF vars, Told, Over
  <2>2. \A q \in Readers : ReaderTold(readers[q])'
    BY <1>1, <2>1 DEF vars, SweepsInOrder, ReaderTold
  <2>3. /\ Ongoing' = Ongoing
        /\ \A c : SweepMade(c)' = SweepMade(c) /\ Running(c)' = Running(c)
        /\ \A c, r : Reached(c, r)' = Reached(c, r)
    BY <1>1 DEF vars, Ongoing, SweepMade, Running, Reached
  <2> QED BY <1>1, <2>1, <2>2, <2>3 DEF vars, SweepsInOrder
<1> QED
  BY <1>1, ReadSweeps, MakeSweeps, ListenSweeps DEF Next

SweepInvariant == TypeOK /\ JobsInOrder /\ SweepsInOrder

\* Once the moderation of a post or a setting has been acknowledged, no relay that
\* the message has reached serves the page as it was, from either cache, unless the
\* page was read by a request that an invalidation overtook (invalidate.rs apply,
\* cache.rs get_or_build).
THEOREM ModerationsAreSeen == Spec => []ModerationSeen
<1>1. Init => SweepInvariant
  BY CacheAssumption, InitType, InitJobs, InitSweeps DEF SweepInvariant
<1>2. SweepInvariant /\ [Next]_vars => SweepInvariant'
  BY CacheAssumption, NextType, NextJobs, NextSweeps DEF SweepInvariant
<1>3. SweepInvariant => ModerationSeen
  BY DEF SweepInvariant, SweepsInOrder, ReaderTold, PageShows, ModerationSeen, Answered, Sweepers
<1> QED
  BY <1>1, <1>2, <1>3, PTL DEF Spec
=============================================================================
