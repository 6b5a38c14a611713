---------------------------- MODULE BrowserProofs ----------------------------
(***************************************************************************)
(* Proofs about what a user reads, writes and does things with, for every  *)
(* value of the constants: the previews of posts, the composer, the        *)
(* gallery, the position in a thread, and the addresses and their history. *)
(*                                                                         *)
(* Each part has an inductive invariant (TipInv, CompInv, GalInv,          *)
(* ReadInv, NavInv), which holds of its initial states and is kept by each *)
(* of its actions.                                                         *)
(* In MCBrowser a behaviour is one of one part, so that what holds of the  *)
(* part holds of MCSpec.                                                   *)
(***************************************************************************)
EXTENDS MCBrowser, FiniteSetTheorems, SequenceTheorems, WellFoundedInduction, TLAPS

-----------------------------------------------------------------------------
\* Least and greatest numbers.

NatLess == {e \in Nat \X Nat : e[1] < e[2]}

LEMMA NatLessWellFounded == IsWellFoundedOn(NatLess, Nat)
  BY NatLessThanWellFounded DEF NatLess, OpToRel

LEMMA LeastNumber ==
  ASSUME NEW S, S \subseteq Nat, S # {}
  PROVE  \E n \in S : \A m \in S : n <= m
<1>1. PICK n \in S : \A m \in S : ~(<<m, n>> \in NatLess)
  BY NatLessWellFounded, WFMin
<1>2. ASSUME NEW m \in S PROVE n <= m
  <2>1. m \in Nat /\ n \in Nat
    OBVIOUS
  <2>2. <<m, n>> \in Nat \X Nat /\ <<m, n>>[1] = m /\ <<m, n>>[2] = n
    BY <2>1
  <2>3. ~(m < n)
    BY <1>1, <2>2 DEF NatLess
  <2> QED BY <2>1, <2>3
<1> QED BY <1>2

LEMMA GreatestNumber ==
  ASSUME NEW S, S \subseteq Nat, S # {}, NEW bound \in Nat, \A m \in S : m <= bound
  PROVE  \E n \in S : \A m \in S : n >= m
<1> DEFINE Bounds == {k \in Nat : \A m \in S : m <= k}
<1>1. PICK n \in Bounds : \A k \in Bounds : n <= k
  <2>1. Bounds \subseteq Nat /\ bound \in Bounds
    OBVIOUS
  <2> QED BY <2>1, LeastNumber
<1>2. n \in Nat /\ \A m \in S : m <= n
  BY <1>1
<1>3. n \in S
  <2> SUFFICES ASSUME n \notin S PROVE FALSE
    OBVIOUS
  <2>1. \A m \in S : m \in Nat /\ m # n /\ m <= n
    <3> SUFFICES ASSUME NEW m \in S PROVE m \in Nat /\ m # n /\ m <= n
      OBVIOUS
    <3>1. m \in Nat
      OBVIOUS
    <3>2. m # n
      OBVIOUS
    <3> QED BY <1>2, <3>1, <3>2
  <2>2. n > 0
    <3>1. PICK x \in S : TRUE
      OBVIOUS
    <3> QED BY <1>2, <2>1, <3>1
  <2>3. n - 1 \in Bounds
    BY <1>2, <2>1, <2>2
  <2> QED BY <1>1, <1>2, <2>3
<1> QED BY <1>2, <1>3

-----------------------------------------------------------------------------
\* Previews of posts.

Spots == Nat \X (Links \cup {None})
Previews == [id : Nat, anchor : Spots]

\* The innermost preview of c that the pointer is over at a place is the d-th.
IsDeepest(c, place, d) ==
  /\ d \in 0 .. Len(c)
  /\ d > 0 => T!IsOver(c[d], place)
  /\ \A i \in DOMAIN c : T!IsOver(c[i], place) => i <= d

LEMMA DeepestExists ==
  ASSUME NEW c \in Seq(Previews), NEW place
  PROVE  IsDeepest(c, place, T!Max({0} \cup {i \in DOMAIN c : T!IsOver(c[i], place)}))
<1> DEFINE under == {0} \cup {i \in DOMAIN c : T!IsOver(c[i], place)}
<1>1. DOMAIN c = 1 .. Len(c) /\ Len(c) \in Nat
  OBVIOUS
<1>2. under \subseteq 0 .. Len(c) /\ 0 \in under
  BY <1>1
<1>3. \E d \in under : \A m \in under : d >= m
  <2>1. under \subseteq Nat /\ under # {} /\ \A m \in under : m <= Len(c)
    BY <1>1, <1>2
  <2> HIDE DEF under
  <2> QED BY <1>1, <2>1, GreatestNumber
<1>4. T!Max(under) \in under /\ \A m \in under : T!Max(under) >= m
  BY <1>3 DEF T!Max
<1> QED BY <1>1, <1>2, <1>4 DEF IsDeepest

\* Previews c with numbers below n, each on a link of an earlier one.
ChainOK(c, n) ==
  /\ c \in Seq(Previews)
  /\ \A i \in DOMAIN c : c[i].id \in 1 .. n - 1
  /\ \A i, j \in DOMAIN c : c[i].id = c[j].id => i = j
  /\ \A i \in 2 .. Len(c) : \E j \in 1 .. (i - 1) : c[i].anchor[1] = c[j].id

\* Groups of previews on their way out, next to the open ones.
FadingOK(groups, c, n) ==
  /\ \A g, h \in groups : g = h \/ g \cap h = {}
  /\ \A g \in groups : g # {} /\ g \cap T!Ids(c) = {} /\ g \subseteq 1 .. n - 1

LEMMA CutOK ==
  ASSUME NEW c, NEW n \in Nat, ChainOK(c, n), NEW k \in 0 .. Len(c)
  PROVE  /\ ChainOK(SubSeq(c, 1, k), n)
         /\ Len(SubSeq(c, 1, k)) = k
         /\ \A i \in 1 .. k : SubSeq(c, 1, k)[i] = c[i]
         /\ T!Ids(SubSeq(c, 1, k)) \subseteq T!Ids(c)
<1> DEFINE s == SubSeq(c, 1, k)
<1>1. c \in Seq(Previews) /\ Len(c) \in Nat /\ DOMAIN c = 1 .. Len(c)
  BY DEF ChainOK
<1>2. s \in Seq(Previews) /\ Len(s) = k /\ DOMAIN s = 1 .. k /\ \A i \in 1 .. k : s[i] = c[i]
  BY <1>1
<1> HIDE DEF s
<1>3. ChainOK(s, n)
  <2>1. ASSUME NEW i \in 2 .. Len(s) PROVE \E j \in 1 .. (i - 1) : s[i].anchor[1] = s[j].id
    <3>1. i \in 2 .. Len(c) /\ i \in 1 .. k
      BY <1>1, <1>2
    <3>2. PICK j \in 1 .. (i - 1) : c[i].anchor[1] = c[j].id
      BY <3>1 DEF ChainOK
    <3>3. j \in 1 .. k
      BY <3>1
    <3> QED BY <1>2, <3>1, <3>2, <3>3
  <2>2. \A i \in DOMAIN s : s[i].id \in 1 .. n - 1
    BY <1>1, <1>2 DEF ChainOK
  <2>3. \A i, j \in DOMAIN s : s[i].id = s[j].id => i = j
    BY <1>1, <1>2 DEF ChainOK
  <2> QED BY <1>2, <2>1, <2>2, <2>3 DEF ChainOK
<1>4. T!Ids(s) \subseteq T!Ids(c)
  BY <1>1, <1>2 DEF T!Ids
<1> QED BY <1>2, <1>3, <1>4 DEF s

\* A preview that opens is the innermost, and the pointer is over it.
LEMMA JoinOK ==
  ASSUME NEW c, nextId \in Nat \ {0}, ChainOK(c, nextId), NEW anchor \in Spots,
         NEW d, d = T!Joined(c, anchor), ~T!IsOpen(c, anchor)
  PROVE  /\ ChainOK(d, nextId + 1) /\ d # <<>>
         /\ T!IsOver(d[Len(d)], anchor)
         /\ T!Ids(d) \subseteq T!Ids(c) \cup {nextId}
         /\ T!Nested(c, anchor) => T!Ids(c) \subseteq T!Ids(d)
<1> DEFINE entry == [id |-> nextId, anchor |-> anchor]
<1>1. entry \in Previews /\ entry.id = nextId /\ entry.anchor = anchor
  BY DEF Previews
<1>2. c \in Seq(Previews) /\ Len(c) \in Nat /\ DOMAIN c = 1 .. Len(c)
  BY DEF ChainOK
<1>3. CASE T!Nested(c, anchor)
  <2>1. d = Append(c, entry)
    BY <1>3 DEF T!Joined
  <2> HIDE DEF entry
  <2>2. /\ d \in Seq(Previews) /\ Len(d) = Len(c) + 1 /\ DOMAIN d = 1 .. Len(c) + 1
        /\ \A i \in 1 .. Len(c) : d[i] = c[i]
        /\ d[Len(c) + 1] = entry
    BY <1>1, <1>2, <2>1
  <2>3. \A i \in DOMAIN d : d[i].id \in 1 .. (nextId + 1) - 1
    BY <1>1, <1>2, <2>2 DEF ChainOK
  <2>4. \A i, j \in DOMAIN d : d[i].id = d[j].id => i = j
    BY <1>1, <1>2, <2>2 DEF ChainOK
  <2>5. ASSUME NEW i \in 2 .. Len(d) PROVE \E j \in 1 .. (i - 1) : d[i].anchor[1] = d[j].id
    <3>1. CASE i = Len(d)
      <4>1. PICK j \in DOMAIN c : c[j].id = anchor[1]
        BY <1>3 DEF T!Nested, T!Ids
      <4>2. j \in 1 .. (i - 1) /\ d[j] = c[j] /\ d[i] = entry
        BY <1>2, <2>2, <3>1, <4>1
      <4> QED BY <1>1, <4>1, <4>2
    <3>2. CASE i # Len(d)
      <4>1. i \in 2 .. Len(c)
        BY <1>2, <2>2, <3>2
      <4>2. PICK j \in 1 .. (i - 1) : c[i].anchor[1] = c[j].id
        BY <4>1 DEF ChainOK
      <4>3. d[i] = c[i] /\ d[j] = c[j]
        BY <2>2, <4>1, <4>2
      <4> QED BY <4>2, <4>3
    <3> QED BY <3>1, <3>2
  <2>6. T!Ids(d) \subseteq T!Ids(c) \cup {nextId} /\ T!Ids(c) \subseteq T!Ids(d)
    BY <1>1, <1>2, <2>2 DEF T!Ids
  <2>7. T!IsOver(d[Len(d)], anchor) /\ d # <<>>
    BY <1>1, <1>2, <2>2 DEF T!IsOver
  <2> QED BY <2>2, <2>3, <2>4, <2>5, <2>6, <2>7 DEF ChainOK
<1>4. CASE ~T!Nested(c, anchor)
  <2>1. d = <<entry>>
    BY <1>4 DEF T!Joined
  <2> HIDE DEF entry
  <2>2. d \in Seq(Previews) /\ Len(d) = 1 /\ DOMAIN d = 1 .. 1 /\ d[1] = entry
    BY <1>1, <2>1
  <2>3. ChainOK(d, nextId + 1)
    <3>1. \A i \in DOMAIN d : i = 1 /\ d[i] = entry
      BY <2>2
    <3>2. nextId \in 1 .. (nextId + 1) - 1 /\ 2 .. Len(d) = {}
      BY <2>2
    <3>3. \A i \in DOMAIN d : d[i].id \in 1 .. (nextId + 1) - 1
      BY <1>1, <3>1, <3>2
    <3>4. \A i, j \in DOMAIN d : d[i].id = d[j].id => i = j
      BY <3>1
    <3> QED BY <2>2, <3>2, <3>3, <3>4 DEF ChainOK
  <2>4. T!Ids(d) \subseteq {nextId}
    BY <1>1, <2>2 DEF T!Ids
  <2>5. T!IsOver(d[Len(d)], anchor) /\ d # <<>>
    <3>1. d[Len(d)] = entry /\ d # <<>>
      BY <2>1, <2>2 DEF entry
    <3> QED BY <1>1, <3>1 DEF T!IsOver
  <2> QED BY <1>4, <2>3, <2>4, <2>5
<1> QED BY <1>3, <1>4

\* What closes fades as a group of its own.
LEMMA FadeOK ==
  ASSUME NEW groups, NEW c, NEW n \in Nat \ {0}, ChainOK(c, n), FadingOK(groups, c, n),
         NEW d, NEW m \in {n, n + 1}, T!Ids(d) \subseteq T!Ids(c) \cup {n},
         NEW now, now \subseteq groups \cup {T!Ids(c) \ T!Ids(d)}, {} \notin now
  PROVE  FadingOK(now, d, m)
<1>1. T!Ids(c) \subseteq 1 .. n - 1
  BY DEF ChainOK, T!Ids
<1> DEFINE group == T!Ids(c) \ T!Ids(d)
<1>2. group \subseteq 1 .. n - 1 /\ group \cap T!Ids(d) = {}
  BY <1>1
<1>3. ASSUME NEW g \in groups
      PROVE  g \subseteq 1 .. n - 1 /\ g \cap T!Ids(d) = {} /\ g \cap group = {}
  <2>1. g \subseteq 1 .. n - 1 /\ g \cap T!Ids(c) = {}
    BY DEF FadingOK
  <2>2. n \notin g
    BY <2>1
  <2> QED BY <2>1, <2>2
<1>4. \A g \in now : g \in groups \/ g = group
  OBVIOUS
<1> HIDE DEF group
<1>5. \A g \in now : g # {} /\ g \cap T!Ids(d) = {} /\ g \subseteq 1 .. n - 1
  BY <1>2, <1>3, <1>4
<1>6. \A g, h \in now : g = h \/ g \cap h = {}
  <2> SUFFICES ASSUME NEW g \in now, NEW h \in now PROVE g = h \/ g \cap h = {}
    OBVIOUS
  <2>1. CASE g \in groups /\ h \in groups
    BY <2>1 DEF FadingOK
  <2>2. CASE g = group \/ h = group
    BY <1>3, <1>4, <2>2
  <2> QED BY <1>4, <2>1, <2>2
<1>7. 1 .. n - 1 \subseteq 1 .. m - 1
  OBVIOUS
<1> QED BY <1>5, <1>6, <1>7 DEF FadingOK

-----------------------------------------------------------------------------
\* The delay runs only for a mouse; where it is is known while the page has not
\* moved under it.
TipTypes ==
  /\ touch \in BOOLEAN /\ closeTimer \in BOOLEAN /\ scrolled \in BOOLEAN
  /\ nextId \in Nat \ {0} /\ at \in Spots
  /\ hover = None \/ hover \in Spots

PointerKnown ==
  /\ touch => hover = None /\ ~closeTimer /\ ~scrolled
  /\ hover # None => hover = at
  /\ ~scrolled => lastMove = at

TipInv ==
  /\ TipTypes /\ PointerKnown
  /\ ChainOK(chain, nextId) /\ FadingOK(fading, chain, nextId)
  /\ closeTimer => chain # <<>>
  /\ T!LeftIsGoing

LEMMA TipInvSafe == TipInv => T!TooltipsSafety
  BY DEF TipInv, ChainOK, FadingOK, T!TooltipsSafety, T!TypeOK, T!HangsOnOpenLink

\* The innermost preview under a place, in the previews there are.
LEMMA Deepest ==
  ASSUME NEW n, ChainOK(chain, n), NEW place
  PROVE  IsDeepest(chain, place, T!DeepestUnder(place))
  BY DeepestExists DEF ChainOK, T!DeepestUnder

LEMMA DeepestAfter ==
  ASSUME NEW n, ChainOK(chain', n)
  PROVE  IsDeepest(chain', at', T!DeepestUnder(at)')
<1>1. T!DeepestUnder(at)' = T!Max({0} \cup {i \in DOMAIN chain' : T!IsOver(chain'[i], at')})
  BY DEF T!DeepestUnder
<1> QED BY <1>1, DeepestExists DEF ChainOK

LEMMA TipInit == T!Init => TipInv
<1> SUFFICES ASSUME T!Init PROVE TipInv
  OBVIOUS
<1> USE DEF T!Init, T!Page
<1>1. ChainOK(chain, nextId) /\ FadingOK(fading, chain, nextId)
  BY DEF ChainOK, FadingOK
<1>2. T!LeftIsGoing
  BY <1>1, Deepest DEF T!LeftIsGoing, IsDeepest
<1>3. at \in Spots
  BY DEF Spots
<1>4. TipTypes
  <2>1. closeTimer \in BOOLEAN /\ scrolled \in BOOLEAN
    OBVIOUS
  <2>2. nextId \in Nat \ {0}
    OBVIOUS
  <2>3. touch \in BOOLEAN /\ hover = None
    OBVIOUS
  <2> QED BY <1>3, <2>1, <2>2, <2>3 DEF TipTypes
<1>5. PointerKnown
  BY DEF PointerKnown
<1> QED BY <1>1, <1>2, <1>4, <1>5 DEF TipInv

-----------------------------------------------------------------------------
\* Closing: the previews after the k-th go.
LEMMA Truncated ==
  ASSUME TipInv, NEW k \in 0 .. Len(chain), T!Truncate(k), UNCHANGED nextId
  PROVE  /\ ChainOK(chain', nextId') /\ FadingOK(fading', chain', nextId')
         /\ Len(chain') = k /\ \A i \in 1 .. k : chain'[i] = chain[i]
<1>1. ChainOK(chain, nextId) /\ FadingOK(fading, chain, nextId) /\ nextId \in Nat \ {0}
  BY DEF TipInv, TipTypes
<1>2. chain' = SubSeq(chain, 1, k)
  BY DEF T!Truncate
<1>3. /\ ChainOK(chain', nextId) /\ Len(chain') = k /\ \A i \in 1 .. k : chain'[i] = chain[i]
      /\ T!Ids(chain') \subseteq T!Ids(chain)
  BY <1>1, <1>2, CutOK
<1>4. fading' \subseteq fading \cup {T!Ids(chain) \ T!Ids(chain')} /\ {} \notin fading'
  BY <1>1, <1>2 DEF T!Truncate, T!Fade, FadingOK
<1>5. FadingOK(fading', chain', nextId)
  BY <1>1, <1>3, <1>4, FadeOK
<1> QED BY <1>3, <1>5

\* Opening, over the first k of the previews.
LEMMA Opened ==
  ASSUME TipInv, NEW k \in 0 .. Len(chain), NEW anchor \in Spots,
         T!Open(SubSeq(chain, 1, k), anchor), T!Fade(T!Ids(chain) \ T!Ids(chain'))
  PROVE  /\ ChainOK(chain', nextId') /\ FadingOK(fading', chain', nextId')
         /\ nextId' \in Nat \ {0}
         /\ IF T!IsOpen(SubSeq(chain, 1, k), anchor)
            THEN chain' = SubSeq(chain, 1, k)
            ELSE /\ chain' # <<>> /\ T!IsOver(chain'[Len(chain')], anchor)
                 /\ T!Nested(SubSeq(chain, 1, k), anchor) =>
                      T!Ids(SubSeq(chain, 1, k)) \subseteq T!Ids(chain')
<1> DEFINE kept == SubSeq(chain, 1, k)
<1>1. ChainOK(chain, nextId) /\ FadingOK(fading, chain, nextId) /\ nextId \in Nat \ {0}
  BY DEF TipInv, TipTypes
<1>2. ChainOK(kept, nextId) /\ T!Ids(kept) \subseteq T!Ids(chain)
  BY <1>1, CutOK
<1>3. chain' = T!Joined(kept, anchor)
  BY DEF T!Open
<1>4. fading' \subseteq fading \cup {T!Ids(chain) \ T!Ids(chain')} /\ {} \notin fading'
  BY <1>1 DEF T!Fade, FadingOK
<1>5. CASE T!IsOpen(kept, anchor)
  <2>1. chain' = kept /\ nextId' = nextId
    BY <1>3, <1>5 DEF T!Joined, T!Open
  <2> HIDE DEF kept
  <2>2. FadingOK(fading', chain', nextId)
    BY <1>1, <1>2, <1>4, <2>1, FadeOK
  <2> QED BY <1>1, <1>2, <1>5, <2>1, <2>2 DEF kept
<1>6. CASE ~T!IsOpen(kept, anchor)
  <2>1. nextId' = nextId + 1
    BY <1>6 DEF T!Open
  <2> HIDE DEF kept
  <2>2. /\ ChainOK(chain', nextId + 1) /\ chain' # <<>>
        /\ T!IsOver(chain'[Len(chain')], anchor)
        /\ T!Ids(chain') \subseteq T!Ids(kept) \cup {nextId}
        /\ T!Nested(kept, anchor) => T!Ids(kept) \subseteq T!Ids(chain')
    BY <1>1, <1>2, <1>3, <1>6, JoinOK
  <2>3. FadingOK(fading', chain', nextId + 1)
    BY <1>1, <1>2, <1>4, <2>2, FadeOK
  <2> QED BY <1>1, <1>6, <2>1, <2>2, <2>3 DEF kept
<1> QED BY <1>5, <1>6

-----------------------------------------------------------------------------
\* Where the pointer is over the innermost preview, nothing has to go.
LEMMA OverInnermost ==
  ASSUME NEW s \in Seq(Previews), s # <<>>, NEW place, T!IsOver(s[Len(s)], place),
         NEW e, IsDeepest(s, place, e)
  PROVE  e = Len(s)
<1>1. Len(s) \in Nat \ {0} /\ Len(s) \in DOMAIN s
  OBVIOUS
<1> QED BY <1>1 DEF IsDeepest

LEMMA DeepestOfCut ==
  ASSUME NEW c, NEW s \in Seq(Previews), NEW place, NEW d, IsDeepest(c, place, d),
         Len(s) = d, \A i \in 1 .. d : s[i] = c[i], NEW e, IsDeepest(s, place, e)
  PROVE  e = Len(s)
<1>1. CASE d = 0
  BY <1>1 DEF IsDeepest
<1>2. CASE d # 0
  <2>1. d \in Nat \ {0} /\ s[d] = c[d] /\ T!IsOver(c[d], place)
    BY <1>2 DEF IsDeepest
  <2>2. s # <<>> /\ T!IsOver(s[Len(s)], place)
    BY <2>1
  <2> QED BY <2>2, OverInnermost
<1> QED BY <1>1, <1>2

\* The previews there are, closed down to the innermost under where the pointer
\* now is.
LEMMA CutSettles ==
  ASSUME TipInv, NEW k, k = T!DeepestUnder(at'), T!Truncate(k), UNCHANGED nextId
  PROVE  /\ k \in 0 .. Len(chain)
         /\ ChainOK(chain', nextId') /\ FadingOK(fading', chain', nextId')
         /\ Len(chain') = k /\ \A i \in 1 .. k : chain'[i] = chain[i]
         /\ T!DeepestUnder(at)' = Len(chain')
<1>1. IsDeepest(chain, at', k)
  BY Deepest DEF TipInv
<1>2. k \in 0 .. Len(chain)
  BY <1>1 DEF IsDeepest
<1>3. /\ ChainOK(chain', nextId') /\ FadingOK(fading', chain', nextId')
      /\ Len(chain') = k /\ \A i \in 1 .. k : chain'[i] = chain[i]
  BY <1>2, Truncated
<1>4. IsDeepest(chain', at', T!DeepestUnder(at)')
  BY <1>3, DeepestAfter
<1>5. chain' \in Seq(Previews)
  BY <1>3 DEF ChainOK
<1>6. ASSUME NEW e, IsDeepest(chain', at', e) PROVE e = Len(chain')
  BY <1>1, <1>3, <1>5, <1>6, DeepestOfCut
<1> QED BY <1>2, <1>3, <1>4, <1>6

LEMMA PlacesAreSpots == ASSUME TipInv, NEW place \in T!Places PROVE place \in Spots
<1>1. T!Ids(chain) \subseteq Nat
  BY DEF TipInv, ChainOK, T!Ids
<1> QED BY <1>1 DEF T!Places, Spots

LEMMA TipMove == ASSUME TipInv, NEW place \in T!Places, T!Move(place) PROVE TipInv'
<1> USE DEF T!Move
<1>1. chain' = chain /\ fading' = fading /\ nextId' = nextId /\ at' = place /\ touch' = touch
  BY DEF T!KeepUnder
<1>2. lastMove' = place /\ scrolled' = FALSE
  BY DEF T!KeepUnder
<1>3. closeTimer' = (T!DeepestUnder(place) < Len(chain))
  BY DEF T!KeepUnder
<1>31. closeTimer' \in BOOLEAN /\ (closeTimer' => T!DeepestUnder(place) < Len(chain))
  <2>1. T!DeepestUnder(place) \in Int /\ Len(chain) \in Int
    BY Deepest DEF TipInv, IsDeepest, ChainOK
  <2>2. (T!DeepestUnder(place) < Len(chain)) \in BOOLEAN
    BY <2>1
  <2> QED BY <1>3, <2>2, Zenon
<1>4. hover' = None \/ hover' = place
  BY DEF T!Hovering
<1>5. TipTypes'
  <2>1. closeTimer' \in BOOLEAN /\ scrolled' \in BOOLEAN /\ touch' \in BOOLEAN
    BY <1>1, <1>2, <1>31 DEF TipInv, TipTypes
  <2>2. nextId' \in Nat \ {0} /\ at' \in Spots /\ (hover' = None \/ hover' \in Spots)
    BY <1>1, <1>4, PlacesAreSpots DEF TipInv, TipTypes
  <2> QED BY <2>1, <2>2 DEF TipTypes
<1>6. PointerKnown'
  BY <1>1, <1>2, <1>4 DEF PointerKnown
<1>7. ChainOK(chain', nextId') /\ FadingOK(fading', chain', nextId')
  BY <1>1 DEF TipInv
<1>8. IsDeepest(chain, place, T!DeepestUnder(place))
  BY Deepest DEF TipInv
<1>9. closeTimer' => chain' # <<>>
  <2>1. CASE chain = <<>>
    <3>1. Len(chain) = 0
      BY <2>1
    <3> QED BY <1>31, <1>8, <3>1 DEF IsDeepest
  <2> QED BY <1>1, <2>1
<1>10. T!LeftIsGoing'
  <2>1. T!DeepestUnder(at)' = T!DeepestUnder(place)
    BY <1>1 DEF T!DeepestUnder
  <2> QED BY <1>1, <1>3, <2>1 DEF T!LeftIsGoing
<1> QED BY <1>5, <1>6, <1>7, <1>9, <1>10 DEF TipInv

LEMMA TipScroll == ASSUME TipInv, NEW place \in T!Places, T!Scroll(place) PROVE TipInv'
<1> USE DEF T!Scroll
<1>1. hover' = None \/ hover' = place
  BY DEF T!Hovering
<1>2. TipTypes'
  BY <1>1, PlacesAreSpots DEF TipInv, TipTypes
<1>3. PointerKnown'
  BY <1>1 DEF PointerKnown
<1>4. ChainOK(chain', nextId') /\ FadingOK(fading', chain', nextId')
  BY DEF TipInv
<1>5. T!LeftIsGoing'
  BY DEF T!LeftIsGoing
<1> QED BY <1>2, <1>3, <1>4, <1>5 DEF TipInv

LEMMA TipPress == ASSUME TipInv, T!Press PROVE TipInv'
<1> DEFINE d == T!DeepestUnder(at)
<1>1. IsDeepest(chain, at, d)
  BY Deepest DEF TipInv
<1>2. /\ touch' = touch /\ ~touch /\ hover' = hover /\ at' = at /\ nextId' = nextId
      /\ lastMove' = at /\ scrolled' = FALSE
  BY DEF T!Press, T!KeepUnder
<1>3. PointerKnown'
  BY <1>2 DEF TipInv, PointerKnown
<1>4. CASE d = Len(chain)
  <2>1. chain' = chain /\ fading' = fading /\ closeTimer' = (d < Len(chain))
    BY <1>4 DEF T!Press, T!KeepUnder
  <2>2. closeTimer' = FALSE
    <3>1. d \in Int /\ Len(chain) \in Int /\ ~(d < Len(chain))
      BY <1>1, <1>4 DEF IsDeepest
    <3>2. (d < Len(chain)) \in BOOLEAN
      BY <3>1
    <3>3. closeTimer' \in BOOLEAN /\ ~closeTimer'
      BY <2>1, <3>1, <3>2, Zenon
    <3> QED BY <3>3
  <2>3. closeTimer' \in BOOLEAN
    BY <2>2
  <2>4. TipTypes'
    BY <1>2, <2>3 DEF TipInv, TipTypes
  <2>5. ChainOK(chain', nextId') /\ FadingOK(fading', chain', nextId')
    BY <1>2, <2>1 DEF TipInv
  <2>6. T!DeepestUnder(at)' = Len(chain')
    <3>1. T!DeepestUnder(at)' = d
      BY <1>2, <2>1 DEF T!DeepestUnder
    <3> QED BY <1>4, <2>1, <3>1
  <2>7. T!LeftIsGoing'
    <3>1. Len(chain') \in Nat
      BY <2>5 DEF ChainOK
    <3> QED BY <2>6, <3>1 DEF T!LeftIsGoing
  <2> QED BY <1>3, <2>2, <2>4, <2>5, <2>7 DEF TipInv
<1>5. CASE d # Len(chain)
  <2>1. T!Truncate(d) /\ closeTimer' = (closeTimer /\ d > 0)
    BY <1>5 DEF T!Press, T!KeepUnder
  <2>2. d = T!DeepestUnder(at')
    BY <1>2
  <2> HIDE DEF d
  <2>3. /\ d \in 0 .. Len(chain)
        /\ ChainOK(chain', nextId') /\ FadingOK(fading', chain', nextId')
        /\ Len(chain') = d /\ T!DeepestUnder(at)' = Len(chain')
    BY <1>2, <2>1, <2>2, CutSettles
  <2>4. closeTimer' \in BOOLEAN
    BY <2>1
  <2>5. TipTypes'
    BY <1>2, <2>4 DEF TipInv, TipTypes
  <2>6. closeTimer' => chain' # <<>>
    <3>1. closeTimer' => d > 0
      BY <2>1
    <3> QED BY <2>3, <3>1
  <2>7. T!LeftIsGoing'
    <3>1. Len(chain') \in Nat
      BY <2>3 DEF ChainOK
    <3> QED BY <2>3, <3>1 DEF T!LeftIsGoing
  <2> QED BY <1>3, <2>3, <2>5, <2>6, <2>7 DEF TipInv
<1> QED BY <1>4, <1>5

LEMMA TipTap == ASSUME TipInv, NEW place \in T!Places, T!Tap(place) PROVE TipInv'
<1> DEFINE d == T!DeepestUnder(place)
<1>1. IsDeepest(chain, place, d)
  BY Deepest DEF TipInv
<1>2. /\ touch' = touch /\ touch /\ hover' = hover /\ closeTimer' = closeTimer
      /\ at' = place /\ lastMove' = place /\ scrolled' = FALSE
  BY DEF T!Tap
<1>3. hover = None /\ ~closeTimer
  BY <1>2 DEF TipInv, PointerKnown
<1>4. d \in 0 .. Len(chain) /\ place \in Spots
  BY <1>1, PlacesAreSpots DEF IsDeepest
<1>5. T!Fade(T!Ids(chain) \ T!Ids(chain'))
  BY DEF T!Tap
<1>6. PointerKnown'
  BY <1>2, <1>3 DEF PointerKnown
<1>7. /\ ChainOK(chain', nextId') /\ FadingOK(fading', chain', nextId')
      /\ nextId' \in Nat \ {0} /\ T!DeepestUnder(at)' = Len(chain')
  <2>1. ASSUME chain' = SubSeq(chain, 1, d), nextId' = nextId
        PROVE  /\ ChainOK(chain', nextId') /\ FadingOK(fading', chain', nextId')
               /\ nextId' \in Nat \ {0} /\ T!DeepestUnder(at)' = Len(chain')
    <3>1. d = T!DeepestUnder(at')
      BY <1>2
    <3>2. T!Truncate(d)
      BY <1>5, <2>1 DEF T!Truncate
    <3> HIDE DEF d
    <3> QED BY <2>1, <3>1, <3>2, CutSettles DEF TipInv, TipTypes
  <2>2. CASE place[2] = None
    <3>1. chain' = SubSeq(chain, 1, d) /\ nextId' = nextId
      BY <2>2 DEF T!Tap
    <3> QED BY <2>1, <3>1
  <2>3. CASE place[2] # None
    <3>1. T!Open(SubSeq(chain, 1, d), place)
      BY <2>3 DEF T!Tap
    <3> HIDE DEF d
    <3>2. /\ ChainOK(chain', nextId') /\ FadingOK(fading', chain', nextId')
          /\ nextId' \in Nat \ {0}
          /\ IF T!IsOpen(SubSeq(chain, 1, d), place)
             THEN chain' = SubSeq(chain, 1, d)
             ELSE /\ chain' # <<>> /\ T!IsOver(chain'[Len(chain')], place)
                  /\ T!Nested(SubSeq(chain, 1, d), place) =>
                       T!Ids(SubSeq(chain, 1, d)) \subseteq T!Ids(chain')
      BY <1>4, <1>5, <3>1, Opened
    <3>3. CASE T!IsOpen(SubSeq(chain, 1, d), place)
      <4>1. nextId' = nextId /\ chain' = SubSeq(chain, 1, d)
        BY <3>1, <3>2, <3>3 DEF T!Open
      <4> QED BY <2>1, <4>1
    <3>4. CASE ~T!IsOpen(SubSeq(chain, 1, d), place)
      <4>1. chain' # <<>> /\ T!IsOver(chain'[Len(chain')], at') /\ chain' \in Seq(Previews)
        BY <1>2, <3>2, <3>4 DEF ChainOK
      <4>2. IsDeepest(chain', at', T!DeepestUnder(at)')
        BY <3>2, DeepestAfter
      <4>3. ASSUME NEW e, IsDeepest(chain', at', e) PROVE e = Len(chain')
        BY <4>1, <4>3, OverInnermost
      <4> QED BY <3>2, <4>2, <4>3
    <3> QED BY <3>3, <3>4
  <2> QED BY <2>2, <2>3
<1>8. TipTypes'
  BY <1>2, <1>4, <1>7 DEF TipInv, TipTypes
<1>9. T!LeftIsGoing'
  <2>1. Len(chain') \in Nat
    BY <1>7 DEF ChainOK
  <2> QED BY <1>7, <2>1 DEF T!LeftIsGoing
<1>10. closeTimer' => chain' # <<>>
  BY <1>2, <1>3
<1> QED BY <1>6, <1>7, <1>8, <1>9, <1>10 DEF TipInv

LEMMA TipHoverEnds == ASSUME TipInv, T!HoverEnds PROVE TipInv'
<1>1. /\ hover # None /\ hover' = None /\ touch' = touch /\ at' = at
      /\ lastMove' = lastMove /\ scrolled' = scrolled
      /\ T!Fade(T!Ids(chain) \ T!Ids(chain')) /\ T!Open(chain, hover)
  BY DEF T!HoverEnds
<1>2. hover = at /\ hover \in Spots
  BY <1>1 DEF TipInv, PointerKnown, TipTypes
<1>3. Len(chain) \in 0 .. Len(chain) /\ SubSeq(chain, 1, Len(chain)) = chain
  BY DEF TipInv, ChainOK
<1>4. /\ ChainOK(chain', nextId') /\ FadingOK(fading', chain', nextId')
      /\ nextId' \in Nat \ {0}
      /\ IF T!IsOpen(chain, hover)
         THEN chain' = chain
         ELSE chain' # <<>> /\ T!IsOver(chain'[Len(chain')], hover)
  BY <1>1, <1>2, <1>3, Opened
<1>5. closeTimer' = (closeTimer /\ T!IsOpen(chain, hover))
  BY DEF T!HoverEnds
<1>6. closeTimer' \in BOOLEAN /\ (closeTimer' => closeTimer /\ T!IsOpen(chain, hover))
  BY <1>5
<1>7. TipTypes'
  BY <1>1, <1>2, <1>4, <1>6 DEF TipInv, TipTypes
<1>8. PointerKnown'
  BY <1>1, <1>2, <1>6 DEF TipInv, PointerKnown
<1>9. closeTimer' => chain' # <<>>
  BY <1>4, <1>6 DEF TipInv
<1>10. T!LeftIsGoing'
  <2>1. CASE T!IsOpen(chain, hover)
    <3>1. chain' = chain
      BY <1>4, <2>1
    <3>2. T!DeepestUnder(at)' = T!DeepestUnder(at)
      BY <1>1, <3>1 DEF T!DeepestUnder
    <3>3. closeTimer => closeTimer'
      BY <1>5, <2>1 DEF TipInv, TipTypes
    <3> QED BY <1>1, <3>1, <3>2, <3>3 DEF TipInv, T!LeftIsGoing
  <2>2. CASE ~T!IsOpen(chain, hover)
    <3>1. chain' # <<>> /\ T!IsOver(chain'[Len(chain')], at') /\ chain' \in Seq(Previews)
      BY <1>1, <1>2, <1>4, <2>2 DEF ChainOK
    <3>2. IsDeepest(chain', at', T!DeepestUnder(at)')
      BY <1>4, DeepestAfter
    <3>3. ASSUME NEW e, IsDeepest(chain', at', e) PROVE e = Len(chain')
      BY <3>1, <3>3, OverInnermost
    <3>4. Len(chain') \in Nat /\ T!DeepestUnder(at)' = Len(chain')
      BY <3>1, <3>2, <3>3
    <3> QED BY <3>4 DEF T!LeftIsGoing
  <2> QED BY <2>1, <2>2
<1> QED BY <1>4, <1>7, <1>8, <1>9, <1>10 DEF TipInv

LEMMA TipCloseDelayEnds == ASSUME TipInv, T!CloseDelayEnds PROVE TipInv'
<1>1. /\ closeTimer' = FALSE /\ T!Truncate(T!DeepestUnder(lastMove))
      /\ UNCHANGED <<touch, hover, at, lastMove, scrolled, nextId>>
  BY DEF T!CloseDelayEnds
<1> DEFINE d == T!DeepestUnder(lastMove)
<1>2. d \in 0 .. Len(chain)
  BY Deepest DEF TipInv, IsDeepest
<1>3. ChainOK(chain', nextId') /\ FadingOK(fading', chain', nextId')
  BY <1>1, <1>2, Truncated
<1>4. TipTypes' /\ PointerKnown'
  BY <1>1 DEF TipInv, TipTypes, PointerKnown
<1>5. T!LeftIsGoing'
  <2>1. CASE scrolled
    BY <1>1, <2>1 DEF T!LeftIsGoing
  <2>2. CASE ~scrolled
    <3>1. d = T!DeepestUnder(at')
      BY <1>1, <2>2 DEF TipInv, PointerKnown
    <3>2. T!Truncate(d) /\ UNCHANGED nextId
      BY <1>1
    <3> HIDE DEF d
    <3>3. T!DeepestUnder(at)' = Len(chain') /\ Len(chain') \in Nat
      BY <1>3, <3>1, <3>2, CutSettles DEF ChainOK
    <3> QED BY <3>3 DEF T!LeftIsGoing
  <2> QED BY <2>1, <2>2
<1> QED BY <1>1, <1>3, <1>4, <1>5 DEF TipInv

LEMMA TipFadeEnds == ASSUME TipInv, NEW group, T!FadeEnds(group) PROVE TipInv'
<1>1. UNCHANGED <<touch, chain, closeTimer, hover, at, lastMove, scrolled, nextId>>
  BY DEF T!FadeEnds
<1>2. FadingOK(fading', chain', nextId')
  BY <1>1 DEF TipInv, FadingOK, T!FadeEnds
<1>3. T!LeftIsGoing'
  <2>1. T!DeepestUnder(at)' = T!DeepestUnder(at)
    BY <1>1 DEF T!DeepestUnder
  <2> QED BY <1>1, <2>1 DEF TipInv, T!LeftIsGoing
<1> QED BY <1>1, <1>2, <1>3 DEF TipInv, TipTypes, PointerKnown

LEMMA TipSame ==
  ASSUME TipInv, UNCHANGED <<chain, touch, fading, closeTimer, hover, at, lastMove, scrolled,
                             nextId>>
  PROVE  TipInv'
<1>1. T!LeftIsGoing'
  <2>1. T!DeepestUnder(at)' = T!DeepestUnder(at)
    BY DEF T!DeepestUnder
  <2> QED BY <2>1 DEF TipInv, T!LeftIsGoing
<1> QED BY <1>1 DEF TipInv, TipTypes, PointerKnown

LEMMA TipNext == ASSUME TipInv, T!Next PROVE TipInv'
<1>1. CASE \E place \in T!Places : T!Move(place) \/ T!Scroll(place) \/ T!Tap(place)
  BY <1>1, TipMove, TipScroll, TipTap
<1>2. CASE \E group \in fading : T!FadeEnds(group)
  BY <1>2, TipFadeEnds
<1> QED BY <1>1, <1>2, TipPress, TipHoverEnds, TipCloseDelayEnds DEF T!Next

-----------------------------------------------------------------------------
\* What keeps the previews down to the innermost under the pointer keeps all that
\* it is over.
LEMMA KeptStay ==
  ASSUME TipInv, NEW k, IsDeepest(chain, at, k), Len(chain') \in Nat,
         DOMAIN chain' = 1 .. Len(chain'), Len(chain') >= k,
         \A i \in 1 .. k : chain'[i] = chain[i]
  PROVE  T!Stays
<1> SUFFICES ASSUME NEW i \in DOMAIN chain, NEW j \in i .. Len(chain), T!IsOver(chain[j], at)
             PROVE  chain[i].id \in T!Ids(chain')
  BY DEF T!Stays
<1>1. DOMAIN chain = 1 .. Len(chain) /\ Len(chain) \in Nat
  BY DEF TipInv, ChainOK
<1>2. j \in DOMAIN chain /\ i \in 1 .. j
  BY <1>1
<1>3. j <= k /\ k \in Nat
  BY <1>2 DEF IsDeepest
<1>4. i \in 1 .. k /\ i \in DOMAIN chain'
  BY <1>1, <1>2, <1>3
<1> QED BY <1>4 DEF T!Ids

\* A preview opens over those that the pointer, at its link, is over.
LEMMA OpenedStay ==
  ASSUME TipInv, NEW k \in 0 .. Len(chain), \A j \in DOMAIN chain : T!IsOver(chain[j], at) => j <= k,
         at \in Spots, T!Open(SubSeq(chain, 1, k), at), T!Fade(T!Ids(chain) \ T!Ids(chain'))
  PROVE  T!Stays
<1> DEFINE kept == SubSeq(chain, 1, k)
<1>1. /\ chain \in Seq(Previews) /\ DOMAIN chain = 1 .. Len(chain) /\ Len(chain) \in Nat
      /\ ChainOK(chain, nextId) /\ nextId \in Nat
  BY DEF TipInv, TipTypes, ChainOK
<1>2. Len(kept) = k /\ DOMAIN kept = 1 .. k /\ \A i \in 1 .. k : kept[i] = chain[i]
  <2>1. k <= Len(chain) /\ k \in Nat
    BY <1>1
  <2> QED BY <1>1, <2>1
<1>3. /\ IF T!IsOpen(kept, at)
         THEN chain' = kept
         ELSE T!Nested(kept, at) => T!Ids(kept) \subseteq T!Ids(chain')
      /\ ChainOK(chain', nextId')
  BY Opened
<1> HIDE DEF kept
<1> SUFFICES ASSUME NEW i \in DOMAIN chain, NEW j \in i .. Len(chain), T!IsOver(chain[j], at)
             PROVE  chain[i].id \in T!Ids(chain')
  BY DEF T!Stays
<1>4. i \in 1 .. j /\ j \in 1 .. k
  <2>1. i \in Nat \ {0} /\ j \in Nat /\ i <= j /\ j <= Len(chain) /\ j \in DOMAIN chain
    BY <1>1
  <2>2. j <= k
    BY <2>1
  <2> QED BY <2>1, <2>2
<1>5. i \in DOMAIN kept /\ j \in DOMAIN kept /\ kept[i] = chain[i] /\ kept[j] = chain[j]
  BY <1>2, <1>4
<1>6. chain[i].id \in T!Ids(kept)
  BY <1>5 DEF T!Ids
<1>7. T!IsOpen(kept, at) \/ T!Nested(kept, at)
  BY <1>5 DEF T!IsOver, T!IsOpen, T!Nested, T!Ids
<1> QED BY <1>3, <1>6, <1>7

LEMMA TipStays == ASSUME TipInv, T!Next PROVE T!Stays
<1> DEFINE d == T!DeepestUnder(at)
<1>1. IsDeepest(chain, at, d) /\ d \in 0 .. Len(chain)
  BY Deepest DEF TipInv, IsDeepest
<1>2. /\ chain \in Seq(Previews) /\ DOMAIN chain = 1 .. Len(chain) /\ Len(chain) \in Nat
      /\ at \in Spots
  BY DEF TipInv, TipTypes, ChainOK
<1>3. ASSUME chain' = chain PROVE T!Stays
  <2>1. Len(chain') \in Nat /\ DOMAIN chain' = 1 .. Len(chain') /\ Len(chain') >= d
    BY <1>1, <1>2, <1>3
  <2>2. \A i \in 1 .. d : chain'[i] = chain[i]
    BY <1>3
  <2> HIDE DEF d
  <2> QED BY <1>1, <2>1, <2>2, KeptStay
<1>4. ASSUME chain' = SubSeq(chain, 1, d) PROVE T!Stays
  <2> HIDE DEF d
  <2>1. /\ Len(chain') = d /\ DOMAIN chain' = 1 .. d /\ d \in Nat
        /\ \A i \in 1 .. d : chain'[i] = chain[i]
    BY <1>1, <1>2, <1>4
  <2> QED BY <1>1, <2>1, KeptStay
<1>5. ASSUME NEW place, T!Move(place) \/ T!Scroll(place) PROVE T!Stays
  <2>1. at' # at
    BY <1>5 DEF T!Move, T!Scroll
  <2> QED BY <2>1 DEF T!Stays
<1>6. ASSUME NEW place, T!Tap(place) PROVE T!Stays
  <2>1. CASE place = at
    <3>1. T!Fade(T!Ids(chain) \ T!Ids(chain'))
      BY <1>6 DEF T!Tap
    <3>2. CASE at[2] = None
      <4>1. chain' = SubSeq(chain, 1, d)
        BY <1>6, <2>1, <3>2 DEF T!Tap
      <4> QED BY <1>4, <4>1
    <3>3. CASE at[2] # None
      <4>1. T!Open(SubSeq(chain, 1, d), at)
        BY <1>6, <2>1, <3>3 DEF T!Tap
      <4> HIDE DEF d
      <4> QED BY <1>1, <1>2, <3>1, <4>1, OpenedStay DEF IsDeepest
    <3> QED BY <3>2, <3>3
  <2>2. CASE place # at
    <3>1. at' # at
      BY <1>6, <2>2 DEF T!Tap
    <3> QED BY <3>1 DEF T!Stays
  <2> QED BY <2>1, <2>2
<1>7. ASSUME T!Press PROVE T!Stays
  <2>1. chain' = chain \/ chain' = SubSeq(chain, 1, d)
    BY <1>7 DEF T!Press, T!KeepUnder, T!Truncate
  <2> QED BY <1>3, <1>4, <2>1
<1>8. ASSUME T!HoverEnds PROVE T!Stays
  <2>1. hover # None /\ T!Open(chain, hover) /\ T!Fade(T!Ids(chain) \ T!Ids(chain'))
    BY <1>8 DEF T!HoverEnds
  <2>2. hover = at
    BY <2>1 DEF TipInv, PointerKnown
  <2>3. SubSeq(chain, 1, Len(chain)) = chain /\ Len(chain) \in 0 .. Len(chain)
    BY <1>2
  <2>4. T!Open(SubSeq(chain, 1, Len(chain)), at)
    BY <2>1, <2>2, <2>3
  <2>5. \A j \in DOMAIN chain : T!IsOver(chain[j], at) => j <= Len(chain)
    BY <1>2
  <2> QED BY <1>2, <2>1, <2>3, <2>4, <2>5, OpenedStay
<1>9. ASSUME T!CloseDelayEnds PROVE T!Stays
  <2>1. T!Truncate(T!DeepestUnder(lastMove))
    BY <1>9 DEF T!CloseDelayEnds
  <2>2. CASE scrolled
    BY <2>2 DEF T!Stays
  <2>3. CASE ~scrolled
    <3>1. lastMove = at
      BY <2>3 DEF TipInv, PointerKnown
    <3>2. chain' = SubSeq(chain, 1, d)
      BY <2>1, <3>1 DEF T!Truncate
    <3> QED BY <1>4, <3>2
  <2> QED BY <2>2, <2>3
<1>10. ASSUME NEW group, T!FadeEnds(group) PROVE T!Stays
  BY <1>3, <1>10 DEF T!FadeEnds
<1> QED BY <1>5, <1>6, <1>7, <1>8, <1>9, <1>10 DEF T!Next

-----------------------------------------------------------------------------
TipPart == part = "previews" => TipInv

LEMMA TipPartInductive ==
  /\ MCInit => TipPart
  /\ TipPart /\ [MCNext]_allvars => TipPart'
<1>1. MCInit => TipPart
  BY TipInit DEF MCInit, TipPart
<1>2. ASSUME TipPart, [MCNext]_allvars PROVE TipPart'
  <2>1. CASE MCNext
    BY <1>2, <2>1, TipNext DEF MCNext, TipPart
  <2>2. CASE UNCHANGED allvars
    BY <1>2, <2>2, TipSame DEF allvars, ofPreviews, TipPart
  <2> QED BY <1>2, <2>1, <2>2
<1> QED BY <1>1, <1>2

\* The previews that are open are a chain from the page to the innermost, a preview is
\* open or on its way out, never both, and the delay that closes them runs whenever the
\* pointer is not over the innermost (Tooltips.tsx).
THEOREM PreviewsStayAChain == MCSpec => []TooltipsSafety
<1>1. TipPart => TooltipsSafety
  BY TipInvSafe DEF TipPart, TooltipsSafety
<1> QED BY <1>1, TipPartInductive, PTL DEF MCSpec

\* As long as the page has not moved under the pointer, no step closes the preview it
\* stays over, or one that this hangs on (Tooltips.tsx).
THEOREM PreviewsStayUnderThePointer == MCSpec => StaysUnderPointer
<1>1. TipPart /\ [MCNext]_allvars => [part = "previews" => T!Stays]_allvars
  BY TipStays DEF TipPart, MCNext
<1> QED BY <1>1, TipPartInductive, PTL DEF MCSpec, StaysUnderPointer

-----------------------------------------------------------------------------
\* The composer.

Pieces == Words \cup Sources

Composers ==
  [shown : {TRUE}, mode : C!Modes, thread : Topics, editing : Sources \cup {C!NoEdit},
   limit : BOOLEAN, form : C!Forms]

SendRecord ==
  [kind : C!Modes \cup {"edit"}, own : BOOLEAN, landed : BOOLEAN, on : Topics,
   post : Sources \cup {C!NoEdit}, text : SUBSET Pieces, files : SUBSET Files,
   as : {"anonymous", "op"}]

\* The box is the draft of its page, and offers its role there.
BoxInv ==
  /\ drafts \in [C!Modes -> C!Forms]
  /\ comp = C!NoComposer \/
     (/\ comp \in Composers
      /\ drafts[comp.mode] = comp.form
      /\ comp.form.as \in C!Roles(comp.mode, comp.thread))
  /\ sends \subseteq SendRecord
  /\ busy \in BOOLEAN
  /\ typed \subseteq Words

New(s) == s.kind # "edit"

\* What the page shown has under way: one new post of its mode.
UnderWay ==
  /\ \A s \in sends : s.own => comp.shown /\ (New(s) => s.kind = comp.mode)
  /\ \A s, t \in sends : s.own /\ t.own /\ New(s) /\ New(t) => s = t
  /\ \A s, t \in sends : ~New(s) /\ ~New(t) => s = t
  /\ busy <=> \E s \in sends : ~New(s)

\* What was typed is still there even without what is under way.
Kept ==
  /\ \A w \in typed \ (gone \cup lost) :
       \/ \E m \in C!Modes : w \in drafts[m].text
       \/ \E p \in posted : w \in p.text
       \/ \E e \in wrote : w \in e.text
  /\ \A s \in sends : New(s) /\ s.landed => \E p \in posted : s.text = p.text

\* A word that was not sent again is in one draft, on its way only for the page shown,
\* and once it is posted nowhere but in the box that awaits the answer.
Sent(w) == \E s \in sends : s.own /\ New(s) /\ s.landed /\ w \in s.text
Spent(w) ==
  /\ \A m \in C!Modes : w \notin drafts[m].text
  /\ \A s \in sends : New(s) /\ ~s.landed => w \notin s.text

Typed ==
  /\ \A m \in C!Modes : drafts[m].text \cap Words \subseteq typed
  /\ \A s \in sends : s.text \cap Words \subseteq typed
  /\ \A p \in posted : p.text \cap Words \subseteq typed

OnceInv ==
  /\ Typed
  /\ \A m, k \in C!Modes : m # k => drafts[m].text \cap drafts[k].text \cap Words = {}
  /\ \A w \in Words \ again : \A s \in sends : w \in s.text =>
       /\ s.own
       /\ New(s) => \A m \in C!Modes : m # s.kind => w \notin drafts[m].text
  /\ \A w \in Words \ again : \A p \in posted : w \in p.text => Sent(w) \/ Spent(w)
  /\ C!PostedOnce

\* Texts of posts are in the box of their edit, or have strayed.
Edits(m) == comp.shown /\ comp.mode = m /\ comp.editing # C!NoEdit
StrayInv ==
  /\ \A m \in C!Modes : ~Edits(m) => drafts[m].text \cap Sources \subseteq strayed
  /\ comp.shown /\ comp.editing # C!NoEdit => comp.form.text \cap Sources \subseteq {comp.editing}
  /\ \A s \in sends : IF New(s) THEN s.text \cap Sources \subseteq strayed
                      ELSE s.text \cap Sources \subseteq {s.post}
  /\ \A e \in wrote : e.text \cap Sources \subseteq {e.post}
  /\ \A p \in posted : p.text \cap Sources \subseteq strayed

SignedInv ==
  /\ \A s \in sends : s.as = "op" => s.on \in Own /\ (New(s) => s.kind = "reply")
  /\ \A p \in posted : p.as = "op" => p.kind = "reply" /\ p.on \in Own

CompInv == BoxInv /\ UnderWay /\ Kept /\ OnceInv /\ StrayInv /\ SignedInv

LEMMA SameCardinality == ASSUME NEW S PROVE C!Cardinality(S) = Cardinality(S)
  BY DEF C!Cardinality, Cardinality

LEMMA AtMostOne ==
  ASSUME NEW S, \A x, z \in S : x = z
  PROVE  C!Cardinality(S) <= 1
<1>1. CASE S = {}
  BY <1>1, FS_EmptySet, SameCardinality
<1>2. CASE S # {}
  <2>1. PICK x \in S : TRUE
    BY <1>2
  <2>2. S = {x}
    BY <2>1
  <2> QED BY <2>2, FS_Singleton, SameCardinality
<1> QED BY <1>1, <1>2

LEMMA CompInvSafe == CompInv => C!ComposerSafety
<1> SUFFICES ASSUME CompInv PROVE C!ComposerSafety
  OBVIOUS
<1>1. C!TypeOK
  <2>1. drafts \in [C!Modes -> C!Forms]
    BY DEF CompInv, BoxInv
  <2>2. comp = C!NoComposer \/
        /\ comp.mode \in C!Modes /\ comp.thread \in Topics /\ comp.editing \in Sources \cup {C!NoEdit}
        /\ comp.form \in C!Forms /\ comp.limit \in BOOLEAN
        /\ drafts[comp.mode] = comp.form
    BY DEF CompInv, BoxInv, Composers
  <2>3. \A s \in sends : s.kind \in C!Modes \cup {"edit"} /\ s.text \subseteq Words \cup Sources
    BY DEF CompInv, BoxInv, SendRecord, Pieces
  <2>4. busy <=> \E s \in sends : s.kind = "edit"
    BY DEF CompInv, UnderWay, New
  <2>5. C!Cardinality({s \in sends : s.kind = "edit"}) <= 1
    <3> DEFINE S == {s \in sends : s.kind = "edit"}
    <3>1. \A x, z \in S : x = z
      BY DEF CompInv, UnderWay, New
    <3> HIDE DEF S
    <3>2. C!Cardinality(S) <= 1
      BY <3>1, AtMostOne
    <3> QED BY <3>2 DEF S
  <2>6. C!Cardinality({s \in sends : s.own /\ s.kind # "edit"}) <= 1
    <3> DEFINE S == {s \in sends : s.own /\ s.kind # "edit"}
    <3>1. \A x, z \in S : x = z
      BY DEF CompInv, UnderWay, New
    <3> HIDE DEF S
    <3>2. C!Cardinality(S) <= 1
      BY <3>1, AtMostOne
    <3> QED BY <3>2 DEF S
  <2> QED BY <2>1, <2>2, <2>3, <2>4, <2>5, <2>6 DEF C!TypeOK
<1>2. C!NothingLost
  BY DEF CompInv, Kept, C!NothingLost
<1>3. C!EditStaysEdit
  BY DEF CompInv, StrayInv, New, C!EditStaysEdit
<1>4. C!SignedAsShown
  BY DEF CompInv, SignedInv, C!SignedAsShown
<1> QED BY <1>1, <1>2, <1>3, <1>4 DEF CompInv, OnceInv, C!ComposerSafety

-----------------------------------------------------------------------------
LEMMA BoxPut ==
  ASSUME BoxInv, comp.shown, NEW f \in C!Forms, NEW edit \in Sources \cup {C!NoEdit},
         C!Put(f, edit)
  PROVE  /\ comp \in Composers /\ drafts[comp.mode] = comp.form /\ comp.mode \in C!Modes
         /\ comp' \in Composers /\ comp'.shown /\ comp'.mode = comp.mode
         /\ comp'.thread = comp.thread /\ comp'.form = f /\ comp'.editing = edit
         /\ drafts' \in [C!Modes -> C!Forms] /\ drafts'[comp.mode] = f
         /\ \A m \in C!Modes : m # comp.mode => drafts'[m] = drafts[m]
<1>1. comp \in Composers /\ drafts[comp.mode] = comp.form
  BY DEF BoxInv, C!NoComposer
<1>2. comp' = [comp EXCEPT !.form = f, !.editing = edit]
  BY DEF C!Put
<1>3. /\ comp' \in Composers /\ comp'.shown /\ comp'.mode = comp.mode
      /\ comp'.thread = comp.thread /\ comp'.form = f /\ comp'.editing = edit
  BY <1>1, <1>2 DEF Composers
<1>4. comp.mode \in C!Modes /\ drafts \in [C!Modes -> C!Forms]
  BY <1>1 DEF Composers, BoxInv
<1>5. drafts' = [drafts EXCEPT ![comp.mode] = f]
  BY DEF C!Put, C!Saved
<1>6. /\ drafts' \in [C!Modes -> C!Forms] /\ drafts'[comp.mode] = f
      /\ \A m \in C!Modes : m # comp.mode => drafts'[m] = drafts[m]
  BY <1>4, <1>5
<1> QED BY <1>1, <1>3, <1>4, <1>6

\* What is in the box is rewritten, by the user or by an edit.
LEMMA Rewritten ==
  ASSUME CompInv, comp.shown, NEW f \in C!Forms, NEW edit \in Sources \cup {C!NoEdit},
         C!Put(f, edit), UNCHANGED <<sends, busy, posted, wrote, again>>,
         f.as \in C!Roles(comp.mode, comp.thread),
         typed \subseteq typed', typed' \subseteq Words, gone \subseteq gone',
         lost \subseteq lost', strayed \subseteq strayed',
         f.text \cap Words \subseteq comp.form.text \cup (typed' \ typed),
         (comp.form.text \cup (typed' \ typed)) \ f.text \subseteq gone' \cup lost',
         edit = C!NoEdit => f.text \cap Sources \subseteq strayed',
         edit # C!NoEdit => f.text \cap Sources \subseteq {edit}
  PROVE  CompInv'
<1>1. /\ comp \in Composers /\ drafts[comp.mode] = comp.form /\ comp.mode \in C!Modes
      /\ comp' \in Composers /\ comp'.shown /\ comp'.mode = comp.mode
      /\ comp'.thread = comp.thread /\ comp'.form = f /\ comp'.editing = edit
      /\ drafts' \in [C!Modes -> C!Forms] /\ drafts'[comp.mode] = f
      /\ \A m \in C!Modes : m # comp.mode => drafts'[m] = drafts[m]
  BY BoxPut DEF CompInv
<1>2. BoxInv'
  BY <1>1 DEF CompInv, BoxInv
<1>3. UnderWay'
  BY <1>1 DEF CompInv, UnderWay
<1>4. Kept'
  <2>1. ASSUME NEW w \in typed' \ (gone' \cup lost')
        PROVE  \/ \E m \in C!Modes : w \in drafts'[m].text
               \/ \E p \in posted : w \in p.text
               \/ \E e \in wrote : w \in e.text
    <3>1. CASE w \in typed
      BY <1>1, <2>1, <3>1 DEF CompInv, Kept
    <3>2. CASE w \notin typed
      BY <1>1, <2>1, <3>2
    <3> QED BY <3>1, <3>2
  <2> QED BY <2>1 DEF CompInv, Kept
<1>5. OnceInv'
  <2>1. Typed /\ Typed'
    <3>1. Typed
      BY DEF CompInv, OnceInv
    <3>2. \A m \in C!Modes : drafts'[m].text \cap Words \subseteq typed'
      BY <1>1, <3>1 DEF Typed
    <3> QED BY <3>1, <3>2 DEF Typed
  <2>2. \A m, k \in C!Modes : m # k => drafts'[m].text \cap drafts'[k].text \cap Words = {}
    <3>1. ASSUME NEW k \in C!Modes, k # comp.mode
          PROVE  f.text \cap drafts[k].text \cap Words = {}
      <4>1. comp.form.text \cap drafts[k].text \cap Words = {}
        BY <1>1, <3>1 DEF CompInv, OnceInv
      <4>2. drafts[k].text \cap Words \subseteq typed
        BY <2>1 DEF Typed
      <4> QED BY <4>1, <4>2
    <3>2. \A m, k \in C!Modes : m # k => drafts[m].text \cap drafts[k].text \cap Words = {}
      BY DEF CompInv, OnceInv
    <3> QED BY <1>1, <3>1, <3>2
  <2>3. ASSUME NEW w \in Words \ again, NEW s \in sends, w \in s.text
        PROVE  /\ s.own
               /\ New(s) => \A m \in C!Modes : m # s.kind => w \notin drafts'[m].text
    <3>1. s.own /\ (New(s) => s.kind = comp.mode)
      BY <2>3 DEF CompInv, OnceInv, UnderWay
    <3> QED BY <1>1, <2>3, <3>1 DEF CompInv, OnceInv
  <2>4. ASSUME NEW w \in Words \ again, NEW p \in posted, w \in p.text PROVE (Sent(w) \/ Spent(w))'
    <3>1. CASE Sent(w)
      BY <3>1 DEF Sent
    <3>2. CASE Spent(w)
      <4>1. w \in typed /\ w \notin comp.form.text
        BY <1>1, <2>1, <2>4, <3>2 DEF Typed, Spent
      <4>2. w \notin f.text
        BY <4>1
      <4> QED BY <1>1, <3>2, <4>2 DEF Spent
    <3> QED BY <2>4, <3>1, <3>2 DEF CompInv, OnceInv
  <2>5. C!PostedOnce'
    BY DEF CompInv, OnceInv, C!PostedOnce
  <2> QED BY <2>1, <2>2, <2>3, <2>4, <2>5 DEF OnceInv
<1>6. StrayInv'
  <2>1. \A m \in C!Modes : ~Edits(m)' => drafts'[m].text \cap Sources \subseteq strayed'
    <3>1. ASSUME NEW m \in C!Modes, m # comp.mode
          PROVE  drafts'[m].text \cap Sources \subseteq strayed'
      <4>1. ~Edits(m)
        BY <3>1 DEF Edits
      <4> QED BY <1>1, <3>1, <4>1 DEF CompInv, StrayInv
    <3>2. ASSUME NEW m \in C!Modes, m = comp.mode, ~Edits(m)'
          PROVE  drafts'[m].text \cap Sources \subseteq strayed'
      <4>1. edit = C!NoEdit
        BY <1>1, <3>2 DEF Edits
      <4> QED BY <1>1, <3>2, <4>1
    <3> QED BY <3>1, <3>2
  <2>2. comp'.form.text = f.text /\ comp'.editing = edit
    BY <1>1
  <2> QED BY <2>1, <2>2 DEF CompInv, StrayInv
<1>7. SignedInv'
  BY DEF CompInv, SignedInv
<1> QED BY <1>2, <1>3, <1>4, <1>5, <1>6, <1>7 DEF CompInv

LEMMA BoxNow ==
  ASSUME CompInv, comp.shown
  PROVE  /\ comp \in Composers /\ comp.form \in C!Forms
         /\ comp.editing \in Sources \cup {C!NoEdit}
         /\ comp.form.as \in C!Roles(comp.mode, comp.thread)
         /\ comp.editing = C!NoEdit => comp.form.text \cap Sources \subseteq strayed
         /\ comp.editing # C!NoEdit => comp.form.text \cap Sources \subseteq {comp.editing}
<1>1. /\ comp \in Composers /\ drafts[comp.mode] = comp.form
      /\ comp.form.as \in C!Roles(comp.mode, comp.thread)
  BY DEF CompInv, BoxInv, C!NoComposer
<1>2. comp.form \in C!Forms /\ comp.mode \in C!Modes /\ comp.editing \in Sources \cup {C!NoEdit}
  BY <1>1 DEF Composers
<1>3. comp.editing = C!NoEdit => comp.form.text \cap Sources \subseteq strayed
  BY <1>1, <1>2 DEF CompInv, StrayInv, Edits
<1>4. comp.editing # C!NoEdit => comp.form.text \cap Sources \subseteq {comp.editing}
  BY DEF CompInv, StrayInv
<1> QED BY <1>1, <1>2, <1>3, <1>4

LEMMA TypingKeeps ==
  ASSUME CompInv, C!ComposerAssumption, NEW w \in Words,
         C!Type(w) \/ \E ps \in SUBSET Pieces : C!InsertReply(w, ps)
  PROVE  CompInv'
<1>1. comp.shown /\ w \notin typed
  BY DEF C!Type, C!InsertReply
<1>2. /\ comp \in Composers /\ comp.form \in C!Forms
      /\ comp.editing \in Sources \cup {C!NoEdit}
      /\ comp.form.as \in C!Roles(comp.mode, comp.thread)
      /\ comp.editing = C!NoEdit => comp.form.text \cap Sources \subseteq strayed
      /\ comp.editing # C!NoEdit => comp.form.text \cap Sources \subseteq {comp.editing}
  BY <1>1, BoxNow
<1>3. Words \cap Sources = {}
  BY DEF C!ComposerAssumption
<1>4. PICK ps \in SUBSET Pieces :
        /\ C!Stay([comp.form EXCEPT !.text = (@ \ ps) \cup {w}])
        /\ gone' = gone \cup ps /\ typed' = typed \cup {w}
        /\ UNCHANGED <<sends, busy, posted, wrote, lost, again, strayed>>
  <2>1. CASE C!Type(w)
    <3>1. comp.form.text \ {} = comp.form.text /\ gone \cup {} = gone /\ {} \in SUBSET Pieces
      OBVIOUS
    <3>2. C!Stay([comp.form EXCEPT !.text = (@ \ {}) \cup {w}])
      BY <2>1, <3>1 DEF C!Type
    <3>3. /\ gone' = gone \cup {} /\ typed' = typed \cup {w}
          /\ UNCHANGED <<sends, busy, posted, wrote, lost, again, strayed>>
      BY <2>1, <3>1 DEF C!Type
    <3> QED BY <3>1, <3>2, <3>3
  <2>2. CASE \E ps \in SUBSET Pieces : C!InsertReply(w, ps)
    BY <2>2 DEF C!InsertReply
  <2> QED BY <2>1, <2>2
<1> DEFINE f == [comp.form EXCEPT !.text = (@ \ ps) \cup {w}]
<1>5. /\ f \in C!Forms /\ f.as = comp.form.as
      /\ f.text = (comp.form.text \ ps) \cup {w}
  BY <1>2 DEF C!Forms, Pieces
<1>6. C!Put(f, comp.editing)
  BY <1>4 DEF C!Stay
<1> HIDE DEF f
<1>7. typed \subseteq typed' /\ typed' \subseteq Words /\ gone \subseteq gone'
      /\ lost \subseteq lost' /\ strayed \subseteq strayed'
  BY <1>4 DEF CompInv, BoxInv
<1>8. /\ f.text \cap Words \subseteq comp.form.text \cup (typed' \ typed)
      /\ (comp.form.text \cup (typed' \ typed)) \ f.text \subseteq gone' \cup lost'
  BY <1>1, <1>4, <1>5
<1>9. /\ comp.editing = C!NoEdit => f.text \cap Sources \subseteq strayed'
      /\ comp.editing # C!NoEdit => f.text \cap Sources \subseteq {comp.editing}
  BY <1>2, <1>3, <1>4, <1>5
<1> QED BY <1>1, <1>2, <1>4, <1>5, <1>6, <1>7, <1>8, <1>9, Rewritten

\* Only the files or the role change.
LEMMA ChoosingKeeps ==
  ASSUME CompInv, comp.shown, NEW f \in C!Forms, f.text = comp.form.text,
         f.as \in C!Roles(comp.mode, comp.thread), C!Stay(f),
         UNCHANGED <<sends, busy, posted, wrote, typed, gone, lost, again, strayed>>
  PROVE  CompInv'
<1>1. /\ comp.editing \in Sources \cup {C!NoEdit}
      /\ comp.editing = C!NoEdit => comp.form.text \cap Sources \subseteq strayed
      /\ comp.editing # C!NoEdit => comp.form.text \cap Sources \subseteq {comp.editing}
  BY BoxNow
<1>2. C!Put(f, comp.editing)
  BY DEF C!Stay
<1>3. typed' \subseteq Words
  BY DEF CompInv, BoxInv
<1> QED BY <1>1, <1>2, <1>3, Rewritten

LEMMA FilesKeep ==
  ASSUME CompInv,
         (\E fs \in SUBSET Files : C!AddFiles(fs)) \/ (\E f \in Files : C!RemoveFile(f))
  PROVE  CompInv'
<1>1. comp.shown /\ UNCHANGED <<sends, busy, posted, wrote, typed, gone, lost, again, strayed>>
  BY DEF C!AddFiles, C!RemoveFile, C!history
<1>2. /\ comp.form \in C!Forms
      /\ comp.form.as \in C!Roles(comp.mode, comp.thread)
  BY <1>1, BoxNow
<1>3. PICK g \in SUBSET Files : C!Stay([comp.form EXCEPT !.files = g])
  <2>1. comp.form.files \in SUBSET Files
    BY <1>2 DEF C!Forms
  <2>2. ASSUME NEW fs \in SUBSET Files, C!AddFiles(fs)
        PROVE  \E g \in SUBSET Files : C!Stay([comp.form EXCEPT !.files = g])
    <3>1. PICK g \in C!Accepted(fs) : C!Stay([comp.form EXCEPT !.files = @ \cup g])
      BY <2>2 DEF C!AddFiles
    <3>2. g \in SUBSET Files
      BY <3>1 DEF C!Accepted
    <3>3. comp.form.files \cup g \in SUBSET Files
      BY <2>1, <3>2
    <3> QED BY <3>1, <3>3
  <2>3. ASSUME NEW f \in Files, C!RemoveFile(f)
        PROVE  \E g \in SUBSET Files : C!Stay([comp.form EXCEPT !.files = g])
    <3>1. comp.form.files \ {f} \in SUBSET Files
      BY <2>1
    <3> QED BY <2>3, <3>1 DEF C!RemoveFile
  <2> QED BY <2>2, <2>3
<1> DEFINE f == [comp.form EXCEPT !.files = g]
<1>4. f \in C!Forms /\ f.text = comp.form.text /\ f.as = comp.form.as
  BY <1>2 DEF C!Forms
<1> HIDE DEF f
<1>5. C!Stay(f)
  BY <1>3 DEF f
<1> QED BY <1>1, <1>2, <1>4, <1>5, ChoosingKeeps

LEMMA RoleKeeps ==
  ASSUME CompInv, NEW k \in {"anonymous", "op"}, C!SetSendAs(k)
  PROVE  CompInv'
<1>1. /\ comp.shown /\ UNCHANGED <<sends, busy, posted, wrote, typed, gone, lost, again, strayed>>
      /\ k \in C!Roles(comp.mode, comp.thread)
  BY DEF C!SetSendAs, C!history
<1>2. comp.form \in C!Forms
  BY <1>1, BoxNow
<1> DEFINE f == [comp.form EXCEPT !.as = k]
<1>3. f \in C!Forms /\ f.text = comp.form.text /\ f.as = k
  BY <1>2 DEF C!Forms
<1> HIDE DEF f
<1>4. C!Stay(f)
  BY DEF C!SetSendAs, f
<1> QED BY <1>1, <1>3, <1>4, ChoosingKeeps

\* The text of post p takes the place of what is in the box.
LEMMA SourceKeeps ==
  ASSUME CompInv, C!ComposerAssumption, comp.shown, NEW p \in Sources,
         C!Put(C!SourceText(comp.form, p), p), lost' = lost \cup comp.form.text,
         UNCHANGED <<sends, busy, posted, wrote, typed, gone, again, strayed>>
  PROVE  CompInv'
<1>1. /\ comp.form \in C!Forms
      /\ comp.form.as \in C!Roles(comp.mode, comp.thread)
  BY BoxNow
<1> DEFINE f == C!SourceText(comp.form, p)
<1>2. f \in C!Forms /\ f.text = {p} /\ f.as = comp.form.as
  BY <1>1 DEF C!Forms, C!SourceText
<1> HIDE DEF f
<1>3. C!Put(f, p)
  BY DEF f
<1>4. p # C!NoEdit /\ Words \cap Sources = {}
  BY DEF C!ComposerAssumption, C!NoEdit
<1>5. typed' \subseteq Words
  BY DEF CompInv, BoxInv
<1>6. f.text \cap Words = {} /\ f.text \cap Sources \subseteq {p}
  BY <1>2, <1>4
<1> QED BY <1>1, <1>2, <1>3, <1>4, <1>5, <1>6, Rewritten

LEMMA EditKeeps ==
  ASSUME CompInv, C!ComposerAssumption, (\E p \in Sources : C!Edit(p)) \/ C!Rebuilt
  PROVE  CompInv'
<1>1. CASE \E p \in Sources : C!Edit(p)
  <2>1. PICK p \in Sources : C!Edit(p)
    BY <1>1
  <2> QED BY <2>1, SourceKeeps DEF C!Edit
<1>2. CASE C!Rebuilt
  <2>1. comp.shown /\ comp.editing # C!NoEdit /\ comp.editing \in Sources \cup {C!NoEdit}
    BY <1>2, BoxNow DEF C!Rebuilt
  <2> QED BY <1>2, <2>1, SourceKeeps DEF C!Rebuilt, C!Stay
<1> QED BY <1>1, <1>2

LEMMA CancelKeeps == ASSUME CompInv, C!CancelEdit PROVE CompInv'
<1>1. /\ comp.shown /\ C!Put(comp.form, C!NoEdit)
      /\ strayed' = strayed \cup (comp.form.text \cap Sources)
      /\ UNCHANGED <<sends, busy, posted, wrote, typed, gone, lost, again>>
  BY DEF C!CancelEdit
<1>2. /\ comp.form \in C!Forms
      /\ comp.form.as \in C!Roles(comp.mode, comp.thread)
  BY <1>1, BoxNow
<1>3. typed' \subseteq Words
  BY <1>1 DEF CompInv, BoxInv
<1>4. C!NoEdit \in Sources \cup {C!NoEdit}
  OBVIOUS
<1> QED BY <1>1, <1>2, <1>3, <1>4, Rewritten

LEMMA LimitKeeps == ASSUME CompInv, C!LimitKnown PROVE CompInv'
<1>1. /\ comp.shown /\ comp' = [comp EXCEPT !.limit = TRUE]
      /\ UNCHANGED <<drafts, sends, busy, posted, wrote, typed, gone, lost, again, strayed>>
  BY DEF C!LimitKnown, C!history
<1>2. comp \in Composers
  BY <1>1, BoxNow
<1>3. /\ comp' \in Composers /\ comp'.shown /\ comp'.mode = comp.mode /\ comp'.thread = comp.thread
      /\ comp'.form = comp.form /\ comp'.editing = comp.editing
  BY <1>1, <1>2 DEF Composers
<1>4. BoxInv'
  <2>1. comp # C!NoComposer
    BY <1>1 DEF C!NoComposer
  <2> QED BY <1>1, <1>3, <2>1 DEF CompInv, BoxInv
<1>5. UnderWay'
  BY <1>1, <1>3 DEF CompInv, UnderWay
<1>6. Kept' /\ SignedInv'
  BY <1>1 DEF CompInv, Kept, SignedInv
<1>7. OnceInv'
  BY <1>1 DEF CompInv, OnceInv, Typed, Sent, Spent, C!PostedOnce
<1>8. StrayInv'
  <2>1. \A m : Edits(m)' <=> Edits(m)
    BY <1>1, <1>3 DEF Edits
  <2> QED BY <1>1, <1>3, <2>1 DEF CompInv, StrayInv
<1> QED BY <1>4, <1>5, <1>6, <1>7, <1>8 DEF CompInv

LEMMA MountKeeps ==
  ASSUME CompInv, NEW m \in C!Modes, NEW t \in Topics, C!Mount(m, t)
  PROVE  CompInv'
<1> DEFINE f == C!Fallback(drafts[m], m, t)
<1>1. /\ ~comp.shown
      /\ comp' = [shown |-> TRUE, mode |-> m, thread |-> t, editing |-> C!NoEdit,
                  limit |-> FALSE, form |-> f]
      /\ drafts' = [drafts EXCEPT ![m] = f]
      /\ UNCHANGED <<sends, busy, posted, wrote, typed, gone, lost, again, strayed>>
  BY DEF C!Mount, C!Saved, C!history
<1>2. f \in C!Forms /\ f.text = drafts[m].text /\ f.as \in C!Roles(m, t)
  <2>1. drafts[m] \in C!Forms
    BY DEF CompInv, BoxInv
  <2>2. "anonymous" \in C!Roles(m, t)
    BY DEF C!Roles
  <2>3. /\ [drafts[m] EXCEPT !.as = "anonymous"] \in C!Forms
        /\ [drafts[m] EXCEPT !.as = "anonymous"].text = drafts[m].text
        /\ [drafts[m] EXCEPT !.as = "anonymous"].as = "anonymous"
    BY <2>1 DEF C!Forms
  <2> QED BY <2>1, <2>2, <2>3 DEF C!Fallback
<1> HIDE DEF f
<1>3. /\ comp' \in Composers /\ comp'.shown /\ comp'.mode = m /\ comp'.thread = t
      /\ comp'.form = f /\ comp'.editing = C!NoEdit
  BY <1>1, <1>2 DEF Composers
<1>4. /\ drafts' \in [C!Modes -> C!Forms] /\ drafts'[m] = f
      /\ \A k \in C!Modes : k # m => drafts'[k] = drafts[k]
  BY <1>1, <1>2 DEF CompInv, BoxInv
<1>5. \A k \in C!Modes : drafts'[k].text = drafts[k].text
  BY <1>2, <1>4
<1>6. BoxInv'
  BY <1>1, <1>2, <1>3, <1>4 DEF CompInv, BoxInv
<1>7. \A s \in sends : ~s.own
  BY <1>1 DEF CompInv, UnderWay
<1>8. UnderWay'
  BY <1>1, <1>7 DEF CompInv, UnderWay
<1>9. Kept'
  BY <1>1, <1>5 DEF CompInv, Kept
<1>10. OnceInv'
  <2>1. Typed'
    BY <1>1, <1>5 DEF CompInv, OnceInv, Typed
  <2>2. \A w : (Sent(w) => Sent(w)') /\ (Spent(w) => Spent(w)')
    BY <1>1, <1>5 DEF Sent, Spent
  <2>3. C!PostedOnce'
    BY <1>1 DEF CompInv, OnceInv, C!PostedOnce
  <2>4. \A k, l \in C!Modes : k # l => drafts'[k].text \cap drafts'[l].text \cap Words = {}
    BY <1>5 DEF CompInv, OnceInv
  <2> QED BY <1>1, <1>5, <2>1, <2>2, <2>3, <2>4 DEF CompInv, OnceInv
<1>11. StrayInv'
  <2>1. \A k \in C!Modes : ~Edits(k)
    BY <1>1 DEF Edits
  <2>2. \A k \in C!Modes : drafts'[k].text \cap Sources \subseteq strayed'
    BY <1>1, <1>5, <2>1 DEF CompInv, StrayInv
  <2> QED BY <1>1, <1>3, <2>2 DEF CompInv, StrayInv
<1>12. SignedInv'
  BY <1>1 DEF CompInv, SignedInv
<1> QED BY <1>6, <1>8, <1>9, <1>10, <1>11, <1>12 DEF CompInv

LEMMA UnmountKeeps == ASSUME CompInv, C!Unmount PROVE CompInv'
<1>1. /\ comp.shown /\ comp' = C!NoComposer
      /\ sends' = {[s EXCEPT !.own = FALSE] : s \in sends}
      /\ again' = again \cup UNION {s.text : s \in sends}
      /\ strayed' = IF comp.editing # C!NoEdit THEN strayed \cup (comp.form.text \cap Sources)
                    ELSE strayed
      /\ UNCHANGED <<drafts, busy, posted, wrote, typed, gone, lost>>
  BY DEF C!Unmount
<1>2. ~comp'.shown
  BY <1>1 DEF C!NoComposer
<1>3. sends \subseteq SendRecord
  BY DEF CompInv, BoxInv
<1>4. \A s \in sends : \A z : z = [s EXCEPT !.own = FALSE] =>
        /\ z \in SendRecord /\ z.own = FALSE
        /\ z.kind = s.kind /\ z.landed = s.landed /\ z.on = s.on /\ z.post = s.post
        /\ z.text = s.text /\ z.as = s.as
  BY <1>3 DEF SendRecord
<1>5. \A z \in sends' : \E s \in sends :
        /\ z = [s EXCEPT !.own = FALSE] /\ z \in SendRecord /\ z.own = FALSE
        /\ z.kind = s.kind /\ z.landed = s.landed /\ z.on = s.on /\ z.post = s.post
        /\ z.text = s.text /\ z.as = s.as
  <2> TAKE z \in sends'
  <2>1. PICK s \in sends : z = [s EXCEPT !.own = FALSE]
    BY <1>1
  <2> QED BY <1>4, <2>1
<1>6. BoxInv'
  <2>1. sends' \subseteq SendRecord
    BY <1>5
  <2> QED BY <1>1, <2>1 DEF CompInv, BoxInv
<1>7. UnderWay'
  <2>1. \A s, t \in sends' : s.own /\ t.own /\ New(s) /\ New(t) => s = t
    BY <1>5
  <2>2. \A s, t \in sends' : ~New(s) /\ ~New(t) => s = t
    <3> TAKE x, z \in sends'
    <3> HAVE ~New(x) /\ ~New(z)
    <3>1. PICK s \in sends : x = [s EXCEPT !.own = FALSE] /\ ~New(s)
      BY <1>5 DEF New
    <3>2. PICK t \in sends : z = [t EXCEPT !.own = FALSE] /\ ~New(t)
      BY <1>5 DEF New
    <3>3. s = t
      BY <3>1, <3>2 DEF CompInv, UnderWay
    <3> QED BY <3>1, <3>2, <3>3
  <2>3. (\E s \in sends' : ~New(s)) <=> (\E s \in sends : ~New(s))
    <3>1. (\E s \in sends' : ~New(s)) => (\E s \in sends : ~New(s))
      BY <1>5 DEF New
    <3>2. ASSUME NEW s \in sends, ~New(s) PROVE \E z \in sends' : ~New(z)
      <4>1. [s EXCEPT !.own = FALSE] \in sends' /\ [s EXCEPT !.own = FALSE].kind = s.kind
        BY <1>1, <1>4
      <4> QED BY <3>2, <4>1 DEF New
    <3> QED BY <3>1, <3>2
  <2>4. \A s \in sends' : s.own => comp'.shown /\ (New(s) => s.kind = comp'.mode)
    BY <1>5
  <2>5. busy' <=> \E s \in sends' : ~New(s)
    BY <1>1, <2>3 DEF CompInv, UnderWay
  <2> QED BY <2>1, <2>2, <2>4, <2>5 DEF UnderWay
<1>8. Kept'
  <2>1. \A w \in typed' \ (gone' \cup lost') :
          \/ \E m \in C!Modes : w \in drafts'[m].text
          \/ \E p \in posted' : w \in p.text
          \/ \E e \in wrote' : w \in e.text
    BY <1>1 DEF CompInv, Kept
  <2>2. \A s \in sends' : New(s) /\ s.landed => \E p \in posted' : s.text = p.text
    BY <1>1, <1>5 DEF CompInv, Kept, New
  <2> QED BY <2>1, <2>2 DEF Kept
<1>9. OnceInv'
  <2>1. Typed'
    <3>1. \A z \in sends' : z.text \cap Words \subseteq typed
      BY <1>5 DEF CompInv, OnceInv, Typed
    <3> QED BY <1>1, <3>1 DEF CompInv, OnceInv, Typed
  <2>2. \A s \in sends : s.text \subseteq again'
    BY <1>1
  <2>3. \A z \in sends' : z.text \subseteq again'
    BY <1>5, <2>2
  <2>4. \A w \in Words \ again' : \A z \in sends' : w \in z.text =>
          /\ z.own
          /\ New(z) => \A m \in C!Modes : m # z.kind => w \notin drafts'[m].text
    BY <2>3
  <2>5. ASSUME NEW w \in Words \ again', NEW p \in posted', w \in p.text
        PROVE  (Sent(w) \/ Spent(w))'
    <3>1. w \in Words \ again /\ p \in posted
      BY <1>1, <2>5
    <3>2. ~Sent(w)
      BY <2>2, <2>5 DEF Sent
    <3>3. Spent(w)
      BY <2>5, <3>1, <3>2 DEF CompInv, OnceInv
    <3>4. Spent(w)'
      BY <1>1, <2>3, <2>5, <3>3 DEF Spent
    <3> QED BY <3>4
  <2>6. C!PostedOnce'
    <3>1. again \subseteq again'
      BY <1>1
    <3> QED BY <1>1, <3>1 DEF CompInv, OnceInv, C!PostedOnce
  <2>7. \A m, k \in C!Modes : m # k => drafts'[m].text \cap drafts'[k].text \cap Words = {}
    BY <1>1 DEF CompInv, OnceInv
  <2> QED BY <2>1, <2>4, <2>5, <2>6, <2>7 DEF OnceInv
<1>10. StrayInv'
  <2>1. strayed \subseteq strayed'
    BY <1>1
  <2>2. \A m \in C!Modes : drafts[m].text \cap Sources \subseteq strayed'
    <3> SUFFICES ASSUME NEW m \in C!Modes PROVE drafts[m].text \cap Sources \subseteq strayed'
      OBVIOUS
    <3>1. CASE ~Edits(m)
      BY <2>1, <3>1 DEF CompInv, StrayInv
    <3>2. CASE Edits(m)
      <4>1. comp.mode = m /\ comp.editing # C!NoEdit
        BY <3>2 DEF Edits
      <4>2. drafts[m] = comp.form
        BY <1>1, <4>1 DEF CompInv, BoxInv, C!NoComposer
      <4> QED BY <1>1, <4>1, <4>2
    <3> QED BY <3>1, <3>2
  <2>3. \A z \in sends' : IF New(z) THEN z.text \cap Sources \subseteq strayed'
                          ELSE z.text \cap Sources \subseteq {z.post}
    BY <1>5, <2>1 DEF CompInv, StrayInv, New
  <2>4. /\ \A e \in wrote' : e.text \cap Sources \subseteq {e.post}
        /\ \A p \in posted' : p.text \cap Sources \subseteq strayed'
    BY <1>1, <2>1 DEF CompInv, StrayInv
  <2> QED BY <1>1, <1>2, <2>2, <2>3, <2>4 DEF StrayInv
<1>11. SignedInv'
  BY <1>1, <1>5 DEF CompInv, SignedInv, New
<1> QED BY <1>6, <1>7, <1>8, <1>9, <1>10, <1>11 DEF CompInv

\* What goes out is what the box holds.
LEMMA CapturedRecord ==
  ASSUME CompInv, comp.shown, NEW kind \in C!Modes \cup {"edit"}, NEW z, z = C!Captured(kind)
  PROVE  /\ z \in SendRecord /\ z.kind = kind /\ z.own = TRUE /\ z.landed = FALSE
         /\ z.on = comp.thread /\ z.post = comp.editing
         /\ z.text = comp.form.text /\ z.as = comp.form.as
<1>1. comp \in Composers /\ comp.form \in C!Forms
  BY BoxNow
<1>2. comp.thread \in Topics /\ comp.editing \in Sources \cup {C!NoEdit}
  BY <1>1 DEF Composers
<1>3. /\ comp.form.text \in SUBSET Pieces /\ comp.form.files \in SUBSET Files
      /\ comp.form.as \in {"anonymous", "op"}
  BY <1>1 DEF C!Forms, Pieces
<1> QED BY <1>2, <1>3 DEF C!Captured, SendRecord

LEMMA SubmitKeeps ==
  ASSUME CompInv, C!SubmitNew \/ C!SubmitEdit
  PROVE  CompInv'
<1>1. /\ comp.shown
      /\ UNCHANGED <<drafts, comp, posted, wrote, typed, gone, lost, again, strayed>>
  BY DEF C!SubmitNew, C!SubmitEdit, C!history
<1>2. comp \in Composers /\ comp.mode \in C!Modes /\ comp.form = drafts[comp.mode]
  <2>1. comp \in Composers
    BY <1>1, BoxNow
  <2>2. comp # C!NoComposer
    BY <1>1 DEF C!NoComposer
  <2> QED BY <2>1, <2>2 DEF CompInv, BoxInv, Composers
<1>3. PICK kind \in C!Modes \cup {"edit"} :
        /\ sends' = sends \cup {C!Captured(kind)}
        /\ \/ /\ kind = comp.mode /\ kind # "edit" /\ comp.editing = C!NoEdit
              /\ ~C!Creating /\ busy' = busy
           \/ /\ kind = "edit" /\ comp.editing # C!NoEdit /\ ~busy /\ busy' = TRUE
  <2>1. comp.mode # "edit"
    BY <1>2 DEF C!Modes
  <2> QED BY <1>2, <2>1 DEF C!SubmitNew, C!SubmitEdit, C!CanSend
<1> DEFINE z == C!Captured(kind)
<1>4. /\ z \in SendRecord /\ z.kind = kind /\ z.own = TRUE /\ z.landed = FALSE
      /\ z.on = comp.thread /\ z.post = comp.editing
      /\ z.text = comp.form.text /\ z.as = comp.form.as
  BY <1>1, CapturedRecord
<1>5. sends' = sends \cup {z}
  BY <1>3
<1> HIDE DEF z
<1>6. BoxInv'
  <2>1. busy' \in BOOLEAN
    BY <1>3 DEF CompInv, BoxInv
  <2> QED BY <1>1, <1>4, <1>5, <2>1 DEF CompInv, BoxInv
<1>7. UnderWay'
  <2>1. \A s \in sends : s.own /\ New(s) => kind = "edit"
    BY <1>3 DEF C!Creating, New
  <2>2. \A s \in sends : ~New(s) => kind # "edit"
    BY <1>3 DEF CompInv, UnderWay
  <2>3. \A s, t \in sends' : s.own /\ t.own /\ New(s) /\ New(t) => s = t
    BY <1>4, <1>5, <2>1 DEF CompInv, UnderWay, New
  <2>4. \A s, t \in sends' : ~New(s) /\ ~New(t) => s = t
    BY <1>4, <1>5, <2>2 DEF CompInv, UnderWay, New
  <2>5. \A s \in sends' : s.own => comp'.shown /\ (New(s) => s.kind = comp'.mode)
    BY <1>1, <1>3, <1>4, <1>5 DEF CompInv, UnderWay, New
  <2>6. busy' <=> \E s \in sends' : ~New(s)
    <3>1. CASE kind = "edit"
      <4>1. ~New(z) /\ z \in sends'
        BY <1>4, <1>5, <3>1 DEF New
      <4> QED BY <1>3, <3>1, <4>1 DEF C!Modes
    <3>2. CASE kind # "edit"
      <4>1. New(z)
        BY <1>4, <3>2 DEF New
      <4> QED BY <1>3, <1>5, <3>2, <4>1 DEF CompInv, UnderWay
    <3> QED BY <3>1, <3>2
  <2> QED BY <2>3, <2>4, <2>5, <2>6 DEF UnderWay
<1>8. Kept'
  <2>1. \A s \in sends' : New(s) /\ s.landed => \E p \in posted : s.text = p.text
    BY <1>4, <1>5 DEF CompInv, Kept
  <2> QED BY <1>1, <2>1 DEF CompInv, Kept
<1>9. OnceInv'
  <2>1. Typed'
    <3>1. comp.form.text \cap Words \subseteq typed
      BY <1>2 DEF CompInv, OnceInv, Typed
    <3>2. \A s \in sends' : s.text \cap Words \subseteq typed
      BY <1>4, <1>5, <3>1 DEF CompInv, OnceInv, Typed
    <3> QED BY <1>1, <3>2 DEF CompInv, OnceInv, Typed
  <2>2. ASSUME NEW w \in Words \ again, NEW s \in sends', w \in s.text
        PROVE  /\ s.own
               /\ New(s) => \A m \in C!Modes : m # s.kind => w \notin drafts[m].text
    <3>1. CASE s \in sends
      BY <2>2, <3>1 DEF CompInv, OnceInv
    <3>2. CASE s = z
      <4>1. s.own /\ w \in drafts[comp.mode].text
        BY <1>2, <1>4, <2>2, <3>2
      <4>2. New(s) => s.kind = comp.mode
        BY <1>3, <1>4, <3>2 DEF New
      <4>3. \A m \in C!Modes : m # comp.mode => w \notin drafts[m].text
        BY <1>2, <2>2, <4>1 DEF CompInv, OnceInv
      <4> QED BY <4>1, <4>2, <4>3
    <3> QED BY <1>5, <3>1, <3>2
  <2>3. ASSUME NEW w \in Words \ again, NEW p \in posted, w \in p.text PROVE (Sent(w) \/ Spent(w))'
    <3>1. CASE Sent(w)
      BY <1>5, <3>1 DEF Sent
    <3>2. CASE Spent(w)
      <4>1. w \notin comp.form.text
        BY <1>2, <3>2 DEF Spent
      <4> QED BY <1>1, <1>4, <1>5, <3>2, <4>1 DEF Spent
    <3> QED BY <2>3, <3>1, <3>2 DEF CompInv, OnceInv
  <2>4. C!PostedOnce'
    BY <1>1 DEF CompInv, OnceInv, C!PostedOnce
  <2> QED BY <1>1, <2>1, <2>2, <2>3, <2>4 DEF CompInv, OnceInv
<1>10. StrayInv'
  <2>1. \A m \in C!Modes : Edits(m)' <=> Edits(m)
    BY <1>1 DEF Edits
  <2>2. IF New(z) THEN z.text \cap Sources \subseteq strayed
        ELSE z.text \cap Sources \subseteq {z.post}
    BY <1>1, <1>3, <1>4, BoxNow DEF New
  <2>3. \A s \in sends' : IF New(s) THEN s.text \cap Sources \subseteq strayed
                          ELSE s.text \cap Sources \subseteq {s.post}
    BY <1>5, <2>2 DEF CompInv, StrayInv
  <2> QED BY <1>1, <2>1, <2>3 DEF CompInv, StrayInv
<1>11. SignedInv'
  <2>1. z.as = "op" => z.on \in Own /\ (New(z) => z.kind = "reply")
    <3>1. comp.form.as \in C!Roles(comp.mode, comp.thread)
      BY <1>1, BoxNow
    <3>2. comp.form.as = "op" => comp.mode = "reply" /\ comp.thread \in Own
      BY <3>1 DEF C!Roles
    <3> QED BY <1>3, <1>4, <3>2 DEF New
  <2> QED BY <1>1, <1>5, <2>1 DEF CompInv, SignedInv
<1> QED BY <1>6, <1>7, <1>8, <1>9, <1>10, <1>11 DEF CompInv

LEMMA LandKeeps == ASSUME CompInv, NEW s \in sends, C!Lands(s) PROVE CompInv'
<1> DEFINE z == [s EXCEPT !.landed = TRUE]
<1>1. /\ ~s.landed /\ sends' = (sends \ {s}) \cup {z}
      /\ UNCHANGED <<drafts, comp, busy, typed, gone, lost, again, strayed>>
  BY DEF C!Lands, C!history
<1>2. /\ z \in SendRecord /\ z.landed = TRUE
      /\ z.kind = s.kind /\ z.own = s.own /\ z.on = s.on /\ z.post = s.post
      /\ z.text = s.text /\ z.as = s.as
  <2>1. s \in SendRecord
    BY DEF CompInv, BoxInv
  <2> QED BY <2>1 DEF SendRecord
<1> HIDE DEF z
<1>3. /\ New(s) => wrote' = wrote /\ \E p : /\ posted' = posted \cup {p} /\ p.on = s.on
                                            /\ p.kind = s.kind /\ p.text = s.text /\ p.as = s.as
      /\ ~New(s) => posted' = posted /\ \E e : /\ wrote' = wrote \cup {e} /\ e.post = s.post
                                               /\ e.text = s.text
  <2>1. ASSUME New(s)
        PROVE  wrote' = wrote /\ \E p : /\ posted' = posted \cup {p} /\ p.on = s.on
                                        /\ p.kind = s.kind /\ p.text = s.text /\ p.as = s.as
    <3> DEFINE p == [on |-> s.on, kind |-> s.kind, text |-> s.text, as |-> s.as,
                     n |-> C!Cardinality(posted)]
    <3>1. wrote' = wrote /\ posted' = posted \cup {p}
      BY <2>1 DEF C!Lands, New
    <3>2. p.on = s.on /\ p.kind = s.kind /\ p.text = s.text /\ p.as = s.as
      OBVIOUS
    <3> HIDE DEF p
    <3> QED BY <3>1, <3>2
  <2>2. ASSUME ~New(s)
        PROVE  posted' = posted /\ \E e : /\ wrote' = wrote \cup {e} /\ e.post = s.post
                                          /\ e.text = s.text
    <3> DEFINE e == [post |-> s.post, text |-> s.text]
    <3>1. posted' = posted /\ wrote' = wrote \cup {e}
      BY <2>2 DEF C!Lands, New
    <3>2. e.post = s.post /\ e.text = s.text
      OBVIOUS
    <3> HIDE DEF e
    <3> QED BY <3>1, <3>2
  <2> QED BY <2>1, <2>2
<1>4. New(z) <=> New(s)
  BY <1>2 DEF New
<1>5. posted \subseteq posted' /\ wrote \subseteq wrote'
  BY <1>3
<1>6. BoxInv'
  <2>1. sends' \subseteq SendRecord
    BY <1>1, <1>2 DEF CompInv, BoxInv
  <2> QED BY <1>1, <2>1 DEF CompInv, BoxInv
<1>7. UnderWay'
  <2>1. \A t \in sends' : t.own => comp'.shown /\ (New(t) => t.kind = comp'.mode)
    BY <1>1, <1>2, <1>4 DEF CompInv, UnderWay
  <2>2. \A t, u \in sends' : t.own /\ u.own /\ New(t) /\ New(u) => t = u
    BY <1>1, <1>2, <1>4 DEF CompInv, UnderWay
  <2>3. \A t, u \in sends' : ~New(t) /\ ~New(u) => t = u
    BY <1>1, <1>2, <1>4 DEF CompInv, UnderWay
  <2>4. (\E t \in sends' : ~New(t)) <=> (\E t \in sends : ~New(t))
    BY <1>1, <1>4
  <2> QED BY <1>1, <2>1, <2>2, <2>3, <2>4 DEF CompInv, UnderWay
<1>8. Kept'
  <2>1. \A w \in typed' \ (gone' \cup lost') :
          \/ \E m \in C!Modes : w \in drafts'[m].text
          \/ \E p \in posted' : w \in p.text
          \/ \E e \in wrote' : w \in e.text
    BY <1>1, <1>5 DEF CompInv, Kept
  <2>2. New(z) => \E p \in posted' : z.text = p.text
    BY <1>2, <1>3, <1>4
  <2>3. \A t \in sends : New(t) /\ t.landed => \E p \in posted' : t.text = p.text
    BY <1>5 DEF CompInv, Kept
  <2> QED BY <1>1, <2>1, <2>2, <2>3 DEF Kept
<1>9. OnceInv'
  <2>1. s.text \cap Words \subseteq typed
    BY DEF CompInv, OnceInv, Typed
  <2>2. Typed'
    <3>1. \A t \in sends' : t.text \cap Words \subseteq typed
      BY <1>1, <1>2 DEF CompInv, OnceInv, Typed
    <3>2. \A p \in posted' : p.text \cap Words \subseteq typed
      BY <1>3, <2>1 DEF CompInv, OnceInv, Typed
    <3> QED BY <1>1, <3>1, <3>2 DEF CompInv, OnceInv, Typed
  <2>3. \A w \in Words \ again : \A t \in sends' : w \in t.text =>
          /\ t.own
          /\ New(t) => \A m \in C!Modes : m # t.kind => w \notin drafts[m].text
    BY <1>1, <1>2, <1>4 DEF CompInv, OnceInv
  <2>4. ASSUME NEW w \in Words \ again, w \in s.text, New(s), NEW p \in posted PROVE w \notin p.text
    <3> SUFFICES ASSUME w \in p.text PROVE FALSE
      OBVIOUS
    <3>1. s.own
      BY <2>4 DEF CompInv, OnceInv
    <3>2. ~Sent(w)
      BY <1>1, <2>4, <3>1 DEF Sent, CompInv, UnderWay
    <3>3. ~Spent(w)
      BY <1>1, <2>4 DEF Spent
    <3> QED BY <2>4, <3>2, <3>3 DEF CompInv, OnceInv
  <2>5. ASSUME NEW w \in Words \ again, NEW p \in posted', w \in p.text
        PROVE  (Sent(w) \/ Spent(w))'
    <3>1. CASE p \in posted
      <4>1. CASE Sent(w)
        <5>1. PICK t \in sends : t.own /\ New(t) /\ t.landed /\ w \in t.text
          BY <4>1 DEF Sent
        <5>2. t \in sends'
          BY <1>1, <5>1
        <5> QED BY <5>1, <5>2 DEF Sent
      <4>2. CASE Spent(w)
        <5>1. \A t \in sends' : New(t) /\ ~t.landed => w \notin t.text
          BY <1>1, <1>2, <4>2 DEF Spent
        <5> QED BY <1>1, <4>2, <5>1 DEF Spent
      <4> QED BY <2>5, <3>1, <4>1, <4>2 DEF CompInv, OnceInv
    <3>2. CASE p \notin posted
      <4>1. New(s) /\ w \in s.text
        BY <1>3, <2>5, <3>2
      <4>2. s.own
        BY <4>1 DEF CompInv, OnceInv
      <4>3. z \in sends' /\ z.own /\ New(z) /\ z.landed /\ w \in z.text
        BY <1>1, <1>2, <1>4, <4>1, <4>2
      <4> QED BY <4>3 DEF Sent
    <3> QED BY <3>1, <3>2
  <2>6. C!PostedOnce'
    <3> SUFFICES ASSUME NEW p \in posted', NEW q \in posted', p # q, NEW w \in Words \ again,
                        w \in p.text, w \in q.text
                 PROVE  FALSE
      BY <1>1 DEF C!PostedOnce
    <3>1. p \in posted \/ q \in posted
      BY <1>3
    <3>2. CASE p \in posted /\ q \in posted
      BY <3>2 DEF CompInv, OnceInv, C!PostedOnce
    <3>3. CASE p \notin posted \/ q \notin posted
      <4>1. New(s) /\ w \in s.text
        BY <1>3, <3>3
      <4> QED BY <2>4, <3>1, <4>1
    <3> QED BY <3>2, <3>3
  <2>7. \A m, k \in C!Modes : m # k => drafts[m].text \cap drafts[k].text \cap Words = {}
    BY DEF CompInv, OnceInv
  <2> QED BY <1>1, <2>2, <2>3, <2>5, <2>6, <2>7 DEF OnceInv
<1>10. StrayInv'
  <2>1. \A m \in C!Modes : Edits(m)' <=> Edits(m)
    BY <1>1 DEF Edits
  <2>2. \A t \in sends' : IF New(t) THEN t.text \cap Sources \subseteq strayed
                          ELSE t.text \cap Sources \subseteq {t.post}
    BY <1>1, <1>2, <1>4 DEF CompInv, StrayInv
  <2>3. \A e \in wrote' : e.text \cap Sources \subseteq {e.post}
    BY <1>3 DEF CompInv, StrayInv
  <2>4. \A p \in posted' : p.text \cap Sources \subseteq strayed
    BY <1>3 DEF CompInv, StrayInv
  <2> QED BY <1>1, <2>1, <2>2, <2>3, <2>4 DEF CompInv, StrayInv
<1>11. SignedInv'
  <2>1. \A t \in sends' : t.as = "op" => t.on \in Own /\ (New(t) => t.kind = "reply")
    BY <1>1, <1>2, <1>4 DEF CompInv, SignedInv
  <2>2. \A p \in posted' : p.as = "op" => p.kind = "reply" /\ p.on \in Own
    BY <1>3 DEF CompInv, SignedInv
  <2> QED BY <2>1, <2>2 DEF SignedInv
<1> QED BY <1>6, <1>7, <1>8, <1>9, <1>10, <1>11 DEF CompInv

\* What was under way has come to its end: the box is as it was, or emptied.
LEMMA Finished ==
  ASSUME CompInv, NEW s \in sends, sends' = sends \ {s}, BoxInv',
         busy' = (New(s) /\ busy),
         UNCHANGED <<posted, wrote, typed, gone, strayed>>,
         lost \subseteq lost', again \subseteq again',
         comp'.shown = comp.shown, comp.shown => comp'.mode = comp.mode,
         \A m \in C!Modes : drafts'[m].text \subseteq drafts[m].text,
         \A m \in C!Modes : \A w \in drafts[m].text :
           w \in drafts'[m].text \/ w \in lost' \/ (New(s) /\ s.landed /\ w \in s.text),
         comp.shown => \/ comp'.form = comp.form /\ comp'.editing = comp.editing
                       \/ comp'.form.text = {} /\ drafts'[comp.mode].text = {},
         New(s) /\ s.landed /\ s.own => \/ s.text \subseteq again'
                                        \/ drafts'[comp.mode].text = {}
  PROVE  CompInv'
<1>1. UnderWay'
  <2>1. \A t \in sends' : t.own => comp'.shown /\ (New(t) => t.kind = comp'.mode)
    BY DEF CompInv, UnderWay
  <2>2. \A t, u \in sends' : t.own /\ u.own /\ New(t) /\ New(u) => t = u
    BY DEF CompInv, UnderWay
  <2>3. \A t, u \in sends' : ~New(t) /\ ~New(u) => t = u
    BY DEF CompInv, UnderWay
  <2>4. busy' <=> \E t \in sends' : ~New(t)
    <3>1. CASE New(s)
      <4>1. busy' = busy
        BY <3>1 DEF CompInv, BoxInv
      <4> QED BY <3>1, <4>1 DEF CompInv, UnderWay
    <3>2. CASE ~New(s)
      <4>1. ~busy'
        BY <3>2
      <4>2. \A t \in sends' : New(t)
        BY <3>2 DEF CompInv, UnderWay
      <4> QED BY <4>1, <4>2
    <3> QED BY <3>1, <3>2
  <2> QED BY <2>1, <2>2, <2>3, <2>4 DEF UnderWay
<1>2. Kept'
  <2>1. New(s) /\ s.landed => \E p \in posted : s.text = p.text
    BY DEF CompInv, Kept
  <2>2. ASSUME NEW w \in typed' \ (gone' \cup lost')
        PROVE  \/ \E m \in C!Modes : w \in drafts'[m].text
               \/ \E p \in posted' : w \in p.text
               \/ \E e \in wrote' : w \in e.text
    <3>1. w \in typed \ (gone \cup lost)
      BY <2>2
    <3>2. CASE \E m \in C!Modes : w \in drafts[m].text
      BY <2>1, <2>2, <3>2
    <3> QED BY <3>1, <3>2 DEF CompInv, Kept
  <2>3. \A t \in sends' : New(t) /\ t.landed => \E p \in posted' : t.text = p.text
    BY DEF CompInv, Kept
  <2> QED BY <2>2, <2>3 DEF Kept
<1>3. OnceInv'
  <2>1. Typed'
    <3>1. \A m \in C!Modes : drafts'[m].text \cap Words \subseteq typed'
      BY DEF CompInv, OnceInv, Typed
    <3>2. \A t \in sends' : t.text \cap Words \subseteq typed'
      BY DEF CompInv, OnceInv, Typed
    <3>3. \A p \in posted' : p.text \cap Words \subseteq typed'
      BY DEF CompInv, OnceInv, Typed
    <3> QED BY <3>1, <3>2, <3>3 DEF Typed
  <2>2. \A m, k \in C!Modes : m # k => drafts'[m].text \cap drafts'[k].text \cap Words = {}
    <3> TAKE m, k \in C!Modes
    <3> HAVE m # k
    <3>1. drafts[m].text \cap drafts[k].text \cap Words = {}
      BY DEF CompInv, OnceInv
    <3> QED BY <3>1
  <2>3. \A w \in Words \ again' : \A t \in sends' : w \in t.text =>
          /\ t.own
          /\ New(t) => \A m \in C!Modes : m # t.kind => w \notin drafts'[m].text
    BY DEF CompInv, OnceInv
  <2>4. ASSUME NEW w \in Words \ again', NEW p \in posted', w \in p.text
        PROVE  (Sent(w) \/ Spent(w))'
    <3>1. w \in Words \ again /\ p \in posted
      OBVIOUS
    <3>2. CASE Spent(w)
      BY <3>2 DEF Spent
    <3>3. CASE Sent(w)
      <4>1. PICK t \in sends : t.own /\ New(t) /\ t.landed /\ w \in t.text
        BY <3>3 DEF Sent
      <4>2. CASE t # s
        BY <4>1, <4>2 DEF Sent
      <4>3. CASE t = s
        <5>1. drafts'[comp.mode].text = {}
          BY <2>4, <4>1, <4>3
        <5>2. s.kind = comp.mode
          BY <4>1, <4>3 DEF CompInv, UnderWay
        <5>3. \A m \in C!Modes : m # s.kind => w \notin drafts[m].text
          BY <3>1, <4>1, <4>3 DEF CompInv, OnceInv
        <5>4. \A m \in C!Modes : w \notin drafts'[m].text
          BY <5>1, <5>2, <5>3
        <5>5. ASSUME NEW u \in sends', New(u), ~u.landed, w \in u.text PROVE FALSE
          <6>1. u.own
            BY <3>1, <5>5 DEF CompInv, OnceInv
          <6>2. u = s
            BY <4>1, <4>3, <5>5, <6>1 DEF CompInv, UnderWay
          <6> QED BY <6>2
        <5> QED BY <5>4, <5>5 DEF Spent
      <4> QED BY <4>2, <4>3
    <3> QED BY <2>4, <3>1, <3>2, <3>3 DEF CompInv, OnceInv
  <2>5. C!PostedOnce'
    BY DEF CompInv, OnceInv, C!PostedOnce
  <2> QED BY <2>1, <2>2, <2>3, <2>4, <2>5 DEF OnceInv
<1>4. StrayInv'
  <2>1. \A m \in C!Modes : ~Edits(m)' => drafts'[m].text \cap Sources \subseteq strayed'
    <3> SUFFICES ASSUME NEW m \in C!Modes, ~Edits(m)'
                 PROVE  drafts'[m].text \cap Sources \subseteq strayed'
      OBVIOUS
    <3>1. CASE ~Edits(m)
      BY <3>1 DEF CompInv, StrayInv
    <3>2. CASE Edits(m)
      <4>1. comp.shown /\ comp'.shown /\ comp.mode = m /\ comp'.mode = m
        BY <3>2 DEF Edits
      <4>2. comp'.editing # comp.editing
        BY <3>2, <4>1 DEF Edits
      <4>3. drafts'[m].text = {}
        BY <4>1, <4>2
      <4> QED BY <4>3
    <3> QED BY <3>1, <3>2
  <2>2. comp'.shown /\ comp'.editing # C!NoEdit =>
          comp'.form.text \cap Sources \subseteq {comp'.editing}
    BY DEF CompInv, StrayInv
  <2>3. \A t \in sends' : IF New(t) THEN t.text \cap Sources \subseteq strayed'
                          ELSE t.text \cap Sources \subseteq {t.post}
    BY DEF CompInv, StrayInv
  <2>4. /\ \A e \in wrote' : e.text \cap Sources \subseteq {e.post}
        /\ \A p \in posted' : p.text \cap Sources \subseteq strayed'
    BY DEF CompInv, StrayInv
  <2> QED BY <2>1, <2>2, <2>3, <2>4 DEF StrayInv
<1>5. SignedInv'
  BY DEF CompInv, SignedInv
<1> QED BY <1>1, <1>2, <1>3, <1>4, <1>5 DEF CompInv

\* The end of something that the page shown does not wait for, or failed.
LEMMA LeftAlone ==
  ASSUME CompInv, NEW s \in sends, sends' = sends \ {s}, busy' = (New(s) /\ busy),
         UNCHANGED <<comp, drafts, posted, wrote, typed, gone, strayed, lost>>,
         again \subseteq again',
         New(s) /\ s.landed /\ s.own => s.text \subseteq again'
  PROVE  CompInv'
<1>1. busy' \in BOOLEAN
  OBVIOUS
<1>2. sends' \subseteq SendRecord
  BY DEF CompInv, BoxInv
<1>3. BoxInv'
  BY <1>1, <1>2 DEF CompInv, BoxInv
<1> QED BY <1>3, Finished

LEMMA EmptiedBox ==
  ASSUME CompInv, NEW s \in sends, sends' = sends \ {s}, busy' = (New(s) /\ busy), comp.shown,
         NEW f \in C!Forms, f.text = {}, f.as = comp.form.as,
         NEW edit \in Sources \cup {C!NoEdit}, C!Put(f, edit),
         UNCHANGED <<posted, wrote, typed, gone, strayed, again>>,
         lost \subseteq lost',
         \A w \in comp.form.text : w \in lost' \/ (New(s) /\ s.landed /\ w \in s.text)
  PROVE  CompInv'
<1>1. /\ comp \in Composers /\ drafts[comp.mode] = comp.form /\ comp.mode \in C!Modes
      /\ comp' \in Composers /\ comp'.shown /\ comp'.mode = comp.mode
      /\ comp'.thread = comp.thread /\ comp'.form = f /\ comp'.editing = edit
      /\ drafts' \in [C!Modes -> C!Forms] /\ drafts'[comp.mode] = f
      /\ \A m \in C!Modes : m # comp.mode => drafts'[m] = drafts[m]
  BY BoxPut DEF CompInv
<1>2. BoxInv'
  <2>1. busy' \in BOOLEAN
    OBVIOUS
  <2>2. comp'.form.as \in C!Roles(comp'.mode, comp'.thread)
    BY <1>1, BoxNow
  <2>3. sends' \subseteq SendRecord /\ typed' \subseteq Words
    BY DEF CompInv, BoxInv
  <2> QED BY <1>1, <2>1, <2>2, <2>3 DEF BoxInv
<1>3. comp'.shown = comp.shown
  BY <1>1 DEF Composers
<1>4. \A m \in C!Modes : drafts'[m].text \subseteq drafts[m].text
  BY <1>1
<1>5. \A m \in C!Modes : \A w \in drafts[m].text :
        w \in drafts'[m].text \/ w \in lost' \/ (New(s) /\ s.landed /\ w \in s.text)
  BY <1>1
<1>6. comp'.form.text = {} /\ drafts'[comp.mode].text = {}
  BY <1>1
<1> QED BY <1>1, <1>2, <1>3, <1>4, <1>5, <1>6, Finished

LEMMA NewEndsKeeps == ASSUME CompInv, NEW s \in sends, C!NewEnds(s) PROVE CompInv'
<1>1. /\ New(s) /\ s.landed /\ sends' = sends \ {s}
      /\ UNCHANGED <<busy, posted, wrote, typed, gone, again, strayed>>
  BY DEF C!NewEnds, New
<1>2. busy' = (New(s) /\ busy)
  BY <1>1 DEF CompInv, BoxInv
<1>3. CASE s.own
  <2> DEFINE f == C!AfterNew(comp.form)
  <2>1. C!Put(f, comp.editing) /\ lost' = lost \cup (comp.form.text \ s.text)
    BY <1>3 DEF C!NewEnds, C!Stay
  <2>2. comp.shown
    BY <1>3 DEF CompInv, UnderWay
  <2>3. comp.form \in C!Forms /\ comp.editing \in Sources \cup {C!NoEdit}
    BY <2>2, BoxNow
  <2>4. f \in C!Forms /\ f.text = {} /\ f.as = comp.form.as
    BY <2>3 DEF C!Forms, C!AfterNew
  <2> HIDE DEF f
  <2>5. \A w \in comp.form.text : w \in lost' \/ (New(s) /\ s.landed /\ w \in s.text)
    BY <1>1, <2>1
  <2> QED BY <1>1, <1>2, <2>1, <2>2, <2>3, <2>4, <2>5, EmptiedBox
<1>4. CASE ~s.own
  <2>1. UNCHANGED <<comp, drafts, lost>>
    BY <1>4 DEF C!NewEnds
  <2> QED BY <1>1, <1>2, <1>4, <2>1, LeftAlone
<1> QED BY <1>3, <1>4

LEMMA NewFailsKeeps == ASSUME CompInv, NEW s \in sends, C!NewFails(s) PROVE CompInv'
<1>1. /\ New(s) /\ sends' = sends \ {s}
      /\ again' = IF s.landed THEN again \cup s.text ELSE again
      /\ UNCHANGED <<busy, posted, wrote, typed, gone, lost, strayed>>
  BY DEF C!NewFails, New
<1>2. busy' = (New(s) /\ busy)
  BY <1>1 DEF CompInv, BoxInv
<1>3. comp' = comp /\ drafts' = drafts
  <2>1. CASE s.own
    <3>1. comp.shown
      BY <2>1 DEF CompInv, UnderWay
    <3>2. comp \in Composers /\ comp # C!NoComposer
      BY <3>1, BoxNow DEF C!NoComposer
    <3>3. drafts[comp.mode] = comp.form /\ comp.mode \in C!Modes /\ drafts \in [C!Modes -> C!Forms]
      BY <3>2 DEF CompInv, BoxInv, Composers
    <3>4. /\ comp' = [comp EXCEPT !.form = comp.form, !.editing = comp.editing]
          /\ drafts' = [drafts EXCEPT ![comp.mode] = comp.form]
      BY <2>1 DEF C!NewFails, C!AfterFailure, C!Stay, C!Put, C!Saved
    <3>5. comp' = comp
      BY <3>2, <3>4 DEF Composers
    <3>6. drafts' = drafts
      BY <3>3, <3>4
    <3> QED BY <3>5, <3>6
  <2>2. CASE ~s.own
    BY <2>2 DEF C!NewFails
  <2> QED BY <2>1, <2>2
<1>4. again \subseteq again' /\ (s.landed => s.text \subseteq again')
  BY <1>1
<1> QED BY <1>1, <1>2, <1>3, <1>4, LeftAlone

LEMMA EditEndsKeeps == ASSUME CompInv, NEW s \in sends, C!EditEnds(s) PROVE CompInv'
<1>1. /\ ~New(s) /\ sends' = sends \ {s} /\ busy' = FALSE
      /\ UNCHANGED <<posted, wrote, typed, gone, again, strayed>>
  BY DEF C!EditEnds, New
<1>2. busy' = (New(s) /\ busy)
  BY <1>1
<1>3. CASE s.own
  <2> DEFINE f == [comp.form EXCEPT !.text = {}]
  <2>1. C!Put(f, C!NoEdit) /\ lost' = lost \cup comp.form.text
    BY <1>3 DEF C!EditEnds
  <2>2. comp.shown
    BY <1>3 DEF CompInv, UnderWay
  <2>3. comp.form \in C!Forms /\ C!NoEdit \in Sources \cup {C!NoEdit}
    BY <2>2, BoxNow
  <2>4. f \in C!Forms /\ f.text = {} /\ f.as = comp.form.as
    BY <2>3 DEF C!Forms
  <2> HIDE DEF f
  <2>5. \A w \in comp.form.text : w \in lost'
    BY <2>1
  <2> QED BY <1>1, <1>2, <2>1, <2>2, <2>3, <2>4, <2>5, EmptiedBox
<1>4. CASE ~s.own
  <2>1. UNCHANGED <<comp, drafts, lost>>
    BY <1>4 DEF C!EditEnds
  <2> QED BY <1>1, <1>2, <2>1, LeftAlone
<1> QED BY <1>3, <1>4

LEMMA CompSame ==
  ASSUME CompInv, UNCHANGED <<drafts, comp, sends, busy, posted, wrote, typed, gone, lost,
                              again, strayed>>
  PROVE  CompInv'
<1>1. BoxInv' /\ UnderWay' /\ Kept' /\ SignedInv'
  BY DEF CompInv, BoxInv, UnderWay, Kept, SignedInv
<1>2. OnceInv'
  BY DEF CompInv, OnceInv, Typed, Sent, Spent, C!PostedOnce
<1>3. StrayInv'
  BY DEF CompInv, StrayInv, Edits
<1> QED BY <1>1, <1>2, <1>3 DEF CompInv

LEMMA CompInit == C!Init => CompInv
<1> SUFFICES ASSUME C!Init PROVE CompInv
  OBVIOUS
<1>1. /\ drafts = [m \in C!Modes |-> C!EmptyForm] /\ ~comp.shown /\ comp = C!NoComposer
      /\ sends = {} /\ posted = {} /\ wrote = {} /\ busy = FALSE
      /\ typed = {} /\ gone = {} /\ lost = {} /\ again = {} /\ strayed = {}
  BY DEF C!Init, C!NoComposer
<1>2. C!EmptyForm \in C!Forms /\ C!EmptyForm.text = {}
  BY DEF C!EmptyForm, C!Forms
<1>3. \A m \in C!Modes : drafts[m].text = {}
  BY <1>1, <1>2
<1>4. BoxInv
  BY <1>1, <1>2 DEF BoxInv
<1>5. UnderWay
  BY <1>1 DEF UnderWay
<1>6. Kept
  BY <1>1 DEF Kept
<1>7. OnceInv
  BY <1>1, <1>3 DEF OnceInv, Typed, C!PostedOnce
<1>8. StrayInv
  BY <1>1, <1>3 DEF StrayInv
<1>9. SignedInv
  BY <1>1 DEF SignedInv
<1> QED BY <1>4, <1>5, <1>6, <1>7, <1>8, <1>9 DEF CompInv

LEMMA CompNext == ASSUME CompInv, C!ComposerAssumption, C!Next PROVE CompInv'
<1>1. CASE \E m \in C!Modes, t \in Topics : C!Mount(m, t)
  BY <1>1, MountKeeps
<1>2. CASE \E w \in Words : C!Type(w) \/ \E ps \in SUBSET (Words \cup Sources) : C!InsertReply(w, ps)
  BY <1>2, TypingKeeps DEF Pieces
<1>3. CASE (\E fs \in SUBSET Files : C!AddFiles(fs)) \/ (\E f \in Files : C!RemoveFile(f))
  BY <1>3, FilesKeep
<1>4. CASE \E k \in {"anonymous", "op"} : C!SetSendAs(k)
  BY <1>4, RoleKeeps
<1>5. CASE (\E p \in Sources : C!Edit(p)) \/ C!Rebuilt
  BY <1>5, EditKeeps
<1>6. CASE \E s \in sends : C!Lands(s) \/ C!NewEnds(s) \/ C!NewFails(s) \/ C!EditEnds(s)
  BY <1>6, LandKeeps, NewEndsKeeps, NewFailsKeeps, EditEndsKeeps
<1> QED BY <1>1, <1>2, <1>3, <1>4, <1>5, <1>6, UnmountKeeps, LimitKeeps, CancelKeeps, SubmitKeeps
        DEF C!Next

CompPart == part = "composer" => CompInv

\* However typing, sending, failing, editing and leaving alternate: a word is in a draft,
\* on its way or posted unless it was put away, it is posted twice only if the page was
\* left or the answer lost, the text of an edit goes to the post that is edited, and the
\* opener signs only in a thread of the user's own (PostComposer.tsx).
THEOREM WrittenOnceOrKept == MCSpec => []ComposerSafety
<1>1. MCInit => CompPart
  BY CompInit DEF MCInit, CompPart
<1>2. CompPart /\ [MCNext]_allvars => CompPart'
  <2> SUFFICES ASSUME CompPart, [MCNext]_allvars PROVE CompPart'
    OBVIOUS
  <2>1. C!ComposerAssumption
    BY Assumptions
  <2>2. CASE MCNext
    BY <2>1, <2>2, CompNext DEF MCNext, CompPart
  <2>3. CASE UNCHANGED allvars
    BY <2>3, CompSame DEF allvars, ofComposer, CompPart
  <2> QED BY <2>2, <2>3
<1>3. CompPart => ComposerSafety
  BY CompInvSafe DEF CompPart, ComposerSafety
<1> QED BY <1>1, <1>2, <1>3, PTL DEF MCSpec

-----------------------------------------------------------------------------
\* The gallery.

Fingers ==
  [mode : {"none", "pending", "pan", "swipe", "dismiss", "pinch"}, zoom : {"one", "in", "over"},
   outside : BOOLEAN]
Tracks == [moved : BOOLEAN, dim : BOOLEAN]
Videos == [playing : BOOLEAN, pressed : BOOLEAN, paused : BOOLEAN, before : BOOLEAN]
Excuses ==
  [row : BOOLEAN, size : BOOLEAN, dim : BOOLEAN, seek : BOOLEAN, taps : BOOLEAN]
Counts == [opened : Nat, taps : Nat, owed : Int]

\* A closed gallery is at rest.
AlbumInv ==
  /\ items \in Albums \cup {<<>>}
  /\ items # <<>> => cur \in DOMAIN items /\ counts.opened >= 1
  /\ items = <<>> =>
       /\ view = G!Rest /\ finger = G!NoFinger /\ track = G!Home /\ ~inertia
       /\ timers = G!NoTimers /\ video = G!NoVideo
  /\ excused \in Excuses
  /\ counts \in Counts
  /\ flying \subseteq 1 .. counts.opened

\* While no finger may move the picture beyond its limits and nothing takes it away,
\* only inertia does, or a press over another gesture left it there; what pans or is
\* flung is not smaller than the stage.
LegalView ==
  /\ items # <<>> /\ flying = {} /\ items[cur] # "pdf" /\ finger.mode \in {"none", "pending", "swipe"} =>
       (view.zoom \in {"one", "in"} /\ view.placed) \/ excused.size \/ inertia
  /\ inertia \/ finger.mode = "pan" => view.zoom # "under"

MovedInv == items # <<>> /\ finger.mode # "swipe" /\ track.moved => excused.row
DimInv ==
  items # <<>> /\ finger.mode \in {"none", "pinch"} /\ flying = {} /\ track.dim => excused.dim

LooksInv ==
  /\ view \in G!Views /\ finger \in Fingers /\ track \in Tracks /\ inertia \in BOOLEAN
  /\ inertia => finger.mode = "none"
  /\ LegalView /\ MovedInv /\ DimInv

\* Every tap that counts waits for its timer.
TapsInv ==
  /\ tap \in {"none", "fresh", "late"}
  /\ timers \in [pending : SUBSET Nat, held : Nat]
  /\ timers.pending \subseteq 1 .. counts.taps
  /\ timers.held \in timers.pending \cup {0}
  /\ ~excused.taps => counts.owed = Cardinality(timers.pending)

SeekInv ==
  /\ video \in Videos
  /\ ~excused.seek => (video.paused => video.pressed /\ video.before)

GalInv == AlbumInv /\ LooksInv /\ TapsInv /\ SeekInv

LEMMA AlbumsNotEmpty ==
  /\ <<>> \notin Albums
  /\ \A album \in Albums : album \in Seq(G!Kinds) /\ DOMAIN album = 1 .. Len(album)
  BY Assumptions DEF G!GalleryAssumption

LEMMA GalInvSafe == GalInv => G!GallerySafety
<1> SUFFICES ASSUME GalInv PROVE G!GallerySafety
  OBVIOUS
<1> USE DEF GalInv
<1>1. G!TypeOK
  <2>1. finger \in Fingers /\ track \in Tracks /\ view \in G!Views
    BY DEF LooksInv
  <2> QED BY <2>1 DEF AlbumInv, TapsInv, Fingers, Tracks, G!TypeOK, G!Isopen
<1>2. G!RestsWell
  <2> SUFFICES ASSUME items # <<>>, finger.mode = "none", ~inertia, flying = {}
               PROVE  /\ (view.zoom \in {"one", "in"} /\ view.placed) \/ excused.size \/ items[cur] = "pdf"
                      /\ track.moved => excused.row
                      /\ track.dim => excused.dim
    BY DEF G!RestsWell, G!Isopen, G!Kind, G!Legal
  <2>1. (view.zoom \in {"one", "in"} /\ view.placed) \/ excused.size \/ items[cur] = "pdf"
    BY DEF LooksInv, LegalView
  <2>2. track.moved => excused.row
    BY DEF LooksInv, MovedInv
  <2>3. track.dim => excused.dim
    BY DEF LooksInv, DimInv
  <2> QED BY <2>1, <2>2, <2>3
<1>3. G!TapsCounted
  <2> SUFFICES ASSUME timers.pending = {}, ~excused.taps PROVE counts.owed = 0
    BY DEF G!TapsCounted
  <2>1. Cardinality(timers.pending) = 0
    BY FS_EmptySet
  <2> QED BY <2>1 DEF TapsInv
<1>4. G!SeekKeepsState
  BY DEF SeekInv, G!SeekKeepsState
<1> QED BY <1>1, <1>2, <1>3, <1>4 DEF G!GallerySafety

-----------------------------------------------------------------------------
LEMMA GalInit == G!Init => GalInv
<1> SUFFICES ASSUME G!Init PROVE GalInv
  OBVIOUS
<1> USE DEF G!Init
<1>1. AlbumInv
  BY DEF AlbumInv, Excuses, Counts, G!NotExcused
<1>2. LooksInv
  BY DEF LooksInv, LegalView, MovedInv, DimInv, Fingers, Tracks, G!Rest, G!Views, G!NoFinger, G!Home
<1>3. TapsInv
  <2>1. Cardinality(timers.pending) = 0 /\ counts.owed = 0
    BY FS_EmptySet DEF G!NoTimers
  <2> QED BY <2>1 DEF TapsInv, G!NoTimers
<1>4. SeekInv
  BY DEF SeekInv, Videos, G!NoVideo
<1> QED BY <1>1, <1>2, <1>3, <1>4 DEF GalInv

LEMMA GalClosed == ASSUME GalInv, G!Closed, flying' \subseteq flying PROVE GalInv'
<1>1. /\ items' = <<>> /\ view' = G!Rest /\ finger' = G!NoFinger /\ track' = G!Home
      /\ inertia' = FALSE /\ tap' = "none" /\ timers' = G!NoTimers /\ video' = G!NoVideo
      /\ excused' = G!NotExcused
  BY DEF G!Closed
<1>2. counts' \in Counts /\ counts'.opened = counts.opened /\ counts'.owed = 0
  <2>1. counts' = [counts EXCEPT !.taps = 0, !.owed = 0]
    BY DEF G!Closed
  <2>2. counts \in Counts
    BY DEF GalInv, AlbumInv
  <2>3. counts' = [opened |-> counts.opened, taps |-> 0, owed |-> 0]
    BY <2>1, <2>2 DEF Counts
  <2>4. counts.opened \in Nat
    BY <2>2 DEF Counts
  <2> QED BY <2>3, <2>4 DEF Counts
<1>3. AlbumInv'
  <2>1. excused' \in Excuses
    BY <1>1 DEF G!NotExcused, Excuses
  <2>2. flying' \subseteq 1 .. counts'.opened
    BY <1>2 DEF GalInv, AlbumInv
  <2> QED BY <1>1, <1>2, <2>1, <2>2 DEF AlbumInv
<1>4. LooksInv'
  BY <1>1 DEF LooksInv, LegalView, MovedInv, DimInv, Fingers, Tracks, G!Rest, G!Views, G!NoFinger, G!Home
<1>5. TapsInv'
  <2>1. timers'.pending = {} /\ timers'.held = 0 /\ timers' \in [pending : SUBSET Nat, held : Nat]
    BY <1>1 DEF G!NoTimers
  <2>2. Cardinality(timers'.pending) = 0
    BY <2>1, FS_EmptySet
  <2> QED BY <1>1, <1>2, <2>1, <2>2 DEF TapsInv
<1>6. SeekInv'
  BY <1>1 DEF SeekInv, Videos, G!NoVideo
<1> QED BY <1>3, <1>4, <1>5, <1>6 DEF GalInv

LEMMA GalOpen == ASSUME GalInv, G!Open PROVE GalInv'
<1>1. PICK album \in Albums : \E k \in DOMAIN album :
        /\ items' = album /\ cur' = k
        /\ \E plays \in BOOLEAN :
             video' = [G!NoVideo EXCEPT !.playing = plays /\ album[k] = "video"]
  BY DEF G!Open
<1>2. PICK k \in DOMAIN album :
        /\ items' = album /\ cur' = k
        /\ \E plays \in BOOLEAN :
             video' = [G!NoVideo EXCEPT !.playing = plays /\ album[k] = "video"]
  BY <1>1
<1>3. items' # <<>> /\ cur' \in DOMAIN items'
  BY <1>2, AlbumsNotEmpty
<1>4. /\ items = <<>> /\ view' = G!Rest /\ finger' = G!NoFinger /\ track' = G!Home
      /\ ~inertia' /\ inertia' = inertia /\ timers' = G!NoTimers /\ tap' = tap
      /\ excused' = excused /\ flying' = flying
  BY DEF G!Open, G!Isopen, GalInv, AlbumInv
<1>5. counts' = [opened |-> counts.opened + 1, taps |-> 0, owed |-> 0]
  BY DEF G!Open
<1>6. /\ counts' \in Counts /\ counts'.opened = counts.opened + 1 /\ counts'.owed = 0
      /\ flying' \subseteq 1 .. counts'.opened /\ counts'.opened >= 1
  BY <1>4, <1>5 DEF GalInv, AlbumInv, Counts
<1>7. AlbumInv'
  BY <1>2, <1>3, <1>4, <1>6 DEF GalInv, AlbumInv
<1>8. LooksInv'
  BY <1>4 DEF GalInv, LooksInv, LegalView, MovedInv, DimInv, Fingers, Tracks, G!Rest, G!Views,
              G!NoFinger, G!Home
<1>9. TapsInv'
  <2>1. timers'.pending = {} /\ timers'.held = 0 /\ timers' \in [pending : SUBSET Nat, held : Nat]
    BY <1>4 DEF G!NoTimers
  <2>2. Cardinality(timers'.pending) = 0
    BY <2>1, FS_EmptySet
  <2> QED BY <1>4, <1>6, <2>1, <2>2 DEF GalInv, TapsInv
<1>10. SeekInv'
  <2>1. PICK plays \in BOOLEAN : video' = [G!NoVideo EXCEPT !.playing = plays /\ album[k] = "video"]
    BY <1>2
  <2>2. (plays /\ album[k] = "video") \in BOOLEAN
    OBVIOUS
  <2>3. video' \in Videos /\ ~video'.paused
    BY <2>1, <2>2 DEF Videos, G!NoVideo
  <2> QED BY <2>3 DEF SeekInv
<1> QED BY <1>7, <1>8, <1>9, <1>10 DEF GalInv

-----------------------------------------------------------------------------
LEMMA ViewIs ==
  ASSUME NEW v \in G!Views
  PROVE  v.zoom \in {"under", "one", "in", "over"} /\ v.placed \in BOOLEAN
         /\ (v.zoom # "under" => v \in [zoom : {"one", "in", "over"}, placed : BOOLEAN])
<1>1. CASE v \in [zoom : {"one", "in", "over"}, placed : BOOLEAN]
  BY <1>1
<1>2. CASE v = [zoom |-> "under", placed |-> FALSE]
  BY <1>2
<1> QED BY <1>1, <1>2 DEF G!Views

LEMMA GalTypes ==
  ASSUME GalInv
  PROVE  /\ view \in G!Views /\ finger \in Fingers /\ track \in Tracks /\ inertia \in BOOLEAN
         /\ excused \in Excuses /\ video \in Videos
         /\ view.zoom \in {"under", "one", "in", "over"} /\ view.placed \in BOOLEAN
         /\ finger.mode # "none" => items # <<>>
         /\ inertia => items # <<>> /\ finger.mode = "none"
         /\ inertia \/ finger.mode = "pan" => view.zoom # "under"
<1>1. /\ view \in G!Views /\ finger \in Fingers /\ track \in Tracks /\ inertia \in BOOLEAN
      /\ excused \in Excuses /\ video \in Videos
      /\ inertia \/ finger.mode = "pan" => view.zoom # "under"
  BY DEF GalInv, LooksInv, LegalView, AlbumInv, SeekInv
<1>2. view.zoom \in {"under", "one", "in", "over"} /\ view.placed \in BOOLEAN
  BY <1>1, ViewIs
<1>3. G!NoFinger.mode = "none"
  BY DEF G!NoFinger
<1> QED BY <1>1, <1>2, <1>3 DEF GalInv, LooksInv, AlbumInv

\* What remains of an excuse.
LEMMA Lasts ==
  ASSUME NEW e \in Excuses, excused' = G!Lasting(e),
         track' \in Tracks, view' \in G!Views, video' \in Videos
  PROVE  /\ excused' \in Excuses /\ excused'.taps = e.taps
         /\ excused'.row = (e.row /\ track'.moved)
         /\ excused'.size = (e.size /\ ~(view'.zoom \in {"one", "in"} /\ view'.placed))
         /\ excused'.dim = (e.dim /\ track'.dim)
         /\ excused'.seek = (e.seek /\ video'.paused)
<1> DEFINE row == e.row /\ track'.moved
           size == e.size /\ ~(view'.zoom \in {"one", "in"} /\ view'.placed)
           dim == e.dim /\ track'.dim
           seek == e.seek /\ video'.paused
<1>1. excused' = [e EXCEPT !.row = row, !.size = size, !.dim = dim, !.seek = seek]
  BY DEF G!Lasting, G!Legal
<1>2. row \in BOOLEAN /\ size \in BOOLEAN /\ dim \in BOOLEAN /\ seek \in BOOLEAN
  OBVIOUS
<1> HIDE DEF row, size, dim, seek
<1>3. /\ excused' \in Excuses /\ excused'.taps = e.taps /\ excused'.row = row
      /\ excused'.size = size /\ excused'.dim = dim /\ excused'.seek = seek
  BY <1>1, <1>2 DEF Excuses
<1> QED BY <1>3 DEF row, size, dim, seek

\* How the gallery looks after a step.
LEMMA Looks ==
  ASSUME NEW e \in Excuses, excused' = G!Lasting(e), video' \in Videos,
         view' \in G!Views, finger' \in Fingers, track' \in Tracks, inertia' \in BOOLEAN,
         inertia' => finger'.mode = "none",
         inertia' \/ finger'.mode = "pan" => view'.zoom # "under",
         flying' = {} /\ items'[cur'] # "pdf" /\ finger'.mode \in {"none", "pending", "swipe"} =>
           (view'.zoom \in {"one", "in"} /\ view'.placed) \/ e.size \/ inertia',
         finger'.mode # "swipe" /\ track'.moved => e.row,
         finger'.mode \in {"none", "pinch"} /\ flying' = {} /\ track'.dim => e.dim
  PROVE  /\ LooksInv' /\ excused' \in Excuses /\ excused'.taps = e.taps
         /\ excused'.seek = (e.seek /\ video'.paused)
<1>1. /\ excused' \in Excuses /\ excused'.taps = e.taps
      /\ excused'.row = (e.row /\ track'.moved)
      /\ excused'.size = (e.size /\ ~(view'.zoom \in {"one", "in"} /\ view'.placed))
      /\ excused'.dim = (e.dim /\ track'.dim)
      /\ excused'.seek = (e.seek /\ video'.paused)
  BY Lasts
<1>2. LegalView'
  BY <1>1 DEF LegalView
<1>3. MovedInv'
  BY <1>1 DEF MovedInv
<1>4. DimInv'
  BY <1>1 DEF DimInv
<1> QED BY <1>1, <1>2, <1>3, <1>4 DEF LooksInv

\* The same for a gesture, which leaves the video and the taps alone.
LEMMA Gestured ==
  ASSUME GalInv, items # <<>>, G!Gesturing,
         NEW e \in Excuses, excused' = G!Lasting(e), e.taps = excused.taps, e.seek = excused.seek,
         view' \in G!Views, finger' \in Fingers, track' \in Tracks, inertia' \in BOOLEAN,
         inertia' => finger'.mode = "none",
         inertia' \/ finger'.mode = "pan" => view'.zoom # "under",
         flying = {} /\ items[cur] # "pdf" /\ finger'.mode \in {"none", "pending", "swipe"} =>
           (view'.zoom \in {"one", "in"} /\ view'.placed) \/ e.size \/ inertia',
         finger'.mode # "swipe" /\ track'.moved => e.row,
         finger'.mode \in {"none", "pinch"} /\ flying = {} /\ track'.dim => e.dim
  PROVE  GalInv'
<1>1. UNCHANGED <<items, cur, flying, tap, timers, video, counts>> /\ video' \in Videos
  BY GalTypes DEF G!Gesturing
<1>2. /\ LooksInv' /\ excused' \in Excuses /\ excused'.taps = excused.taps
      /\ excused'.seek = (excused.seek /\ video'.paused)
  BY <1>1, Looks
<1>3. AlbumInv'
  BY <1>1, <1>2 DEF GalInv, AlbumInv
<1>4. TapsInv'
  BY <1>1, <1>2 DEF GalInv, TapsInv
<1>5. SeekInv'
  BY <1>1, <1>2 DEF GalInv, SeekInv
<1> QED BY <1>2, <1>3, <1>4, <1>5 DEF GalInv

LEMMA SettledView ==
  ASSUME NEW v \in G!Views, NEW w, w = G!Settled(v)
  PROVE  /\ w \in G!Views
         /\ items[cur] # "pdf" => w.zoom \in {"one", "in"} /\ w.placed
         /\ items[cur] = "pdf" => w = v
<1>1. v.zoom \in {"under", "one", "in", "over"} /\ v.placed \in BOOLEAN
  BY ViewIs
<1>2. CASE items[cur] = "pdf"
  BY <1>2 DEF G!Settled, G!Kind
<1>3. CASE items[cur] # "pdf"
  <2>1. w = [zoom |-> CASE v.zoom = "under" -> "one" [] v.zoom = "over" -> "in" [] OTHER -> v.zoom,
             placed |-> TRUE]
    BY <1>3 DEF G!Settled, G!Kind
  <2>2. w.placed = TRUE
    BY <2>1
  <2>3. w.zoom \in {"one", "in"}
    BY <1>1, <2>1
  <2>4. w = [zoom |-> w.zoom, placed |-> w.placed]
    BY <2>1
  <2> QED BY <1>3, <2>2, <2>3, <2>4 DEF G!Views
<1> QED BY <1>2, <1>3

LEMMA HaltedView ==
  ASSUME GalInv, NEW w, w = G!Halted(view)
  PROVE  w \in G!Views /\ w.zoom = view.zoom /\ (view.placed \/ inertia => w.placed)
<1>1. view \in G!Views /\ (inertia => view.zoom # "under")
  BY GalTypes
<1>2. CASE inertia
  <2>1. w = [view EXCEPT !.placed = TRUE]
    BY <1>2 DEF G!Halted
  <2>2. w.zoom = view.zoom /\ w.placed = TRUE /\ w = [zoom |-> view.zoom, placed |-> TRUE]
    BY <1>1, <2>1 DEF G!Views
  <2>3. view.zoom \in {"one", "in", "over"}
    BY <1>1, <1>2, GalTypes
  <2> QED BY <2>2, <2>3 DEF G!Views
<1>3. CASE ~inertia
  <2>1. w = view
    BY <1>3 DEF G!Halted
  <2> QED BY <1>1, <1>3, <2>1
<1> QED BY <1>2, <1>3

\* What is not excused is legal between gestures.
LEMMA RestingView ==
  ASSUME GalInv, items # <<>>, flying = {}, items[cur] # "pdf",
         finger.mode \in {"none", "pending", "swipe"}
  PROVE  (view.zoom \in {"one", "in"} /\ view.placed) \/ excused.size \/ inertia
BY DEF GalInv, LooksInv, LegalView

LEMMA RestingTrack ==
  ASSUME GalInv, items # <<>>
  PROVE  /\ finger.mode # "swipe" /\ track.moved => excused.row
         /\ finger.mode \in {"none", "pinch"} /\ flying = {} /\ track.dim => excused.dim
BY DEF GalInv, LooksInv, MovedInv, DimInv

-----------------------------------------------------------------------------
\* Gestures over the picture.
LEMMA GalPress == ASSUME GalInv, NEW o \in BOOLEAN, G!Press(o) PROVE GalInv'
<1> DEFINE row == excused.row \/ finger.mode = "swipe"
           size == \/ excused.size \/ finger.mode \in {"pan", "dismiss", "pinch"}
                   \/ (inertia /\ view.zoom = "over")
           e == [excused EXCEPT !.row = row, !.size = size]
           z == IF G!Zoomed(view) THEN view.zoom ELSE "one"
<1>1. /\ items # <<>> /\ view' = G!Halted(view) /\ inertia' = FALSE /\ track' = track
      /\ finger' = [mode |-> "pending", zoom |-> z, outside |-> o]
      /\ excused' = G!Lasting(e) /\ G!Gesturing
  BY DEF G!Press, G!Isopen
<1>2. z \in {"one", "in", "over"}
  BY DEF G!Zoomed
<1> HIDE DEF z
<1>3. finger' \in Fingers /\ finger'.mode = "pending"
  BY <1>1, <1>2 DEF Fingers
<1>4. view' \in G!Views /\ view'.zoom = view.zoom /\ (view.placed \/ inertia => view'.placed)
  BY <1>1, HaltedView
<1>5. row \in BOOLEAN /\ size \in BOOLEAN
  OBVIOUS
<1>6. finger.mode \in {"none", "pending", "pan", "swipe", "dismiss", "pinch"}
  BY GalTypes DEF Fingers
<1>7. flying = {} /\ items[cur] # "pdf" => (view'.zoom \in {"one", "in"} /\ view'.placed) \/ size
  <2> SUFFICES ASSUME flying = {}, items[cur] # "pdf", ~size
               PROVE  view'.zoom \in {"one", "in"} /\ view'.placed
    OBVIOUS
  <2>1. ~excused.size /\ finger.mode \in {"none", "pending", "swipe"} /\ (inertia => view.zoom # "over")
    BY <1>6
  <2>2. (view.zoom \in {"one", "in"} /\ view.placed) \/ inertia
    BY <1>1, <2>1, RestingView
  <2>3. view.zoom \in {"under", "one", "in", "over"} /\ (inertia => view.zoom # "under")
    BY GalTypes
  <2> QED BY <1>4, <2>1, <2>2, <2>3
<1>8. e \in Excuses /\ e.taps = excused.taps /\ e.seek = excused.seek /\ e.row = row /\ e.size = size
  BY <1>5, GalTypes DEF Excuses
<1> HIDE DEF e, size
<1>9. track'.moved => row
  BY <1>1, RestingTrack
<1> HIDE DEF row
<1>10. track' \in Tracks /\ inertia' \in BOOLEAN
  BY <1>1, GalTypes
<1> QED BY <1>1, <1>3, <1>4, <1>7, <1>8, <1>9, <1>10, Gestured

\* What a drag moves.
LEMMA DraggedTo ==
  ASSUME GalInv, NEW mode \in {"pan", "swipe", "dismiss"}, NEW placed \in BOOLEAN,
         G!DraggedBy(mode, placed)
  PROVE  /\ view' \in G!Views /\ track' \in Tracks
         /\ mode = "pan" => view'.zoom # "under"
         /\ mode = "swipe" => view' = view
         /\ mode # "swipe" => track'.moved = track.moved
<1>1. finger.zoom \in {"one", "in", "over"} /\ view \in G!Views
  BY GalTypes DEF Fingers
<1>2. /\ view' = G!Dragged(mode, placed)
      /\ track' = [moved |-> track.moved \/ mode = "swipe", dim |-> track.dim \/ mode = "dismiss"]
  BY DEF G!DraggedBy
<1>3. /\ mode = "pan" => view' = [zoom |-> finger.zoom, placed |-> placed]
      /\ mode = "dismiss" => view' = [zoom |-> "under", placed |-> FALSE]
      /\ mode = "swipe" => view' = view
  BY <1>2 DEF G!Dragged
<1>4. view' \in G!Views /\ (mode = "pan" => view'.zoom # "under")
  BY <1>1, <1>3 DEF G!Views
<1>5. track.moved \in BOOLEAN /\ track.dim \in BOOLEAN
  BY GalTypes DEF Tracks
<1>6. (track.moved \/ mode = "swipe") \in BOOLEAN /\ (track.dim \/ mode = "dismiss") \in BOOLEAN
  OBVIOUS
<1>7. track' \in Tracks /\ (mode # "swipe" => track'.moved = track.moved)
  BY <1>2, <1>5, <1>6 DEF Tracks
<1> QED BY <1>3, <1>4, <1>7

LEMMA GalMoveDecides == ASSUME GalInv, G!MoveDecides PROVE GalInv'
<1>1. /\ finger.mode = "pending" /\ inertia' = inertia /\ excused' = G!Lasting(excused) /\ G!Gesturing
      /\ items # <<>>
  BY GalTypes DEF G!MoveDecides
<1>2. PICK mode \in {"pan", "swipe", "dismiss"} :
        /\ finger' = [finger EXCEPT !.mode = mode, !.outside = FALSE]
        /\ G!DraggedBy(mode, FALSE)
  BY DEF G!MoveDecides
<1>3. finger' \in Fingers /\ finger'.mode = mode
  BY <1>2, GalTypes DEF Fingers
<1>4. /\ view' \in G!Views /\ track' \in Tracks
      /\ mode = "pan" => view'.zoom # "under"
      /\ mode = "swipe" => view' = view
      /\ mode # "swipe" => track'.moved = track.moved
  BY <1>2, DraggedTo
<1>5. ~inertia' /\ inertia' \in BOOLEAN
  BY <1>1, GalTypes
<1>6. flying = {} /\ items[cur] # "pdf" /\ finger'.mode \in {"none", "pending", "swipe"} =>
        (view'.zoom \in {"one", "in"} /\ view'.placed) \/ excused.size \/ inertia'
  BY <1>1, <1>3, <1>4, RestingView
<1>7. finger'.mode # "swipe" /\ track'.moved => excused.row
  BY <1>1, <1>3, <1>4, RestingTrack
<1>8. excused \in Excuses
  BY GalTypes
<1> QED BY <1>1, <1>3, <1>4, <1>5, <1>6, <1>7, <1>8, Gestured

LEMMA GalMove == ASSUME GalInv, G!Move PROVE GalInv'
<1> DEFINE row == excused.row /\ finger.mode # "swipe"
           dim == excused.dim /\ finger.mode # "dismiss"
           e == [excused EXCEPT !.row = row, !.dim = dim]
<1>1. /\ finger.mode \in {"pan", "swipe", "dismiss"} /\ finger' = finger /\ inertia' = inertia
      /\ excused' = G!Lasting(e) /\ G!Gesturing /\ items # <<>>
  BY GalTypes DEF G!Move
<1>2. PICK placed \in BOOLEAN : G!DraggedBy(finger.mode, placed)
  BY DEF G!Move
<1>3. /\ view' \in G!Views /\ track' \in Tracks
      /\ finger.mode = "pan" => view'.zoom # "under"
      /\ finger.mode = "swipe" => view' = view
      /\ finger.mode # "swipe" => track'.moved = track.moved
  BY <1>1, <1>2, DraggedTo
<1>4. row \in BOOLEAN /\ dim \in BOOLEAN
  OBVIOUS
<1>5. /\ e \in Excuses /\ e.taps = excused.taps /\ e.seek = excused.seek /\ e.row = row
      /\ e.size = excused.size
  BY <1>4, GalTypes DEF Excuses
<1> HIDE DEF e, dim
<1>6. finger'.mode # "swipe" /\ track'.moved => row
  BY <1>1, <1>3, RestingTrack
<1> HIDE DEF row
<1>7. flying = {} /\ items[cur] # "pdf" /\ finger'.mode \in {"none", "pending", "swipe"} =>
        (view'.zoom \in {"one", "in"} /\ view'.placed) \/ e.size \/ inertia'
  BY <1>1, <1>3, <1>5, RestingView
<1>8. finger' \in Fingers /\ inertia' \in BOOLEAN /\ ~inertia'
  BY <1>1, GalTypes
<1> QED BY <1>1, <1>3, <1>5, <1>6, <1>7, <1>8, Gestured

LEMMA GalPinch == ASSUME GalInv, G!Pinch PROVE GalInv'
<1> DEFINE e == [excused EXCEPT !.dim = TRUE]
<1>1. /\ items # <<>> /\ view' = G!Halted(view) /\ inertia' = FALSE
      /\ finger' = [G!NoFinger EXCEPT !.mode = "pinch"]
      /\ track' = [track EXCEPT !.moved = FALSE]
      /\ excused' = G!Lasting(e) /\ G!Gesturing
  BY DEF G!Pinch, G!Isopen
<1>2. finger' \in Fingers /\ finger'.mode = "pinch"
  BY <1>1 DEF G!NoFinger, Fingers
<1>3. track' \in Tracks /\ track'.moved = FALSE
  BY <1>1, GalTypes DEF Tracks
<1>4. e \in Excuses /\ e.taps = excused.taps /\ e.seek = excused.seek /\ e.dim = TRUE
  BY GalTypes DEF Excuses
<1> HIDE DEF e
<1>5. view' \in G!Views
  BY <1>1, HaltedView
<1>6. inertia' \in BOOLEAN
  BY <1>1
<1> QED BY <1>1, <1>2, <1>3, <1>4, <1>5, <1>6, Gestured

LEMMA GalPinchMove == ASSUME GalInv, G!PinchMove PROVE GalInv'
<1>1. /\ finger.mode = "pinch" /\ UNCHANGED <<finger, track, inertia>> /\ G!Gesturing
      /\ items # <<>> /\ excused' = G!Lasting(excused) /\ view' \in G!Views
  BY GalTypes DEF G!PinchMove
<1>2. ~inertia
  BY <1>1, GalTypes
<1>3. /\ finger'.mode # "swipe" /\ track'.moved => excused.row
      /\ finger'.mode \in {"none", "pinch"} /\ flying = {} /\ track'.dim => excused.dim
  BY <1>1, RestingTrack
<1> QED BY <1>1, <1>2, <1>3, GalTypes, Gestured

LEMMA GalPinchEnd == ASSUME GalInv, G!PinchEnd PROVE GalInv'
<1>1. /\ finger.mode = "pinch" /\ finger' = G!NoFinger /\ view' = G!Settled(view)
      /\ UNCHANGED <<track, inertia>> /\ G!Gesturing /\ items # <<>>
      /\ excused' = G!Lasting(excused)
  BY GalTypes DEF G!PinchEnd
<1>2. /\ view' \in G!Views
      /\ items[cur] # "pdf" => view'.zoom \in {"one", "in"} /\ view'.placed
  BY <1>1, SettledView, GalTypes
<1>3. /\ track.moved => excused.row
      /\ flying = {} /\ track.dim => excused.dim
  BY <1>1, RestingTrack
<1>4. finger' \in Fingers /\ finger'.mode = "none"
  BY <1>1 DEF G!NoFinger, Fingers
<1>5. ~inertia
  BY <1>1, GalTypes
<1> QED BY <1>1, <1>2, <1>3, <1>4, <1>5, GalTypes, Gestured

LEMMA TrackUndimmed ==
  ASSUME GalInv, finger.mode # "swipe", finger.mode # "none",
         NEW t, t = G!Undimmed(track)
  PROVE  t \in Tracks /\ ~t.dim /\ (t.moved => excused.row)
<1>1. t = [track EXCEPT !.dim = FALSE]
  BY DEF G!Undimmed
<1>2. t \in Tracks /\ t.dim = FALSE /\ t.moved = track.moved
  BY <1>1, GalTypes DEF Tracks
<1> QED BY <1>2, GalTypes, RestingTrack

LEMMA GalReleaseInPlace == ASSUME GalInv, G!ReleaseInPlace PROVE GalInv'
<1>1. /\ finger.mode \in {"pending", "pan"} /\ finger' = G!NoFinger
      /\ track' = G!Undimmed(track) /\ excused' = G!Lasting(excused)
      /\ G!Gesturing /\ items # <<>>
  BY GalTypes DEF G!ReleaseInPlace
<1>2. track' \in Tracks /\ ~track'.dim /\ (track'.moved => excused.row)
  BY <1>1, TrackUndimmed
<1>3. /\ view' \in G!Views /\ inertia' \in BOOLEAN /\ (inertia' => view'.zoom # "under")
      /\ items[cur] # "pdf" => (view'.zoom \in {"one", "in"} /\ view'.placed) \/ inertia'
  <2>1. CASE view' = G!Settled(view) /\ inertia' = inertia
    <3>1. ~inertia
      BY <1>1, GalTypes
    <3> QED BY <2>1, <3>1, SettledView, GalTypes
  <2>2. CASE finger.mode = "pan" /\ inertia' = TRUE /\ view' = view
    BY <2>2, GalTypes
  <2> QED BY <2>1, <2>2 DEF G!ReleaseInPlace
<1>4. finger' \in Fingers /\ finger'.mode = "none"
  BY <1>1 DEF G!NoFinger, Fingers
<1> QED BY <1>1, <1>2, <1>3, <1>4, GalTypes, Gestured

LEMMA GalInertiaStep == ASSUME GalInv, G!InertiaStep PROVE GalInv'
<1>1. /\ inertia /\ items # <<>> /\ finger.mode = "none" /\ UNCHANGED <<finger, track>>
      /\ G!Gesturing /\ excused' = G!Lasting(excused)
  BY GalTypes DEF G!InertiaStep
<1>2. PICK placed \in BOOLEAN :
        \/ inertia' = TRUE /\ view' = [view EXCEPT !.placed = placed]
        \/ inertia' = FALSE /\ view' = G!Settled(view)
  BY DEF G!InertiaStep
<1>3. /\ view' \in G!Views /\ inertia' \in BOOLEAN /\ (inertia' => view'.zoom # "under")
      /\ items[cur] # "pdf" => (view'.zoom \in {"one", "in"} /\ view'.placed) \/ inertia'
  <2>1. CASE inertia' = TRUE /\ view' = [view EXCEPT !.placed = placed]
    <3>1. view \in G!Views /\ view.zoom \in {"one", "in", "over"}
      BY <1>1, GalTypes
    <3>2. view' = [zoom |-> view.zoom, placed |-> placed]
      BY <2>1, <3>1 DEF G!Views
    <3> QED BY <2>1, <3>1, <3>2 DEF G!Views
  <2>2. CASE inertia' = FALSE /\ view' = G!Settled(view)
    BY <2>2, SettledView, GalTypes
  <2> QED BY <1>2, <2>1, <2>2
<1>4. /\ track.moved => excused.row
      /\ flying = {} /\ track.dim => excused.dim
  BY <1>1, RestingTrack
<1> QED BY <1>1, <1>3, <1>4, GalTypes, Gestured

LEMMA GalWheel == ASSUME GalInv, G!Wheel PROVE GalInv'
<1>1. /\ items # <<>> /\ UNCHANGED <<finger, track, inertia>> /\ G!Gesturing
      /\ excused' = G!Lasting(excused)
  BY DEF G!Wheel, G!Isopen
<1>2. view' \in G!Views /\ view'.zoom \in {"one", "in"} /\ view'.placed
  BY DEF G!Wheel, G!Views
<1>3. /\ finger'.mode # "swipe" /\ track'.moved => excused.row
      /\ finger'.mode \in {"none", "pinch"} /\ flying = {} /\ track'.dim => excused.dim
  BY <1>1, RestingTrack
<1> QED BY <1>1, <1>2, <1>3, GalTypes, Gestured

LEMMA GalReleaseDismiss == ASSUME GalInv, G!ReleaseDismiss PROVE GalInv'
<1>1. finger.mode = "dismiss" /\ items # <<>> /\ ~inertia
  BY GalTypes DEF G!ReleaseDismiss
<1>2. ASSUME view' = G!Settled(view), finger' = G!NoFinger, track' = G!Undimmed(track),
             UNCHANGED inertia, G!Gesturing, excused' = G!Lasting(excused)
      PROVE  GalInv'
  <2>1. track' \in Tracks /\ ~track'.dim /\ (track'.moved => excused.row)
    BY <1>1, <1>2, TrackUndimmed
  <2>2. /\ view' \in G!Views
        /\ items[cur] # "pdf" => view'.zoom \in {"one", "in"} /\ view'.placed
    BY <1>2, SettledView, GalTypes
  <2>3. finger' \in Fingers /\ finger'.mode = "none"
    BY <1>2 DEF G!NoFinger, Fingers
  <2> QED BY <1>1, <1>2, <2>1, <2>2, <2>3, GalTypes, Gestured
<1>3. CASE G!Closed /\ UNCHANGED flying
  BY <1>3, GalClosed
<1>4. ASSUME finger' = G!NoFinger, flying' = flying \cup {counts.opened},
             UNCHANGED <<items, cur, view, track, inertia, tap, timers, video, counts, excused>>
      PROVE  GalInv'
  <2>1. counts.opened \in Nat /\ counts.opened >= 1 /\ flying \subseteq 1 .. counts.opened
    BY <1>1 DEF GalInv, AlbumInv, Counts
  <2>2. flying' \subseteq 1 .. counts.opened
    <3>1. counts.opened \in 1 .. counts.opened
      BY <2>1
    <3>2. flying' = flying \cup {counts.opened}
      BY <1>4
    <3> QED BY <2>1, <3>1, <3>2
  <2>3. AlbumInv'
    BY <1>1, <1>4, <2>2 DEF GalInv, AlbumInv
  <2>4. LooksInv'
    <3>1. flying' # {}
      BY <1>4
    <3>2. track.moved => excused.row
      BY <1>1, RestingTrack
    <3>3. finger' \in Fingers /\ finger'.mode = "none"
      BY <1>4 DEF G!NoFinger, Fingers
    <3>4. LegalView' /\ MovedInv' /\ DimInv'
      BY <1>1, <1>4, <3>1, <3>2, <3>3 DEF LegalView, MovedInv, DimInv
    <3> QED BY <1>4, <3>3, <3>4, GalTypes DEF LooksInv
  <2>5. TapsInv' /\ SeekInv'
    BY <1>4 DEF GalInv, TapsInv, SeekInv
  <2> QED BY <2>3, <2>4, <2>5 DEF GalInv
<1> QED BY <1>2, <1>3, <1>4 DEF G!ReleaseDismiss

-----------------------------------------------------------------------------
\* Another picture.
LEMMA VideoPlayed ==
  ASSUME GalInv, NEW kind, G!Played(kind)
  PROVE  /\ video' \in Videos /\ video'.paused = video.paused /\ video'.before = video.before
         /\ video'.pressed = (video.pressed /\ kind = "video")
<1>1. video \in Videos
  BY GalTypes
<1>2. PICK plays \in BOOLEAN :
        video' = [video EXCEPT !.playing = plays /\ kind = "video",
                               !.pressed = video.pressed /\ kind = "video"]
  BY Zenon DEF G!Played
<1>3. /\ video.pressed \in BOOLEAN
      /\ (plays /\ kind = "video") \in BOOLEAN /\ (video.pressed /\ kind = "video") \in BOOLEAN
  BY <1>1 DEF Videos
<1> QED BY <1>1, <1>2, <1>3 DEF Videos

LEMMA VideoShown ==
  ASSUME GalInv, NEW k, G!Select(k)
  PROVE  /\ video' \in Videos /\ video'.paused = video.paused /\ video'.before = video.before
         /\ video'.pressed = video.pressed \/ video'.pressed = (video.pressed /\ items[k] = "video")
<1>1. video' = video \/ G!Played(items[k])
  BY DEF G!Select
<1> QED BY <1>1, VideoPlayed, GalTypes

\* Another picture, or the same one.
LEMMA Selected ==
  ASSUME GalInv, NEW k, G!Select(k), excused' \in Excuses,
         excused'.seek = ((excused.seek \/ G!BarGone(k)) /\ video'.paused)
  PROVE  SeekInv'
<1>1. /\ video' \in Videos /\ video'.paused = video.paused /\ video'.before = video.before
      /\ video'.pressed = video.pressed \/ video'.pressed = (video.pressed /\ items[k] = "video")
  BY VideoShown
<1>2. ASSUME ~excused'.seek, video'.paused PROVE video'.pressed /\ video'.before
  <2>1. ~excused.seek /\ ~G!BarGone(k)
    BY <1>2
  <2>2. video.pressed /\ video.before
    BY <1>1, <1>2, <2>1 DEF GalInv, SeekInv
  <2>3. items[k] = "video"
    BY <2>1, <2>2 DEF G!BarGone
  <2> QED BY <1>1, <2>2, <2>3
<1> QED BY <1>1, <1>2 DEF SeekInv

\* The next picture and the one before are of the album.
LEMMA OfAlbum ==
  ASSUME GalInv, items # <<>>
  PROVE  G!Next1 \in DOMAIN items /\ G!Prev1 \in DOMAIN items
<1>1. items \in Seq(G!Kinds) /\ DOMAIN items = 1 .. Len(items) /\ Len(items) \in Nat
  BY AlbumsNotEmpty DEF GalInv, AlbumInv
<1>2. cur \in 1 .. Len(items)
  BY <1>1 DEF GalInv, AlbumInv
<1> DEFINE n == Len(items)
<1>3. n \in Nat \ {0} /\ cur \in 1 .. n
  BY <1>1, <1>2
<1> HIDE DEF n
<1>4. cur % n = IF cur = n THEN 0 ELSE cur
  BY <1>3
<1>5. (cur + n - 2) % n = IF cur = 1 THEN n - 1 ELSE cur - 2
  BY <1>3
<1>6. G!Next1 = (cur % n) + 1 /\ G!Prev1 = ((cur + n - 2) % n) + 1
  BY DEF G!Next1, G!Prev1, n
<1>7. G!Next1 \in 1 .. n /\ G!Prev1 \in 1 .. n
  BY <1>3, <1>4, <1>5, <1>6
<1> QED BY <1>1, <1>7 DEF n

LEMMA GalGo == ASSUME GalInv, G!Go PROVE GalInv'
<1>1. /\ items # <<>> /\ UNCHANGED <<items, finger, inertia, flying, tap, timers, counts>>
      /\ \E k \in {G!Next1, G!Prev1} \cup DOMAIN items :
           /\ G!Select(k)
           /\ track' = [track EXCEPT !.moved = track.moved /\ k = cur]
           /\ excused' = G!Lasting([excused EXCEPT !.seek = excused.seek \/ G!BarGone(k)])
  BY DEF G!Go, G!Isopen
<1>2. PICK k \in DOMAIN items :
        /\ G!Select(k)
        /\ track' = [track EXCEPT !.moved = track.moved /\ k = cur]
        /\ excused' = G!Lasting([excused EXCEPT !.seek = excused.seek \/ G!BarGone(k)])
  BY <1>1, OfAlbum
<1> DEFINE seek == excused.seek \/ G!BarGone(k)
           e == [excused EXCEPT !.seek = seek]
           moved == track.moved /\ k = cur
<1>3. cur' = k /\ view' = (IF k = cur THEN view ELSE G!Rest)
  BY <1>2 DEF G!Select
<1>4. excused' = G!Lasting(e) /\ track' = [track EXCEPT !.moved = moved]
  BY <1>2
<1>5. seek \in BOOLEAN
  BY DEF G!BarGone
<1>6. /\ e \in Excuses /\ e.taps = excused.taps /\ e.seek = seek /\ e.row = excused.row
      /\ e.size = excused.size /\ e.dim = excused.dim
  BY <1>5, GalTypes DEF Excuses
<1> HIDE DEF e
<1>7. /\ track' \in Tracks /\ track'.dim = track.dim /\ track'.moved = moved
  <2>1. track.moved \in BOOLEAN
    BY GalTypes DEF Tracks
  <2>2. moved \in BOOLEAN
    BY <2>1
  <2> HIDE DEF moved
  <2> QED BY <1>4, <2>2, GalTypes DEF Tracks
<1>8. video' \in Videos
  BY <1>2, VideoShown
<1>9. /\ view' \in G!Views /\ ((view' = view /\ k = cur) \/ (view'.zoom = "one" /\ view'.placed))
  BY <1>3, GalTypes DEF G!Rest, G!Views
<1>10. items' = items /\ cur' = k /\ flying' = flying /\ finger' = finger /\ inertia' = inertia
  BY <1>1, <1>3
<1>11. /\ finger'.mode # "swipe" /\ track'.moved => e.row
       /\ finger'.mode \in {"none", "pinch"} /\ flying' = {} /\ track'.dim => e.dim
  BY <1>1, <1>6, <1>7, <1>10, RestingTrack
<1>12. flying' = {} /\ items'[cur'] # "pdf" /\ finger'.mode \in {"none", "pending", "swipe"} =>
         (view'.zoom \in {"one", "in"} /\ view'.placed) \/ e.size \/ inertia'
  BY <1>1, <1>6, <1>9, <1>10, RestingView
<1>13. /\ finger' \in Fingers /\ inertia' \in BOOLEAN /\ (inertia' => finger'.mode = "none")
       /\ inertia' \/ finger'.mode = "pan" => view'.zoom # "under"
  BY <1>9, <1>10, GalTypes
<1>14. /\ LooksInv' /\ excused' \in Excuses /\ excused'.taps = excused.taps
       /\ excused'.seek = (seek /\ video'.paused)
  BY <1>4, <1>6, <1>7, <1>8, <1>9, <1>11, <1>12, <1>13, Looks
<1>15. SeekInv'
  BY <1>2, <1>14, Selected
<1>16. AlbumInv'
  BY <1>1, <1>2, <1>10, <1>14 DEF GalInv, AlbumInv
<1>17. TapsInv'
  BY <1>1, <1>14 DEF GalInv, TapsInv
<1> QED BY <1>14, <1>15, <1>16, <1>17 DEF GalInv

LEMMA GalReleaseSwipe == ASSUME GalInv, G!ReleaseSwipe PROVE GalInv'
<1>1. /\ finger.mode = "swipe" /\ items # <<>> /\ finger' = G!NoFinger /\ ~inertia
      /\ UNCHANGED <<items, inertia, flying, tap, timers, counts>>
  BY GalTypes DEF G!ReleaseSwipe
<1>2. finger' \in Fingers /\ finger'.mode = "none" /\ inertia' \in BOOLEAN /\ ~inertia'
  BY <1>1, GalTypes DEF G!NoFinger, Fingers
<1>3. CASE /\ view' = G!Settled(view) /\ track' = G!Home /\ UNCHANGED <<cur, video>>
           /\ excused' = G!Lasting(excused)
  <2>1. track' \in Tracks /\ ~track'.moved /\ ~track'.dim
    BY <1>3 DEF G!Home, Tracks
  <2>2. /\ view' \in G!Views
        /\ items[cur] # "pdf" => view'.zoom \in {"one", "in"} /\ view'.placed
    BY <1>3, SettledView, GalTypes
  <2>3. G!Gesturing
    BY <1>1, <1>3 DEF G!Gesturing
  <2> QED BY <1>1, <1>2, <1>3, <2>1, <2>2, <2>3, GalTypes, Gestured
<1>4. ASSUME NEW k \in {G!Next1, G!Prev1}, G!Select(k),
             track' = [moved |-> k = cur, dim |-> FALSE],
             excused' = G!Lasting([excused EXCEPT !.row = TRUE, !.seek = excused.seek \/ G!BarGone(k)])
      PROVE  GalInv'
  <2> DEFINE seek == excused.seek \/ G!BarGone(k)
             e == [excused EXCEPT !.row = TRUE, !.seek = seek]
  <2>1. k \in DOMAIN items /\ cur' = k /\ view' = (IF k = cur THEN view ELSE G!Rest)
    BY <1>1, <1>4, OfAlbum DEF G!Select
  <2>2. seek \in BOOLEAN
    BY DEF G!BarGone
  <2>3. /\ e \in Excuses /\ e.taps = excused.taps /\ e.seek = seek /\ e.row = TRUE
        /\ e.size = excused.size
    BY <2>2, GalTypes DEF Excuses
  <2>4. excused' = G!Lasting(e)
    BY <1>4
  <2> HIDE DEF e
  <2>5. track' \in Tracks /\ ~track'.dim
    <3>1. (k = cur) \in BOOLEAN
      OBVIOUS
    <3> QED BY <1>4, <3>1 DEF Tracks
  <2>6. video' \in Videos
    BY <1>4, VideoShown
  <2>7. /\ view' \in G!Views /\ ((view' = view /\ k = cur) \/ (view'.zoom = "one" /\ view'.placed))
    BY <2>1, GalTypes DEF G!Rest, G!Views
  <2>8. flying' = {} /\ items'[cur'] # "pdf" /\ finger'.mode \in {"none", "pending", "swipe"} =>
          (view'.zoom \in {"one", "in"} /\ view'.placed) \/ e.size \/ inertia'
    BY <1>1, <2>1, <2>3, <2>7, RestingView
  <2>9. /\ LooksInv' /\ excused' \in Excuses /\ excused'.taps = excused.taps
        /\ excused'.seek = (seek /\ video'.paused)
    BY <1>2, <2>3, <2>4, <2>5, <2>6, <2>7, <2>8, Looks
  <2>10. SeekInv'
    BY <1>4, <2>9, Selected
  <2>11. AlbumInv'
    BY <1>1, <2>1, <2>9 DEF GalInv, AlbumInv
  <2>12. TapsInv'
    BY <1>1, <2>9 DEF GalInv, TapsInv
  <2> QED BY <2>9, <2>10, <2>11, <2>12 DEF GalInv
<1> QED BY <1>3, <1>4 DEF G!ReleaseSwipe

-----------------------------------------------------------------------------
\* Taps.
LEMMA PendingFinite ==
  ASSUME GalInv
  PROVE  /\ IsFiniteSet(timers.pending) /\ Cardinality(timers.pending) \in Nat
         /\ timers.pending \subseteq Nat /\ timers.pending \subseteq 1 .. counts.taps
         /\ timers.held \in timers.pending \cup {0}
         /\ counts \in Counts /\ counts.opened \in Nat /\ counts.taps \in Nat /\ counts.owed \in Int
<1>1. counts \in Counts /\ counts.opened \in Nat /\ counts.taps \in Nat /\ counts.owed \in Int
  BY DEF GalInv, AlbumInv, Counts
<1>2. timers.pending \subseteq 1 .. counts.taps /\ timers.held \in timers.pending \cup {0}
  BY DEF GalInv, TapsInv
<1>3. IsFiniteSet(1 .. counts.taps)
  BY <1>1, FS_Interval
<1>4. IsFiniteSet(timers.pending)
  BY <1>2, <1>3, FS_Subset
<1>5. Cardinality(timers.pending) \in Nat
  BY <1>4, FS_CardinalityType
<1>6. timers.pending \subseteq Nat
  BY <1>1, <1>2
<1> QED BY <1>1, <1>2, <1>4, <1>5, <1>6

\* What a tap leaves the gallery like, whatever it does with the timers.
LEMMA Tapped ==
  ASSUME GalInv, finger.mode = "pending", finger' = G!NoFinger, track' = G!Undimmed(track),
         UNCHANGED <<items, cur, inertia, flying, video>>, view' \in G!Views,
         items[cur] # "pdf" /\ flying = {} =>
           (view'.zoom \in {"one", "in"} /\ view'.placed) \/ excused.size,
         NEW e \in Excuses, excused' = G!Lasting(e), e.row = excused.row, e.size = excused.size,
         e.seek = excused.seek
  PROVE  LooksInv' /\ SeekInv' /\ excused' \in Excuses /\ excused'.taps = e.taps
<1>1. items # <<>> /\ ~inertia /\ inertia' \in BOOLEAN /\ video' \in Videos
  BY GalTypes
<1>2. track' \in Tracks /\ ~track'.dim /\ (track'.moved => excused.row)
  BY TrackUndimmed
<1>3. finger' \in Fingers /\ finger'.mode = "none"
  BY DEF G!NoFinger, Fingers
<1>4. /\ LooksInv' /\ excused' \in Excuses /\ excused'.taps = e.taps
      /\ excused'.seek = (e.seek /\ video'.paused)
  BY <1>1, <1>2, <1>3, Looks
<1>5. SeekInv'
  BY <1>4 DEF GalInv, SeekInv
<1> QED BY <1>4, <1>5

\* The album is the same after a tap.
LEMMA TappedAlbum ==
  ASSUME GalInv, items # <<>>, UNCHANGED <<items, cur, flying>>, excused' \in Excuses,
         counts' \in Counts, counts'.opened = counts.opened
  PROVE  AlbumInv'
BY DEF GalInv, AlbumInv

LEMMA GalFirstTap ==
  ASSUME GalInv, finger.mode = "pending", finger' = G!NoFinger, track' = G!Undimmed(track),
         G!FirstTap
  PROVE  GalInv'
<1> DEFINE n == counts.taps + 1
           waiting == timers.pending \cup {n}
<1>1. /\ tap' = "fresh" /\ timers' = [pending |-> waiting, held |-> n]
      /\ UNCHANGED <<items, cur, view, inertia, flying, video>>
      /\ excused' = G!Lasting(excused)
  BY DEF G!FirstTap
<1>2. counts' = [counts EXCEPT !.taps = n, !.owed = counts.owed + 1]
  BY DEF G!FirstTap
<1>3. /\ IsFiniteSet(timers.pending) /\ Cardinality(timers.pending) \in Nat
      /\ timers.pending \subseteq Nat /\ timers.pending \subseteq 1 .. counts.taps
      /\ counts \in Counts /\ counts.opened \in Nat /\ counts.taps \in Nat /\ counts.owed \in Int
  BY PendingFinite
<1>4. n \in Nat /\ n \notin timers.pending /\ waiting \subseteq 1 .. n /\ waiting \subseteq Nat
  BY <1>3
<1>5. Cardinality(waiting) = Cardinality(timers.pending) + 1
  BY <1>3, <1>4, FS_AddElement
<1>6. n \in waiting
  OBVIOUS
<1> HIDE DEF n, waiting
<1>7. counts.owed + 1 \in Int
  BY <1>3
<1>8. /\ counts' \in Counts /\ counts'.opened = counts.opened /\ counts'.taps = n
      /\ counts'.owed = counts.owed + 1
  BY <1>2, <1>3, <1>4, <1>7 DEF Counts
<1>9. items # <<>> /\ ~inertia /\ view \in G!Views /\ excused \in Excuses
  BY GalTypes
<1>10. items[cur] # "pdf" /\ flying = {} =>
         (view'.zoom \in {"one", "in"} /\ view'.placed) \/ excused.size
  BY <1>1, <1>9, RestingView
<1>11. LooksInv' /\ SeekInv' /\ excused' \in Excuses /\ excused'.taps = excused.taps
  BY <1>1, <1>9, <1>10, Tapped
<1>12. AlbumInv'
  BY <1>1, <1>8, <1>9, <1>11, TappedAlbum
<1>13. timers'.pending = waiting /\ timers'.held = n /\ timers' \in [pending : SUBSET Nat, held : Nat]
  BY <1>1, <1>4
<1>14. ~excused.taps => counts.owed = Cardinality(timers.pending)
  BY DEF GalInv, TapsInv
<1>15. ~excused'.taps => counts'.owed = Cardinality(waiting)
  BY <1>5, <1>8, <1>11, <1>14
<1>16. TapsInv'
  BY <1>1, <1>4, <1>6, <1>8, <1>13, <1>15 DEF TapsInv
<1> QED BY <1>11, <1>12, <1>16 DEF GalInv

LEMMA GalSecondTap ==
  ASSUME GalInv, finger.mode = "pending", finger' = G!NoFinger, track' = G!Undimmed(track),
         G!SecondTap
  PROVE  GalInv'
<1> DEFINE P == timers.pending \ {timers.held}
           taps == excused.taps \/ tap = "late" \/ timers.held = 0
           e == [excused EXCEPT !.taps = taps]
<1>1. /\ view' = G!Toggled(view) /\ tap' = "none" /\ timers' = [pending |-> P, held |-> 0]
      /\ UNCHANGED <<items, cur, inertia, flying, video>>
      /\ excused' = G!Lasting(e)
  BY DEF G!SecondTap
<1>2. counts' = [counts EXCEPT !.taps = counts.taps + 1, !.owed = counts.owed - 1]
  BY DEF G!SecondTap
<1>3. taps \in BOOLEAN
  OBVIOUS
<1>4. /\ e \in Excuses /\ e.row = excused.row /\ e.size = excused.size /\ e.seek = excused.seek
      /\ e.taps = taps
  BY <1>3, GalTypes DEF Excuses
<1> HIDE DEF e
<1>5. ~taps => ~excused.taps /\ timers.held # 0
  OBVIOUS
<1> HIDE DEF taps
<1>6. /\ IsFiniteSet(timers.pending) /\ Cardinality(timers.pending) \in Nat
      /\ timers.pending \subseteq Nat /\ timers.pending \subseteq 1 .. counts.taps
      /\ timers.held \in timers.pending \cup {0}
      /\ counts \in Counts /\ counts.opened \in Nat /\ counts.taps \in Nat /\ counts.owed \in Int
  BY PendingFinite
<1>7. timers.held # 0 => Cardinality(P) = Cardinality(timers.pending) - 1
  BY <1>6, FS_RemoveElement
<1>8. P \subseteq Nat /\ P \subseteq 1 .. (counts.taps + 1)
  BY <1>6
<1> HIDE DEF P
<1>9. timers'.pending = P /\ timers'.held = 0 /\ timers' \in [pending : SUBSET Nat, held : Nat]
  BY <1>1, <1>8
<1>10. counts.taps + 1 \in Nat /\ counts.owed - 1 \in Int
  BY <1>6
<1>11. /\ counts' \in Counts /\ counts'.opened = counts.opened /\ counts'.taps = counts.taps + 1
       /\ counts'.owed = counts.owed - 1
  BY <1>2, <1>6, <1>10 DEF Counts
<1>12. items # <<>> /\ ~inertia /\ view \in G!Views
  BY GalTypes
<1>13. view' \in G!Views
       /\ (items[cur] # "pdf" => view'.zoom \in {"one", "in"} /\ view'.placed)
  <2>1. CASE items[cur] = "pdf"
    BY <1>1, <1>12, <2>1 DEF G!Toggled, G!Kind
  <2>2. CASE items[cur] # "pdf"
    <3>1. view' = [zoom |-> IF G!Zoomed(view) THEN "one" ELSE "in", placed |-> TRUE]
      BY <1>1, <2>2 DEF G!Toggled, G!Kind
    <3> QED BY <3>1 DEF G!Views
  <2> QED BY <2>1, <2>2
<1>14. LooksInv' /\ SeekInv' /\ excused' \in Excuses /\ excused'.taps = taps
  BY <1>1, <1>4, <1>13, Tapped
<1>15. AlbumInv'
  BY <1>1, <1>11, <1>12, <1>14, TappedAlbum
<1>16. ~excused.taps => counts.owed = Cardinality(timers.pending)
  BY DEF GalInv, TapsInv
<1>17. ~excused'.taps => counts'.owed = Cardinality(P)
  BY <1>5, <1>7, <1>11, <1>14, <1>16
<1>18. TapsInv'
  BY <1>1, <1>8, <1>9, <1>11, <1>17 DEF TapsInv
<1> QED BY <1>14, <1>15, <1>18 DEF GalInv

LEMMA GalTapEnds == ASSUME GalInv, G!TapEnds PROVE GalInv'
<1>1. /\ finger.mode = "pending" /\ finger' = G!NoFinger /\ track' = G!Undimmed(track)
      /\ G!FirstTap \/ G!SecondTap
  BY DEF G!TapEnds
<1> QED BY <1>1, GalFirstTap, GalSecondTap

LEMMA GalTapElsewhere == ASSUME GalInv, G!TapElsewhere PROVE GalInv'
BY GalFirstTap DEF G!TapElsewhere

LEMMA GalTimerFires == ASSUME GalInv, G!TimerFires PROVE GalInv'
<1> DEFINE first == CHOOSE i \in timers.pending : \A j \in timers.pending : i <= j
<1>1. /\ timers.pending # {}
      /\ UNCHANGED <<items, cur, view, finger, track, inertia, flying, video, excused>>
      /\ timers' = [pending |-> timers.pending \ {first}, held |-> 0]
      /\ tap' = IF tap = "fresh" /\ first = counts.taps THEN "late" ELSE tap
  BY DEF G!TimerFires
<1>2. counts' = [counts EXCEPT !.owed = counts.owed - 1]
  BY DEF G!TimerFires
<1>3. /\ IsFiniteSet(timers.pending) /\ Cardinality(timers.pending) \in Nat
      /\ timers.pending \subseteq Nat /\ timers.pending \subseteq 1 .. counts.taps
      /\ counts \in Counts /\ counts.taps \in Nat /\ counts.owed \in Int
  BY PendingFinite
<1>4. first \in timers.pending
  <2>1. \E i \in timers.pending : \A j \in timers.pending : i <= j
    BY <1>1, <1>3, LeastNumber
  <2> QED BY <2>1
<1> HIDE DEF first
<1> DEFINE P == timers.pending \ {first}
<1>5. Cardinality(P) = Cardinality(timers.pending) - 1
  BY <1>3, <1>4, FS_RemoveElement
<1>6. timers'.pending = P /\ timers'.held = 0 /\ P \subseteq timers.pending
  BY <1>1
<1> HIDE DEF P
<1>7. timers' \in [pending : SUBSET Nat, held : Nat]
  BY <1>1, <1>3
<1>8. counts.owed - 1 \in Int
  BY <1>3
<1>9. /\ counts' \in Counts /\ counts'.opened = counts.opened /\ counts'.taps = counts.taps
      /\ counts'.owed = counts.owed - 1
  BY <1>2, <1>3, <1>8 DEF Counts
<1>10. ~excused.taps => counts.owed = Cardinality(timers.pending)
  BY DEF GalInv, TapsInv
<1>11. ~excused.taps => counts'.owed = Cardinality(P)
  BY <1>5, <1>9, <1>10
<1>12. tap' \in {"none", "fresh", "late"}
  BY <1>1 DEF GalInv, TapsInv
<1>13. TapsInv'
  BY <1>1, <1>3, <1>6, <1>7, <1>9, <1>11, <1>12 DEF TapsInv
<1>14. items # <<>>
  <2>1. G!NoTimers.pending = {}
    BY DEF G!NoTimers
  <2> QED BY <1>1, <2>1 DEF GalInv, AlbumInv
<1>15. AlbumInv'
  BY <1>1, <1>9, <1>14 DEF GalInv, AlbumInv
<1>16. LooksInv' /\ SeekInv'
  BY <1>1 DEF GalInv, LooksInv, LegalView, MovedInv, DimInv, SeekInv
<1> QED BY <1>13, <1>15, <1>16 DEF GalInv

LEMMA GalTapExpires == ASSUME GalInv, G!TapExpires PROVE GalInv'
<1>1. /\ tap' = "none"
      /\ UNCHANGED <<items, cur, view, finger, track, inertia, flying, timers, video, counts, excused>>
  BY DEF G!TapExpires
<1> QED BY <1>1 DEF GalInv, AlbumInv, LooksInv, LegalView, MovedInv, DimInv, TapsInv, SeekInv

-----------------------------------------------------------------------------
\* The controls of a video.
LEMMA GalVideo ==
  ASSUME GalInv, G!PlayPause \/ G!SeekPress \/ G!SeekRelease
  PROVE  GalInv'
<1>1. /\ UNCHANGED <<items, cur, view, finger, track, inertia, flying, tap, timers, counts>>
      /\ excused' = G!Lasting(excused) /\ items # <<>>
  BY DEF G!PlayPause, G!SeekPress, G!SeekRelease, G!Controls, G!Isopen
<1>2. video \in Videos /\ excused \in Excuses /\ view \in G!Views /\ track \in Tracks
  BY GalTypes
<1>3. /\ video.playing \in BOOLEAN /\ video.pressed \in BOOLEAN
      /\ video.paused \in BOOLEAN /\ video.before \in BOOLEAN
  BY <1>2 DEF Videos
<1>4. ~excused.seek => (video.paused => video.pressed /\ video.before)
  BY DEF GalInv, SeekInv
<1>5. video' \in Videos /\ (~excused.seek => (video'.paused => video'.pressed /\ video'.before))
  <2>1. CASE G!PlayPause
    <3>1. video' = [video EXCEPT !.playing = ~video.playing]
      BY <2>1 DEF G!PlayPause
    <3>2. (~video.playing) \in BOOLEAN
      OBVIOUS
    <3>3. video' \in Videos /\ video'.paused = video.paused /\ video'.before = video.before
          /\ video'.pressed = video.pressed
      BY <1>2, <3>1, <3>2 DEF Videos
    <3> QED BY <1>4, <3>3
  <2>2. CASE G!SeekPress
    <3>1. video' = [playing |-> FALSE, pressed |-> TRUE, paused |-> video.paused \/ video.playing,
                    before |-> video.playing \/ (video.pressed /\ video.before)]
      BY <2>2 DEF G!SeekPress
    <3>2. (video.paused \/ video.playing) \in BOOLEAN
          /\ (video.playing \/ (video.pressed /\ video.before)) \in BOOLEAN
      OBVIOUS
    <3>3. /\ video' \in Videos /\ video'.pressed = TRUE
          /\ video'.paused = (video.paused \/ video.playing)
          /\ video'.before = (video.playing \/ (video.pressed /\ video.before))
      BY <3>1, <3>2 DEF Videos
    <3> QED BY <1>4, <3>3
  <2>3. CASE G!SeekRelease
    <3>1. video' = [video EXCEPT !.pressed = FALSE, !.paused = FALSE, !.before = FALSE,
                                 !.playing = video.playing \/ video.paused]
      BY <2>3 DEF G!SeekRelease
    <3>2. (video.playing \/ video.paused) \in BOOLEAN
      OBVIOUS
    <3>3. video' \in Videos /\ video'.paused = FALSE
      BY <1>2, <3>1, <3>2 DEF Videos
    <3> QED BY <3>3
  <2> QED BY <2>1, <2>2, <2>3
<1>6. /\ finger'.mode # "swipe" /\ track'.moved => excused.row
      /\ finger'.mode \in {"none", "pinch"} /\ flying' = {} /\ track'.dim => excused.dim
  BY <1>1, RestingTrack
<1>7. flying' = {} /\ items'[cur'] # "pdf" /\ finger'.mode \in {"none", "pending", "swipe"} =>
        (view'.zoom \in {"one", "in"} /\ view'.placed) \/ excused.size \/ inertia'
  BY <1>1, RestingView
<1>8. /\ view' \in G!Views /\ track' \in Tracks /\ finger' \in Fingers /\ inertia' \in BOOLEAN
      /\ inertia' => finger'.mode = "none"
      /\ inertia' \/ finger'.mode = "pan" => view'.zoom # "under"
  BY <1>1, GalTypes
<1>9. /\ LooksInv' /\ excused' \in Excuses /\ excused'.taps = excused.taps
      /\ excused'.seek = (excused.seek /\ video'.paused)
  BY <1>1, <1>2, <1>5, <1>6, <1>7, <1>8, Looks
<1>10. AlbumInv'
  BY <1>1, <1>9 DEF GalInv, AlbumInv
<1>11. TapsInv'
  BY <1>1, <1>9 DEF GalInv, TapsInv
<1>12. SeekInv'
  BY <1>5, <1>9 DEF SeekInv
<1> QED BY <1>9, <1>10, <1>11, <1>12 DEF GalInv

LEMMA GalFlyEnds == ASSUME GalInv, G!FlyEnds PROVE GalInv'
<1>1. PICK id \in flying :
        /\ flying' = flying \ {id}
        /\ IF items # <<>> THEN G!Closed
           ELSE UNCHANGED <<items, cur, view, finger, track, inertia, tap, timers, video, counts,
                            excused>>
  BY DEF G!FlyEnds, G!Isopen
<1>2. CASE items # <<>>
  BY <1>1, <1>2, GalClosed
<1>3. CASE items = <<>>
  <2>1. UNCHANGED <<items, cur, view, finger, track, inertia, tap, timers, video, counts, excused>>
    BY <1>1, <1>3
  <2>2. AlbumInv'
    BY <1>1, <1>3, <2>1 DEF GalInv, AlbumInv
  <2>3. LooksInv'
    BY <1>3, <2>1 DEF GalInv, LooksInv, LegalView, MovedInv, DimInv
  <2>4. TapsInv' /\ SeekInv'
    BY <2>1 DEF GalInv, TapsInv, SeekInv
  <2> QED BY <2>2, <2>3, <2>4 DEF GalInv
<1> QED BY <1>2, <1>3

LEMMA GalSame ==
  ASSUME GalInv, UNCHANGED <<ofGallery, excused>>
  PROVE  GalInv'
<1>1. UNCHANGED <<items, cur, view, finger, track, inertia, flying, tap, timers, video, counts, excused>>
  BY DEF ofGallery
<1>2. AlbumInv' /\ SeekInv'
  BY <1>1 DEF GalInv, AlbumInv, SeekInv
<1>3. TapsInv'
  BY <1>1 DEF GalInv, TapsInv
<1>4. LooksInv'
  BY <1>1 DEF GalInv, LooksInv, LegalView, MovedInv, DimInv
<1> QED BY <1>2, <1>3, <1>4 DEF GalInv

LEMMA GalNext == ASSUME GalInv, G!Next PROVE GalInv'
<1>1. CASE G!Escape \/ G!TapOutside
  <2>1. G!Closed /\ UNCHANGED flying
    BY <1>1 DEF G!Escape, G!TapOutside
  <2> QED BY <2>1, GalClosed
<1>2. CASE \E outside_ \in BOOLEAN : G!Press(outside_)
  BY <1>2, GalPress
<1> QED BY <1>1, <1>2, GalOpen, GalFlyEnds, GalGo, GalMoveDecides, GalMove, GalPinch, GalPinchMove,
        GalPinchEnd, GalTapEnds, GalTapElsewhere, GalTimerFires, GalTapExpires, GalReleaseInPlace,
        GalReleaseSwipe, GalReleaseDismiss, GalInertiaStep, GalWheel, GalVideo
        DEF G!Next

GalPart == part = "gallery" => GalInv

\* However gestures, animations, taps and the video interrupt each other: at rest the
\* picture has a legal size and place, the row stands where it should and the page does
\* not show through, but for what a press over another gesture left behind and the other
\* exceptions that RestsWell names; once the timers have run every single tap has
\* toggled the thumbnails once, and a video that did not play before its seek bar was
\* used does not play after (GalleryOverlay.tsx).
THEOREM GalleryEndsUpRight == MCSpec => []GallerySafety
<1>1. MCInit => GalPart
  BY GalInit DEF MCInit, GalPart
<1>2. GalPart /\ [MCNext]_allvars => GalPart'
  <2> SUFFICES ASSUME GalPart, [MCNext]_allvars PROVE GalPart'
    OBVIOUS
  <2>1. CASE MCNext
    BY <2>1, GalNext DEF MCNext, GalPart
  <2>2. CASE UNCHANGED allvars
    BY <2>2, GalSame DEF allvars, GalPart
  <2> QED BY <2>1, <2>2
<1>3. GalPart => GallerySafety
  BY GalInvSafe DEF GalPart, GallerySafety
<1> QED BY <1>1, <1>2, <1>3, PTL DEF MCSpec

-----------------------------------------------------------------------------
\* Reading a thread.

Pages ==
  [pinned : BOOLEAN, atEnd : BOOLEAN, lastY : Nat, lastMax : Nat, adjusting : BOOLEAN,
   follow : {"none", "live", "over"}, seenResync : Nat]

Unreads ==
  [marker : Nat, count : Nat, read : Nat, timer : BOOLEAN, wasAtBottom : BOOLEAN, seenReload : Nat]

Placed ==
  /\ posts \in 1..MaxPosts /\ box \in 1..MaxBox /\ y \in 0..R!max
  /\ visible \in BOOLEAN /\ event \in BOOLEAN /\ chase \in BOOLEAN /\ wentUp \in BOOLEAN
  /\ glide \in 0..(MaxPosts + MaxBox) /\ resyncs \in Nat /\ seen \in Nat /\ excused \in Nat
  /\ page \in Pages /\ unread \in Unreads /\ unread.seenReload <= resyncs
  /\ visible => seen >= R!InSight(posts, box, y)

\* What was read and is not shown any more is excused; the flag of the end is kept
\* while the page can be seen.
ReadKnown ==
  /\ unread.read > posts => unread.read <= excused
  /\ visible /\ unread.wasAtBottom => unread.read = posts

\* What counts as read was in sight, or will be where a scroll under way ends.
Sighted(end) == unread.read <= seen \/ unread.read <= excused \/ unread.read <= end

ReadComes ==
  /\ ~visible /\ ~chase => Sighted(0)
  /\ visible /\ ~chase /\ glide = 0 => Sighted(0)
  /\ visible /\ ~chase /\ glide > 0 => Sighted(R!InSight(posts, box, glide))

\* Of one who went up the page knows, or the scroll event will tell it.
Quiet == ~event => page.lastY = y

GoneUp ==
  wentUp => /\ y < R!max /\ ~chase /\ glide = 0 /\ ~page.adjusting
            /\ ~event => ~page.pinned /\ y < page.lastMax
            /\ event => ~page.pinned \/ (y < page.lastY /\ page.follow # "live")

\* Who is taken to be at the end stood there when last looked at.
EndKnown == unread.wasAtBottom => stood

ReadInv ==
  Placed /\ ReadKnown /\ ReadComes /\ Quiet /\ GoneUp /\ EndKnown /\ R!MarkerStands

-----------------------------------------------------------------------------
\* Numbers.
LEMMA ReadBounds ==
  /\ Window \in Nat /\ MaxBox \in Nat /\ First \in Nat /\ MaxPosts \in Nat
  /\ 0 < MaxBox /\ MaxBox < Window /\ 0 < First /\ First <= MaxPosts
  BY Assumptions DEF R!ReadingAssumption

LEMMA GreaterOf ==
  ASSUME NEW a \in Nat, NEW b \in Nat
  PROVE  /\ R!Max({a, b}) \in Nat /\ R!Max({a, b}) >= a /\ R!Max({a, b}) >= b
         /\ R!Max({a, b}) = a \/ R!Max({a, b}) = b
<1>1. \E x \in {a, b} : \A z \in {a, b} : x >= z
  <2>1. CASE a >= b
    BY <2>1
  <2>2. CASE ~(a >= b)
    BY <2>2
  <2> QED BY <2>1, <2>2
<1>2. R!Max({a, b}) \in {a, b} /\ \A z \in {a, b} : R!Max({a, b}) >= z
  BY <1>1 DEF R!Max
<1> QED BY <1>2

LEMMA LesserOf ==
  ASSUME NEW a \in Int, NEW b \in Int
  PROVE  /\ R!Min({a, b}) \in Int /\ R!Min({a, b}) <= a /\ R!Min({a, b}) <= b
         /\ R!Min({a, b}) = a \/ R!Min({a, b}) = b
<1>1. \E x \in {a, b} : \A z \in {a, b} : x <= z
  <2>1. CASE a <= b
    BY <2>1
  <2>2. CASE ~(a <= b)
    BY <2>2
  <2> QED BY <2>1, <2>2
<1>2. R!Min({a, b}) \in {a, b} /\ \A z \in {a, b} : R!Min({a, b}) <= z
  BY <1>1 DEF R!Min
<1> QED BY <1>2

\* The end of the page.
LEMMA BottomIs ==
  ASSUME NEW n \in Nat, NEW b \in Nat
  PROVE  /\ R!Bottom(n, b) \in Nat
         /\ n + b <= Window => R!Bottom(n, b) = 0
         /\ n + b > Window => R!Bottom(n, b) = n + b - Window
  BY ReadBounds DEF R!Bottom

\* What is in sight.
LEMMA SightIs ==
  ASSUME NEW n \in Nat, NEW b \in 1..MaxBox, NEW a \in Nat
  PROVE  /\ R!InSight(n, b, a) \in Nat
         /\ R!InSight(n, b, a) <= n /\ R!InSight(n, b, a) <= a + Window - b
         /\ R!InSight(n, b, a) = n \/ R!InSight(n, b, a) = a + Window - b
<1>1. a + Window - b \in Nat /\ n \in Int
  BY ReadBounds
<1>2. R!InSight(n, b, a) = R!Min({n, a + Window - b})
  BY DEF R!InSight
<1> HIDE DEF R!InSight
<1> QED BY <1>1, <1>2, LesserOf

LEMMA SightGrows ==
  ASSUME NEW n \in Nat, NEW b \in 1..MaxBox, NEW a \in Nat, NEW m \in Nat, NEW c \in Nat,
         n <= m, a <= c
  PROVE  R!InSight(n, b, a) <= R!InSight(m, b, c)
<1>1. b \in Nat /\ Window \in Nat
  BY ReadBounds
<1>2. /\ R!InSight(n, b, a) \in Nat
      /\ R!InSight(n, b, a) <= n /\ R!InSight(n, b, a) <= a + Window - b
  BY SightIs
<1>3. /\ R!InSight(m, b, c) \in Nat
      /\ R!InSight(m, b, c) = m \/ R!InSight(m, b, c) = c + Window - b
  BY SightIs
<1> HIDE DEF R!InSight
<1> QED BY <1>1, <1>2, <1>3

LEMMA EndInSight ==
  ASSUME NEW n \in Nat, NEW b \in 1..MaxBox, NEW a \in Nat, a >= R!Bottom(n, b)
  PROVE  R!InSight(n, b, a) = n
<1>1. b \in Nat /\ Window \in Nat
  BY ReadBounds
<1>2. a >= n + b - Window
  <2>1. n + b > Window => R!Bottom(n, b) = n + b - Window
    BY <1>1, BottomIs
  <2>2. R!Bottom(n, b) \in Nat
    BY <1>1, BottomIs
  <2> HIDE DEF R!Bottom
  <2> QED BY <1>1, <2>1, <2>2
<1>3. /\ R!InSight(n, b, a) \in Nat /\ R!InSight(n, b, a) <= n
      /\ R!InSight(n, b, a) = n \/ R!InSight(n, b, a) = a + Window - b
  BY SightIs
<1> QED BY <1>1, <1>2, <1>3

-----------------------------------------------------------------------------
\* What the effects do.
LEMMA AlignIs ==
  ASSUME NEW u \in Unreads, NEW n \in Nat, NEW a \in Nat, NEW end \in Nat,
         NEW r, r = R!Align(u, n, a, end)
  PROVE  /\ r \in Unreads
         /\ r.marker = u.marker
         /\ r.seenReload = u.seenReload
         /\ a >= end => r.read = n /\ r.count = 0
         /\ ~(a >= end) => /\ r.read = u.read
                           /\ r.count = u.count
                           /\ r.timer = u.timer
                           /\ r.wasAtBottom = FALSE
  BY DEF R!Align, Unreads

LEMMA CountedIs ==
  ASSUME Placed, NEW n \in Nat, NEW seq \in Nat, NEW u, u = R!Counted(unread, n, seq)
  PROVE  /\ u \in Unreads /\ u.seenReload = seq
         /\ visible /\ u.wasAtBottom => u.read = n
         /\ u.wasAtBottom => (visible /\ y >= R!Bottom(n, box)) \/ (~visible /\ unread.wasAtBottom)
         /\ \/ /\ visible /\ unread.wasAtBottom /\ seq = unread.seenReload
               /\ u.read = n /\ u.count = 0
            \/ visible /\ y >= R!Bottom(n, box) /\ u.read = n /\ u.count = 0
            \/ /\ u.read = unread.read
               /\ u.read < n => ~u.timer /\ u.marker = u.read + 1 /\ u.count = n - u.read
               /\ u.read >= n => /\ u.timer = unread.timer /\ u.marker = unread.marker
                                 /\ u.count = unread.count
<1> DEFINE w == [unread EXCEPT !.seenReload = seq]
           end == R!Bottom(n, box)
           a == IF visible THEN R!Align(w, n, y, end) ELSE w
<1>1. /\ unread \in Unreads /\ box \in Nat /\ y \in Nat /\ visible \in BOOLEAN
  <2>1. R!max \in Nat
    BY BottomIs, ReadBounds DEF Placed, R!max
  <2> QED BY <2>1, ReadBounds DEF Placed
<1>2. end \in Nat
  BY <1>1, BottomIs
<1>3. /\ w \in Unreads /\ w.seenReload = seq /\ w.read = unread.read /\ w.count = unread.count
      /\ w.timer = unread.timer /\ w.marker = unread.marker /\ w.wasAtBottom = unread.wasAtBottom
  BY <1>1 DEF Unreads
<1>4. CASE seq = unread.seenReload /\ unread.wasAtBottom /\ visible
  <2>0. PICK f : f = (y >= end)
    OBVIOUS
  <2>1. u = [w EXCEPT !.read = n, !.count = 0, !.wasAtBottom = f]
    BY <1>4, <2>0 DEF R!Counted
  <2>2. f \in BOOLEAN
    BY <2>0
  <2> HIDE DEF w, end
  <2> HIDE DEF a
  <2>31. u \in Unreads /\ u.wasAtBottom = f
    <3>1. u = [marker |-> w.marker, count |-> 0, read |-> n, timer |-> w.timer, wasAtBottom |-> f,
               seenReload |-> w.seenReload]
      BY <1>3, <2>1 DEF Unreads
    <3>2. w.marker \in Nat /\ w.timer \in BOOLEAN /\ w.seenReload \in Nat
      BY <1>3 DEF Unreads
    <3>3. n \in Nat /\ 0 \in Nat
      OBVIOUS
    <3> QED BY <2>2, <3>1, <3>2, <3>3 DEF Unreads
  <2>32. u.seenReload = w.seenReload
    BY <1>3, <2>1, <2>2 DEF Unreads
  <2>33. u.read = n /\ u.count = 0
    BY <1>3, <2>1, <2>2 DEF Unreads
  <2>3. u \in Unreads /\ u.seenReload = seq /\ u.read = n /\ u.count = 0
    BY <1>3, <2>31, <2>32, <2>33
  <2>4. u.wasAtBottom => y >= R!Bottom(n, box)
    BY <2>0, <2>31 DEF end
  <2> QED BY <1>4, <2>3, <2>4
<1>5. CASE ~(seq = unread.seenReload /\ unread.wasAtBottom /\ visible)
  <2>1. u = IF a.read < n
            THEN [a EXCEPT !.timer = FALSE, !.marker = a.read + 1, !.count = n - a.read]
            ELSE a
    BY <1>5 DEF R!Counted
  <2>9. PICK b : b = R!Align(w, n, y, end)
    OBVIOUS
  <2>8. /\ b \in Unreads /\ b.seenReload = seq /\ b.marker = unread.marker
        /\ y >= end => b.read = n /\ b.count = 0
        /\ ~(y >= end) => /\ b.read = unread.read /\ b.count = unread.count
                          /\ b.timer = unread.timer /\ b.wasAtBottom = FALSE
    <3> HIDE DEF w, end, a
    <3>1. w \in Unreads /\ n \in Nat /\ y \in Nat /\ end \in Nat
      BY <1>1, <1>2, <1>3
    <3>2. /\ b \in Unreads /\ b.marker = w.marker /\ b.seenReload = w.seenReload
          /\ y >= end => b.read = n /\ b.count = 0
          /\ ~(y >= end) => /\ b.read = w.read /\ b.count = w.count
                            /\ b.timer = w.timer /\ b.wasAtBottom = FALSE
      BY <2>9, <3>1 DEF R!Align, Unreads
    <3> QED BY <1>3, <3>2
  <2>7. (visible => a = b) /\ (~visible => a = w)
    BY <2>9
  <2>2. a \in Unreads /\ a.seenReload = seq /\ a.marker = unread.marker
    <3> HIDE DEF w, end, a
    <3> QED BY <1>1, <1>3, <2>7, <2>8
  <2>3. \/ visible /\ y >= end /\ a.read = n /\ a.count = 0
        \/ visible /\ a.read = unread.read /\ a.count = unread.count /\ a.timer = unread.timer /\ ~a.wasAtBottom
        \/ /\ ~visible /\ a.read = unread.read /\ a.count = unread.count /\ a.timer = unread.timer
           /\ a.wasAtBottom = unread.wasAtBottom
    <3> HIDE DEF w, end, a
    <3> QED BY <1>1, <1>3, <2>7, <2>8
  <2>6. a.wasAtBottom => (visible /\ y >= R!Bottom(n, box)) \/ (~visible /\ unread.wasAtBottom)
    <3> HIDE DEF w, a
    <3> QED BY <2>3 DEF end
  <2> HIDE DEF w, end, a
  <2>4. CASE a.read < n
    <3>1. u = [a EXCEPT !.timer = FALSE, !.marker = a.read + 1, !.count = n - a.read]
      BY <2>1, <2>4
    <3>2. a.read \in Nat /\ n - a.read \in Nat
      BY <2>2, <2>4 DEF Unreads
    <3>4. u = [marker |-> a.read + 1, count |-> n - a.read, read |-> a.read, timer |-> FALSE,
               wasAtBottom |-> a.wasAtBottom, seenReload |-> a.seenReload]
      BY <2>2, <3>1 DEF Unreads
    <3>5. a.read + 1 \in Nat /\ FALSE \in BOOLEAN
      BY <3>2
    <3>6. a.wasAtBottom \in BOOLEAN /\ a.seenReload \in Nat
      BY <2>2 DEF Unreads
    <3>7. u \in Unreads
      BY <3>2, <3>4, <3>5, <3>6 DEF Unreads
    <3>3. /\ u \in Unreads /\ u.seenReload = seq /\ u.read = a.read /\ u.timer = FALSE
          /\ u.marker = a.read + 1 /\ u.count = n - a.read /\ u.wasAtBottom = a.wasAtBottom
      BY <2>2, <3>4, <3>7
    <3> QED BY <2>3, <2>4, <2>6, <3>2, <3>3 DEF end
  <2>5. CASE ~(a.read < n)
    <3>1. u = a /\ a.read \in Nat
      BY <2>1, <2>2, <2>5 DEF Unreads
    <3> QED BY <2>2, <2>3, <2>5, <2>6, <3>1 DEF end
  <2> QED BY <2>4, <2>5
<1> QED BY <1>4, <1>5

LEMMA FollowedIs ==
  ASSUME Placed, NEW n \in Nat, NEW seq \in Nat, NEW p, p = R!Followed(page, n, seq)
  PROVE  /\ p \in Pages /\ p.adjusting = page.adjusting /\ p.follow = page.follow
         /\ n <= posts => p = page
         /\ n > posts /\ ~(seq # page.seenResync \/ ~visible) =>
              /\ p.lastY = page.lastY /\ p.lastMax = page.lastMax
              /\ page.pinned => p.pinned
              /\ p.pinned => page.pinned \/ y >= page.lastMax
         /\ n > posts /\ (seq # page.seenResync \/ ~visible) =>
              ~p.pinned /\ p.lastY = y /\ p.lastMax = R!Bottom(n, box)
<1> DEFINE w == [page EXCEPT !.seenResync = seq]
           end == R!Bottom(n, box)
<1>1. /\ page \in Pages /\ box \in Nat /\ y \in Nat /\ posts \in Nat
  <2>1. R!max \in Nat
    BY BottomIs, ReadBounds DEF Placed, R!max
  <2> QED BY <2>1, ReadBounds DEF Placed
<1>2. end \in Nat
  BY <1>1, BottomIs
<1>3. /\ w \in Pages /\ w.adjusting = page.adjusting /\ w.follow = page.follow
      /\ w.lastY = page.lastY /\ w.lastMax = page.lastMax /\ w.pinned = page.pinned
  BY <1>1 DEF Pages
<1>4. CASE n <= posts
  <2>1. p = page
    BY <1>4 DEF R!Followed
  <2> QED BY <1>1, <1>4, <2>1
<1>5. CASE n > posts /\ (seq # page.seenResync \/ ~visible)
  <2>1. ~(n <= posts)
    BY <1>1, <1>5
  <2>2. p = [w EXCEPT !.pinned = FALSE, !.atEnd = FALSE, !.lastMax = end, !.lastY = y]
    BY <1>5, <2>1 DEF R!Followed
  <2>3. /\ p \in Pages /\ p.adjusting = w.adjusting /\ p.follow = w.follow
        /\ ~p.pinned /\ p.lastY = y /\ p.lastMax = end
    <3> HIDE DEF w, end
    <3> QED BY <1>1, <1>2, <1>3, <2>2 DEF Pages
  <2> QED BY <1>3, <1>5, <2>1, <2>3
<1>6. CASE n > posts /\ ~(seq # page.seenResync \/ ~visible)
  <2>1. ~(n <= posts)
    BY <1>1, <1>6
  <2>2. p = [w EXCEPT !.pinned = w.pinned \/ y >= page.lastMax]
    BY <1>6, <2>1 DEF R!Followed
  <2>3. (w.pinned \/ y >= page.lastMax) \in BOOLEAN
    OBVIOUS
  <2>4. p.pinned = (w.pinned \/ y >= page.lastMax)
    <3> HIDE DEF w, end
    <3> QED BY <1>3, <2>2 DEF Pages
  <2>5. /\ p \in Pages /\ p.adjusting = w.adjusting /\ p.follow = w.follow
        /\ p.lastY = w.lastY /\ p.lastMax = w.lastMax
    <3> HIDE DEF w, end
    <3> QED BY <1>3, <2>2, <2>3 DEF Pages
  <2>6. (page.pinned => p.pinned) /\ (p.pinned => page.pinned \/ y >= page.lastMax)
    <3> HIDE DEF w, end
    <3> QED BY <1>3, <2>4
  <2> QED BY <1>3, <1>6, <2>1, <2>5, <2>6
<1>7. n <= posts \/ n > posts
  BY <1>1
<1> QED BY <1>4, <1>5, <1>6, <1>7

LEMMA MeasuredIs ==
  ASSUME Placed, NEW p, p = R!Measured(page)
  PROVE  /\ p \in Pages /\ p.lastY = y /\ p.lastMax = R!max
         /\ p.adjusting = page.adjusting
         /\ ~page.adjusting /\ y < R!max =>
              /\ p.follow = page.follow
              /\ p.pinned => page.pinned
              /\ page.follow # "live" => (p.pinned => y >= page.lastY)
<1>1. page \in Pages /\ y \in Nat /\ R!max \in Nat
  <2>1. R!max \in Nat
    BY BottomIs, ReadBounds DEF Placed, R!max
  <2> QED BY <2>1 DEF Placed
<1>2. PICK m : m = R!max
  OBVIOUS
<1>3. CASE page.adjusting \/ (~(y >= R!max) /\ page.follow = "live")
  <2>1. p = [page EXCEPT !.lastMax = m, !.lastY = y]
    BY <1>2, <1>3 DEF R!Measured
  <2>2. /\ p \in Pages /\ p.lastY = y /\ p.lastMax = m /\ p.adjusting = page.adjusting
        /\ p.follow = page.follow /\ p.pinned = page.pinned
    BY <1>1, <1>2, <2>1 DEF Pages
  <2> QED BY <1>1, <1>2, <1>3, <2>2
<1>4. CASE ~page.adjusting /\ y >= R!max
  <2>1. p = [page EXCEPT !.lastMax = m, !.lastY = y, !.pinned = TRUE, !.atEnd = TRUE, !.follow = "none"]
    BY <1>2, <1>4 DEF R!Measured
  <2>2. /\ p \in Pages /\ p.lastY = y /\ p.lastMax = m /\ p.adjusting = page.adjusting
    BY <1>1, <1>2, <2>1 DEF Pages
  <2> QED BY <1>1, <1>2, <1>4, <2>2
<1>5. CASE ~page.adjusting /\ ~(y >= R!max) /\ page.follow # "live"
  <2>1. p = [page EXCEPT !.lastMax = m, !.lastY = y, !.atEnd = FALSE,
                         !.pinned = page.pinned /\ y >= page.lastY]
    BY <1>2, <1>5 DEF R!Measured
  <2>2. (page.pinned /\ y >= page.lastY) \in BOOLEAN
    OBVIOUS
  <2>3. /\ p \in Pages /\ p.lastY = y /\ p.lastMax = m /\ p.adjusting = page.adjusting
        /\ p.follow = page.follow
    BY <1>1, <1>2, <2>1, <2>2 DEF Pages
  <2>4. p.pinned = (page.pinned /\ y >= page.lastY)
    BY <1>1, <2>1 DEF Pages
  <2> QED BY <1>1, <1>2, <1>5, <2>3, <2>4
<1> QED BY <1>3, <1>4, <1>5

-----------------------------------------------------------------------------
LEMMA ReadTypes ==
  ASSUME Placed
  PROVE  /\ posts \in Nat /\ 0 < posts /\ box \in Nat /\ 0 < box /\ box < Window /\ y \in Nat
         /\ seen \in Nat /\ excused \in Nat /\ glide \in Nat /\ R!max \in Nat /\ y <= R!max
         /\ posts + box <= Window => R!max = 0
         /\ posts + box > Window => R!max = posts + box - Window
         /\ R!max = R!Bottom(posts, box)
         /\ unread.read \in Nat /\ unread.count \in Nat /\ unread.marker \in Nat
         /\ page.lastY \in Nat /\ page.lastMax \in Nat
<1>1. posts \in Nat /\ 0 < posts /\ box \in Nat /\ 0 < box /\ box < Window
  BY ReadBounds DEF Placed
<1>2. R!max = R!Bottom(posts, box) /\ R!max \in Nat
  BY <1>1, BottomIs DEF R!max
<1>3. /\ posts + box <= Window => R!max = 0
      /\ posts + box > Window => R!max = posts + box - Window
  BY <1>1, BottomIs DEF R!max
<1>4. y \in Nat /\ y <= R!max /\ seen \in Nat /\ excused \in Nat /\ glide \in Nat
  BY <1>2, ReadBounds DEF Placed
<1>5. /\ unread.read \in Nat /\ unread.count \in Nat /\ unread.marker \in Nat
      /\ page.lastY \in Nat /\ page.lastMax \in Nat
  BY DEF Placed, Unreads, Pages
<1> QED BY <1>1, <1>2, <1>3, <1>4, <1>5

LEMMA LookIs ==
  ASSUME posts' \in Nat, box' \in 1..MaxBox, y' \in Nat, seen \in Nat, R!Look
  PROVE  /\ seen' \in Nat /\ seen' >= seen
         /\ visible' => seen' >= R!InSight(posts', box', y')
<1>1. R!InSight(posts', box', y') \in Nat
  BY SightIs
<1> PICK s : s = R!InSight(posts', box', y')
  OBVIOUS
<1>2. seen' = IF visible' THEN R!Max({seen, s}) ELSE seen
  BY DEF R!Look
<1>3. s \in Nat
  BY <1>1
<1>4. R!Max({seen, s}) \in Nat /\ R!Max({seen, s}) >= seen /\ R!Max({seen, s}) >= s
  BY <1>3, GreaterOf
<1> QED BY <1>2, <1>4

LEMMA ReadSafe == ReadInv => R!ReadingSafety
<1> SUFFICES ASSUME ReadInv PROVE R!ReadingSafety
  OBVIOUS
<1> USE DEF ReadInv
<1>1. R!TypeOK
  <2>1. /\ page.pinned \in BOOLEAN /\ page.atEnd \in BOOLEAN /\ page.adjusting \in BOOLEAN
        /\ unread.timer \in BOOLEAN /\ unread.wasAtBottom \in BOOLEAN
        /\ page.follow \in {"none", "live", "over"} /\ unread.marker \in Nat
    BY DEF Placed, Pages, Unreads
  <2> QED BY <2>1 DEF Placed, R!TypeOK
<1>2. R!ReadIsSeen
  <2>1. R!Max({seen, excused}) >= seen /\ R!Max({seen, excused}) >= excused /\ R!Max({seen, excused}) \in Nat
    BY ReadTypes, GreaterOf
  <2>2. CASE ~chase /\ ~(glide > 0)
    <3>1. glide = 0 /\ visible \in BOOLEAN
      BY <2>2, ReadTypes DEF Placed
    <3>2. unread.read <= seen \/ unread.read <= excused \/ unread.read <= 0
      BY <2>2, <3>1 DEF ReadComes, Sighted
    <3> QED BY <2>1, <3>2, ReadTypes DEF R!ReadIsSeen
  <2> QED BY <2>2 DEF R!ReadIsSeen
<1>3. R!NotPulledBack
  BY DEF GoneUp, R!NotPulledBack
<1> QED BY <1>1, <1>2, <1>3 DEF R!ReadingSafety

LEMMA ReadInit == R!Init => ReadInv
<1> SUFFICES ASSUME R!Init PROVE ReadInv
  OBVIOUS
<1>1. /\ posts = First /\ box = 1 /\ y = 0 /\ visible = TRUE /\ event = FALSE /\ chase = FALSE
      /\ glide = 0 /\ resyncs = 0 /\ seen = R!InSight(First, 1, 0) /\ excused = First /\ wentUp = FALSE
      /\ stood = (R!max = 0)
  BY DEF R!Init
<1>2. R!max \in Nat /\ 1 \in 1..MaxBox /\ First \in Nat /\ 0 \in Nat
  BY <1>1, BottomIs, ReadBounds DEF R!max
<1> PICK m : m = R!max
  OBVIOUS
<1>3. /\ page = [pinned |-> m = 0, atEnd |-> m = 0, lastY |-> 0, lastMax |-> m,
                 adjusting |-> FALSE, follow |-> "none", seenResync |-> 0]
      /\ unread = [marker |-> 0, count |-> 0, read |-> First, timer |-> FALSE,
                   wasAtBottom |-> m = 0, seenReload |-> 0]
  BY DEF R!Init, R!NoMarker
<1>4. m \in Nat /\ (m = 0) \in BOOLEAN
  BY <1>2
<1>5. page \in Pages /\ page.lastY = 0
  BY <1>2, <1>3, <1>4 DEF Pages
<1>6. /\ unread \in Unreads /\ unread.read = First /\ unread.count = 0 /\ unread.seenReload = 0
      /\ unread.wasAtBottom = (m = 0)
  BY <1>2, <1>3, <1>4 DEF Unreads
<1>7. R!InSight(First, 1, 0) \in Nat /\ visible \in BOOLEAN /\ event \in BOOLEAN /\ chase \in BOOLEAN
      /\ wentUp \in BOOLEAN
  BY <1>1, <1>2, SightIs
<1>8. Placed
  <2>1. posts \in 1..MaxPosts /\ box \in 1..MaxBox /\ y \in 0..R!max /\ glide \in 0..(MaxPosts + MaxBox)
    BY <1>1, <1>2, ReadBounds
  <2>2. seen \in Nat /\ excused \in Nat /\ resyncs \in Nat
    BY <1>1, <1>2, <1>7
  <2>3. seen >= R!InSight(posts, box, y)
    BY <1>1, <1>2, <1>7
  <2> HIDE DEF R!InSight
  <2>4. unread.seenReload <= resyncs
    BY <1>1, <1>6
  <2> QED BY <1>5, <1>6, <1>7, <2>1, <2>2, <2>3, <2>4 DEF Placed
<1>9. ReadKnown /\ ReadComes /\ Quiet /\ GoneUp /\ R!MarkerStands
  BY <1>1, <1>2, <1>5, <1>6 DEF ReadKnown, ReadComes, Sighted, Quiet, GoneUp, R!MarkerStands
<1>10. EndKnown
  BY <1>1, <1>6 DEF EndKnown
<1> QED BY <1>8, <1>9, <1>10 DEF ReadInv

LEMMA ReadArrive ==
  ASSUME ReadInv, NEW n \in 0..(MaxPosts - posts), NEW reload \in BOOLEAN, R!Arrive(n, reload)
  PROVE  ReadInv'
<1> PICK seq : seq = resyncs + (IF reload THEN 1 ELSE 0)
  OBVIOUS
<1> PICK m : m = posts + n
  OBVIOUS
<1>1. /\ posts' = m /\ (n > 0 \/ reload) /\ resyncs' = seq /\ unread' = R!Counted(unread, m, seq)
      /\ page' = R!Followed(page, m, seq) /\ chase' = (chase \/ R!Chases(page, m, seq))
      /\ excused' = IF stood /\ visible /\ ~reload /\ ~page'.pinned
                    THEN R!Max({excused, m}) ELSE excused
      /\ wentUp' = (wentUp /\ ~event)
      /\ box' = box /\ y' = y /\ visible' = visible /\ event' = event /\ glide' = glide
      /\ R!Look /\ R!Stands
  BY DEF R!Arrive
<1>2. Placed /\ ReadKnown /\ ReadComes /\ Quiet /\ GoneUp /\ EndKnown /\ R!MarkerStands
  BY DEF ReadInv
<1>3. /\ m \in Nat /\ n \in Nat /\ posts <= m /\ m \in 1..MaxPosts /\ resyncs \in Nat /\ seq \in Nat
      /\ resyncs <= seq /\ (reload => seq = resyncs + 1)
      /\ (n = 0 => m = posts) /\ (n > 0 => m > posts)
  <2>1. posts \in 1..MaxPosts /\ resyncs \in Nat
    BY <1>2 DEF Placed
  <2>2. n \in Nat /\ n <= MaxPosts - posts
    BY <2>1, ReadBounds
  <2> QED BY <2>1, <2>2, ReadBounds
<1>4. /\ unread' \in Unreads /\ unread'.seenReload = seq
      /\ visible /\ unread'.wasAtBottom => unread'.read = m
      /\ unread'.wasAtBottom => (visible /\ y >= R!Bottom(m, box)) \/ (~visible /\ unread.wasAtBottom)
      /\ \/ /\ visible /\ unread.wasAtBottom /\ seq = unread.seenReload
            /\ unread'.read = m /\ unread'.count = 0
         \/ visible /\ y >= R!Bottom(m, box) /\ unread'.read = m /\ unread'.count = 0
         \/ /\ unread'.read = unread.read
            /\ unread'.read < m => /\ ~unread'.timer /\ unread'.marker = unread'.read + 1
                                   /\ unread'.count = m - unread'.read
            /\ unread'.read >= m => /\ unread'.timer = unread.timer /\ unread'.marker = unread.marker
                                    /\ unread'.count = unread.count
  <2> PICK u : u = R!Counted(unread, m, seq)
    OBVIOUS
  <2>1. unread' = u
    BY <1>1
  <2> QED BY <1>2, <1>3, <2>1, CountedIs
<1>5. /\ page' \in Pages /\ page'.adjusting = page.adjusting /\ page'.follow = page.follow
      /\ n = 0 => page' = page
      /\ n > 0 /\ ~(seq # page.seenResync \/ ~visible) =>
           /\ page'.lastY = page.lastY /\ page'.lastMax = page.lastMax
           /\ page.pinned => page'.pinned
           /\ page'.pinned => page.pinned \/ y >= page.lastMax
      /\ n > 0 /\ (seq # page.seenResync \/ ~visible) =>
           ~page'.pinned /\ page'.lastY = y /\ page'.lastMax = R!Bottom(m, box)
  <2> PICK p : p = R!Followed(page, m, seq)
    OBVIOUS
  <2>1. page' = p
    BY <1>1
  <2>2. (m <= posts <=> n = 0) /\ (m > posts <=> n > 0)
    BY <1>3, <1>2 DEF Placed
  <2>3. /\ p \in Pages /\ p.adjusting = page.adjusting /\ p.follow = page.follow
        /\ m <= posts => p = page
        /\ m > posts /\ ~(seq # page.seenResync \/ ~visible) =>
             /\ p.lastY = page.lastY /\ p.lastMax = page.lastMax
             /\ page.pinned => p.pinned
             /\ p.pinned => page.pinned \/ y >= page.lastMax
        /\ m > posts /\ (seq # page.seenResync \/ ~visible) =>
             ~p.pinned /\ p.lastY = y /\ p.lastMax = R!Bottom(m, box)
    BY <1>2, <1>3, FollowedIs
  <2> QED BY <2>1, <2>2, <2>3
<1>6. /\ excused' \in Nat /\ excused' >= excused
      /\ stood /\ visible /\ ~reload /\ ~page'.pinned => excused' >= m
  <2>1. R!Max({excused, m}) \in Nat /\ R!Max({excused, m}) >= excused /\ R!Max({excused, m}) >= m
    BY <1>2, <1>3, ReadTypes, GreaterOf
  <2> QED BY <1>1, <1>2, <2>1, ReadTypes
<1>7. /\ chase' \in BOOLEAN /\ (chase => chase')
      /\ chase' => chase \/ (n > 0 /\ seq = page.seenResync /\ visible /\ page'.pinned)
      /\ n > 0 /\ seq = page.seenResync /\ visible /\ page'.pinned => chase'
  <2>1. (m <= posts <=> n = 0) /\ (m > posts <=> n > 0)
    BY <1>3, <1>2 DEF Placed
  <2>2. chase' = (chase \/ (m > posts /\ seq = page.seenResync /\ visible /\ page'.pinned))
    BY <1>1 DEF R!Chases
  <2>3. chase' \in BOOLEAN
    BY <1>2, <2>2 DEF Placed
  <2> QED BY <2>1, <2>2, <2>3
<1>8. /\ R!max' = R!Bottom(m, box) /\ R!max <= R!max' /\ R!max' \in Nat
  <2>1. R!max' = R!Bottom(m, box)
    BY <1>1 DEF R!max
  <2>2. /\ R!Bottom(m, box) \in Nat /\ (m + box <= Window => R!Bottom(m, box) = 0)
        /\ (m + box > Window => R!Bottom(m, box) = m + box - Window)
    BY <1>2, <1>3, ReadTypes, BottomIs
  <2>3. R!max <= R!Bottom(m, box)
    <3> HIDE DEF R!max, R!Bottom
    <3> QED BY <1>2, <1>3, <2>2, ReadTypes, ReadBounds
  <2> QED BY <2>1, <2>2, <2>3
<1>9. /\ seen' \in Nat /\ seen' >= seen /\ (visible' => seen' >= R!InSight(posts', box', y'))
  <2>1. posts' \in Nat /\ box' \in 1..MaxBox /\ y' \in Nat /\ seen \in Nat
    BY <1>1, <1>2, <1>3, ReadTypes DEF Placed
  <2> QED BY <1>1, <2>1, LookIs
<1>10. Placed'
  <2>1. unread'.seenReload <= resyncs' /\ resyncs' \in Nat
    BY <1>1, <1>3, <1>4
  <2>2. y' \in 0..R!max'
    BY <1>1, <1>2, <1>8, ReadTypes
  <2>3. wentUp' \in BOOLEAN /\ glide' \in 0..(MaxPosts + MaxBox) /\ event' \in BOOLEAN
    BY <1>1, <1>2 DEF Placed
  <2> QED BY <1>1, <1>2, <1>3, <1>4, <1>5, <1>6, <1>7, <1>9, <2>1, <2>2, <2>3 DEF Placed
<1>11. unread'.read = m /\ visible => chase' \/ seen' >= m \/ excused' >= m \/ unread'.read = unread.read
  <2> SUFFICES ASSUME visible, unread'.read = m PROVE chase' \/ seen' >= m \/ excused' >= m \/ unread'.read = unread.read
    OBVIOUS
  <2>1. CASE unread.wasAtBottom /\ seq = unread.seenReload
    <3>1. ~reload
      BY <1>2, <1>3, <2>1 DEF Placed
    <3>2. n > 0
      BY <1>1, <3>1
    <3>3. stood
      BY <1>2, <2>1 DEF EndKnown
    <3>4. CASE page'.pinned
      <4>1. seq = page.seenResync
        BY <1>5, <3>2, <3>4
      <4> QED BY <1>7, <3>2, <3>4, <4>1
    <3> QED BY <1>6, <3>1, <3>3, <3>4
  <2>2. CASE y >= R!Bottom(m, box)
    <3>1. R!InSight(m, box, y) = m
      BY <1>2, <1>3, <2>2, ReadTypes, EndInSight DEF Placed
    <3>2. seen' >= m
      BY <1>1, <1>9, <3>1
    <3> QED BY <3>2
  <2> QED BY <1>4, <2>1, <2>2
<1>12. ReadKnown'
  <2>1. CASE unread'.read = m
    BY <1>1, <1>3, <2>1 DEF ReadKnown
  <2>2. CASE unread'.read # m /\ unread'.read = unread.read
    <3>1. unread'.read > m => unread'.read <= excused'
      BY <1>2, <1>3, <1>6, <2>2, ReadTypes DEF ReadKnown
    <3> QED BY <1>1, <1>4, <2>2, <3>1 DEF ReadKnown
  <2> QED BY <1>4, <2>1, <2>2
<1>13. ReadComes'
  <2>0. /\ unread'.read \in Nat /\ unread.read \in Nat /\ box \in 1..MaxBox
        /\ visible \in BOOLEAN /\ glide \in Nat
    BY <1>2, <1>4, ReadTypes DEF Unreads, Placed
  <2>1. CASE visible /\ unread'.read = m /\ unread'.read # unread.read
    <3>1. chase' \/ unread'.read <= seen' \/ unread'.read <= excused'
      BY <1>6, <1>9, <1>3, <1>11, <2>1
    <3> QED BY <1>1, <2>1, <3>1 DEF ReadComes, Sighted
  <2>2. CASE unread'.read = unread.read
    <3>1. ASSUME NEW end \in Nat, NEW later \in Nat, end <= later, Sighted(end)
          PROVE  Sighted(later)'
      BY <1>2, <1>6, <1>9, <2>0, <2>2, <3>1, ReadTypes DEF Sighted
    <3>2. R!InSight(posts, box, glide) \in Nat /\ R!InSight(m, box, glide) \in Nat
      BY <1>2, <1>3, <2>0, ReadTypes, SightIs
    <3>3. R!InSight(posts, box, glide) <= R!InSight(m, box, glide)
      BY <1>2, <1>3, <2>0, ReadTypes, SightGrows
    <3>4. PICK old \in Nat : old = R!InSight(posts, box, glide)
      BY <3>2
    <3>5. PICK now \in Nat : now = R!InSight(m, box, glide)
      BY <3>2
    <3>6. R!InSight(posts', box', glide') = now
      BY <1>1, <3>5
    <3>7. old <= now
      BY <3>3, <3>4, <3>5
    <3>8. ~visible /\ ~chase' => Sighted(0)'
      <4> SUFFICES ASSUME ~visible, ~chase' PROVE Sighted(0)'
        OBVIOUS
      <4>1. Sighted(0)
        BY <1>2, <1>7 DEF ReadComes
      <4> QED BY <3>1, <4>1
    <3>9. visible /\ ~chase' /\ glide = 0 => Sighted(0)'
      <4> SUFFICES ASSUME visible, ~chase', glide = 0 PROVE Sighted(0)'
        OBVIOUS
      <4>1. Sighted(0)
        BY <1>2, <1>7 DEF ReadComes
      <4> QED BY <3>1, <4>1
    <3>10. visible /\ ~chase' /\ glide > 0 => Sighted(now)'
      <4> SUFFICES ASSUME visible, ~chase', glide > 0 PROVE Sighted(now)'
        OBVIOUS
      <4>1. Sighted(old)
        BY <1>2, <1>7, <3>4 DEF ReadComes
      <4> QED BY <3>1, <3>7, <4>1
    <3> QED BY <1>1, <3>6, <3>8, <3>9, <3>10 DEF ReadComes, Sighted
  <2> QED BY <1>4, <2>0, <2>1, <2>2
<1>14. Quiet'
  BY <1>1, <1>2, <1>5, <1>3 DEF Quiet
<1>15. GoneUp'
  <2> SUFFICES ASSUME wentUp' PROVE GoneUp'
    BY DEF GoneUp
  <2>1. wentUp /\ ~event
    BY <1>1
  <2>2. /\ y < R!max /\ ~chase /\ glide = 0 /\ ~page.adjusting /\ ~page.pinned /\ y < page.lastMax
    BY <1>2, <2>1 DEF GoneUp
  <2>3. y < R!max'
    BY <1>2, <1>8, <2>2, ReadTypes
  <2>4. ~page'.pinned /\ y < page'.lastMax
    <3>0. ~(y >= page.lastMax) /\ n \in Nat
      BY <1>2, <1>3, <2>2, ReadTypes
    <3>1. CASE n = 0
      BY <1>5, <2>2, <3>1
    <3>2. CASE n > 0 /\ ~(seq # page.seenResync \/ ~visible)
      BY <1>5, <2>2, <3>0, <3>2
    <3>3. CASE n > 0 /\ (seq # page.seenResync \/ ~visible)
      BY <1>5, <1>8, <2>3, <3>3
    <3> QED BY <3>0, <3>1, <3>2, <3>3
  <2>5. ~chase'
    BY <1>7, <2>2, <2>4
  <2> QED BY <1>1, <1>5, <2>1, <2>2, <2>3, <2>4, <2>5 DEF GoneUp
<1>16. R!MarkerStands'
  <2>0. unread'.read \in Nat /\ unread'.count \in Nat /\ unread.read \in Nat /\ unread.count \in Nat
    BY <1>4, ReadTypes, <1>2 DEF Unreads
  <2> SUFFICES ASSUME unread'.count > 0
               PROVE  /\ ~unread'.timer /\ unread'.marker = unread'.read + 1
                      /\ unread'.read < m => unread'.read + unread'.count = m
    BY <1>1 DEF R!MarkerStands
  <2>1. unread'.count # 0
    BY <2>0
  <2>2. CASE unread'.read < m
    BY <1>3, <1>4, <2>0, <2>1, <2>2
  <2>3. CASE ~(unread'.read < m)
    <3>1. unread'.read >= m
      BY <1>3, <2>0, <2>3
    <3>2. /\ unread'.read = unread.read /\ unread'.timer = unread.timer
          /\ unread'.marker = unread.marker /\ unread'.count = unread.count
      BY <1>4, <2>1, <3>1
    <3> QED BY <1>2, <2>0, <2>3, <3>2 DEF R!MarkerStands
  <2> QED BY <2>2, <2>3
<1>17. EndKnown'
  <2>1. stood' = IF visible THEN y >= R!Bottom(m, box) ELSE stood
    BY <1>1 DEF R!Stands
  <2> QED BY <1>2, <1>4, <2>1 DEF EndKnown
<1> QED BY <1>10, <1>12, <1>13, <1>14, <1>15, <1>16, <1>17 DEF ReadInv

LEMMA ReadVanish ==
  ASSUME ReadInv, NEW k \in 1..posts, R!Vanish(k)
  PROVE  ReadInv'
<1> PICK m : m = posts - 1
  OBVIOUS
<1> PICK end : end = R!Bottom(m, box)
  OBVIOUS
<1>1. /\ posts > 1 /\ posts' = m /\ y' = R!Held(y, end) /\ event' = (event \/ y' # y)
      /\ glide' = (IF y' >= glide THEN 0 ELSE glide)
      /\ unread' = R!Counted(unread, m, resyncs) /\ page' = R!Followed(page, m, resyncs)
      /\ excused' = (IF k <= unread.read THEN R!Max({excused, unread.read}) ELSE excused)
      /\ wentUp' = (wentUp /\ y' < R!Bottom(posts', box))
      /\ box' = box /\ visible' = visible /\ chase' = chase /\ resyncs' = resyncs /\ R!Stands
  BY DEF R!Vanish
<1>2. Placed /\ ReadKnown /\ ReadComes /\ Quiet /\ GoneUp /\ EndKnown /\ R!MarkerStands
  BY DEF ReadInv
<1>3. /\ m \in Nat /\ m < posts /\ m \in 1..MaxPosts /\ resyncs \in Nat /\ k \in Nat /\ 1 <= k
      /\ k <= posts /\ box \in 1..MaxBox /\ visible \in BOOLEAN /\ event \in BOOLEAN
  <2>1. posts \in 1..MaxPosts /\ posts > 1 /\ resyncs \in Nat /\ box \in 1..MaxBox
        /\ visible \in BOOLEAN /\ event \in BOOLEAN
    BY <1>1, <1>2 DEF Placed
  <2> QED BY <2>1, ReadBounds
<1>4. /\ end \in Nat /\ end <= R!max /\ R!max' = end
  <2>1. R!max' = end
    BY <1>1 DEF R!max
  <2>2. /\ R!Bottom(m, box) \in Nat /\ (m + box <= Window => R!Bottom(m, box) = 0)
        /\ (m + box > Window => R!Bottom(m, box) = m + box - Window)
    BY <1>2, <1>3, ReadTypes, BottomIs
  <2> HIDE DEF R!max, R!Bottom
  <2> QED BY <1>2, <1>3, <2>1, <2>2, ReadTypes, ReadBounds
<1>5. /\ y' \in Nat /\ y' <= y /\ y' <= end /\ (y' = y \/ y' = end) /\ (y >= end => y' = end)
  <2>1. y' = R!Min({y, end}) /\ y \in Int /\ end \in Int /\ y \in Nat
    BY <1>1, <1>2, <1>4, ReadTypes DEF R!Held
  <2>2. /\ R!Min({y, end}) <= y /\ R!Min({y, end}) <= end
        /\ R!Min({y, end}) = y \/ R!Min({y, end}) = end
    BY <2>1, LesserOf
  <2> QED BY <1>4, <2>1, <2>2
<1>6. /\ unread' \in Unreads /\ unread'.seenReload = resyncs
      /\ visible /\ unread'.wasAtBottom => unread'.read = m
      /\ unread'.wasAtBottom => (visible /\ y >= end) \/ (~visible /\ unread.wasAtBottom)
      /\ \/ /\ visible /\ unread.wasAtBottom /\ resyncs = unread.seenReload
            /\ unread'.read = m /\ unread'.count = 0
         \/ visible /\ y >= end /\ unread'.read = m /\ unread'.count = 0
         \/ /\ unread'.read = unread.read
            /\ unread'.read < m => /\ ~unread'.timer /\ unread'.marker = unread'.read + 1
                                   /\ unread'.count = m - unread'.read
            /\ unread'.read >= m => /\ unread'.timer = unread.timer /\ unread'.marker = unread.marker
                                    /\ unread'.count = unread.count
  <2> PICK u : u = R!Counted(unread, m, resyncs)
    OBVIOUS
  <2>1. unread' = u
    BY <1>1
  <2> QED BY <1>2, <1>3, <2>1, CountedIs
<1>7. page' = page
  <2>1. m <= posts
    BY <1>2, <1>3, ReadTypes
  <2> PICK p : p = R!Followed(page, m, resyncs)
    OBVIOUS
  <2>2. p = page
    BY <1>2, <1>3, <2>1, FollowedIs
  <2> QED BY <1>1, <2>2
<1>8. excused' \in Nat /\ excused' >= excused /\ (k <= unread.read => excused' >= unread.read)
  <2>1. R!Max({excused, unread.read}) \in Nat /\ R!Max({excused, unread.read}) >= excused
        /\ R!Max({excused, unread.read}) >= unread.read
    BY <1>2, ReadTypes, GreaterOf
  <2> QED BY <1>1, <1>2, <2>1, ReadTypes
<1>9. /\ seen' \in Nat /\ (visible => seen' >= R!InSight(m, box, y'))
      /\ unread.read < k /\ unread.read <= seen => unread.read <= seen'
  <2> PICK s : s = IF k <= seen THEN seen - 1 ELSE seen
    OBVIOUS
  <2>1. seen' = IF visible THEN R!Max({s, R!InSight(m, box, y')}) ELSE s
    BY <1>1 DEF R!Vanish
  <2>2. s \in Nat /\ (unread.read < k /\ unread.read <= seen => unread.read <= s)
    BY <1>2, <1>3, ReadTypes
  <2> PICK z : z = R!InSight(m, box, y')
    OBVIOUS
  <2>3. z \in Nat
    BY <1>3, <1>5, SightIs
  <2>4. R!Max({s, z}) \in Nat /\ R!Max({s, z}) >= s /\ R!Max({s, z}) >= z
    BY <2>2, <2>3, GreaterOf
  <2>5. seen' \in Nat /\ seen' >= s /\ (visible => seen' >= z)
    BY <2>1, <2>2, <2>4
  <2> QED BY <1>2, <2>2, <2>5, ReadTypes
<1>10. Placed'
  <2>1. y' \in 0..R!max'
    BY <1>4, <1>5
  <2>2. glide' \in 0..(MaxPosts + MaxBox)
    BY <1>1, <1>2, ReadBounds DEF Placed
  <2>3. wentUp' \in BOOLEAN /\ event' \in BOOLEAN /\ chase' \in BOOLEAN
    BY <1>1, <1>2 DEF Placed
  <2>4. page' \in Pages /\ unread'.seenReload <= resyncs'
    BY <1>1, <1>2, <1>3, <1>6, <1>7 DEF Placed
  <2> QED BY <1>1, <1>3, <1>6, <1>8, <1>9, <2>1, <2>2, <2>3, <2>4 DEF Placed
<1>11. unread'.read \in Nat /\ unread.read \in Nat /\ glide \in Nat /\ posts \in Nat
  BY <1>2, <1>6, ReadTypes DEF Unreads
<1>12. ReadKnown'
  <2>1. CASE unread'.read = m
    BY <1>1, <1>3, <2>1 DEF ReadKnown
  <2>2. CASE unread'.read # m /\ unread'.read = unread.read
    <3>1. CASE unread.read > posts
      <4>1. unread.read <= excused
        BY <1>2, <3>1 DEF ReadKnown
      <4> QED BY <1>1, <1>2, <1>6, <1>8, <1>11, <2>2, <4>1, ReadTypes DEF ReadKnown
    <3>2. CASE unread.read = posts
      BY <1>1, <1>3, <1>6, <1>8, <2>2, <3>2 DEF ReadKnown
    <3>3. CASE unread.read < posts
      <4>1. unread.read <= m
        BY <1>3, <1>11, <3>3
      <4> QED BY <1>1, <1>3, <1>6, <1>11, <2>2, <4>1 DEF ReadKnown
    <3> QED BY <1>11, <3>1, <3>2, <3>3
  <2> QED BY <1>6, <2>1, <2>2
<1>13. ReadComes'
  <2>1. ASSUME unread'.read <= seen' \/ unread'.read <= excused' PROVE ReadComes'
    BY <2>1 DEF ReadComes, Sighted
  <2>2. CASE visible /\ y >= end /\ unread'.read = m
    <3>1. R!InSight(m, box, y') = m
      BY <1>3, <1>4, <1>5, <2>2, EndInSight
    <3>2. unread'.read <= seen'
      BY <1>9, <2>2, <3>1
    <3> QED BY <2>1, <3>2
  <2>3. CASE visible /\ unread.wasAtBottom /\ unread'.read = m
    <3>1. unread.read = posts
      BY <1>2, <2>3 DEF ReadKnown
    <3>2. unread'.read <= excused'
      BY <1>3, <1>8, <1>11, <2>3, <3>1
    <3> QED BY <2>1, <3>2
  <2>4. CASE unread'.read = unread.read
    <3>1. CASE k <= unread.read
      BY <1>8, <2>1, <2>4, <3>1
    <3>2. CASE ~(k <= unread.read)
      <4>1. unread.read < k /\ unread.read <= m
        BY <1>3, <1>11, <3>2
      <4>2. unread.read <= seen \/ unread.read <= excused => unread'.read <= seen' \/ unread'.read <= excused'
        BY <1>2, <1>8, <1>9, <1>11, <2>4, <4>1, ReadTypes
      <4>3. CASE ~chase /\ (~visible \/ glide = 0)
        <5>1. Sighted(0)
          BY <1>2, <1>3, <4>3 DEF ReadComes
        <5>2. unread'.read = 0 => unread'.read <= excused'
          BY <1>8
        <5> QED BY <1>11, <2>1, <2>4, <4>2, <5>1, <5>2 DEF Sighted
      <4>4. CASE chase
        BY <1>1, <4>4 DEF ReadComes
      <4>5. CASE visible /\ ~chase /\ glide > 0
        <5>1. PICK old \in Nat : old = R!InSight(posts, box, glide)
          BY <1>3, <1>11, SightIs
        <5>2. PICK now \in Nat : now = R!InSight(m, box, glide)
          BY <1>3, <1>11, SightIs
        <5>3. unread.read <= seen \/ unread.read <= excused \/ unread.read <= old
          BY <1>2, <4>5, <5>1 DEF ReadComes, Sighted
        <5>4. unread.read <= old => unread.read <= now
          <6>1. old <= glide + Window - box /\ (now = m \/ now = glide + Window - box)
            BY <1>3, <1>11, <5>1, <5>2, SightIs
          <6> QED BY <1>3, <1>11, <4>1, <5>1, <5>2, <6>1, ReadBounds
        <5>5. CASE y' >= glide
          <6>1. PICK there \in Nat : there = R!InSight(m, box, y')
            BY <1>3, <1>5, SightIs
          <6>2. now <= there
            <7>1. glide <= y'
              BY <1>5, <1>11, <5>5
            <7> QED BY <1>3, <1>5, <1>11, <5>2, <6>1, <7>1, SightGrows
          <6>3. there <= seen'
            BY <1>9, <4>5, <6>1
          <6>4. unread'.read <= seen' \/ unread'.read <= excused'
            BY <1>9, <1>11, <2>4, <4>2, <5>3, <5>4, <6>2, <6>3
          <6> QED BY <2>1, <6>4
        <5>6. CASE ~(y' >= glide)
          <6>1. glide' = glide
            BY <1>1, <5>6
          <6>2. R!InSight(posts', box', glide') = now
            BY <1>1, <5>2, <6>1
          <6>3. unread'.read <= seen' \/ unread'.read <= excused' \/ unread'.read <= now
            BY <2>4, <4>2, <5>3, <5>4
          <6>4. visible' /\ glide' > 0 /\ visible' # FALSE
            BY <1>1, <4>5, <6>1
          <6> QED BY <6>1, <6>2, <6>3, <6>4, <1>11 DEF ReadComes, Sighted
        <5> QED BY <5>5, <5>6
      <4> QED BY <1>3, <1>11, <1>2, <4>3, <4>4, <4>5
    <3> QED BY <3>1, <3>2
  <2> QED BY <1>6, <2>2, <2>3, <2>4
<1>14. Quiet'
  BY <1>1, <1>2, <1>7 DEF Quiet
<1>15. GoneUp'
  <2> SUFFICES ASSUME wentUp' PROVE GoneUp'
    BY DEF GoneUp
  <2>1. wentUp /\ y' < end
    BY <1>1
  <2>2. y' = y
    BY <1>4, <1>5, <2>1
  <2>3. glide = 0 /\ ~chase /\ ~page.adjusting
    BY <1>2, <2>1 DEF GoneUp
  <2>4. glide' = 0 /\ (event' <=> event)
    BY <1>1, <1>3, <2>2, <2>3
  <2> QED BY <1>1, <1>2, <1>4, <1>7, <2>1, <2>2, <2>3, <2>4 DEF GoneUp
<1>16. R!MarkerStands'
  <2>0. unread'.read \in Nat /\ unread'.count \in Nat /\ unread.read \in Nat /\ unread.count \in Nat
    BY <1>6, ReadTypes, <1>2 DEF Unreads
  <2> SUFFICES ASSUME unread'.count > 0
               PROVE  /\ ~unread'.timer /\ unread'.marker = unread'.read + 1
                      /\ unread'.read < m => unread'.read + unread'.count = m
    BY <1>1 DEF R!MarkerStands
  <2>1. unread'.count # 0
    BY <2>0
  <2>2. CASE unread'.read < m
    BY <1>3, <1>6, <2>0, <2>1, <2>2
  <2>3. CASE ~(unread'.read < m)
    <3>1. unread'.read >= m
      BY <1>3, <2>0, <2>3
    <3>2. /\ unread'.read = unread.read /\ unread'.timer = unread.timer
          /\ unread'.marker = unread.marker /\ unread'.count = unread.count
      BY <1>6, <2>1, <3>1
    <3> QED BY <1>2, <2>0, <2>3, <3>2 DEF R!MarkerStands
  <2> QED BY <2>2, <2>3
<1>17. EndKnown'
  <2>1. stood' = IF visible THEN y' >= end ELSE stood
    BY <1>1 DEF R!Stands
  <2>2. unread'.wasAtBottom => stood'
    BY <1>2, <1>4, <1>5, <1>6, <2>1 DEF EndKnown
  <2> QED BY <2>2 DEF EndKnown
<1> QED BY <1>10, <1>12, <1>13, <1>14, <1>15, <1>16, <1>17 DEF ReadInv

\* At the end of a visible page the last post is in sight.
LEMMA EndSeen == ASSUME Placed, visible, y >= R!max PROVE seen >= posts
<1>1. R!InSight(posts, box, y) = posts
  BY ReadTypes, EndInSight DEF Placed
<1> QED BY <1>1 DEF Placed

\* What counts as read is among the posts or is excused.
LEMMA ReadWithin == ASSUME Placed, ReadKnown PROVE unread.read <= posts \/ unread.read <= excused
  BY ReadTypes DEF ReadKnown

LEMMA ReadChaseStarts == ASSUME ReadInv, R!ChaseStarts PROVE ReadInv'
<1> PICK end : end = R!max
  OBVIOUS
<1>1. /\ visible /\ chase /\ ~event /\ chase' = FALSE /\ glide' = (IF end > y THEN end ELSE 0)
      /\ page' = [page EXCEPT !.follow = "live"]
      /\ UNCHANGED <<posts, box, y, visible, event, resyncs, unread, seen, stood, excused, wentUp>>
  BY DEF R!ChaseStarts
<1>2. Placed /\ ReadKnown /\ ReadComes /\ Quiet /\ GoneUp /\ EndKnown /\ R!MarkerStands
  BY DEF ReadInv
<1>3. /\ page' \in Pages /\ page'.lastY = page.lastY /\ page'.lastMax = page.lastMax
  BY <1>1, <1>2 DEF Placed, Pages
<1>4. R!max' = end
  BY <1>1 DEF R!max
<1>5. end \in Nat /\ glide' \in Nat /\ glide' \in 0..(MaxPosts + MaxBox)
  <2>1. end \in Nat /\ end <= posts + box /\ 0 \in 0..(MaxPosts + MaxBox)
    BY <1>2, ReadTypes, ReadBounds
  <2>2. posts <= MaxPosts /\ box <= MaxBox
    BY <1>2, ReadBounds DEF Placed
  <2>3. end \in 0..(MaxPosts + MaxBox)
    BY <1>2, <2>1, <2>2, ReadTypes, ReadBounds
  <2> QED BY <1>1, <2>1, <2>3
<1>6. Placed'
  BY <1>1, <1>2, <1>3, <1>4, <1>5 DEF Placed
<1>7. ReadKnown' /\ Quiet' /\ EndKnown' /\ R!MarkerStands'
  BY <1>1, <1>2, <1>3 DEF ReadKnown, Quiet, EndKnown, R!MarkerStands
<1>8. ~wentUp /\ GoneUp'
  BY <1>1, <1>2 DEF GoneUp
<1>9. ReadComes'
  <2>1. CASE end > y
    <3>1. R!InSight(posts, box, end) = posts
      BY <1>2, <1>5, ReadTypes, EndInSight DEF Placed
    <3>2. R!InSight(posts', box', glide') = posts
      BY <1>1, <2>1, <3>1
    <3>3. glide' > 0
      BY <1>1, <1>2, <1>5, <2>1, ReadTypes
    <3>4. unread.read <= posts \/ unread.read <= excused
      BY <1>2, ReadWithin
    <3> QED BY <1>1, <1>5, <3>2, <3>3, <3>4 DEF ReadComes, Sighted
  <2>2. CASE ~(end > y)
    <3>1. seen >= posts
      BY <1>1, <1>2, <1>5, <2>2, ReadTypes, EndSeen
    <3>2. unread.read <= seen \/ unread.read <= excused
      BY <1>2, <3>1, ReadWithin, ReadTypes
    <3> QED BY <1>1, <2>2, <3>2 DEF ReadComes, Sighted
  <2> QED BY <2>1, <2>2
<1> QED BY <1>6, <1>7, <1>8, <1>9 DEF ReadInv

LEMMA ReadGlides == ASSUME ReadInv, R!Glides PROVE ReadInv'
<1> PICK end : end = R!max
  OBVIOUS
<1>1. /\ visible /\ glide > 0 /\ y' = R!Min({y + 1, end}) /\ event' = (event \/ y' # y)
      /\ glide' = (IF y' >= R!Min({glide, end}) THEN 0 ELSE glide)
      /\ UNCHANGED <<posts, box, visible, chase, resyncs, page, unread, stood, excused, wentUp>>
      /\ R!Look
  BY DEF R!Glides
<1>2. Placed /\ ReadKnown /\ ReadComes /\ Quiet /\ GoneUp /\ EndKnown /\ R!MarkerStands
  BY DEF ReadInv
<1>3. R!max' = end /\ end \in Nat
  BY <1>1, <1>2, ReadTypes DEF R!max
<1>4. y' \in Nat /\ y' <= end
  <2>1. y + 1 \in Int /\ end \in Int /\ y \in Nat
    BY <1>2, <1>3, ReadTypes
  <2>2. /\ R!Min({y + 1, end}) \in Int /\ R!Min({y + 1, end}) <= end
        /\ R!Min({y + 1, end}) = y + 1 \/ R!Min({y + 1, end}) = end
    BY <2>1, LesserOf
  <2> QED BY <1>1, <1>3, <2>1, <2>2
<1>5. /\ seen' \in Nat /\ seen' >= seen /\ (visible' => seen' >= R!InSight(posts', box', y'))
  <2>1. posts' \in Nat /\ box' \in 1..MaxBox /\ y' \in Nat /\ seen \in Nat
    BY <1>1, <1>2, <1>4, ReadTypes DEF Placed
  <2> QED BY <1>1, <2>1, LookIs
<1>6. Placed'
  <2>1. glide' \in 0..(MaxPosts + MaxBox)
    BY <1>1, <1>2, ReadBounds DEF Placed
  <2>2. y' \in 0..R!max' /\ event' \in BOOLEAN
    BY <1>1, <1>2, <1>3, <1>4 DEF Placed
  <2> QED BY <1>1, <1>2, <1>5, <2>1, <2>2 DEF Placed
<1>7. ReadKnown' /\ Quiet' /\ EndKnown' /\ R!MarkerStands'
  <2>1. ~event' => ~event /\ y' = y
    BY <1>1
  <2> QED BY <1>1, <1>2, <2>1 DEF ReadKnown, Quiet, EndKnown, R!MarkerStands
<1>8. GoneUp'
  BY <1>1, <1>2, ReadTypes DEF GoneUp
<1>9. ReadComes'
  <2>0. /\ unread.read \in Nat /\ excused \in Nat /\ seen \in Nat /\ posts \in Nat /\ glide \in Nat
        /\ box \in 1..MaxBox
    BY <1>2, ReadTypes DEF Placed
  <2>1. CASE chase
    BY <1>1, <2>1 DEF ReadComes
  <2>2. CASE ~chase
    <3>1. PICK old \in Nat : old = R!InSight(posts, box, glide)
      BY <2>0, SightIs
    <3>2. unread.read <= seen \/ unread.read <= excused \/ unread.read <= old
      BY <1>1, <1>2, <2>2, <3>1 DEF ReadComes, Sighted
    <3>3. CASE y' >= R!Min({glide, end})
      <4>1. PICK now \in Nat : now = R!InSight(posts, box, y')
        BY <1>4, <2>0, SightIs
      <4>2. old <= now \/ now = posts
        <5>1. glide \in Int /\ end \in Int
          BY <1>3, <2>0
        <5>2. y' >= glide \/ y' >= end
          BY <1>4, <3>3, <5>1, LesserOf
        <5>3. CASE y' >= glide
          <6>1. glide <= y' /\ posts <= posts
            BY <1>4, <2>0, <5>3
          <6> QED BY <1>4, <2>0, <3>1, <4>1, <6>1, SightGrows
        <5>4. CASE y' >= end
          <6>1. y' >= R!Bottom(posts, box)
            BY <1>2, <5>4, ReadTypes
          <6> QED BY <1>4, <2>0, <4>1, <6>1, EndInSight
        <5> QED BY <5>2, <5>3, <5>4
      <4>3. now <= seen'
        BY <1>1, <1>5, <4>1
      <4>4. unread.read <= posts \/ unread.read <= excused
        BY <1>2, ReadWithin
      <4>5. unread.read <= seen' \/ unread.read <= excused
        BY <1>5, <2>0, <3>2, <4>2, <4>3, <4>4
      <4> QED BY <1>1, <4>5 DEF ReadComes, Sighted
    <3>4. CASE ~(y' >= R!Min({glide, end}))
      <4>1. glide' = glide /\ R!InSight(posts', box', glide') = old
        BY <1>1, <3>1, <3>4
      <4>2. unread.read <= seen' \/ unread.read <= excused \/ unread.read <= old
        BY <1>5, <2>0, <3>2
      <4> QED BY <1>1, <2>0, <4>1, <4>2 DEF ReadComes, Sighted
    <3> QED BY <3>3, <3>4
  <2> QED BY <2>1, <2>2
<1> QED BY <1>6, <1>7, <1>8, <1>9 DEF ReadInv

\* What a page that only changes its notes, or the marker's timer, leaves alone.
LEMMA ReadExpires ==
  ASSUME ReadInv, R!FollowExpires \/ R!AdjustExpires
  PROVE  ReadInv'
<1>1. /\ page' = [page EXCEPT !.follow = "over"] \/ page' = [page EXCEPT !.adjusting = FALSE]
      /\ UNCHANGED <<posts, box, y, visible, event, chase, glide, resyncs, unread, seen, stood, excused, wentUp>>
  BY DEF R!FollowExpires, R!AdjustExpires
<1>2. Placed /\ ReadKnown /\ ReadComes /\ Quiet /\ GoneUp /\ EndKnown /\ R!MarkerStands
  BY DEF ReadInv
<1>3. /\ page' \in Pages /\ page'.lastY = page.lastY /\ page'.lastMax = page.lastMax
      /\ page'.pinned = page.pinned
  <2>1. page \in Pages
    BY <1>2 DEF Placed
  <2>2. CASE page' = [page EXCEPT !.follow = "over"]
    BY <2>1, <2>2 DEF Pages
  <2>3. CASE page' = [page EXCEPT !.adjusting = FALSE]
    BY <2>1, <2>3 DEF Pages
  <2> QED BY <1>1, <2>2, <2>3
<1>4. page'.follow # "live" \/ page'.follow = page.follow
  <2>1. page \in Pages
    BY <1>2 DEF Placed
  <2> QED BY <1>1, <2>1 DEF Pages
<1>5. page'.adjusting => page.adjusting
  <2>1. page \in Pages
    BY <1>2 DEF Placed
  <2>2. CASE page' = [page EXCEPT !.follow = "over"]
    BY <2>1, <2>2 DEF Pages
  <2>3. CASE page' = [page EXCEPT !.adjusting = FALSE]
    BY <2>1, <2>3 DEF Pages
  <2> QED BY <1>1, <2>2, <2>3
<1>6. R!max' = R!max
  BY <1>1 DEF R!max
<1>7. Placed'
  BY <1>1, <1>2, <1>3, <1>6 DEF Placed
<1>8. ReadKnown' /\ ReadComes' /\ Quiet' /\ EndKnown' /\ R!MarkerStands'
  BY <1>1, <1>2, <1>3 DEF ReadKnown, ReadComes, Sighted, Quiet, EndKnown, R!MarkerStands
<1>9. GoneUp'
  BY <1>1, <1>2, <1>3, <1>4, <1>5, <1>6 DEF GoneUp
<1> QED BY <1>7, <1>8, <1>9 DEF ReadInv

LEMMA ReadHideMarker == ASSUME ReadInv, R!HideMarker PROVE ReadInv'
<1>1. /\ unread.timer /\ unread' = [unread EXCEPT !.timer = FALSE, !.marker = 0]
      /\ UNCHANGED <<posts, box, y, visible, event, chase, glide, resyncs, page, seen, stood, excused, wentUp>>
  BY DEF R!HideMarker, R!NoMarker
<1>2. Placed /\ ReadKnown /\ ReadComes /\ Quiet /\ GoneUp /\ EndKnown /\ R!MarkerStands
  BY DEF ReadInv
<1>3. /\ unread' \in Unreads /\ unread'.read = unread.read /\ unread'.count = unread.count
      /\ unread'.wasAtBottom = unread.wasAtBottom /\ unread'.seenReload = unread.seenReload
  BY <1>1, <1>2 DEF Placed, Unreads
<1>4. R!max' = R!max
  BY <1>1 DEF R!max
<1>5. Placed'
  BY <1>1, <1>2, <1>3, <1>4 DEF Placed
<1>6. ReadKnown' /\ ReadComes' /\ Quiet' /\ EndKnown' /\ GoneUp'
  BY <1>1, <1>2, <1>3, <1>4 DEF ReadKnown, ReadComes, Sighted, Quiet, EndKnown, GoneUp
<1>7. R!MarkerStands'
  BY <1>1, <1>2, <1>3 DEF R!MarkerStands
<1> QED BY <1>5, <1>6, <1>7 DEF ReadInv

\* align, called when the page can be seen.
LEMMA ReadAligned ==
  ASSUME Placed, ReadKnown, R!MarkerStands, NEW u, u = R!Align(unread, posts, y, R!max)
  PROVE  /\ u \in Unreads /\ u.seenReload = unread.seenReload
         /\ u.wasAtBottom => u.read = posts /\ y >= R!max
         /\ u.read > posts => u.read <= excused
         /\ u.read = unread.read \/ (y >= R!max /\ u.read = posts)
         /\ u.count > 0 => /\ ~u.timer /\ u.marker = u.read + 1
                           /\ u.read < posts => u.read + u.count = posts
<1>1. /\ unread \in Unreads /\ posts \in Nat /\ y \in Nat /\ R!max \in Nat
  BY ReadTypes DEF Placed
<1>2. PICK end \in Nat : end = R!max
  BY <1>1
<1>3. u = R!Align(unread, posts, y, end)
  BY <1>2
<1>4. /\ u \in Unreads /\ u.marker = unread.marker /\ u.seenReload = unread.seenReload
      /\ y >= end => u.read = posts /\ u.count = 0
      /\ ~(y >= end) => /\ u.read = unread.read /\ u.count = unread.count
                        /\ u.timer = unread.timer /\ u.wasAtBottom = FALSE
  <2>1. CASE y >= end
    <3>1. u = [unread EXCEPT !.wasAtBottom = TRUE, !.read = posts, !.count = 0, !.timer = TRUE]
      BY <1>3, <2>1 DEF R!Align
    <3>2. u = [marker |-> unread.marker, count |-> 0, read |-> posts, timer |-> TRUE,
               wasAtBottom |-> TRUE, seenReload |-> unread.seenReload]
      BY <1>1, <3>1 DEF Unreads
    <3>3. unread.marker \in Nat /\ unread.seenReload \in Nat /\ 0 \in Nat /\ TRUE \in BOOLEAN
      BY <1>1 DEF Unreads
    <3>4. u \in Unreads
      BY <1>1, <3>2, <3>3 DEF Unreads
    <3> QED BY <2>1, <3>2, <3>4
  <2>2. CASE ~(y >= end)
    <3>1. u = [unread EXCEPT !.wasAtBottom = FALSE]
      BY <1>3, <2>2 DEF R!Align
    <3> QED BY <1>1, <2>2, <3>1 DEF Unreads
  <2> QED BY <2>1, <2>2
<1>5. CASE y >= end
  BY <1>1, <1>2, <1>4, <1>5
<1>6. CASE ~(y >= end)
  BY <1>1, <1>4, <1>6 DEF ReadKnown, R!MarkerStands
<1> QED BY <1>5, <1>6

LEMMA ReadScrollEvent == ASSUME ReadInv, R!ScrollEvent PROVE ReadInv'
<1>1. /\ visible /\ event /\ event' = FALSE /\ page' = R!Measured(page)
      /\ unread' = R!Align(unread, posts, y, R!max) /\ wentUp' = (wentUp /\ y < R!max)
      /\ UNCHANGED <<posts, box, y, visible, chase, glide, resyncs, seen, excused>>
      /\ R!Stands
  BY DEF R!ScrollEvent
<1>2. Placed /\ ReadKnown /\ ReadComes /\ Quiet /\ GoneUp /\ EndKnown /\ R!MarkerStands
  BY DEF ReadInv
<1>3. PICK u : u = R!Align(unread, posts, y, R!max)
  OBVIOUS
<1>4. /\ u \in Unreads /\ u.seenReload = unread.seenReload
      /\ u.wasAtBottom => u.read = posts /\ y >= R!max
      /\ u.read > posts => u.read <= excused
      /\ u.read = unread.read \/ (y >= R!max /\ u.read = posts)
      /\ u.count > 0 => /\ ~u.timer /\ u.marker = u.read + 1
                        /\ u.read < posts => u.read + u.count = posts
  BY <1>2, <1>3, ReadAligned
<1>5. unread' = u
  BY <1>1, <1>3
<1>6. PICK p : p = R!Measured(page)
  OBVIOUS
<1>7. /\ p \in Pages /\ p.lastY = y /\ p.lastMax = R!max /\ p.adjusting = page.adjusting
      /\ ~page.adjusting /\ y < R!max =>
           /\ p.follow = page.follow
           /\ p.pinned => page.pinned
           /\ page.follow # "live" => (p.pinned => y >= page.lastY)
  BY <1>2, <1>6, MeasuredIs
<1>8. page' = p
  BY <1>1, <1>6
<1>9. R!max' = R!max
  BY <1>1 DEF R!max
<1>10. Placed'
  <2>1. wentUp' \in BOOLEAN
    BY <1>1, <1>2 DEF Placed
  <2> QED BY <1>1, <1>2, <1>4, <1>5, <1>7, <1>8, <1>9, <2>1 DEF Placed
<1>11. ReadKnown' /\ Quiet' /\ R!MarkerStands'
  BY <1>1, <1>4, <1>5, <1>7, <1>8 DEF ReadKnown, Quiet, R!MarkerStands
<1>12. ReadComes'
  <2>1. CASE u.read = unread.read
    BY <1>1, <1>2, <1>5, <2>1 DEF ReadComes, Sighted
  <2>2. CASE y >= R!max /\ u.read = posts
    <3>1. seen >= posts
      BY <1>1, <1>2, <2>2, EndSeen
    <3>2. u.read <= seen
      BY <1>2, <2>2, <3>1, ReadTypes
    <3> QED BY <1>1, <1>5, <3>2 DEF ReadComes, Sighted
  <2> QED BY <1>4, <2>1, <2>2
<1>13. GoneUp'
  <2> SUFFICES ASSUME wentUp' PROVE GoneUp'
    BY DEF GoneUp
  <2>1. wentUp /\ y < R!max
    BY <1>1
  <2>2. /\ ~chase /\ glide = 0 /\ ~page.adjusting
        /\ ~page.pinned \/ (y < page.lastY /\ page.follow # "live")
    BY <1>1, <1>2, <2>1 DEF GoneUp
  <2>3. ~p.pinned
    BY <1>2, <1>7, <2>1, <2>2, ReadTypes
  <2> QED BY <1>1, <1>7, <1>8, <1>9, <2>1, <2>2, <2>3 DEF GoneUp
<1>14. EndKnown'
  <2>1. stood' = IF visible' THEN y' >= R!Bottom(posts', box') ELSE stood
    BY <1>1 DEF R!Stands
  <2>2. stood' = (y >= R!max)
    BY <1>1, <2>1 DEF R!max
  <2> QED BY <1>4, <1>5, <2>2 DEF EndKnown
<1> QED BY <1>10, <1>11, <1>12, <1>13, <1>14 DEF ReadInv

LEMMA ReadShow == ASSUME ReadInv, R!Show PROVE ReadInv'
<1>1. /\ ~visible /\ visible' = TRUE /\ unread' = R!Align(unread, posts, y, R!max)
      /\ UNCHANGED <<posts, box, y, event, chase, glide, resyncs, page, excused, wentUp>>
      /\ R!Look /\ R!Stands
  BY DEF R!Show
<1>2. Placed /\ ReadKnown /\ ReadComes /\ Quiet /\ GoneUp /\ EndKnown /\ R!MarkerStands
  BY DEF ReadInv
<1>3. PICK u : u = R!Align(unread, posts, y, R!max)
  OBVIOUS
<1>4. /\ u \in Unreads /\ u.seenReload = unread.seenReload
      /\ u.wasAtBottom => u.read = posts /\ y >= R!max
      /\ u.read > posts => u.read <= excused
      /\ u.read = unread.read \/ (y >= R!max /\ u.read = posts)
      /\ u.count > 0 => /\ ~u.timer /\ u.marker = u.read + 1
                        /\ u.read < posts => u.read + u.count = posts
  BY <1>2, <1>3, ReadAligned
<1>5. unread' = u
  BY <1>1, <1>3
<1>6. /\ seen' \in Nat /\ seen' >= seen /\ (visible' => seen' >= R!InSight(posts', box', y'))
  <2>1. posts' \in Nat /\ box' \in 1..MaxBox /\ y' \in Nat /\ seen \in Nat
    BY <1>1, <1>2, ReadTypes DEF Placed
  <2> QED BY <1>1, <2>1, LookIs
<1>7. R!max' = R!max
  BY <1>1 DEF R!max
<1>8. Placed'
  BY <1>1, <1>2, <1>4, <1>5, <1>6, <1>7 DEF Placed
<1>9. ReadKnown' /\ Quiet' /\ R!MarkerStands' /\ GoneUp'
  BY <1>1, <1>2, <1>4, <1>5, <1>7 DEF ReadKnown, Quiet, R!MarkerStands, GoneUp
<1>10. ReadComes'
  <2>0. u.read \in Nat /\ unread.read \in Nat /\ seen \in Nat
    BY <1>2, <1>4, ReadTypes DEF Unreads
  <2>1. CASE u.read = unread.read
    <3>1. chase \/ unread.read <= seen \/ unread.read <= excused \/ unread.read <= 0
      BY <1>1, <1>2 DEF ReadComes, Sighted
    <3>2. chase \/ u.read <= seen' \/ u.read <= excused
      BY <1>6, <2>0, <2>1, <3>1
    <3> QED BY <1>1, <1>5, <3>2 DEF ReadComes, Sighted
  <2>2. CASE y >= R!max /\ u.read = posts
    <3>1. R!InSight(posts, box, y) = posts
      BY <1>2, <2>2, ReadTypes, EndInSight DEF Placed
    <3>2. u.read <= seen'
      BY <1>1, <1>6, <2>0, <2>2, <3>1
    <3> QED BY <1>1, <1>5, <3>2 DEF ReadComes, Sighted
  <2> QED BY <1>4, <2>1, <2>2
<1>11. EndKnown'
  <2>1. stood' = IF visible' THEN y' >= R!Bottom(posts', box') ELSE stood
    BY <1>1 DEF R!Stands
  <2>2. stood' = (y >= R!max)
    BY <1>1, <2>1 DEF R!max
  <2> QED BY <1>4, <1>5, <2>2 DEF EndKnown
<1> QED BY <1>8, <1>9, <1>10, <1>11 DEF ReadInv

\* Whoever leaves a scroll that is under way has no more to see than is excused.
LEMMA LeavesIs ==
  ASSUME Placed, ReadKnown, ReadComes, R!Leaves, visible
  PROVE  /\ excused' \in Nat /\ excused' >= excused
         /\ chase \/ unread.read <= seen \/ unread.read <= excused'
<1>1. R!Max({excused, posts}) \in Nat /\ R!Max({excused, posts}) >= excused /\ R!Max({excused, posts}) >= posts
  BY ReadTypes, GreaterOf
<1>2. excused' = IF glide > 0 THEN R!Max({excused, posts}) ELSE excused
  BY DEF R!Leaves
<1>3. CASE glide > 0
  BY <1>1, <1>2, <1>3, ReadWithin, ReadTypes
<1>4. CASE ~(glide > 0)
  <2>1. glide = 0
    BY <1>4, ReadTypes
  <2>2. chase \/ unread.read <= seen \/ unread.read <= excused \/ unread.read <= 0
    BY <2>1 DEF ReadComes, Sighted
  <2> QED BY <1>2, <1>4, <2>2, ReadTypes
<1> QED BY <1>3, <1>4

LEMMA ReadHide == ASSUME ReadInv, R!Hide PROVE ReadInv'
<1>1. /\ visible /\ visible' = FALSE /\ R!Leaves
      /\ UNCHANGED <<posts, box, y, event, chase, glide, resyncs, page, unread, seen, stood, wentUp>>
  BY DEF R!Hide
<1>2. Placed /\ ReadKnown /\ ReadComes /\ Quiet /\ GoneUp /\ EndKnown /\ R!MarkerStands
  BY DEF ReadInv
<1>3. /\ excused' \in Nat /\ excused' >= excused
      /\ chase \/ unread.read <= seen \/ unread.read <= excused'
  BY <1>1, <1>2, LeavesIs
<1>4. R!max' = R!max
  BY <1>1 DEF R!max
<1>5. Placed'
  BY <1>1, <1>2, <1>3, <1>4 DEF Placed
<1>6. ReadKnown' /\ ReadComes'
  BY <1>1, <1>2, <1>3, ReadTypes DEF ReadKnown, ReadComes, Sighted
<1>7. Quiet' /\ GoneUp' /\ EndKnown' /\ R!MarkerStands'
  BY <1>1, <1>2, <1>4 DEF Quiet, GoneUp, EndKnown, R!MarkerStands
<1> QED BY <1>5, <1>6, <1>7 DEF ReadInv

LEMMA ReadScroll ==
  ASSUME ReadInv, NEW to \in 0..R!max, NEW yields \in BOOLEAN, R!Scroll(to, yields)
  PROVE  ReadInv'
<1>1. /\ visible /\ to # y /\ y' = to /\ event' = TRUE /\ glide' = 0
      /\ page' = (IF yields THEN [page EXCEPT !.follow = "none"] ELSE page)
      /\ wentUp' = (to < y /\ ~event /\ ~chase /\ ~page.adjusting /\ page'.follow # "live")
      /\ UNCHANGED <<posts, box, visible, chase, resyncs, unread, stood>>
      /\ R!Look /\ R!Leaves
  BY DEF R!Scroll
<1>2. Placed /\ ReadKnown /\ ReadComes /\ Quiet /\ GoneUp /\ EndKnown /\ R!MarkerStands
  BY DEF ReadInv
<1>3. /\ excused' \in Nat /\ excused' >= excused
      /\ chase \/ unread.read <= seen \/ unread.read <= excused'
  BY <1>1, <1>2, LeavesIs
<1>4. R!max' = R!max /\ to \in Nat /\ to <= R!max
  BY <1>1, <1>2, ReadTypes DEF R!max
<1>5. /\ seen' \in Nat /\ seen' >= seen /\ (visible' => seen' >= R!InSight(posts', box', y'))
  <2>1. posts' \in Nat /\ box' \in 1..MaxBox /\ y' \in Nat /\ seen \in Nat
    BY <1>1, <1>2, <1>4, ReadTypes DEF Placed
  <2> QED BY <1>1, <2>1, LookIs
<1>6. /\ page' \in Pages /\ page'.lastY = page.lastY /\ page'.lastMax = page.lastMax
      /\ page'.pinned = page.pinned /\ page'.adjusting = page.adjusting
  BY <1>1, <1>2 DEF Placed, Pages
<1>7. Placed'
  <2>1. glide' \in 0..(MaxPosts + MaxBox) /\ event' \in BOOLEAN
    BY <1>1, ReadBounds
  <2>2. wentUp' \in BOOLEAN
    BY <1>1
  <2>3. y' \in 0..R!max'
    BY <1>1, <1>4
  <2> QED BY <1>1, <1>2, <1>3, <1>5, <1>6, <2>1, <2>2, <2>3 DEF Placed
<1>8. ReadKnown' /\ ReadComes'
  BY <1>1, <1>2, <1>3, <1>5, ReadTypes DEF ReadKnown, ReadComes, Sighted
<1>9. Quiet' /\ EndKnown' /\ R!MarkerStands'
  BY <1>1, <1>2 DEF Quiet, EndKnown, R!MarkerStands
<1>10. GoneUp'
  <2> SUFFICES ASSUME wentUp' PROVE GoneUp'
    BY DEF GoneUp
  <2>1. to < y /\ ~event /\ ~chase /\ ~page.adjusting /\ page'.follow # "live"
    BY <1>1
  <2>2. to < page'.lastY
    BY <1>2, <1>6, <2>1 DEF Quiet
  <2>3. to < R!max
    BY <1>2, <1>4, <2>1, ReadTypes
  <2> QED BY <1>1, <1>4, <1>6, <2>1, <2>2, <2>3 DEF GoneUp
<1> QED BY <1>7, <1>8, <1>9, <1>10 DEF ReadInv

LEMMA ReadUp == ASSUME ReadInv, R!Up PROVE ReadInv'
<1>1. /\ visible /\ y > 0 /\ y' = 0 /\ event' = TRUE /\ glide' = 0
      /\ page' = [page EXCEPT !.adjusting = FALSE, !.pinned = FALSE, !.atEnd = FALSE]
      /\ UNCHANGED <<posts, box, visible, chase, resyncs, unread, stood>>
      /\ wentUp' = ~chase /\ R!Look /\ R!Leaves
  BY DEF R!Up
<1>2. Placed /\ ReadKnown /\ ReadComes /\ Quiet /\ GoneUp /\ EndKnown /\ R!MarkerStands
  BY DEF ReadInv
<1>3. /\ excused' \in Nat /\ excused' >= excused
      /\ chase \/ unread.read <= seen \/ unread.read <= excused'
  BY <1>1, <1>2, LeavesIs
<1>4. R!max' = R!max /\ R!max \in Nat /\ 0 < R!max
  BY <1>1, <1>2, ReadTypes DEF R!max
<1>5. /\ seen' \in Nat /\ seen' >= seen /\ (visible' => seen' >= R!InSight(posts', box', y'))
  <2>1. posts' \in Nat /\ box' \in 1..MaxBox /\ y' \in Nat /\ seen \in Nat
    BY <1>1, <1>2, ReadTypes DEF Placed
  <2> QED BY <1>1, <2>1, LookIs
<1>6. page' \in Pages /\ ~page'.pinned /\ ~page'.adjusting
  BY <1>1, <1>2 DEF Placed, Pages
<1>7. Placed'
  <2>1. glide' \in 0..(MaxPosts + MaxBox) /\ event' \in BOOLEAN
    BY <1>1, ReadBounds
  <2>2. wentUp' \in BOOLEAN
    BY <1>1
  <2>3. y' \in 0..R!max'
    BY <1>1, <1>4
  <2> QED BY <1>1, <1>2, <1>3, <1>5, <1>6, <2>1, <2>2, <2>3 DEF Placed
<1>8. ReadKnown' /\ ReadComes'
  BY <1>1, <1>2, <1>3, <1>5, ReadTypes DEF ReadKnown, ReadComes, Sighted
<1>9. Quiet' /\ EndKnown' /\ R!MarkerStands'
  BY <1>1, <1>2 DEF Quiet, EndKnown, R!MarkerStands
<1>10. GoneUp'
  BY <1>1, <1>4, <1>6 DEF GoneUp
<1> QED BY <1>7, <1>8, <1>9, <1>10 DEF ReadInv

LEMMA ReadDown == ASSUME ReadInv, R!Down PROVE ReadInv'
<1>1. /\ visible /\ y' = R!max /\ event' = (event \/ y # R!max) /\ glide' = 0
      /\ page' = [page EXCEPT !.adjusting = FALSE, !.pinned = TRUE, !.atEnd = TRUE]
      /\ UNCHANGED <<posts, box, visible, chase, resyncs, unread, stood, excused>>
      /\ wentUp' = FALSE /\ R!Look
  BY DEF R!Down
<1>2. Placed /\ ReadKnown /\ ReadComes /\ Quiet /\ GoneUp /\ EndKnown /\ R!MarkerStands
  BY DEF ReadInv
<1>4. R!max' = R!max /\ R!max \in Nat
  BY <1>1, <1>2, ReadTypes DEF R!max
<1>5. /\ seen' \in Nat /\ seen' >= seen /\ (visible' => seen' >= R!InSight(posts', box', y'))
  <2>1. posts' \in Nat /\ box' \in 1..MaxBox /\ y' \in Nat /\ seen \in Nat
    BY <1>1, <1>2, <1>4, ReadTypes DEF Placed
  <2> QED BY <1>1, <2>1, LookIs
<1>6. page' \in Pages /\ page'.lastY = page.lastY
  BY <1>1, <1>2 DEF Placed, Pages
<1>7. Placed'
  <2>2. event' \in BOOLEAN
    <3>1. event' = (event \/ y # R!max)
      BY <1>1
    <3>2. (event \/ y # R!max) \in BOOLEAN
      OBVIOUS
    <3> QED BY <3>1, <3>2, Zenon
  <2>4. glide' = 0 /\ wentUp' = FALSE
    BY <1>1
  <2>5. 0 \in 0..(MaxPosts + MaxBox)
    BY ReadBounds
  <2>1. glide' \in 0..(MaxPosts + MaxBox) /\ event' \in BOOLEAN /\ wentUp' \in BOOLEAN
    BY <2>2, <2>4, <2>5
  <2>3. y' \in 0..R!max'
    BY <1>1, <1>4
  <2> QED BY <1>1, <1>2, <1>5, <1>6, <2>1, <2>3 DEF Placed
<1>8. ReadKnown' /\ EndKnown' /\ R!MarkerStands' /\ GoneUp'
  BY <1>1, <1>2 DEF ReadKnown, EndKnown, R!MarkerStands, GoneUp
<1>9. Quiet'
  <2>1. ~event' => ~event /\ y' = y
    BY <1>1
  <2> QED BY <1>2, <1>6, <2>1 DEF Quiet
<1>10. ReadComes'
  <2>1. R!InSight(posts, box, y') = posts
    <3>1. PICK at_ \in Nat : at_ = R!max
      BY <1>4
    <3>2. at_ >= R!Bottom(posts, box)
      BY <1>2, <3>1, ReadTypes
    <3>3. posts \in Nat /\ box \in 1..MaxBox
      BY <1>2, ReadTypes DEF Placed
    <3>4. R!InSight(posts, box, at_) = posts
      BY <3>2, <3>3, EndInSight
    <3> QED BY <1>1, <3>1, <3>4
  <2>2. seen' >= posts
    BY <1>1, <1>5, <2>1
  <2>3. unread.read <= posts \/ unread.read <= excused
    BY <1>2, ReadWithin
  <2>4. unread.read <= seen' \/ unread.read <= excused
    BY <1>2, <1>5, <2>2, <2>3, ReadTypes
  <2> QED BY <1>1, <2>4 DEF ReadComes, Sighted
<1> QED BY <1>7, <1>8, <1>9, <1>10 DEF ReadInv

LEMMA ReadResize ==
  ASSUME ReadInv, NEW b \in 1..MaxBox, R!Resize(b)
  PROVE  ReadInv'
<1> PICK end : end = R!Bottom(posts, b)
  OBVIOUS
<1> PICK pinned : pinned = (page.pinned \/ y >= page.lastMax)
  OBVIOUS
<1> PICK keeps : keeps = (b > box /\ pinned /\ page.follow = "none")
  OBVIOUS
<1>1. /\ visible /\ ~event /\ b # box /\ box' = b
      /\ y' = (IF keeps THEN end ELSE R!Held(y, end))
      /\ event' = (event \/ y' # y)
      /\ glide' = (IF keeps THEN 0 ELSE R!Min({glide, end}))
      /\ page' = [page EXCEPT !.pinned = pinned, !.adjusting = page.adjusting \/ keeps]
      /\ wentUp' = (wentUp /\ y' < end)
      /\ excused' = (IF b > box /\ ~keeps /\ glide > 0 THEN R!Max({excused, posts}) ELSE excused)
      /\ UNCHANGED <<posts, visible, chase, resyncs, unread, stood>>
      /\ R!Look
  BY DEF R!Resize
<1>2. Placed /\ ReadKnown /\ ReadComes /\ Quiet /\ GoneUp /\ EndKnown /\ R!MarkerStands
  BY DEF ReadInv
<1>3. /\ b \in Nat /\ 0 < b /\ b < Window /\ Window \in Nat /\ keeps \in BOOLEAN /\ pinned \in BOOLEAN
      /\ keeps => b > box
  <2>1. keeps \in BOOLEAN
    <3>1. (b > box /\ pinned /\ page.follow = "none") \in BOOLEAN
      OBVIOUS
    <3> QED BY <3>1, Zenon
  <2>2. pinned \in BOOLEAN
    <3>1. (page.pinned \/ y >= page.lastMax) \in BOOLEAN
      OBVIOUS
    <3> QED BY <3>1, Zenon
  <2>3. keeps => b > box
    OBVIOUS
  <2>4. b \in Nat /\ 0 < b /\ b < Window /\ Window \in Nat
    BY ReadBounds
  <2> QED BY <2>1, <2>2, <2>3, <2>4
<1>4. /\ end \in Nat /\ R!max' = end
      /\ posts + b <= Window => end = 0
      /\ posts + b > Window => end = posts + b - Window
  <2>1. R!max' = end
    BY <1>1 DEF R!max
  <2> QED BY <1>2, <1>3, <2>1, ReadTypes, BottomIs
<1>5. /\ y' \in Nat /\ y' <= end /\ (y' = end \/ (y' = y /\ ~keeps))
  <2>1. R!Held(y, end) = R!Min({y, end}) /\ y \in Int /\ end \in Int /\ y \in Nat
    BY <1>2, <1>4, ReadTypes DEF R!Held
  <2>2. /\ R!Min({y, end}) <= end
        /\ R!Min({y, end}) = y \/ R!Min({y, end}) = end
    BY <2>1, LesserOf
  <2>3. CASE keeps
    BY <1>1, <1>4, <2>3
  <2>4. CASE ~keeps
    BY <1>1, <1>4, <2>1, <2>2, <2>4
  <2> QED BY <2>3, <2>4
<1>6. /\ glide' \in Nat /\ glide' <= glide
      /\ glide' = 0 \/ (~keeps /\ (glide' = glide \/ glide' = end))
      /\ glide = 0 => glide' = 0
      /\ glide' = 0 => keeps \/ end = 0 \/ glide = 0
  <2>1. /\ R!Min({glide, end}) <= glide /\ R!Min({glide, end}) <= end
        /\ R!Min({glide, end}) = glide \/ R!Min({glide, end}) = end
        /\ glide \in Nat
    <3>1. glide \in Int /\ end \in Int /\ glide \in Nat
      BY <1>2, <1>4, ReadTypes
    <3> QED BY <3>1, LesserOf
  <2>2. CASE keeps
    BY <1>1, <2>1, <2>2
  <2>3. CASE ~keeps
    BY <1>1, <1>4, <2>1, <2>3
  <2> QED BY <2>2, <2>3
<1>7. /\ page' \in Pages /\ page'.lastY = page.lastY /\ page'.lastMax = page.lastMax
      /\ page'.follow = page.follow /\ page'.pinned = pinned
      /\ page'.adjusting = (page.adjusting \/ keeps)
  <2>1. page \in Pages
    BY <1>2 DEF Placed
  <2>2. (page.adjusting \/ keeps) \in BOOLEAN
    OBVIOUS
  <2> PICK adjusting : adjusting = (page.adjusting \/ keeps)
    OBVIOUS
  <2>3. adjusting \in BOOLEAN /\ page' = [page EXCEPT !.pinned = pinned, !.adjusting = adjusting]
    BY <1>1, <2>2
  <2>4. /\ page' \in Pages /\ page'.lastY = page.lastY /\ page'.lastMax = page.lastMax
        /\ page'.follow = page.follow /\ page'.pinned = pinned /\ page'.adjusting = adjusting
    BY <1>3, <2>1, <2>3 DEF Pages
  <2> QED BY <2>4
<1>8. /\ excused' \in Nat /\ excused' >= excused
      /\ b > box /\ ~keeps /\ glide > 0 => excused' >= posts
  <2>1. R!Max({excused, posts}) \in Nat /\ R!Max({excused, posts}) >= excused
        /\ R!Max({excused, posts}) >= posts
    BY <1>2, ReadTypes, GreaterOf
  <2> QED BY <1>1, <1>2, <2>1, ReadTypes
<1>9. /\ seen' \in Nat /\ seen' >= seen /\ (visible' => seen' >= R!InSight(posts', box', y'))
  <2>1. posts' \in Nat /\ box' \in 1..MaxBox /\ y' \in Nat /\ seen \in Nat
    BY <1>1, <1>2, <1>5, ReadTypes DEF Placed
  <2> QED BY <1>1, <2>1, LookIs
<1>10. Placed'
  <2>1. glide' \in 0..(MaxPosts + MaxBox)
    <3>1. glide \in 0..(MaxPosts + MaxBox)
      BY <1>2 DEF Placed
    <3> QED BY <1>6, <3>1, ReadBounds
  <2>2. y' \in 0..R!max' /\ box' \in 1..MaxBox
    BY <1>1, <1>4, <1>5
  <2>3. event' \in BOOLEAN /\ wentUp' \in BOOLEAN
    BY <1>1, <1>2 DEF Placed
  <2> QED BY <1>1, <1>2, <1>7, <1>8, <1>9, <2>1, <2>2, <2>3 DEF Placed
<1>11. ReadKnown' /\ EndKnown' /\ R!MarkerStands'
  BY <1>1, <1>2, <1>8, ReadTypes DEF ReadKnown, EndKnown, R!MarkerStands
<1>12. Quiet'
  <2>1. ~event' => y' = y
    BY <1>1
  <2> QED BY <1>1, <1>2, <1>7, <2>1 DEF Quiet
<1>13. ReadComes'
  <2>0. /\ unread.read \in Nat /\ excused \in Nat /\ seen \in Nat /\ posts \in Nat /\ glide \in Nat
        /\ box \in 1..MaxBox /\ box \in Nat
    BY <1>2, ReadTypes DEF Placed
  <2>1. CASE chase
    BY <1>1, <2>1 DEF ReadComes
  <2>2. ASSUME unread.read <= seen \/ unread.read <= excused PROVE ReadComes'
    <3>1. unread.read <= seen' \/ unread.read <= excused'
      BY <1>8, <1>9, <2>0, <2>2
    <3> QED BY <1>1, <3>1 DEF ReadComes, Sighted
  <2>3. unread.read <= posts \/ unread.read <= excused
    BY <1>2, ReadWithin
  <2>4. CASE ~chase /\ glide = 0
    <3>1. unread.read <= seen \/ unread.read <= excused \/ unread.read <= 0
      BY <1>1, <1>2, <2>4 DEF ReadComes, Sighted
    <3> QED BY <2>0, <2>2, <3>1
  <2>5. CASE ~chase /\ y' >= end
    <3>1. R!InSight(posts, b, y') = posts
      BY <1>5, <2>0, <2>5, EndInSight
    <3>2. seen' >= posts
      BY <1>1, <1>9, <3>1
    <3>3. unread.read <= seen' \/ unread.read <= excused'
      BY <1>8, <1>9, <2>0, <2>3, <3>2
    <3> QED BY <1>1, <3>3 DEF ReadComes, Sighted
  <2>6. CASE ~chase /\ glide > 0 /\ ~keeps /\ b > box
    <3>1. unread.read <= excused'
      BY <1>8, <2>0, <2>3, <2>6
    <3> QED BY <1>1, <3>1 DEF ReadComes, Sighted
  <2>7. CASE ~chase /\ glide > 0 /\ ~keeps /\ b < box /\ glide' > 0
    <3>1. PICK old \in Nat : old = R!InSight(posts, box, glide)
      BY <2>0, SightIs
    <3>2. PICK now \in Nat : now = R!InSight(posts, b, glide')
      BY <1>6, <2>0, SightIs
    <3>3. unread.read <= seen \/ unread.read <= excused \/ unread.read <= old
      BY <1>1, <1>2, <2>7, <3>1 DEF ReadComes, Sighted
    <3>4. old <= now \/ now = posts
      <4>1. CASE glide' = end
        <5>1. glide' >= R!Bottom(posts, b)
          BY <1>4, <4>1
        <5> QED BY <1>6, <2>0, <3>2, <5>1, EndInSight
      <4>2. CASE glide' = glide
        <5>1. old <= posts /\ old <= glide + Window - box
          BY <2>0, <3>1, SightIs
        <5>2. now = posts \/ now = glide + Window - b
          BY <1>6, <2>0, <3>2, <4>2, SightIs
        <5> QED BY <1>3, <2>0, <2>7, <5>1, <5>2
      <4> QED BY <1>6, <2>7, <4>1, <4>2
    <3>5. unread.read <= seen' \/ unread.read <= excused' \/ unread.read <= now
      BY <1>8, <1>9, <2>0, <2>3, <3>3, <3>4
    <3>6. R!InSight(posts', box', glide') = now
      BY <1>1, <3>2
    <3> QED BY <1>1, <2>7, <3>5, <3>6 DEF ReadComes, Sighted
  <2>8. keeps => y' >= end
    BY <1>1, <1>4
  <2>9. ~keeps /\ glide > 0 /\ ~(glide' > 0) => y' >= end
    BY <1>4, <1>5, <1>6, <2>0
  <2>10. b > box \/ b < box
    BY <1>1, <1>3, <2>0
  <2>11. glide = 0 \/ glide > 0
    BY <2>0
  <2> QED BY <2>1, <2>4, <2>5, <2>6, <2>7, <2>8, <2>9, <2>10, <2>11
<1>14. GoneUp'
  <2> SUFFICES ASSUME wentUp' PROVE GoneUp'
    BY DEF GoneUp
  <2>1. wentUp /\ y' < end
    BY <1>1
  <2>2. y' = y /\ ~keeps
    BY <1>4, <1>5, <2>1
  <2>3. glide = 0 /\ ~chase /\ ~page.adjusting /\ ~page.pinned /\ y < page.lastMax
    BY <1>1, <1>2, <2>1 DEF GoneUp
  <2>4. ~pinned
    <3>1. ~(y >= page.lastMax)
      BY <1>2, <2>3, ReadTypes
    <3> QED BY <2>3, <3>1, Zenon
  <2>5. ~event' /\ glide' = 0
    BY <1>1, <1>6, <2>2, <2>3
  <2>6. ~page'.adjusting
    BY <1>7, <2>2, <2>3
  <2> QED BY <1>1, <1>4, <1>7, <2>1, <2>2, <2>3, <2>4, <2>5, <2>6 DEF GoneUp
<1> QED BY <1>10, <1>11, <1>12, <1>13, <1>14 DEF ReadInv

LEMMA ReadSame == ASSUME ReadInv, UNCHANGED <<ofReading, page, excused>> PROVE ReadInv'
<1>1. UNCHANGED <<posts, box, y, visible, event, chase, glide, resyncs, page, unread, seen, stood, wentUp, excused>>
  BY DEF ofReading
<1>2. Placed' /\ ReadKnown' /\ ReadComes'
  BY <1>1 DEF ReadInv, Placed, ReadKnown, ReadComes, Sighted, R!max
<1>3. Quiet' /\ GoneUp' /\ EndKnown' /\ R!MarkerStands'
  BY <1>1 DEF ReadInv, Quiet, GoneUp, EndKnown, R!max, R!MarkerStands
<1> QED BY <1>2, <1>3 DEF ReadInv

LEMMA ReadNext == ASSUME ReadInv, R!Next PROVE ReadInv'
  BY ReadArrive, ReadVanish, ReadChaseStarts, ReadGlides, ReadExpires, ReadScrollEvent, ReadHideMarker,
     ReadScroll, ReadUp, ReadDown, ReadHide, ReadShow, ReadResize DEF R!Next

ReadPart == part = "reading" => ReadInv

\* The reader of a thread: what counts as read was in sight or is being shown, the
\* marker stands before the first unread post with the right number, and whoever has gone
\* up is not pulled to the end (unread.ts and ThreadPage.tsx).
THEOREM UnreadIsWhatWasNotSeen == MCSpec => []ReadingSafety
<1>1. MCInit => ReadPart
  BY ReadInit DEF MCInit, ReadPart
<1>2. ReadPart /\ [MCNext]_allvars => ReadPart'
  <2> SUFFICES ASSUME ReadPart, [MCNext]_allvars PROVE ReadPart'
    OBVIOUS
  <2>1. CASE MCNext
    BY <2>1, ReadNext DEF MCNext, ReadPart
  <2>2. CASE UNCHANGED allvars
    BY <2>2, ReadSame DEF allvars, ReadPart
  <2> QED BY <2>1, <2>2
<1>3. ReadPart => ReadingSafety
  BY ReadSafe DEF ReadPart, ReadingSafety
<1> QED BY <1>1, <1>2, <1>3, PTL DEF MCSpec

-----------------------------------------------------------------------------
\* Navigation.

\* What addresses are made of; the word that leads to the settings may be a board's name.
Tokens == Forums \cup Slugs \cup Nums \cup {"none", "forum", "key", "new"}

WideRoutes ==
  [page : {"boards", "board", "thread", "compose", "settings"}, forum : Tokens, slug : Tokens,
   num : Tokens, post : Tokens]

Addresses ==
  [parts : Seq(Tokens) \cup {<<"settings">>} \cup {<<"settings", t>> : t \in Tokens}, hash : Tokens]

ContentPages == {"board", "thread", "compose"}

Apps ==
  [context : Forums, ready : BOOLEAN, prev : WideRoutes \cup {N!NoRoute}, due : BOOLEAN,
   loading : BOOLEAN, error : BOOLEAN, bounce : BOOLEAN]

Loads ==
  [page : ContentPages, content : {"board", "thread"} \X Tokens \X Tokens, forum : Forums,
   step : {"uid", "data"}, mine : BOOLEAN]

\* At most one load is the newest.
OneNewest(rs) == \A r, s \in rs : r.mine /\ s.mine => r = s

Newest(rs) == \E r \in rs : r.mine

LoadingOK(a, rs) == a.loading => ~a.ready \/ Newest(rs) \/ a.bounce

\* Before the boards are there no content was thought to be shown.
UnreadyOK(a) == ~a.ready => a.prev.page \in {"boards", "none"}

\* The newest load is for the page that is thought to be shown, and is subscribed to.
NewestOK(a, rs, top, st) ==
  \A r \in rs : r.mine =>
    /\ r.content = N!Content(a.prev) /\ r.forum = a.context
    /\ r.page = "board" \/ (r.page = "thread" /\ r.step = "data") => top = <<r.forum, r.content>> \/ st

\* What is thought to be shown, is, when nothing is under way or went wrong.
ShownOK(a, rs, sh, top, st) ==
  a.ready /\ ~a.error /\ ~a.bounce /\ ~Newest(rs) /\ a.prev.page \in ContentPages =>
    /\ sh.kind # "none" /\ sh.of = <<a.context, N!Content(a.prev)>>
    /\ top = sh.of \/ st \/ sh.by = "compose"

AppOK(a, rs, sh, top, st) ==
  /\ a \in Apps /\ rs \subseteq Loads /\ OneNewest(rs) /\ LoadingOK(a, rs) /\ UnreadyOK(a)
  /\ NewestOK(a, rs, top, st) /\ ShownOK(a, rs, sh, top, st)

\* What is thought to be shown is what the address names, but for the settings.
PrevOK == app.ready /\ N!Current.page # "settings" => app.prev = N!Current

HistOK ==
  /\ hist \in Seq(Addresses) /\ pos \in 1..Len(hist) /\ lastPath \in Addresses
  /\ canGoBack \in BOOLEAN /\ popped \in BOOLEAN /\ misled \in BOOLEAN
  /\ canGoBack /\ ~popped => pos > 1
  /\ outside # "arrow"

\* Only the last entry is of the settings, until an address leads there by mistake.
SettingsLast ==
  ~misled => \A i \in 1..(Len(hist) - 1) : N!Parse(hist[i]).page # "settings"

NavInv == AppOK(app, runs, shown, topic, stray) /\ PrevOK /\ HistOK /\ SettingsLast

-----------------------------------------------------------------------------
\* Addresses.
LEMMA NavWords ==
  /\ Default \in Forums /\ Forums \subseteq Tokens /\ Slugs \subseteq Tokens /\ Nums \subseteq Tokens
  /\ {"none", "forum", "key", "new"} \subseteq Tokens
  /\ "new" \notin Nums
  BY Assumptions DEF N!NavigationAssumption, Tokens

LEMMA RouteIs ==
  ASSUME NEW p, NEW f, NEW s, NEW n, NEW h
  PROVE  /\ N!Route(p, f, s, n, h).page = p /\ N!Route(p, f, s, n, h).forum = f
         /\ N!Route(p, f, s, n, h).slug = s /\ N!Route(p, f, s, n, h).num = n
         /\ N!Route(p, f, s, n, h).post = h
         /\ p \in {"boards", "board", "thread", "compose", "settings"} /\ f \in Tokens /\ s \in Tokens
              /\ n \in Tokens /\ h \in Tokens => N!Route(p, f, s, n, h) \in WideRoutes
  BY DEF N!Route, WideRoutes

LEMMA BoardsRouteIs ==
  ASSUME NEW f \in Tokens
  PROVE  N!BoardsRoute(f) \in WideRoutes /\ N!BoardsRoute(f).page = "boards" /\ N!BoardsRoute(f).forum = f
  BY RouteIs, NavWords DEF N!BoardsRoute, N!Nothing

LEMMA SettingsRouteIs ==
  ASSUME NEW s \in Tokens
  PROVE  N!SettingsRoute(s) \in WideRoutes /\ N!SettingsRoute(s).page = "settings"
  BY RouteIs, NavWords DEF N!SettingsRoute, N!Nothing

LEMMA RoutesAreWide == N!Routes \subseteq WideRoutes
<1> SUFFICES ASSUME NEW r \in N!Routes PROVE r \in WideRoutes
  OBVIOUS
<1>1. CASE r \in {N!BoardsRoute(f) : f \in Forums \cup {N!Nothing}}
  BY <1>1, BoardsRouteIs, NavWords DEF N!Nothing
<1>2. CASE r \in {N!SettingsRoute(s) : s \in {N!Nothing, "key"}}
  BY <1>2, SettingsRouteIs, NavWords DEF N!Nothing
<1>3. CASE r \in {N!Route(page_, f, s, N!Nothing, N!Nothing) :
                    page_ \in {"board", "compose"}, f \in Forums, s \in Slugs}
  <2>1. PICK page_ \in {"board", "compose"}, f \in Forums, s \in Slugs :
          r = N!Route(page_, f, s, "none", "none")
    BY <1>3 DEF N!Nothing
  <2> QED BY <2>1, RouteIs, NavWords
<1>4. CASE r \in {N!Route("thread", f, s, n, p) :
                    f \in Forums, s \in Slugs, n \in Nums, p \in Nums \cup {N!Nothing}}
  <2>1. PICK f \in Forums, s \in Slugs, n \in Nums, p \in Nums \cup {"none"} :
          r = N!Route("thread", f, s, n, p)
    BY <1>4 DEF N!Nothing
  <2> QED BY <2>1, RouteIs, NavWords
<1> QED BY <1>1, <1>2, <1>3, <1>4 DEF N!Routes

\* The words of a path, by its length.
LEMMA OneWord ==
  ASSUME NEW S, NEW c \in S
  PROVE  <<>> \o <<c>> = <<c>>
<1>1. <<c>> \in Seq(S)
  OBVIOUS
<1> QED BY <1>1, ConcatEmptySeq

LEMMA ThreeWords ==
  ASSUME NEW S, NEW a \in S, NEW b \in S, NEW c \in S
  PROVE  <<a, b>> \o <<c>> = <<a, b, c>>
<1>1. <<a, b>> \in Seq(S) /\ <<c>> \in Seq(S) /\ <<a, b, c>> \in Seq(S)
  OBVIOUS
<1> PICK s : s = <<a, b>> \o <<c>>
  OBVIOUS
<1>2. /\ s \in Seq(S) /\ Len(s) = 3 /\ s[1] = a /\ s[2] = b /\ s[3] = c
  BY <1>1, ConcatProperties
<1> PICK t : t = <<a, b, c>>
  OBVIOUS
<1>3. t \in Seq(S) /\ Len(t) = 3 /\ t[1] = a /\ t[2] = b /\ t[3] = c
  OBVIOUS
<1>4. \A i \in 1 .. Len(s) : s[i] = t[i]
  BY <1>2, <1>3
<1>5. s = t
  BY <1>2, <1>3, <1>4, SeqEqual
<1> QED BY <1>5

LEMMA LastWord ==
  ASSUME NEW S, NEW a \in S, NEW b \in S, NEW c \in S
  PROVE  SubSeq(<<a, b, c>>, 3, 3) = <<c>>
<1> PICK w : w = <<a, b, c>>
  OBVIOUS
<1>1. w \in Seq(S) /\ Len(w) = 3 /\ w[3] = c /\ <<c>> \in Seq(S)
  OBVIOUS
<1> PICK s : s = SubSeq(w, 3, 3)
  OBVIOUS
<1>2. s \in Seq(S) /\ Len(s) = 1 /\ s[1] = c
  BY <1>1, SubSeqProperties
<1>3. \A i \in 1 .. Len(s) : s[i] = <<c>>[i]
  BY <1>2
<1>4. s = <<c>>
  BY <1>1, <1>2, <1>3, SeqEqual
<1> QED BY <1>4

LEMMA FourWords ==
  ASSUME NEW S, NEW a \in S, NEW b \in S, NEW c \in S, NEW d \in S
  PROVE  <<a, b>> \o <<c, d>> = <<a, b, c, d>>
<1>1. <<a, b>> \in Seq(S) /\ <<c, d>> \in Seq(S) /\ <<a, b, c, d>> \in Seq(S)
  OBVIOUS
<1> PICK s : s = <<a, b>> \o <<c, d>>
  OBVIOUS
<1>2. /\ s \in Seq(S) /\ Len(s) = 4 /\ s[1] = a /\ s[2] = b /\ s[3] = c /\ s[4] = d
  BY <1>1, ConcatProperties
<1> PICK t : t = <<a, b, c, d>>
  OBVIOUS
<1>3. t \in Seq(S) /\ Len(t) = 4 /\ t[1] = a /\ t[2] = b /\ t[3] = c /\ t[4] = d
  OBVIOUS
<1>4. \A i \in 1 .. Len(s) : s[i] = t[i]
  BY <1>2, <1>3
<1>5. s = t
  BY <1>2, <1>3, <1>4, SeqEqual
<1> QED BY <1>5

LEMMA LastTwoWords ==
  ASSUME NEW S, NEW a \in S, NEW b \in S, NEW c \in S, NEW d \in S
  PROVE  SubSeq(<<a, b, c, d>>, 3, 4) = <<c, d>>
<1> PICK w : w = <<a, b, c, d>>
  OBVIOUS
<1>1. w \in Seq(S) /\ Len(w) = 4 /\ w[3] = c /\ w[4] = d
  OBVIOUS
<1> PICK s : s = SubSeq(w, 3, 4)
  OBVIOUS
<1>2. s \in Seq(S) /\ Len(s) = 2 /\ s[1] = c /\ s[2] = d
  <2>1. \A i \in 3 .. 4 : w[i] \in S
    BY <1>1
  <2>2. 3 \in Int /\ 4 \in Int /\ 1 \in 1 .. 4 - 3 + 1 /\ 2 \in 1 .. 4 - 3 + 1 /\ 4 - 3 + 1 = 2
    OBVIOUS
  <2>3. /\ SubSeq(w, 3, 4) \in Seq(S)
        /\ Len(SubSeq(w, 3, 4)) = IF 3 <= 4 THEN 4 - 3 + 1 ELSE 0
        /\ \A i \in 1 .. 4 - 3 + 1 : SubSeq(w, 3, 4)[i] = w[3 + i - 1]
    BY <2>1, SubSeqProperties
  <2>4. s[1] = w[3 + 1 - 1] /\ s[2] = w[3 + 2 - 1]
    BY <2>3
  <2> QED BY <1>1, <2>3, <2>4
<1> PICK t : t = <<c, d>>
  OBVIOUS
<1>3. t \in Seq(S) /\ Len(t) = 2 /\ t[1] = c /\ t[2] = d
  OBVIOUS
<1>4. \A i \in 1 .. Len(s) : s[i] = t[i]
  BY <1>2, <1>3
<1>5. s = t
  BY <1>2, <1>3, <1>4, SeqEqual
<1> QED BY <1>5

LEMMA PathOfIs ==
  ASSUME NEW r \in WideRoutes
  PROVE  /\ N!PathOf(r) \in Addresses /\ N!PathOf(r).hash = r.post
         /\ r.page # "settings" => N!PathOf(r).parts \in Seq(Tokens)
         /\ r.page = "boards" =>
              N!PathOf(r).parts = IF r.forum = "none" \/ r.forum = Default THEN <<>>
                                  ELSE <<"forum", r.forum>>
         /\ r.page = "board" =>
              N!PathOf(r).parts = IF r.forum = Default THEN <<r.slug>>
                                  ELSE <<"forum", r.forum, r.slug>>
         /\ r.page = "thread" =>
              N!PathOf(r).parts = IF r.forum = Default THEN <<r.slug, r.num>>
                                  ELSE <<"forum", r.forum, r.slug, r.num>>
         /\ r.page = "compose" =>
              N!PathOf(r).parts = IF r.forum = Default THEN <<r.slug, "new">>
                                  ELSE <<"forum", r.forum, r.slug, "new">>
         /\ r.page = "settings" =>
              N!PathOf(r).parts = IF r.slug = "none" THEN <<"settings">> ELSE <<"settings", r.slug>>
<1>0. PICK ps : N!PathOf(r) = [parts |-> ps, hash |-> r.post]
  BY DEF N!PathOf
<1>1. /\ r.page \in {"boards", "board", "thread", "compose", "settings"}
      /\ r.forum \in Tokens /\ r.slug \in Tokens /\ r.num \in Tokens /\ r.post \in Tokens
  BY DEF WideRoutes
<1>2. N!BasePath(r.forum) = IF r.forum = Default THEN <<>> ELSE <<"forum", r.forum>>
  BY DEF N!BasePath
<1>3. "forum" \in Tokens /\ "new" \in Tokens
  BY NavWords
<1>4. r.page = "boards" =>
        ps = IF r.forum = "none" \/ r.forum = Default THEN <<>> ELSE <<"forum", r.forum>>
  BY <1>0, <1>2 DEF N!PathOf, N!Nothing
<1>5. r.page = "board" =>
        ps = IF r.forum = Default THEN <<r.slug>> ELSE <<"forum", r.forum, r.slug>>
  <2> SUFFICES ASSUME r.page = "board"
               PROVE  ps = IF r.forum = Default THEN <<r.slug>> ELSE <<"forum", r.forum, r.slug>>
    OBVIOUS
  <2>1. ps = N!BasePath(r.forum) \o <<r.slug>>
    BY <1>0 DEF N!PathOf
  <2>2. <<"forum", r.forum>> \o <<r.slug>> = <<"forum", r.forum, r.slug>> /\ <<>> \o <<r.slug>> = <<r.slug>>
    BY <1>1, <1>3, OneWord, ThreeWords
  <2> QED BY <1>2, <2>1, <2>2
<1>6. r.page = "thread" =>
        ps = IF r.forum = Default THEN <<r.slug, r.num>> ELSE <<"forum", r.forum, r.slug, r.num>>
  <2> SUFFICES ASSUME r.page = "thread"
               PROVE  ps = IF r.forum = Default THEN <<r.slug, r.num>>
                           ELSE <<"forum", r.forum, r.slug, r.num>>
    OBVIOUS
  <2>1. ps = N!BasePath(r.forum) \o <<r.slug, r.num>>
    BY <1>0 DEF N!PathOf
  <2>2. /\ <<"forum", r.forum>> \o <<r.slug, r.num>> = <<"forum", r.forum, r.slug, r.num>>
        /\ <<>> \o <<r.slug, r.num>> = <<r.slug, r.num>>
    <3>1. <<r.slug, r.num>> \in Seq(Tokens)
      BY <1>1, <1>3
    <3>2. <<>> \o <<r.slug, r.num>> = <<r.slug, r.num>>
      BY <3>1, ConcatEmptySeq
    <3>3. "forum" \in Tokens /\ r.forum \in Tokens /\ r.slug \in Tokens /\ r.num \in Tokens
      BY <1>1, <1>3
    <3>4. <<"forum", r.forum>> \o <<r.slug, r.num>> = <<"forum", r.forum, r.slug, r.num>>
      BY <3>3, FourWords, Zenon
    <3> QED BY <3>2, <3>4
  <2> QED BY <1>2, <2>1, <2>2
<1>7. r.page = "compose" =>
        ps = IF r.forum = Default THEN <<r.slug, "new">> ELSE <<"forum", r.forum, r.slug, "new">>
  <2> SUFFICES ASSUME r.page = "compose"
               PROVE  ps = IF r.forum = Default THEN <<r.slug, "new">>
                           ELSE <<"forum", r.forum, r.slug, "new">>
    OBVIOUS
  <2>1. ps = N!BasePath(r.forum) \o <<r.slug, "new">>
    BY <1>0 DEF N!PathOf
  <2>2. /\ <<"forum", r.forum>> \o <<r.slug, "new">> = <<"forum", r.forum, r.slug, "new">>
        /\ <<>> \o <<r.slug, "new">> = <<r.slug, "new">>
    <3>1. <<r.slug, "new">> \in Seq(Tokens)
      BY <1>1, <1>3
    <3>2. <<>> \o <<r.slug, "new">> = <<r.slug, "new">>
      BY <3>1, ConcatEmptySeq
    <3>3. "forum" \in Tokens /\ r.forum \in Tokens /\ r.slug \in Tokens /\ "new" \in Tokens
      BY <1>1, <1>3
    <3>4. <<"forum", r.forum>> \o <<r.slug, "new">> = <<"forum", r.forum, r.slug, "new">>
      BY <3>3, FourWords, Zenon
    <3> QED BY <3>2, <3>4
  <2> QED BY <1>2, <2>1, <2>2
<1>8. r.page = "settings" => ps = IF r.slug = "none" THEN <<"settings">> ELSE <<"settings", r.slug>>
  BY <1>0 DEF N!PathOf, N!Nothing
<1>90. /\ <<>> \in Seq(Tokens) /\ <<r.slug>> \in Seq(Tokens) /\ <<"forum", r.forum>> \in Seq(Tokens)
       /\ <<"forum", r.forum, r.slug>> \in Seq(Tokens) /\ <<r.slug, r.num>> \in Seq(Tokens)
       /\ <<"forum", r.forum, r.slug, r.num>> \in Seq(Tokens) /\ <<r.slug, "new">> \in Seq(Tokens)
       /\ <<"forum", r.forum, r.slug, "new">> \in Seq(Tokens)
  BY <1>1, <1>3
<1>9. r.page # "settings" => ps \in Seq(Tokens)
  <2> SUFFICES ASSUME r.page # "settings" PROVE ps \in Seq(Tokens)
    OBVIOUS
  <2>1. CASE r.page = "boards"
    BY <1>4, <1>90, <2>1
  <2>2. CASE r.page = "board"
    BY <1>5, <1>90, <2>2
  <2>3. CASE r.page = "thread"
    BY <1>6, <1>90, <2>3
  <2>4. CASE r.page = "compose"
    BY <1>7, <1>90, <2>4
  <2>5. r.page = "boards" \/ r.page = "board" \/ r.page = "thread" \/ r.page = "compose"
    BY <1>1
  <2> QED BY <2>1, <2>2, <2>3, <2>4, <2>5
<1>10. N!PathOf(r).parts = ps
  BY <1>0
<1>11. ps \in Seq(Tokens) \cup {<<"settings">>} \cup {<<"settings", t>> : t \in Tokens}
  BY <1>1, <1>8, <1>9
<1>12. N!PathOf(r) \in Addresses /\ N!PathOf(r).hash = r.post
  BY <1>0, <1>1, <1>11 DEF Addresses
<1> QED BY <1>4, <1>5, <1>6, <1>7, <1>8, <1>9, <1>10, <1>12

LEMMA WithinIs ==
  ASSUME NEW f \in Tokens, NEW rest \in Seq(Tokens), NEW h \in Tokens
  PROVE  /\ N!Within(f, rest, h) \in WideRoutes /\ N!Within(f, rest, h).page # "settings"
         /\ Len(rest) = 1 => N!Within(f, rest, h) = N!Route("board", f, rest[1], "none", "none")
         /\ Len(rest) = 2 /\ rest[2] = "new" =>
              N!Within(f, rest, h) = N!Route("compose", f, rest[1], "none", "none")
         /\ Len(rest) = 2 /\ rest[2] \in Nums =>
              N!Within(f, rest, h) = N!Route("thread", f, rest[1], rest[2], h)
<1> PICK r : r = N!Within(f, rest, h)
  OBVIOUS
<1>0. /\ "none" \in Tokens /\ "new" \notin Nums
      /\ Len(rest) = 1 => rest[1] \in Tokens
      /\ Len(rest) = 2 => rest[1] \in Tokens /\ rest[2] \in Tokens
  BY NavWords
<1>1. CASE Len(rest) = 1
  <2>1. r = N!Route("board", f, rest[1], "none", "none")
    BY <1>1 DEF N!Within, N!Nothing
  <2>2. r \in WideRoutes /\ r.page = "board"
    BY <1>0, <1>1, <2>1, RouteIs
  <2> QED BY <1>1, <2>1, <2>2
<1>2. CASE Len(rest) = 2 /\ rest[2] = "new"
  <2>1. r = N!Route("compose", f, rest[1], "none", "none")
    BY <1>0, <1>2 DEF N!Within, N!Nothing
  <2>2. r \in WideRoutes /\ r.page = "compose"
    BY <1>0, <1>2, <2>1, RouteIs
  <2> QED BY <1>0, <1>2, <2>1, <2>2
<1>3. CASE Len(rest) = 2 /\ rest[2] # "new" /\ rest[2] \in Nums
  <2>1. r = N!Route("thread", f, rest[1], rest[2], h)
    BY <1>3 DEF N!Within
  <2>2. r \in WideRoutes /\ r.page = "thread"
    BY <1>0, <1>3, <2>1, RouteIs
  <2> QED BY <1>3, <2>1, <2>2
<1>4. CASE Len(rest) # 1 /\ ~(Len(rest) = 2 /\ rest[2] = "new") /\ ~(Len(rest) = 2 /\ rest[2] \in Nums)
  <2>1. r = N!BoardsRoute("none")
    BY <1>4 DEF N!Within, N!Nothing
  <2>2. r \in WideRoutes /\ r.page = "boards"
    BY <1>0, <2>1, BoardsRouteIs
  <2> QED BY <1>4, <2>2
<1> QED BY <1>0, <1>1, <1>2, <1>3, <1>4

LEMMA ParseIs ==
  ASSUME NEW a \in Addresses
  PROVE  N!Parse(a) \in WideRoutes
<1> PICK r : r = N!Parse(a)
  OBVIOUS
<1>0. "none" \in Tokens /\ "key" \in Tokens /\ Default \in Tokens
  BY NavWords
<1>1. a.hash \in Tokens /\ a.parts \in Seq(Tokens) \cup {<<"settings">>} \cup {<<"settings", t>> : t \in Tokens}
  BY DEF Addresses
<1>2. CASE a.parts = <<>>
  <2>1. r = N!BoardsRoute("none")
    BY <1>2 DEF N!Parse, N!Nothing
  <2> QED BY <1>0, <2>1, BoardsRouteIs
<1>3. CASE a.parts # <<>> /\ Head(a.parts) = "settings"
  <2>1. r = N!SettingsRoute("none") \/ r = N!SettingsRoute("key") \/ r = N!BoardsRoute("none")
    BY <1>3 DEF N!Parse, N!Nothing
  <2>2. r \in WideRoutes
    BY <1>0, <2>1, BoardsRouteIs, SettingsRouteIs
  <2> QED BY <2>2
<1>4. CASE a.parts # <<>> /\ Head(a.parts) # "settings"
  <2>1. a.parts \in Seq(Tokens)
    <3>1. Head(<<"settings">>) = "settings" /\ \A t \in Tokens : Head(<<"settings", t>>) = "settings"
      OBVIOUS
    <3> QED BY <1>1, <1>4, <3>1
  <2> PICK ps \in Seq(Tokens) : ps = a.parts
    BY <2>1
  <2>2. CASE Head(ps) # "forum"
    <3>1. r = N!Within(Default, ps, a.hash)
      BY <1>4, <2>2 DEF N!Parse
    <3>2. r \in WideRoutes
      BY <1>0, <1>1, <3>1, WithinIs
    <3> QED BY <3>2
  <2>3. CASE Head(ps) = "forum" /\ Len(ps) = 2
    <3>1. r = N!BoardsRoute(ps[2])
      BY <1>4, <2>3 DEF N!Parse
    <3>2. ps[2] \in Tokens
      BY <2>3
    <3>3. r \in WideRoutes /\ r.page = "boards"
      BY <3>1, <3>2, BoardsRouteIs
    <3> QED BY <3>3
  <2>4. CASE Head(ps) = "forum" /\ Len(ps) > 2
    <3>1. r = N!Within(ps[2], SubSeq(ps, 3, Len(ps)), a.hash)
      <4>1. ~(Len(ps) = 2)
        <5>1. PICK n \in Nat : n = Len(ps)
          OBVIOUS
        <5>2. n > 2
          BY <2>4, <5>1
        <5>3. n # 2
          BY <5>2
        <5> QED BY <5>1, <5>3
      <4> QED BY <1>4, <2>4, <4>1 DEF N!Parse
    <3>2. ps[2] \in Tokens
      BY <2>4
    <3>3. SubSeq(ps, 3, Len(ps)) \in Seq(Tokens)
      <4>1. \A i \in 3 .. Len(ps) : ps[i] \in Tokens
        OBVIOUS
      <4>2. 3 \in Int /\ Len(ps) \in Int
        OBVIOUS
      <4> QED BY <4>1, <4>2, SubSeqProperties
    <3>5. PICK rest \in Seq(Tokens), f \in Tokens : rest = SubSeq(ps, 3, Len(ps)) /\ f = ps[2]
      BY <3>2, <3>3
    <3>6. r = N!Within(f, rest, a.hash)
      BY <3>1, <3>5
    <3>4. r \in WideRoutes
      BY <1>1, <3>6, WithinIs
    <3> QED BY <3>4
  <2>5. CASE Head(ps) = "forum" /\ ~(Len(ps) = 2) /\ ~(Len(ps) > 2)
    <3>1. r = N!BoardsRoute("none")
      BY <1>4, <2>5 DEF N!Parse, N!Nothing
    <3>2. r \in WideRoutes /\ r.page = "boards"
      BY <1>0, <3>1, BoardsRouteIs
    <3> QED BY <3>2
  <2> QED BY <2>2, <2>3, <2>4, <2>5
<1> QED BY <1>2, <1>3, <1>4

\* The address of a page of boards leads to one.
LEMMA BoardsReadBack ==
  ASSUME NEW f \in Tokens
  PROVE  N!PathOf(N!BoardsRoute(f)) \in Addresses /\ N!Parse(N!PathOf(N!BoardsRoute(f))).page = "boards"
<1> PICK r : r = N!BoardsRoute(f)
  OBVIOUS
<1> PICK p : p = N!PathOf(r)
  OBVIOUS
<1>1. r \in WideRoutes /\ r.page = "boards" /\ r.forum = f
  BY BoardsRouteIs
<1>2. p \in Addresses /\ (p.parts = <<>> \/ p.parts = <<"forum", f>>)
  BY <1>1, PathOfIs
<1>3. CASE p.parts = <<>>
  <2>1. N!Parse(p) = N!BoardsRoute("none") /\ "none" \in Tokens
    BY <1>3, NavWords DEF N!Parse, N!Nothing
  <2> QED BY <1>2, <2>1, BoardsRouteIs
<1>4. CASE p.parts = <<"forum", f>>
  <2> PICK ps : ps = <<"forum", f>>
    OBVIOUS
  <2>1. ps # <<>> /\ Head(ps) = "forum" /\ Len(ps) = 2 /\ ps[2] = f
    OBVIOUS
  <2>2. "forum" # "settings" /\ p.parts = ps
    BY <1>4
  <2>3. N!Parse(p) = N!BoardsRoute(f)
    BY <2>1, <2>2 DEF N!Parse
  <2> QED BY <1>2, <2>3, BoardsRouteIs
<1> QED BY <1>2, <1>3, <1>4

LEMMA ParseDefault ==
  ASSUME NEW a, a.parts # <<>>, Head(a.parts) # "settings", Head(a.parts) # "forum"
  PROVE  N!Parse(a) = N!Within(Default, a.parts, a.hash)
  BY DEF N!Parse

LEMMA ParseForum ==
  ASSUME NEW a, a.parts # <<>>, Head(a.parts) = "forum", Len(a.parts) # 2, Len(a.parts) > 2
  PROVE  N!Parse(a) = N!Within(a.parts[2], SubSeq(a.parts, 3, Len(a.parts)), a.hash)
  BY DEF N!Parse

\* An address of a page of content reads back when what it has within its forum does.
LEMMA ContentReadsBack ==
  ASSUME NEW r \in WideRoutes, NEW w \in Seq(Tokens),
         r.slug # "settings", r.slug # "forum",
         \/ w = <<r.slug>> \/ w = <<r.slug, r.num>> \/ w = <<r.slug, "new">>,
         N!PathOf(r).parts = IF r.forum = Default THEN w ELSE <<"forum", r.forum>> \o w,
         N!PathOf(r).hash = r.post
  PROVE  N!Parse(N!PathOf(r)) = N!Within(r.forum, w, r.post)
<1>1. /\ r.forum \in Tokens /\ r.slug \in Tokens /\ r.num \in Tokens /\ r.post \in Tokens
      /\ "forum" \in Tokens /\ "new" \in Tokens
  BY NavWords DEF WideRoutes
<1> PICK a : a = N!PathOf(r)
  OBVIOUS
<1>2. CASE r.forum = Default
  <2>1. a.parts = w /\ a.hash = r.post
    BY <1>2
  <2>2. w # <<>> /\ Head(w) = r.slug
    OBVIOUS
  <2>3. N!Parse(a) = N!Within(Default, a.parts, a.hash)
    BY <2>1, <2>2, ParseDefault
  <2> QED BY <1>2, <2>1, <2>3
<1>3. CASE r.forum # Default
  <2>1. PICK b \in Tokens, c \in Tokens : w = <<b>> \/ w = <<b, c>>
    BY <1>1
  <2> PICK ps : ps = <<"forum", r.forum>> \o w
    OBVIOUS
  <2>2. \/ ps = <<"forum", r.forum, b>> /\ w = <<b>>
        \/ ps = <<"forum", r.forum, b, c>> /\ w = <<b, c>>
    <3>1. CASE w = <<b>>
      <4>1. <<"forum", r.forum>> \o <<b>> = <<"forum", r.forum, b>>
        BY <1>1, ThreeWords
      <4>2. ps = <<"forum", r.forum, b>>
        BY <3>1, <4>1
      <4> QED BY <3>1, <4>2
    <3>2. CASE w = <<b, c>>
      <4>1. <<"forum", r.forum>> \o <<b, c>> = <<"forum", r.forum, b, c>>
        BY <1>1, FourWords
      <4>2. ps = <<"forum", r.forum, b, c>>
        BY <3>2, <4>1
      <4> QED BY <3>2, <4>2
    <3> QED BY <2>1, <3>1, <3>2
  <2>3. ps # <<>> /\ Head(ps) = "forum" /\ ps[2] = r.forum
    BY <2>2
  <2>4. Len(ps) # 2 /\ Len(ps) > 2 /\ SubSeq(ps, 3, Len(ps)) = w
    <3>1. CASE ps = <<"forum", r.forum, b>> /\ w = <<b>>
      <4>1. SubSeq(<<"forum", r.forum, b>>, 3, 3) = <<b>>
        BY <1>1, LastWord
      <4>2. Len(ps) = 3
        BY <3>1
      <4>3. SubSeq(ps, 3, 3) = w
        BY <3>1, <4>1
      <4>4. SubSeq(ps, 3, Len(ps)) = w
        BY <4>2, <4>3
      <4>5. 3 # 2 /\ 3 > 2
        OBVIOUS
      <4> QED BY <4>2, <4>4, <4>5
    <3>2. CASE ps = <<"forum", r.forum, b, c>> /\ w = <<b, c>>
      <4>1. SubSeq(<<"forum", r.forum, b, c>>, 3, 4) = <<b, c>>
        BY <1>1, LastTwoWords
      <4>2. Len(ps) = 4
        BY <3>2
      <4>3. SubSeq(ps, 3, 4) = w
        BY <3>2, <4>1
      <4>4. SubSeq(ps, 3, Len(ps)) = w
        BY <4>2, <4>3
      <4>5. 4 # 2 /\ 4 > 2
        OBVIOUS
      <4> QED BY <4>2, <4>4, <4>5
    <3> QED BY <2>2, <3>1, <3>2
  <2>5. a.parts = ps /\ a.hash = r.post
    BY <1>3
  <2>6. N!Parse(a) = N!Within(a.parts[2], SubSeq(a.parts, 3, Len(a.parts)), a.hash)
    BY <2>3, <2>4, <2>5, ParseForum
  <2> QED BY <2>3, <2>4, <2>5, <2>6
<1> QED BY <1>2, <1>3

LEMMA ReadBack == N!AddressesReadBack
<1> SUFFICES ASSUME NEW r \in N!Routes, r.slug \notin {"settings", "forum"},
                    ~(r.page = "boards" /\ r.forum = Default)
             PROVE  N!Parse(N!PathOf(r)) = r
  BY DEF N!AddressesReadBack
<1> PICK a : a = N!PathOf(r)
  OBVIOUS
<1>0. r \in WideRoutes
  BY RoutesAreWide
<1>1. /\ r.forum \in Tokens /\ r.slug \in Tokens /\ r.num \in Tokens /\ r.post \in Tokens
      /\ "forum" \in Tokens /\ "new" \in Tokens /\ "none" \in Tokens
      /\ r.slug # "settings" /\ r.slug # "forum"
  BY <1>0, NavWords DEF WideRoutes
<1>2. CASE r \in {N!BoardsRoute(f) : f \in Forums \cup {N!Nothing}}
  <2>1. PICK f \in Tokens : r = N!BoardsRoute(f)
    BY <1>2, NavWords DEF N!Nothing
  <2>2. r.page = "boards" /\ r.forum = f /\ f # Default
    BY <2>1, BoardsRouteIs
  <2>3. a.parts = IF f = "none" THEN <<>> ELSE <<"forum", f>>
    BY <1>0, <2>2, PathOfIs
  <2>4. CASE f = "none"
    BY <2>1, <2>3, <2>4 DEF N!Parse, N!Nothing
  <2>5. CASE f # "none"
    <3>1. <<"forum", f>> # <<>> /\ Head(<<"forum", f>>) = "forum" /\ Len(<<"forum", f>>) = 2 /\ <<"forum", f>>[2] = f
      OBVIOUS
    <3> PICK ps : ps = <<"forum", f>>
      OBVIOUS
    <3>2. a.parts = ps /\ ps # <<>> /\ Head(ps) = "forum" /\ Len(ps) = 2 /\ ps[2] = f
      BY <2>3, <2>5, <3>1
    <3>3. "forum" # "settings"
      OBVIOUS
    <3>4. N!Parse(a) = N!BoardsRoute(f)
      BY <3>2, <3>3 DEF N!Parse
    <3> QED BY <2>1, <3>4
  <2> QED BY <2>4, <2>5
<1>3. CASE r \in {N!SettingsRoute(s) : s \in {N!Nothing, "key"}}
  <2>1. PICK s \in {"none", "key"} : r = N!SettingsRoute(s)
    BY <1>3 DEF N!Nothing
  <2>2. r.page = "settings" /\ r.slug = s
    BY <2>1, RouteIs DEF N!SettingsRoute
  <2>3. a.parts = IF s = "none" THEN <<"settings">> ELSE <<"settings", s>>
    BY <1>0, <2>2, PathOfIs
  <2>4. /\ <<"settings">> # <<>> /\ Head(<<"settings">>) = "settings"
        /\ <<"settings", "key">> # <<>> /\ Head(<<"settings", "key">>) = "settings"
        /\ <<"settings", "key">> # <<"settings">>
    <3>1. Len(<<"settings", "key">>) = 2 /\ Len(<<"settings">>) = 1
      OBVIOUS
    <3>2. <<"settings", "key">> # <<"settings">>
      BY <3>1
    <3> QED BY <3>2
  <2>5. CASE s = "none"
    BY <2>1, <2>3, <2>4, <2>5 DEF N!Parse, N!Nothing
  <2>6. CASE s = "key"
    <3>1. a.parts = <<"settings", "key">>
      BY <2>3, <2>6
    <3>2. N!Parse(a) = N!SettingsRoute("key")
      BY <2>4, <3>1 DEF N!Parse
    <3> QED BY <2>1, <2>6, <3>2
  <2> QED BY <2>5, <2>6
<1>4. CASE r \in {N!Route(page_, f, s, N!Nothing, N!Nothing) :
                    page_ \in {"board", "compose"}, f \in Forums, s \in Slugs}
  <2>1. PICK page_ \in {"board", "compose"}, f \in Forums, s \in Slugs :
          r = N!Route(page_, f, s, "none", "none")
    BY <1>4 DEF N!Nothing
  <2>2. r.page = page_ /\ r.forum = f /\ r.slug = s /\ r.num = "none" /\ r.post = "none"
    BY <2>1, RouteIs
  <2>3. CASE page_ = "board"
    <3> PICK w : w = <<s>>
      OBVIOUS
    <3>1. w \in Seq(Tokens) /\ Len(w) = 1 /\ w[1] = s
      BY <1>1, <2>2
    <3>2. <<"forum", f>> \o w = <<"forum", f, s>>
      <4>0. f \in Tokens /\ s \in Tokens /\ "forum" \in Tokens
        BY <1>1, <2>2
      <4>1. <<"forum", f>> \o <<s>> = <<"forum", f, s>>
        BY <4>0, ThreeWords
      <4> QED BY <4>1
    <3>3. a.hash = r.post /\ a.parts = IF f = Default THEN w ELSE <<"forum", f>> \o w
      BY <1>0, <2>2, <2>3, <3>2, PathOfIs
    <3>6. /\ w = <<r.slug>> \/ w = <<r.slug, r.num>> \/ w = <<r.slug, "new">>
          /\ N!PathOf(r).parts = IF r.forum = Default THEN w ELSE <<"forum", r.forum>> \o w
          /\ N!PathOf(r).hash = r.post
      BY <2>2, <3>3
    <3>7. N!Parse(N!PathOf(r)) = N!Within(r.forum, w, r.post)
      BY <1>0, <1>1, <3>1, <3>6, ContentReadsBack
    <3>4. N!Parse(a) = N!Within(f, w, "none")
      BY <2>2, <3>7
    <3>5. N!Within(f, w, "none") = N!Route("board", f, s, "none", "none")
      <4>1. f \in Tokens /\ "none" \in Tokens
        BY <1>1, <2>2
      <4>2. Len(w) = 1 => N!Within(f, w, "none") = N!Route("board", f, w[1], "none", "none")
        BY <3>1, <4>1, WithinIs
      <4> QED BY <3>1, <4>2
    <3> QED BY <2>1, <2>3, <3>4, <3>5
  <2>4. CASE page_ = "compose"
    <3> PICK w : w = <<s, "new">>
      OBVIOUS
    <3>1. w \in Seq(Tokens) /\ Len(w) = 2 /\ w[1] = s /\ w[2] = "new"
      BY <1>1, <2>2
    <3>2. <<"forum", f>> \o w = <<"forum", f, s, "new">>
      BY <1>1, <2>2, FourWords
    <3>3. a.hash = r.post /\ a.parts = IF f = Default THEN w ELSE <<"forum", f>> \o w
      BY <1>0, <2>2, <2>4, <3>2, PathOfIs
    <3>4. N!Parse(a) = N!Within(f, w, "none")
      BY <1>0, <1>1, <2>2, <3>1, <3>3, ContentReadsBack
    <3>5. N!Within(f, w, "none") = N!Route("compose", f, s, "none", "none")
      <4>1. f \in Tokens /\ "none" \in Tokens
        BY <1>1, <2>2
      <4>2. Len(w) = 2 /\ w[2] = "new" => N!Within(f, w, "none") = N!Route("compose", f, w[1], "none", "none")
        BY <3>1, <4>1, WithinIs
      <4> QED BY <3>1, <4>2
    <3> QED BY <2>1, <2>4, <3>4, <3>5
  <2> QED BY <2>3, <2>4
<1>5. CASE r \in {N!Route("thread", f, s, n, p) :
                    f \in Forums, s \in Slugs, n \in Nums, p \in Nums \cup {N!Nothing}}
  <2>1. PICK f \in Forums, s \in Slugs, n \in Nums, p \in Nums \cup {"none"} :
          r = N!Route("thread", f, s, n, p)
    BY <1>5 DEF N!Nothing
  <2>2. r.page = "thread" /\ r.forum = f /\ r.slug = s /\ r.num = n /\ r.post = p
    BY <2>1, RouteIs
  <2> PICK w : w = <<s, n>>
    OBVIOUS
  <2>3. w \in Seq(Tokens) /\ Len(w) = 2 /\ w[1] = s /\ w[2] = n
    BY <1>1, <2>2
  <2>4. <<"forum", f>> \o w = <<"forum", f, s, n>>
    BY <1>1, <2>2, FourWords
  <2>5. a.hash = r.post /\ a.parts = IF f = Default THEN w ELSE <<"forum", f>> \o w
    BY <1>0, <2>2, <2>4, PathOfIs
  <2>6. N!Parse(a) = N!Within(f, w, p)
    BY <1>0, <1>1, <2>2, <2>3, <2>5, ContentReadsBack
  <2>7. N!Within(f, w, p) = N!Route("thread", f, s, n, p)
    BY <1>1, <2>2, <2>3, WithinIs
  <2> QED BY <2>1, <2>6, <2>7
<1> QED BY <1>2, <1>3, <1>4, <1>5 DEF N!Routes

-----------------------------------------------------------------------------
\* App.tsx.
LEMMA ContentIs ==
  ASSUME NEW r \in WideRoutes
  PROVE  /\ N!Content(r) \in {"board", "thread"} \X Tokens \X Tokens
         /\ r.page \in ContentPages => N!ContentPath(r) = <<r.forum, N!Content(r)>>
         /\ r.page \notin ContentPages => N!ContentPath(r) = <<>>
<1>1. r.slug \in Tokens /\ r.num \in Tokens
  BY DEF WideRoutes
<1>2. N!Content(r) = <<IF r.page = "thread" THEN "thread" ELSE "board", r.slug, r.num>>
  BY DEF N!Content
<1>3. r.page \in ContentPages => N!ContentPath(r) = <<r.forum, N!Content(r)>>
  BY DEF N!ContentPath, ContentPages
<1>4. r.page \notin ContentPages => N!ContentPath(r) = <<>>
  BY DEF N!ContentPath, ContentPages
<1> QED BY <1>1, <1>2, <1>3, <1>4

LEMMA NoRouteIs == N!NoRoute.page = "none" /\ N!ContentPath(N!NoRoute) = <<>>
  BY RouteIs DEF N!NoRoute, N!Nothing, N!ContentPath

LEMMA OvertakenIs ==
  ASSUME runs \subseteq Loads
  PROVE  N!Overtaken \subseteq Loads /\ \A r \in N!Overtaken : r.mine = FALSE
<1> SUFFICES ASSUME NEW r \in N!Overtaken PROVE r \in Loads /\ r.mine = FALSE
  OBVIOUS
<1>1. PICK s \in runs : r = [s EXCEPT !.mine = FALSE]
  BY DEF N!Overtaken
<1>2. s \in Loads
  OBVIOUS
<1> QED BY <1>1, <1>2 DEF Loads

\* Of the page of the boards nothing is loaded.
LEMMA VisitBoards ==
  ASSUME runs \subseteq Loads, NEW a \in Apps, NEW r \in WideRoutes, r.page = "boards",
         N!Visit(r, a)
  PROVE  AppOK(app', runs', shown', topic', stray') /\ app'.prev = r /\ lastPath' = lastPath
<1>1. ~N!Skips(r, a) /\ N!ContentPath(r) = <<>>
  BY ContentIs DEF N!Skips, ContentPages
<1>2. N!Run(r, [a EXCEPT !.prev = r, !.due = FALSE]) /\ lastPath' = lastPath
  BY <1>1 DEF N!Visit
<1>3. app' = [a EXCEPT !.prev = r, !.due = FALSE, !.loading = FALSE, !.error = FALSE]
  BY <1>2 DEF N!Run
<1>4. runs' = N!Overtaken
  BY <1>2 DEF N!Run
<1>5. app' \in Apps /\ app'.prev = r /\ app'.loading = FALSE
  BY <1>3 DEF Apps
<1>6. runs' \subseteq Loads /\ \A l \in runs' : ~l.mine
  BY <1>4, OvertakenIs
<1>7. OneNewest(runs') /\ LoadingOK(app', runs') /\ UnreadyOK(app') /\ NewestOK(app', runs', topic', stray')
  BY <1>5, <1>6 DEF OneNewest, LoadingOK, UnreadyOK, NewestOK
<1>8. ShownOK(app', runs', shown', topic', stray')
  BY <1>5 DEF ShownOK, ContentPages
<1> QED BY <1>2, <1>5, <1>6, <1>7, <1>8 DEF AppOK

\* A load of what an address names: there is none for a board that there is not.
LEMMA RunContent ==
  ASSUME runs \subseteq Loads, NEW a \in Apps, NEW r \in WideRoutes, r.page \in ContentPages,
         a.prev = r, a.ready, N!Run(r, a)
  PROVE  AppOK(app', runs', shown', topic', stray') /\ app'.prev = r
<1>0. r.page # "boards"
  BY DEF ContentPages
<1>1. CASE r.slug \notin Known
  <2>1. app' = [a EXCEPT !.loading = TRUE, !.error = FALSE, !.bounce = TRUE] /\ runs' = N!Overtaken
    BY <1>0, <1>1 DEF N!Run
  <2>2. app' \in Apps /\ app'.prev = r /\ app'.bounce = TRUE /\ app'.ready
    BY <2>1 DEF Apps
  <2>3. runs' \subseteq Loads /\ \A l \in runs' : ~l.mine
    BY <2>1, OvertakenIs
  <2>4. OneNewest(runs') /\ LoadingOK(app', runs') /\ UnreadyOK(app')
        /\ NewestOK(app', runs', topic', stray') /\ ShownOK(app', runs', shown', topic', stray')
    BY <2>2, <2>3 DEF OneNewest, LoadingOK, UnreadyOK, NewestOK, ShownOK
  <2> QED BY <2>2, <2>3, <2>4 DEF AppOK
<1>2. CASE r.slug \in Known
  <2> PICK l : l = N!Load(r, a)
    OBVIOUS
  <2>1. /\ app' = [a EXCEPT !.loading = TRUE, !.error = FALSE] /\ runs' = N!Overtaken \cup {l}
        /\ r.page = "board" => topic' = <<a.context, N!Content(r)>>
    BY <1>0, <1>2 DEF N!Run
  <2>2. app' \in Apps /\ app'.prev = r /\ app'.ready /\ app'.context = a.context /\ a.context \in Forums
    BY <2>1 DEF Apps
  <2>3. l \in Loads /\ l.mine /\ l.content = N!Content(r) /\ l.forum = a.context /\ l.page = r.page
        /\ (r.page = "thread" => l.step = "uid")
    <3>1. N!Content(r) \in {"board", "thread"} \X Tokens \X Tokens
      BY ContentIs
    <3> HIDE DEF N!Content
    <3> QED BY <2>2, <3>1 DEF Loads, N!Load
  <2>4. runs' \subseteq Loads /\ \A k \in runs' : k.mine => k = l
    BY <2>1, <2>3, OvertakenIs
  <2>5. l \in runs'
    BY <2>1
  <2>6. OneNewest(runs') /\ LoadingOK(app', runs') /\ UnreadyOK(app') /\ ShownOK(app', runs', shown', topic', stray')
    BY <2>2, <2>3, <2>4, <2>5 DEF OneNewest, LoadingOK, UnreadyOK, ShownOK, Newest
  <2>7. NewestOK(app', runs', topic', stray')
    <3> SUFFICES ASSUME NEW k \in runs', k.mine
                 PROVE  /\ k.content = N!Content(app'.prev) /\ k.forum = app'.context
                        /\ k.page = "board" \/ (k.page = "thread" /\ k.step = "data")
                             => topic' = <<k.forum, k.content>> \/ stray'
      BY DEF NewestOK
    <3>1. k = l
      BY <2>4
    <3> QED BY <2>1, <2>2, <2>3, <3>1
  <2> QED BY <2>2, <2>4, <2>6, <2>7 DEF AppOK
<1> QED BY <1>1, <1>2

LEMMA VisitOther ==
  ASSUME runs \subseteq Loads, OneNewest(runs), NEW a \in Apps, UnreadyOK(a),
         LoadingOK(a, runs) \/ a.prev.page \in {"boards", "none"},
         NewestOK(a, runs, topic, stray), ShownOK(a, runs, shown, topic, stray),
         NEW r \in WideRoutes, r.page # "boards", N!Visit(r, a),
         shown' = shown
  PROVE  /\ AppOK(app', runs', shown', topic', stray')
         /\ app'.ready /\ r.page # "settings" => app'.prev = r
         /\ lastPath' = lastPath \/ lastPath' = hist'[pos']
<1>1. CASE r.page = "settings"
  <2>1. app' = [a EXCEPT !.loading = FALSE] /\ UNCHANGED <<runs, topic, stray, lastPath>>
    BY <1>1 DEF N!Visit
  <2>2. /\ app' \in Apps /\ app'.loading = FALSE /\ app'.ready = a.ready /\ app'.prev = a.prev
        /\ app'.error = a.error /\ app'.bounce = a.bounce /\ app'.context = a.context
    BY <2>1 DEF Apps
  <2>3. LoadingOK(app', runs') /\ UnreadyOK(app') /\ OneNewest(runs') /\ runs' \subseteq Loads
    BY <2>1, <2>2 DEF LoadingOK, UnreadyOK
  <2>4. NewestOK(app', runs', topic', stray') /\ ShownOK(app', runs', shown', topic', stray')
    BY <2>1, <2>2 DEF NewestOK, ShownOK
  <2> QED BY <1>1, <2>1, <2>2, <2>3, <2>4 DEF AppOK
<1>2. CASE r.page # "settings" /\ ~a.ready
  <2>1. app' = a /\ UNCHANGED <<runs, topic, stray, lastPath>>
    BY <1>2 DEF N!Visit
  <2>2. LoadingOK(app', runs')
    BY <1>2, <2>1 DEF LoadingOK
  <2>3. NewestOK(app', runs', topic', stray') /\ ShownOK(app', runs', shown', topic', stray')
    BY <2>1 DEF NewestOK, ShownOK
  <2>4. UnreadyOK(app') /\ OneNewest(runs') /\ runs' \subseteq Loads /\ app' \in Apps
    BY <2>1
  <2> QED BY <1>2, <2>1, <2>2, <2>3, <2>4 DEF AppOK
<1>3. CASE r.page # "settings" /\ a.ready
  <2>0. r.page \in ContentPages
    <3>1. r.page \in {"boards", "board", "thread", "compose", "settings"}
      BY DEF WideRoutes
    <3> QED BY <1>3, <3>1 DEF ContentPages
  <2> PICK b : b = [a EXCEPT !.prev = r, !.due = FALSE]
    OBVIOUS
  <2>1. /\ b \in Apps /\ b.prev = r /\ b.ready = a.ready /\ b.loading = a.loading
        /\ b.error = a.error /\ b.bounce = a.bounce /\ b.context = a.context
    BY DEF Apps
  <2>2. /\ lastPath' = lastPath \/ lastPath' = hist'[pos']
        /\ N!Skips(r, a) => app' = b /\ UNCHANGED <<runs, topic, stray>>
        /\ ~N!Skips(r, a) => N!Run(r, b)
    BY <1>3 DEF N!Visit
  <2>3. CASE N!Skips(r, a)
    <3>1. a.prev # N!NoRoute /\ N!ContentPath(a.prev) = N!ContentPath(r)
      BY <2>3 DEF N!Skips
    <3>2. a.prev \in WideRoutes
      BY <3>1 DEF Apps
    <3>3. N!ContentPath(r) = <<r.forum, N!Content(r)>>
      BY <2>0, ContentIs
    <3>4. a.prev.page \in ContentPages
      BY <3>1, <3>2, <3>3, ContentIs
    <3>5. N!ContentPath(a.prev) = <<a.prev.forum, N!Content(a.prev)>>
      BY <3>2, <3>4, ContentIs
    <3>6. N!Content(a.prev) = N!Content(r)
      BY <3>1, <3>3, <3>5
    <3>7. app' = b /\ runs' = runs /\ topic' = topic /\ stray' = stray
      BY <2>2, <2>3
    <3>8. LoadingOK(a, runs)
      BY <3>4 DEF ContentPages
    <3>9. LoadingOK(app', runs') /\ UnreadyOK(app') /\ OneNewest(runs') /\ runs' \subseteq Loads
      BY <1>3, <2>1, <3>7, <3>8 DEF LoadingOK, UnreadyOK
    <3>10. NewestOK(app', runs', topic', stray')
      BY <2>1, <3>6, <3>7 DEF NewestOK
    <3>11. ShownOK(app', runs', shown', topic', stray')
      BY <2>1, <3>4, <3>6, <3>7 DEF ShownOK
    <3> QED BY <2>1, <2>2, <3>7, <3>9, <3>10, <3>11 DEF AppOK
  <2>4. CASE ~N!Skips(r, a)
    <3>1. N!Run(r, b)
      BY <2>2, <2>4
    <3> QED BY <1>3, <2>0, <2>1, <2>2, <3>1, RunContent
  <2> QED BY <2>3, <2>4
<1> QED BY <1>1, <1>2, <1>3

-----------------------------------------------------------------------------
\* nav.tsx: the history.
LEMMA CurrentIs ==
  ASSUME HistOK
  PROVE  hist[pos] \in Addresses /\ N!Current = N!Parse(hist[pos]) /\ N!Current \in WideRoutes
<1>1. hist[pos] \in Addresses
  BY DEF HistOK
<1>2. N!Parse(hist[pos]) \in WideRoutes
  BY <1>1, ParseIs
<1> QED BY <1>1, <1>2 DEF N!Current

LEMMA OneReplaced ==
  ASSUME NEW S, NEW s \in Seq(S), NEW i \in 1..Len(s), NEW e \in S, NEW h, h = [s EXCEPT ![i] = e]
  PROVE  h \in Seq(S) /\ Len(h) = Len(s) /\ h[i] = e /\ \A j \in 1..Len(s) : j # i => h[j] = s[j]
<1>1. h \in Seq(S)
  BY ExceptSeq
<1>2. Len(h) = Len(s)
  BY ExceptSeq
<1>3. \A j \in 1..Len(s) : h[j] = IF j = i THEN e ELSE s[j]
  BY ExceptSeq
<1> QED BY <1>1, <1>2, <1>3

LEMMA OneMore ==
  ASSUME NEW S, NEW s \in Seq(S), NEW e \in S, NEW h, h = Append(s, e)
  PROVE  h \in Seq(S) /\ Len(h) = Len(s) + 1 /\ h[Len(s) + 1] = e /\ \A j \in 1..Len(s) : h[j] = s[j]
<1>1. h \in Seq(S)
  BY AppendProperties
<1>2. Len(h) = Len(s) + 1
  BY AppendProperties
<1>3. \A j \in 1..Len(s) : h[j] = s[j]
  BY AppendProperties
<1>4. h[Len(s) + 1] = e
  BY AppendProperties
<1> QED BY <1>1, <1>2, <1>3, <1>4

LEMMA Pushed ==
  ASSUME NEW S, NEW s \in Seq(S), NEW n \in 1..Len(s), NEW e \in S, NEW h, h = Append(SubSeq(s, 1, n), e)
  PROVE  h \in Seq(S) /\ Len(h) = n + 1 /\ h[n + 1] = e /\ \A j \in 1..n : h[j] = s[j]
<1>0. 1 \in Int /\ n \in Int /\ 1 <= n /\ n - 1 + 1 = n /\ \A i \in 1..n : s[i] \in S
  OBVIOUS
<1> PICK t : t = SubSeq(s, 1, n)
  OBVIOUS
<1>1. t \in Seq(S)
  BY <1>0, SubSeqProperties
<1>2. Len(t) = n
  BY <1>0, SubSeqProperties
<1>3. \A j \in 1..n : t[j] = s[j]
  <2>1. \A j \in 1..(n - 1 + 1) : t[j] = s[1 + j - 1]
    BY <1>0, SubSeqProperties
  <2> QED BY <1>0, <2>1
<1>4. h = Append(t, e)
  OBVIOUS
<1> QED BY <1>1, <1>2, <1>3, <1>4, OneMore

\* A new entry: that of the settings stays the last.
LEMMA WrittenIs ==
  ASSUME HistOK, SettingsLast, NEW r \in WideRoutes, N!Writes(r)
  PROVE  /\ hist' \in Seq(Addresses) /\ pos' \in 1..Len(hist') /\ hist'[pos'] = N!PathOf(r)
         /\ canGoBack' \in BOOLEAN /\ (canGoBack' /\ ~popped => pos' > 1)
         /\ misled' \in BOOLEAN /\ SettingsLast'
<1>1. hist \in Seq(Addresses) /\ pos \in 1..Len(hist) /\ canGoBack \in BOOLEAN /\ Len(hist) \in Nat
      /\ misled \in BOOLEAN /\ (canGoBack /\ ~popped => pos > 1)
  BY DEF HistOK
<1>2. N!PathOf(r) \in Addresses
  BY PathOfIs
<1> PICK path \in Addresses : path = N!PathOf(r)
  BY <1>2
<1>21. misled' = (misled \/ (r.page # "settings" /\ N!Parse(path).page = "settings"))
  BY Zenon DEF N!Writes
<1>22. misled' \in BOOLEAN /\ (~misled' => ~misled)
       /\ (~misled' /\ r.page # "settings" => N!Parse(N!PathOf(r)).page # "settings")
  BY <1>1, <1>21
<1>3. CASE N!Replaces(N!Current, r)
  <2>1. hist' = [hist EXCEPT ![pos] = path] /\ pos' = pos /\ canGoBack' = canGoBack
    BY <1>1, <1>3 DEF N!Writes
  <2>2. /\ hist' \in Seq(Addresses) /\ Len(hist') = Len(hist) /\ hist'[pos] = N!PathOf(r)
        /\ \A i \in 1..Len(hist) : i # pos => hist'[i] = hist[i]
    BY <1>1, <2>1, OneReplaced
  <2>3. SettingsLast'
    <3> SUFFICES ASSUME ~misled', NEW i \in 1..(Len(hist') - 1)
                 PROVE  N!Parse(hist'[i]).page # "settings"
      BY DEF SettingsLast
    <3>1. i \in 1..(Len(hist) - 1) /\ i \in 1..Len(hist)
      BY <1>1, <2>2
    <3>2. N!Parse(hist[i]).page # "settings"
      BY <1>22, <3>1 DEF SettingsLast
    <3>3. CASE i # pos
      BY <2>2, <3>1, <3>2, <3>3
    <3>4. CASE i = pos
      <4>1. N!Current.page # "settings"
        BY <3>2, <3>4 DEF N!Current
      <4>2. r.page # "settings"
        BY <1>3, <4>1 DEF N!Replaces
      <4>3. N!Parse(N!PathOf(r)).page # "settings"
        BY <1>22, <4>2
      <4> QED BY <2>2, <3>4, <4>3
    <3> QED BY <3>3, <3>4
  <2>4. pos' \in 1..Len(hist')
    BY <1>1, <2>1, <2>2
  <2>5. canGoBack' \in BOOLEAN /\ (canGoBack' /\ ~popped => pos' > 1)
    BY <1>1, <2>1
  <2>6. hist'[pos'] = N!PathOf(r)
    BY <2>1, <2>2
  <2> QED BY <1>22, <2>2, <2>3, <2>4, <2>5, <2>6
<1>4. CASE ~N!Replaces(N!Current, r)
  <2>1. hist' = Append(SubSeq(hist, 1, pos), path) /\ pos' = pos + 1 /\ canGoBack' = TRUE
    BY <1>1, <1>4 DEF N!Writes
  <2>2. /\ hist' \in Seq(Addresses) /\ Len(hist') = pos + 1 /\ hist'[pos + 1] = N!PathOf(r)
        /\ \A i \in 1..pos : hist'[i] = hist[i]
    BY <1>1, <2>1, Pushed
  <2>3. SettingsLast'
    <3> SUFFICES ASSUME ~misled', NEW i \in 1..(Len(hist') - 1)
                 PROVE  N!Parse(hist'[i]).page # "settings"
      BY DEF SettingsLast
    <3>1. i \in 1..pos /\ (i # pos => i \in 1..(Len(hist) - 1))
      BY <1>1, <2>2
    <3>2. hist'[i] = hist[i]
      BY <2>2, <3>1
    <3>3. CASE i # pos
      BY <1>22, <3>1, <3>2, <3>3 DEF SettingsLast
    <3>4. CASE i = pos
      <4>1. N!Current.page # "settings"
        BY <1>4 DEF N!Replaces
      <4> QED BY <3>2, <3>4, <4>1 DEF N!Current
    <3> QED BY <3>3, <3>4
  <2>4. pos + 1 > 1 /\ pos + 1 \in 1..(pos + 1)
    BY <1>1
  <2>5. pos' > 1 /\ pos' \in 1..Len(hist')
    BY <2>1, <2>2, <2>4
  <2>6. canGoBack' \in BOOLEAN
    BY <2>1
  <2>7. hist'[pos'] = N!PathOf(r)
    BY <2>1, <2>2
  <2> QED BY <1>22, <2>2, <2>3, <2>5, <2>6, <2>7
<1> QED BY <1>3, <1>4

-----------------------------------------------------------------------------
\* What every step of the user keeps.

\* What a visit of a page with content needs.
Fit(a) ==
  /\ OneNewest(runs) /\ UnreadyOK(a) /\ (LoadingOK(a, runs) \/ a.prev.page \in {"boards", "none"})
  /\ NewestOK(a, runs, topic, stray) /\ ShownOK(a, runs, shown, topic, stray)

LEMMA Lands ==
  ASSUME runs \subseteq Loads, NEW a \in Apps, lastPath \in Addresses,
         hist' \in Seq(Addresses), pos' \in 1..Len(hist'),
         N!Visit(N!Parse(hist'[pos']), a), shown' = shown,
         N!Parse(hist'[pos']).page # "boards" => Fit(a)
  PROVE  AppOK(app', runs', shown', topic', stray') /\ PrevOK' /\ lastPath' \in Addresses
<1>1. hist'[pos'] \in Addresses
  OBVIOUS
<1> PICK r : r = N!Parse(hist'[pos'])
  OBVIOUS
<1>2. r \in WideRoutes /\ N!Visit(r, a)
  BY <1>1, ParseIs
<1>3. /\ AppOK(app', runs', shown', topic', stray')
      /\ (app'.ready /\ r.page # "settings" => app'.prev = r)
      /\ (lastPath' = lastPath \/ lastPath' = hist'[pos'])
  <2>1. CASE r.page = "boards"
    BY <1>2, <2>1, VisitBoards
  <2>2. CASE r.page # "boards"
    BY <1>2, <2>2, VisitOther DEF Fit
  <2> QED BY <2>1, <2>2
<1>4. N!Current' = r
  BY DEF N!Current
<1>5. PrevOK'
  BY <1>3, <1>4 DEF PrevOK
<1>6. lastPath' \in Addresses
  BY <1>1, <1>3
<1> QED BY <1>3, <1>5, <1>6

LEMMA AppFits ==
  ASSUME AppOK(app, runs, shown, topic, stray)
  PROVE  Fit(app) /\ app \in Apps /\ runs \subseteq Loads
  BY DEF AppOK, Fit

\* The entry changes, and nothing is said of the application.
LEMMA ArriveIs ==
  ASSUME NavInv, hist' \in Seq(Addresses), pos' \in 1..Len(hist'), N!Arrive, shown' = shown
  PROVE  AppOK(app', runs', shown', topic', stray') /\ PrevOK' /\ lastPath' \in Addresses
<1>1. N!Visit(N!Parse(hist'[pos']), app)
  BY DEF N!Arrive
<1>2. Fit(app) /\ app \in Apps /\ runs \subseteq Loads /\ lastPath \in Addresses
  BY AppFits DEF NavInv, HistOK
<1> QED BY <1>1, <1>2, Lands

LEMMA NavKept ==
  ASSUME NavInv,
         UNCHANGED <<hist, pos, canGoBack, lastPath, app, runs, shown, topic, stray, popped, misled, outside>>
  PROVE  NavInv'
<1>1. N!Current' = N!Current
  BY DEF N!Current
<1>2. PrevOK'
  BY <1>1 DEF PrevOK, NavInv
<1>3. HistOK'
  BY DEF HistOK, NavInv
<1>4. SettingsLast'
  BY DEF SettingsLast, NavInv
<1>5. AppOK(app, runs, shown, topic, stray)'
  BY DEF NavInv
<1> QED BY <1>2, <1>3, <1>4, <1>5 DEF NavInv

LEMMA NavGo ==
  ASSUME NavInv, NEW r \in WideRoutes, N!Go(r), shown' = shown, popped' = popped, outside' = outside
  PROVE  NavInv'
<1>1. CASE N!PathOf(N!Current) = N!PathOf(r)
  <2>1. UNCHANGED <<hist, pos, canGoBack, misled, lastPath, app, runs, topic, stray>>
    BY <1>1 DEF N!Go
  <2> QED BY <2>1, NavKept
<1>2. CASE N!PathOf(N!Current) # N!PathOf(r)
  <2>1. N!Writes(r) /\ N!Arrive
    BY <1>2 DEF N!Go
  <2>2. /\ hist' \in Seq(Addresses) /\ pos' \in 1..Len(hist')
        /\ canGoBack' \in BOOLEAN /\ (canGoBack' /\ ~popped => pos' > 1)
        /\ misled' \in BOOLEAN /\ SettingsLast'
    BY <2>1, WrittenIs DEF NavInv
  <2>3. AppOK(app', runs', shown', topic', stray') /\ PrevOK' /\ lastPath' \in Addresses
    BY <2>1, <2>2, ArriveIs
  <2>4. HistOK'
    BY <2>2, <2>3 DEF NavInv, HistOK
  <2> QED BY <2>2, <2>3, <2>4 DEF NavInv
<1> QED BY <1>1, <1>2

LEMMA NavPop ==
  ASSUME NavInv, NEW by \in {"arrow", "browser"}, by = "arrow" => canGoBack, N!Pop(by), shown' = shown
  PROVE  NavInv'
<1>1. HistOK /\ SettingsLast
  BY DEF NavInv
<1>2. CASE pos = 1
  <2>1. /\ popped' = TRUE /\ outside' = (IF popped THEN "later" ELSE by)
        /\ UNCHANGED <<hist, pos, canGoBack, misled, lastPath, app, runs, topic, stray>>
    BY <1>2 DEF N!Pop
  <2>2. outside' # "arrow"
    BY <1>1, <1>2, <2>1 DEF HistOK
  <2>3. HistOK'
    BY <1>1, <2>1, <2>2 DEF HistOK
  <2>4. N!Current' = N!Current
    BY <2>1 DEF N!Current
  <2>5. PrevOK'
    BY <2>1, <2>4 DEF PrevOK, NavInv
  <2>6. SettingsLast'
    BY <1>1, <2>1 DEF SettingsLast
  <2>7. AppOK(app', runs', shown', topic', stray')
    BY <2>1 DEF NavInv
  <2> QED BY <2>3, <2>5, <2>6, <2>7 DEF NavInv
<1>3. CASE pos # 1
  <2>1. popped' = TRUE /\ pos' = pos - 1 /\ UNCHANGED <<hist, canGoBack, misled, outside>> /\ N!Arrive
    BY <1>3 DEF N!Pop
  <2>2. hist' \in Seq(Addresses) /\ pos' \in 1..Len(hist')
    BY <1>1, <1>3, <2>1 DEF HistOK
  <2>3. AppOK(app', runs', shown', topic', stray') /\ PrevOK' /\ lastPath' \in Addresses
    BY <2>1, <2>2, ArriveIs
  <2>4. HistOK'
    BY <1>1, <2>1, <2>2, <2>3 DEF HistOK
  <2>5. SettingsLast'
    BY <1>1, <2>1 DEF SettingsLast
  <2> QED BY <2>3, <2>4, <2>5 DEF NavInv
<1> QED BY <1>2, <1>3

\* The page of a forum's boards.
LEMMA NavBoards ==
  ASSUME NavInv, NEW f \in Tokens, N!Writes(N!BoardsRoute(f)), NEW a \in Apps,
         N!Visit(N!Parse(hist'[pos']), a), shown' = shown, popped' = popped, outside' = outside
  PROVE  NavInv'
<1> PICK r \in WideRoutes : r = N!BoardsRoute(f)
  BY BoardsRouteIs
<1>1. /\ hist' \in Seq(Addresses) /\ pos' \in 1..Len(hist') /\ hist'[pos'] = N!PathOf(r)
      /\ canGoBack' \in BOOLEAN /\ (canGoBack' /\ ~popped => pos' > 1)
      /\ misled' \in BOOLEAN /\ SettingsLast'
  BY WrittenIs DEF NavInv
<1>2. N!Parse(hist'[pos']).page = "boards"
  BY <1>1, BoardsReadBack
<1>3. runs \subseteq Loads /\ lastPath \in Addresses
  BY DEF NavInv, AppOK, HistOK
<1>4. AppOK(app', runs', shown', topic', stray') /\ PrevOK' /\ lastPath' \in Addresses
  BY <1>1, <1>2, <1>3, Lands
<1>5. HistOK'
  BY <1>1, <1>4 DEF NavInv, HistOK
<1> QED BY <1>1, <1>4, <1>5 DEF NavInv

\* Another forum: nothing is shown of it yet, and no load that is under way is the newest.
LEMMA NavSelect ==
  ASSUME NavInv, NEW f \in Forums, N!SelectForum(f)
  PROVE  NavInv'
<1> PICK b \in WideRoutes : b = N!BoardsRoute(f)
  BY BoardsRouteIs, NavWords
<1> PICK here : here = N!Current
  OBVIOUS
<1> PICK a : a = [app EXCEPT !.context = f]
  OBVIOUS
<1>1. /\ N!Writes(b)
      /\ app' = [a EXCEPT !.ready = FALSE, !.prev = N!Parse(hist'[pos']), !.due = FALSE,
                          !.loading = FALSE, !.error = FALSE]
      /\ UNCHANGED <<lastPath, shown, popped, outside>>
  BY Zenon DEF N!SelectForum
<1>2. \/ runs' = N!Overtaken
      \/ here.page \in ContentPages /\ runs' = N!Overtaken \cup {[N!Load(here, a) EXCEPT !.mine = FALSE]}
  <2>1. \/ runs' = N!Overtaken \cup {}
        \/ /\ here.page \in {"board", "thread", "compose"}
           /\ runs' = N!Overtaken \cup {[N!Load(here, a) EXCEPT !.mine = FALSE]}
    BY DEF N!SelectForum
  <2> QED BY <2>1 DEF ContentPages
<1>3. HistOK /\ SettingsLast /\ runs \subseteq Loads /\ app \in Apps
  BY DEF NavInv, AppOK
<1>4. /\ hist' \in Seq(Addresses) /\ pos' \in 1..Len(hist') /\ hist'[pos'] = N!PathOf(b)
      /\ canGoBack' \in BOOLEAN /\ (canGoBack' /\ ~popped => pos' > 1)
      /\ misled' \in BOOLEAN /\ SettingsLast'
  BY <1>1, <1>3, WrittenIs
<1> PICK r : r = N!Parse(hist'[pos'])
  OBVIOUS
<1>5. r \in WideRoutes /\ r.page = "boards"
  BY <1>4, NavWords, BoardsReadBack, ParseIs
<1>6. a \in Apps /\ a.context = f
  BY <1>3 DEF Apps
<1>7. app' \in Apps /\ app'.prev = r /\ app'.ready = FALSE /\ app'.loading = FALSE
  <2>1. app' = [a EXCEPT !.ready = FALSE, !.prev = r, !.due = FALSE, !.loading = FALSE, !.error = FALSE]
    BY <1>1
  <2> QED BY <1>5, <1>6, <2>1 DEF Apps
<1>8. runs' \subseteq Loads /\ \A l \in runs' : ~l.mine
  <2>1. CASE runs' = N!Overtaken
    BY <1>3, <2>1, OvertakenIs
  <2>2. CASE here.page \in ContentPages /\ runs' = N!Overtaken \cup {[N!Load(here, a) EXCEPT !.mine = FALSE]}
    <3> PICK l : l = [N!Load(here, a) EXCEPT !.mine = FALSE]
      OBVIOUS
    <3>1. N!Content(here) \in {"board", "thread"} \X Tokens \X Tokens
      BY <1>3, CurrentIs, ContentIs
    <3>2. l \in Loads /\ l.mine = FALSE
      <4> HIDE DEF N!Content
      <4> QED BY <1>6, <2>2, <3>1 DEF N!Load, Loads
    <3> QED BY <1>3, <2>2, <3>2, OvertakenIs
  <2> QED BY <1>2, <2>1, <2>2
<1>9. OneNewest(runs') /\ LoadingOK(app', runs') /\ UnreadyOK(app') /\ NewestOK(app', runs', topic', stray')
  BY <1>5, <1>7, <1>8 DEF OneNewest, LoadingOK, UnreadyOK, NewestOK
<1>10. ShownOK(app', runs', shown', topic', stray')
  BY <1>7 DEF ShownOK
<1>11. AppOK(app', runs', shown', topic', stray')
  BY <1>7, <1>8, <1>9, <1>10 DEF AppOK
<1>12. PrevOK'
  BY <1>7 DEF PrevOK
<1>13. HistOK'
  BY <1>1, <1>3, <1>4 DEF HistOK
<1> QED BY <1>4, <1>11, <1>12, <1>13 DEF NavInv

\* The history stays, and so does what is thought to be shown.
LEMMA NavLoads ==
  ASSUME NavInv, UNCHANGED <<hist, pos, canGoBack, lastPath, popped, misled, outside>>,
         AppOK(app', runs', shown', topic', stray'), app'.prev = app.prev, app'.ready = app.ready
  PROVE  NavInv'
<1>1. N!Current' = N!Current
  BY DEF N!Current
<1>2. PrevOK'
  BY <1>1 DEF PrevOK, NavInv
<1>3. HistOK'
  BY DEF HistOK, NavInv
<1>4. SettingsLast'
  BY DEF SettingsLast, NavInv
<1> QED BY <1>2, <1>3, <1>4 DEF NavInv

LEMMA NavLookup ==
  ASSUME NavInv, NEW r \in runs, N!Lookup(r)
  PROVE  NavInv'
<1> PICK q : q = [r EXCEPT !.step = "data"]
  OBVIOUS
<1>1. /\ r.step = "uid" /\ runs' = (runs \ {r}) \cup {q}
      /\ topic' = <<r.forum, r.content>> /\ stray' = ~r.mine
      /\ UNCHANGED <<hist, pos, canGoBack, lastPath, app, shown, popped, misled, outside>>
  BY DEF N!Lookup
<1>2. app \in Apps /\ runs \subseteq Loads /\ OneNewest(runs) /\ LoadingOK(app, runs) /\ UnreadyOK(app)
      /\ NewestOK(app, runs, topic, stray) /\ ShownOK(app, runs, shown, topic, stray)
  BY DEF NavInv, AppOK
<1>3. /\ q \in Loads /\ q.mine = r.mine /\ q.content = r.content /\ q.forum = r.forum /\ r.mine \in BOOLEAN
  BY <1>2 DEF Loads
<1>4. runs' \subseteq Loads
  BY <1>1, <1>2, <1>3
<1>5. OneNewest(runs')
  BY <1>1, <1>2, <1>3 DEF OneNewest
<1>6. Newest(runs) = Newest(runs')
  <2>1. Newest(runs) => Newest(runs')
    BY <1>1, <1>3 DEF Newest
  <2>2. Newest(runs') => Newest(runs)
    BY <1>1, <1>3 DEF Newest
  <2>3. Newest(runs) \in BOOLEAN /\ Newest(runs') \in BOOLEAN
    BY DEF Newest
  <2> QED BY <2>1, <2>2, <2>3
<1>7. LoadingOK(app', runs') /\ UnreadyOK(app')
  BY <1>1, <1>2, <1>6 DEF LoadingOK
<1>8. NewestOK(app', runs', topic', stray')
  <2> SUFFICES ASSUME NEW k \in runs', k.mine
               PROVE  /\ k.content = N!Content(app'.prev) /\ k.forum = app'.context
                      /\ k.page = "board" \/ (k.page = "thread" /\ k.step = "data")
                           => topic' = <<k.forum, k.content>> \/ stray'
    BY DEF NewestOK
  <2>1. CASE k = q
    BY <1>1, <1>2, <1>3, <2>1 DEF NewestOK
  <2>2. CASE k # q
    <3>1. k \in runs /\ k # r
      BY <1>1, <2>2
    <3>2. ~r.mine
      BY <1>2, <3>1 DEF OneNewest
    <3>3. stray'
      BY <1>1, <3>2
    <3>4. k.content = N!Content(app.prev) /\ k.forum = app.context
      BY <1>2, <3>1 DEF NewestOK
    <3> QED BY <1>1, <3>3, <3>4
  <2> QED BY <2>1, <2>2
<1>9. ShownOK(app', runs', shown', topic', stray')
  <2> SUFFICES ASSUME app.ready, ~app.error, ~app.bounce, ~Newest(runs'), app.prev.page \in ContentPages
               PROVE  /\ shown.kind # "none" /\ shown.of = <<app.context, N!Content(app.prev)>>
                      /\ topic' = shown.of \/ stray' \/ shown.by = "compose"
    BY <1>1 DEF ShownOK
  <2>1. ~r.mine
    BY <1>6 DEF Newest
  <2>2. stray'
    BY <1>1, <2>1
  <2>3. shown.kind # "none" /\ shown.of = <<app.context, N!Content(app.prev)>>
    BY <1>2, <1>6 DEF ShownOK
  <2> QED BY <2>2, <2>3
<1>10. AppOK(app', runs', shown', topic', stray')
  BY <1>1, <1>2, <1>4, <1>5, <1>7, <1>8, <1>9 DEF AppOK
<1> QED BY <1>1, <1>10, NavLoads

LEMMA NavLoadEnds ==
  ASSUME NavInv, NEW r \in runs, N!LoadEnds(r)
  PROVE  NavInv'
<1>1. /\ r.step = "data" /\ runs' = runs \ {r}
      /\ UNCHANGED <<hist, pos, canGoBack, lastPath, topic, stray, popped, misled, outside>>
  BY DEF N!LoadEnds
<1>2. app \in Apps /\ runs \subseteq Loads /\ OneNewest(runs) /\ LoadingOK(app, runs) /\ UnreadyOK(app)
      /\ NewestOK(app, runs, topic, stray) /\ ShownOK(app, runs, shown, topic, stray)
  BY DEF NavInv, AppOK
<1>3. OneNewest(runs') /\ runs' \subseteq Loads
  BY <1>1, <1>2 DEF OneNewest
<1>4. CASE r.mine
  <2>1. /\ shown' = [kind |-> Head(r.content), of |-> <<r.forum, r.content>>, by |-> r.page]
        /\ app' = [app EXCEPT !.loading = FALSE]
    BY <1>4 DEF N!LoadEnds, N!Keeps
  <2>2. /\ app' \in Apps /\ app'.prev = app.prev /\ app'.ready = app.ready /\ app'.context = app.context
        /\ app'.loading = FALSE
    BY <1>2, <2>1 DEF Apps
  <2>3. \A k \in runs' : ~k.mine
    BY <1>1, <1>2, <1>4 DEF OneNewest
  <2>4. LoadingOK(app', runs') /\ UnreadyOK(app') /\ NewestOK(app', runs', topic', stray')
    BY <1>2, <2>2, <2>3 DEF LoadingOK, UnreadyOK, NewestOK
  <2>5. /\ shown'.kind # "none" /\ shown'.of = <<app.context, N!Content(app.prev)>>
        /\ topic' = shown'.of \/ stray' \/ shown'.by = "compose"
    <3>1. r.content \in {"board", "thread"} \X Tokens \X Tokens /\ r.page \in ContentPages
      BY <1>2 DEF Loads
    <3>2. Head(r.content) # "none"
      <4> PICK x \in {"board", "thread"}, t \in Tokens, u \in Tokens : r.content = <<x, t, u>>
        BY <3>1
      <4>1. Head(<<x, t, u>>) = x
        OBVIOUS
      <4> QED BY <4>1
    <3>3. shown'.kind = Head(r.content) /\ shown'.of = <<r.forum, r.content>> /\ shown'.by = r.page
      BY <2>1
    <3>4. r.content = N!Content(app.prev) /\ r.forum = app.context
      BY <1>2, <1>4 DEF NewestOK
    <3>5. r.page # "compose" => topic = <<r.forum, r.content>> \/ stray
      BY <1>1, <1>2, <1>4, <3>1 DEF NewestOK, ContentPages
    <3> QED BY <1>1, <3>2, <3>3, <3>4, <3>5
  <2>6. ShownOK(app', runs', shown', topic', stray')
    BY <2>2, <2>5 DEF ShownOK
  <2>7. AppOK(app', runs', shown', topic', stray')
    BY <1>3, <2>2, <2>4, <2>6 DEF AppOK
  <2> QED BY <1>1, <2>2, <2>7, NavLoads
<1>5. CASE ~r.mine
  <2>1. shown' = shown /\ app' = app
    BY <1>5 DEF N!LoadEnds, N!Keeps
  <2>2. (Newest(runs) => Newest(runs')) /\ (Newest(runs') => Newest(runs))
    BY <1>1, <1>5 DEF Newest
  <2>3. LoadingOK(app', runs') /\ UnreadyOK(app')
    BY <1>2, <2>1, <2>2 DEF LoadingOK
  <2>4. NewestOK(app', runs', topic', stray')
    BY <1>1, <1>2, <2>1 DEF NewestOK
  <2>5. ShownOK(app', runs', shown', topic', stray')
    BY <1>1, <1>2, <2>1, <2>2 DEF ShownOK
  <2>6. AppOK(app', runs', shown', topic', stray')
    BY <1>2, <1>3, <2>1, <2>3, <2>4, <2>5 DEF AppOK
  <2> QED BY <1>1, <2>1, <2>6, NavLoads
<1> QED BY <1>4, <1>5

LEMMA NavLoadFails ==
  ASSUME NavInv, NEW r \in runs, N!LoadFails(r)
  PROVE  NavInv'
<1>1. /\ runs' = runs \ {r}
      /\ app' = IF r.mine THEN [app EXCEPT !.loading = FALSE, !.error = TRUE] ELSE app
      /\ UNCHANGED <<hist, pos, canGoBack, lastPath, shown, topic, stray, popped, misled, outside>>
  BY DEF N!LoadFails
<1>2. app \in Apps /\ runs \subseteq Loads /\ OneNewest(runs) /\ LoadingOK(app, runs) /\ UnreadyOK(app)
      /\ NewestOK(app, runs, topic, stray) /\ ShownOK(app, runs, shown, topic, stray)
  BY DEF NavInv, AppOK
<1>3. OneNewest(runs') /\ runs' \subseteq Loads
  BY <1>1, <1>2 DEF OneNewest
<1>4. CASE r.mine
  <2>1. app' = [app EXCEPT !.loading = FALSE, !.error = TRUE]
    BY <1>1, <1>4
  <2>2. /\ app' \in Apps /\ app'.prev = app.prev /\ app'.ready = app.ready
        /\ app'.loading = FALSE /\ app'.error = TRUE
    BY <1>2, <2>1 DEF Apps
  <2>3. \A k \in runs' : ~k.mine
    BY <1>1, <1>2, <1>4 DEF OneNewest
  <2>4. LoadingOK(app', runs') /\ UnreadyOK(app') /\ NewestOK(app', runs', topic', stray')
        /\ ShownOK(app', runs', shown', topic', stray')
    BY <1>2, <2>2, <2>3 DEF LoadingOK, UnreadyOK, NewestOK, ShownOK
  <2>5. AppOK(app', runs', shown', topic', stray')
    BY <1>3, <2>2, <2>4 DEF AppOK
  <2> QED BY <1>1, <2>2, <2>5, NavLoads
<1>5. CASE ~r.mine
  <2>1. app' = app
    BY <1>1, <1>5
  <2>2. (Newest(runs) => Newest(runs')) /\ (Newest(runs') => Newest(runs))
    BY <1>1, <1>5 DEF Newest
  <2>3. LoadingOK(app', runs') /\ UnreadyOK(app')
    BY <1>2, <2>1, <2>2 DEF LoadingOK
  <2>4. NewestOK(app', runs', topic', stray')
    BY <1>1, <1>2, <2>1 DEF NewestOK
  <2>5. ShownOK(app', runs', shown', topic', stray')
    BY <1>1, <1>2, <2>1, <2>2 DEF ShownOK
  <2>6. AppOK(app', runs', shown', topic', stray')
    BY <1>2, <1>3, <2>1, <2>3, <2>4, <2>5 DEF AppOK
  <2> QED BY <1>1, <2>1, <2>6, NavLoads
<1> QED BY <1>4, <1>5

LEMMA NavBoardsCome ==
  ASSUME NavInv, N!BoardsCome
  PROVE  NavInv'
<1> PICK a : a = [app EXCEPT !.ready = TRUE]
  OBVIOUS
<1>1. /\ ~app.ready /\ UNCHANGED <<hist, pos, canGoBack, shown, popped, misled, outside>>
      /\ N!Visit(N!Current, a)
  BY DEF N!BoardsCome
<1>2. app \in Apps /\ runs \subseteq Loads /\ OneNewest(runs) /\ UnreadyOK(app)
      /\ NewestOK(app, runs, topic, stray) /\ HistOK /\ SettingsLast
  BY DEF NavInv, AppOK
<1>3. /\ a \in Apps /\ a.ready = TRUE /\ a.prev = app.prev /\ a.context = app.context
  BY <1>2 DEF Apps
<1>4. a.prev.page \in {"boards", "none"}
  BY <1>1, <1>2, <1>3 DEF UnreadyOK
<1>5. UnreadyOK(a)
  BY <1>3 DEF UnreadyOK
<1>6. NewestOK(a, runs, topic, stray)
  BY <1>2, <1>3 DEF NewestOK
<1>7. ShownOK(a, runs, shown, topic, stray)
  BY <1>4 DEF ShownOK, ContentPages
<1>8. Fit(a)
  BY <1>2, <1>4, <1>5, <1>6, <1>7 DEF Fit
<1>9. hist' \in Seq(Addresses) /\ pos' \in 1..Len(hist') /\ lastPath \in Addresses
  BY <1>1, <1>2 DEF HistOK
<1>10. N!Current = N!Parse(hist'[pos'])
  BY <1>1 DEF N!Current
<1>11. N!Visit(N!Parse(hist'[pos']), a)
  BY <1>1, <1>10
<1>12. AppOK(app', runs', shown', topic', stray') /\ PrevOK' /\ lastPath' \in Addresses
  BY <1>1, <1>2, <1>3, <1>8, <1>9, <1>11, Lands
<1>13. HistOK'
  BY <1>1, <1>2, <1>12 DEF HistOK
<1>14. SettingsLast'
  BY <1>1, <1>2 DEF SettingsLast
<1> QED BY <1>12, <1>13, <1>14 DEF NavInv

LEMMA NavReload ==
  ASSUME NavInv, N!Reload
  PROVE  NavInv'
<1> PICK a : a = [app EXCEPT !.due = TRUE]
  OBVIOUS
<1>1. UNCHANGED <<hist, pos, canGoBack, shown, popped, misled, outside>> /\ N!Visit(N!Current, a)
  BY DEF N!Reload
<1>2. Fit(app) /\ app \in Apps /\ runs \subseteq Loads /\ HistOK /\ SettingsLast
  BY AppFits DEF NavInv
<1>20. /\ a \in Apps /\ a.ready = app.ready /\ a.prev = app.prev /\ a.context = app.context
       /\ a.loading = app.loading /\ a.error = app.error /\ a.bounce = app.bounce
  BY <1>2 DEF Apps
<1>21. UnreadyOK(a) /\ (LoadingOK(a, runs) \/ a.prev.page \in {"boards", "none"})
  BY <1>2, <1>20 DEF Fit, UnreadyOK, LoadingOK
<1>22. NewestOK(a, runs, topic, stray)
  BY <1>2, <1>20 DEF Fit, NewestOK
<1>23. ShownOK(a, runs, shown, topic, stray)
  BY <1>2, <1>20 DEF Fit, ShownOK
<1>24. Fit(a)
  BY <1>2, <1>21, <1>22, <1>23 DEF Fit
<1>3. hist' \in Seq(Addresses) /\ pos' \in 1..Len(hist') /\ lastPath \in Addresses
  BY <1>1, <1>2 DEF HistOK
<1>4. N!Current = N!Parse(hist'[pos'])
  BY <1>1 DEF N!Current
<1>5. N!Visit(N!Parse(hist'[pos']), a)
  BY <1>1, <1>4
<1>6. AppOK(app', runs', shown', topic', stray') /\ PrevOK' /\ lastPath' \in Addresses
  BY <1>1, <1>2, <1>20, <1>24, <1>3, <1>5, Lands
<1>7. HistOK'
  BY <1>1, <1>2, <1>6 DEF HistOK
<1>8. SettingsLast'
  BY <1>1, <1>2 DEF SettingsLast
<1> QED BY <1>6, <1>7, <1>8 DEF NavInv

LEMMA NavForward ==
  ASSUME NavInv, N!BrowserForward
  PROVE  NavInv'
<1>1. pos < Len(hist) /\ pos' = pos + 1 /\ UNCHANGED <<hist, canGoBack, shown, popped, misled, outside>> /\ N!Arrive
  BY DEF N!BrowserForward
<1>2. HistOK /\ SettingsLast
  BY DEF NavInv
<1>3. Len(hist) \in Nat /\ pos \in 1..Len(hist) /\ hist \in Seq(Addresses)
      /\ (canGoBack /\ ~popped => pos > 1)
  BY <1>2 DEF HistOK
<1>4. pos' \in 1..Len(hist') /\ (canGoBack /\ ~popped => pos' > 1)
  <2>1. pos + 1 \in 1..Len(hist) /\ pos + 1 > 1
    BY <1>1, <1>3
  <2> QED BY <1>1, <2>1
<1>5. hist' \in Seq(Addresses)
  BY <1>1, <1>3
<1>6. AppOK(app', runs', shown', topic', stray') /\ PrevOK' /\ lastPath' \in Addresses
  BY <1>1, <1>4, <1>5, ArriveIs
<1>7. HistOK'
  BY <1>1, <1>2, <1>4, <1>5, <1>6 DEF HistOK
<1>8. SettingsLast'
  BY <1>1, <1>2 DEF SettingsLast
<1> QED BY <1>6, <1>7, <1>8 DEF NavInv

LEMMA ParentIs ==
  ASSUME NEW r \in WideRoutes
  PROVE  N!ParentRoute(r) \in WideRoutes
<1>1. r.forum \in Tokens /\ r.slug \in Tokens /\ "none" \in Tokens
  BY NavWords DEF WideRoutes
<1>2. CASE r.page \in {"thread", "compose"}
  <2>1. N!ParentRoute(r) = N!Route("board", r.forum, r.slug, "none", "none")
    BY <1>2 DEF N!ParentRoute, N!Nothing
  <2> QED BY <1>1, <2>1, RouteIs
<1>3. CASE r.page = "board"
  <2>1. N!ParentRoute(r) = N!BoardsRoute(r.forum)
    BY <1>3 DEF N!ParentRoute
  <2> QED BY <1>1, <2>1, BoardsRouteIs
<1>4. CASE r.page = "settings" /\ r.slug # "none"
  <2>1. N!ParentRoute(r) = N!SettingsRoute("none")
    BY <1>4 DEF N!ParentRoute, N!Nothing
  <2> QED BY <1>1, <2>1, SettingsRouteIs
<1>5. CASE r.page \notin {"thread", "compose", "board"} /\ ~(r.page = "settings" /\ r.slug # "none")
  BY <1>5 DEF N!ParentRoute, N!Nothing
<1> QED BY <1>2, <1>3, <1>4, <1>5

LEMMA NavNext ==
  ASSUME NavInv, N!Next
  PROVE  NavInv'
<1>0. HistOK /\ app \in Apps /\ N!Current \in WideRoutes /\ lastPath \in Addresses
  <2>1. HistOK /\ app \in Apps
    BY DEF NavInv, AppOK
  <2> QED BY <2>1, CurrentIs DEF HistOK
<1>1. CASE N!BoardsCome
  BY <1>1, NavBoardsCome
<1>2. CASE N!Bounce
  <2> PICK a : a = [app EXCEPT !.bounce = FALSE]
    OBVIOUS
  <2> PICK f : f = app.context
    OBVIOUS
  <2>1. N!Writes(N!BoardsRoute(f))
    BY <1>2 DEF N!Bounce
  <2>2. N!Visit(N!Parse(hist'[pos']), a) /\ shown' = shown /\ popped' = popped /\ outside' = outside
    BY <1>2 DEF N!Bounce
  <2>3. a \in Apps /\ f \in Tokens
    BY <1>0, NavWords DEF Apps
  <2> QED BY <2>1, <2>2, <2>3, NavBoards
<1>3. CASE N!Back
  <2>1. shown' = shown /\ (canGoBack => N!Pop("arrow"))
        /\ (~canGoBack => N!Go(N!ParentRoute(N!Current)) /\ popped' = popped /\ outside' = outside)
    BY <1>3 DEF N!Back
  <2>2. CASE canGoBack
    BY <2>1, <2>2, NavPop
  <2>3. CASE ~canGoBack
    <3>1. N!ParentRoute(N!Current) \in WideRoutes
      BY <1>0, ParentIs
    <3> QED BY <2>1, <2>3, <3>1, NavGo
  <2> QED BY <2>2, <2>3
<1>4. CASE N!BrowserBack
  <2>1. shown' = shown /\ N!Pop("browser")
    BY <1>4 DEF N!BrowserBack
  <2> QED BY <2>1, NavPop
<1>5. CASE N!BrowserForward
  BY <1>5, NavForward
<1>6. CASE N!SectionBoards
  <2>1. shown' = shown /\ (canGoBack => N!Pop("arrow"))
        /\ (~canGoBack => N!Go(N!Parse(lastPath)) /\ popped' = popped /\ outside' = outside)
    BY <1>6 DEF N!SectionBoards
  <2>2. CASE canGoBack
    BY <2>1, <2>2, NavPop
  <2>3. CASE ~canGoBack
    <3>1. N!Parse(lastPath) \in WideRoutes
      BY <1>0, ParseIs
    <3> QED BY <2>1, <2>3, <3>1, NavGo
  <2> QED BY <2>2, <2>3
<1>7. CASE N!Reload
  BY <1>7, NavReload
<1>8. CASE \E r \in N!Routes : r.post = N!Nothing /\ N!Follow(r)
  <2>1. PICK r \in N!Routes : N!Follow(r)
    BY <1>8
  <2>2. N!Go(r) /\ shown' = shown /\ popped' = popped /\ outside' = outside
    BY <2>1 DEF N!Follow
  <2>3. r \in WideRoutes
    BY RoutesAreWide
  <2> QED BY <2>2, <2>3, NavGo
<1>9. CASE \E f \in Forums : N!SelectForum(f)
  BY <1>9, NavSelect
<1>10. CASE \E r \in runs : N!Lookup(r) \/ N!LoadEnds(r) \/ N!LoadFails(r)
  BY <1>10, NavLookup, NavLoadEnds, NavLoadFails
<1> QED BY <1>1, <1>2, <1>3, <1>4, <1>5, <1>6, <1>7, <1>8, <1>9, <1>10 DEF N!Next

LEMMA NavInit ==
  ASSUME N!Init
  PROVE  NavInv
<1>1. PICK r \in N!Routes : hist = <<N!PathOf(r)>>
  BY DEF N!Init
<1>2. /\ pos = 1 /\ canGoBack = FALSE /\ lastPath = N!PathOf(N!BoardsRoute(N!Nothing))
      /\ app = [context |-> Default, ready |-> FALSE, prev |-> N!NoRoute, due |-> TRUE,
                loading |-> TRUE, error |-> FALSE, bounce |-> FALSE]
      /\ runs = {} /\ popped = FALSE /\ misled = FALSE /\ outside = "no"
  BY DEF N!Init
<1>3. AppOK(app, runs, shown, topic, stray)
  <2>1. app \in Apps /\ app.prev.page = "none" /\ app.ready = FALSE
    BY <1>2, NavWords, NoRouteIs DEF Apps
  <2>2. LoadingOK(app, runs) /\ UnreadyOK(app) /\ OneNewest(runs) /\ runs \subseteq Loads
    BY <1>2, <2>1 DEF LoadingOK, UnreadyOK, OneNewest
  <2>3. NewestOK(app, runs, topic, stray) /\ ShownOK(app, runs, shown, topic, stray)
    BY <1>2, <2>1 DEF NewestOK, ShownOK
  <2> QED BY <2>1, <2>2, <2>3 DEF AppOK
<1>4. N!PathOf(r) \in Addresses /\ N!PathOf(N!BoardsRoute(N!Nothing)) \in Addresses
  <2>1. N!Nothing \in Tokens /\ r \in WideRoutes
    BY NavWords, RoutesAreWide DEF N!Nothing
  <2> QED BY <2>1, PathOfIs, BoardsRouteIs
<1>5. HistOK
  <2> PICK path \in Addresses : path = N!PathOf(r)
    BY <1>4
  <2>1. <<path>> \in Seq(Addresses) /\ Len(<<path>>) = 1
    OBVIOUS
  <2>2. hist \in Seq(Addresses) /\ Len(hist) = 1
    BY <1>1, <2>1
  <2>3. pos \in 1..Len(hist) /\ outside # "arrow" /\ lastPath \in Addresses
    BY <1>2, <1>4, <2>2
  <2>4. canGoBack \in BOOLEAN /\ popped \in BOOLEAN /\ misled \in BOOLEAN /\ ~canGoBack
    BY <1>2
  <2> QED BY <2>2, <2>3, <2>4 DEF HistOK
<1>6. SettingsLast
  <2>1. Len(hist) = 1
    BY <1>1
  <2>2. 1..(1 - 1) = {}
    OBVIOUS
  <2>3. 1..(Len(hist) - 1) = {}
    BY <2>1, <2>2
  <2> QED BY <2>3 DEF SettingsLast
<1>7. PrevOK
  BY <1>2 DEF PrevOK
<1> QED BY <1>3, <1>5, <1>6, <1>7 DEF NavInv

\* What the address, the screen and the store have to agree on.
LEMMA NavAgrees ==
  ASSUME NavInv
  PROVE  N!TypeOK /\ N!AddressesReadBack /\ N!ShowsItsOwn /\ N!ListensToShown
<1>1. app \in Apps /\ runs \subseteq Loads /\ OneNewest(runs) /\ LoadingOK(app, runs)
      /\ ShownOK(app, runs, shown, topic, stray) /\ PrevOK /\ HistOK
  BY DEF NavInv, AppOK
<1>2. N!TypeOK
  <2>1. pos \in 1..Len(hist) /\ hist \in Seq(Addresses)
    BY <1>1 DEF HistOK
  <2>2. ASSUME NEW i \in 1..Len(hist)
        PROVE  N!Parse(hist[i]).page \in {"boards", "board", "thread", "compose", "settings"}
    <3>1. N!Parse(hist[i]) \in WideRoutes
      BY <2>1, ParseIs
    <3> QED BY <3>1 DEF WideRoutes
  <2>3. N!Cardinality({r \in runs : r.mine}) <= 1
    <3> PICK S : S = {r \in runs : r.mine}
      OBVIOUS
    <3>1. CASE S = {}
      <4>1. Cardinality(S) = 0
        BY <3>1, FS_EmptySet
      <4> QED BY <4>1 DEF N!Cardinality, Cardinality
    <3>2. CASE S # {}
      <4>1. PICK x \in S : TRUE
        BY <3>2
      <4>2. S = {x}
        BY <1>1, <4>1 DEF OneNewest
      <4>3. Cardinality({x}) = 1
        BY FS_Singleton
      <4>4. Cardinality(S) = 1
        BY <4>2, <4>3
      <4> QED BY <4>4 DEF N!Cardinality, Cardinality
    <3> QED BY <3>1, <3>2
  <2>4. app.loading => N!Coming \/ app.bounce
    BY <1>1 DEF LoadingOK, Newest, N!Coming
  <2> QED BY <2>1, <2>2, <2>3, <2>4 DEF N!TypeOK
<1>3. ASSUME N!OnScreen, N!Current.forum = app.context, ~N!Coming
      PROVE  /\ shown.kind # "none" /\ shown.of = <<app.context, N!Content(N!Current)>>
             /\ topic = shown.of \/ stray \/ shown.by = "compose"
  <2>1. app.ready /\ ~app.error /\ ~app.bounce /\ ~Newest(runs) /\ N!Current.page \in ContentPages
    BY <1>3 DEF N!OnScreen, N!Coming, Newest, ContentPages
  <2>2. app.prev = N!Current
    BY <1>1, <2>1 DEF PrevOK, ContentPages
  <2> QED BY <1>1, <2>1, <2>2 DEF ShownOK
<1>4. N!ShowsItsOwn
  BY <1>3 DEF N!ShowsItsOwn, N!Nothing
<1>5. N!ListensToShown
  BY <1>3 DEF N!ListensToShown
<1> QED BY <1>2, <1>4, <1>5, ReadBack

LEMMA NavGoesBack ==
  ASSUME NavInv
  PROVE  N!BackIsContent
<1>1. outside # "arrow" /\ pos \in 1..Len(hist) /\ hist \in Seq(Addresses)
  BY DEF NavInv, HistOK
<1>2. ASSUME ~misled, NEW i \in 1..(pos - 1) PROVE N!Parse(hist[i]).page # "settings"
  <2>1. i \in 1..(Len(hist) - 1)
    BY <1>1
  <2> QED BY <1>2, <2>1 DEF NavInv, SettingsLast
<1> QED BY <1>1, <1>2 DEF N!BackIsContent

LEMMA NavSame ==
  ASSUME NavInv, UNCHANGED ofNavigation
  PROVE  NavInv'
  BY NavKept DEF ofNavigation

NavPart == part = "navigation" => NavInv

LEMMA NavAlways == MCSpec => []NavPart
<1>1. MCInit => NavPart
  BY NavInit DEF MCInit, NavPart
<1>2. NavPart /\ [MCNext]_allvars => NavPart'
  <2> SUFFICES ASSUME NavPart, [MCNext]_allvars PROVE NavPart'
    OBVIOUS
  <2>1. CASE MCNext
    BY <2>1, NavNext DEF MCNext, NavPart
  <2>2. CASE UNCHANGED allvars
    BY <2>2, NavSame DEF allvars, NavPart
  <2> QED BY <2>1, <2>2
<1> QED BY <1>1, <1>2, PTL DEF MCSpec

\* Navigation, whatever boards are named: an address that is written is read back as
\* the page it was written for (route.ts); the content on the screen is the one the
\* address names or is on its way, and is the one that is subscribed to (App.tsx); the
\* arrows of nav.tsx do not lead out of the application, nor, until the user has gone to a
\* board whose address leads to the settings, back to these.
THEOREM BackLeadsToContent == MCSpec => []NavigationSafety
<1>1. NavPart => NavigationSafety
  BY NavAgrees, NavGoesBack DEF NavPart, NavigationSafety, N!NavigationSafety
<1> QED BY <1>1, NavAlways, PTL
=============================================================================
