-------------------------- MODULE FactorPacksProofs --------------------------
(***************************************************************************)
(* Proofs about FactorPacks, for any number of editions, days, values and  *)
(* inventories, and for any edits of the versions: the types, one edition  *)
(* per vintage, the order of a lineage, and what an import reaches.        *)
(***************************************************************************)
EXTENDS FactorPacks, TLAPS, SequenceTheorems, WellFoundedInduction

-----------------------------------------------------------------------------
(* Looking versions up. *)

\* A set of numbers that is not empty has a least one.
LEMMA LeastExists ==
  ASSUME NEW T \in SUBSET Nat, T # {}
  PROVE  \E x \in T : \A y \in T : x <= y
<1>1. PICK x \in T : \A y \in T : ~(<<y, x>> \in OpToRel(<, Nat))
  BY NatLessThanWellFounded, WFMin
<1>2. \A y \in T : ~(y < x)
  BY <1>1 DEF OpToRel
<1> QED BY <1>2

\* The starts of versions are days or the beginning.
LEMMA Starts ==
  ASSUME NEW l \in Seq(Version), NEW v \in DOMAIN l
  PROVE  l[v] \in Version /\ l[v].from \in Nat /\ l[v].from <= LastDay /\ l[v].to \in Nat /\ l[v].next \in Nat
<1>1. l[v] \in Version
  OBVIOUS
<1>2. l[v].from \in Always .. LastDay /\ l[v].to \in Always .. Forever /\ l[v].next \in Nat
  BY <1>1 DEF Version
<1> QED BY <1>1, <1>2, CalendarAssumption DEF Always, Forever

\* The earliest of some versions is one of them, and none starts before it (Earliest).
LEMMA EarliestFacts ==
  ASSUME NEW l \in Seq(Version), NEW S \in SUBSET DOMAIN l, S # {}
  PROVE  Earliest(l, S) \in S /\ \A w \in S : l[Earliest(l, S)].from <= l[w].from
<1> DEFINE T == {l[v].from : v \in S}
<1>1. T \in SUBSET Nat /\ T # {}
  BY Starts
<1>2. PICK x \in T : \A y \in T : x <= y
  BY <1>1, LeastExists
<1>3. \E v \in S : \A w \in S : l[v].from <= l[w].from
  BY <1>2
<1> QED BY <1>3 DEF Earliest

\* The latest of some versions is one of them, and none starts after it (Latest).
LEMMA LatestFacts ==
  ASSUME NEW l \in Seq(Version), NEW S \in SUBSET DOMAIN l, S # {}
  PROVE  Latest(l, S) \in S /\ \A w \in S : l[w].from <= l[Latest(l, S)].from
<1> DEFINE T == {LastDay - l[v].from : v \in S}
<1>1. T \in SUBSET Nat /\ T # {}
  BY Starts, CalendarAssumption
<1>2. PICK x \in T : \A y \in T : x <= y
  BY <1>1, LeastExists
<1>3. PICK v \in S : x = LastDay - l[v].from
  BY <1>2
<1>4. \A w \in S : LastDay - l[v].from <= LastDay - l[w].from
  BY <1>2, <1>3
<1>5. \A w \in S : l[w].from <= l[v].from
  BY <1>4, Starts, CalendarAssumption
<1> QED BY <1>5 DEF Latest

\* The live version is on file, and no version that nothing replaced starts after it (liveVersionOf).
LEMMA LiveFacts ==
  ASSUME NEW l \in Seq(Version), l # <<>>
  PROVE  /\ LiveVersion(l) \in DOMAIN l
         /\ \A v \in DOMAIN l : l[v].next = 0 => l[LiveVersion(l)].next = 0 /\ l[v].from <= l[LiveVersion(l)].from
         /\ l[LiveVersion(l)].next # 0 => \A v \in DOMAIN l : l[v].from <= l[LiveVersion(l)].from
<1> DEFINE unreplaced == {v \in DOMAIN l : l[v].next = 0}
<1>1. DOMAIN l # {}
  <2>1. Len(l) \in Nat \ {0}
    BY EmptySeq
  <2>2. 1 \in DOMAIN l
    BY <2>1
  <2> QED BY <2>2
<1>2. CASE unreplaced = {}
  <2>1. LiveVersion(l) = Latest(l, DOMAIN l)
    BY <1>2 DEF LiveVersion
  <2>2. DOMAIN l \in SUBSET DOMAIN l
    OBVIOUS
  <2>3. LiveVersion(l) \in DOMAIN l /\ \A w \in DOMAIN l : l[w].from <= l[LiveVersion(l)].from
    BY <2>1, <2>2, <1>1, LatestFacts
  <2>4. \A v \in DOMAIN l : l[v].next # 0
    BY <1>2
  <2> QED BY <2>3, <2>4
<1>3. CASE unreplaced # {}
  <2>1. LiveVersion(l) = Latest(l, unreplaced)
    BY <1>3 DEF LiveVersion
  <2> HIDE DEF unreplaced
  <2>2. unreplaced \in SUBSET DOMAIN l
    BY DEF unreplaced
  <2>3. LiveVersion(l) \in unreplaced /\ \A w \in unreplaced : l[w].from <= l[LiveVersion(l)].from
    BY <2>1, <2>2, <1>3, LatestFacts
  <2> QED BY <2>3 DEF unreplaced
<1> QED BY <1>2, <1>3

\* The version in force covers the day; where there is none, no version does (versionInForce).
LEMMA InForceFacts ==
  ASSUME NEW l \in Seq(Version), NEW d \in Nat
  PROVE  \/ VersionInForce(l, d) = 0 /\ \A v \in DOMAIN l : ~Covers(l, v, d)
         \/ VersionInForce(l, d) \in DOMAIN l /\ Covers(l, VersionInForce(l, d), d)
<1>1. CASE Covering(l, d) = {}
  BY <1>1 DEF Covering, VersionInForce
<1>2. CASE Covering(l, d) # {}
  <2>1. Covering(l, d) \in SUBSET DOMAIN l
    BY DEF Covering
  <2>2. VersionInForce(l, d) \in Covering(l, d)
    BY <1>2, <2>1, LatestFacts DEF VersionInForce
  <2> QED BY <2>2 DEF Covering
<1> QED BY <1>1, <1>2

\* The version after a day is the first to start after it; where there is none, none does (versionAfter).
LEMMA AfterFacts ==
  ASSUME NEW l \in Seq(Version), NEW d \in Nat
  PROVE  \/ VersionAfter(l, d) = 0 /\ \A v \in DOMAIN l : l[v].from <= d
         \/ /\ VersionAfter(l, d) \in DOMAIN l
            /\ d < l[VersionAfter(l, d)].from
            /\ \A v \in DOMAIN l : d < l[v].from => l[VersionAfter(l, d)].from <= l[v].from
<1>1. CASE StartingAfter(l, d) = {}
  BY <1>1, Starts DEF StartingAfter, VersionAfter
<1>2. CASE StartingAfter(l, d) # {}
  <2>1. StartingAfter(l, d) \in SUBSET DOMAIN l
    BY DEF StartingAfter
  <2>2. /\ VersionAfter(l, d) \in StartingAfter(l, d)
        /\ \A w \in StartingAfter(l, d) : l[VersionAfter(l, d)].from <= l[w].from
    BY <1>2, <2>1, EarliestFacts DEF VersionAfter
  <2> QED BY <2>2 DEF StartingAfter
<1> QED BY <1>1, <1>2

\* With one version a day, the version after a day is the only one of that description.
LEMMA AfterIs ==
  ASSUME NEW l \in Seq(Version), NEW d \in Nat, OneVersionADay(l),
         NEW k \in DOMAIN l, d < l[k].from, \A v \in DOMAIN l : d < l[v].from => l[k].from <= l[v].from
  PROVE  VersionAfter(l, d) = k
<1>1. VersionAfter(l, d) \in DOMAIN l /\ d < l[VersionAfter(l, d)].from
      /\ l[VersionAfter(l, d)].from <= l[k].from
  BY AfterFacts, Starts
<1>2. l[k].from <= l[VersionAfter(l, d)].from
  BY <1>1
<1>3. l[VersionAfter(l, d)].from = l[k].from
  BY <1>1, <1>2, Starts
<1> QED BY <1>1, <1>3 DEF OneVersionADay

LEMMA AfterIsNone ==
  ASSUME NEW l \in Seq(Version), NEW d \in Nat, \A v \in DOMAIN l : l[v].from <= d
  PROVE  VersionAfter(l, d) = 0
BY AfterFacts, Starts

-----------------------------------------------------------------------------
(* The order of a lineage, with what its preservation needs: an unedited   *)
(* version that nothing superseded is open, and no version ends before it  *)
(* begins.                                                                 *)

OnFile(l) == l \in Seq(Version) /\ \A v \in DOMAIN l : l[v].next \in 0 .. Len(l)

Sound(l) ==
  /\ OnFile(l)
  /\ OneVersionADay(l)
  /\ \A v \in DOMAIN l : l[v].from <= l[v].to
  /\ \A v \in DOMAIN l \ Edited(l) : l[v].next = 0 => l[v].to = Forever

InOrder(l) == Sound(l) /\ Apart(l) /\ (Edited(l) = {} => OneChain(l))

\* In an unedited chain, every version that begins by a day but the last one of these ends before it, and
\* the last covers it.
LEMMA ChainCovers ==
  ASSUME NEW l, InOrder(l), Edited(l) = {}, NEW a \in Days, NEW u \in DOMAIN l, l[u].from <= a
  PROVE  \E v \in DOMAIN l : Covers(l, v, a)
<1> DEFINE S == {v \in DOMAIN l : l[v].from <= a}
<1> DEFINE t == Latest(l, S)
<1>1. l \in Seq(Version) /\ OneChain(l)
  BY DEF InOrder, Sound, OnFile
<1>2. S \in SUBSET DOMAIN l /\ S # {}
  OBVIOUS
<1> HIDE DEF S
<1>3. t \in S /\ \A w \in S : l[w].from <= l[t].from
  BY <1>1, <1>2, LatestFacts
<1> HIDE DEF t
<1>4. t \in DOMAIN l /\ l[t].from <= a
  BY <1>3 DEF S
<1>5. CASE l[t].next = 0
  <2>1. l[t].to = Forever
    BY <1>5, <1>4, <1>1 DEF OneChain
  <2> QED BY <2>1, <1>4, CalendarAssumption DEF Covers, Forever, Days
<1>6. CASE l[t].next # 0
  <2> DEFINE k == l[t].next
  <2>1. k = VersionAfter(l, l[t].from) /\ l[t].to = l[k].from - 1
    BY <1>6, <1>4, <1>1 DEF OneChain
  <2>2. k \in DOMAIN l /\ l[t].from < l[k].from
    BY <2>1, <1>6, <1>4, <1>1, Starts, AfterFacts
  <2>3. k \notin S
    BY <2>2, <1>3, <1>4, <1>1, Starts
  <2>4. a < l[k].from
    BY <2>2, <2>3, <1>1, Starts DEF S, Days
  <2> QED BY <2>1, <2>2, <2>4, <1>4, <1>1, Starts DEF Covers, Days
<1> QED BY <1>5, <1>6

\* What an edition speaks to (subjectOf): begun by its day, apart from what else began by then, and, in an
\* unedited chain, the last to begin by then.
LEMMA SubjectFacts ==
  ASSUME NEW l, InOrder(l), l # <<>>, NEW a \in Days, NEW s, s = SubjectOf(l, a), s # 0
  PROVE  /\ s \in DOMAIN l /\ l[s].from <= a
         /\ s \notin Edited(l) =>
              \A v \in DOMAIN l \ Edited(l) : v # s /\ l[v].from <= a => l[v].to < a
         /\ Edited(l) = {} => VersionAfter(l, l[s].from) = VersionAfter(l, a)
<1>1. l \in Seq(Version) /\ OneVersionADay(l) /\ Apart(l) /\ a \in Nat
  BY DEF InOrder, Sound, OnFile, Days
<1>2. CASE l[LiveVersion(l)].from <= a
  <2>1. s = LiveVersion(l) /\ s \in DOMAIN l /\ l[s].from <= a
    BY <1>2, <1>1, LiveFacts DEF SubjectOf
  <2>2. ASSUME s \notin Edited(l), NEW v \in DOMAIN l \ Edited(l), v # s, l[v].from <= a
        PROVE  l[v].to < a
    <3>1. l[s].to < l[v].from \/ l[v].to < l[s].from
      BY <2>1, <2>2, <1>1 DEF Apart
    <3>2. CASE l[s].next = 0
      <4>1. l[s].to = Forever
        BY <3>2, <2>1, <2>2 DEF InOrder, Sound
      <4> QED BY <4>1, <3>1, <2>1, <2>2, <1>1, Starts, CalendarAssumption DEF Forever
    <3>3. CASE l[s].next # 0
      <4>1. l[v].from <= l[s].from
        BY <3>3, <2>1, <1>1, LiveFacts
      <4>2. l[s].from <= l[s].to
        BY <2>1 DEF InOrder, Sound
      <4> QED BY <4>1, <4>2, <3>1, <2>1, <2>2, <1>1, Starts
    <3> QED BY <3>2, <3>3
  <2>3. ASSUME Edited(l) = {}
        PROVE  VersionAfter(l, l[s].from) = VersionAfter(l, a)
    <3>1. l[s].next = VersionAfter(l, l[s].from)
      BY <2>1, <2>3 DEF InOrder, OneChain
    <3>2. l[s].from \in Nat
      BY <2>1, <1>1, Starts
    <3>3. \A v \in DOMAIN l : l[v].from <= l[s].from
      <4>1. CASE l[s].next # 0
        BY <4>1, <2>1, <1>1, LiveFacts
      <4>2. CASE l[s].next = 0
        <5>1. VersionAfter(l, l[s].from) \notin DOMAIN l
          BY <4>2, <3>1, <1>1
        <5> QED BY <5>1, <3>2, <1>1, AfterFacts
      <4> QED BY <4>1, <4>2
    <3>4. VersionAfter(l, l[s].from) = 0
      BY <3>2, <3>3, <1>1, AfterIsNone
    <3>5. \A v \in DOMAIN l : l[v].from <= a
      BY <3>3, <2>1, <1>1, Starts
    <3> QED BY <3>4, <3>5, <1>1, AfterIsNone
  <2> QED BY <2>1, <2>2, <2>3
<1>3. CASE ~(l[LiveVersion(l)].from <= a)
  <2>1. s = VersionInForce(l, a)
    BY <1>3 DEF SubjectOf
  <2>2. s \in DOMAIN l /\ l[s].from <= a /\ a <= l[s].to
    BY <2>1, <1>1, InForceFacts DEF Covers
  <2>3. ASSUME s \notin Edited(l), NEW v \in DOMAIN l \ Edited(l), v # s, l[v].from <= a
        PROVE  l[v].to < a
    <3>1. l[s].to < l[v].from \/ l[v].to < l[s].from
      BY <2>2, <2>3, <1>1 DEF Apart
    <3> QED BY <3>1, <2>2, <2>3, <1>1, Starts
  <2>4. ASSUME Edited(l) = {}
        PROVE  VersionAfter(l, l[s].from) = VersionAfter(l, a)
    <3>1. /\ l[s].next = VersionAfter(l, l[s].from)
          /\ l[s].to = IF l[s].next = 0 THEN Forever ELSE l[l[s].next].from - 1
      BY <2>2, <2>4 DEF InOrder, OneChain
    <3>2. l[s].from \in Nat
      BY <2>2, <1>1, Starts
    <3>3. CASE VersionAfter(l, l[s].from) = 0
      <4>1. VersionAfter(l, l[s].from) \notin DOMAIN l
        BY <3>3, <1>1
      <4>2. \A v \in DOMAIN l : l[v].from <= l[s].from
        BY <4>1, <3>2, <1>1, AfterFacts
      <4>3. \A v \in DOMAIN l : l[v].from <= a
        BY <4>2, <2>2, <1>1, Starts
      <4> QED BY <4>3, <3>3, <1>1, AfterIsNone
    <3>4. CASE VersionAfter(l, l[s].from) # 0
      <4> DEFINE k == VersionAfter(l, l[s].from)
      <4>1. /\ k \in DOMAIN l
            /\ \A v \in DOMAIN l : l[s].from < l[v].from => l[k].from <= l[v].from
        BY <3>4, <3>2, <1>1, AfterFacts
      <4>2. l[s].to = l[k].from - 1
        BY <3>1, <3>4
      <4> HIDE DEF k
      <4>3. a < l[k].from
        BY <4>1, <4>2, <2>2, <1>1, Starts
      <4>4. \A v \in DOMAIN l : a < l[v].from => l[k].from <= l[v].from
        BY <4>1, <2>2, <1>1, Starts
      <4>5. VersionAfter(l, a) = k
        BY <4>1, <4>3, <4>4, <1>1, AfterIs
      <4> QED BY <4>5 DEF k
    <3> QED BY <3>3, <3>4
  <2> QED BY <2>2, <2>3, <2>4
<1> QED BY <1>2, <1>3

\* Where the edition speaks to nothing, nothing covers its day and something starts after it; an unedited
\* chain begins after it.
LEMMA NoSubjectFacts ==
  ASSUME NEW l, InOrder(l), l # <<>>, NEW a \in Days, SubjectOf(l, a) = 0
  PROVE  /\ \A v \in DOMAIN l : l[v].from <= a => l[v].to < a
         /\ VersionAfter(l, a) \in DOMAIN l
         /\ Edited(l) = {} => \A v \in DOMAIN l : a < l[v].from
<1>1. l \in Seq(Version) /\ a \in Nat
  BY DEF InOrder, Sound, OnFile, Days
<1>2. LiveVersion(l) \in DOMAIN l /\ 0 \notin DOMAIN l
  BY <1>1, LiveFacts
<1>3. ~(l[LiveVersion(l)].from <= a) /\ VersionInForce(l, a) = 0
  BY <1>2 DEF SubjectOf
<1>4. \A v \in DOMAIN l : ~Covers(l, v, a)
  BY <1>1, <1>2, <1>3, InForceFacts
<1>5. \A v \in DOMAIN l : l[v].from <= a => l[v].to < a
  BY <1>4, <1>1, Starts DEF Covers
<1>6. VersionAfter(l, a) \in DOMAIN l
  BY <1>1, <1>2, <1>3, AfterFacts
<1>7. Edited(l) = {} => \A v \in DOMAIN l : a < l[v].from
  BY <1>1, <1>4, ChainCovers, Starts
<1> QED BY <1>5, <1>6, <1>7

-----------------------------------------------------------------------------
(* Writing a version. *)

\* m is l with an unedited version from a to the next one, and with the version s, where there is one, ended
\* the day before and superseded by it.
Spliced(l, m, s, a) ==
  LET new == m[Len(l) + 1]
      n == VersionAfter(l, a)
  IN  /\ m \in Seq(Version) /\ Len(m) = Len(l) + 1
      /\ \A v \in DOMAIN l : v # s => m[v] = l[v]
      /\ s # 0 =>
           /\ s \in DOMAIN l /\ s \notin Edited(l) /\ l[s].from < a
           /\ m[s].from = l[s].from /\ m[s].edited = l[s].edited /\ m[s].next = Len(l) + 1
           /\ m[s].to = IF l[s].to <= a - 1 THEN l[s].to ELSE a - 1
      /\ new.from = a /\ ~new.edited /\ new.next = n
      /\ new.to = IF n = 0 THEN Forever ELSE l[n].from - 1

\* What was on file keeps its start and whether it was edited, and begins on another day than the new version.
Extends(l, m, a) ==
  /\ DOMAIN m = DOMAIN l \cup {Len(l) + 1} /\ Len(l) + 1 \notin DOMAIN l /\ Len(l) \in Nat
  /\ \A v \in DOMAIN l : m[v].from = l[v].from /\ m[v].edited = l[v].edited /\ l[v].from # a
  /\ Edited(m) = Edited(l)

\* Writing a version keeps what was on file in its place (cutAVersion, fillBehind).
LEMMA SplicedFacts ==
  ASSUME NEW l, Sound(l), NEW s, NEW a \in Days, NEW m, Spliced(l, m, s, a), OneVersionADay(m)
  PROVE  Extends(l, m, a)
<1>1. l \in Seq(Version) /\ m \in Seq(Version) /\ Len(m) = Len(l) + 1 /\ Len(l) \in Nat
  BY DEF Sound, OnFile, Spliced
<1>2. DOMAIN m = DOMAIN l \cup {Len(l) + 1} /\ Len(l) + 1 \notin DOMAIN l
  BY <1>1
<1>3. \A v \in DOMAIN l : m[v].from = l[v].from /\ m[v].edited = l[v].edited
  BY <1>1 DEF Spliced
<1>4. m[Len(l) + 1].from = a /\ ~m[Len(l) + 1].edited
  BY DEF Spliced
<1>5. \A v \in DOMAIN l : l[v].from # a
  BY <1>2, <1>3, <1>4 DEF OneVersionADay
<1>6. Edited(m) = Edited(l)
  BY <1>2, <1>3, <1>4 DEF Edited
<1> QED BY <1>1, <1>2, <1>3, <1>5, <1>6 DEF Extends

\* The new version leaves the lineage sound, and the publisher's versions apart, where those that began
\* before it ended before it.
LEMMA SplicedSound ==
  ASSUME NEW l, Sound(l), Apart(l), NEW s, NEW a \in Days, NEW m, Spliced(l, m, s, a),
         OneVersionADay(m),
         \A v \in DOMAIN l \ Edited(l) : v # s /\ l[v].from <= a => l[v].to < a
  PROVE  Sound(m) /\ Apart(m)
<1> DEFINE N == Len(l) + 1
           n == VersionAfter(l, a)
<1>1. l \in Seq(Version) /\ m \in Seq(Version) /\ a \in Nat /\ 1 <= a /\ a <= LastDay
  BY CalendarAssumption DEF Sound, OnFile, Spliced, Days
<1>2. /\ DOMAIN m = DOMAIN l \cup {N} /\ N \notin DOMAIN l /\ Len(l) \in Nat /\ Len(m) = N
      /\ \A v \in DOMAIN l : m[v].from = l[v].from /\ m[v].edited = l[v].edited /\ l[v].from # a
      /\ Edited(m) = Edited(l)
  <2>1. Len(m) = N
    BY DEF Spliced
  <2>2. Extends(l, m, a)
    BY SplicedFacts
  <2> QED BY <2>1, <2>2 DEF Extends
<1>3. /\ m[N].from = a /\ m[N].next = n /\ n \in 0 .. Len(l)
      /\ n = 0 => m[N].to = Forever /\ \A v \in DOMAIN l : l[v].from < a
      /\ n # 0 => n \in DOMAIN l /\ m[N].to = l[n].from - 1 /\ a <= m[N].to
                 /\ \A v \in DOMAIN l : a < l[v].from => m[N].to < l[v].from
  <2>1. m[N].from = a /\ m[N].next = n /\ m[N].to = IF n = 0 THEN Forever ELSE l[n].from - 1
    BY DEF Spliced
  <2>2. CASE n = 0
    <3>1. n \notin DOMAIN l
      BY <2>2, <1>1
    <3>2. \A v \in DOMAIN l : l[v].from <= a
      BY <3>1, <1>1, AfterFacts
    <3> QED BY <3>2, <2>1, <2>2, <1>1, <1>2, Starts
  <2>3. CASE n # 0
    <3>1. n \in DOMAIN l /\ a < l[n].from /\ \A v \in DOMAIN l : a < l[v].from => l[n].from <= l[v].from
      BY <2>3, <1>1, AfterFacts
    <3>2. m[N].to = l[n].from - 1 /\ a <= m[N].to
      BY <2>1, <2>3, <3>1, <1>1, Starts
    <3>3. \A v \in DOMAIN l : a < l[v].from => m[N].to < l[v].from
      BY <3>1, <3>2, <1>1, Starts
    <3> QED BY <2>1, <2>3, <3>1, <3>2, <3>3, <1>1
  <2> HIDE DEF n
  <2> QED BY <2>2, <2>3
<1>4. \A v \in DOMAIN l : v # s => m[v] = l[v]
  BY DEF Spliced
<1>5. s # 0 => /\ s \in DOMAIN l /\ s \notin Edited(l) /\ l[s].from < a /\ m[s].next = N
               /\ m[s].to <= l[s].to /\ m[s].to < a /\ m[s].from <= m[s].to
  <2> SUFFICES ASSUME s # 0
               PROVE  /\ s \in DOMAIN l /\ s \notin Edited(l) /\ l[s].from < a /\ m[s].next = N
                      /\ m[s].to <= l[s].to /\ m[s].to < a /\ m[s].from <= m[s].to
    OBVIOUS
  <2>1. /\ s \in DOMAIN l /\ s \notin Edited(l) /\ l[s].from < a /\ m[s].next = N /\ m[s].from = l[s].from
        /\ m[s].to = IF l[s].to <= a - 1 THEN l[s].to ELSE a - 1
    BY DEF Spliced
  <2>2. l[s].from <= l[s].to
    BY <2>1 DEF Sound
  <2> QED BY <2>1, <2>2, <1>1, Starts
<1> HIDE DEF N, n
<1>6. OnFile(m)
  <2>1. ASSUME NEW v \in DOMAIN m
        PROVE  m[v].next \in 0 .. N
    <3>1. CASE v = N
      BY <3>1, <1>2, <1>3 DEF N
    <3>2. CASE v \in DOMAIN l /\ v # s
      BY <3>2, <1>2, <1>4 DEF Sound, OnFile, N
    <3>3. CASE v = s /\ v \in DOMAIN l
      <4>1. s # 0
        BY <3>3, <1>1
      <4> QED BY <3>3, <4>1, <1>2, <1>5 DEF N
    <3> QED BY <3>1, <3>2, <3>3, <1>2
  <2> QED BY <2>1, <1>1, <1>2 DEF OnFile
<1>7. ASSUME NEW v \in DOMAIN m
      PROVE  m[v].from <= m[v].to /\ (v \notin Edited(m) /\ m[v].next = 0 => m[v].to = Forever)
  <2>1. CASE v = N
    BY <2>1, <1>1, <1>3, CalendarAssumption DEF Forever
  <2>2. CASE v \in DOMAIN l /\ v # s
    <3>1. m[v] = l[v] /\ l[v].from <= l[v].to
      BY <2>2, <1>4 DEF Sound
    <3>2. v \notin Edited(l) /\ l[v].next = 0 => l[v].to = Forever
      BY <2>2 DEF Sound
    <3> QED BY <3>1, <3>2, <1>2
  <2>3. CASE v = s /\ v \in DOMAIN l
    <3>1. s # 0
      BY <2>3, <1>1
    <3> QED BY <2>3, <3>1, <1>2, <1>5 DEF N
  <2> QED BY <2>1, <2>2, <2>3, <1>2
<1>8. ASSUME NEW v \in DOMAIN l \ Edited(l)
      PROVE  m[v].to < a \/ m[N].to < m[v].from
  <2>1. CASE l[v].from <= a
    <3>1. CASE v = s
      <4>1. s # 0
        BY <3>1, <1>1
      <4> QED BY <3>1, <4>1, <1>5
    <3>2. CASE v # s
      BY <2>1, <3>2, <1>4
    <3> QED BY <3>1, <3>2
  <2>2. CASE ~(l[v].from <= a)
    <3>1. a < l[v].from
      BY <2>2, <1>1, Starts
    <3>2. n # 0
      BY <3>1, <1>1, <1>3, Starts
    <3> QED BY <3>1, <3>2, <1>2, <1>3
  <2> QED BY <2>1, <2>2
<1>9. ASSUME NEW v \in DOMAIN l \ Edited(l), NEW w \in DOMAIN l \ Edited(l), v # w
      PROVE  m[v].to < m[w].from \/ m[w].to < m[v].from
  <2>1. l[v].to < l[w].from \/ l[w].to < l[v].from
    BY <1>9 DEF Apart
  <2>2. ASSUME NEW u \in DOMAIN l
        PROVE  m[u].to <= l[u].to /\ m[u].to \in Nat /\ l[u].to \in Nat /\ l[u].from \in Nat
    <3>1. l[u].to \in Nat /\ l[u].from \in Nat /\ u # 0
      BY <1>1, Starts
    <3>2. m[u].to \in Nat
      BY <1>1, <1>2, Starts
    <3> QED BY <3>1, <3>2, <1>4, <1>5
  <2>3. m[v].from = l[v].from /\ m[w].from = l[w].from
    BY <1>2
  <2> QED BY <2>1, <2>2, <2>3
<1>10. Apart(m)
  <2>1. ASSUME NEW v \in DOMAIN m \ Edited(m), NEW w \in DOMAIN m \ Edited(m), v # w
        PROVE  m[v].to < m[w].from \/ m[w].to < m[v].from
    <3>1. CASE v = N
      BY <2>1, <3>1, <1>2, <1>3, <1>8
    <3>2. CASE w = N
      BY <2>1, <3>2, <1>2, <1>3, <1>8
    <3>3. CASE v # N /\ w # N
      BY <2>1, <3>3, <1>2, <1>9
    <3> QED BY <3>1, <3>2, <3>3
  <2> QED BY <2>1 DEF Apart
<1> QED BY <1>6, <1>7, <1>10 DEF Sound

\* Written after the last version to begin by its day, or before all of them, the new version is a link of an
\* unedited chain.
LEMMA SplicedChain ==
  ASSUME NEW l, InOrder(l), Edited(l) = {}, NEW s, NEW a \in Days, NEW m, Spliced(l, m, s, a), OneVersionADay(m),
         \A v \in DOMAIN l : v # s /\ l[v].from <= a => l[v].to < a,
         s = 0 => \A v \in DOMAIN l : a < l[v].from,
         s # 0 => VersionAfter(l, l[s].from) = VersionAfter(l, a)
  PROVE  OneChain(m)
<1> DEFINE N == Len(l) + 1
           n == VersionAfter(l, a)
<1>1. l \in Seq(Version) /\ m \in Seq(Version) /\ a \in Nat /\ 1 <= a /\ a <= LastDay /\ OneChain(l)
  BY CalendarAssumption DEF InOrder, Sound, OnFile, Spliced, Days
<1>2. /\ DOMAIN m = DOMAIN l \cup {N} /\ N \notin DOMAIN l /\ Len(l) \in Nat
      /\ \A v \in DOMAIN l : m[v].from = l[v].from /\ l[v].from # a /\ l[v].from \in Nat
      /\ m[N].from = a
  <2>1. Extends(l, m, a)
    BY SplicedFacts DEF InOrder
  <2>2. m[N].from = a
    BY DEF Spliced
  <2> QED BY <2>1, <2>2, <1>1, Starts DEF Extends
<1>3. /\ m[N].next = n
      /\ m[N].to = IF n = 0 THEN Forever ELSE l[n].from - 1
      /\ \A v \in DOMAIN l : v # s => m[v] = l[v]
  BY DEF Spliced
<1> HIDE DEF N
<1>4. /\ n = 0 => \A v \in DOMAIN l : l[v].from < a
      /\ n # 0 => n \in DOMAIN l /\ a < l[n].from /\ \A v \in DOMAIN l : a < l[v].from => l[n].from <= l[v].from
  <2>1. 0 \notin DOMAIN l
    BY <1>1
  <2>2. \/ n = 0 /\ \A v \in DOMAIN l : l[v].from <= a
        \/ n \in DOMAIN l /\ a < l[n].from /\ \A v \in DOMAIN l : a < l[v].from => l[n].from <= l[v].from
    BY <1>1, AfterFacts
  <2> HIDE DEF n
  <2> QED BY <2>1, <2>2, <1>2, <1>1
<1>5. /\ m[N].next = VersionAfter(m, m[N].from)
      /\ m[N].to = IF m[N].next = 0 THEN Forever ELSE m[m[N].next].from - 1
  <2>1. CASE n = 0
    <3>1. \A v \in DOMAIN m : m[v].from <= a
      BY <2>1, <1>1, <1>2, <1>4
    <3>2. VersionAfter(m, a) = 0
      BY <3>1, <1>1, AfterIsNone
    <3> QED BY <3>2, <2>1, <1>2, <1>3
  <2>2. CASE n # 0
    <3> HIDE DEF n
    <3>1. n \in DOMAIN m /\ a < m[n].from /\ m[n].from = l[n].from
      BY <2>2, <1>2, <1>4
    <3>2. \A v \in DOMAIN m : a < m[v].from => m[n].from <= m[v].from
      BY <2>2, <3>1, <1>1, <1>2, <1>4
    <3>3. VersionAfter(m, a) = n
      BY <3>1, <3>2, <1>1, AfterIs
    <3> QED BY <3>1, <3>3, <2>2, <1>2, <1>3
  <2> QED BY <2>1, <2>2
<1>6. ASSUME s # 0
      PROVE  /\ m[s].next = VersionAfter(m, m[s].from)
             /\ m[s].to = IF m[s].next = 0 THEN Forever ELSE m[m[s].next].from - 1
  <2>1. /\ s \in DOMAIN l /\ l[s].from < a /\ m[s].from = l[s].from /\ m[s].next = N
        /\ m[s].to = IF l[s].to <= a - 1 THEN l[s].to ELSE a - 1
    BY <1>6 DEF Spliced, N
  <2>2. l[s].next = n /\ l[s].to = IF n = 0 THEN Forever ELSE l[n].from - 1
    BY <2>1, <1>1, <1>6 DEF OneChain
  <2>3. l[s].from \in Nat
    BY <2>1, <1>2
  <2>4. /\ n = 0 => \A w \in DOMAIN l : l[w].from <= l[s].from
        /\ n # 0 => \A w \in DOMAIN l : l[s].from < l[w].from => l[n].from <= l[w].from
    <3>1. 0 \notin DOMAIN l /\ VersionAfter(l, l[s].from) = n
      BY <1>1, <1>6
    <3> HIDE DEF n
    <3> QED BY <3>1, <2>3, <1>1, AfterFacts
  <2> HIDE DEF n
  <2>5. m[s].to = a - 1
    BY <2>1, <2>2, <1>1, <1>2, <1>4, CalendarAssumption DEF Forever
  <2>6. \A w \in DOMAIN m : m[s].from < m[w].from => m[N].from <= m[w].from
    <3> TAKE w \in DOMAIN m
    <3> HAVE m[s].from < m[w].from
    <3>1. CASE w = N
      BY <3>1, <1>1, <1>2
    <3>2. CASE w \in DOMAIN l
      <4>1. l[s].from < l[w].from /\ l[w].from \in Nat
        BY <3>2, <2>1, <1>2
      <4>2. n # 0
        BY <4>1, <3>2, <2>3, <2>4
      <4>3. l[n].from <= l[w].from /\ a < l[n].from /\ l[n].from \in Nat
        BY <4>1, <4>2, <3>2, <2>4, <1>2, <1>4
      <4> QED BY <4>1, <4>3, <3>2, <1>1, <1>2
    <3> QED BY <3>1, <3>2, <1>2
  <2>7. m[s].from \in Nat /\ m[s].from < m[N].from /\ N \in DOMAIN m /\ N # 0
    BY <2>1, <2>3, <1>1, <1>2 DEF N
  <2>8. VersionAfter(m, m[s].from) = N
    BY <2>6, <2>7, <1>1, AfterIs
  <2> QED BY <2>1, <2>5, <2>7, <2>8, <1>2
<1>7. ASSUME NEW v \in DOMAIN l, v # s
      PROVE  /\ m[v].next = VersionAfter(m, m[v].from)
             /\ m[v].to = IF m[v].next = 0 THEN Forever ELSE m[m[v].next].from - 1
  <2> DEFINE k == l[v].next
  <2>1. k = VersionAfter(l, l[v].from) /\ l[v].to = IF k = 0 THEN Forever ELSE l[k].from - 1
    BY <1>1 DEF OneChain
  <2>2. m[v] = l[v] /\ l[v].from \in Nat /\ v \in DOMAIN m
    BY <1>7, <1>2, <1>3
  <2>3. /\ k = 0 => \A w \in DOMAIN l : l[w].from <= l[v].from
        /\ k # 0 => /\ k \in DOMAIN l /\ l[v].from < l[k].from
                    /\ \A w \in DOMAIN l : l[v].from < l[w].from => l[k].from <= l[w].from
    <3>1. 0 \notin DOMAIN l
      BY <1>1
    <3> QED BY <3>1, <2>1, <2>2, <1>1, AfterFacts
  <2>4. k # 0 \/ a < l[v].from
    <3> SUFFICES ASSUME k = 0, ~(a < l[v].from)
                 PROVE  FALSE
      OBVIOUS
    <3>1. l[v].from <= a
      BY <2>2, <1>1
    <3>2. l[v].to < a /\ l[v].to = Forever
      BY <3>1, <1>7, <2>1
    <3> QED BY <3>2, <1>1, CalendarAssumption DEF Forever
  <2>5. k # 0 => a < l[v].from \/ l[k].from < a
    <3> SUFFICES ASSUME k # 0, ~(a < l[v].from)
                 PROVE  l[k].from < a
      OBVIOUS
    <3>1. l[v].from <= a
      BY <2>2, <1>1
    <3>2. l[v].to < a /\ l[v].to = l[k].from - 1
      BY <3>1, <1>7, <2>1
    <3>3. k \in DOMAIN l
      BY <2>3
    <3>4. l[k].from \in Nat /\ l[k].from # a
      BY <3>3, <1>2
    <3> QED BY <3>2, <3>4, <1>1
  <2> HIDE DEF k
  <2>6. CASE k = 0
    <3>1. \A w \in DOMAIN m : m[w].from <= m[v].from
      BY <2>6, <2>2, <2>3, <2>4, <1>1, <1>2
    <3>2. VersionAfter(m, m[v].from) = 0
      BY <3>1, <2>2, <1>1, AfterIsNone
    <3> QED BY <3>2, <2>6, <2>1, <2>2 DEF k
  <2>7. CASE k # 0
    <3>1. k \in DOMAIN m /\ m[k].from = l[k].from /\ m[v].from < m[k].from /\ m[v].from \in Nat
      BY <2>7, <2>2, <2>3, <1>2
    <3>2. \A w \in DOMAIN m : m[v].from < m[w].from => m[k].from <= m[w].from
      BY <2>7, <3>1, <2>2, <2>3, <2>5, <1>1, <1>2
    <3>3. VersionAfter(m, m[v].from) = k
      BY <3>1, <3>2, <1>1, AfterIs
    <3> QED BY <3>1, <3>3, <2>7, <2>1, <2>2 DEF k
  <2> QED BY <2>6, <2>7
<1>8. ASSUME NEW v \in DOMAIN m
      PROVE  /\ m[v].next = VersionAfter(m, m[v].from)
             /\ m[v].to = IF m[v].next = 0 THEN Forever ELSE m[m[v].next].from - 1
  <2>1. CASE v = N
    BY <2>1, <1>5
  <2>2. CASE v \in DOMAIN l /\ v # s
    BY <2>2, <1>7
  <2>3. CASE v \in DOMAIN l /\ v = s
    <3>1. s # 0
      BY <2>3, <1>1
    <3> QED BY <2>3, <3>1, <1>6
  <2> QED BY <2>1, <2>2, <2>3, <1>2
<1> QED BY <1>8 DEF OneChain

-----------------------------------------------------------------------------
(* The outcomes of an import. *)

LEMMA WrittenType ==
  ASSUME NEW e \in Editions, NEW a \in Always .. LastDay, NEW r \in Row, NEW approved \in BOOLEAN
  PROVE  Written(e, a, r, approved) \in Version
BY CalendarAssumption DEF Written, Version, Row, Always, Forever

\* A version written into the lineage runs to the next one, which supersedes it.
LinksAt(l, a, new) ==
  /\ new \in Version /\ new.from = a /\ ~new.edited /\ new.next = VersionAfter(l, a)
  /\ new.to = IF VersionAfter(l, a) = 0 THEN Forever ELSE l[VersionAfter(l, a)].from - 1

LEMMA BeforeLinks ==
  ASSUME NEW l \in Seq(Version), NEW e \in Editions, NEW a \in Days, NEW r \in Row, NEW approved \in BOOLEAN
  PROVE  LinksAt(l, a, Before(l, VersionAfter(l, a), Written(e, a, r, approved)))
<1> DEFINE n == VersionAfter(l, a)
           new == Before(l, n, Written(e, a, r, approved))
<1> DEFINE w == Written(e, a, r, approved)
<1>1. /\ w \in Version /\ w.from = a /\ w.to = Forever /\ w.edited = FALSE /\ w.next = 0
      /\ a \in Nat /\ 1 <= a /\ a <= LastDay /\ LastDay \in Nat
  BY WrittenType, CalendarAssumption DEF Written, Days, Always
<1> HIDE DEF w
<1>2. ASSUME n = 0
      PROVE  new \in Version /\ new.from = a /\ ~new.edited /\ new.next = n /\ new.to = Forever
  <2>1. new = w
    BY <1>2 DEF Before, w
  <2> QED BY <2>1, <1>1, <1>2
<1>3. ASSUME n # 0
      PROVE  new \in Version /\ new.from = a /\ ~new.edited /\ new.next = n /\ new.to = l[n].from - 1
  <2>1. n \in DOMAIN l /\ a < l[n].from
    BY <1>1, <1>3, AfterFacts
  <2>2. l[n].from \in Nat /\ l[n].from <= LastDay /\ n \in Nat
    BY <2>1, Starts
  <2> DEFINE d == l[n].from - 1
  <2>3. d \in Always .. Forever /\ ~(d < w.from \/ w.to <= d)
    BY <2>1, <2>2, <1>1 DEF Always, Forever
  <2>4. new = [[w EXCEPT !.to = d] EXCEPT !.next = n]
    BY <1>3, <2>3 DEF Before, ClosedAt, w
  <2> HIDE DEF d
  <2>5. new \in Version /\ new.from = a /\ ~new.edited /\ new.next = n /\ new.to = d
    BY <2>2, <2>3, <2>4, <1>1 DEF Version
  <2> QED BY <2>5, <1>3 DEF d
<1>4. /\ new \in Version /\ new.from = a /\ ~new.edited /\ new.next = n
      /\ new.to = IF n = 0 THEN Forever ELSE l[n].from - 1
  <2> HIDE DEF n, new
  <2> QED BY <1>2, <1>3
<1> QED BY <1>4 DEF LinksAt

\* A cut is a splice (cutAVersion).
LEMMA CutSplices ==
  ASSUME NEW l \in Seq(Version), NEW s \in DOMAIN l, s \notin Edited(l), NEW a \in Days, l[s].from < a,
         NEW e \in Editions, NEW r \in Row
  PROVE  Spliced(l, CutAVersion(l, s, e, a, r), s, a)
<1> DEFINE closed == [ClosedAt(l[s], a - 1) EXCEPT !.next = Len(l) + 1]
           k == [l EXCEPT ![s] = closed]
           new == Before(l, VersionAfter(l, a), Written(e, a, r, r.approved /\ l[s].approved))
           m == CutAVersion(l, s, e, a, r)
<1>1. /\ l[s] \in Version /\ l[s].from \in Nat /\ l[s].to \in Nat /\ a \in Nat /\ 1 <= a /\ a <= LastDay
      /\ Len(l) \in Nat /\ s \in 1 .. Len(l)
  BY Starts, CalendarAssumption DEF Days
<1>2. (r.approved /\ l[s].approved) \in BOOLEAN
  OBVIOUS
<1>3. LinksAt(l, a, new)
  BY <1>2, BeforeLinks
<1>4. /\ closed \in Version /\ closed.from = l[s].from /\ closed.edited = l[s].edited /\ closed.next = Len(l) + 1
      /\ closed.to = IF l[s].to <= a - 1 THEN l[s].to ELSE a - 1
  <2>1. a - 1 \in Always .. Forever /\ ~(a - 1 < l[s].from)
    BY <1>1, CalendarAssumption DEF Always, Forever
  <2>2. closed = [l[s] EXCEPT !.to = IF l[s].to <= a - 1 THEN l[s].to ELSE a - 1, !.next = Len(l) + 1]
    BY <2>1, <1>1 DEF ClosedAt, Version
  <2> HIDE DEF closed
  <2> DEFINE d == IF l[s].to <= a - 1 THEN l[s].to ELSE a - 1
  <2>3. d \in Always .. Forever /\ Len(l) + 1 \in Nat
    BY <2>1, <1>1 DEF Version
  <2>4. closed = [l[s] EXCEPT !.to = d, !.next = Len(l) + 1]
    BY <2>2
  <2> HIDE DEF d
  <2>5. closed \in Version /\ closed.from = l[s].from /\ closed.edited = l[s].edited /\ closed.to = d
        /\ closed.next = Len(l) + 1
    BY <2>3, <2>4, <1>1 DEF Version
  <2> QED BY <2>5 DEF d
<1>5. m = Append(k, new)
  BY DEF CutAVersion
<1> HIDE DEF closed, new, m
<1>6. k \in Seq(Version) /\ Len(k) = Len(l) /\ k[s] = closed /\ \A v \in DOMAIN l : v # s => k[v] = l[v]
  BY <1>1, <1>4
<1> HIDE DEF k
<1>7. /\ m \in Seq(Version) /\ Len(m) = Len(l) + 1 /\ m[Len(l) + 1] = new
      /\ \A v \in 1 .. Len(l) : m[v] = k[v]
  BY <1>3, <1>5, <1>6, AppendProperties DEF LinksAt
<1>8. m[s] = closed /\ \A v \in DOMAIN l : v # s => m[v] = l[v]
  BY <1>1, <1>6, <1>7
<1>9. Spliced(l, m, s, a)
  BY <1>3, <1>4, <1>7, <1>8 DEF Spliced, LinksAt
<1> QED BY <1>9 DEF m

\* So is a version filled in behind, which ends no other (fillBehind).
LEMMA FillSplices ==
  ASSUME NEW l \in Seq(Version), NEW a \in Days, VersionAfter(l, a) \in DOMAIN l, NEW e \in Editions, NEW r \in Row
  PROVE  Spliced(l, FillBehind(l, e, a, r), 0, a)
<1> DEFINE n == VersionAfter(l, a)
           new == Before(l, n, Written(e, a, r, r.approved /\ l[n].approved))
           m == FillBehind(l, e, a, r)
<1>1. (r.approved /\ l[n].approved) \in BOOLEAN
  OBVIOUS
<1>2. LinksAt(l, a, new)
  BY <1>1, BeforeLinks
<1>3. m = Append(l, new)
  BY DEF FillBehind
<1> HIDE DEF new, m
<1>4. /\ m \in Seq(Version) /\ Len(m) = Len(l) + 1 /\ m[Len(l) + 1] = new
      /\ \A v \in DOMAIN l : m[v] = l[v]
  BY <1>2, <1>3, AppendProperties DEF LinksAt
<1>5. Spliced(l, m, 0, a)
  BY <1>2, <1>4 DEF Spliced, LinksAt
<1> QED BY <1>5 DEF m

\* A lineage whose dates and edits are as they were is in order if it was (rules 5 and 6, a correction in
\* place, an approval).
SameDates(l, m) ==
  /\ m \in Seq(Version) /\ Len(m) = Len(l)
  /\ \A v \in DOMAIN l : /\ m[v].from = l[v].from /\ m[v].to = l[v].to
                         /\ m[v].next = l[v].next /\ m[v].edited = l[v].edited

LEMMA SameDatesInOrder ==
  ASSUME NEW l, InOrder(l), NEW m, SameDates(l, m)
  PROVE  InOrder(m)
<1>1. l \in Seq(Version) /\ m \in Seq(Version) /\ Len(m) = Len(l) /\ DOMAIN m = DOMAIN l
  BY DEF InOrder, Sound, OnFile, SameDates
<1>2. \A v \in DOMAIN l : /\ m[v].from = l[v].from /\ m[v].to = l[v].to
                         /\ m[v].next = l[v].next /\ m[v].edited = l[v].edited
  BY DEF SameDates
<1>3. Edited(m) = Edited(l)
  BY <1>1, <1>2 DEF Edited
<1>4. OneVersionADay(l) /\ OneVersionADay(m)
  BY <1>1, <1>2 DEF InOrder, Sound, OneVersionADay
<1>5. Sound(m)
  BY <1>1, <1>2, <1>3, <1>4 DEF InOrder, Sound, OnFile
<1>6. Apart(m)
  BY <1>1, <1>2, <1>3 DEF InOrder, Apart
<1>7. ASSUME NEW v \in DOMAIN l
      PROVE  VersionAfter(m, m[v].from) = VersionAfter(l, l[v].from)
  <2> DEFINE d == l[v].from
             n == VersionAfter(l, d)
  <2>1. d \in Nat /\ m[v].from = d
    BY <1>1, <1>2, Starts
  <2> HIDE DEF d
  <2>2. CASE n \notin DOMAIN l
    <3>1. n = 0 /\ \A w \in DOMAIN l : l[w].from <= d
      BY <2>1, <2>2, <1>1, AfterFacts
    <3>2. \A w \in DOMAIN m : m[w].from <= d
      BY <3>1, <1>1, <1>2
    <3>3. VersionAfter(m, d) = 0
      BY <3>2, <2>1, <1>1, AfterIsNone
    <3> QED BY <3>1, <3>3, <2>1 DEF d
  <2>3. CASE n \in DOMAIN l
    <3>1. d < l[n].from /\ \A w \in DOMAIN l : d < l[w].from => l[n].from <= l[w].from
      <4>1. 0 \notin DOMAIN l
        BY <1>1
      <4> QED BY <4>1, <2>1, <2>3, <1>1, AfterFacts
    <3> HIDE DEF n
    <3>2. n \in DOMAIN m /\ d < m[n].from /\ \A w \in DOMAIN m : d < m[w].from => m[n].from <= m[w].from
      BY <3>1, <2>3, <1>1, <1>2
    <3>3. VersionAfter(m, d) = n
      BY <3>2, <2>1, <1>1, <1>4, AfterIs
    <3> QED BY <3>3, <2>1 DEF d, n
  <2> QED BY <2>2, <2>3
<1>8. Edited(m) = {} => OneChain(m)
  <2> SUFFICES ASSUME Edited(m) = {}, NEW v \in DOMAIN m
               PROVE  /\ m[v].next = VersionAfter(m, m[v].from)
                      /\ m[v].to = IF m[v].next = 0 THEN Forever ELSE m[m[v].next].from - 1
    BY DEF OneChain
  <2>1. v \in DOMAIN l /\ VersionAfter(m, m[v].from) = VersionAfter(l, l[v].from)
    BY <1>1, <1>7
  <2>2. /\ l[v].next = VersionAfter(l, l[v].from)
        /\ l[v].to = IF l[v].next = 0 THEN Forever ELSE l[l[v].next].from - 1
    BY <2>1, <1>3 DEF InOrder, OneChain
  <2>3. l[v].next # 0 => l[v].next \in DOMAIN l
    <3>1. l[v].next \in 0 .. Len(l)
      BY <2>1 DEF InOrder, Sound, OnFile
    <3> QED BY <3>1, <1>1
  <2> QED BY <2>1, <2>2, <2>3, <1>2
<1> QED BY <1>5, <1>6, <1>8 DEF InOrder

\* What has no edited version and one version in the chain is in order.
LEMMA FirstInOrder ==
  ASSUME NEW e \in Editions, NEW a \in Always .. LastDay, NEW r \in Row
  PROVE  InOrder(<<Written(e, a, r, r.approved)>>)
<1> DEFINE w == Written(e, a, r, r.approved)
           l == <<w>>
<1>1. r.approved \in BOOLEAN /\ a \in Nat /\ a <= LastDay /\ LastDay \in Nat
  BY CalendarAssumption DEF Row, Always
<1>2. w \in Version /\ w.from = a /\ w.to = Forever /\ ~w.edited /\ w.next = 0
  BY <1>1, WrittenType DEF Written
<1> HIDE DEF w
<1>3. l \in Seq(Version) /\ Len(l) = 1 /\ DOMAIN l = {1} /\ l[1] = w
  BY <1>2
<1> HIDE DEF l
<1>4. VersionAfter(l, l[1].from) = 0
  BY <1>1, <1>2, <1>3, AfterIsNone
<1>5. Sound(l) /\ Apart(l)
  BY <1>1, <1>2, <1>3 DEF Sound, OnFile, OneVersionADay, Apart, Edited, Forever
<1>6. OneChain(l)
  BY <1>2, <1>3, <1>4 DEF OneChain
<1> QED BY <1>5, <1>6 DEF InOrder, l, w

\* An import keeps the lineage in order, or fails whole on a start it would repeat (importPack).
LEMMA ImportedInOrder ==
  ASSUME NEW l, InOrder(l), NEW e \in Editions, NEW a \in Days, NEW r \in Row,
         OneVersionADay(Imported(l, e, a, r))
  PROVE  InOrder(Imported(l, e, a, r))
<1> DEFINE s == SubjectOf(l, a)
           m == Imported(l, e, a, r)
<1>1. l \in Seq(Version) /\ Sound(l) /\ Apart(l) /\ a \in Always .. LastDay
  BY CalendarAssumption DEF InOrder, Sound, OnFile, Days, Always
<1>2. CASE l = <<>>
  BY <1>1, <1>2, FirstInOrder DEF Imported
<1>3. CASE l # <<>> /\ s = 0
  <2>1. m = FillBehind(l, e, a, r)
    BY <1>3 DEF Imported
  <2> HIDE DEF m
  <2>2. /\ \A v \in DOMAIN l : l[v].from <= a => l[v].to < a
        /\ VersionAfter(l, a) \in DOMAIN l
        /\ Edited(l) = {} => \A v \in DOMAIN l : a < l[v].from
    BY <1>3, NoSubjectFacts
  <2>3. Spliced(l, m, 0, a)
    BY <1>1, <2>1, <2>2, FillSplices
  <2>4. OneVersionADay(m)
    BY DEF m
  <2>7. Extends(l, m, a)
    BY <1>1, <2>3, <2>4, SplicedFacts
  <2>8. \A v \in DOMAIN l \ Edited(l) : v # 0 /\ l[v].from <= a => l[v].to < a
    BY <2>2
  <2>9. Sound(m) /\ Apart(m)
    BY <1>1, <2>3, <2>4, <2>8, SplicedSound
  <2>5. Sound(m) /\ Apart(m) /\ Edited(m) = Edited(l)
    BY <2>7, <2>9 DEF Extends
  <2>6. ASSUME Edited(l) = {} PROVE OneChain(m)
    BY <2>2, <2>3, <2>4, <2>6, SplicedChain
  <2> QED BY <2>5, <2>6 DEF InOrder, m
<1>4. CASE l # <<>> /\ s # 0
  <2>1. /\ s \in DOMAIN l /\ l[s].from <= a
        /\ s \notin Edited(l) =>
             \A v \in DOMAIN l \ Edited(l) : v # s /\ l[v].from <= a => l[v].to < a
        /\ Edited(l) = {} => VersionAfter(l, l[s].from) = VersionAfter(l, a)
    BY <1>4, SubjectFacts
  <2> HIDE DEF s
  <2>2. CASE m = l
    BY <2>2
  <2>3. CASE m = Tag(l, s, e)
    <3> DEFINE w == [l[s] EXCEPT !.edition = e]
    <3>2. /\ w \in Version /\ w.from = l[s].from /\ w.to = l[s].to
          /\ w.next = l[s].next /\ w.edited = l[s].edited
      <4>1. l[s] \in Version
        BY <1>1, <2>1
      <4> QED BY <4>1 DEF Version
    <3>3. m = [l EXCEPT ![s] = w]
      BY <2>3 DEF Tag
    <3> HIDE DEF w, m
    <3>1. SameDates(l, m)
      BY <1>1, <2>1, <3>2, <3>3 DEF SameDates
    <3> QED BY <3>1, SameDatesInOrder DEF m
  <2>4. CASE m = CorrectInPlace(l, s, e, r)
    <3> DEFINE approved == l[s].approved /\ r.approved
               w == [l[s] EXCEPT !.value = r.value, !.edition = e, !.approved = approved]
    <3>4. approved \in BOOLEAN
      OBVIOUS
    <3>6. CorrectInPlace(l, s, e, r) = [l EXCEPT ![s] = w]
      BY Zenon DEF CorrectInPlace
    <3>3. m = [l EXCEPT ![s] = w]
      BY <2>4, <3>6
    <3> HIDE DEF approved, m
    <3>5. r.value \in Values
      BY DEF Row
    <3>2. /\ w \in Version /\ w.from = l[s].from /\ w.to = l[s].to
          /\ w.next = l[s].next /\ w.edited = l[s].edited
      <4>1. l[s] \in Version
        BY <1>1, <2>1
      <4> QED BY <4>1, <3>4, <3>5 DEF Version
    <3> HIDE DEF w, m
    <3>1. SameDates(l, m)
      BY <1>1, <2>1, <3>2, <3>3 DEF SameDates
    <3> QED BY <3>1, SameDatesInOrder DEF m
  <2>5. CASE s \notin Edited(l) /\ l[s].from # a /\ m = CutAVersion(l, s, e, a, r)
    <3> HIDE DEF m
    <3>1. l[s].from < a
      BY <1>1, <2>1, <2>5, Starts DEF Days
    <3>2. Spliced(l, m, s, a)
      BY <1>1, <2>1, <2>5, <3>1, CutSplices
    <3>3. OneVersionADay(m)
      BY DEF m
    <3>6. Extends(l, m, a)
      BY <1>1, <3>2, <3>3, SplicedFacts
    <3>7. \A v \in DOMAIN l \ Edited(l) : v # s /\ l[v].from <= a => l[v].to < a
      BY <2>1, <2>5
    <3>8. Sound(m) /\ Apart(m)
      BY <1>1, <3>2, <3>3, <3>7, SplicedSound
    <3>4. Sound(m) /\ Apart(m) /\ Edited(m) = Edited(l)
      BY <3>6, <3>8 DEF Extends
    <3>5. ASSUME Edited(l) = {} PROVE OneChain(m)
      <4>1. s # 0 /\ \A v \in DOMAIN l : v # s /\ l[v].from <= a => l[v].to < a
        BY <1>4, <2>1, <3>5 DEF s
      <4> QED BY <2>1, <3>2, <3>3, <3>5, <4>1, SplicedChain
    <3> QED BY <3>4, <3>5 DEF InOrder, m
  <2> QED BY <1>4, <2>1, <2>2, <2>3, <2>4, <2>5 DEF Imported, s, Edited
<1> QED BY <1>2, <1>3, <1>4

\* A version people edit is theirs: it leaves the publisher's versions apart, and no chain is claimed.
LEMMA EditedInOrder ==
  ASSUME NEW l, InOrder(l), NEW v \in DOMAIN l, NEW w \in Version, w.edited, w.from <= w.to,
         w.next = l[v].next, OneVersionADay([l EXCEPT ![v] = w])
  PROVE  InOrder([l EXCEPT ![v] = w])
<1> DEFINE m == [l EXCEPT ![v] = w]
<1>1. l \in Seq(Version) /\ \A u \in DOMAIN l : l[u].next \in 0 .. Len(l)
  BY DEF InOrder, Sound, OnFile
<1>2. /\ m \in Seq(Version) /\ Len(m) = Len(l) /\ DOMAIN m = DOMAIN l /\ m[v] = w
      /\ \A u \in DOMAIN l : u # v => m[u] = l[u]
  BY <1>1
<1> HIDE DEF m
<1>3. v \in Edited(m) /\ DOMAIN m \ Edited(m) \subseteq DOMAIN l \ Edited(l)
  BY <1>2 DEF Edited
<1>4. \A u \in DOMAIN m \ Edited(m) : m[u] = l[u]
  BY <1>2, <1>3
<1>5. OnFile(m)
  BY <1>1, <1>2 DEF OnFile
<1>6. \A u \in DOMAIN m : m[u].from <= m[u].to
  BY <1>2 DEF InOrder, Sound
<1>7. \A u \in DOMAIN m \ Edited(m) : m[u].next = 0 => m[u].to = Forever
  BY <1>3, <1>4 DEF InOrder, Sound
<1>8. Apart(m)
  BY <1>3, <1>4 DEF InOrder, Apart
<1>9. OneVersionADay(m)
  BY DEF m
<1> QED BY <1>3, <1>5, <1>6, <1>7, <1>8, <1>9 DEF InOrder, Sound, m

-----------------------------------------------------------------------------
(* What an import does to prices and days. *)

\* In an unedited chain, the version in force on a day is the last to begin by then (versionInForce).
LEMMA LastBegun ==
  ASSUME NEW l, InOrder(l), Edited(l) = {}, NEW d \in Days, NEW v, v = VersionInForce(l, d)
  PROVE  \/ v = 0 /\ \A w \in DOMAIN l : d < l[w].from
         \/ v \in DOMAIN l /\ l[v].from <= d /\ \A w \in DOMAIN l : l[w].from <= d => l[w].from <= l[v].from
<1>1. l \in Seq(Version) /\ OneChain(l) /\ d \in Nat
  BY DEF InOrder, Sound, OnFile, Days
<1>2. CASE v = 0 /\ \A w \in DOMAIN l : ~Covers(l, w, d)
  <2>1. \A w \in DOMAIN l : ~(l[w].from <= d)
    BY <1>2, ChainCovers
  <2> QED BY <2>1, <1>1, <1>2, Starts
<1>3. CASE v \in DOMAIN l /\ Covers(l, v, d)
  <2>1. l[v].from \in Nat /\ l[v].from <= d /\ d <= l[v].to
    BY <1>1, <1>3, Starts DEF Covers
  <2>2. ASSUME NEW w \in DOMAIN l, l[w].from <= d, ~(l[w].from <= l[v].from)
        PROVE  FALSE
    <3> DEFINE n == VersionAfter(l, l[v].from)
    <3>1. l[v].from < l[w].from /\ l[w].from \in Nat
      BY <2>1, <2>2, <1>1, Starts
    <3>2. n \in DOMAIN l /\ l[n].from <= l[w].from
      BY <3>1, <2>1, <1>1, AfterFacts
    <3>3. l[v].to = l[n].from - 1
      BY <3>2, <1>1, <1>3 DEF OneChain
    <3> HIDE DEF n
    <3> QED BY <3>1, <3>2, <3>3, <2>1, <2>2, <1>1, Starts
  <2> QED BY <1>3, <2>1, <2>2
<1> QED BY <1>1, <1>2, <1>3, InForceFacts

\* With one version a day, that description fits one version.
LEMMA LastBegunIs ==
  ASSUME NEW l, InOrder(l), Edited(l) = {}, NEW d \in Days, NEW k \in DOMAIN l, l[k].from <= d,
         \A w \in DOMAIN l : l[w].from <= d => l[w].from <= l[k].from
  PROVE  VersionInForce(l, d) = k
<1> DEFINE v == VersionInForce(l, d)
<1>1. l \in Seq(Version) /\ OneVersionADay(l) /\ d \in Nat
  BY DEF InOrder, Sound, OnFile, Days
<1>2. v \in DOMAIN l /\ l[v].from <= d /\ l[k].from <= l[v].from
  BY <1>1, LastBegun, Starts
<1> HIDE DEF v
<1>3. l[v].from = l[k].from
  BY <1>1, <1>2, Starts
<1>4. v = k
  BY <1>1, <1>2, <1>3 DEF OneVersionADay
<1> QED BY <1>4 DEF v

\* One unedited version of the lineage may have another price, where it begins on the day.
Repriced(l, m, a, x) ==
  /\ SameDates(l, m)
  /\ \E s \in DOMAIN l \ Edited(l) :
       /\ \A v \in DOMAIN l : v # s => m[v] = l[v]
       /\ m[s].value = l[s].value \/ (l[s].from = a /\ m[s].value = x)

\* A version of that price is written into the lineage, and no other changes its own.
Inserted(l, m, a, x) ==
  /\ \E s : Spliced(l, m, s, a)
  /\ \A v \in DOMAIN l : m[v].value = l[v].value
  /\ m[Len(l) + 1].value = x

LEMMA BeforeKeepsThePrice ==
  ASSUME NEW l, NEW n, NEW w \in Version
  PROVE  Before(l, n, w).value = w.value
<1> DEFINE c == ClosedAt(w, l[n].from - 1)
<1>1. c = w \/ c = [w EXCEPT !.to = l[n].from - 1]
  BY DEF ClosedAt
<1> HIDE DEF c
<1>2. c.value = w.value /\ [c EXCEPT !.next = n].value = w.value
  BY <1>1 DEF Version
<1> QED BY <1>2 DEF Before, c

LEMMA CutInserts ==
  ASSUME NEW l \in Seq(Version), NEW s \in DOMAIN l, s \notin Edited(l), NEW a \in Days, l[s].from < a,
         NEW e \in Editions, NEW r \in Row
  PROVE  Inserted(l, CutAVersion(l, s, e, a, r), a, r.value)
<1> DEFINE closed == [ClosedAt(l[s], a - 1) EXCEPT !.next = Len(l) + 1]
           approved == r.approved /\ l[s].approved
           w == Written(e, a, r, approved)
           new == Before(l, VersionAfter(l, a), w)
           m == CutAVersion(l, s, e, a, r)
<1>1. Spliced(l, m, s, a)
  BY CutSplices
<1>2. l[s] \in Version /\ approved \in BOOLEAN /\ a \in Always .. LastDay
  BY Starts, CalendarAssumption DEF Days, Always
<1> HIDE DEF approved
<1>3. w \in Version /\ w.value = r.value
  <2>1. w \in Version
    BY <1>2, WrittenType
  <2> QED BY <2>1 DEF Written
<1> HIDE DEF w
<1>4. new.value = r.value
  BY <1>3, BeforeKeepsThePrice
<1>5. closed.value = l[s].value
  <2> DEFINE c == ClosedAt(l[s], a - 1)
  <2>1. c = l[s] \/ c = [l[s] EXCEPT !.to = a - 1]
    BY DEF ClosedAt
  <2> HIDE DEF c
  <2>2. [c EXCEPT !.next = Len(l) + 1].value = l[s].value
    BY <2>1, <1>2 DEF Version
  <2> QED BY <2>2 DEF c
<1>6. m = Append([l EXCEPT ![s] = closed], new)
  BY DEF CutAVersion, w, approved
<1> HIDE DEF closed, new, m
<1>7. m[Len(l) + 1] = new /\ m[s] = closed
  BY <1>6
<1>8. \A v \in DOMAIN l : v # s => m[v] = l[v]
  BY <1>6
<1>9. Inserted(l, m, a, r.value)
  BY <1>1, <1>4, <1>5, <1>7, <1>8 DEF Inserted
<1> QED BY <1>9 DEF m

LEMMA FillInserts ==
  ASSUME NEW l \in Seq(Version), NEW a \in Days, VersionAfter(l, a) \in DOMAIN l, NEW e \in Editions, NEW r \in Row
  PROVE  Inserted(l, FillBehind(l, e, a, r), a, r.value)
<1> DEFINE n == VersionAfter(l, a)
           approved == r.approved /\ l[n].approved
           w == Written(e, a, r, approved)
           new == Before(l, n, w)
           m == FillBehind(l, e, a, r)
<1>1. Spliced(l, m, 0, a)
  BY FillSplices
<1>2. approved \in BOOLEAN /\ a \in Always .. LastDay
  BY CalendarAssumption DEF Days, Always
<1>3. m = Append(l, new)
  BY DEF FillBehind
<1> HIDE DEF approved, m
<1>4. w \in Version /\ w.value = r.value
  <2>1. w \in Version
    BY <1>2, WrittenType
  <2> QED BY <2>1 DEF Written
<1> HIDE DEF w
<1>5. new.value = r.value
  BY <1>4, BeforeKeepsThePrice
<1> HIDE DEF new
<1>6. m[Len(l) + 1] = new /\ \A v \in DOMAIN l : m[v] = l[v]
  BY <1>3
<1>7. Inserted(l, m, a, r.value)
  BY <1>1, <1>5, <1>6 DEF Inserted
<1> QED BY <1>7 DEF m

\* A lineage after an import: its first version, itself, or itself with a version repriced or inserted.
Outcome(l, m, e, a, r) ==
  \/ l = <<>> /\ m = <<Written(e, a, r, r.approved)>>
  \/ m = l
  \/ Repriced(l, m, a, r.value)
  \/ Inserted(l, m, a, r.value)

LEMMA ImportedOutcome ==
  ASSUME NEW l, InOrder(l), NEW e \in Editions, NEW a \in Days, NEW r \in Row
  PROVE  Outcome(l, Imported(l, e, a, r), e, a, r)
<1> DEFINE s == SubjectOf(l, a)
           m == Imported(l, e, a, r)
<1>1. l \in Seq(Version)
  BY DEF InOrder, Sound, OnFile
<1>2. CASE l = <<>>
  BY <1>2 DEF Imported, Outcome
<1>3. CASE l # <<>> /\ s = 0
  <2>1. Inserted(l, FillBehind(l, e, a, r), a, r.value)
    BY <1>1, <1>3, NoSubjectFacts, FillInserts
  <2> QED BY <2>1, <1>3 DEF Imported, Outcome
<1>4. CASE l # <<>> /\ s # 0
  <2>1. s \in DOMAIN l /\ l[s].from <= a
    BY <1>4, SubjectFacts
  <2>2. l[s] \in Version
    BY <1>1, <2>1
  <2> HIDE DEF s
  <2>3. ASSUME s \notin Edited(l), l[s].value = r.value
        PROVE  Repriced(l, Tag(l, s, e), a, r.value)
    <3> DEFINE w == [l[s] EXCEPT !.edition = e]
    <3>1. /\ w \in Version /\ w.from = l[s].from /\ w.to = l[s].to /\ w.next = l[s].next
          /\ w.edited = l[s].edited /\ w.value = l[s].value
      BY <2>2 DEF Version
    <3>2. Tag(l, s, e) = [l EXCEPT ![s] = w]
      BY DEF Tag
    <3> HIDE DEF w
    <3> QED BY <1>1, <2>1, <2>3, <3>1, <3>2 DEF Repriced, SameDates
  <2>4. ASSUME s \notin Edited(l), l[s].from = a
        PROVE  Repriced(l, CorrectInPlace(l, s, e, r), a, r.value)
    <3> DEFINE approved == l[s].approved /\ r.approved
               w == [l[s] EXCEPT !.value = r.value, !.edition = e, !.approved = approved]
    <3>1. approved \in BOOLEAN /\ r.value \in Values
      BY DEF Row
    <3>2. CorrectInPlace(l, s, e, r) = [l EXCEPT ![s] = w]
      BY Zenon DEF CorrectInPlace
    <3> HIDE DEF approved
    <3>3. /\ w \in Version /\ w.from = l[s].from /\ w.to = l[s].to /\ w.next = l[s].next
          /\ w.edited = l[s].edited /\ w.value = r.value
      BY <2>2, <3>1 DEF Version
    <3> HIDE DEF w
    <3> QED BY <1>1, <2>1, <2>4, <3>2, <3>3 DEF Repriced, SameDates
  <2>5. ASSUME s \notin Edited(l), l[s].from # a
        PROVE  Inserted(l, CutAVersion(l, s, e, a, r), a, r.value)
    <3>1. l[s].from < a
      BY <1>1, <2>1, <2>5, Starts DEF Days
    <3> QED BY <1>1, <2>1, <2>5, <3>1, CutInserts
  <2>6. \/ m = l
        \/ s \notin Edited(l) /\ l[s].value = r.value /\ m = Tag(l, s, e)
        \/ s \notin Edited(l) /\ l[s].from = a /\ m = CorrectInPlace(l, s, e, r)
        \/ s \notin Edited(l) /\ l[s].from # a /\ m = CutAVersion(l, s, e, a, r)
    BY <1>4, <2>1 DEF Imported, s, Edited
  <2> HIDE DEF m
  <2>7. Outcome(l, m, e, a, r)
    BY <2>3, <2>4, <2>5, <2>6 DEF Outcome
  <2> QED BY <2>7 DEF m
<1> QED BY <1>2, <1>3, <1>4

\* An import leaves every version on file in its place: its start, its price unless it begins on the
\* edition's day, the days before that day it covers, and all of it where the organization edited it.
LEMMA EarlierDaysStand ==
  ASSUME NEW l, InOrder(l), NEW e \in Editions, NEW a \in Days, NEW r \in Row,
         NEW m, m = Imported(l, e, a, r), OneVersionADay(m), NEW v \in DOMAIN l
  PROVE  /\ v \in DOMAIN m /\ m[v].from = l[v].from
         /\ l[v].from # a => m[v].value = l[v].value
         /\ \A d \in Days : d < a => (Covers(m, v, d) <=> Covers(l, v, d))
         /\ v \in Edited(l) => m[v] = l[v]
<1>1. l \in Seq(Version) /\ Sound(l) /\ Outcome(l, m, e, a, r) /\ a \in Nat
  BY ImportedOutcome DEF InOrder, Sound, OnFile, Days
<1>2. CASE l = <<>>
  BY <1>2
<1>3. CASE m = l
  BY <1>3
<1>4. CASE Repriced(l, m, a, r.value)
  <2>1. DOMAIN m = DOMAIN l /\ m[v].from = l[v].from /\ m[v].to = l[v].to
    BY <1>1, <1>4 DEF Repriced, SameDates
  <2>2. (l[v].from # a => m[v].value = l[v].value) /\ (v \in Edited(l) => m[v] = l[v])
    BY <1>4 DEF Repriced
  <2> QED BY <2>1, <2>2 DEF Covers
<1>5. CASE Inserted(l, m, a, r.value)
  <2>1. PICK s : Spliced(l, m, s, a)
    BY <1>5 DEF Inserted
  <2>2. v \in DOMAIN m /\ m[v].from = l[v].from
    <3>1. Extends(l, m, a)
      BY <1>1, <2>1, SplicedFacts
    <3> QED BY <3>1 DEF Extends
  <2>3. m[v].value = l[v].value
    BY <1>5 DEF Inserted
  <2>4. v # s => m[v] = l[v]
    BY <2>1 DEF Spliced
  <2>5. s # 0 => s \notin Edited(l) /\ m[s].to = IF l[s].to <= a - 1 THEN l[s].to ELSE a - 1
    BY <2>1 DEF Spliced
  <2>6. v # 0 /\ l[v].to \in Nat
    BY <1>1, Starts
  <2>7. \A d \in Days : d < a => (d <= m[v].to <=> d <= l[v].to)
    BY <1>1, <2>4, <2>5, <2>6 DEF Days
  <2> QED BY <2>2, <2>3, <2>4, <2>5, <2>6, <2>7 DEF Covers
<1> QED BY <1>1, <1>2, <1>3, <1>4, <1>5 DEF Outcome

\* The day reached by an edition of a lineage nobody edited: from its own on, up to the next version's start.
Reaches(l, a, d) == a <= d /\ \A v \in DOMAIN l : l[v].from \notin a + 1 .. d

\* In such a lineage a version written in is in force on the days it reaches, and on no others.
LEMMA InsertedInForce ==
  ASSUME NEW l, InOrder(l), Edited(l) = {}, NEW m, InOrder(m), NEW a \in Days, NEW x, Inserted(l, m, a, x),
         NEW d \in Days
  PROVE  VersionInForce(m, d) = IF Reaches(l, a, d) THEN Len(l) + 1 ELSE VersionInForce(l, d)
<1> DEFINE N == Len(l) + 1
           u == VersionInForce(l, d)
<1>1. l \in Seq(Version) /\ Sound(l) /\ OneVersionADay(m) /\ a \in Nat /\ d \in Nat
  BY DEF InOrder, Sound, OnFile, Days
<1>2. PICK s : Spliced(l, m, s, a)
  BY DEF Inserted
<1>3. /\ DOMAIN m = DOMAIN l \cup {N} /\ m[N].from = a /\ Edited(m) = {}
      /\ \A v \in DOMAIN l : m[v].from = l[v].from /\ l[v].from \in Nat
  <2>1. Extends(l, m, a)
    BY <1>1, <1>2, SplicedFacts
  <2>2. m[N].from = a
    BY <1>2 DEF Spliced
  <2> HIDE DEF N
  <2>3. DOMAIN m = DOMAIN l \cup {N} /\ \A v \in DOMAIN l : m[v].from = l[v].from
    BY <2>1 DEF Extends, N
  <2>4. Edited(m) = {}
    BY <2>1 DEF Extends
  <2> QED BY <1>1, <2>2, <2>3, <2>4, Starts
<1> HIDE DEF N
<1>4. CASE Reaches(l, a, d)
  <2>1. \A w \in DOMAIN m : m[w].from <= d => m[w].from <= m[N].from
    BY <1>1, <1>3, <1>4 DEF Reaches
  <2> QED BY <1>3, <1>4, <2>1, LastBegunIs DEF Reaches, N
<1>5. CASE ~Reaches(l, a, d)
  <2>1. \/ u = 0 /\ \A w \in DOMAIN l : d < l[w].from
        \/ u \in DOMAIN l /\ l[u].from <= d /\ \A w \in DOMAIN l : l[w].from <= d => l[w].from <= l[u].from
    BY LastBegun
  <2> HIDE DEF u
  <2>2. CASE u = 0 /\ \A w \in DOMAIN l : d < l[w].from
    <3>1. d < a
      BY <1>1, <1>3, <1>5, <2>2 DEF Reaches
    <3>2. \A w \in DOMAIN m : ~(m[w].from <= d)
      BY <1>1, <1>3, <2>2, <3>1
    <3>3. VersionInForce(m, d) = 0
      BY <1>3, <3>2, LastBegun
    <3> QED BY <1>5, <2>2, <3>3 DEF u
  <2>3. CASE u \in DOMAIN l /\ l[u].from <= d /\ \A w \in DOMAIN l : l[w].from <= d => l[w].from <= l[u].from
    <3>1. a <= d => a <= l[u].from
      BY <1>1, <1>3, <1>5, <2>3 DEF Reaches
    <3>2. \A w \in DOMAIN m : m[w].from <= d => m[w].from <= m[u].from
      BY <1>1, <1>3, <2>3, <3>1
    <3>3. VersionInForce(m, d) = u
      BY <1>3, <2>3, <3>2, LastBegunIs
    <3> QED BY <1>5, <3>3 DEF u
  <2> QED BY <2>1, <2>2, <2>3
<1> QED BY <1>4, <1>5 DEF N

\* With the same dates the same version is in force (tags and corrections in place).
LEMMA SameDatesInForce ==
  ASSUME NEW l, InOrder(l), Edited(l) = {}, NEW m, SameDates(l, m), NEW d \in Days
  PROVE  VersionInForce(m, d) = VersionInForce(l, d)
<1> DEFINE u == VersionInForce(l, d)
<1>1. /\ l \in Seq(Version) /\ DOMAIN m = DOMAIN l /\ d \in Nat
      /\ \A v \in DOMAIN l : m[v].from = l[v].from /\ m[v].edited = l[v].edited /\ l[v].from \in Nat
  BY Starts DEF InOrder, Sound, OnFile, SameDates, Days
<1>2. InOrder(m) /\ Edited(m) = {}
  BY <1>1, SameDatesInOrder DEF Edited
<1>3. \/ u = 0 /\ \A w \in DOMAIN l : d < l[w].from
      \/ u \in DOMAIN l /\ l[u].from <= d /\ \A w \in DOMAIN l : l[w].from <= d => l[w].from <= l[u].from
  BY LastBegun
<1> HIDE DEF u
<1>4. CASE u = 0 /\ \A w \in DOMAIN l : d < l[w].from
  <2>1. \A w \in DOMAIN m : ~(m[w].from <= d)
    BY <1>1, <1>4
  <2> QED BY <1>2, <1>4, <2>1, LastBegun DEF u
<1>5. CASE u \in DOMAIN l /\ l[u].from <= d /\ \A w \in DOMAIN l : l[w].from <= d => l[w].from <= l[u].from
  <2>1. u \in DOMAIN m /\ m[u].from <= d /\ \A w \in DOMAIN m : m[w].from <= d => m[w].from <= m[u].from
    BY <1>1, <1>5
  <2>2. VersionInForce(m, d) = u
    BY <1>2, <2>1, LastBegunIs
  <2> QED BY <2>2 DEF u
<1> QED BY <1>3, <1>4, <1>5

\* An import into a lineage nobody edited prices the days it reaches, at the edition's value, and no others.
LEMMA ImportPrices ==
  ASSUME NEW l, InOrder(l), Edited(l) = {}, NEW e \in Editions, NEW a \in Days, NEW r \in Row,
         NEW m, m = Imported(l, e, a, r), OneVersionADay(m), NEW d \in Days, ValueOn(m, d) # ValueOn(l, d)
  PROVE  ValueOn(m, d) = {r.value} /\ Reaches(l, a, d)
<1> DEFINE u == VersionInForce(l, d)
           k == VersionInForce(m, d)
<1>1. /\ l \in Seq(Version) /\ InOrder(m) /\ m \in Seq(Version) /\ Outcome(l, m, e, a, r)
      /\ a \in Nat /\ d \in Nat
  BY ImportedInOrder, ImportedOutcome DEF InOrder, Sound, OnFile, Days
<1>2. CASE l = <<>> /\ m = <<Written(e, a, r, r.approved)>>
  <2>1. DOMAIN m = {1} /\ m[1].from = a /\ m[1].value = r.value /\ ~m[1].edited /\ DOMAIN l = {}
    BY <1>2 DEF Written
  <2>2. Edited(m) = {}
    BY <2>1 DEF Edited
  <2>3. u = 0 /\ ValueOn(l, d) = {}
    BY <2>1, LastBegun DEF ValueOn
  <2>4. k # 0
    BY <2>3 DEF ValueOn
  <2>5. k = 1 /\ a <= d
    BY <1>1, <2>1, <2>2, <2>4, LastBegun
  <2> QED BY <2>1, <2>4, <2>5 DEF ValueOn, Reaches
<1>3. CASE Repriced(l, m, a, r.value)
  <2>1. PICK s \in DOMAIN l \ Edited(l) :
          /\ \A v \in DOMAIN l : v # s => m[v] = l[v]
          /\ m[s].value = l[s].value \/ (l[s].from = a /\ m[s].value = r.value)
    BY <1>3 DEF Repriced
  <2>2. k = u
    BY <1>3, SameDatesInForce DEF Repriced
  <2>3. u # 0 /\ m[u].value # l[u].value
    BY <2>2 DEF ValueOn
  <2>4. u \in DOMAIN l /\ l[u].from <= d /\ \A w \in DOMAIN l : l[w].from <= d => l[w].from <= l[u].from
    BY <2>3, LastBegun
  <2> HIDE DEF u, k
  <2>5. u = s /\ l[u].from = a /\ m[u].value = r.value
    BY <2>1, <2>3, <2>4
  <2>6. Reaches(l, a, d)
    BY <1>1, <2>4, <2>5, Starts DEF Reaches
  <2>7. ValueOn(m, d) = {r.value}
    BY <2>2, <2>3, <2>5 DEF ValueOn, k
  <2> QED BY <2>6, <2>7
<1>4. CASE Inserted(l, m, a, r.value)
  <2>1. k = IF Reaches(l, a, d) THEN Len(l) + 1 ELSE u
    BY <1>1, <1>4, InsertedInForce
  <2>2. Len(l) + 1 # 0 /\ m[Len(l) + 1].value = r.value
    BY <1>1, <1>4 DEF Inserted
  <2>3. CASE Reaches(l, a, d)
    BY <2>1, <2>2, <2>3 DEF ValueOn
  <2>4. CASE ~Reaches(l, a, d)
    <3>1. u # 0 => u \in DOMAIN l
      BY LastBegun
    <3>2. u # 0 => m[u].value = l[u].value
      BY <3>1, <1>4 DEF Inserted
    <3>3. k = u
      BY <2>1, <2>4
    <3> HIDE DEF u, k
    <3>4. ValueOn(m, d) = ValueOn(l, d)
      BY <3>2, <3>3 DEF ValueOn, u, k
    <3> QED BY <3>4
  <2> QED BY <2>3, <2>4
<1>5. CASE m = l
  BY <1>5
<1> QED BY <1>1, <1>2, <1>3, <1>4, <1>5 DEF Outcome

-----------------------------------------------------------------------------
(* The steps. *)

\* An import leaves no version out.
LEMMA ImportedGrows ==
  ASSUME NEW l \in Seq(Version), NEW e, NEW a \in Days, NEW r
  PROVE  Len(l) <= Len(Imported(l, e, a, r)) /\ Len(l) \in Nat /\ Len(Imported(l, e, a, r)) \in Nat
<1> DEFINE s == SubjectOf(l, a)
           m == Imported(l, e, a, r)
<1>1. CASE m = l
  BY <1>1
<1>2. ASSUME NEW w, l = <<>>, m = <<w>> PROVE Len(m) = 1 /\ Len(l) = 0
  BY <1>2
<1>3. ASSUME NEW w, m = Append(l, w) PROVE Len(m) = Len(l) + 1
  <2> HIDE DEF m
  <2> QED BY <1>3
<1>4. ASSUME NEW w, m = [l EXCEPT ![s] = w] PROVE Len(m) = Len(l)
  <2> HIDE DEF m, s
  <2> QED BY <1>4
<1>5. ASSUME NEW u, NEW w, m = Append([l EXCEPT ![s] = u], w) PROVE Len(m) = Len(l) + 1
  <2> HIDE DEF m, s
  <2>1. Len([l EXCEPT ![s] = u]) = Len(l)
    OBVIOUS
  <2> QED BY <2>1, <1>5
<1>6. (Len(m) = 1 /\ Len(l) = 0) \/ Len(m) = Len(l) \/ Len(m) = Len(l) + 1
  <2>1. \/ m = l
        \/ l = <<>> /\ \E w : m = <<w>>
        \/ \E w : m = Append(l, w)
        \/ \E w : m = [l EXCEPT ![s] = w]
        \/ \E u, w : m = Append([l EXCEPT ![s] = u], w)
    <3>1. \E w : FillBehind(l, e, a, r) = Append(l, w)
      BY DEF FillBehind
    <3>2. (\E w : Tag(l, s, e) = [l EXCEPT ![s] = w]) /\ (\E w : CorrectInPlace(l, s, e, r) = [l EXCEPT ![s] = w])
      BY DEF Tag, CorrectInPlace
    <3>3. \E u, w : CutAVersion(l, s, e, a, r) = Append([l EXCEPT ![s] = u], w)
      BY DEF CutAVersion
    <3>4. \/ m = l
          \/ l = <<>> /\ m = <<Written(e, a, r, r.approved)>>
          \/ m = FillBehind(l, e, a, r)
          \/ m = Tag(l, s, e)
          \/ m = CorrectInPlace(l, s, e, r)
          \/ m = CutAVersion(l, s, e, a, r)
      BY DEF Imported
    <3> HIDE DEF m, s
    <3> QED BY <3>1, <3>2, <3>3, <3>4
  <2> HIDE DEF m, s
  <2> QED BY <1>1, <1>2, <1>3, <1>4, <1>5, <2>1
<1> QED BY <1>6

\* An edition standing on the day of the only importable edition of that day was published before it.
Succession ==
  \A c, d \in Editions :
    /\ c # d /\ edition[c].status = "PUBLISHED" /\ edition[d].status \in {"PUBLISHED", "SUPERSEDED"}
    /\ edition[c].appliesFrom = edition[d].appliesFrom
    => edition[d].at < edition[c].at

LEMMA InitHolds ==
  ASSUME Init
  PROVE  TypeOK /\ InOrder(lineage) /\ Succession
<1>1. PICK r \in Row, a \in Days :
        /\ edition = [e \in Editions |->
             IF e # Seeded THEN Absent
             ELSE [Absent EXCEPT !.status = "PUBLISHED", !.row = r, !.evidence = TRUE, !.appliesFrom = a, !.at = 1]]
        /\ lineage \in {<<>>, <<Written(Seeded, Always, r, r.approved)>>}
  BY DEF Init
<1>2. a \in 0 .. LastDay /\ a # 0
  BY CalendarAssumption DEF Days
<1>3. publications = 1 /\ notice = [e \in Editions |-> "NONE"]
      /\ inv = [i \in Inventories |-> [status |-> "DRAFT", pin |-> 0]]
  BY DEF Init
<1>4. edition \in [Editions -> EditionRecord]
  <2> DEFINE seeded == [Absent EXCEPT !.status = "PUBLISHED", !.row = r, !.evidence = TRUE, !.appliesFrom = a, !.at = 1]
  <2>1. Absent \in EditionRecord
    BY <1>2, CalendarAssumption DEF EditionRecord, EditionStatus, Absent
  <2>2. seeded \in EditionRecord
    BY <2>1, <1>2 DEF EditionRecord, EditionStatus
  <2> HIDE DEF seeded
  <2>3. edition = [e \in Editions |-> IF e # Seeded THEN Absent ELSE seeded]
    BY <1>1 DEF seeded
  <2> QED BY <2>1, <2>2, <2>3
<1>5. \A e \in Editions :
        edition[e].status \notin {"ABSENT", "DRAFT"} =>
          edition[e].evidence /\ edition[e].appliesFrom # 0 /\ edition[e].at \in 1 .. publications
  BY <1>1, <1>2, <1>3 DEF Absent
<1>6. InOrder(lineage)
  <2>1. CASE lineage = <<>>
    <3>1. lineage \in Seq(Version) /\ DOMAIN lineage = {}
      BY <2>1
    <3> QED BY <3>1 DEF InOrder, Sound, OnFile, OneVersionADay, Apart, OneChain
  <2>2. CASE lineage = <<Written(Seeded, Always, r, r.approved)>>
    <3>1. Always \in Always .. LastDay
      BY CalendarAssumption DEF Always
    <3> QED BY <2>2, <3>1, FirstInOrder, PacksAssumption
  <2> QED BY <1>1, <2>1, <2>2
<1>7. lineage \in Seq(Version) /\ \A v \in DOMAIN lineage : lineage[v].next \in 0 .. Len(lineage)
  BY <1>6 DEF InOrder, Sound, OnFile
<1>8. notice \in [Editions -> NoticeStatus] /\ publications \in Nat
      /\ inv \in [Inventories -> [status : InventoryStatus, pin : 0 .. Len(lineage)]]
  <2>1. 0 \in 0 .. Len(lineage)
    BY <1>7
  <2> QED BY <1>3, <2>1 DEF NoticeStatus, InventoryStatus
<1>9. Succession
  BY <1>1 DEF Succession, Absent
<1> QED BY <1>4, <1>5, <1>6, <1>7, <1>8, <1>9 DEF TypeOK

\* What an import of a published edition leaves is in order.
LEMMA ImportStep ==
  ASSUME TypeOK, InOrder(lineage), NEW e \in Editions, NEW setting \in Settings, ImportPack(e, setting)
  PROVE  InOrder(lineage') /\ Len(lineage) <= Len(lineage') /\ Len(lineage) \in Nat
<1> DEFINE a == edition[e].appliesFrom
           r == edition[e].row
<1>1. edition[e] \in EditionRecord /\ a # 0
  BY DEF TypeOK, ImportPack
<1>2. a \in Days /\ r \in Row \cup {NoRow} /\ lineage \in Seq(Version)
  BY <1>1, CalendarAssumption DEF EditionRecord, Days, TypeOK
<1>3. CASE r = NoRow
  <2>1. lineage' = lineage
    BY <1>3 DEF ImportPack
  <2> QED BY <2>1, <1>2
<1>4. CASE r # NoRow
  <2>1. lineage' = Imported(lineage, e, a, r) /\ OneVersionADay(lineage') /\ r \in Row
    BY <1>2, <1>4 DEF ImportPack
  <2> HIDE DEF a, r
  <2>2. InOrder(lineage')
    BY <2>1, <1>2, ImportedInOrder
  <2> QED BY <2>1, <2>2, <1>2, ImportedGrows
<1> QED BY <1>3, <1>4

\* Whatever an edition, a person or an inventory does, the lineage stays in order.
LEMMA LineageStep ==
  ASSUME TypeOK, InOrder(lineage), [Next]_vars
  PROVE  InOrder(lineage')
<1>1. lineage \in Seq(Version) /\ \A v \in DOMAIN lineage : lineage[v] \in Version
  BY DEF TypeOK
<1>2. ASSUME NEW e \in Editions, NEW setting \in Settings, ImportPack(e, setting)
      PROVE  InOrder(lineage')
  BY <1>2, ImportStep
<1>3. ASSUME NEW v \in DOMAIN lineage, NEW approved \in BOOLEAN, SetFactorApproval(v, approved)
      PROVE  InOrder(lineage')
  <2> DEFINE w == [lineage[v] EXCEPT !.approved = approved]
  <2>1. lineage[v] \in Version
    BY <1>1
  <2>2. /\ w \in Version /\ w.from = lineage[v].from /\ w.to = lineage[v].to
        /\ w.next = lineage[v].next /\ w.edited = lineage[v].edited
    BY <2>1 DEF Version
  <2>3. lineage' = [lineage EXCEPT ![v] = w]
    BY <1>3 DEF SetFactorApproval, ChangeLineage
  <2> HIDE DEF w
  <2>4. SameDates(lineage, lineage')
    BY <1>1, <2>2, <2>3 DEF SameDates
  <2> QED BY <2>4, SameDatesInOrder
<1>4. ASSUME NEW v \in DOMAIN lineage, NEW approved \in BOOLEAN, NEW from \in Always .. LastDay,
             NEW to \in Days \cup {Forever}, NEW value \in Values,
             UpdateEmissionFactor(v, from, to, value, approved)
      PROVE  InOrder(lineage')
  <2> DEFINE w == [lineage[v] EXCEPT !.from = from, !.to = to, !.value = value,
                                     !.approved = approved, !.edited = TRUE]
  <2>1. lineage[v] \in Version /\ to \in Always .. Forever
    BY <1>1, CalendarAssumption DEF Days, Always, Forever
  <2>2. w \in Version /\ w.from = from /\ w.to = to /\ w.edited /\ w.next = lineage[v].next
    BY <2>1 DEF Version
  <2>3. lineage' = [lineage EXCEPT ![v] = w] /\ OneVersionADay(lineage') /\ from <= to
    BY <1>4 DEF UpdateEmissionFactor, ChangeLineage
  <2> HIDE DEF w
  <2> QED BY <2>2, <2>3, EditedInOrder
<1>5. CASE UNCHANGED lineage
  BY <1>5
<1> QED BY <1>2, <1>3, <1>4, <1>5 DEF Next, vars, CreateEdition, AddRow, UpdateRow, DeleteRow, AttachEvidence,
           DeleteEdition, ChangeDraft, Publish, Withdraw, Import, Accept, Decline, Classify, MoveInventory

\* What a tenant does leaves the editions alone.
LEMMA Adopting ==
  /\ \A e, setting : Import(e, setting) \/ Accept(e, setting) \/ Decline(e) =>
       UNCHANGED <<edition, publications>> /\ UNCHANGED edition
  /\ \A v, approved : SetFactorApproval(v, approved) =>
       UNCHANGED <<edition, publications>> /\ UNCHANGED edition
  /\ \A v, from, to, value, approved : UpdateEmissionFactor(v, from, to, value, approved) =>
       UNCHANGED <<edition, publications>> /\ UNCHANGED edition
  /\ \A i, v : Classify(i, v) \/ MoveInventory(i, v) =>
       UNCHANGED <<edition, publications>> /\ UNCHANGED edition
  /\ UNCHANGED vars => UNCHANGED <<edition, publications>> /\ UNCHANGED edition
<1>1. \A e, setting : Import(e, setting) \/ Accept(e, setting) \/ Decline(e) =>
        UNCHANGED <<edition, publications>>
  BY DEF Import, Accept, Decline, ImportPack
<1>2. \A v, approved : SetFactorApproval(v, approved) => UNCHANGED <<edition, publications>>
  BY DEF SetFactorApproval, ChangeLineage
<1>3. \A v, from, to, value, approved : UpdateEmissionFactor(v, from, to, value, approved) =>
        UNCHANGED <<edition, publications>>
  BY DEF UpdateEmissionFactor, ChangeLineage
<1>4. \A i, v : Classify(i, v) \/ MoveInventory(i, v) => UNCHANGED <<edition, publications>>
  BY DEF Classify, MoveInventory
<1> QED BY <1>1, <1>2, <1>3, <1>4 DEF vars

\* What a draft becomes is a draft or nothing, of its type.
LEMMA DraftTypes ==
  ASSUME TypeOK, NEW e \in Editions, NEW draft \in EditionRecord, draft.status \in {"ABSENT", "DRAFT"},
         edition' = [edition EXCEPT ![e] = draft], UNCHANGED publications
  PROVE  /\ edition' \in [Editions -> EditionRecord]
         /\ \A c \in Editions :
              edition'[c].status \notin {"ABSENT", "DRAFT"} =>
                edition'[c].evidence /\ edition'[c].appliesFrom # 0 /\ edition'[c].at \in 1 .. publications'
<1>1. edition' \in [Editions -> EditionRecord]
  BY DEF TypeOK
<1>2. ASSUME NEW c \in Editions, edition'[c].status \notin {"ABSENT", "DRAFT"}
      PROVE  edition'[c].evidence /\ edition'[c].appliesFrom # 0 /\ edition'[c].at \in 1 .. publications'
  BY <1>2 DEF TypeOK
<1> QED BY <1>1, <1>2

\* The editions keep their type, and a published one its day, moment and evidence.
LEMMA EditionTypes ==
  ASSUME TypeOK, [Next]_vars
  PROVE  /\ edition' \in [Editions -> EditionRecord] /\ publications' \in Nat
         /\ \A e \in Editions :
              edition'[e].status \notin {"ABSENT", "DRAFT"} =>
                edition'[e].evidence /\ edition'[e].appliesFrom # 0 /\ edition'[e].at \in 1 .. publications'
<1>0. /\ edition \in [Editions -> EditionRecord] /\ publications \in Nat
      /\ \A e \in Editions :
           edition[e].status \notin {"ABSENT", "DRAFT"} =>
             edition[e].evidence /\ edition[e].appliesFrom # 0 /\ edition[e].at \in 1 .. publications
  BY DEF TypeOK
<1>a. Absent \in EditionRecord /\ Absent.status = "ABSENT"
  BY CalendarAssumption DEF Absent, EditionRecord, EditionStatus
<1>1. ASSUME NEW e \in Editions, NEW p \in Admins, NEW row \in Row \cup {NoRow}, CreateEdition(p, e, row)
      PROVE  \E draft \in EditionRecord : /\ draft.status \in {"ABSENT", "DRAFT"}
                                          /\ edition' = [edition EXCEPT ![e] = draft] /\ UNCHANGED publications
  <2> DEFINE draft == [Absent EXCEPT !.status = "DRAFT", !.row = row, !.curator = p]
  <2>1. draft \in EditionRecord /\ draft.status = "DRAFT"
    BY <1>a DEF EditionRecord, EditionStatus
  <2> QED BY <1>1, <2>1, Zenon DEF CreateEdition
<1>2. ASSUME NEW e \in Editions, NEW draft, ChangeDraft(e, draft), draft \in EditionRecord,
             draft.status \in {"ABSENT", "DRAFT"}
      PROVE  \E d \in EditionRecord : /\ d.status \in {"ABSENT", "DRAFT"}
                                      /\ edition' = [edition EXCEPT ![e] = d] /\ UNCHANGED publications
  BY <1>2 DEF ChangeDraft
<1>3. ASSUME NEW e \in Editions, edition[e].status = "DRAFT", NEW row \in Row \cup {NoRow}
      PROVE  /\ [edition[e] EXCEPT !.row = row] \in EditionRecord
             /\ [edition[e] EXCEPT !.row = row].status = "DRAFT"
             /\ [edition[e] EXCEPT !.evidence = TRUE] \in EditionRecord
             /\ [edition[e] EXCEPT !.evidence = TRUE].status = "DRAFT"
  BY <1>0, <1>3 DEF EditionRecord
<1>4. ASSUME NEW e \in Editions, NEW r \in Row, AddRow(e, r) \/ UpdateRow(e, r)
      PROVE  \E d \in EditionRecord : /\ d.status \in {"ABSENT", "DRAFT"}
                                      /\ edition' = [edition EXCEPT ![e] = d] /\ UNCHANGED publications
  <2> DEFINE draft == [edition[e] EXCEPT !.row = r]
  <2>1. ChangeDraft(e, draft) /\ edition[e].status = "DRAFT"
    BY <1>4 DEF AddRow, UpdateRow, ChangeDraft
  <2>2. draft \in EditionRecord /\ draft.status = "DRAFT"
    BY <1>3, <2>1
  <2> HIDE DEF draft
  <2> QED BY <2>1, <2>2, <1>2
<1>5. ASSUME NEW e \in Editions, DeleteRow(e)
      PROVE  \E d \in EditionRecord : /\ d.status \in {"ABSENT", "DRAFT"}
                                      /\ edition' = [edition EXCEPT ![e] = d] /\ UNCHANGED publications
  <2> DEFINE draft == [edition[e] EXCEPT !.row = NoRow]
  <2>1. ChangeDraft(e, draft) /\ edition[e].status = "DRAFT"
    BY <1>5 DEF DeleteRow, ChangeDraft
  <2>2. draft \in EditionRecord /\ draft.status = "DRAFT"
    BY <1>3, <2>1
  <2> HIDE DEF draft
  <2> QED BY <2>1, <2>2, <1>2
<1>6. ASSUME NEW e \in Editions, AttachEvidence(e)
      PROVE  \E d \in EditionRecord : /\ d.status \in {"ABSENT", "DRAFT"}
                                      /\ edition' = [edition EXCEPT ![e] = d] /\ UNCHANGED publications
  <2> DEFINE draft == [edition[e] EXCEPT !.evidence = TRUE]
  <2>1. ChangeDraft(e, draft) /\ edition[e].status = "DRAFT"
    BY <1>6 DEF AttachEvidence, ChangeDraft
  <2>2. draft \in EditionRecord /\ draft.status = "DRAFT"
    BY <1>3, <2>1
  <2> HIDE DEF draft
  <2> QED BY <2>1, <2>2, <1>2
<1>7. ASSUME NEW e \in Editions, DeleteEdition(e)
      PROVE  \E d \in EditionRecord : /\ d.status \in {"ABSENT", "DRAFT"}
                                      /\ edition' = [edition EXCEPT ![e] = d] /\ UNCHANGED publications
  BY <1>7, <1>a DEF DeleteEdition, ChangeDraft
<1>8. ASSUME NEW e \in Editions, NEW p \in Admins, NEW a \in Days, Publish(p, e, a)
      PROVE  /\ edition' \in [Editions -> EditionRecord] /\ publications' \in Nat
             /\ \A c \in Editions :
                  edition'[c].status \notin {"ABSENT", "DRAFT"} =>
                    edition'[c].evidence /\ edition'[c].appliesFrom # 0 /\ edition'[c].at \in 1 .. publications'
  <2>1. a \in 0 .. LastDay /\ a # 0 /\ publications' = publications + 1 /\ publications' \in Nat
    BY <1>8, <1>0, CalendarAssumption DEF Publish, Days
  <2> DEFINE published == [edition[e] EXCEPT !.status = "PUBLISHED", !.appliesFrom = a, !.at = publications']
  <2>2. /\ published \in EditionRecord /\ published.evidence /\ published.appliesFrom # 0
        /\ published.at \in 1 .. publications'
    <3>1. edition[e] \in EditionRecord /\ edition[e].evidence
      BY <1>0, <1>8 DEF Publish, Ready
    <3>2. PICK n \in Nat : n = publications' /\ 1 <= n
      BY <2>1, <1>0
    <3>3. published = [edition[e] EXCEPT !.status = "PUBLISHED", !.appliesFrom = a, !.at = n]
      BY <3>2
    <3> HIDE DEF published
    <3>4. published \in EditionRecord /\ published.evidence /\ published.appliesFrom = a /\ published.at = n
      BY <3>1, <3>3, <2>1 DEF EditionRecord, EditionStatus
    <3> QED BY <3>2, <3>4, <2>1
  <2>3. /\ edition'[e] = published
        /\ \A c \in Editions : c # e =>
             \/ edition'[c] = edition[c]
             \/ c \in Predecessor(e, a) /\ edition'[c] = [edition[c] EXCEPT !.status = "SUPERSEDED"]
        /\ edition' = [c \in Editions |-> edition'[c]]
    BY <1>8 DEF Publish
  <2> HIDE DEF published
  <2>4. ASSUME NEW c \in Editions
        PROVE  /\ edition'[c] \in EditionRecord
               /\ edition'[c].status \notin {"ABSENT", "DRAFT"} =>
                    edition'[c].evidence /\ edition'[c].appliesFrom # 0 /\ edition'[c].at \in 1 .. publications'
    <3>1. CASE c = e
      BY <3>1, <2>2, <2>3
    <3>2. CASE edition'[c] = edition[c]
      BY <3>2, <2>1, <1>0
    <3>3. CASE c \in Predecessor(e, a) /\ edition'[c] = [edition[c] EXCEPT !.status = "SUPERSEDED"]
      <4>1. edition[c].status \in {"PUBLISHED", "SUPERSEDED"}
        BY <3>3 DEF Predecessor, Standing
      <4>2. edition[c] \in EditionRecord /\ edition[c].evidence /\ edition[c].appliesFrom # 0
            /\ edition[c].at \in 1 .. publications
        BY <4>1, <1>0
      <4> DEFINE w == [edition[c] EXCEPT !.status = "SUPERSEDED"]
      <4>3. w \in EditionRecord /\ w.evidence /\ w.appliesFrom # 0 /\ w.at \in 1 .. publications
        BY <4>2 DEF EditionRecord, EditionStatus
      <4>4. edition'[c] = w
        BY <3>3
      <4> HIDE DEF w
      <4> QED BY <4>3, <4>4, <2>1, <1>0
    <3> QED BY <3>1, <3>2, <3>3, <2>3
  <2> QED BY <2>1, <2>3, <2>4
<1>9. ASSUME NEW e \in Editions, Withdraw(e)
      PROVE  /\ edition' \in [Editions -> EditionRecord] /\ publications' \in Nat
             /\ \A c \in Editions :
                  edition'[c].status \notin {"ABSENT", "DRAFT"} =>
                    edition'[c].evidence /\ edition'[c].appliesFrom # 0 /\ edition'[c].at \in 1 .. publications'
  <2> DEFINE w == [edition[e] EXCEPT !.status = "WITHDRAWN"]
  <2>1. /\ w \in EditionRecord /\ w.evidence /\ w.appliesFrom # 0 /\ w.at \in 1 .. publications
    <3>1. edition[e] \in EditionRecord /\ edition[e].evidence /\ edition[e].appliesFrom # 0
          /\ edition[e].at \in 1 .. publications
      BY <1>0, <1>9 DEF Withdraw
    <3> QED BY <3>1 DEF EditionRecord, EditionStatus
  <2>2. edition' = [edition EXCEPT ![e] = w] /\ publications' = publications
    BY <1>9 DEF Withdraw
  <2> HIDE DEF w
  <2> QED BY <1>0, <2>1, <2>2
<1>10. CASE UNCHANGED <<edition, publications>>
  BY <1>10, <1>0
<1>11. ASSUME NEW e \in Editions, NEW d \in EditionRecord, d.status \in {"ABSENT", "DRAFT"},
              edition' = [edition EXCEPT ![e] = d], UNCHANGED publications
       PROVE  /\ edition' \in [Editions -> EditionRecord] /\ publications' \in Nat
              /\ \A c \in Editions :
                   edition'[c].status \notin {"ABSENT", "DRAFT"} =>
                     edition'[c].evidence /\ edition'[c].appliesFrom # 0 /\ edition'[c].at \in 1 .. publications'
  BY <1>11, <1>0, DraftTypes
<1>12. ASSUME NEW e \in Editions,
              \/ \E p \in Admins, row \in Row \cup {NoRow} : CreateEdition(p, e, row)
              \/ \E r \in Row : AddRow(e, r) \/ UpdateRow(e, r)
              \/ DeleteRow(e)
              \/ AttachEvidence(e)
              \/ DeleteEdition(e)
       PROVE  \E d \in EditionRecord : /\ d.status \in {"ABSENT", "DRAFT"}
                                       /\ edition' = [edition EXCEPT ![e] = d] /\ UNCHANGED publications
  BY <1>12, <1>1, <1>4, <1>5, <1>6, <1>7
<1>13. \/ \E e \in Editions :
             \/ \E p \in Admins, row \in Row \cup {NoRow} : CreateEdition(p, e, row)
             \/ \E r \in Row : AddRow(e, r) \/ UpdateRow(e, r)
             \/ DeleteRow(e)
             \/ AttachEvidence(e)
             \/ DeleteEdition(e)
       \/ \E e \in Editions, p \in Admins, a \in Days : Publish(p, e, a)
       \/ \E e \in Editions : Withdraw(e)
       \/ UNCHANGED <<edition, publications>>
  BY Adopting, Zenon DEF Next, vars
<1> QED BY <1>8, <1>9, <1>10, <1>11, <1>12, <1>13

\* A pin that follows is a version on file.
LEMMA FollowTypes ==
  ASSUME NEW l \in Seq(Version), NEW pin \in 0 .. Len(l), NEW d \in Days
  PROVE  Follow(l, pin, d) \in 0 .. Len(l)
<1>1. VersionInForce(l, d) \in 0 .. Len(l)
  <2>1. d \in Nat
    BY DEF Days
  <2> QED BY <2>1, InForceFacts
<1> QED BY <1>1 DEF Follow

\* The inventories and notices keep their types.
LEMMA OtherTypes ==
  ASSUME TypeOK, InOrder(lineage), [Next]_vars
  PROVE  /\ notice' \in [Editions -> NoticeStatus]
         /\ inv' \in [Inventories -> [status : InventoryStatus, pin : 0 .. Len(lineage')]]
<1>0. /\ notice \in [Editions -> NoticeStatus] /\ lineage \in Seq(Version) /\ Len(lineage) \in Nat
      /\ inv \in [Inventories -> [status : InventoryStatus, pin : 0 .. Len(lineage)]]
  BY DEF TypeOK
<1>1. notice' \in [Editions -> NoticeStatus]
  <2>1. \/ UNCHANGED notice
        \/ \E e \in Editions, status \in NoticeStatus : notice' = [notice EXCEPT ![e] = status]
    <3>1. ASSUME NEW e, \/ \E p, row : CreateEdition(p, e, row)
                        \/ \E r \in Row : AddRow(e, r) \/ UpdateRow(e, r)
                        \/ DeleteRow(e)
                        \/ AttachEvidence(e)
                        \/ DeleteEdition(e)
          PROVE  UNCHANGED notice
      BY <3>1 DEF CreateEdition, AddRow, UpdateRow, DeleteRow, AttachEvidence, DeleteEdition, ChangeDraft
    <3>2. ASSUME NEW e \in Editions, \/ \E p, a : Publish(p, e, a)
                                    \/ Withdraw(e)
                                    \/ Decline(e)
                                    \/ \E setting : Import(e, setting) \/ Accept(e, setting)
          PROVE  UNCHANGED notice \/ \E status \in NoticeStatus : notice' = [notice EXCEPT ![e] = status]
      BY <3>2 DEF Publish, Withdraw, Decline, Import, Accept, NoticeStatus
    <3>3. ASSUME NEW v, \/ \E approved : SetFactorApproval(v, approved)
                        \/ \E from, to, value, approved : UpdateEmissionFactor(v, from, to, value, approved)
          PROVE  UNCHANGED notice
      BY <3>3 DEF SetFactorApproval, UpdateEmissionFactor, ChangeLineage
    <3>4. ASSUME NEW i, NEW v, Classify(i, v) \/ MoveInventory(i, v)
          PROVE  UNCHANGED notice
      BY <3>4 DEF Classify, MoveInventory
    <3>5. UNCHANGED vars => UNCHANGED notice
      BY DEF vars
    <3> QED BY <3>1, <3>2, <3>3, <3>4, <3>5, Zenon DEF Next
  <2> QED BY <1>0, <2>1
<1>2. ASSUME NEW e \in Editions, NEW setting \in Settings, ImportPack(e, setting)
      PROVE  inv' \in [Inventories -> [status : InventoryStatus, pin : 0 .. Len(lineage')]]
  <2>1. lineage' \in Seq(Version) /\ Len(lineage) <= Len(lineage') /\ Len(lineage') \in Nat
    BY <1>2, ImportStep DEF InOrder, Sound, OnFile
  <2>2. ASSUME NEW i \in Inventories
        PROVE  inv[i] \in [status : InventoryStatus, pin : 0 .. Len(lineage')]
    BY <1>0, <2>1
  <2>3. ASSUME NEW i \in Inventories
        PROVE  [inv[i] EXCEPT !.pin = Follow(lineage', inv[i].pin, FollowDay[i])]
                 \in [status : InventoryStatus, pin : 0 .. Len(lineage')]
    <3>1. FollowDay[i] \in Days
      <4>1. PeriodStart[i] \in Days /\ PeriodEnd[i] \in Days /\ FollowDay[i] \in PeriodStart[i] .. PeriodEnd[i]
        BY PacksAssumption
      <4> QED BY <4>1, CalendarAssumption DEF Days
    <3>2. inv[i].pin \in 0 .. Len(lineage')
      BY <2>2
    <3>3. Follow(lineage', inv[i].pin, FollowDay[i]) \in 0 .. Len(lineage')
      BY <2>1, <3>1, <3>2, FollowTypes
    <3> QED BY <2>2, <3>3
  <2>4. inv' = inv \/ \E a : inv' = MoveOpenDrafts(lineage', a)
    BY <1>2 DEF ImportPack
  <2>5. CASE inv' = inv
    BY <1>0, <2>2, <2>5
  <2>6. ASSUME NEW a, inv' = MoveOpenDrafts(lineage', a)
        PROVE  inv' \in [Inventories -> [status : InventoryStatus, pin : 0 .. Len(lineage')]]
    BY <2>2, <2>3, <2>6 DEF MoveOpenDrafts
  <2> QED BY <2>4, <2>5, <2>6
<1>3. ASSUME NEW i \in Inventories, NEW v \in DOMAIN lineage, Classify(i, v)
      PROVE  inv' \in [Inventories -> [status : InventoryStatus, pin : 0 .. Len(lineage')]]
  <2> DEFINE w == [inv[i] EXCEPT !.pin = v]
  <2>1. w \in [status : InventoryStatus, pin : 0 .. Len(lineage)]
    <3>1. inv[i] \in [status : InventoryStatus, pin : 0 .. Len(lineage)] /\ v \in 0 .. Len(lineage)
      BY <1>0
    <3> QED BY <3>1
  <2>2. inv' = [inv EXCEPT ![i] = w] /\ lineage' = lineage
    BY <1>3 DEF Classify
  <2> HIDE DEF w
  <2> QED BY <1>0, <2>1, <2>2
<1>4. ASSUME NEW i \in Inventories, NEW status \in InventoryStatus, MoveInventory(i, status)
      PROVE  inv' \in [Inventories -> [status : InventoryStatus, pin : 0 .. Len(lineage')]]
  <2> DEFINE w == [inv[i] EXCEPT !.status = status]
  <2>1. w \in [status : InventoryStatus, pin : 0 .. Len(lineage)]
    <3>1. inv[i] \in [status : InventoryStatus, pin : 0 .. Len(lineage)]
      BY <1>0
    <3> QED BY <3>1
  <2>2. inv' = [inv EXCEPT ![i] = w] /\ lineage' = lineage
    BY <1>4 DEF MoveInventory
  <2> HIDE DEF w
  <2> QED BY <1>0, <2>1, <2>2
<1>5. ASSUME UNCHANGED inv, Len(lineage') = Len(lineage)
      PROVE  inv' \in [Inventories -> [status : InventoryStatus, pin : 0 .. Len(lineage')]]
  BY <1>0, <1>5
<1>6. ASSUME NEW v \in DOMAIN lineage, NEW w, lineage' = [lineage EXCEPT ![v] = w]
      PROVE  Len(lineage') = Len(lineage)
  BY <1>0, <1>6
<1>7. ASSUME NEW v \in DOMAIN lineage, NEW approved, SetFactorApproval(v, approved)
      PROVE  UNCHANGED inv /\ \E w : lineage' = [lineage EXCEPT ![v] = w]
  BY <1>7, Zenon DEF SetFactorApproval, ChangeLineage
<1>8. ASSUME NEW v \in DOMAIN lineage, NEW from, NEW to, NEW value, NEW approved,
             UpdateEmissionFactor(v, from, to, value, approved)
      PROVE  UNCHANGED inv /\ \E w : lineage' = [lineage EXCEPT ![v] = w]
  BY <1>8, Zenon DEF UpdateEmissionFactor, ChangeLineage
<1>9. \/ \E e \in Editions, setting \in Settings : ImportPack(e, setting)
      \/ \E v \in DOMAIN lineage, approved \in BOOLEAN : SetFactorApproval(v, approved)
      \/ \E v \in DOMAIN lineage, approved \in BOOLEAN, from \in Always .. LastDay, to \in Days \cup {Forever},
            value \in Values : UpdateEmissionFactor(v, from, to, value, approved)
      \/ \E i \in Inventories, v \in DOMAIN lineage : Classify(i, v)
      \/ \E i \in Inventories, status \in InventoryStatus : MoveInventory(i, status)
      \/ UNCHANGED <<lineage, inv>>
  BY DEF Next, vars, CreateEdition, AddRow, UpdateRow, DeleteRow, AttachEvidence, DeleteEdition, ChangeDraft,
         Publish, Withdraw, Import, Accept, Decline
<1>10. inv' \in [Inventories -> [status : InventoryStatus, pin : 0 .. Len(lineage')]]
  BY <1>2, <1>3, <1>4, <1>5, <1>6, <1>7, <1>8, <1>9
<1> QED BY <1>1, <1>10

\* No step makes an edition importable beside another of its day: a publication supersedes the latest of them.
LEMMA SuccessionStep ==
  ASSUME TypeOK, Succession, [Next]_vars
  PROVE  Succession'
<1>0. /\ edition \in [Editions -> EditionRecord] /\ publications \in Nat
      /\ \A e \in Editions : edition[e].at \in Nat /\ edition[e].appliesFrom \in Nat
      /\ \A e \in Editions :
           edition[e].status \in {"PUBLISHED", "SUPERSEDED"} => edition[e].at <= publications
  <2>1. edition \in [Editions -> EditionRecord] /\ publications \in Nat
    BY DEF TypeOK
  <2>2. ASSUME NEW e \in Editions
        PROVE  /\ edition[e].at \in Nat /\ edition[e].appliesFrom \in Nat
               /\ edition[e].status \in {"PUBLISHED", "SUPERSEDED"} => edition[e].at <= publications
    <3>1. edition[e] \in EditionRecord
      BY <2>1
    <3>2. edition[e].at \in Nat /\ edition[e].appliesFrom \in Nat
      BY <3>1, CalendarAssumption DEF EditionRecord
    <3>3. edition[e].status \in {"PUBLISHED", "SUPERSEDED"} => edition[e].at \in 1 .. publications
      BY DEF TypeOK
    <3> QED BY <2>1, <3>2, <3>3
  <2> QED BY <2>1, <2>2
<1>1. ASSUME NEW e \in Editions, NEW p \in Admins, NEW a \in Days, Publish(p, e, a)
      PROVE  Succession'
  <2>1. /\ edition[e].status = "DRAFT" /\ publications' = publications + 1 /\ a \in Nat
        /\ edition'[e].status = "PUBLISHED" /\ edition'[e].appliesFrom = a /\ edition'[e].at = publications'
        /\ \A c \in Editions : c # e =>
             /\ c \in Predecessor(e, a) => edition'[c].status = "SUPERSEDED"
             /\ c \notin Predecessor(e, a) => edition'[c].status = edition[c].status
             /\ edition'[c].appliesFrom = edition[c].appliesFrom /\ edition'[c].at = edition[c].at
    <3>1. edition[e].status = "DRAFT" /\ publications' = publications + 1 /\ a \in Nat
      BY <1>1 DEF Publish, Ready, Days
    <3>2. edition'[e] = [edition[e] EXCEPT !.status = "PUBLISHED", !.appliesFrom = a, !.at = publications']
      BY <1>1 DEF Publish
    <3>3. edition[e] \in EditionRecord
      BY <1>0
    <3>4. /\ edition'[e].status = "PUBLISHED" /\ edition'[e].appliesFrom = a /\ edition'[e].at = publications'
      BY <3>2, <3>3 DEF EditionRecord
    <3>5. ASSUME NEW c \in Editions, c # e
          PROVE  /\ c \in Predecessor(e, a) => edition'[c].status = "SUPERSEDED"
                 /\ c \notin Predecessor(e, a) => edition'[c].status = edition[c].status
                 /\ edition'[c].appliesFrom = edition[c].appliesFrom /\ edition'[c].at = edition[c].at
      <4>1. edition'[c] = IF c \in Predecessor(e, a) THEN [edition[c] EXCEPT !.status = "SUPERSEDED"]
                          ELSE edition[c]
        BY <1>1, <3>5 DEF Publish
      <4>2. edition[c] \in EditionRecord
        BY <1>0
      <4> QED BY <4>1, <4>2 DEF EditionRecord
    <3> QED BY <3>1, <3>4, <3>5
  <2>2. \A c \in Predecessor(e, a) : edition[c].status \in {"PUBLISHED", "SUPERSEDED"}
    BY DEF Predecessor, Standing
  <2>3. ASSUME NEW c \in Editions, NEW d \in Editions, c # d, edition'[c].status = "PUBLISHED",
               edition'[d].status \in {"PUBLISHED", "SUPERSEDED"},
               edition'[c].appliesFrom = edition'[d].appliesFrom
        PROVE  edition'[d].at < edition'[c].at
    <3>1. CASE c = e
      BY <3>1, <2>1, <2>2, <2>3, <1>0
    <3>2. CASE d = e
      <4>1. c # e /\ c \notin Predecessor(e, a) /\ edition[c].status = "PUBLISHED" /\ edition[c].appliesFrom = a
        BY <3>2, <2>1, <2>3
      <4>2. c \in Standing(e, a)
        BY <4>1, <1>0 DEF Standing
      <4>3. ASSUME NEW x \in Standing(e, a) PROVE Outranks(c, x)
        <5>1. /\ x \in Editions /\ edition[x].status \in {"PUBLISHED", "SUPERSEDED"}
              /\ edition[x].appliesFrom <= a
          BY DEF Standing
        <5>2. CASE edition[x].appliesFrom = a /\ x # c
          <6>1. edition[x].at < edition[c].at
            BY <5>1, <5>2, <4>1 DEF Succession
          <6> QED BY <6>1, <5>1, <5>2, <4>1, <1>0 DEF Outranks
        <5>3. CASE edition[x].appliesFrom # a
          BY <5>1, <5>3, <4>1, <1>0, <2>1 DEF Outranks
        <5>4. CASE x = c
          BY <5>4, <1>0 DEF Outranks
        <5> QED BY <5>2, <5>3, <5>4
      <4> QED BY <4>1, <4>2, <4>3 DEF Predecessor
    <3>3. CASE c # e /\ d # e
      <4>1. edition[c].status = "PUBLISHED" /\ edition[d].status \in {"PUBLISHED", "SUPERSEDED"}
        BY <3>3, <2>1, <2>2, <2>3
      <4>2. edition[c].appliesFrom = edition[d].appliesFrom
        BY <3>3, <2>1, <2>3
      <4>3. edition[d].at < edition[c].at
        BY <4>1, <4>2, <2>3 DEF Succession
      <4> QED BY <4>3, <3>3, <2>1
    <3> QED BY <3>1, <3>2, <3>3
  <2> QED BY <2>3 DEF Succession
<1>2. ASSUME \A c \in Editions :
               \/ edition'[c] = edition[c]
               \/ edition'[c].status \in {"ABSENT", "DRAFT", "WITHDRAWN"}
      PROVE  Succession'
  BY <1>2 DEF Succession
<1>3. \/ \E e \in Editions, p \in Admins, a \in Days : Publish(p, e, a)
      \/ \E e \in Editions : \E draft :
           edition' = [edition EXCEPT ![e] = draft] /\ draft.status \in {"ABSENT", "DRAFT", "WITHDRAWN"}
      \/ UNCHANGED edition
  <2>1. ASSUME NEW e \in Editions, NEW p, NEW row, CreateEdition(p, e, row)
        PROVE  \E draft :
                 edition' = [edition EXCEPT ![e] = draft] /\ draft.status \in {"ABSENT", "DRAFT", "WITHDRAWN"}
    <3> DEFINE draft == [Absent EXCEPT !.status = "DRAFT", !.row = row, !.curator = p]
    <3>1. draft.status = "DRAFT"
      BY DEF Absent
    <3> QED BY <2>1, <3>1, Zenon DEF CreateEdition
  <2>2. ASSUME NEW e \in Editions, AttachEvidence(e) \/ DeleteRow(e) \/ \E r \in Row : AddRow(e, r) \/ UpdateRow(e, r)
        PROVE  \E draft :
                 edition' = [edition EXCEPT ![e] = draft] /\ draft.status \in {"ABSENT", "DRAFT", "WITHDRAWN"}
    <3>1. edition[e] \in EditionRecord /\ edition[e].status = "DRAFT"
      BY <2>2, <1>0 DEF AttachEvidence, DeleteRow, AddRow, UpdateRow, ChangeDraft
    <3>2. \A r : [edition[e] EXCEPT !.row = r].status = "DRAFT"
      BY <3>1 DEF EditionRecord
    <3>3. [edition[e] EXCEPT !.evidence = TRUE].status = "DRAFT"
      BY <3>1 DEF EditionRecord
    <3> QED BY <2>2, <3>2, <3>3 DEF AttachEvidence, DeleteRow, AddRow, UpdateRow, ChangeDraft
  <2>3. ASSUME NEW e \in Editions, DeleteEdition(e)
        PROVE  \E draft :
                 edition' = [edition EXCEPT ![e] = draft] /\ draft.status \in {"ABSENT", "DRAFT", "WITHDRAWN"}
    <3>1. Absent.status = "ABSENT"
      BY DEF Absent
    <3> QED BY <2>3, <3>1 DEF DeleteEdition, ChangeDraft
  <2>4. ASSUME NEW e \in Editions, Withdraw(e)
        PROVE  \E draft :
                 edition' = [edition EXCEPT ![e] = draft] /\ draft.status \in {"ABSENT", "DRAFT", "WITHDRAWN"}
    <3> DEFINE draft == [edition[e] EXCEPT !.status = "WITHDRAWN"]
    <3>1. draft.status = "WITHDRAWN"
      BY <1>0 DEF EditionRecord
    <3> QED BY <2>4, <3>1, Zenon DEF Withdraw
  <2>5. \/ \E e \in Editions, p \in Admins, a \in Days : Publish(p, e, a)
        \/ \E e \in Editions : \E p, row : CreateEdition(p, e, row)
        \/ \E e \in Editions :
             AttachEvidence(e) \/ DeleteRow(e) \/ \E r \in Row : AddRow(e, r) \/ UpdateRow(e, r)
        \/ \E e \in Editions : DeleteEdition(e)
        \/ \E e \in Editions : Withdraw(e)
        \/ UNCHANGED edition
    BY Adopting, Zenon DEF Next, vars
  <2> QED BY <2>1, <2>2, <2>3, <2>4, <2>5
<1>4. ASSUME NEW e \in Editions, NEW draft, edition' = [edition EXCEPT ![e] = draft],
             draft.status \in {"ABSENT", "DRAFT", "WITHDRAWN"}
      PROVE  Succession'
  BY <1>0, <1>2, <1>4
<1> QED BY <1>1, <1>2, <1>3, <1>4

-----------------------------------------------------------------------------
(* The theorems. *)

Inv == TypeOK /\ InOrder(lineage) /\ Succession

LEMMA InvStep ==
  ASSUME Inv, [Next]_vars
  PROVE  Inv'
<1>1. TypeOK /\ InOrder(lineage) /\ Succession
  BY DEF Inv
<1>2. InOrder(lineage')
  BY <1>1, LineageStep
<1>3. lineage' \in Seq(Version) /\ \A v \in DOMAIN lineage' : lineage'[v].next \in 0 .. Len(lineage')
  BY <1>2 DEF InOrder, Sound, OnFile
<1>4. TypeOK'
  BY <1>1, <1>3, EditionTypes, OtherTypes DEF TypeOK
<1>5. Succession'
  BY <1>1, SuccessionStep
<1> QED BY <1>2, <1>4, <1>5 DEF Inv

\* In every reachable state the invariant holds.
THEOREM PacksInvariant == Spec => []Inv
<1>1. Init => Inv
  BY InitHolds DEF Inv
<1>2. Inv /\ [Next]_vars => Inv'
  BY InvStep
<1> QED BY <1>1, <1>2, PTL DEF Spec

\* The editions, notices, versions and inventories are of their types, and a published edition has its day, its
\* moment and its evidence, whatever order the authors, the publishers and the organization act in.
THEOREM FactorTypes == Spec => []TypeOK
<1>1. Inv => TypeOK
  BY DEF Inv
<1> QED BY <1>1, PacksInvariant, PTL

\* In whatever order vintages are imported, the versions of a lineage are one chain, and the publisher's stay
\* apart beside the versions an organization edits.
THEOREM LineagesAreOneChain == Spec => []LineageIsOneChain
<1>1. Inv => LineageIsOneChain
  BY DEF Inv, InOrder, LineageIsOneChain
<1> QED BY <1>1, PacksInvariant, PTL

\* Two importable editions never apply from the same day, however publications and withdrawals follow.
THEOREM OneVintageEach == Spec => []OneEditionPerVintage
<1>1. Inv => OneEditionPerVintage
  <2> SUFFICES ASSUME Inv, NEW e \in Editions, NEW c \in Editions, e # c,
                      edition[e].status = "PUBLISHED", edition[c].status = "PUBLISHED",
                      edition[e].appliesFrom = edition[c].appliesFrom
               PROVE  FALSE
    BY DEF OneEditionPerVintage
  <2>1. edition[e].at < edition[c].at /\ edition[c].at < edition[e].at
    BY DEF Inv, Succession
  <2>2. edition[e].at \in Nat /\ edition[c].at \in Nat
    BY DEF Inv, TypeOK, EditionRecord
  <2> QED BY <2>1, <2>2
<1> QED BY <1>1, PacksInvariant, PTL

-----------------------------------------------------------------------------
(* What an import reaches. *)

\* An import that changes the lineage carries the row, was refused by no inventory, and is written by Imported.
ImportChanges(e, setting) ==
  LET a == edition[e].appliesFrom
      r == edition[e].row
  IN  /\ a \in Days /\ r \in Row
      /\ lineage' = Imported(lineage, e, a, r) /\ OneVersionADay(lineage')
      /\ \A i \in Inventories : ~Refuses(i, a, setting)
      /\ inv' = IF lineage # <<>> /\ Len(lineage') > Len(lineage) THEN MoveOpenDrafts(lineage', a) ELSE inv

LEMMA ImportChange ==
  ASSUME TypeOK, NEW e \in Editions, NEW setting, Imports(e, setting), lineage' # lineage
  PROVE  ImportChanges(e, setting)
<1>1. ImportPack(e, setting)
  BY DEF Imports, Import, Accept
<1> DEFINE a == edition[e].appliesFrom
           r == edition[e].row
<1>2. edition[e] \in EditionRecord /\ a # 0
  BY <1>1 DEF TypeOK, ImportPack
<1>3. a \in Days /\ r \in Row \cup {NoRow}
  BY <1>2, CalendarAssumption DEF EditionRecord, Days
<1>4. r # NoRow
  BY <1>1 DEF ImportPack
<1> QED BY <1>1, <1>3, <1>4 DEF ImportPack, ImportChanges

\* An import edits no version.
LEMMA ImportEdits ==
  ASSUME NEW l, InOrder(l), NEW e \in Editions, NEW a \in Days, NEW r \in Row,
         NEW m, m = Imported(l, e, a, r), OneVersionADay(m), Edited(l) = {}
  PROVE  Edited(m) = {}
<1>1. Sound(l) /\ l \in Seq(Version) /\ Outcome(l, m, e, a, r)
  BY ImportedOutcome DEF InOrder, Sound, OnFile
<1>2. CASE l = <<>> /\ m = <<Written(e, a, r, r.approved)>>
  BY <1>2 DEF Edited, Written
<1>3. CASE Repriced(l, m, a, r.value)
  BY <1>1, <1>3 DEF Repriced, SameDates, Edited
<1>4. CASE Inserted(l, m, a, r.value)
  <2>1. \E s : Spliced(l, m, s, a)
    BY <1>4 DEF Inserted
  <2>2. Extends(l, m, a)
    BY <1>1, <2>1, SplicedFacts
  <2> QED BY <2>2 DEF Extends
<1> QED BY <1>1, <1>2, <1>3, <1>4 DEF Outcome

\* An edition that a locked period does not refuse applies from after it, and leaves its factor as it is.
LEMMA LockedPeriodStands ==
  ASSUME TypeOK, InOrder(lineage), NEW e \in Editions, NEW setting \in Settings, NEW i \in Inventories,
         ImportChanges(e, setting), inv[i].pin # 0, inv[i].status \in LockedStatuses(setting),
         PeriodStart[i] <= edition[e].appliesFrom
  PROVE  PeriodStands(i)
<1> DEFINE a == edition[e].appliesFrom
           pin == inv[i].pin
<1>1. PeriodStart[i] \in Days /\ PeriodEnd[i] \in Days /\ a \in Days /\ \A d \in Days : d \in Nat
  BY PacksAssumption DEF Days, ImportChanges
<1>2. PeriodEnd[i] < a
  <2>1. ~Refuses(i, a, setting)
    BY DEF ImportChanges
  <2> QED BY <1>1, <2>1 DEF Refuses
<1>3. inv'[i] = inv[i]
  <2>1. inv[i].status # "DRAFT"
    BY DEF LockedStatuses
  <2> QED BY <2>1 DEF ImportChanges, MoveOpenDrafts
<1>4. pin \in DOMAIN lineage /\ lineage \in Seq(Version)
  <2>1. inv[i].pin \in 0 .. Len(lineage) /\ lineage \in Seq(Version)
    BY DEF TypeOK
  <2> QED BY <2>1
<1>5. /\ lineage[pin].from # a => lineage'[pin].value = lineage[pin].value
      /\ \A d \in Days : d < a => (Covers(lineage', pin, d) <=> Covers(lineage, pin, d))
  BY <1>4, EarlierDaysStand DEF ImportChanges
<1>6. lineage[pin].from <= PeriodEnd[i] => lineage'[pin].value = lineage[pin].value
  BY <1>1, <1>2, <1>4, <1>5, Starts
<1>7. \A d \in PeriodStart[i] .. PeriodEnd[i] : d \in Days /\ d < a
  BY <1>1, <1>2, CalendarAssumption DEF Days
<1> QED BY <1>3, <1>5, <1>6, <1>7 DEF PeriodStands

\* A draft whose factor covered its day follows the lineage to what is in force there.
LEMMA DraftStaysCovered ==
  ASSUME TypeOK, InOrder(lineage), NEW e \in Editions, NEW setting \in Settings, NEW i \in Inventories,
         ImportChanges(e, setting), lineage' # lineage, inv[i].pin # 0, inv[i].status = "DRAFT",
         Edited(lineage) = {}, Covers(lineage, inv[i].pin, FollowDay[i])
  PROVE  StaysCovered(i)
<1> DEFINE a == edition[e].appliesFrom
           r == edition[e].row
           f == FollowDay[i]
           pin == inv[i].pin
<1>1. a \in Days /\ r \in Row /\ lineage' = Imported(lineage, e, a, r) /\ OneVersionADay(lineage')
  BY DEF ImportChanges
<1>2. f \in Days /\ f \in Nat /\ a \in Nat /\ PeriodEnd[i] \in Nat /\ f <= PeriodEnd[i]
  <2>1. PeriodStart[i] \in Days /\ PeriodEnd[i] \in Days /\ f \in PeriodStart[i] .. PeriodEnd[i]
    BY PacksAssumption
  <2> QED BY <1>1, <2>1, CalendarAssumption DEF Days
<1>3. pin \in DOMAIN lineage /\ lineage \in Seq(Version) /\ lineage # <<>>
  <2>1. inv[i].pin \in 0 .. Len(lineage) /\ lineage \in Seq(Version)
    BY DEF TypeOK
  <2> QED BY <2>1
<1>4. pin \in DOMAIN lineage' /\ lineage'[pin].from = lineage[pin].from
      /\ (f < a => Covers(lineage', pin, f))
  BY <1>1, <1>2, <1>3, EarlierDaysStand
<1>5. InOrder(lineage') /\ Edited(lineage') = {} /\ Outcome(lineage, lineage', e, a, r)
  BY <1>1, ImportedInOrder, ImportEdits, ImportedOutcome
<1>6. inv' = IF Len(lineage') > Len(lineage) THEN MoveOpenDrafts(lineage', a) ELSE inv
  BY <1>3 DEF ImportChanges
<1>7. inv \in [Inventories -> [status : InventoryStatus, pin : 0 .. Len(lineage)]]
  BY DEF TypeOK
<1>8. CASE Repriced(lineage, lineage', a, r.value)
  <2>1. SameDates(lineage, lineage')
    BY <1>8 DEF Repriced
  <2>2. Len(lineage') = Len(lineage) /\ lineage'[pin].to = lineage[pin].to
    BY <2>1, <1>3 DEF SameDates
  <2>3. inv' = inv
    BY <1>3, <1>6, <2>2
  <2>4. Covers(lineage', pin, f)
    BY <1>4, <2>2 DEF Covers
  <2> QED BY <2>3, <2>4 DEF StaysCovered
<1>9. CASE Inserted(lineage, lineage', a, r.value)
  <2>1. Len(lineage') = Len(lineage) + 1
    BY <1>9 DEF Inserted, Spliced
  <2>2. inv' = MoveOpenDrafts(lineage', a)
    BY <1>3, <1>6, <2>1
  <2>3. CASE PeriodEnd[i] < a
    <3>1. inv'[i] = inv[i]
      BY <1>1, <1>2, <2>2, <2>3 DEF MoveOpenDrafts
    <3>2. Covers(lineage', pin, f)
      BY <1>2, <1>4, <2>3
    <3> QED BY <3>1, <3>2 DEF StaysCovered
  <2>4. CASE a <= PeriodEnd[i]
    <3> DEFINE k == VersionInForce(lineage', f)
    <3>1. inv'[i].pin = Follow(lineage', pin, f)
      BY <1>7, <2>2, <2>4 DEF MoveOpenDrafts
    <3>2. lineage'[pin].from <= f
      BY <1>4 DEF Covers
    <3>3. k # 0
      <4>1. lineage' \in Seq(Version)
        BY <1>5 DEF InOrder, Sound, OnFile
      <4> QED BY <1>2, <1>4, <1>5, <3>2, <4>1, LastBegun, Starts
    <3>4. Covers(lineage', k, f)
      <4>1. lineage' \in Seq(Version)
        BY <1>5 DEF InOrder, Sound, OnFile
      <4> QED BY <1>2, <3>3, <4>1, InForceFacts
    <3>5. CASE lineage'[k].approved
      <4>1. inv'[i].pin = k
        BY <3>1, <3>3, <3>5 DEF Follow
      <4> QED BY <3>4, <4>1 DEF StaysCovered
    <3>6. CASE ~lineage'[k].approved
      BY <3>6 DEF StaysCovered
    <3> QED BY <3>5, <3>6
  <2> QED BY <1>2, <2>3, <2>4
<1> QED BY <1>3, <1>5, <1>8, <1>9 DEF Outcome

\* Whatever vintages were imported before, in whatever order, an import leaves the versions the organization
\* edited as they are, and where it edited none it prices the days of the edition's own vintage, from its first
\* day up to the next version's start, at the edition's value, and no other day.
THEOREM ImportsStayInTheirVintage == Spec => ImportsReachOnlyTheirVintage
<1> DEFINE Reach == \A e \in Editions : lineage' # lineage /\ Imports(e, "ALLOWED") =>
                      /\ \A v \in Edited(lineage) : lineage'[v] = lineage[v]
                      /\ Edited(lineage) = {} => \A d \in Days :
                           ValueOn(lineage', d) # ValueOn(lineage, d) =>
                             /\ ValueOn(lineage', d) = {edition[e].row.value}
                             /\ edition[e].appliesFrom <= d
                             /\ \A v \in DOMAIN lineage : lineage[v].from \notin edition[e].appliesFrom + 1 .. d
<1>1. ASSUME Inv PROVE Reach
  <2> SUFFICES ASSUME NEW e \in Editions, lineage' # lineage, Imports(e, "ALLOWED")
               PROVE  /\ \A v \in Edited(lineage) : lineage'[v] = lineage[v]
                      /\ Edited(lineage) = {} => \A d \in Days :
                           ValueOn(lineage', d) # ValueOn(lineage, d) =>
                             /\ ValueOn(lineage', d) = {edition[e].row.value}
                             /\ edition[e].appliesFrom <= d
                             /\ \A v \in DOMAIN lineage : lineage[v].from \notin edition[e].appliesFrom + 1 .. d
    OBVIOUS
  <2>1. TypeOK /\ InOrder(lineage)
    BY <1>1 DEF Inv
  <2>2. ImportChanges(e, "ALLOWED")
    BY <2>1, ImportChange
  <2>3. \A v \in Edited(lineage) : lineage'[v] = lineage[v]
    BY <2>1, <2>2, EarlierDaysStand DEF ImportChanges, Edited
  <2>4. ASSUME Edited(lineage) = {}, NEW d \in Days, ValueOn(lineage', d) # ValueOn(lineage, d)
        PROVE  ValueOn(lineage', d) = {edition[e].row.value} /\ Reaches(lineage, edition[e].appliesFrom, d)
    BY <2>1, <2>2, <2>4, ImportPrices DEF ImportChanges
  <2> QED BY <2>3, <2>4 DEF Reaches
<1>2. Inv => [Reach]_vars
  BY <1>1
<1> QED BY <1>2, PacksInvariant, PTL DEF ImportsReachOnlyTheirVintage

\* Whatever vintages are imported, a locked period that an edition applies from the first day of, or after,
\* keeps its factor, its price and the days it covers; and a draft's factor that covered its day still does.
THEOREM PeriodsKeepFactors == Spec => PeriodsKeepTheirFactors
<1> DEFINE Keep == \A e \in Editions, setting \in Settings, i \in Inventories :
                     lineage' # lineage /\ inv[i].pin # 0 /\ Imports(e, setting) =>
                       /\ inv[i].status \in LockedStatuses(setting) /\ PeriodStart[i] <= edition[e].appliesFrom =>
                            PeriodStands(i)
                       /\ inv[i].status = "DRAFT" /\ Edited(lineage) = {}
                            /\ Covers(lineage, inv[i].pin, FollowDay[i]) => StaysCovered(i)
<1>1. ASSUME Inv PROVE Keep
  BY <1>1, ImportChange, LockedPeriodStands, DraftStaysCovered DEF Inv
<1>2. Inv => [Keep]_vars
  BY <1>1
<1> QED BY <1>2, PacksInvariant, PTL DEF PeriodsKeepTheirFactors
=============================================================================
