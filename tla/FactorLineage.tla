---------------------------- MODULE FactorLineage ----------------------------
(***************************************************************************)
(* The versions an organization holds of one publication row, and what the *)
(* import of an edition does to them (spec 02.6).                          *)
(*                                                                         *)
(* Source: FactorPackImportService.java and EmissionFactor.java under      *)
(* ghg/internal, and the unique index of V42.                              *)
(*                                                                         *)
(* A lineage is the sequence of its versions in the order they were        *)
(* written: none is ever deleted, so a version is its index and 0 is none. *)
(* Days are 1 .. LastDay; a version that starts on Always has no start, one *)
(* that ends on Forever no end.                                            *)
(***************************************************************************)
EXTENDS Integers, Sequences

CONSTANTS
  LastDay,
  Values,    \* what a version is priced at, with its name, unit, gases, citation and taxonomy
  Editions

ASSUME CalendarAssumption == LastDay \in Nat \ {0}

Days == 1 .. LastDay
Always == 0
Forever == LastDay + 1

\* An edition's row for the code; approved is FALSE for a template.
Row == [value : Values, approved : BOOLEAN]

\* The date before the first day is the end of a version closed there.
Version ==
  [from : Always .. LastDay, to : Always .. Forever, value : Values, edition : Editions,
   approved : BOOLEAN, edited : BOOLEAN, next : Nat]

-----------------------------------------------------------------------------
(* Looking a version up.  Starts are unique, so each is one version. *)

Latest(l, S) == CHOOSE v \in S : \A w \in S : l[w].from <= l[v].from
Earliest(l, S) == CHOOSE v \in S : \A w \in S : l[v].from <= l[w].from

LiveVersion(l) ==
  LET unreplaced == {v \in DOMAIN l : l[v].next = 0}
  IN  Latest(l, IF unreplaced = {} THEN DOMAIN l ELSE unreplaced)

Covers(l, v, d) == l[v].from <= d /\ d <= l[v].to
Covering(l, d) == {v \in DOMAIN l : Covers(l, v, d)}
VersionInForce(l, d) == IF Covering(l, d) = {} THEN 0 ELSE Latest(l, Covering(l, d))

StartingAfter(l, d) == {v \in DOMAIN l : d < l[v].from}
VersionAfter(l, d) == IF StartingAfter(l, d) = {} THEN 0 ELSE Earliest(l, StartingAfter(l, d))

\* The version an edition applying from d speaks to: the live one, retired or not, unless it starts later.
SubjectOf(l, d) == IF l[LiveVersion(l)].from <= d THEN LiveVersion(l) ELSE VersionInForce(l, d)

-----------------------------------------------------------------------------
(* Writing. *)

\* A faulty variant, used by no definition: the earlier version is left open.
LeftOpen(version, d) == version

\* An earlier end is never extended, and a version never ends before it begins.
ClosedAt(version, d) ==
  IF d < version.from \/ version.to <= d THEN version ELSE [version EXCEPT !.to = d]

Written(e, a, r, approved) ==
  [from |-> a, to |-> Forever, value |-> r.value, edition |-> e, approved |-> approved, edited |-> FALSE, next |-> 0]

\* What is written before another version ends the day before it begins and is superseded by it.
Before(l, n, version) ==
  IF n = 0 THEN version ELSE [ClosedAt(version, l[n].from - 1) EXCEPT !.next = n]

\* Rule 8: behind the earliest version, where the lineage holds none that early.
FillBehind(l, e, a, r) ==
  LET n == VersionAfter(l, a)
  IN  Append(l, Before(l, n, Written(e, a, r, r.approved /\ l[n].approved)))

\* Rule 6: another edition delivered the same values.
Tag(l, s, e) == [l EXCEPT ![s].edition = e]

\* Rule 7 for two editions of one day: the values of that vintage are replaced in place.
CorrectInPlace(l, s, e, r) ==
  [l EXCEPT ![s] = [@ EXCEPT !.value = r.value, !.edition = e, !.approved = l[s].approved /\ r.approved]]

\* A faulty variant, used by no definition: the incumbent is overwritten.
Overwritten(l, s, e, a, r) == CorrectInPlace(l, s, e, r)

\* A faulty variant, used by no definition: the new version runs on over the ones after it.
CutOver(l, s, e, a, r) ==
  Append([l EXCEPT ![s] = [ClosedAt(@, a - 1) EXCEPT !.next = Len(l) + 1]],
         Written(e, a, r, r.approved /\ l[s].approved))

\* Rule 7: the subject ends the day before, and the new version runs to the next one.
CutAVersion(l, s, e, a, r) ==
  Append([l EXCEPT ![s] = [ClosedAt(@, a - 1) EXCEPT !.next = Len(l) + 1]],
         Before(l, VersionAfter(l, a), Written(e, a, r, r.approved /\ l[s].approved)))

\* The lineage after the import of edition e, applying from a, with the row r for the code.
Imported(l, e, a, r) ==
  LET s == SubjectOf(l, a)
  IN  IF l = <<>> THEN <<Written(e, a, r, r.approved)>>
      ELSE IF s = 0 THEN FillBehind(l, e, a, r)
      ELSE IF l[s].edited \/ l[s].edition = e THEN l
      ELSE IF l[s].value = r.value THEN Tag(l, s, e)
      ELSE IF l[s].from = a THEN CorrectInPlace(l, s, e, r)
      ELSE CutAVersion(l, s, e, a, r)

-----------------------------------------------------------------------------
(* What keeps a lineage in order. *)

\* The unique index of V42: an import or an update that would repeat a start fails whole.
OneVersionADay(l) == \A v, w \in DOMAIN l : v # w => l[v].from # l[w].from

Edited(l) == {v \in DOMAIN l : l[v].edited}

\* No day has two of the publisher's versions.
Apart(l) ==
  \A v, w \in DOMAIN l \ Edited(l) : v # w => l[v].to < l[w].from \/ l[w].to < l[v].from

\* Every version runs to the day before the next one, which supersedes it, and the last is open.
OneChain(l) ==
  \A v \in DOMAIN l :
    /\ l[v].next = VersionAfter(l, l[v].from)
    /\ l[v].to = IF l[v].next = 0 THEN Forever ELSE l[l[v].next].from - 1
=============================================================================
