--------------------------- MODULE BaseYearProofs ---------------------------
(***************************************************************************)
(* Proofs about BaseYear, for any facilities, years, boundaries and        *)
(* versions.                                                               *)
(*                                                                         *)
(* Sound is the inductive invariant the others rest on: candidates exist   *)
(* only under a base year, name versions that were cut, and once a year    *)
(* has one, its last version is measured, so that the next freeze is       *)
(* weighed against it.  What a freeze and a sweep do to the candidates is  *)
(* stated once (EvaluateEffect, SweepEffect) and cited by each invariant.  *)
(* The last part is about the claim of BaseYearClaims that TLC finds       *)
(* violated: it says when the code does keep it.                           *)
(***************************************************************************)
EXTENDS BaseYear, TLAPS

-----------------------------------------------------------------------------
(* Structural changes. *)

\* A facility that differs is named once, as removed exactly when it is out.
LEMMA DifferencesAreNamed ==
  ASSUME NEW before \in Boundaries, NEW after \in Boundaries, NEW f \in Facilities, before[f] # after[f]
  PROVE  \E k \in Kinds : /\ <<f, k>> \in StructuralChanges(before, after)
                          /\ k = "removed" <=> after[f] = Out
  <1> DEFINE kind == CASE before[f] = Out -> "added"
                       [] after[f] = Out  -> "removed"
                       [] OTHER           -> "membership window changed"
  <1>1. kind \in Kinds /\ (kind = "removed" <=> after[f] = Out)
    BY DEF Kinds
  <1>2. <<f, kind>> \in StructuralChanges(before, after)
    BY <1>1 DEF StructuralChanges
  <1> QED BY <1>1, <1>2

\* A removal is named of a facility that is out.
LEMMA RemovalsAreOut ==
  ASSUME NEW before, NEW after, NEW f, <<f, "removed">> \in StructuralChanges(before, after)
  PROVE  after[f] = Out
  BY DEF StructuralChanges

\* The changes pair facilities with kinds.
LEMMA ChangesTyped ==
  ASSUME NEW before, NEW after
  PROVE  StructuralChanges(before, after) \subseteq Facilities \X Kinds
  BY DEF StructuralChanges

-----------------------------------------------------------------------------
(* Candidates on file stay on file, whatever becomes of their status. *)

Same(c, d) == d.year = c.year /\ d.version = c.version /\ d.changes = c.changes

\* Every candidate is still there, and one that was decided is.
Carried ==
  \A c \in candidates : \E d \in candidates' : Same(c, d) /\ (c.status \in Decisions => d.status \in Decisions)

\* The candidates a step adds are of year i and version no; the others were there, and as undecided.
NewOnly(i, no) ==
  \A d \in candidates' :
    \/ \E c \in candidates : Same(c, d) /\ (d.status = "FLAGGED" => c = d)
    \/ d.year = i /\ d.version = no

\* Some candidate of year i names what became of f.
NamedBy(S, i, f, boundary) ==
  \E c \in S, k \in Kinds : c.year = i /\ <<f, k>> \in c.changes /\ (k = "removed" <=> boundary[f] = Out)

Sound ==
  /\ TypeOK
  /\ ~designated => candidates = {}
  /\ \A c \in candidates : c.version <= cut[c.year].no /\ Measured(c.year)

-----------------------------------------------------------------------------
(* What a freeze does to the candidates. *)

\* A baseline is a boundary.
LEMMA BaselinesTyped ==
  ASSUME TypeOK, NEW i \in Years, NEW approach, NEW b \in Baselines(i, approach)
  PROVE  b \in Boundaries
  BY BoundaryAssumption DEF TypeOK, Cut, Baselines

\* The candidates a freeze supersedes are undecided ones of its year.
LEMMA UndoneAreFlagged ==
  ASSUME NEW i, NEW f, NEW c \in Undone(i, f)
  PROVE  c \in candidates /\ c.year = i /\ c.status = "FLAGGED"
  BY DEF Undone

\* Superseding changes the status and nothing else.
LEMMA SupersededTyped ==
  ASSUME NEW S \in SUBSET Candidate
  PROVE  /\ Superseded(S) \subseteq Candidate
         /\ \A c \in S : \E d \in Superseded(S) : Same(c, d) /\ d.status = "SUPERSEDED"
         /\ \A d \in Superseded(S) : d.status = "SUPERSEDED" /\ \E c \in S : Same(c, d)
  <1>1. ASSUME NEW c \in S
        PROVE  LET d == [c EXCEPT !.status = "SUPERSEDED"]
               IN  d \in Candidate /\ Same(c, d) /\ d.status = "SUPERSEDED"
    BY <1>1 DEF Candidate, Same
  <1> QED BY <1>1 DEF Superseded

\* A candidate raised is a candidate.
LEMMA FlaggedTyped ==
  ASSUME NEW i \in Years, NEW no \in Nat \ {0}, NEW changes \in SUBSET (Facilities \X Kinds)
  PROVE  Flagged(i, no, changes) \in Candidate
  BY DEF Flagged, Candidate

\* Every facility that emitted and is not as the version b before it is named by the new candidate, or
\* put back, and no removal of it is undecided.
Accounted(i, no, boundary, approach, b) ==
  \A f \in Emitting : b[f] # boundary[f] =>
    \/ \E d \in candidates', k \in Kinds : /\ d.year = i /\ d.version = no /\ <<f, k>> \in d.changes
                                           /\ k = "removed" <=> boundary[f] = Out
    \/ /\ approach = BaseApproach /\ b[f] = Out /\ boundary[f] # Out /\ boundary[f] = BaseBoundary[f]
       /\ \A d \in candidates' :
            d \in candidates /\ d.year = i /\ <<f, "removed">> \in d.changes => d.status # "FLAGGED"

\* A removal the new candidate names is of a facility that is out.
OutWhenRemoved(boundary) ==
  \A d \in candidates', f \in Facilities :
    d \notin candidates /\ d.status = "FLAGGED" /\ <<f, "removed">> \in d.changes => boundary[f] = Out

\* A freeze keeps every candidate and decision, adds one of its own version at most, and accounts for
\* every difference from its baseline.
LEMMA EvaluateEffect ==
  ASSUME TypeOK, NEW i \in Years, NEW no \in Nat \ {0}, NEW boundary \in Boundaries, NEW approach,
         Evaluate(i, no, boundary, approach)
  PROVE  /\ candidates' \subseteq Candidate /\ Carried /\ NewOnly(i, no) /\ OutWhenRemoved(boundary)
         /\ Baselines(i, approach) # {} =>
              \E b \in Baselines(i, approach) : Accounted(i, no, boundary, approach, b)
  <1>1. CASE Baselines(i, approach) = {} /\ UNCHANGED candidates
    BY <1>1 DEF TypeOK, Carried, NewOnly, OutWhenRemoved, Same
  <1>2. ASSUME NEW baseline \in Baselines(i, approach), NEW order \in Orders,
               LET back    == PutBack(boundary, approach, baseline)
                   undone  == UNION {Undone(i, f) : f \in back}
                   changes == StructuralChanges(baseline, boundary) \ (Quiet(i, back, order) \X {"added"})
               IN  candidates' = (candidates \ undone) \cup Superseded(undone)
                                   \cup (IF Weighs(changes) THEN {Flagged(i, no, changes)} ELSE {})
        PROVE  /\ candidates' \subseteq Candidate /\ Carried /\ NewOnly(i, no) /\ OutWhenRemoved(boundary)
               /\ Accounted(i, no, boundary, approach, baseline)
    <2> DEFINE back    == PutBack(boundary, approach, baseline)
               undone  == UNION {Undone(i, f) : f \in back}
               changes == StructuralChanges(baseline, boundary) \ (Quiet(i, back, order) \X {"added"})
               added   == IF Weighs(changes) THEN {Flagged(i, no, changes)} ELSE {}
    <2>1. candidates' = (candidates \ undone) \cup Superseded(undone) \cup added
      BY <1>2
    <2>2. undone \subseteq candidates /\ \A c \in undone : c.year = i /\ c.status = "FLAGGED"
      BY UndoneAreFlagged
    <2>3. candidates \subseteq Candidate
      BY DEF TypeOK
    <2>4. changes \in SUBSET (Facilities \X Kinds)
      BY ChangesTyped
    <2>5. Flagged(i, no, changes) \in Candidate
      BY <2>4, FlaggedTyped
    <2>6. \A d \in added : d = Flagged(i, no, changes)
      OBVIOUS
    <2> HIDE DEF undone, changes, added
    <2>7. /\ Superseded(undone) \subseteq Candidate
          /\ \A c \in undone : \E d \in Superseded(undone) : Same(c, d) /\ d.status = "SUPERSEDED"
          /\ \A d \in Superseded(undone) : d.status = "SUPERSEDED" /\ \E c \in undone : Same(c, d)
      BY <2>2, <2>3, SupersededTyped
    <2>8. candidates' \subseteq Candidate
      BY <2>1, <2>3, <2>5, <2>6, <2>7
    <2>9. Carried
      <3> SUFFICES ASSUME NEW c \in candidates
                   PROVE  \E d \in candidates' : Same(c, d) /\ (c.status \in Decisions => d.status \in Decisions)
        BY DEF Carried
      <3>1. CASE c \in undone
        BY <3>1, <2>1, <2>2, <2>7 DEF Decisions
      <3>2. CASE c \notin undone
        BY <3>2, <2>1 DEF Same
      <3> QED BY <3>1, <3>2
    <2>10. NewOnly(i, no)
      <3> SUFFICES ASSUME NEW d \in candidates'
                   PROVE  \/ \E c \in candidates : Same(c, d) /\ (d.status = "FLAGGED" => c = d)
                          \/ d.year = i /\ d.version = no
        BY DEF NewOnly
      <3>1. CASE d \in candidates
        BY <3>1 DEF Same
      <3>2. CASE d \in Superseded(undone)
        BY <3>2, <2>2, <2>7
      <3>3. CASE d \in added
        BY <3>3, <2>6 DEF Flagged
      <3> QED BY <2>1, <3>1, <3>2, <3>3
    <2>11. OutWhenRemoved(boundary)
      <3> SUFFICES ASSUME NEW d \in candidates', NEW f \in Facilities,
                          d \notin candidates, d.status = "FLAGGED", <<f, "removed">> \in d.changes
                   PROVE  boundary[f] = Out
        BY DEF OutWhenRemoved
      <3>1. d \in added
        BY <2>1, <2>7
      <3>2. d.changes = changes
        BY <3>1, <2>6 DEF Flagged
      <3>3. <<f, "removed">> \in StructuralChanges(baseline, boundary)
        BY <3>2 DEF changes
      <3> QED BY <3>3, RemovalsAreOut
    <2>12. Accounted(i, no, boundary, approach, baseline)
      <3> SUFFICES ASSUME NEW f \in Emitting, baseline[f] # boundary[f]
                   PROVE  \/ \E d \in candidates', k \in Kinds :
                               /\ d.year = i /\ d.version = no /\ <<f, k>> \in d.changes
                               /\ k = "removed" <=> boundary[f] = Out
                          \/ /\ approach = BaseApproach /\ baseline[f] = Out /\ boundary[f] # Out
                             /\ boundary[f] = BaseBoundary[f]
                             /\ \A d \in candidates' :
                                  d \in candidates /\ d.year = i /\ <<f, "removed">> \in d.changes
                                    => d.status # "FLAGGED"
        BY DEF Accounted
      <3>1. f \in Facilities /\ baseline \in Boundaries
        BY FacilityAssumption, BaselinesTyped
      <3>2. PICK k \in Kinds : /\ <<f, k>> \in StructuralChanges(baseline, boundary)
                               /\ k = "removed" <=> boundary[f] = Out
        BY <3>1, DifferencesAreNamed
      <3>3. CASE f \in back
        <4>1. /\ approach = BaseApproach /\ baseline[f] = Out /\ boundary[f] # Out
              /\ boundary[f] = BaseBoundary[f]
          BY <3>3 DEF PutBack
        <4>2. ASSUME NEW d \in candidates', d \in candidates, d.year = i, <<f, "removed">> \in d.changes,
                     d.status = "FLAGGED"
              PROVE  FALSE
          <5>1. d \in Undone(i, f)
            BY <3>1, <4>2 DEF Undone, NamesRemoval
          <5>2. d \in undone
            BY <5>1, <3>3 DEF undone
          <5>3. d \in Superseded(undone) \/ d \in added
            BY <5>2, <2>1
          <5>4. d \in added
            BY <5>3, <2>7, <4>2
          <5>5. <<f, "removed">> \in StructuralChanges(baseline, boundary)
            BY <5>4, <2>6, <4>2 DEF Flagged, changes
          <5> QED BY <5>5, <4>1, RemovalsAreOut
        <4> QED BY <4>1, <4>2
      <3>4. CASE f \notin back
        <4>1. <<f, k>> \notin Quiet(i, back, order) \X {"added"}
          BY <3>4 DEF Quiet
        <4>2. <<f, k>> \in changes
          BY <4>1, <3>2 DEF changes
        <4>3. Weighs(changes)
          BY <4>2 DEF Weighs
        <4>4. Flagged(i, no, changes) \in candidates'
          BY <4>3, <2>1 DEF added
        <4> QED BY <4>2, <4>4, <3>2 DEF Flagged
      <3> QED BY <3>3, <3>4
    <2> QED BY <2>8, <2>9, <2>10, <2>11, <2>12
  <1>3. CASE \E baseline \in Baselines(i, approach), order \in Orders :
               LET back    == PutBack(boundary, approach, baseline)
                   undone  == UNION {Undone(i, f) : f \in back}
                   changes == StructuralChanges(baseline, boundary) \ (Quiet(i, back, order) \X {"added"})
               IN  candidates' = (candidates \ undone) \cup Superseded(undone)
                                   \cup (IF Weighs(changes) THEN {Flagged(i, no, changes)} ELSE {})
    BY <1>2, <1>3
  <1> QED BY <1>1, <1>3 DEF Evaluate

\* What a sweep adds: the differences of the years that are weighed and have no candidate of their version.
LEMMA SweepEffect ==
  ASSUME TypeOK, \A i \in Years : cut[i].status = "FROZEN" => cut[i].no > 0, Sweep
  PROVE  /\ candidates \subseteq candidates' /\ candidates' \subseteq Candidate
         /\ \A d \in candidates' \ candidates :
              d.year \in Swept /\ d = Flagged(d.year, cut[d.year].no,
                                            StructuralChanges(BaseBoundary, cut[d.year].boundary))
         /\ \A i \in Swept : Flagged(i, cut[i].no, StructuralChanges(BaseBoundary, cut[i].boundary)) \in candidates'
  <1>1. ASSUME NEW i \in Swept
        PROVE  Flagged(i, cut[i].no, StructuralChanges(BaseBoundary, cut[i].boundary)) \in Candidate
    <2>1. i \in Years /\ cut[i].status = "FROZEN"
      BY YearAssumption DEF Swept
    <2>2. cut[i].no \in Nat \ {0}
      BY <2>1 DEF TypeOK, Cut
    <2> QED BY <2>1, <2>2, ChangesTyped, FlaggedTyped
  <1>2. candidates \subseteq Candidate
    BY DEF TypeOK
  <1>3. \A d \in candidates' \ candidates :
          \E i \in Swept : d = Flagged(i, cut[i].no, StructuralChanges(BaseBoundary, cut[i].boundary))
    BY DEF Sweep
  <1>4. \A d \in candidates' \ candidates :
          d.year \in Swept /\ d = Flagged(d.year, cut[d.year].no,
                                        StructuralChanges(BaseBoundary, cut[d.year].boundary))
    BY <1>3 DEF Flagged
  <1> QED BY <1>1, <1>2, <1>3, <1>4 DEF Sweep

-----------------------------------------------------------------------------
(* The inductive invariant. *)

\* A version on file has a number, and Sound.
Kept == Sound /\ \A i \in Years : cut[i].status = "FROZEN" => cut[i].no > 0

\* It holds before anything is cut or named.
LEMMA InitKept == Init => Kept
  <1> SUFFICES ASSUME Init PROVE Kept
    OBVIOUS
  <1>1. [f \in Facilities |-> Out] \in Boundaries
    BY DEF Boundaries
  <1> QED BY <1>1 DEF Init, Kept, Sound, TypeOK, Cut

\* A year stays measured when its last version stays and no candidate is taken away.
LEMMA MeasuredStays ==
  ASSUME NEW i, Measured(i), cut'[i].no = cut[i].no, cut'[i].measured = cut[i].measured,
         \A x \in candidates : \E y \in candidates' : Same(x, y)
  PROVE  Measured(i)'
  <1>1. CASE cut[i].measured
    BY <1>1 DEF Measured
  <1>2. CASE \E x \in candidates : x.year = i /\ x.version = cut[i].no
    BY <1>2 DEF Measured, Same
  <1> QED BY <1>1, <1>2 DEF Measured

\* The steps, one action each: types, the emptiness before a designation, and measured last versions.
LEMMA KeptStep == Kept /\ [Next]_vars => Kept'
  <1> SUFFICES ASSUME Kept, [Next]_vars PROVE Kept'
    OBVIOUS
  <1> USE DEF Kept, Sound
  <1>1. ASSUME Designate PROVE Kept'
    <2>1. candidates = {} /\ Sweep /\ UNCHANGED voided /\ designated'
      BY <1>1 DEF Designate
    <2>2. cut' \in [Years -> Cut] /\ \A i \in Years : /\ cut'[i].no = cut[i].no
                                                      /\ cut'[i].status = cut[i].status
      BY <1>1 DEF Designate, TypeOK, Cut
    <2>3. TypeOK'
      BY <2>1, <2>2, SweepEffect DEF TypeOK
    <2>4. \A c \in candidates' : c.version = cut'[c.year].no
      BY <2>1, <2>2, SweepEffect, YearAssumption DEF Swept, Flagged
    <2>5. \A c \in candidates' : c.year \in Years /\ c.version \in Nat
      BY <2>3 DEF TypeOK, Candidate
    <2> QED BY <2>1, <2>2, <2>3, <2>4, <2>5 DEF Measured
  <1>2. ASSUME SavePolicy PROVE Kept'
    <2>1. Sweep /\ designated' /\ UNCHANGED <<voided, cut>>
      BY <1>2 DEF SavePolicy
    <2>2. TypeOK'
      BY <2>1, SweepEffect DEF TypeOK
    <2>3. \A c \in candidates' \ candidates : c.version = cut[c.year].no
      BY <2>1, SweepEffect DEF Flagged
    <2>4. \A c \in candidates' : c.year \in Years /\ c.version \in Nat
      BY <2>2 DEF TypeOK, Candidate
    <2>5. candidates \subseteq candidates'
      BY <2>1, SweepEffect
    <2> QED BY <2>1, <2>2, <2>3, <2>4, <2>5 DEF Measured
  <1>3. ASSUME Clear PROVE Kept'
    BY <1>3 DEF Clear, TypeOK
  <1>4. ASSUME NEW i \in Years, NEW d \in Drafts[i], Freeze(i, d.boundary, d.approach) PROVE Kept'
    <2>1. d.boundary \in Boundaries
      BY YearAssumption
    <2>2. cut[i] \in Cut /\ cut[i].no \in Nat /\ cut[i].no + 1 \in Nat \ {0}
      BY DEF TypeOK, Cut
    <2>3. /\ cut' = [cut EXCEPT ![i] = [status |-> "FROZEN", no |-> cut[i].no + 1, boundary |-> d.boundary,
                                       approach |-> d.approach, measured |-> designated]]
          /\ UNCHANGED <<designated, voided>>
      BY <1>4 DEF Freeze
    <2>4. cut' \in [Years -> Cut]
      BY <2>1, <2>2, <2>3 DEF TypeOK, Cut
    <2>5. CASE designated
      <3>1. Evaluate(i, cut[i].no + 1, d.boundary, d.approach)
        BY <1>4, <2>5 DEF Freeze
      <3>2. candidates' \subseteq Candidate /\ NewOnly(i, cut[i].no + 1)
        BY <2>1, <2>2, <3>1, EvaluateEffect
      <3>3. TypeOK'
        BY <2>3, <2>4, <3>2 DEF TypeOK
      <3>4. ASSUME NEW c \in candidates' PROVE c.version <= cut'[c.year].no /\ Measured(c.year)'
        <4>0. c \in Candidate
          BY <3>2
        <4>1. c.year \in Years /\ c.version \in Nat
          BY <4>0 DEF Candidate
        <4>2. CASE c.year = i
          <5>1. cut'[i].no = cut[i].no + 1 /\ cut'[i].measured
            BY <2>3, <2>5 DEF TypeOK
          <5>2. c.version <= cut[i].no \/ c.version = cut[i].no + 1
            BY <3>2, <4>2 DEF NewOnly, Same
          <5> QED BY <2>2, <4>1, <4>2, <5>1, <5>2 DEF Measured
        <4>3. CASE c.year # i
          <5>1. PICK e \in candidates : Same(e, c)
            BY <3>2, <4>3 DEF NewOnly
          <5>2. cut'[c.year] = cut[c.year]
            BY <2>3, <4>1, <4>3 DEF TypeOK
          <5>3. c.version <= cut[c.year].no /\ Measured(c.year)
            BY <5>1 DEF Same
          <5>4. \A x \in candidates : \E y \in candidates' : Same(x, y)
            BY <2>1, <2>2, <3>1, EvaluateEffect DEF Carried
          <5>5. Measured(c.year)'
            BY <5>2, <5>3, <5>4, MeasuredStays
          <5> QED BY <5>2, <5>3, <5>5
        <4> QED BY <4>2, <4>3
      <3>5. \A j \in Years : cut'[j].status = "FROZEN" => cut'[j].no > 0
        BY <2>2, <2>3 DEF TypeOK
      <3> QED BY <2>3, <2>5, <3>3, <3>4, <3>5
    <2>6. CASE ~designated
      <3>1. candidates = {} /\ candidates' = {}
        BY <1>4, <2>6 DEF Freeze
      <3>2. \A j \in Years : cut'[j].status = "FROZEN" => cut'[j].no > 0
        BY <2>2, <2>3 DEF TypeOK
      <3>3. TypeOK'
        BY <2>3, <2>4, <3>1 DEF TypeOK
      <3> QED BY <3>1, <3>2, <3>3 DEF Measured
    <2> QED BY <2>5, <2>6
  <1>5. ASSUME NEW i \in Years, Reopen(i) PROVE Kept'
    <2>1. cut' \in [Years -> Cut]
      BY <1>5 DEF Reopen, TypeOK, Cut
    <2>2. \A j \in Years : /\ cut'[j].no = cut[j].no /\ cut'[j].measured = cut[j].measured
                           /\ cut'[j].status = "FROZEN" => cut[j].status = "FROZEN"
      BY <1>5 DEF Reopen, TypeOK, Cut
    <2>3. UNCHANGED <<designated, candidates, voided>>
      BY <1>5 DEF Reopen
    <2>4. \A c \in candidates : c.year \in Years
      BY DEF TypeOK, Candidate
    <2>5. TypeOK'
      BY <2>1, <2>3 DEF TypeOK
    <2>6. ASSUME NEW c \in candidates' PROVE c.version <= cut'[c.year].no /\ Measured(c.year)'
      <3>1. \A x \in candidates : \E y \in candidates' : Same(x, y)
        BY <2>3 DEF Same
      <3>2. c \in candidates /\ c.year \in Years
        BY <2>3, <2>4
      <3>3. c.version <= cut[c.year].no /\ Measured(c.year)
        BY <3>2
      <3>4. cut'[c.year].no = cut[c.year].no /\ cut'[c.year].measured = cut[c.year].measured
        BY <2>2, <3>2
      <3>5. Measured(c.year)'
        BY <3>1, <3>3, <3>4, MeasuredStays
      <3> QED BY <3>3, <3>4, <3>5
    <2> QED BY <2>2, <2>3, <2>5, <2>6
  <1>6. ASSUME NEW c \in candidates, NEW e \in Decisions, NEW r \in BaseRuns \cup {NoRun}, Decide(c, e, r)
        PROVE  Kept'
    <2> DEFINE d == [c EXCEPT !.status = e, !.run = r]
    <2>1. candidates' = (candidates \ {c}) \cup {d} /\ UNCHANGED <<designated, cut, voided>>
      BY <1>6 DEF Decide
    <2>2. c \in Candidate
      BY DEF TypeOK
    <2>3. d \in Candidate /\ Same(c, d)
      BY <2>2 DEF Candidate, Same
    <2> HIDE DEF d
    <2>4. TypeOK'
      BY <2>1, <2>3 DEF TypeOK
    <2>5. \A x \in candidates' : \E y \in candidates : Same(y, x)
      BY <2>1, <2>3 DEF Same
    <2>6. \A x \in candidates : \E y \in candidates' : Same(x, y)
      BY <2>1, <2>3 DEF Same
    <2>7. ASSUME NEW x \in candidates' PROVE x.version <= cut'[x.year].no /\ Measured(x.year)'
      <3>1. PICK y \in candidates : Same(y, x)
        BY <2>5
      <3>2. x.version <= cut[x.year].no /\ Measured(x.year)
        BY <3>1 DEF Same
      <3> QED BY <2>1, <2>6, <3>2, MeasuredStays
    <2> QED BY <2>1, <2>4, <2>7
  <1>7. ASSUME NEW r \in BaseRuns, VoidBaseRun(r) PROVE Kept'
    BY <1>7 DEF VoidBaseRun, TypeOK, Measured
  <1>8. CASE UNCHANGED vars
    BY <1>8 DEF vars, TypeOK, Measured
  <1> QED BY <1>1, <1>2, <1>3, <1>4, <1>5, <1>6, <1>7, <1>8 DEF Next

\* The inductive invariant holds throughout.
THEOREM KeptAlways == Spec => []Kept
  BY InitKept, KeptStep, PTL DEF Spec

\* Every candidate, cut version and voided run has its type.
THEOREM BaseYearTypeCorrect == Spec => []TypeOK
  <1>1. Kept => TypeOK
    BY DEF Kept, Sound
  <1> QED BY <1>1, KeptAlways, PTL

-----------------------------------------------------------------------------
(* The decisions. *)

\* A freeze, a new policy or another decision leaves every decided candidate decided.
LEMMA DecisionsStep ==
  ASSUME Kept, [Next]_vars, designated'
  PROVE  \A c \in candidates : c.status \in Decisions =>
           \E d \in candidates' : d.year = c.year /\ d.version = c.version /\ d.changes = c.changes
                                    /\ d.status \in Decisions
  <1>1. ASSUME candidates \subseteq candidates' PROVE Carried
    BY <1>1 DEF Carried, Same
  <1>2. CASE Designate \/ SavePolicy
    BY <1>1, <1>2 DEF Designate, SavePolicy, Sweep, Carried, Same
  <1>3. CASE Clear
    BY <1>3 DEF Clear
  <1>4. ASSUME NEW i \in Years, NEW d \in Drafts[i], Freeze(i, d.boundary, d.approach) PROVE Carried
    <2>1. d.boundary \in Boundaries /\ cut[i].no + 1 \in Nat \ {0}
      BY YearAssumption DEF Kept, Sound, TypeOK, Cut
    <2>2. CASE designated
      BY <1>4, <2>1, <2>2, EvaluateEffect DEF Freeze, Kept, Sound
    <2>3. CASE ~designated
      BY <1>1, <1>4, <2>3 DEF Freeze
    <2> QED BY <2>2, <2>3
  <1>5. ASSUME NEW c \in candidates, NEW e \in Decisions, NEW r \in BaseRuns \cup {NoRun}, Decide(c, e, r)
        PROVE  Carried
    <2> DEFINE d == [c EXCEPT !.status = e, !.run = r]
    <2>1. c \in Candidate
      BY DEF Kept, Sound, TypeOK
    <2>2. Same(c, d) /\ d.status \in Decisions
      BY <2>1 DEF Candidate, Same
    <2>3. candidates' = (candidates \ {c}) \cup {d}
      BY <1>5 DEF Decide
    <2> HIDE DEF d
    <2> QED BY <2>2, <2>3 DEF Carried, Same
  <1>6. CASE UNCHANGED candidates
    BY <1>1, <1>6
  <1> QED
    BY <1>2, <1>3, <1>4, <1>5, <1>6 DEF Next, Reopen, VoidBaseRun, vars, Carried, Same

\* No decision is taken back while the base year stands.
THEOREM DecisionsAreKept == Spec => DecisionsStand
  <1>1. Kept /\ [Next]_vars =>
          [designated' => \A c \in candidates :
             c.status \in Decisions =>
               \E d \in candidates' : d.year = c.year /\ d.version = c.version /\ d.changes = c.changes
                                        /\ d.status \in Decisions]_vars
    BY DecisionsStep
  <1> QED BY <1>1, KeptAlways, PTL DEF Spec, DecisionsStand

-----------------------------------------------------------------------------
(* Removals. *)

\* While a removal is undecided, the facility is out or a later candidate names what became of it.
RemovalsAreFollowed ==
  \A c \in candidates, f \in Emitting : c.status = "FLAGGED" /\ <<f, "removed">> \in c.changes =>
    \/ cut[c.year].boundary[f] = Out
    \/ \E d \in candidates, k \in Kinds : d.year = c.year /\ d.version > c.version /\ <<f, k>> \in d.changes

\* A step that moves no boundary and takes no candidate away keeps that.
LEMMA FollowedStay ==
  ASSUME Kept, RemovalsAreFollowed,
         \A c \in candidates : \E d \in candidates' : Same(c, d),
         \A i \in Years : cut'[i].boundary = cut[i].boundary,
         \A d \in candidates' : d.status = "FLAGGED" =>
           \/ d \in candidates
           \/ \A f \in Emitting : <<f, "removed">> \in d.changes => cut'[d.year].boundary[f] = Out
  PROVE  RemovalsAreFollowed'
  <1> SUFFICES ASSUME NEW c \in candidates', NEW f \in Emitting, c.status = "FLAGGED",
                      <<f, "removed">> \in c.changes, cut'[c.year].boundary[f] # Out
               PROVE  \E d \in candidates', k \in Kinds :
                        d.year = c.year /\ d.version > c.version /\ <<f, k>> \in d.changes
    BY DEF RemovalsAreFollowed
  <1>1. c \in candidates
    OBVIOUS
  <1>2. c.year \in Years
    BY <1>1 DEF Kept, Sound, TypeOK, Candidate
  <1>3. PICK d \in candidates, k \in Kinds : d.year = c.year /\ d.version > c.version /\ <<f, k>> \in d.changes
    BY <1>1, <1>2 DEF RemovalsAreFollowed
  <1> QED BY <1>3 DEF Same

\* The freeze is the step that moves a boundary: a removal whose facility it puts back is superseded, and
\* any other way back is a change of the new version.
LEMMA FollowedThroughFreeze ==
  ASSUME Kept, RemovalsAreFollowed, NEW i \in Years, NEW b \in Drafts[i], Freeze(i, b.boundary, b.approach)
  PROVE  RemovalsAreFollowed'
  <1>1. b.boundary \in Boundaries /\ cut[i].no \in Nat /\ cut[i].no + 1 \in Nat \ {0}
    BY YearAssumption DEF Kept, Sound, TypeOK, Cut
  <1>2. /\ cut'[i].boundary = b.boundary
        /\ \A j \in Years : j # i => cut'[j] = cut[j]
    BY DEF Freeze, Kept, Sound, TypeOK
  <1>3. CASE ~designated
    BY <1>3 DEF Kept, Sound, Freeze, RemovalsAreFollowed
  <1>4. CASE designated
    <2>1. Evaluate(i, cut[i].no + 1, b.boundary, b.approach)
      BY <1>4 DEF Freeze
    <2>2. TypeOK
      BY DEF Kept, Sound
    <2>3. /\ candidates' \subseteq Candidate /\ Carried /\ NewOnly(i, cut[i].no + 1)
          /\ OutWhenRemoved(b.boundary)
          /\ Baselines(i, b.approach) # {} =>
               \E base \in Baselines(i, b.approach) : Accounted(i, cut[i].no + 1, b.boundary, b.approach, base)
      BY <1>1, <2>1, <2>2, EvaluateEffect
    <2> SUFFICES ASSUME NEW c \in candidates', NEW f \in Emitting, c.status = "FLAGGED",
                        <<f, "removed">> \in c.changes, cut'[c.year].boundary[f] # Out
                 PROVE  \E d \in candidates', k \in Kinds :
                          d.year = c.year /\ d.version > c.version /\ <<f, k>> \in d.changes
      BY DEF RemovalsAreFollowed
    <2>4. f \in Facilities /\ c.year \in Years
      BY <2>3, FacilityAssumption DEF Candidate
    <2>5. CASE c \notin candidates
      <3>1. c.year = i
        BY <2>3, <2>5 DEF NewOnly
      <3> QED BY <3>1, <1>2, <2>3, <2>4, <2>5 DEF OutWhenRemoved
    <2>6. ASSUME c \in candidates, cut[c.year].boundary[f] # Out
          PROVE  \E d \in candidates', k \in Kinds :
                   d.year = c.year /\ d.version > c.version /\ <<f, k>> \in d.changes
      <3>1. PICK d \in candidates, k \in Kinds :
              d.year = c.year /\ d.version > c.version /\ <<f, k>> \in d.changes
        BY <2>6 DEF RemovalsAreFollowed
      <3> QED BY <3>1, <2>3 DEF Carried, Same
    <2>7. CASE c \in candidates /\ cut[c.year].boundary[f] = Out
      <3>1. c.year = i
        BY <1>2, <2>4, <2>7
      <3>2. c.version <= cut[i].no /\ Measured(i) /\ c.version \in Nat \ {0}
        BY <2>7, <3>1 DEF Kept, Sound, TypeOK, Candidate
      <3>3. Baselines(i, b.approach) = {cut[i].boundary}
        BY <3>2, <1>1 DEF Baselines
      <3>4. Accounted(i, cut[i].no + 1, b.boundary, b.approach, cut[i].boundary)
        BY <2>3, <3>3
      <3>5. cut[i].boundary[f] # b.boundary[f]
        BY <1>2, <2>7, <3>1
      <3>6. PICK d \in candidates', k \in Kinds :
              d.year = i /\ d.version = cut[i].no + 1 /\ <<f, k>> \in d.changes
        <4> DEFINE Named == \E d \in candidates', k \in Kinds :
                              /\ d.year = i /\ d.version = cut[i].no + 1 /\ <<f, k>> \in d.changes
                              /\ k = "removed" <=> b.boundary[f] = Out
                   Quietly == \A d \in candidates' :
                                d \in candidates /\ d.year = i /\ <<f, "removed">> \in d.changes
                                  => d.status # "FLAGGED"
        <4>1. Named \/ Quietly
          BY <3>4, <3>5 DEF Accounted
        <4>2. ~Quietly
          BY <2>7, <3>1
        <4> QED BY <4>1, <4>2
      <3> QED BY <1>1, <3>1, <3>2, <3>6
    <2> QED BY <2>5, <2>6, <2>7
  <1> QED BY <1>3, <1>4

\* Freezes and sweeps follow every undecided removal; the other steps move no boundary.
LEMMA FollowedStep == Kept /\ RemovalsAreFollowed /\ [Next]_vars => RemovalsAreFollowed'
  <1> SUFFICES ASSUME Kept, RemovalsAreFollowed, [Next]_vars PROVE RemovalsAreFollowed'
    OBVIOUS
  <1>1. CASE Designate \/ SavePolicy
    <2>1. Sweep /\ \A i \in Years : cut'[i].boundary = cut[i].boundary
      BY <1>1 DEF Designate, SavePolicy, Kept, Sound, TypeOK, Cut
    <2>2. /\ candidates \subseteq candidates'
          /\ \A d \in candidates' \ candidates :
               d.year \in Swept /\ d.changes = StructuralChanges(BaseBoundary, cut[d.year].boundary)
      BY <2>1, SweepEffect DEF Kept, Sound, Flagged
    <2>3. \A c \in candidates : \E d \in candidates' : Same(c, d)
      BY <2>2 DEF Same
    <2>4. ASSUME NEW d \in candidates', d \notin candidates, NEW f \in Emitting, <<f, "removed">> \in d.changes
          PROVE  cut'[d.year].boundary[f] = Out
      <3>1. d.year \in Years
        BY <2>2, <2>4, YearAssumption DEF Swept
      <3>2. <<f, "removed">> \in StructuralChanges(BaseBoundary, cut[d.year].boundary)
        BY <2>2, <2>4
      <3> QED BY <2>1, <3>1, <3>2, RemovalsAreOut
    <2> QED BY <2>1, <2>3, <2>4, FollowedStay
  <1>2. CASE Clear
    BY <1>2 DEF Clear, RemovalsAreFollowed
  <1>3. ASSUME NEW i \in Years, NEW d \in Drafts[i], Freeze(i, d.boundary, d.approach)
        PROVE  RemovalsAreFollowed'
    BY <1>3, FollowedThroughFreeze
  <1>4. ASSUME NEW i \in Years, Reopen(i) PROVE RemovalsAreFollowed'
    <2>1. \A j \in Years : cut'[j].boundary = cut[j].boundary
      BY <1>4 DEF Reopen, Kept, Sound, TypeOK, Cut
    <2>2. candidates' = candidates
      BY <1>4 DEF Reopen
    <2>3. \A c \in candidates : \E d \in candidates' : Same(c, d)
      BY <2>2 DEF Same
    <2> QED BY <2>1, <2>2, <2>3, FollowedStay
  <1>5. ASSUME NEW c \in candidates, NEW e \in Decisions, NEW r \in BaseRuns \cup {NoRun}, Decide(c, e, r)
        PROVE  RemovalsAreFollowed'
    <2> DEFINE d == [c EXCEPT !.status = e, !.run = r]
    <2>1. candidates' = (candidates \ {c}) \cup {d} /\ cut' = cut
      BY <1>5 DEF Decide
    <2>2. Same(c, d) /\ d.status # "FLAGGED"
      BY DEF Kept, Sound, TypeOK, Candidate, Same, Decisions
    <2> HIDE DEF d
    <2>3. \A x \in candidates : \E y \in candidates' : Same(x, y)
      BY <2>1, <2>2 DEF Same
    <2> QED BY <2>1, <2>2, <2>3, FollowedStay
  <1>6. CASE UNCHANGED <<candidates, cut>>
    BY <1>6 DEF RemovalsAreFollowed
  <1> QED BY <1>1, <1>2, <1>3, <1>4, <1>5, <1>6 DEF Next, VoidBaseRun, vars

\* No undecided removal of a facility that emitted is held once it is undone as the base year holds it.
THEOREM UndoneRemovalsAreReleased == Spec => []UndecidedRemovalsStand
  <1>1. Init => RemovalsAreFollowed
    BY DEF Init, RemovalsAreFollowed
  <1>2. RemovalsAreFollowed => UndecidedRemovalsStand
    BY DEF RemovalsAreFollowed, UndecidedRemovalsStand
  <1> QED BY <1>1, <1>2, FollowedStep, KeptAlways, PTL DEF Spec

-----------------------------------------------------------------------------
(* Differences. *)

\* Each year keeps one approach.
OneApproach == \A i \in Years : \A d, e \in Drafts[i] : d.approach = e.approach

\* A year whose last version was weighed, at its freeze or by the sweep.
Compared(i) == designated /\ cut[i].no > 0 /\ (Measured(i) \/ (i \in Later /\ cut[i].status = "FROZEN"))

\* Every difference of such a year from the base year is named, and the versions are of the year's drafts.
DifferencesAreSeen ==
  /\ \A i \in Years : cut[i].no > 0 => \E d \in Drafts[i] : cut[i].approach = d.approach
  /\ \A i \in Years, f \in Emitting :
       Compared(i) /\ cut[i].approach = BaseApproach /\ cut[i].boundary[f] # BaseBoundary[f]
         => NamedBy(candidates, i, f, cut[i].boundary)

\* A step that cuts no version and takes no candidate away keeps that.
LEMMA SeenStay ==
  ASSUME DifferencesAreSeen,
         \A c \in candidates : \E d \in candidates' : Same(c, d),
         \A i \in Years : /\ cut'[i].no = cut[i].no /\ cut'[i].boundary = cut[i].boundary
                          /\ cut'[i].approach = cut[i].approach,
         \A i \in Years, f \in Emitting :
           Compared(i)' /\ cut[i].approach = BaseApproach /\ cut[i].boundary[f] # BaseBoundary[f]
             => Compared(i) \/ NamedBy(candidates', i, f, cut[i].boundary)
  PROVE  DifferencesAreSeen'
  <1>1. ASSUME NEW i \in Years, NEW f \in Emitting, NamedBy(candidates, i, f, cut[i].boundary)
        PROVE  NamedBy(candidates', i, f, cut[i].boundary)
    BY <1>1 DEF NamedBy, Same
  <1>2. ASSUME NEW i \in Years, NEW f \in Emitting,
               Compared(i)', cut'[i].approach = BaseApproach, cut'[i].boundary[f] # BaseBoundary[f]
        PROVE  NamedBy(candidates', i, f, cut'[i].boundary)
    BY <1>1, <1>2 DEF DifferencesAreSeen
  <1>3. \A i \in Years : cut'[i].no > 0 => \E d \in Drafts[i] : cut'[i].approach = d.approach
    BY DEF DifferencesAreSeen
  <1> QED BY <1>2, <1>3 DEF DifferencesAreSeen

\* A swept year has a candidate that names its differences from the base year.
LEMMA SweptAreNamed ==
  ASSUME Kept, Sweep, NEW i \in Swept, NEW f \in Emitting, cut[i].boundary[f] # BaseBoundary[f]
  PROVE  NamedBy(candidates', i, f, cut[i].boundary)
  <1>1. i \in Years /\ f \in Facilities /\ cut[i].boundary \in Boundaries
    BY YearAssumption, FacilityAssumption DEF Kept, Sound, TypeOK, Cut, Swept
  <1>2. PICK k \in Kinds : /\ <<f, k>> \in StructuralChanges(BaseBoundary, cut[i].boundary)
                           /\ k = "removed" <=> cut[i].boundary[f] = Out
    BY <1>1, DifferencesAreNamed, BoundaryAssumption
  <1>3. Flagged(i, cut[i].no, StructuralChanges(BaseBoundary, cut[i].boundary)) \in candidates'
    BY SweepEffect DEF Kept, Sound
  <1> QED BY <1>2, <1>3 DEF NamedBy, Flagged

\* A frozen later year that is not swept has no difference, or was measured.
LEMMA UnsweptAreEqual ==
  ASSUME Kept, NEW i \in Later, cut[i].status = "FROZEN", cut[i].approach = BaseApproach, i \notin Swept,
         NEW f \in Emitting, cut[i].boundary[f] # BaseBoundary[f]
  PROVE  \E c \in candidates : c.year = i /\ c.version = cut[i].no
  <1>1. i \in Years /\ f \in Facilities /\ cut[i].boundary \in Boundaries
    BY YearAssumption, FacilityAssumption DEF Kept, Sound, TypeOK, Cut
  <1>2. PICK k \in Kinds : <<f, k>> \in StructuralChanges(BaseBoundary, cut[i].boundary)
    BY <1>1, DifferencesAreNamed, BoundaryAssumption
  <1>3. Weighs(StructuralChanges(BaseBoundary, cut[i].boundary))
    BY <1>2 DEF Weighs
  <1> QED BY <1>3 DEF Swept

\* A freeze names what differs from its baseline; what does not differ from it was named before, under the
\* same approach.
LEMMA SeenThroughFreeze ==
  ASSUME OneApproach, Kept, DifferencesAreSeen,
         NEW i \in Years, NEW b \in Drafts[i], Freeze(i, b.boundary, b.approach)
  PROVE  DifferencesAreSeen'
  <1>1. b.boundary \in Boundaries /\ cut[i].no \in Nat /\ cut[i].no + 1 \in Nat \ {0}
    BY YearAssumption DEF Kept, Sound, TypeOK, Cut
  <1>2. /\ cut'[i].boundary = b.boundary /\ cut'[i].approach = b.approach
        /\ \A j \in Years : j # i => cut'[j] = cut[j]
        /\ designated' = designated
    BY DEF Freeze, Kept, Sound, TypeOK
  <1>3. \A j \in Years : cut'[j].no > 0 => \E d \in Drafts[j] : cut'[j].approach = d.approach
    BY <1>2 DEF DifferencesAreSeen
  <1>4. CASE ~designated
    BY <1>2, <1>3, <1>4 DEF DifferencesAreSeen, Compared
  <1>5. CASE designated
    <2>1. /\ candidates' \subseteq Candidate /\ Carried /\ NewOnly(i, cut[i].no + 1)
          /\ Baselines(i, b.approach) # {} =>
               \E base \in Baselines(i, b.approach) : Accounted(i, cut[i].no + 1, b.boundary, b.approach, base)
      BY <1>1, <1>5, EvaluateEffect DEF Freeze, Kept, Sound
    <2>2. ASSUME NEW j \in Years, NEW f \in Emitting, NamedBy(candidates, j, f, cut[j].boundary)
          PROVE  NamedBy(candidates', j, f, cut[j].boundary)
      BY <2>1, <2>2 DEF NamedBy, Carried, Same
    <2>3. ASSUME NEW j \in Years, j # i, NEW f \in Emitting,
                 Compared(j)', cut'[j].approach = BaseApproach, cut'[j].boundary[f] # BaseBoundary[f]
          PROVE  NamedBy(candidates', j, f, cut'[j].boundary)
      <3>1. cut'[j] = cut[j]
        BY <1>2, <2>3
      <3>2. \A y \in candidates' : y.year = j => \E x \in candidates : Same(x, y)
        BY <2>1, <2>3 DEF NewOnly
      <3>3. Measured(j)' => Measured(j)
        BY <3>1, <3>2 DEF Measured, Same
      <3>4. Compared(j)
        BY <1>5, <2>3, <3>1, <3>3 DEF Compared
      <3> QED BY <2>2, <2>3, <3>1, <3>4 DEF DifferencesAreSeen
    <2>4. ASSUME NEW f \in Emitting, b.approach = BaseApproach, b.boundary[f] # BaseBoundary[f]
          PROVE  NamedBy(candidates', i, f, b.boundary)
      <3>1. ASSUME NEW base, base[f] # b.boundary[f],
                   Accounted(i, cut[i].no + 1, b.boundary, b.approach, base)
            PROVE  NamedBy(candidates', i, f, b.boundary)
        <4>1. \E d \in candidates', k \in Kinds : /\ d.year = i /\ <<f, k>> \in d.changes
                                                  /\ k = "removed" <=> b.boundary[f] = Out
          BY <2>4, <3>1 DEF Accounted
        <4> QED BY <4>1 DEF NamedBy
      <3>2. CASE cut[i].no > 0 /\ Measured(i)
        <4>1. Accounted(i, cut[i].no + 1, b.boundary, b.approach, cut[i].boundary)
          BY <2>1, <3>2 DEF Baselines
        <4>2. CASE cut[i].boundary[f] # b.boundary[f]
          BY <3>1, <4>1, <4>2
        <4>3. CASE cut[i].boundary[f] = b.boundary[f]
          <5>1. cut[i].approach = BaseApproach
            BY <2>4, <3>2 DEF OneApproach, DifferencesAreSeen
          <5>2. NamedBy(candidates, i, f, cut[i].boundary)
            BY <1>5, <2>4, <3>2, <4>3, <5>1 DEF DifferencesAreSeen, Compared
          <5>3. NamedBy(candidates', i, f, cut[i].boundary)
            BY <2>2, <5>2
          <5> QED BY <4>3, <5>3 DEF NamedBy
        <4> QED BY <4>2, <4>3
      <3>3. CASE ~(cut[i].no > 0 /\ Measured(i))
        <4>1. Accounted(i, cut[i].no + 1, b.boundary, b.approach, BaseBoundary)
          BY <2>1, <2>4, <3>3 DEF Baselines
        <4> QED BY <2>4, <3>1, <4>1
      <3> QED BY <3>2, <3>3
    <2>5. ASSUME NEW j \in Years, NEW f \in Emitting,
                 Compared(j)', cut'[j].approach = BaseApproach, cut'[j].boundary[f] # BaseBoundary[f]
          PROVE  NamedBy(candidates', j, f, cut'[j].boundary)
      BY <1>2, <2>3, <2>4, <2>5
    <2> QED BY <1>3, <2>5 DEF DifferencesAreSeen
  <1> QED BY <1>4, <1>5

\* The steps: a sweep names what it measures, a freeze what it cuts, and nothing else measures a year.
LEMMA SeenStep == OneApproach /\ Kept /\ DifferencesAreSeen /\ [Next]_vars => DifferencesAreSeen'
  <1> SUFFICES ASSUME OneApproach, Kept, DifferencesAreSeen, [Next]_vars PROVE DifferencesAreSeen'
    OBVIOUS
  <1>1. CASE Designate \/ SavePolicy
    <2>1. /\ Sweep
          /\ \A i \in Years : /\ cut'[i].no = cut[i].no /\ cut'[i].boundary = cut[i].boundary
                              /\ cut'[i].approach = cut[i].approach /\ cut'[i].status = cut[i].status
                              /\ cut'[i].measured => cut[i].measured
          /\ ~designated => candidates = {} /\ \A i \in Years : ~cut'[i].measured
      BY <1>1 DEF Designate, SavePolicy, Kept, Sound, TypeOK, Cut
    <2>2. /\ candidates \subseteq candidates'
          /\ \A d \in candidates' \ candidates : d.year \in Swept
      BY <2>1, SweepEffect DEF Kept, Sound
    <2>3. \A c \in candidates : \E d \in candidates' : Same(c, d)
      BY <2>2 DEF Same
    <2>4. ASSUME NEW i \in Years, NEW f \in Emitting,
                 Compared(i)', cut[i].approach = BaseApproach, cut[i].boundary[f] # BaseBoundary[f]
          PROVE  Compared(i) \/ NamedBy(candidates', i, f, cut[i].boundary)
      <3>1. CASE i \in Swept
        BY <2>1, <2>4, <3>1, SweptAreNamed
      <3>2. CASE i \notin Swept
        <4>1. \A d \in candidates' : d.year = i => d \in candidates
          BY <2>2, <3>2
        <4>2. cut[i].no > 0 /\ (Measured(i)' \/ (i \in Later /\ cut[i].status = "FROZEN"))
          BY <2>1, <2>4 DEF Compared
        <4>3. Measured(i)' => Measured(i) /\ designated
          BY <2>1, <4>1 DEF Measured
        <4>4. CASE Measured(i)'
          BY <4>2, <4>3, <4>4 DEF Compared
        <4>5. CASE i \in Later /\ cut[i].status = "FROZEN"
          <5>1. \E c \in candidates : c.year = i /\ c.version = cut[i].no
            BY <2>4, <3>2, <4>5, UnsweptAreEqual
          <5> QED BY <2>1, <4>2, <4>5, <5>1 DEF Compared
        <4> QED BY <4>2, <4>4, <4>5
      <3> QED BY <3>1, <3>2
    <2> QED BY <2>1, <2>3, <2>4, SeenStay
  <1>2. CASE Clear
    BY <1>2 DEF Clear, DifferencesAreSeen, Compared
  <1>3. ASSUME NEW i \in Years, NEW d \in Drafts[i], Freeze(i, d.boundary, d.approach)
        PROVE  DifferencesAreSeen'
    BY <1>3, SeenThroughFreeze
  <1>4. ASSUME NEW i \in Years, Reopen(i) PROVE DifferencesAreSeen'
    <2>1. /\ \A j \in Years : /\ cut'[j].no = cut[j].no /\ cut'[j].boundary = cut[j].boundary
                              /\ cut'[j].approach = cut[j].approach /\ cut'[j].measured = cut[j].measured
          /\ \A j \in Years : cut'[j].status = "FROZEN" => cut[j].status = "FROZEN"
          /\ candidates' = candidates /\ designated' = designated
      BY <1>4 DEF Reopen, Kept, Sound, TypeOK, Cut
    <2>2. \A j \in Years : Compared(j)' => Compared(j)
      BY <2>1 DEF Compared, Measured
    <2>3. \A c \in candidates : \E d \in candidates' : Same(c, d)
      BY <2>1 DEF Same
    <2>4. \A j \in Years, f \in Emitting :
            Compared(j)' /\ cut[j].approach = BaseApproach /\ cut[j].boundary[f] # BaseBoundary[f]
              => Compared(j) \/ NamedBy(candidates', j, f, cut[j].boundary)
      BY <2>2
    <2>5. \A j \in Years : /\ cut'[j].no = cut[j].no /\ cut'[j].boundary = cut[j].boundary
                           /\ cut'[j].approach = cut[j].approach
      BY <2>1
    <2> QED BY <2>3, <2>4, <2>5, SeenStay
  <1>5. ASSUME NEW c \in candidates, NEW e \in Decisions, NEW r \in BaseRuns \cup {NoRun}, Decide(c, e, r)
        PROVE  DifferencesAreSeen'
    <2> DEFINE d == [c EXCEPT !.status = e, !.run = r]
    <2>1. candidates' = (candidates \ {c}) \cup {d} /\ cut' = cut /\ designated' = designated
      BY <1>5 DEF Decide
    <2>2. Same(c, d)
      BY DEF Kept, Sound, TypeOK, Candidate, Same
    <2> HIDE DEF d
    <2>3. \A x \in candidates : \E y \in candidates' : Same(x, y)
      BY <2>1, <2>2 DEF Same
    <2>4. \A y \in candidates' : \E x \in candidates : Same(x, y)
      BY <2>1, <2>2 DEF Same
    <2>5. \A j \in Years : Compared(j)' => Compared(j)
      BY <2>1, <2>4 DEF Compared, Measured, Same
    <2>6. \A j \in Years, f \in Emitting :
            Compared(j)' /\ cut[j].approach = BaseApproach /\ cut[j].boundary[f] # BaseBoundary[f]
              => Compared(j) \/ NamedBy(candidates', j, f, cut[j].boundary)
      BY <2>5
    <2>7. \A j \in Years : /\ cut'[j].no = cut[j].no /\ cut'[j].boundary = cut[j].boundary
                           /\ cut'[j].approach = cut[j].approach
      BY <2>1
    <2> QED BY <2>3, <2>6, <2>7, SeenStay
  <1>6. CASE UNCHANGED <<designated, candidates, cut>>
    <2>1. designated' = designated /\ candidates' = candidates /\ cut' = cut
      BY <1>6
    <2>2. \A j \in Years : Compared(j)' => Compared(j)
      BY <2>1 DEF Compared, Measured
    <2>3. \A j \in Years, f \in Emitting :
            Compared(j)' /\ cut[j].approach = BaseApproach /\ cut[j].boundary[f] # BaseBoundary[f]
              => Compared(j) \/ NamedBy(candidates', j, f, cut[j].boundary)
      BY <2>2
    <2>4. \A x \in candidates : \E y \in candidates' : Same(x, y)
      BY <2>1 DEF Same
    <2> QED BY <2>1, <2>3, <2>4, SeenStay
  <1> QED BY <1>1, <1>2, <1>3, <1>4, <1>5, <1>6 DEF Next, VoidBaseRun, vars

\* Where each year keeps one approach, no structural change of a facility that emitted goes unseen.
THEOREM NoChangeGoesUnseen ==
  ASSUME OneApproach
  PROVE  Spec => []NoDifferenceGoesUnseen
  <1>1. Init => DifferencesAreSeen
    BY DEF Init, DifferencesAreSeen, Compared
  <1>2. DifferencesAreSeen /\ Kept => NoDifferenceGoesUnseen
    <2> SUFFICES ASSUME DifferencesAreSeen, Kept, NEW i \in Years, NEW f \in Emitting,
                        Weighed(i), cut[i].boundary[f] # BaseBoundary[f]
                 PROVE  \E c \in candidates, k \in Kinds :
                          /\ c.year = i /\ <<f, k>> \in c.changes
                          /\ k = "removed" <=> cut[i].boundary[f] = Out
      BY DEF NoDifferenceGoesUnseen
    <2>1. Compared(i) /\ cut[i].approach = BaseApproach
      BY DEF Weighed, Compared, Measured, Kept
    <2>2. NamedBy(candidates, i, f, cut[i].boundary)
      BY <2>1 DEF DifferencesAreSeen
    <2> QED BY <2>2 DEF NamedBy
  <1>3. DifferencesAreSeen /\ Kept /\ [Next]_vars => DifferencesAreSeen'
    BY SeenStep
  <1> QED BY <1>1, <1>2, <1>3, KeptAlways, PTL DEF Spec

-----------------------------------------------------------------------------
(* Removals. *)

\* What nothing ensures: a candidate names one removal, and no facility's name ends another's.
OneRemovalEach ==
  \A c \in candidates, f, g \in Facilities :
    <<f, "removed">> \in c.changes /\ <<g, "removed">> \in c.changes => f = g

NamesApart == \A f, g \in Facilities : <<f, g>> \in Suffix => f = g

\* The removal of f counts: some candidate of the year names it and was not superseded.
Counts(S, i, f) == \E c \in S : c.year = i /\ <<f, "removed">> \in c.changes /\ c.status # "SUPERSEDED"

\* The facilities of the base year that a compared year leaves out have a removal that counts.
RemovalsCount ==
  \A i \in Years, f \in Emitting :
    /\ Compared(i) /\ cut[i].approach = BaseApproach
    /\ cut[i].boundary[f] = Out /\ BaseBoundary[f] # Out
    => Counts(candidates, i, f)

\* A freeze supersedes the removal of no facility it leaves out, and no removal of another year.
LEMMA FreezeSpares ==
  ASSUME Kept, OneRemovalEach, NamesApart, NEW i \in Years, NEW no, NEW boundary, NEW approach,
         Evaluate(i, no, boundary, approach),
         NEW c \in candidates, NEW f \in Emitting, <<f, "removed">> \in c.changes,
         c.year # i \/ boundary[f] = Out
  PROVE  c \in candidates'
  <1>1. f \in Facilities
    BY FacilityAssumption
  <1>2. ASSUME NEW g \in Facilities, boundary[g] # Out PROVE c \notin Undone(i, g)
    <2>1. CASE c.year # i
      BY <2>1 DEF Undone
    <2>2. CASE boundary[f] = Out
      BY <1>1, <1>2, <2>2 DEF Undone, NamesRemoval, NamesApart, OneRemovalEach
    <2> QED BY <2>1, <2>2
  <1>3. ASSUME NEW baseline, NEW g \in PutBack(boundary, approach, baseline) PROVE c \notin Undone(i, g)
    BY <1>2, <1>3 DEF PutBack
  <1>4. ASSUME NEW baseline, NEW S, candidates' = (candidates \ UNION {Undone(i, g) : g \in PutBack(boundary, approach, baseline)}) \cup S
        PROVE  c \in candidates'
    <2>1. c \notin UNION {Undone(i, g) : g \in PutBack(boundary, approach, baseline)}
      BY <1>3
    <2> QED BY <1>4, <2>1
  <1>5. CASE UNCHANGED candidates
    BY <1>5
  <1>6. ASSUME NEW baseline \in Baselines(i, approach), NEW order \in Orders,
               LET back    == PutBack(boundary, approach, baseline)
                   undone  == UNION {Undone(i, h) : h \in back}
                   changes == StructuralChanges(baseline, boundary) \ (Quiet(i, back, order) \X {"added"})
               IN  candidates' = (candidates \ undone) \cup Superseded(undone)
                                   \cup (IF Weighs(changes) THEN {Flagged(i, no, changes)} ELSE {})
        PROVE  c \in candidates'
    <2> DEFINE back    == PutBack(boundary, approach, baseline)
               undone  == UNION {Undone(i, h) : h \in back}
               changes == StructuralChanges(baseline, boundary) \ (Quiet(i, back, order) \X {"added"})
               S       == Superseded(undone) \cup (IF Weighs(changes) THEN {Flagged(i, no, changes)} ELSE {})
    <2>1. candidates' = (candidates \ undone) \cup S
      BY <1>6
    <2> HIDE DEF S
    <2> QED BY <1>4, <2>1
  <1> QED BY <1>5, <1>6 DEF Evaluate

\* A candidate a freeze adds is undecided: those it supersedes are of earlier versions.
LEMMA FreezeFlags ==
  ASSUME Kept, NEW i \in Years, NEW boundary, NEW approach, Evaluate(i, cut[i].no + 1, boundary, approach),
         NEW d \in candidates', d.year = i, d.version = cut[i].no + 1
  PROVE  d.status = "FLAGGED"
  <1>1. \A c \in candidates : c.year = i => c.version # cut[i].no + 1
    BY DEF Kept, Sound, TypeOK, Cut, Candidate
  <1>2. ASSUME NEW S \in SUBSET candidates, NEW e \in Superseded(S) PROVE \E c \in S : Same(c, e)
    <2>1. candidates \subseteq Candidate
      BY DEF Kept, Sound, TypeOK
    <2>2. S \in SUBSET Candidate
      BY <2>1
    <2> QED BY <2>2, SupersededTyped
  <1>3. ASSUME NEW S \in SUBSET candidates, d \in Superseded(S) PROVE FALSE
    BY <1>1, <1>2, <1>3 DEF Same
  <1>4. d \notin candidates
    BY <1>1
  <1>5. ASSUME NEW baseline \in Baselines(i, approach), NEW order \in Orders,
               LET back    == PutBack(boundary, approach, baseline)
                   undone  == UNION {Undone(i, h) : h \in back}
                   changes == StructuralChanges(baseline, boundary) \ (Quiet(i, back, order) \X {"added"})
               IN  candidates' = (candidates \ undone) \cup Superseded(undone)
                                   \cup (IF Weighs(changes) THEN {Flagged(i, cut[i].no + 1, changes)} ELSE {})
        PROVE  d.status = "FLAGGED"
    <2> DEFINE back    == PutBack(boundary, approach, baseline)
               undone  == UNION {Undone(i, h) : h \in back}
               changes == StructuralChanges(baseline, boundary) \ (Quiet(i, back, order) \X {"added"})
    <2>1. undone \in SUBSET candidates
      BY UndoneAreFlagged
    <2>2. d \in candidates \/ d \in Superseded(undone) \/ d = Flagged(i, cut[i].no + 1, changes)
      BY <1>5
    <2> HIDE DEF undone, changes
    <2> QED BY <1>3, <1>4, <2>1, <2>2 DEF Flagged
  <1> QED BY <1>4, <1>5 DEF Evaluate

\* A step that cuts no version and takes no candidate that counts away keeps the removals counted.
LEMMA CountedStay ==
  ASSUME RemovalsCount,
         \A c \in candidates : c.status # "SUPERSEDED" =>
           \E d \in candidates' : Same(c, d) /\ d.status # "SUPERSEDED",
         \A i \in Years : cut'[i].boundary = cut[i].boundary /\ cut'[i].approach = cut[i].approach,
         \A i \in Years, f \in Emitting :
           /\ Compared(i)' /\ cut[i].approach = BaseApproach
           /\ cut[i].boundary[f] = Out /\ BaseBoundary[f] # Out
           => Compared(i) \/ Counts(candidates', i, f)
  PROVE  RemovalsCount'
  <1>1. ASSUME NEW i \in Years, NEW f \in Emitting, Counts(candidates, i, f) PROVE Counts(candidates', i, f)
    BY <1>1 DEF Counts, Same
  <1>2. ASSUME NEW i \in Years, NEW f \in Emitting, Compared(i)', cut'[i].approach = BaseApproach,
               cut'[i].boundary[f] = Out, BaseBoundary[f] # Out
        PROVE  Counts(candidates', i, f)
    BY <1>1, <1>2 DEF RemovalsCount
  <1> QED BY <1>2 DEF RemovalsCount

\* A facility that was in and is left out gets a candidate; one that was out keeps the one it had.
LEMMA CountedThroughFreeze ==
  ASSUME OneApproach, NamesApart, Kept, OneRemovalEach, DifferencesAreSeen, RemovalsCount,
         NEW i \in Years, NEW b \in Drafts[i], Freeze(i, b.boundary, b.approach)
  PROVE  RemovalsCount'
  <1>1. b.boundary \in Boundaries /\ cut[i].no \in Nat /\ cut[i].no + 1 \in Nat \ {0}
    BY YearAssumption DEF Kept, Sound, TypeOK, Cut
  <1>2. /\ cut'[i].boundary = b.boundary /\ cut'[i].approach = b.approach
        /\ \A j \in Years : j # i => cut'[j] = cut[j]
        /\ designated' = designated
    BY DEF Freeze, Kept, Sound, TypeOK
  <1>3. CASE ~designated
    BY <1>2, <1>3 DEF RemovalsCount, Compared
  <1>4. CASE designated
    <2>1. Evaluate(i, cut[i].no + 1, b.boundary, b.approach)
      BY <1>4 DEF Freeze
    <2>2. /\ candidates' \subseteq Candidate /\ NewOnly(i, cut[i].no + 1)
          /\ Baselines(i, b.approach) # {} =>
               \E base \in Baselines(i, b.approach) : Accounted(i, cut[i].no + 1, b.boundary, b.approach, base)
      BY <1>1, <2>1, EvaluateEffect DEF Kept, Sound
    <2>3. ASSUME NEW j \in Years, NEW f \in Emitting, Counts(candidates, j, f), j # i \/ b.boundary[f] = Out
          PROVE  Counts(candidates', j, f)
      <3>1. PICK c \in candidates : c.year = j /\ <<f, "removed">> \in c.changes /\ c.status # "SUPERSEDED"
        BY <2>3 DEF Counts
      <3>2. c \in candidates'
        BY <2>1, <2>3, <3>1, FreezeSpares
      <3> QED BY <3>1, <3>2 DEF Counts
    <2>4. ASSUME NEW j \in Years, j # i, NEW f \in Emitting, Compared(j)', cut'[j].approach = BaseApproach,
                 cut'[j].boundary[f] = Out, BaseBoundary[f] # Out
          PROVE  Counts(candidates', j, f)
      <3>1. cut'[j] = cut[j]
        BY <1>2, <2>4
      <3>2. \A y \in candidates' : y.year = j => \E x \in candidates : Same(x, y)
        BY <2>2, <2>4 DEF NewOnly
      <3>3. Measured(j)' => Measured(j)
        BY <3>1, <3>2 DEF Measured, Same
      <3>4. Compared(j)
        BY <1>4, <2>4, <3>1, <3>3 DEF Compared
      <3> QED BY <2>3, <2>4, <3>1, <3>4 DEF RemovalsCount
    <2>5. ASSUME NEW f \in Emitting, b.approach = BaseApproach, b.boundary[f] = Out, BaseBoundary[f] # Out
          PROVE  Counts(candidates', i, f)
      <3>1. ASSUME NEW base, base[f] # Out, Accounted(i, cut[i].no + 1, b.boundary, b.approach, base)
            PROVE  Counts(candidates', i, f)
        <4>1. PICK d \in candidates' : /\ d.year = i /\ d.version = cut[i].no + 1
                                       /\ <<f, "removed">> \in d.changes
          BY <2>5, <3>1 DEF Accounted
        <4>2. d.status = "FLAGGED"
          BY <2>1, <4>1, FreezeFlags
        <4> QED BY <4>1, <4>2 DEF Counts
      <3>2. CASE cut[i].no > 0 /\ Measured(i)
        <4>1. Accounted(i, cut[i].no + 1, b.boundary, b.approach, cut[i].boundary)
          BY <2>2, <3>2 DEF Baselines
        <4>2. CASE cut[i].boundary[f] # Out
          BY <3>1, <4>1, <4>2
        <4>3. CASE cut[i].boundary[f] = Out
          <5>1. cut[i].approach = BaseApproach
            BY <2>5, <3>2 DEF OneApproach, DifferencesAreSeen
          <5>2. Counts(candidates, i, f)
            BY <1>4, <2>5, <3>2, <4>3, <5>1 DEF RemovalsCount, Compared
          <5> QED BY <2>3, <2>5, <5>2
        <4> QED BY <4>2, <4>3
      <3>3. CASE ~(cut[i].no > 0 /\ Measured(i))
        <4>1. Accounted(i, cut[i].no + 1, b.boundary, b.approach, BaseBoundary)
          BY <2>2, <2>5, <3>3 DEF Baselines
        <4> QED BY <2>5, <3>1, <4>1
      <3> QED BY <3>2, <3>3
    <2>6. ASSUME NEW j \in Years, NEW f \in Emitting, Compared(j)', cut'[j].approach = BaseApproach,
                 cut'[j].boundary[f] = Out, BaseBoundary[f] # Out
          PROVE  Counts(candidates', j, f)
      BY <1>2, <2>4, <2>5, <2>6
    <2> QED BY <2>6 DEF RemovalsCount
  <1> QED BY <1>3, <1>4

\* The steps: a sweep names the removals it finds, a freeze those it makes, and a decision only counts more.
LEMMA CountedStep ==
  ASSUME OneApproach, NamesApart, Kept, OneRemovalEach, DifferencesAreSeen, RemovalsCount, [Next]_vars
  PROVE  RemovalsCount'
  <1>1. CASE Designate \/ SavePolicy
    <2>1. /\ Sweep
          /\ \A i \in Years : /\ cut'[i].no = cut[i].no /\ cut'[i].boundary = cut[i].boundary
                              /\ cut'[i].approach = cut[i].approach /\ cut'[i].status = cut[i].status
                              /\ cut'[i].measured => cut[i].measured
          /\ ~designated => candidates = {} /\ \A i \in Years : ~cut'[i].measured
      BY <1>1 DEF Designate, SavePolicy, Kept, Sound, TypeOK, Cut
    <2>2. /\ candidates \subseteq candidates'
          /\ \A d \in candidates' \ candidates : d.year \in Swept
          /\ \A i \in Swept : Flagged(i, cut[i].no, StructuralChanges(BaseBoundary, cut[i].boundary)) \in candidates'
      BY <2>1, SweepEffect DEF Kept, Sound
    <2>3. \A c \in candidates : c.status # "SUPERSEDED" =>
            \E d \in candidates' : Same(c, d) /\ d.status # "SUPERSEDED"
      BY <2>2 DEF Same
    <2>4. ASSUME NEW i \in Years, NEW f \in Emitting, Compared(i)', cut[i].approach = BaseApproach,
                 cut[i].boundary[f] = Out, BaseBoundary[f] # Out
          PROVE  Compared(i) \/ Counts(candidates', i, f)
      <3>1. CASE i \in Swept
        <4> DEFINE d == Flagged(i, cut[i].no, StructuralChanges(BaseBoundary, cut[i].boundary))
        <4>1. f \in Facilities /\ cut[i].boundary \in Boundaries
          BY FacilityAssumption DEF Kept, Sound, TypeOK, Cut
        <4>2. <<f, "removed">> \in StructuralChanges(BaseBoundary, cut[i].boundary)
          BY <2>4, <4>1, DifferencesAreNamed, BoundaryAssumption
        <4>3. d \in candidates'
          BY <2>2, <3>1
        <4> QED BY <4>2, <4>3 DEF Counts, Flagged
      <3>2. CASE i \notin Swept
        <4>1. \A d \in candidates' : d.year = i => d \in candidates
          BY <2>2, <3>2
        <4>2. cut[i].no > 0 /\ (Measured(i)' \/ (i \in Later /\ cut[i].status = "FROZEN"))
          BY <2>1, <2>4 DEF Compared
        <4>3. Measured(i)' => Measured(i) /\ designated
          BY <2>1, <4>1 DEF Measured
        <4>4. CASE Measured(i)'
          BY <4>2, <4>3, <4>4 DEF Compared
        <4>5. CASE i \in Later /\ cut[i].status = "FROZEN"
          <5>1. \E c \in candidates : c.year = i /\ c.version = cut[i].no
            BY <2>4, <3>2, <4>5, UnsweptAreEqual
          <5> QED BY <2>1, <4>2, <4>5, <5>1 DEF Compared
        <4> QED BY <4>2, <4>4, <4>5
      <3> QED BY <3>1, <3>2
    <2> QED BY <2>1, <2>3, <2>4, CountedStay
  <1>2. CASE Clear
    BY <1>2 DEF Clear, RemovalsCount, Compared
  <1>3. ASSUME NEW i \in Years, NEW d \in Drafts[i], Freeze(i, d.boundary, d.approach)
        PROVE  RemovalsCount'
    BY <1>3, CountedThroughFreeze
  <1>4. ASSUME NEW i \in Years, Reopen(i) PROVE RemovalsCount'
    <2>1. /\ \A j \in Years : /\ cut'[j].no = cut[j].no /\ cut'[j].boundary = cut[j].boundary
                              /\ cut'[j].approach = cut[j].approach /\ cut'[j].measured = cut[j].measured
          /\ \A j \in Years : cut'[j].status = "FROZEN" => cut[j].status = "FROZEN"
          /\ candidates' = candidates /\ designated' = designated
      BY <1>4 DEF Reopen, Kept, Sound, TypeOK, Cut
    <2>2. \A j \in Years : Compared(j)' => Compared(j)
      BY <2>1 DEF Compared, Measured
    <2>3. \A c \in candidates : c.status # "SUPERSEDED" =>
            \E d \in candidates' : Same(c, d) /\ d.status # "SUPERSEDED"
      BY <2>1 DEF Same
    <2> QED BY <2>1, <2>2, <2>3, CountedStay
  <1>5. ASSUME NEW c \in candidates, NEW e \in Decisions, NEW r \in BaseRuns \cup {NoRun}, Decide(c, e, r)
        PROVE  RemovalsCount'
    <2> DEFINE d == [c EXCEPT !.status = e, !.run = r]
    <2>1. candidates' = (candidates \ {c}) \cup {d} /\ cut' = cut /\ designated' = designated
      BY <1>5 DEF Decide
    <2>2. Same(c, d) /\ d.status # "SUPERSEDED"
      BY DEF Kept, Sound, TypeOK, Candidate, Same, Decisions
    <2> HIDE DEF d
    <2>3. \A x \in candidates : x.status # "SUPERSEDED" =>
            \E y \in candidates' : Same(x, y) /\ y.status # "SUPERSEDED"
      BY <2>1, <2>2 DEF Same
    <2>4. \A y \in candidates' : \E x \in candidates : Same(x, y)
      BY <2>1, <2>2 DEF Same
    <2>5. \A j \in Years : Compared(j)' => Compared(j)
      BY <2>1, <2>4 DEF Compared, Measured, Same
    <2> QED BY <2>1, <2>3, <2>5, CountedStay
  <1>6. CASE UNCHANGED <<designated, candidates, cut>>
    BY <1>6 DEF RemovalsCount, Compared, Measured
  <1> QED BY <1>1, <1>2, <1>3, <1>4, <1>5, <1>6 DEF Next, VoidBaseRun, vars

\* A facility of the base year with emissions that a weighed year leaves out has a candidate that counts
\* (the formula of BaseYearClaims).
RemovalsKeepACandidate ==
  \A i \in Years, f \in Emitting :
    Weighed(i) /\ cut[i].boundary[f] = Out /\ BaseBoundary[f] # Out => Counts(candidates, i, f)

\* Where each year keeps one approach and no name ends another, removals lose their candidate
\* (specs 06 and 06.1) only by the company they keep: while no candidate names two, each has one that
\* counts.  What evaluateStructuralChange lacks is a status of each removal in a candidate.
THEOREM RemovalsNamedAloneCount ==
  ASSUME OneApproach, NamesApart
  PROVE  Spec /\ []OneRemovalEach => []RemovalsKeepACandidate
  <1>1. Init => DifferencesAreSeen /\ RemovalsCount
    BY DEF Init, DifferencesAreSeen, RemovalsCount, Compared
  <1>2. RemovalsCount /\ Kept => RemovalsKeepACandidate
    <2> SUFFICES ASSUME RemovalsCount, Kept, NEW i \in Years, NEW f \in Emitting, Weighed(i),
                        cut[i].boundary[f] = Out, BaseBoundary[f] # Out
                 PROVE  Counts(candidates, i, f)
      BY DEF RemovalsKeepACandidate
    <2>1. Compared(i) /\ cut[i].approach = BaseApproach
      BY DEF Weighed, Compared, Measured, Kept
    <2> QED BY <2>1 DEF RemovalsCount
  <1>3. DifferencesAreSeen /\ Kept /\ [Next]_vars => DifferencesAreSeen'
    BY SeenStep
  <1>4. RemovalsCount /\ DifferencesAreSeen /\ Kept /\ OneRemovalEach /\ [Next]_vars => RemovalsCount'
    BY CountedStep
  <1> QED BY <1>1, <1>2, <1>3, <1>4, KeptAlways, PTL DEF Spec
=============================================================================
