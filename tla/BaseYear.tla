------------------------------ MODULE BaseYear ------------------------------
(***************************************************************************)
(* The base year of one organization and its recalculation candidates: how *)
(* each boundary version a later year cuts is weighed, which removals a    *)
(* facility put back undoes, and what the accountant decides.              *)
(*                                                                         *)
(* Source: ghg/internal/BaseYearService.java, BaseYear.java and            *)
(* BaseYearRecalculation.java, called by InventoryService.freeze.          *)
(*                                                                         *)
(* The base-year inventory is signed (FINAL), so its boundary and its      *)
(* final run stand still.  A share is abstracted to whether the facility   *)
(* emitted in the base year; the percentages, the threshold and the        *)
(* candidates raised by hand, which name no facility, are left out.        *)
(***************************************************************************)
EXTENDS Naturals, FiniteSets

CONSTANTS
  Facilities,
  Emitting,      \* the facilities with emissions in the base run
  Out,           \* not in the boundary
  Windows,       \* the membership windows a facility may have in a boundary
  BaseBoundary,  \* the base-year inventory's boundary
  Suffix,        \* <<f, g>>: f's name ends g's name, so that "f removed" is read in "g removed"
  Years,         \* the other inventories
  Later,         \* those whose period starts after the base year's ends
  BaseApproach,  \* the base year's consolidation approach
  Drafts,        \* per inventory, the [boundary, approach] pairs it may be frozen with
  BaseRuns, NoRun,            \* the runs of the base-year inventory that are not its final run
  MaxVersions                 \* per inventory, a bound on the versions it cuts

Boundaries == [Facilities -> Windows \cup {Out}]

ASSUME BoundaryAssumption == Out \notin Windows /\ BaseBoundary \in Boundaries
ASSUME FacilityAssumption == Emitting \subseteq Facilities /\ Suffix \subseteq Facilities \X Facilities
ASSUME YearAssumption == Later \subseteq Years /\ \A i \in Years : \A d \in Drafts[i] : d.boundary \in Boundaries
ASSUME RunAssumption == NoRun \notin BaseRuns
ASSUME BoundAssumption == MaxVersions \in [Years -> Nat]

VARIABLES
  designated,   \* a base year and its policy are on file
  cut,          \* per inventory: its status, and the last version it cut
  candidates,   \* the structural-change candidates
  voided        \* the voided ones of BaseRuns

vars == <<designated, cut, candidates, voided>>

-----------------------------------------------------------------------------
Kinds == {"added", "removed", "membership window changed"}
Decisions == {"RECALCULATED", "DECLINED"}

\* "measured": cut while the present base year was on file.  Number 0: nothing cut yet.
Cut == [status : {"DRAFT", "FROZEN"}, no : Nat, boundary : Boundaries,
        approach : {d.approach : d \in UNION {Drafts[i] : i \in Years}} \cup {BaseApproach},
        measured : BOOLEAN]

Candidate == [year : Years, version : Nat \ {0}, changes : SUBSET (Facilities \X Kinds),
              status : Decisions \cup {"FLAGGED", "SUPERSEDED"}, run : BaseRuns \cup {NoRun}]

\* A change names a facility and what became of it.
StructuralChanges(before, after) ==
  {c \in Facilities \X Kinds :
     /\ before[c[1]] # after[c[1]]
     /\ c[2] = CASE before[c[1]] = Out -> "added"
                 [] after[c[1]] = Out  -> "removed"
                 [] OTHER              -> "membership window changed"}

\* Facilities that emitted nothing in the base year are organic growth.
Weighs(changes) == \E c \in changes : c[1] \in Emitting

\* Faulty: the version before the one cut.
FlaggedUnderTheVersionBefore(i, no, changes) ==
  [year |-> i, version |-> no - 1, changes |-> changes, status |-> "FLAGGED", run |-> NoRun]

Flagged(i, no, changes) ==
  [year |-> i, version |-> no, changes |-> changes, status |-> "FLAGGED", run |-> NoRun]

\* The candidate's reason reads "f removed".
NamesRemoval(c, f) == \E g \in Facilities : (g = f \/ <<f, g>> \in Suffix) /\ <<g, "removed">> \in c.changes

Superseded(S) == {[c EXCEPT !.status = "SUPERSEDED"] : c \in S}

-----------------------------------------------------------------------------
(* What a version that is cut does to the candidates. *)

\* Faulty: decided or not.
UndoneWhateverWasDecided(i, f) == {c \in candidates : c.year = i /\ NamesRemoval(c, f)}

\* Faulty: of the version before only.
UndoneOfTheVersionBefore(i, f) ==
  {c \in candidates : c.year = i /\ c.version = cut[i].no /\ c.status = "FLAGGED" /\ NamesRemoval(c, f)}

\* The undecided removals of i that putting f back undoes.
Undone(i, f) == {c \in candidates : c.year = i /\ c.status = "FLAGGED" /\ NamesRemoval(c, f)}

\* Faulty: the version before it, measured or not.
BaselinesUnmeasured(i, approach) ==
  IF cut[i].no > 0 THEN {cut[i].boundary} ELSE IF approach = BaseApproach THEN {BaseBoundary} ELSE {}

\* Whether the last version of i was weighed: cut under the present base year, or named by a candidate.
Measured(i) == cut[i].measured \/ \E c \in candidates : c.year = i /\ c.version = cut[i].no

\* The version before it, if it was measured; else the base year's boundary, under the same approach.
Baselines(i, approach) ==
  IF cut[i].no > 0 /\ Measured(i)
    THEN {cut[i].boundary}
  ELSE IF approach = BaseApproach THEN {BaseBoundary} ELSE {}

\* The facilities put back exactly as the base year holds them.
PutBack(boundary, approach, baseline) ==
  {f \in Facilities : /\ approach = BaseApproach
                      /\ baseline[f] = Out /\ boundary[f] # Out
                      /\ boundary[f] = BaseBoundary[f]}

\* The changes are taken in the order of a hash table: a facility put back supersedes every removal that
\* names it and is still undecided at its turn, and stays an addition when there is none.
Orders == {o \in [Facilities -> 1..Cardinality(Facilities)] : \A f, g \in Facilities : o[f] = o[g] => f = g}

Quiet(i, back, order) ==
  {f \in back : \E c \in Undone(i, f) : \A g \in back : c \in Undone(i, g) => order[f] <= order[g]}

\* evaluateStructuralChange
Evaluate(i, no, boundary, approach) ==
  \/ Baselines(i, approach) = {} /\ UNCHANGED candidates
  \/ \E baseline \in Baselines(i, approach), order \in Orders :
       LET back    == PutBack(boundary, approach, baseline)
           undone  == UNION {Undone(i, f) : f \in back}
           changes == StructuralChanges(baseline, boundary) \ (Quiet(i, back, order) \X {"added"})
       IN  candidates' = (candidates \ undone) \cup Superseded(undone)
                           \cup (IF Weighs(changes) THEN {Flagged(i, no, changes)} ELSE {})

\* The inventories already frozen, each against the base-year boundary, once per version.
Swept ==
  {i \in Later : /\ cut[i].status = "FROZEN" /\ cut[i].approach = BaseApproach
                 /\ ~\E c \in candidates : c.year = i /\ c.version = cut[i].no
                 /\ Weighs(StructuralChanges(BaseBoundary, cut[i].boundary))}

Sweep ==
  candidates' = candidates \cup
                  {Flagged(i, cut[i].no, StructuralChanges(BaseBoundary, cut[i].boundary)) : i \in Swept}

-----------------------------------------------------------------------------
Init ==
  /\ designated = FALSE
  /\ cut = [i \in Years |-> [status |-> "DRAFT", no |-> 0, boundary |-> [f \in Facilities |-> Out],
                             approach |-> BaseApproach, measured |-> FALSE]]
  /\ candidates = {}
  /\ voided = {}

\* Naming the base year: no version on file was cut under it.
Designate ==
  /\ ~designated
  /\ designated' = TRUE
  /\ Sweep
  /\ cut' = [i \in Years |-> [cut[i] EXCEPT !.measured = FALSE]]
  /\ UNCHANGED voided

\* Saving its policy again keeps the candidates and sweeps again.
SavePolicy ==
  /\ designated
  /\ Sweep
  /\ UNCHANGED <<designated, cut, voided>>

Clear ==
  /\ designated
  /\ designated' = FALSE
  /\ candidates' = {}
  /\ UNCHANGED <<cut, voided>>

\* The edits of the draft come with the freeze.
Freeze(i, boundary, approach) ==
  /\ cut[i].status = "DRAFT"
  /\ cut[i].no < MaxVersions[i]
  /\ cut' = [cut EXCEPT ![i] = [status |-> "FROZEN", no |-> cut[i].no + 1, boundary |-> boundary,
                                approach |-> approach, measured |-> designated]]
  /\ IF designated THEN Evaluate(i, cut[i].no + 1, boundary, approach) ELSE UNCHANGED candidates
  /\ UNCHANGED <<designated, voided>>

Reopen(i) ==
  /\ cut[i].status = "FROZEN"
  /\ cut' = [cut EXCEPT ![i].status = "DRAFT"]
  /\ UNCHANGED <<designated, candidates, voided>>

\* A decision is taken on any candidate on file, decided before or not.
Decide(c, decision, run) ==
  /\ IF decision = "RECALCULATED" THEN run \in BaseRuns \ voided ELSE run = NoRun
  /\ candidates' = (candidates \ {c}) \cup {[c EXCEPT !.status = decision, !.run = run]}
  /\ UNCHANGED <<designated, cut, voided>>

\* InventoryService.voidRun, of a run that is not the final one.
VoidBaseRun(r) ==
  /\ r \notin voided
  /\ voided' = voided \cup {r}
  /\ UNCHANGED <<designated, cut, candidates>>

Next ==
  \/ Designate \/ SavePolicy \/ Clear
  \/ \E i \in Years : Reopen(i) \/ \E d \in Drafts[i] : Freeze(i, d.boundary, d.approach)
  \/ \E c \in candidates, d \in Decisions, r \in BaseRuns \cup {NoRun} : Decide(c, d, r)
  \/ \E r \in BaseRuns : VoidBaseRun(r)

Spec == Init /\ [][Next]_vars

-----------------------------------------------------------------------------
TypeOK ==
  /\ designated \in BOOLEAN
  /\ cut \in [Years -> Cut]
  /\ candidates \subseteq Candidate
  /\ voided \subseteq BaseRuns

\* A frozen year the base year weighs: under its approach, and later or cut since it was named.
Weighed(i) ==
  /\ designated /\ cut[i].status = "FROZEN" /\ cut[i].approach = BaseApproach
  /\ i \in Later \/ cut[i].measured

\* No structural change goes unseen: where a weighed year's boundary differs from the base year's at a
\* facility with base-year emissions, some candidate of that year named the change, whenever the base year
\* was named and whatever was cut before it (spec 06).
NoDifferenceGoesUnseen ==
  \A i \in Years, f \in Emitting :
    Weighed(i) /\ cut[i].boundary[f] # BaseBoundary[f] =>
      \E c \in candidates, k \in Kinds :
        /\ c.year = i /\ <<f, k>> \in c.changes
        /\ k = "removed" <=> cut[i].boundary[f] = Out

\* Nothing is held for a removal that was undone (spec 06, "putting a facility back supersedes its
\* removal"): while the removal of a facility that emitted is undecided, it is not as the base year holds
\* it, or it came back by way of another window and a later candidate named that change.
UndecidedRemovalsStand ==
  \A c \in candidates, f \in Emitting :
    c.status = "FLAGGED" /\ <<f, "removed">> \in c.changes /\ BaseBoundary[f] # Out
      => \/ cut[c.year].boundary[f] # BaseBoundary[f]
         \/ \E d \in candidates, k \in Kinds : d.year = c.year /\ d.version > c.version /\ <<f, k>> \in d.changes

\* A removal already decided stands: no later freeze and no new policy takes the decision back, whatever
\* is put back (spec 06).
DecisionsStand ==
  [][designated' => \A c \in candidates :
       c.status \in Decisions =>
         \E d \in candidates' : d.year = c.year /\ d.version = c.version /\ d.changes = c.changes
                                  /\ d.status \in Decisions]_vars
=============================================================================
