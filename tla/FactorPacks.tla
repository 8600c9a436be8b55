----------------------------- MODULE FactorPacks -----------------------------
(***************************************************************************)
(* The editions of one pack family and what one organization does with     *)
(* them: authoring, publication and withdrawal (spec 02.5), the notices a  *)
(* publication raises and their answers (spec 02.7), and the import into   *)
(* the lineage of one publication row (spec 02.6), with the inventories    *)
(* pinned to its versions.                                                 *)
(*                                                                         *)
(* Source: FactorPackAdminService.java, FactorPackPublication.java,        *)
(* FactorPackAdoptionService.java, FactorPackImportService.java,           *)
(* EditionLock.java and GhgService.java under ghg/internal.                *)
(*                                                                         *)
(* An edition is its row for the code, or NoRow beside other rows. Its     *)
(* metadata, validation, change log and trail, the figures of a notice and *)
(* the base-year candidate an acceptance raises are left out, and so are   *)
(* the tenant's roles.                                                     *)
(***************************************************************************)
EXTENDS FactorLineage, FiniteSets

CONSTANTS
  Seeded,        \* the edition the migrations published
  Admins,
  Inventories,
  PeriodStart, PeriodEnd,
  FollowDay,     \* the day an inventory's pinned factor is priced on
  NoRow, NoOne,
  Curators,      \* the administrators who write drafts (a bound)
  MaxDrafts,     \* drafts at a time (a bound)
  MaxVersions,   \* versions of the lineage (a bound)
  Handled        \* the versions people edit or approve by hand (a bound)

\* A classification follows on the later of its record's start and the period's, an upstream rule on its end.
ASSUME PacksAssumption ==
  /\ Seeded \in Editions /\ NoRow \notin Row /\ NoOne \notin Admins
  /\ PeriodStart \in [Inventories -> Days] /\ PeriodEnd \in [Inventories -> Days]
  /\ \A i \in Inventories : FollowDay[i] \in PeriodStart[i] .. PeriodEnd[i]
  /\ MaxVersions \in Nat

VARIABLES
  edition,       \* the editions of the family
  publications,  \* how many were published, the time of a publication
  notice,        \* the organization's notice of each edition
  lineage,       \* the organization's versions of the row
  inv            \* the organization's inventories: their status and the version they are pinned to, or 0

vars == <<edition, publications, notice, lineage, inv>>

EditionStatus == {"ABSENT", "DRAFT", "PUBLISHED", "SUPERSEDED", "WITHDRAWN"}
NoticeStatus == {"NONE", "OPEN", "ACCEPTED", "DECLINED", "WITHDRAWN"}
Settings == {"BLOCKED", "ALLOWED"}   \* Editions inside a published period
InventoryStatus == {"DRAFT", "FROZEN", "IN_REVIEW", "FINAL", "PUBLISHED"}

Absent == [status |-> "ABSENT", row |-> NoRow, curator |-> NoOne, evidence |-> FALSE, appliesFrom |-> 0, at |-> 0]

\* The seeded edition was published without a curator. An organization that held its row before editions
\* existed has a version of it that always applied.
Init ==
  /\ \E r \in Row, a \in Days :
       /\ edition = [e \in Editions |->
            IF e # Seeded THEN Absent
            ELSE [Absent EXCEPT !.status = "PUBLISHED", !.row = r, !.evidence = TRUE, !.appliesFrom = a, !.at = 1]]
       /\ lineage \in {<<>>, <<Written(Seeded, Always, r, r.approved)>>}
  /\ publications = 1
  /\ notice = [e \in Editions |-> "NONE"]
  /\ inv = [i \in Inventories |-> [status |-> "DRAFT", pin |-> 0]]

-----------------------------------------------------------------------------
(* Authoring: a draft, and only a draft, may change. *)

Drafts == {e \in Editions : edition[e].status = "DRAFT"}

\* A clone copies its predecessor's rows.
CreateEdition(p, e, row) ==
  /\ p \in Curators
  /\ edition[e].status = "ABSENT"
  /\ Cardinality(Drafts) < MaxDrafts
  /\ row \in {NoRow} \cup {edition[c].row : c \in Editions}
  /\ edition' = [edition EXCEPT ![e] = [Absent EXCEPT !.status = "DRAFT", !.row = row, !.curator = p]]
  /\ UNCHANGED <<publications, notice, lineage, inv>>

ChangeDraft(e, draft) ==
  /\ edition[e].status = "DRAFT"
  /\ edition' = [edition EXCEPT ![e] = draft]
  /\ UNCHANGED <<publications, notice, lineage, inv>>

AddRow(e, r) == edition[e].row = NoRow /\ ChangeDraft(e, [edition[e] EXCEPT !.row = r])
UpdateRow(e, r) == edition[e].row # NoRow /\ ChangeDraft(e, [edition[e] EXCEPT !.row = r])
DeleteRow(e) == edition[e].row # NoRow /\ ChangeDraft(e, [edition[e] EXCEPT !.row = NoRow])
AttachEvidence(e) == ChangeDraft(e, [edition[e] EXCEPT !.evidence = TRUE])

DeleteEdition(e) ==
  /\ \A v \in DOMAIN lineage : lineage[v].edition # e
  /\ ChangeDraft(e, Absent)

-----------------------------------------------------------------------------
(* Publication *)

\* A faulty variant, used by no definition: an edition of the same day is not looked at.
StandingEarlier(e, a) ==
  {c \in Editions \ {e} : edition[c].status \in {"PUBLISHED", "SUPERSEDED"} /\ edition[c].appliesFrom < a}

\* The editions that apply on or before the day and were published, in the order of their vintage.
Standing(e, a) ==
  {c \in Editions \ {e} : edition[c].status \in {"PUBLISHED", "SUPERSEDED"} /\ edition[c].appliesFrom <= a}

Outranks(c, d) ==
  \/ edition[d].appliesFrom < edition[c].appliesFrom
  \/ edition[d].appliesFrom = edition[c].appliesFrom /\ edition[d].at <= edition[c].at

\* The predecessor, where there is one.
Predecessor(e, a) == {c \in Standing(e, a) : \A d \in Standing(e, a) : Outranks(c, d)}

\* One notice to an organization that holds a lineage the predecessor carried.
Notified(e, a) == lineage # <<>> /\ \E c \in Predecessor(e, a) : edition[c].row # NoRow

\* A faulty variant, used by no definition: nobody asks for the source file.
ReadyUnproven(p, e) == edition[e].status = "DRAFT" /\ edition[e].curator # p

\* Another administrator than the curator publishes, with the source file on file.
Ready(p, e) == edition[e].status = "DRAFT" /\ edition[e].curator # p /\ edition[e].evidence

Publish(p, e, a) ==
  /\ Ready(p, e)
  /\ publications' = publications + 1
  /\ edition' = [c \in Editions |->
       IF c = e THEN [edition[e] EXCEPT !.status = "PUBLISHED", !.appliesFrom = a, !.at = publications']
       ELSE IF c \in Predecessor(e, a) THEN [edition[c] EXCEPT !.status = "SUPERSEDED"]
       ELSE edition[c]]
  /\ notice' = IF Notified(e, a) THEN [notice EXCEPT ![e] = "OPEN"] ELSE notice
  /\ UNCHANGED <<lineage, inv>>

Withdraw(e) ==
  /\ edition[e].status \in {"PUBLISHED", "SUPERSEDED"}
  /\ edition' = [edition EXCEPT ![e].status = "WITHDRAWN"]
  /\ notice' = IF notice[e] = "OPEN" THEN [notice EXCEPT ![e] = "WITHDRAWN"] ELSE notice
  /\ UNCHANGED <<publications, lineage, inv>>

-----------------------------------------------------------------------------
(* Adoption *)

LockedStatuses(setting) == {"FROZEN", "IN_REVIEW", "FINAL"} \cup (IF setting = "ALLOWED" THEN {} ELSE {"PUBLISHED"})

\* A faulty variant, used by no definition: a period that the edition applies from the first day of.
RefusesPastItsStart(i, a, setting) ==
  inv[i].status \in LockedStatuses(setting) /\ PeriodStart[i] < a /\ a <= PeriodEnd[i]

Refuses(i, a, setting) == inv[i].status \in LockedStatuses(setting) /\ PeriodStart[i] <= a /\ a <= PeriodEnd[i]

\* The version a pinned factor follows to on a day: the one in force, where it is approved.
Follow(l, pin, d) ==
  LET v == VersionInForce(l, d)
  IN  IF v # 0 /\ l[v].approved THEN v ELSE pin

\* Rule 7: the open drafts the edition reaches follow a lineage that gained a version.
MoveOpenDrafts(l, a) ==
  [i \in Inventories |->
     IF inv[i].status = "DRAFT" /\ inv[i].pin # 0 /\ a <= PeriodEnd[i]
     THEN [inv[i] EXCEPT !.pin = Follow(l, @, FollowDay[i])] ELSE inv[i]]

ImportPack(e, setting) ==
  LET a == edition[e].appliesFrom
      after == IF edition[e].row = NoRow THEN lineage ELSE Imported(lineage, e, a, edition[e].row)
  IN  /\ edition[e].status = "PUBLISHED"
      /\ \A i \in Inventories : ~Refuses(i, a, setting)
      /\ Len(after) <= MaxVersions
      /\ OneVersionADay(after)
      /\ lineage' = after
      /\ inv' = IF lineage # <<>> /\ Len(after) > Len(lineage) THEN MoveOpenDrafts(after, a) ELSE inv
      /\ UNCHANGED <<edition, publications>>

Import(e, setting) == ImportPack(e, setting) /\ UNCHANGED notice

Accept(e, setting) ==
  /\ notice[e] = "OPEN"
  /\ ImportPack(e, setting)
  /\ notice' = [notice EXCEPT ![e] = "ACCEPTED"]

Decline(e) ==
  /\ notice[e] = "OPEN"
  /\ notice' = [notice EXCEPT ![e] = "DECLINED"]
  /\ UNCHANGED <<edition, publications, lineage, inv>>

-----------------------------------------------------------------------------
(* What people do to the versions and to the inventories. *)

ChangeLineage(after) ==
  /\ lineage' = after
  /\ UNCHANGED <<edition, publications, notice, inv>>

\* Any facts and dates; the version is then the organization's own.
UpdateEmissionFactor(v, from, to, value, approved) ==
  LET after == [lineage EXCEPT ![v] = [@ EXCEPT !.from = from, !.to = to, !.value = value,
                                                !.approved = approved, !.edited = TRUE]]
  IN  /\ v \in Handled
      /\ from <= to
      /\ OneVersionADay(after)
      /\ ChangeLineage(after)

SetFactorApproval(v, approved) == v \in Handled /\ ChangeLineage([lineage EXCEPT ![v].approved = approved])

\* A draft is classified, or a rule of it written, with any version: its dates and its approval are warnings.
Classify(i, v) ==
  /\ inv[i].status = "DRAFT"
  /\ inv' = [inv EXCEPT ![i].pin = v]
  /\ UNCHANGED <<edition, publications, notice, lineage>>

\* The moves of the lifecycle, whose guards InventoryLifecycle has.
Moves ==
  [DRAFT |-> {"FROZEN"}, FROZEN |-> {"DRAFT", "IN_REVIEW"}, IN_REVIEW |-> {"DRAFT", "FROZEN", "FINAL"},
   FINAL |-> {"FROZEN", "PUBLISHED"}, PUBLISHED |-> {}]

MoveInventory(i, status) ==
  /\ status \in Moves[inv[i].status]
  /\ inv' = [inv EXCEPT ![i].status = status]
  /\ UNCHANGED <<edition, publications, notice, lineage>>

Next ==
  \/ \E e \in Editions :
       \/ \E p \in Admins :
            \/ \E row \in Row \cup {NoRow} : CreateEdition(p, e, row)
            \/ \E a \in Days : Publish(p, e, a)
       \/ \E r \in Row : AddRow(e, r) \/ UpdateRow(e, r)
       \/ DeleteRow(e) \/ AttachEvidence(e) \/ DeleteEdition(e)
       \/ Withdraw(e)
       \/ Decline(e)
       \/ \E setting \in Settings : Import(e, setting) \/ Accept(e, setting)
  \/ \E v \in DOMAIN lineage, approved \in BOOLEAN :
       \/ SetFactorApproval(v, approved)
       \/ \E from \in Always .. LastDay, to \in Days \cup {Forever}, value \in Values :
            UpdateEmissionFactor(v, from, to, value, approved)
  \/ \E i \in Inventories :
       \/ \E v \in DOMAIN lineage : Classify(i, v)
       \/ \E status \in InventoryStatus : MoveInventory(i, status)

Spec == Init /\ [][Next]_vars

-----------------------------------------------------------------------------
(* Properties *)

EditionRecord ==
  [status : EditionStatus, row : Row \cup {NoRow}, curator : Admins \cup {NoOne}, evidence : BOOLEAN,
   appliesFrom : 0 .. LastDay, at : Nat]

\* The editions, notices, versions and inventories are of their types, a published edition has its day, its
\* moment and its evidence (V42), and what superseded a version or is pinned is a version on file.
TypeOK ==
  /\ edition \in [Editions -> EditionRecord]
  /\ \A e \in Editions :
       edition[e].status \notin {"ABSENT", "DRAFT"} =>
         edition[e].evidence /\ edition[e].appliesFrom # 0 /\ edition[e].at \in 1 .. publications
  /\ publications \in Nat
  /\ notice \in [Editions -> NoticeStatus]
  /\ lineage \in Seq(Version) /\ \A v \in DOMAIN lineage : lineage[v].next \in 0 .. Len(lineage)
  /\ inv \in [Inventories -> [status : InventoryStatus, pin : 0 .. Len(lineage)]]

\* Two importable editions are of two vintages: a correction of a day, or an edition that follows, takes the
\* place of the one standing there, in whatever order vintages are published and withdrawn (predecessorOf).
OneEditionPerVintage ==
  \A e, c \in Editions :
    e # c /\ edition[e].status = "PUBLISHED" /\ edition[c].status = "PUBLISHED" =>
      edition[e].appliesFrom # edition[c].appliesFrom

\* No day has two of the publisher's versions, whatever the organization edits beside them; and while it has
\* edited none, every version runs to the day before the next one, which supersedes it, and the last is open
\* (spec 02.6, rules 7 and 8: one ordered chain whichever way the vintages arrive).
LineageIsOneChain == Apart(lineage) /\ (Edited(lineage) = {} => OneChain(lineage))

Imports(e, setting) == Import(e, setting) \/ Accept(e, setting)

ValueOn(l, d) == LET v == VersionInForce(l, d) IN IF v = 0 THEN {} ELSE {l[v].value}

\* An import leaves the versions the organization edited as they are. Without such versions it prices the days
\* from the edition's own on, up to the start of the next version on file, and no others (spec 02.6).
ImportsReachOnlyTheirVintage ==
  [][\A e \in Editions : lineage' # lineage /\ Imports(e, "ALLOWED") =>
       /\ \A v \in Edited(lineage) : lineage'[v] = lineage[v]
       /\ Edited(lineage) = {} => \A d \in Days :
            ValueOn(lineage', d) # ValueOn(lineage, d) =>
              /\ ValueOn(lineage', d) = {edition[e].row.value}
              /\ edition[e].appliesFrom <= d
              /\ \A v \in DOMAIN lineage : lineage[v].from \notin edition[e].appliesFrom + 1 .. d]_vars

\* The locked inventory, and its factor's price and days in the period.
PeriodStands(i) ==
  LET pin == inv[i].pin IN
  /\ inv'[i] = inv[i]
  /\ lineage[pin].from <= PeriodEnd[i] => lineage'[pin].value = lineage[pin].value
  /\ \A d \in PeriodStart[i] .. PeriodEnd[i] : Covers(lineage', pin, d) <=> Covers(lineage, pin, d)

\* A draft's factor covers its day, or what is in force there is a template.
StaysCovered(i) ==
  \/ Covers(lineage', inv'[i].pin, FollowDay[i])
  \/ ~lineage'[VersionInForce(lineage', FollowDay[i])].approved

\* An edition that applies from a locked period's first day on leaves the factor of that period as it is: its
\* version, its price and the days of the period it covers. A draft's factor that covered its day still does,
\* unless what is in force there is a template or a version someone edited (spec 02.6, rules 1 and 7).
PeriodsKeepTheirFactors ==
  [][\A e \in Editions, setting \in Settings, i \in Inventories :
       lineage' # lineage /\ inv[i].pin # 0 /\ Imports(e, setting) =>
         /\ inv[i].status \in LockedStatuses(setting) /\ PeriodStart[i] <= edition[e].appliesFrom =>
              PeriodStands(i)
         /\ inv[i].status = "DRAFT" /\ Edited(lineage) = {} /\ Covers(lineage, inv[i].pin, FollowDay[i]) =>
              StaysCovered(i)]_vars
=============================================================================
