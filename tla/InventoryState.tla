--------------------------- MODULE InventoryState ---------------------------
(***************************************************************************)
(* The rows of one organization's inventories, runs and boundary versions, *)
(* and the vocabulary InventoryLifecycle's actions are written in.         *)
(*                                                                         *)
(* Source: ghg/internal/Inventory.java, InventoryStatus.java, GhgRun.java, *)
(* BoundaryVersion.java and the private helpers of InventoryService.java.  *)
(*                                                                         *)
(* What the gates and the holds look at (classifications, factors,         *)
(* densities, drafts) is abstracted to the acts they stop: holds[v] is the *)
(* subset of {FREEZE, RUN, FINAL} that the facts on file hold for a view v. *)
(***************************************************************************)
EXTENDS Naturals, OrganizationAccess

CONSTANTS
  Invs,           \* inventory ids
  NoInv, NoOne, NoView,   \* the null inventory, account and view
  Views,          \* contents of a view: boundary, method, classifications
  Straddling,     \* the views with an included record that straddles the period
  Unsited,        \* the views whose boundary holds no facility
  Unbounded,      \* the views whose boundary holds no entity either
  Circumstances,  \* the sets of acts the facts on file may hold for a view
  Treatments,     \* the straddle treatments the form offers (a bound: both, in the product)
  Bases,          \* the inventories offered as the base year (a bound: all of Invs in the product)
  Against,        \* <<b, i>>: i has b's approach and a later period (BaseYearService.reportsAgainst)
  MaxRuns, MaxVersions   \* bounds on the runs and the boundary versions of one inventory

HeldActs == {"FREEZE", "RUN", "FINAL"}

ASSUME NullAssumption == NoInv \notin Invs /\ NoOne \notin Accounts /\ NoView \notin Views
ASSUME ViewAssumption == Straddling \cup Unsited \subseteq Views /\ Circumstances \subseteq SUBSET HeldActs
ASSUME BoundaryAssumption == Unbounded \subseteq Unsited
ASSUME OfferAssumption == Treatments \subseteq {"PRO_RATE", "BLOCK"} /\ Bases \subseteq Invs
ASSUME BoundAssumption == MaxRuns \in Nat /\ MaxVersions \in Nat

VARIABLES
  inv,        \* the inventories' rows
  runs,       \* the run table: one record per run, keyed by inventory and number
  versions,   \* the boundary versions, keyed by inventory and number
  holds,      \* the acts the facts on file hold, per view
  baseYear,   \* the inventory designated as the base year, or NoInv
  candidates  \* the kinds of recalculation candidates on file

recordVars == <<inv, runs, versions>>
factVars == <<holds, baseYear, candidates>>
vars == <<recordVars, factVars, accessVars>>

-----------------------------------------------------------------------------
Status == {"DRAFT", "FROZEN", "IN_REVIEW", "FINAL", "PUBLISHED"}
NoNumber == 0   \* null, where a run or version number is expected

\* An undecided candidate is above the base year's threshold or below it; one that was recalculated,
\* declined or superseded is decided.
Undecided == {"ABOVE", "BELOW"}
CandidateKinds == Undecided \cup {"DECIDED"}

Inventory ==
  [status : Status, view : Views, straddle : {"PRO_RATE", "BLOCK"}, version : Nat,
   submittedRun : Nat, submittedBy : Accounts \cup {NoOne},
   finalRun : Nat, signer : Accounts \cup {NoOne}, selfApproved : BOOLEAN,
   preparer : Accounts \cup {NoOne}, approver : Accounts \cup {NoOne},
   supersededBy : Invs \cup {NoInv}]

\* "view" is what the run's lines snapshot: the assignments as they stood at the launch.
Run == [inv : Invs, no : Nat \ {0}, version : Nat, view : Views, voided : BOOLEAN]
Version == [inv : Invs, no : Nat \ {0}, view : Views]

Row(status, view, straddle) ==
  [status |-> status, view |-> view, straddle |-> straddle, version |-> NoNumber,
   submittedRun |-> NoNumber, submittedBy |-> NoOne,
   finalRun |-> NoNumber, signer |-> NoOne, selfApproved |-> FALSE,
   preparer |-> NoOne, approver |-> NoOne, supersededBy |-> NoInv]

\* The row of an inventory that is not on file.
Absent == Row("ABSENT", NoView, "PRO_RATE")

Exists(i)     == inv[i].status # "ABSENT"
IsEditable(i) == inv[i].status = "DRAFT"
AllowsRuns(i) == inv[i].status \in {"FROZEN", "IN_REVIEW", "FINAL"}

\* One more than the highest number on file, voided runs included; n is that number.
IsNextNumber(table, i, n) ==
  /\ \A r \in table : r.inv = i => r.no < n
  /\ n > 1 => \E r \in table : r.inv = i /\ r.no = n - 1

\* Inventory.clearSubmission with the status a withdrawal goes back to.
Withdrawn(row) ==
  [row EXCEPT !.submittedRun = NoNumber, !.submittedBy = NoOne, !.status = "FROZEN"]

\* refuseUnlessTheApprover: the named approver only, when one is named.
IsTheApprover(p, i) == inv[i].approver \in {NoOne, p}

\* anotherApprover: a member other than p may approve.  Support grants do not count.
AnotherApprover(p) == \E q \in Accounts \ {p} : CanApprove(role[q])

\* refuseWhileARecalculationHolds
RecalculationHolds(i) ==
  "ABOVE" \in candidates /\ baseYear # NoInv /\ baseYear # i /\ <<baseYear, i>> \in Against

\* finalHolds reads the current assignments, whatever run is put forward.
FinalHolds(i) == "FINAL" \in holds[inv[i].view]
=============================================================================
