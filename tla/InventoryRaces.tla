--------------------------- MODULE InventoryRaces ---------------------------
(***************************************************************************)
(* One inventory under concurrent requests.  Every handler is one          *)
(* transaction at READ COMMITTED: it loads the inventory's row, decides on *)
(* what it loaded, reads the tables it needs, and writes at its commit.    *)
(* Nothing locks the row and no column carries its version.                *)
(*                                                                         *)
(* Source: ghg/internal/InventoryService.java, Inventory.java, GhgRun.java *)
(* and the unique constraints of V9 and V22.  The ORM writes every column  *)
(* of a row it found changed (no @DynamicUpdate), and a row that is gone   *)
(* fails the transaction.                                                  *)
(*                                                                         *)
(* Everybody here may write and approve, so nobody signs their own; the    *)
(* roles, the holds and the base year are InventoryLifecycle's.            *)
(***************************************************************************)
EXTENDS Naturals, FiniteSets

CONSTANTS
  Requests,    \* the connections serving requests at one time (a bound)
  Accounts,    \* the members
  Views,       \* contents of the view
  NoOne, NoView, Gone,
  MaxRuns, MaxVersions   \* bounds on the numbers given

ASSUME NullAssumption == NoOne \notin Accounts /\ NoView \notin Views
ASSUME BoundAssumption == MaxRuns \in Nat /\ MaxVersions \in Nat

VARIABLES
  row,        \* the committed row of the inventory, or Gone
  view,       \* the committed assignments and boundary
  runs,       \* the committed runs
  versions,   \* the committed boundary versions
  tx          \* what each request has loaded and will write

vars == <<row, view, runs, versions, tx>>

-----------------------------------------------------------------------------
Status == {"DRAFT", "FROZEN", "IN_REVIEW", "FINAL", "PUBLISHED"}
NoNumber == 0

Row ==
  [status : Status, version : 0..MaxVersions,
   submittedRun : 0..MaxRuns, submittedBy : Accounts \cup {NoOne},
   finalRun : 0..MaxRuns, signer : Accounts \cup {NoOne}]

ASSUME GoneAssumption == Gone \notin Row

Run == [no : 1..MaxRuns, version : 0..MaxVersions, view : Views, voided : BOOLEAN]
Version == [no : 1..MaxVersions, view : Views]

\* A unit of work: the row as loaded, the row the session holds, and the rows to insert, void or delete.
\* A launch and a freeze read the view and the last number after their guards passed.
Work ==
  [stage : {"READ", "READY"}, seen : Row, row : Row, writes : BOOLEAN, deletes : BOOLEAN,
   runs : SUBSET Run, voids : SUBSET Run, versions : SUBSET Version, view : Views \cup {NoView}]

Idle == [stage |-> "IDLE"]

Loaded(leaves) ==
  [stage |-> "READY", seen |-> row, row |-> leaves, writes |-> leaves # row, deletes |-> FALSE,
   runs |-> {}, voids |-> {}, versions |-> {}, view |-> NoView]

Begin(q, work) ==
  /\ tx[q] = Idle
  /\ tx' = [tx EXCEPT ![q] = work]
  /\ UNCHANGED <<row, view, runs, versions>>

Withdrawn(r) == [r EXCEPT !.submittedRun = NoNumber, !.submittedBy = NoOne, !.status = "FROZEN"]

\* One more than the highest number on file.
NextNumber(table) == Cardinality({n \in 1..(MaxRuns + MaxVersions) : \E r \in table : r.no >= n}) + 1

-----------------------------------------------------------------------------
(* The handlers: their guards on what they load, and what their session holds afterwards. *)

Init ==
  /\ row = [status |-> "DRAFT", version |-> NoNumber, submittedRun |-> NoNumber, submittedBy |-> NoOne,
            finalRun |-> NoNumber, signer |-> NoOne]
  /\ view \in Views
  /\ runs = {} /\ versions = {}
  /\ tx = [q \in Requests |-> Idle]

\* The header's edit and the sign-off's assignment change columns no action here looks at, and write the
\* others as they were loaded.
Update(q) ==
  /\ row # Gone /\ row.status # "PUBLISHED"
  /\ Begin(q, [Loaded(row) EXCEPT !.writes = TRUE])

\* The writes of the view touch tables of their own, never the inventory's row.
EditView(q, v) ==
  /\ row # Gone /\ row.status = "DRAFT"
  /\ Begin(q, [Loaded(row) EXCEPT !.view = v])

Delete(q) ==
  /\ row # Gone /\ row.status # "PUBLISHED"
  /\ Begin(q, [Loaded(row) EXCEPT !.deletes = TRUE])

Freeze(q) ==
  /\ row # Gone /\ row.status = "DRAFT"
  /\ Begin(q, [Loaded([row EXCEPT !.status = "FROZEN"]) EXCEPT !.stage = "READ"])

Reopen(q) ==
  /\ row # Gone /\ row.status \in {"FROZEN", "IN_REVIEW"}
  /\ Begin(q, Loaded([Withdrawn(row) EXCEPT !.status = "DRAFT"]))

LaunchRun(q) ==
  /\ row # Gone /\ row.status \in {"FROZEN", "IN_REVIEW", "FINAL"}
  /\ Begin(q, [Loaded(IF row.status = "IN_REVIEW" THEN Withdrawn(row) ELSE row) EXCEPT !.stage = "READ"])

VoidRun(q, r) ==
  /\ row # Gone /\ row.status # "PUBLISHED"
  /\ r.no # row.finalRun
  /\ ~r.voided
  /\ Begin(q, [Loaded(IF row.status = "IN_REVIEW" /\ r.no = row.submittedRun THEN Withdrawn(row) ELSE row)
                 EXCEPT !.voids = {r}])

SubmitForReview(q, p, r) ==
  /\ row # Gone /\ row.status \in {"FROZEN", "IN_REVIEW"}
  /\ ~r.voided
  /\ Begin(q, [Loaded([row EXCEPT !.status = "IN_REVIEW", !.submittedRun = r.no, !.submittedBy = p])
                 EXCEPT !.writes = TRUE])

ReturnToPreparer(q) ==
  /\ row # Gone /\ row.status = "IN_REVIEW"
  /\ Begin(q, Loaded(Withdrawn(row)))

DesignateFinal(q, p, r) ==
  /\ row # Gone /\ row.status = "IN_REVIEW"
  /\ ~r.voided
  /\ r.no = row.submittedRun
  /\ p # row.submittedBy
  /\ Begin(q, Loaded([row EXCEPT !.status = "FINAL", !.finalRun = r.no, !.signer = p]))

WithdrawFinal(q) ==
  /\ row # Gone /\ row.status = "FINAL"
  /\ Begin(q, Loaded([Withdrawn(row) EXCEPT !.finalRun = NoNumber, !.signer = NoOne]))

Publish(q) ==
  /\ row # Gone /\ row.status = "FINAL"
  /\ Begin(q, Loaded([row EXCEPT !.status = "PUBLISHED"]))

-----------------------------------------------------------------------------
(* The transaction: the reads after the guards, and the commit. *)

\* A launch: the lines come from the assignments as they are now, the version from the row as loaded.
WithRun(t, n, lines) ==
  [t EXCEPT !.stage = "READY",
            !.runs = {[no |-> n, version |-> t.seen.version, view |-> lines, voided |-> FALSE]}]

\* A freeze: the version is cut from the boundary as it is now.
WithVersion(t, n) ==
  [t EXCEPT !.stage = "READY",
            !.row = [t.row EXCEPT !.version = n],
            !.versions = {[no |-> n, view |-> view]}]

ReadForLaunch(q) ==
  /\ tx[q].stage = "READ" /\ tx[q].seen.status # "DRAFT"
  /\ NextNumber(runs) <= MaxRuns
  /\ tx' = [tx EXCEPT ![q] = WithRun(tx[q], NextNumber(runs), view)]
  /\ UNCHANGED <<row, view, runs, versions>>

ReadForFreeze(q) ==
  /\ tx[q].stage = "READ" /\ tx[q].seen.status = "DRAFT"
  /\ NextNumber(versions) <= MaxVersions
  /\ tx' = [tx EXCEPT ![q] = WithVersion(tx[q], NextNumber(versions))]
  /\ UNCHANGED <<row, view, runs, versions>>

\* Faulty: as before V22, no constraint on the runs.
ClashesOfVersions(t) == \E w \in t.versions, x \in versions : w.no = x.no

\* UNIQUE (inventory_id, run_no) and (inventory_id, version_no).
Clashes(t) ==
  \/ \E r \in t.runs, s \in runs : r.no = s.no
  \/ \E w \in t.versions, x \in versions : w.no = x.no

\* A faulty variant of the commit, used by no definition: it writes the changed columns only.
CommitChangedColumns(q) ==
  LET t == tx[q] IN
  /\ t.stage = "READY" /\ row # Gone /\ ~Clashes(t)
  /\ row' = IF t.deletes THEN Gone
            ELSE [c \in DOMAIN row |-> IF t.row[c] # t.seen[c] THEN t.row[c] ELSE row[c]]
  /\ runs' = IF t.deletes THEN {}
             ELSE (runs \ t.voids) \cup {[r EXCEPT !.voided = TRUE] : r \in t.voids} \cup t.runs
  /\ versions' = IF t.deletes THEN {} ELSE versions \cup t.versions
  /\ view' = IF t.view = NoView THEN view ELSE t.view
  /\ tx' = [tx EXCEPT ![q] = Idle]

\* The row is written whole when the session changed any of it; a delete takes the runs and versions.
Commit(q) ==
  LET t == tx[q] IN
  /\ t.stage = "READY" /\ row # Gone /\ ~Clashes(t)
  /\ row' = CASE t.deletes                 -> Gone
              [] ~t.deletes /\ t.writes    -> t.row
              [] ~t.deletes /\ ~t.writes   -> row
  /\ runs' = IF t.deletes THEN {}
             ELSE (runs \ t.voids) \cup {[r EXCEPT !.voided = TRUE] : r \in t.voids} \cup t.runs
  /\ versions' = IF t.deletes THEN {} ELSE versions \cup t.versions
  /\ view' = IF t.view = NoView THEN view ELSE t.view
  /\ tx' = [tx EXCEPT ![q] = Idle]

\* A failed insert, an update of no row, a lost connection, a crash: nothing is written.
Abort(q) ==
  /\ tx[q] # Idle
  /\ tx' = [tx EXCEPT ![q] = Idle]
  /\ UNCHANGED <<row, view, runs, versions>>

Handle(q) ==
  \/ Update(q) \/ Delete(q) \/ Freeze(q) \/ Reopen(q) \/ LaunchRun(q)
  \/ ReturnToPreparer(q) \/ WithdrawFinal(q) \/ Publish(q)
  \/ \E v \in Views : EditView(q, v)
  \/ \E r \in runs : VoidRun(q, r)
  \/ \E p \in Accounts, r \in runs : SubmitForReview(q, p, r) \/ DesignateFinal(q, p, r)

Next ==
  \E q \in Requests :
    Handle(q) \/ ReadForLaunch(q) \/ ReadForFreeze(q) \/ Commit(q) \/ Abort(q)

Spec == Init /\ [][Next]_vars

-----------------------------------------------------------------------------
TypeOK ==
  /\ row \in Row \cup {Gone}
  /\ view \in Views
  /\ runs \subseteq Run
  /\ versions \subseteq Version
  /\ tx \in [Requests -> Work \cup {Idle}]

\* Whatever requests overlap, the row on file is one a single request wrote whole: the status, the
\* submission and the signature agree, and the signer never put the signed run forward (spec 05.8).
RowIsWhole ==
  row # Gone =>
    /\ row.status \in {"IN_REVIEW", "FINAL", "PUBLISHED"} <=> row.submittedRun # NoNumber
    /\ row.submittedRun # NoNumber <=> row.submittedBy # NoOne
    /\ IF row.status \in {"FINAL", "PUBLISHED"}
         THEN row.finalRun = row.submittedRun /\ row.signer \notin {NoOne, row.submittedBy}
         ELSE row.finalRun = NoNumber /\ row.signer = NoOne

\* Launches that overlap never share a number and leave no gap: the numbers on file are 1 to the count
\* of the runs, and so for the versions (spec 05.2).
NumbersAreDense ==
  /\ {r.no : r \in runs} = 1..Cardinality(runs)
  /\ {w.no : w \in versions} = 1..Cardinality(versions)
=============================================================================
