------------------------ MODULE InventoryRacesSignOff ------------------------
(***************************************************************************)
(* The overlapping requests of InventoryRaces, and what they need beside   *)
(* their guards to implement the sign-off workflow of SignOff.             *)
(*                                                                         *)
(* Source: ghg/internal/InventoryService.java and Inventory.java, which    *)
(* has no version column and is loaded without a lock.                     *)
(***************************************************************************)
EXTENDS InventoryRaces, SignOffCase

Here == 1   \* the one inventory

soundRuns == {<<Here, r.no>> : r \in {s \in runs : ~s.voided}}

\* A deleted inventory's case is open, as one is that nobody put forward.
caseHere ==
  IF row = Gone THEN [stage |-> "OPEN", run |-> NoNumber, by |-> NoOne, signer |-> NoOne] ELSE caseOf(row)

Workflow == INSTANCE SignOff WITH Invs <- {Here}, Numbers <- 1..MaxRuns, sound <- soundRuns,
                                  case <- [i \in {Here} |-> caseHere]

-----------------------------------------------------------------------------
(* What the handlers do not ensure, and a lock of the row by each of them would. *)

\* The request writes the inventory's row or its runs, or deletes them.
WritesRecords(t) == t.writes \/ t.deletes \/ t.runs # {} \/ t.voids # {}

\* Whatever a request writes at its commit, it decided on the row that is still on file. Requests may overlap,
\* and all but the first to change the row fail, a launch and a void among them, which write other tables.
CommitsAreFresh == [][\A q \in Requests : Commit(q) /\ WritesRecords(tx[q]) => tx[q].seen = row]_vars

\* A run is not voided beside a request about to write a row that puts it forward, be it its submission, its
\* sign-off or another column of that row.
VoidsApart ==
  \A c, d \in Requests :
    c # d /\ tx[c] # Idle /\ tx[d] # Idle /\ tx[d].writes =>
      \A v \in tx[c].voids : v.no # tx[d].row.submittedRun
=============================================================================
