----------------------------- MODULE SignOffCase -----------------------------
(***************************************************************************)
(* An inventory's row read as a case of the sign-off workflow.  Both the   *)
(* lifecycle's rows and the rows that overlapping requests write are read  *)
(* so (InventorySignOff, InventoryRacesSignOff).                           *)
(*                                                                         *)
(* Source: InventoryStatus.java and Inventory.java.                        *)
(***************************************************************************)

stageOf(status) ==
  CASE status = "IN_REVIEW" -> "PUT"
    [] status = "FINAL"     -> "SIGNED"
    [] status = "PUBLISHED" -> "ISSUED"
    [] OTHER                -> "OPEN"

\* Once signed, the run is the one the report reads: the final run.
caseOf(row) ==
  [stage  |-> stageOf(row.status),
   run    |-> IF row.status \in {"FINAL", "PUBLISHED"} THEN row.finalRun ELSE row.submittedRun,
   by     |-> row.submittedBy,
   signer |-> row.signer]
=============================================================================
