------------------------ MODULE InventoryRaceClaims ------------------------
(***************************************************************************)
(* A statement of the specs that holds of one request after another and    *)
(* not of two at once.                                                     *)
(***************************************************************************)
EXTENDS MCInventoryRaces

\* specs/05.2: a voided run cannot be designated final.  A void that loaded the row before the submission
\* commits after it and leaves the row alone; one that overlaps the sign-off does the same.
VoidedRunIsNeverFinal ==
  row # Gone => \A r \in runs : r.no = row.finalRun => ~r.voided
============================================================================
