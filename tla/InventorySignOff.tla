-------------------------- MODULE InventorySignOff --------------------------
(***************************************************************************)
(* The lifecycle's handlers implement the sign-off workflow of SignOff.    *)
(***************************************************************************)
EXTENDS InventoryLifecycle, SignOffCase

soundRuns == {<<r.inv, r.no>> : r \in {s \in runs : ~s.voided}}

Workflow == INSTANCE SignOff WITH Numbers <- 1..MaxRuns, sound <- soundRuns,
                                  case <- [i \in Invs |-> caseOf(inv[i])]

\* Every request of the lifecycle is a step of the abstract workflow or leaves it alone: nothing is signed
\* that was not put forward, nothing issued that was not signed, nothing issued is ever taken back, and
\* what is taken back leaves no trace behind (specs 05.2, 05.8).
ImplementsSignOff == Workflow!Spec
=============================================================================
