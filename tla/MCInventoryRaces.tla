-------------------------- MODULE MCInventoryRaces --------------------------
(***************************************************************************)
(* Two requests at a time over one inventory, for TLC.                     *)
(***************************************************************************)
EXTENDS InventoryRaces, TLC

CONSTANTS ana, ben, q1, q2, v1, v2

Symmetric == Permutations({ana, ben}) \cup Permutations({q1, q2})
Connections == Permutations({q1, q2})
=============================================================================
