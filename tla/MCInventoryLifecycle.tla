------------------------ MODULE MCInventoryLifecycle ------------------------
(***************************************************************************)
(* Small instances of InventoryLifecycle for TLC.                          *)
(***************************************************************************)
EXTENDS InventorySignOff, InventoryOffers, TLC

CONSTANTS ana, ben, eve, i1, i2, i3, v1, v2, v3

OwnersOnly == {"OWNER"}
WriteRoles == {"OWNER", "REVIEWER", "PREPARER"}

NothingHeld == {{}}
EveryAct == {{}, {"FREEZE", "RUN"}, {"RUN", "FINAL"}}

Both == {"PRO_RATE", "BLOCK"}
ProRateOnly == {"PRO_RATE"}

BothFollowFirst == {<<i1, i2>>, <<i1, i3>>}
NoneFollows == {}

Symmetric == Permutations({ana, ben})
LaterYears == Permutations({i2, i3})
=============================================================================
