------------------------ MODULE MCOrganizationRaces ------------------------
(***************************************************************************)
(* Two requests at a time over the members of one organization, for TLC.   *)
(***************************************************************************)
EXTENDS OrganizationRaces, TLC

CONSTANTS ana, ben, eve, q1, q2

OwnerOrPreparer == {"OWNER", "PREPARER"}
Symmetric == Permutations({ana, ben, eve}) \cup Permutations({q1, q2})
=============================================================================
