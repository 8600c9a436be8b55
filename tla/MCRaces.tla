------------------------------- MODULE MCRaces -------------------------------
(***************************************************************************)
(* Two requests at a time over one inventory, or over the members of its   *)
(* organization, for TLC.  The two tables are disjoint and no handler      *)
(* writes both, so a behavior works on one of them.                        *)
(***************************************************************************)
EXTENDS MCInventoryRaces

CONSTANTS eve, NotAMember

OwnerOrPreparer == {"OWNER", "PREPARER"}

VARIABLES memberRole, memberTx

Members == INSTANCE OrganizationRaces WITH
  Accounts <- Accounts \cup {eve}, Roles <- OwnerOrPreparer,
  role <- memberRole, tx <- memberTx

OnInventory == Next /\ Members!Init /\ UNCHANGED <<memberRole, memberTx>>
OnMembers == Members!Next /\ Init /\ UNCHANGED vars

RacesInit == Init /\ Members!Init

RacesSpec ==
  RacesInit /\ [][OnInventory \/ OnMembers]_<<vars, memberRole, memberTx>>

\* Nobody is seated but by addMember, whatever overlaps (OrganizationRaces).
MembersEnterByAddition == Members!MembersEnterByAddition
=============================================================================
