------------------------- MODULE OrganizationAccess -------------------------
(***************************************************************************)
(* Who may act in one organization: its members and their roles, and the   *)
(* support grants platform administrators hold on it.  The guards every    *)
(* handler of the inventory lifecycle starts with are defined here.        *)
(*                                                                         *)
(* Source: ghg/internal/GhgAccess.java, OrgRole.java, the member handlers  *)
(* of GhgService.java and SupportAccessService.java.  A request is one     *)
(* transaction and is atomic in this module; OrganizationRaces splits the  *)
(* member handlers into their reads and their writes.                      *)
(***************************************************************************)
CONSTANTS
  Accounts,      \* the platform accounts
  Admins,        \* the accounts with the platform's ADMIN role
  OfferedRoles   \* the roles the member form offers (a bound: all of OrgRole in the product)

\* OrgRole.java
OrgRole == {"OWNER", "REVIEWER", "PREPARER", "VERIFIER"}
NotAMember == "NONE"

ASSUME AdminsAssumption == Admins \subseteq Accounts
ASSUME RolesAssumption == OfferedRoles \subseteq OrgRole /\ "OWNER" \in OfferedRoles

VARIABLES
  role,      \* the members' roles; NotAMember for everyone else
  grants,    \* the administrators holding a support grant that is neither ended nor expired
  removed    \* the organization carries its tombstone

accessVars == <<role, grants, removed>>

-----------------------------------------------------------------------------
\* The caller's role: a member's own, OWNER under support access, none in a removed organization.
RoleIn(p) ==
  CASE removed                             -> NotAMember
    [] ~removed /\ role[p] # NotAMember    -> role[p]
    [] ~removed /\ role[p] = NotAMember    -> IF p \in grants THEN "OWNER" ELSE NotAMember

UnderSupportAccess(p) == ~removed /\ p \in grants /\ role[p] = NotAMember

CanWrite(r)   == r \in OrgRole \ {"VERIFIER"}
CanApprove(r) == r \in {"OWNER", "REVIEWER"}

MayWrite(p)   == CanWrite(RoleIn(p))
MayApprove(p) == CanApprove(RoleIn(p))
MemberOwner(p) == RoleIn(p) = "OWNER" /\ ~UnderSupportAccess(p)

\* countByOrganizationIdAndRole(OWNER) <= 1, for a member m who is an owner.
IsLastOwner(m) == \A p \in Accounts : role[p] = "OWNER" => p = m

-----------------------------------------------------------------------------
\* createOrganization seats exactly one owner, whoever that is.
AccessInit ==
  /\ \E first \in Accounts : role = [p \in Accounts |-> IF p = first THEN "OWNER" ELSE NotAMember]
  /\ grants = {}
  /\ removed = FALSE

\* The checks of the member handlers, which are an owner's by membership.
MayAddMember(p, m) == MemberOwner(p) /\ role[m] = NotAMember
MayChangeMemberRole(p, m, r) ==
  /\ MemberOwner(p)
  /\ role[m] # NotAMember
  /\ ~(role[m] = "OWNER" /\ r # "OWNER" /\ IsLastOwner(m))
MayRemoveMember(p, m) ==
  /\ MemberOwner(p)
  /\ role[m] # NotAMember
  /\ ~(role[m] = "OWNER" /\ IsLastOwner(m))

AddMember(p, m, r) ==
  /\ MayAddMember(p, m)
  /\ role' = [role EXCEPT ![m] = r]
  /\ UNCHANGED <<grants, removed>>

ChangeMemberRole(p, m, r) ==
  /\ MayChangeMemberRole(p, m, r)
  /\ role' = [role EXCEPT ![m] = r]
  /\ UNCHANGED <<grants, removed>>

\* A faulty variant of removeMember, used by no definition: it keeps the row with its role blanked.
RemoveMemberBlanksTheRole(p, m) ==
  /\ MemberOwner(p)
  /\ role[m] # NotAMember
  /\ ~(role[m] = "OWNER" /\ IsLastOwner(m))
  /\ role' = [role EXCEPT ![m] = ""]
  /\ UNCHANGED <<grants, removed>>

RemoveMember(p, m) ==
  /\ MayRemoveMember(p, m)
  /\ role' = [role EXCEPT ![m] = NotAMember]
  /\ UNCHANGED <<grants, removed>>

\* An administrator enters with a reason; a member has no need of it.
AssumeSupportAccess(p) ==
  /\ p \in Admins
  /\ ~removed
  /\ role[p] = NotAMember
  /\ p \notin grants
  /\ grants' = grants \cup {p}
  /\ UNCHANGED <<role, removed>>

EndSupportAccess(p) ==
  /\ ~removed
  /\ p \in grants
  /\ grants' = grants \ {p}
  /\ UNCHANGED <<role, removed>>

\* The grant's window runs out: every read ignores it from then on, before the sweep writes its line.
SupportAccessExpires(p) ==
  /\ p \in grants
  /\ grants' = grants \ {p}
  /\ UNCHANGED <<role, removed>>

\* deleteOrganization, but for the blockers, which are the inventories' (see InventoryLifecycle).
RemoveOrganization(p) ==
  /\ MemberOwner(p)
  /\ removed' = TRUE
  /\ UNCHANGED <<role, grants>>

AccessNext ==
  \E p \in Accounts :
    \/ \E m \in Accounts, r \in OfferedRoles : AddMember(p, m, r) \/ ChangeMemberRole(p, m, r)
    \/ \E m \in Accounts : RemoveMember(p, m)
    \/ AssumeSupportAccess(p)
    \/ EndSupportAccess(p)
    \/ SupportAccessExpires(p)

-----------------------------------------------------------------------------
AccessTypeOK ==
  /\ role \in [Accounts -> OrgRole \cup {NotAMember}]
  /\ grants \in SUBSET Admins
  /\ removed \in BOOLEAN

\* The organization always has an owner by membership (specs 01.2, 01.3): the guards of
\* changeMemberRole and removeMember are all that keeps it so, over any sequence of acts by any owner.
OwnerRemains == \E p \in Accounts : role[p] = "OWNER"
=============================================================================
