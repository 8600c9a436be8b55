-------------------------- MODULE InventoryOffers --------------------------
(***************************************************************************)
(* What the workspace's pages offer their reader to do, next to what the   *)
(* server does when asked.  A page holds the reader's role, the rows and   *)
(* the gates' report as the server answered them, and enables its controls *)
(* from those alone; the server decides again from its own rows.  An act   *)
(* is accepted when the checks of its handler pass: the guards, May...,    *)
(* that the actions of the lifecycle begin with.                           *)
(*                                                                         *)
(* Source: roles.ts and the components of frontend/src/features/ghg that   *)
(* carry the lifecycle's acts.  The pages are read with every answer up to *)
(* date; what an older answer shows is ClientCache's subject.  The reason  *)
(* fields (at least 5 or 10 characters) are taken as filled in, and a role *)
(* that is still loading counts for every right, so it offers no less.     *)
(***************************************************************************)
EXTENDS InventoryLifecycle

\* GhgService.roleIn: support access is shown as a role of its own.
MyRole(p) == IF UnderSupportAccess(p) THEN "ADMIN" ELSE RoleIn(p)

\* roles.ts
WRITE_ROLES == {"PREPARER", "REVIEWER", "OWNER", "ADMIN"}
APPROVE_ROLES == {"REVIEWER", "OWNER", "ADMIN"}
mayWrite(p) == MyRole(p) \in WRITE_ROLES
mayApprove(p) == MyRole(p) \in APPROVE_ROLES
mayManageMembership(p) == MyRole(p) = "OWNER"

\* Whoever has no role reads "Organization not found".
Readers == {p \in Accounts : MyRole(p) # NotAMember}
Filed == {i \in Invs : Exists(i)}

\* The gates' report: ready for a run, and what waits in front of the freeze.
ReportReady(i) ==
  /\ inv[i].status \notin {"ABSENT", "DRAFT"}
  /\ "RUN" \notin holds[inv[i].view]
  /\ ~(inv[i].straddle = "BLOCK" /\ inv[i].view \in Straddling)
FreezeBlocked(i) == "FREEZE" \in holds[inv[i].view]

\* The facilities in the boundary, as the boundary's answer carries them.
Sited(i) == inv[i].view \notin Unsited

\* InventoryService.submitterMaySign, as the inventory's answer carries it.
SubmitterMaySign(i) == inv[i].submittedBy # NoOne /\ ~AnotherApprover(inv[i].submittedBy)

When(condition, acts) == IF condition THEN acts ELSE {}

-----------------------------------------------------------------------------
(* Faulty variants of the offers, used by no definition. *)

\* The freeze's dialog does not read the blockers.
LifecycleOffersUnread(p, i) ==
  When(mayWrite(p) /\ inv[i].status = "DRAFT" /\ Sited(i), {"freeze"})
    \cup When(mayWrite(p) /\ inv[i].status \in {"FROZEN", "IN_REVIEW"}, {"reopen"})
    \cup When(mayApprove(p) /\ inv[i].status = "IN_REVIEW", {"return"})
    \cup When(mayApprove(p) /\ inv[i].status = "FINAL", {"withdraw", "publish"})
    \cup When(mayApprove(p) /\ inv[i].status = "PUBLISHED" /\ inv[i].supersededBy = NoInv, {"supersede"})

\* Every published inventory may be corrected, an already corrected one too.
LifecycleOffersCorrections(p, i) ==
  When(mayWrite(p) /\ inv[i].status = "DRAFT" /\ Sited(i) /\ ~FreezeBlocked(i), {"freeze"})
    \cup When(mayWrite(p) /\ inv[i].status \in {"FROZEN", "IN_REVIEW"}, {"reopen"})
    \cup When(mayApprove(p) /\ inv[i].status = "IN_REVIEW", {"return"})
    \cup When(mayApprove(p) /\ inv[i].status = "FINAL", {"withdraw", "publish"})
    \cup When(mayApprove(p) /\ inv[i].status = "PUBLISHED", {"supersede"})

\* A launch waits until nothing is in review or signed.
LaunchOffersWhenFrozen(p, i) ==
  When(mayWrite(p) /\ ReportReady(i) /\ inv[i].status = "FROZEN", {"launch"})

\* The sign-off is offered to whoever submitted the run.
RunOffersToSubmitters(p, r) ==
  LET i == r.inv
      submitted == inv[i].status = "IN_REVIEW" /\ r.no = inv[i].submittedRun
  IN  When(mayWrite(p) /\ inv[i].status \in {"FROZEN", "IN_REVIEW"} /\ ~r.voided /\ ~submitted, {"submit"})
        \cup When(mayApprove(p) /\ submitted, {"final"})
        \cup When(mayWrite(p) /\ inv[i].status # "PUBLISHED" /\ ~r.voided /\ r.no # inv[i].finalRun, {"void"})

\* The names of the sign-off are an owner's to choose.
SignOffOffersToOwners(p, i) ==
  LET preparers == {m \in Accounts : CanWrite(role[m])} \cup {NoOne, inv[i].preparer}
      approvers == {m \in Accounts : CanApprove(role[m])} \cup {NoOne, inv[i].approver}
  IN  When(mayManageMembership(p) /\ inv[i].status # "PUBLISHED",
           (preparers \X approvers) \ {<<inv[i].preparer, inv[i].approver>>})

\* Only a candidate whose recalculation is required asks for a decision.
DecisionOffersRequired(p) == When(mayWrite(p) /\ baseYear # NoInv, candidates \cap {"ABOVE"})

-----------------------------------------------------------------------------
(* The offers, page by page: each a set of acts. *)

\* InventoriesPage and the workbench's "Edit inventory" and tabs.
PageOffers(p, i) ==
  When(inv[i].status # "PUBLISHED", {"delete"})
    \cup When(mayWrite(p) /\ inv[i].status = "DRAFT", {"update", "edit"})

LifecycleOffers(p, i) ==
  When(mayWrite(p) /\ inv[i].status = "DRAFT" /\ Sited(i) /\ ~FreezeBlocked(i), {"freeze"})
    \cup When(mayWrite(p) /\ inv[i].status \in {"FROZEN", "IN_REVIEW"}, {"reopen"})
    \cup When(mayApprove(p) /\ inv[i].status = "IN_REVIEW", {"return"})
    \cup When(mayApprove(p) /\ inv[i].status = "FINAL", {"withdraw", "publish"})
    \cup When(mayApprove(p) /\ inv[i].status = "PUBLISHED" /\ inv[i].supersededBy = NoInv, {"supersede"})

LaunchOffers(p, i) == When(mayWrite(p) /\ ReportReady(i) /\ inv[i].status # "PUBLISHED", {"launch"})

RunOffers(p, r) ==
  LET i == r.inv
      submitted == inv[i].status = "IN_REVIEW" /\ r.no = inv[i].submittedRun
      selfSignRefused == p = inv[i].submittedBy /\ ~SubmitterMaySign(i)
  IN  When(mayWrite(p) /\ inv[i].status \in {"FROZEN", "IN_REVIEW"} /\ ~r.voided /\ ~submitted, {"submit"})
        \cup When(mayApprove(p) /\ submitted /\ ~selfSignRefused, {"final"})
        \cup When(mayWrite(p) /\ inv[i].status # "PUBLISHED" /\ ~r.voided /\ r.no # inv[i].finalRun, {"void"})

\* The two selects hold the members whose role fits, and whoever was named before, member or not.
SignOffOffers(p, i) ==
  LET preparers == {m \in Accounts : CanWrite(role[m])} \cup {NoOne, inv[i].preparer}
      approvers == {m \in Accounts : CanApprove(role[m])} \cup {NoOne, inv[i].approver}
  IN  When(mayApprove(p) /\ inv[i].status # "PUBLISHED",
           (preparers \X approvers) \ {<<inv[i].preparer, inv[i].approver>>})

\* The whole settings page is an owner's by membership.
MemberOffers(p, m) ==
  When(mayManageMembership(p), IF role[m] = NotAMember THEN {"add"} ELSE {"change", "remove"})
OrganizationOffers(p) ==
  When(mayManageMembership(p) /\ \A i \in Filed : inv[i].status \notin {"FINAL", "PUBLISHED"} /\ inv[i].finalRun = NoNumber,
       {"delete organization"})

BaseYearOffers(p) == When(mayWrite(p) /\ baseYear # NoInv, {"clear", "raise"})
\* The buttons stand on the undecided rows of the history only.
DecisionOffers(p) == When(mayWrite(p) /\ baseYear # NoInv, candidates \cap Undecided)
DesignationOffers(p) == When(mayWrite(p), Filed)
CreationOffers(p) == When(mayWrite(p), Invs \ Filed)

-----------------------------------------------------------------------------
(* What the server does when asked, and what no page can tell before it asks. *)

PageAccepts(p, i, act) ==
  CASE act = "delete" -> MayDelete(p, i)
    [] act = "update" -> MayUpdate(p, i)
    [] act = "edit" -> MayEditView(p, i)

LifecycleAccepts(p, i, act) ==
  CASE act = "freeze" -> MayFreeze(p, i)
    [] act = "reopen" -> MayReopen(p, i)
    [] act = "return" -> MayReturnToPreparer(p, i)
    [] act = "withdraw" -> MayWithdrawFinal(p, i)
    [] act = "publish" -> MayPublish(p, i)
    [] act = "supersede" -> MaySupersede(p, i)

RunAccepts(p, r, act) ==
  CASE act = "submit" -> MaySubmitForReview(p, r)
    [] act = "final" -> MayDesignateFinal(p, r)
    [] act = "void" -> MayVoidRun(p, r)

\* Another role for m: the form offers them all, and an owner's is always among them.
MemberAccepts(p, m, act) ==
  CASE act = "add" -> MayAddMember(p, m)
    [] act = "change" -> \A r \in OfferedRoles : MayChangeMemberRole(p, m, r)
    [] act = "remove" -> MayRemoveMember(p, m)

BaseYearAccepts(p, act) ==
  CASE act = "clear" -> MayClearBaseYear(p)
    [] act = "raise" -> MayRaiseCandidate(p)

Namings == (Accounts \cup {NoOne}) \X (Accounts \cup {NoOne})

\* The named approver and the base year's hold are not on the lifecycle's controls.
LifecycleUnseen(p, i) ==
  When(~IsTheApprover(p, i), {"return"}) \cup When(RecalculationHolds(i), {"publish"})

RunUnseen(p, r) ==
  LET i == r.inv IN
  When(inv[i].preparer \notin {NoOne, p} \/ inv[i].approver = p \/ RecalculationHolds(i) \/ FinalHolds(i), {"submit"})
    \cup When(~IsTheApprover(p, i) \/ RecalculationHolds(i) \/ FinalHolds(i), {"final"})

\* The card lets one person be both, and keeps a name whose bearer left or lost the role: saving the other
\* select alone is then refused until that one is chosen again.
SignOffUnseen ==
  {pair \in Namings :
     \/ pair[1] = pair[2] /\ pair[1] # NoOne
     \/ pair[1] # NoOne /\ ~CanWrite(role[pair[1]])
     \/ pair[2] # NoOne /\ ~CanApprove(role[pair[2]])}

\* The last owner's role and row.
MemberUnseen(m) == When(IsLastOwner(m) /\ role[m] = "OWNER", {"change", "remove"})

-----------------------------------------------------------------------------
\* A control that is enabled on an up-to-date page does what it says: the server refuses it only for a
\* reason the page does not show (a named preparer or approver, a hold on the figure, the last owner),
\* and the list's Delete for the reader's role (spec 01.4).
OfferedIsAccepted ==
  \A p \in Readers :
    /\ \A i \in Filed :
         /\ \A act \in PageOffers(p, i) \ When(~MayWrite(p), {"delete"}) : PageAccepts(p, i, act)
         /\ \A act \in LifecycleOffers(p, i) \ LifecycleUnseen(p, i) : LifecycleAccepts(p, i, act)
         /\ LaunchOffers(p, i) # {} => MayLaunchRun(p, i)
         /\ \A pair \in SignOffOffers(p, i) \ SignOffUnseen : MayAssignSignOff(p, i, pair[1], pair[2])
    /\ \A r \in runs : \A act \in RunOffers(p, r) \ RunUnseen(p, r) : RunAccepts(p, r, act)
    /\ \A m \in Accounts : \A act \in MemberOffers(p, m) \ MemberUnseen(m) : MemberAccepts(p, m, act)
    /\ OrganizationOffers(p) # {} => MayDeleteOrganization(p)
    /\ \A act \in BaseYearOffers(p) : BaseYearAccepts(p, act)
    /\ \A kind \in DecisionOffers(p) : MayDecideCandidate(p, kind)
    /\ \A i \in DesignationOffers(p) : MaySetBaseYear(p, i)
    /\ \A i \in CreationOffers(p) : MayCreate(p, i)

\* What a step does for p was on offer.
OfferedTo(p) ==
  /\ \A i \in Invs : inv'[i] # inv[i] =>
       /\ Create(p, i) => i \in CreationOffers(p)
       /\ Delete(p, i) => "delete" \in PageOffers(p, i)
       /\ Update(p, i) /\ inv[i].status = "DRAFT" => "update" \in PageOffers(p, i)
       /\ EditView(p, i) => "edit" \in PageOffers(p, i)
       /\ Freeze(p, i) /\ inv[i].view \notin Unsited \ Unbounded => "freeze" \in LifecycleOffers(p, i)
       /\ Reopen(p, i) => "reopen" \in LifecycleOffers(p, i)
       /\ ReturnToPreparer(p, i) => "return" \in LifecycleOffers(p, i)
       /\ WithdrawFinal(p, i) => "withdraw" \in LifecycleOffers(p, i)
       /\ Publish(p, i) => "publish" \in LifecycleOffers(p, i)
       /\ (\E j \in Invs : Supersede(p, i, j)) => "supersede" \in LifecycleOffers(p, i)
  /\ inv' # inv => \A r \in runs :
       /\ SubmitForReview(p, r) /\ r.no # inv[r.inv].submittedRun => "submit" \in RunOffers(p, r)
       /\ DesignateFinal(p, r) => "final" \in RunOffers(p, r)
  /\ runs' # runs =>
       /\ \A i \in Invs : LaunchRun(p, i) => "launch" \in LaunchOffers(p, i)
       /\ \A r \in runs : VoidRun(p, r) => "void" \in RunOffers(p, r)
  /\ <<baseYear, candidates>>' # <<baseYear, candidates>> =>
       /\ \A i \in Invs : SetBaseYear(p, i) => i \in DesignationOffers(p)
       /\ ClearBaseYear(p) => "clear" \in BaseYearOffers(p)
       /\ RaiseCandidate(p) => "raise" \in BaseYearOffers(p)
       /\ \A kind \in Undecided : DecideCandidate(p, kind) => kind \in DecisionOffers(p)
  /\ DeleteOrganization(p) => "delete organization" \in OrganizationOffers(p)

\* Whatever the server does for an account that changes anything, its up-to-date page offered: nobody is
\* locked out of an act by a screen. Four acts are left to the server: the settings of an inventory that is no
\* longer a draft, the freeze of a boundary whose entities have no facility, putting the run in review forward
\* once more, and deciding a decided candidate again.
ActsAreOffered == [][\A p \in Accounts : OfferedTo(p)]_vars

\* The same of the acts on people: whoever the server lets name another preparer or approver, add, promote
\* or remove a member found the control that does it.
ActsOnPeopleAreOffered ==
  [][\A p \in Accounts :
       /\ inv' # inv => \A i \in Invs :
            LET pair == <<inv'[i].preparer, inv'[i].approver>>
            IN  AssignSignOff(p, i, pair[1], pair[2]) => pair \in SignOffOffers(p, i)
       /\ role' # role => \A m \in Accounts :
            /\ (\E r \in OfferedRoles : AddMember(p, m, r)) => "add" \in MemberOffers(p, m)
            /\ (\E r \in OfferedRoles : ChangeMemberRole(p, m, r)) => "change" \in MemberOffers(p, m)
            /\ RemoveMember(p, m) => "remove" \in MemberOffers(p, m)]_vars
=============================================================================
