------------------------- MODULE InventoryLifecycle -------------------------
(***************************************************************************)
(* The inventories of one organization from draft to published record:     *)
(* freeze, run, void, submit, return, sign off, withdraw, publish, correct. *)
(*                                                                         *)
(* Source: ghg/internal/InventoryService.java with Inventory.java.  Every  *)
(* handler is one @Transactional request; here a request is atomic, and    *)
(* InventoryRaces splits requests into their reads and their writes.       *)
(***************************************************************************)
EXTENDS InventoryState

-----------------------------------------------------------------------------
(* Faulty variants of the actions, one per slip a change of the code could make.  No definition uses   *)
(* them: each takes an action's place to show that a property would catch the slip.                    *)

\* voidRun forgets the submission.
VoidRunKeepsSubmission(p, r) ==
  /\ MayWrite(p)
  /\ inv[r.inv].status # "PUBLISHED"
  /\ r.no # inv[r.inv].finalRun
  /\ ~r.voided
  /\ runs' = (runs \ {r}) \cup {[r EXCEPT !.voided = TRUE]}
  /\ UNCHANGED <<inv, versions, factVars, accessVars>>

\* voidRun deletes, as before spec 05.2.
VoidRunDeletes(p, r) ==
  /\ MayWrite(p)
  /\ inv[r.inv].status # "PUBLISHED"
  /\ r.no \notin {inv[r.inv].finalRun, inv[r.inv].submittedRun}
  /\ ~r.voided
  /\ runs' = runs \ {r}
  /\ UNCHANGED <<inv, versions, factVars, accessVars>>

\* voidRun protects the final run only, and not the other runs of a published inventory.
VoidRunOfARecord(p, r) ==
  /\ MayWrite(p)
  /\ r.no # inv[r.inv].finalRun
  /\ ~r.voided
  /\ runs' = (runs \ {r}) \cup {[r EXCEPT !.voided = TRUE]}
  /\ inv' = IF inv[r.inv].status = "IN_REVIEW" /\ r.no = inv[r.inv].submittedRun
              THEN [inv EXCEPT ![r.inv] = Withdrawn(inv[r.inv])]
              ELSE inv
  /\ UNCHANGED <<versions, factVars, accessVars>>

\* withdrawFinal clears the submission and leaves the sign-off.
WithdrawFinalKeepsTheRun(p, i) ==
  /\ MayApprove(p)
  /\ inv[i].status = "FINAL"
  /\ inv' = [inv EXCEPT ![i] = Withdrawn(inv[i])]
  /\ UNCHANGED <<runs, versions, factVars, accessVars>>

\* withdrawFinal forgets the self-approval flag.
WithdrawFinalKeepsTheFlag(p, i) ==
  /\ MayApprove(p)
  /\ inv[i].status = "FINAL"
  /\ inv' = [inv EXCEPT ![i] = [Withdrawn(inv[i]) EXCEPT !.finalRun = NoNumber, !.signer = NoOne]]
  /\ UNCHANGED <<runs, versions, factVars, accessVars>>

\* designateFinal asks the owners only whether another could check.
DesignateFinalAsksOwners(p, r) ==
  LET i == r.inv IN
  /\ MayApprove(p)
  /\ inv[i].status = "IN_REVIEW"
  /\ ~r.voided
  /\ r.no = inv[i].submittedRun
  /\ IsTheApprover(p, i)
  /\ p = inv[i].submittedBy => \A q \in Accounts \ {p} : role[q] # "OWNER"
  /\ inv' = [inv EXCEPT ![i].status = "FINAL", ![i].finalRun = r.no, ![i].signer = p,
                        ![i].selfApproved = (p = inv[i].submittedBy)]
  /\ UNCHANGED <<runs, versions, factVars, accessVars>>

\* update lets the period, the approach and the GWP set change while the inventory is frozen.
UpdateWhileFrozen(p, i) ==
  /\ MayWrite(p)
  /\ Exists(i) /\ inv[i].status # "PUBLISHED"
  /\ \E v \in Views, s \in Treatments : inv' = [inv EXCEPT ![i].view = v, ![i].straddle = s]
  /\ UNCHANGED <<runs, versions, factVars, accessVars>>

\* The foreign key of superseded_by_id does nothing on delete.
DeleteLeavesThePointer(p, i) ==
  /\ MayWrite(p)
  /\ Exists(i) /\ inv[i].status # "PUBLISHED"
  /\ inv' = [inv EXCEPT ![i] = Absent]
  /\ runs' = {r \in runs : r.inv # i}
  /\ versions' = {w \in versions : w.inv # i}
  /\ UNCHANGED <<factVars, accessVars>>

\* publish trusts the sign-off's check of the base-year hold.
PublishUnheld(p, i) ==
  /\ MayApprove(p)
  /\ inv[i].status = "FINAL"
  /\ inv' = [inv EXCEPT ![i].status = "PUBLISHED"]
  /\ UNCHANGED <<runs, versions, factVars, accessVars>>

\* publish takes the run in review for the final one.
PublishFromReview(p, i) ==
  /\ MayApprove(p)
  /\ inv[i].status \in {"IN_REVIEW", "FINAL"}
  /\ ~RecalculationHolds(i)
  /\ inv' = [inv EXCEPT ![i].status = "PUBLISHED"]
  /\ UNCHANGED <<runs, versions, factVars, accessVars>>

\* deletionBlockers lists the published inventories only.
DeleteOrganizationUnlessPublished(p) ==
  /\ \A i \in Invs : inv[i].status # "PUBLISHED"
  /\ RemoveOrganization(p)
  /\ UNCHANGED <<recordVars, factVars>>

-----------------------------------------------------------------------------
(* The checks of the handlers: what lets a request of p through. What a handler does after them cannot *)
(* be refused, but for the bounds of the model.                                                       *)

MayCreate(p, i) == MayWrite(p) /\ ~Exists(i)
MayUpdate(p, i) == MayWrite(p) /\ Exists(i) /\ inv[i].status # "PUBLISHED"
MayEditView(p, i) == MayWrite(p) /\ IsEditable(i)
MayDelete(p, i) == MayWrite(p) /\ Exists(i) /\ inv[i].status # "PUBLISHED"
MayFreeze(p, i) ==
  /\ MayWrite(p)
  /\ IsEditable(i)
  /\ inv[i].view \notin Unbounded
  /\ "FREEZE" \notin holds[inv[i].view]
MayReopen(p, i) == MayWrite(p) /\ inv[i].status \in {"FROZEN", "IN_REVIEW"}
MayLaunchRun(p, i) ==
  /\ MayWrite(p)
  /\ AllowsRuns(i)
  /\ "RUN" \notin holds[inv[i].view]
  /\ ~(inv[i].straddle = "BLOCK" /\ inv[i].view \in Straddling)
MayVoidRun(p, r) ==
  /\ MayWrite(p)
  /\ inv[r.inv].status # "PUBLISHED"
  /\ r.no # inv[r.inv].finalRun
  /\ ~r.voided
MaySubmitForReview(p, r) ==
  LET i == r.inv IN
  /\ MayWrite(p)
  /\ inv[i].status \in {"FROZEN", "IN_REVIEW"}
  /\ ~r.voided
  /\ inv[i].preparer \in {NoOne, p}
  /\ inv[i].approver # p
  /\ ~RecalculationHolds(i)
  /\ ~FinalHolds(i)
MayReturnToPreparer(p, i) ==
  /\ MayApprove(p)
  /\ inv[i].status = "IN_REVIEW"
  /\ IsTheApprover(p, i)
\* Roles are the ceiling when the two are named; NoOne clears.
MayAssignSignOff(p, i, preparer, approver) ==
  /\ MayApprove(p)
  /\ Exists(i) /\ inv[i].status # "PUBLISHED"
  /\ preparer \in {NoOne} \cup {m \in Accounts : CanWrite(role[m])}
  /\ approver \in {NoOne} \cup {m \in Accounts : CanApprove(role[m])}
  /\ preparer = NoOne \/ preparer # approver
\* The sign-off: the submitted run only, and by its submitter only where nobody else may approve.
MayDesignateFinal(p, r) ==
  LET i == r.inv IN
  /\ MayApprove(p)
  /\ inv[i].status = "IN_REVIEW"
  /\ ~r.voided
  /\ r.no = inv[i].submittedRun
  /\ IsTheApprover(p, i)
  /\ p = inv[i].submittedBy => ~AnotherApprover(p)
  /\ ~RecalculationHolds(i)
  /\ ~FinalHolds(i)
MayWithdrawFinal(p, i) == MayApprove(p) /\ inv[i].status = "FINAL"
MayPublish(p, i) ==
  /\ MayApprove(p)
  /\ inv[i].status = "FINAL"
  /\ ~RecalculationHolds(i)
MaySupersede(p, i) ==
  /\ MayApprove(p)
  /\ inv[i].status = "PUBLISHED"
  /\ inv[i].supersededBy = NoInv
MaySetBaseYear(p, i) == MayWrite(p) /\ Exists(i)
MayRaiseCandidate(p) == MayWrite(p) /\ baseYear # NoInv
\* Any candidate on file, a decided one too.
MayDecideCandidate(p, kind) == MayWrite(p) /\ baseYear # NoInv /\ kind \in candidates
MayClearBaseYear(p) == MayWrite(p) /\ baseYear # NoInv
\* deleteOrganization's blockers: a final or published inventory, or one with a final run.
MayDeleteOrganization(p) ==
  /\ MemberOwner(p)
  /\ \A i \in Invs : inv[i].status \notin {"FINAL", "PUBLISHED"} /\ inv[i].finalRun = NoNumber

-----------------------------------------------------------------------------
Init ==
  /\ AccessInit
  /\ inv = [i \in Invs |-> Absent]
  /\ runs = {} /\ versions = {}
  /\ holds \in [Views -> Circumstances]
  /\ baseYear = NoInv /\ candidates = {}

\* A blank, a prefilled or a copied view: any content.
Create(p, i) ==
  /\ MayCreate(p, i)
  /\ \E v \in Views, s \in Treatments : inv' = [inv EXCEPT ![i] = Row("DRAFT", v, s)]
  /\ UNCHANGED <<runs, versions, factVars, accessVars>>

\* Name, purpose and the straddle treatment follow the request in any state before publication; the
\* period, the approach and the GWP set (part of the view) only in a draft.
Update(p, i) ==
  /\ MayUpdate(p, i)
  /\ \E v \in Views, s \in Treatments :
       /\ ~IsEditable(i) => v = inv[i].view
       /\ inv' = [inv EXCEPT ![i].view = v, ![i].straddle = s]
  /\ UNCHANGED <<runs, versions, factVars, accessVars>>

\* Every write of the boundary, the instruments, the declaration and the assignments is behind
\* requireEditable.
EditView(p, i) ==
  /\ MayEditView(p, i)
  /\ \E v \in Views : inv' = [inv EXCEPT ![i].view = v]
  /\ UNCHANGED <<runs, versions, factVars, accessVars>>

\* The database cascades: runs and versions go with the row, pointers to it become null, and a base
\* year designated on it goes with its candidates.
Delete(p, i) ==
  /\ MayDelete(p, i)
  /\ inv' = [j \in Invs |->
                CASE j = i -> Absent
                  [] j # i /\ inv[j].supersededBy = i -> [inv[j] EXCEPT !.supersededBy = NoInv]
                  [] OTHER -> inv[j]]
  /\ runs' = {r \in runs : r.inv # i}
  /\ versions' = {w \in versions : w.inv # i}
  /\ IF baseYear = i THEN baseYear' = NoInv /\ candidates' = {} ELSE UNCHANGED <<baseYear, candidates>>
  /\ UNCHANGED <<holds, accessVars>>

\* The candidates on file once some of the given kinds were decided; others of a kind may be left.
Decided(kinds) ==
  IF kinds = {} THEN {candidates}
  ELSE {(candidates \ gone) \cup {"DECIDED"} : gone \in SUBSET kinds}

\* Cutting a version weighs it against the base year, which may supersede candidates and raise one.
Weigh(i) ==
  /\ IF baseYear \notin {NoInv, i} /\ \E r \in runs : r.inv = baseYear
       THEN \E superseded \in SUBSET (candidates \cap Undecided), raised \in {{}, {"ABOVE"}, {"BELOW"}} :
              candidates' \in {left \cup raised : left \in Decided(superseded)}
       ELSE UNCHANGED candidates
  /\ UNCHANGED baseYear

Freeze(p, i) ==
  /\ MayFreeze(p, i)
  /\ \E n \in 1..MaxVersions :
       /\ IsNextNumber(versions, i, n)
       /\ versions' = versions \cup {[inv |-> i, no |-> n, view |-> inv[i].view]}
       /\ inv' = [inv EXCEPT ![i].status = "FROZEN", ![i].version = n]
  /\ Weigh(i)
  /\ UNCHANGED <<runs, holds, accessVars>>

Reopen(p, i) ==
  /\ MayReopen(p, i)
  /\ inv' = [inv EXCEPT ![i] = [Withdrawn(inv[i]) EXCEPT !.status = "DRAFT"]]
  /\ UNCHANGED <<runs, versions, factVars, accessVars>>

\* A run launched in review withdraws the submission.
LaunchRun(p, i) ==
  /\ MayLaunchRun(p, i)
  /\ \E n \in 1..MaxRuns :
       /\ IsNextNumber(runs, i, n)
       /\ runs' = runs \cup {[inv |-> i, no |-> n, version |-> inv[i].version,
                              view |-> inv[i].view, voided |-> FALSE]}
  /\ inv' = IF inv[i].status = "IN_REVIEW" THEN [inv EXCEPT ![i] = Withdrawn(inv[i])] ELSE inv
  /\ UNCHANGED <<versions, factVars, accessVars>>

VoidRun(p, r) ==
  /\ MayVoidRun(p, r)
  /\ runs' = (runs \ {r}) \cup {[r EXCEPT !.voided = TRUE]}
  /\ inv' = IF inv[r.inv].status = "IN_REVIEW" /\ r.no = inv[r.inv].submittedRun
              THEN [inv EXCEPT ![r.inv] = Withdrawn(inv[r.inv])]
              ELSE inv
  /\ UNCHANGED <<versions, factVars, accessVars>>

SubmitForReview(p, r) ==
  LET i == r.inv IN
  /\ MaySubmitForReview(p, r)
  /\ inv' = [inv EXCEPT ![i].status = "IN_REVIEW", ![i].submittedRun = r.no, ![i].submittedBy = p]
  /\ UNCHANGED <<runs, versions, factVars, accessVars>>

ReturnToPreparer(p, i) ==
  /\ MayReturnToPreparer(p, i)
  /\ inv' = [inv EXCEPT ![i] = Withdrawn(inv[i])]
  /\ UNCHANGED <<runs, versions, factVars, accessVars>>

AssignSignOff(p, i, preparer, approver) ==
  /\ MayAssignSignOff(p, i, preparer, approver)
  /\ inv' = [inv EXCEPT ![i].preparer = preparer, ![i].approver = approver]
  /\ UNCHANGED <<runs, versions, factVars, accessVars>>

DesignateFinal(p, r) ==
  LET i == r.inv IN
  /\ MayDesignateFinal(p, r)
  /\ inv' = [inv EXCEPT ![i].status = "FINAL", ![i].finalRun = r.no, ![i].signer = p,
                        ![i].selfApproved = (p = inv[i].submittedBy)]
  /\ UNCHANGED <<runs, versions, factVars, accessVars>>

WithdrawFinal(p, i) ==
  /\ MayWithdrawFinal(p, i)
  /\ inv' = [inv EXCEPT ![i] = [Withdrawn(inv[i]) EXCEPT !.finalRun = NoNumber, !.signer = NoOne,
                                                         !.selfApproved = FALSE]]
  /\ UNCHANGED <<runs, versions, factVars, accessVars>>

Publish(p, i) ==
  /\ MayPublish(p, i)
  /\ inv' = [inv EXCEPT ![i].status = "PUBLISHED"]
  /\ UNCHANGED <<runs, versions, factVars, accessVars>>

\* A correction is a new draft over the copied view, less what the organization removed since; nobody's
\* sign-off is inherited.
Supersede(p, i, j) ==
  /\ MaySupersede(p, i)
  /\ ~Exists(j)
  /\ \E v \in Views :
       inv' = [inv EXCEPT ![j] = Row("DRAFT", v, inv[i].straddle), ![i].supersededBy = j]
  /\ UNCHANGED <<runs, versions, factVars, accessVars>>

\* A record, a factor's approval or a density changes; the views that read it are held otherwise.
ChangeFacts(p, v) ==
  /\ MayWrite(p)
  /\ \E c \in Circumstances : holds' = [holds EXCEPT ![v] = c]
  /\ UNCHANGED <<recordVars, baseYear, candidates, accessVars>>

\* Designating (or re-designating) the base year keeps the candidates and sweeps the frozen
\* inventories for more.
SetBaseYear(p, i) ==
  /\ MaySetBaseYear(p, i)
  /\ baseYear' = i
  /\ IF \E r \in runs : r.inv = i
       THEN candidates' \in {candidates \cup raised : raised \in SUBSET Undecided}
       ELSE UNCHANGED candidates
  /\ UNCHANGED <<recordVars, holds, accessVars>>

RaiseCandidate(p) ==
  /\ MayRaiseCandidate(p)
  /\ \E kind \in Undecided : candidates' = candidates \cup {kind}
  /\ UNCHANGED <<recordVars, holds, baseYear, accessVars>>

DecideCandidate(p, kind) ==
  /\ MayDecideCandidate(p, kind)
  /\ candidates' \in Decided({kind})
  /\ UNCHANGED <<recordVars, holds, baseYear, accessVars>>

ClearBaseYear(p) ==
  /\ MayClearBaseYear(p)
  /\ baseYear' = NoInv /\ candidates' = {}
  /\ UNCHANGED <<recordVars, holds, accessVars>>

DeleteOrganization(p) ==
  /\ MayDeleteOrganization(p)
  /\ RemoveOrganization(p)
  /\ UNCHANGED <<recordVars, factVars>>

-----------------------------------------------------------------------------
InventoryActs(p) ==
  \/ \E i \in Invs :
       \/ Create(p, i) \/ Update(p, i) \/ EditView(p, i) \/ Delete(p, i)
       \/ Freeze(p, i) \/ Reopen(p, i) \/ LaunchRun(p, i)
       \/ ReturnToPreparer(p, i) \/ WithdrawFinal(p, i) \/ Publish(p, i)
       \/ \E a, b \in Accounts \cup {NoOne} : AssignSignOff(p, i, a, b)
       \/ \E j \in Invs : Supersede(p, i, j)
  \/ \E r \in runs : VoidRun(p, r) \/ SubmitForReview(p, r) \/ DesignateFinal(p, r)

BaseYearActs(p) ==
  \/ \E i \in Bases : SetBaseYear(p, i)
  \/ RaiseCandidate(p) \/ ClearBaseYear(p)
  \/ \E kind \in CandidateKinds : DecideCandidate(p, kind)

Next ==
  \/ \E p \in Accounts :
       \/ InventoryActs(p)
       \/ BaseYearActs(p)
       \/ \E v \in Views : ChangeFacts(p, v)
       \/ DeleteOrganization(p)
  \/ AccessNext /\ UNCHANGED <<recordVars, factVars>>

Spec == Init /\ [][Next]_vars

-----------------------------------------------------------------------------
TypeOK ==
  /\ AccessTypeOK
  /\ inv \in [Invs -> Inventory \cup {Absent}]
  /\ runs \subseteq Run
  /\ versions \subseteq Version
  /\ holds \in [Views -> SUBSET HeldActs]
  /\ baseYear \in Invs \cup {NoInv}
  /\ candidates \subseteq CandidateKinds

\* A submission stands exactly while the inventory is in review or signed off, and the run it names is
\* one of this inventory's that nobody has voided: a launch, a void, a return, a reopen and a
\* withdrawal each take it along (spec 05.8).
SubmissionStands ==
  \A i \in Invs :
    /\ inv[i].status \in {"IN_REVIEW", "FINAL", "PUBLISHED"} <=> inv[i].submittedRun # NoNumber
    /\ inv[i].submittedRun # NoNumber <=> inv[i].submittedBy # NoOne
    /\ inv[i].submittedRun # NoNumber =>
         \E r \in runs : r.inv = i /\ r.no = inv[i].submittedRun /\ ~r.voided

\* The final run of a signed or published inventory is the run that was submitted, and an unsigned
\* inventory has none (specs 05.2, 05.8).
FinalRunIsTheSubmittedRun ==
  \A i \in Invs :
    IF inv[i].status \in {"FINAL", "PUBLISHED"}
      THEN inv[i].finalRun = inv[i].submittedRun /\ inv[i].signer # NoOne
      ELSE inv[i].finalRun = NoNumber /\ inv[i].signer = NoOne

\* The report says "self-approved" exactly when the signer is the submitter, through any later change
\* of roles and assignments (spec 05.8).
SelfApprovalIsDisclosed ==
  \A i \in Invs : inv[i].selfApproved <=> inv[i].signer # NoOne /\ inv[i].signer = inv[i].submittedBy

\* A run number names one run of its inventory, a version number one version.
NumbersAreUnique ==
  /\ \A r, s \in runs : r.inv = s.inv /\ r.no = s.no => r = s
  /\ \A w, x \in versions : w.inv = x.inv /\ w.no = x.no => w = x

\* The assignments a run snapshots at its launch are the ones its boundary version was cut with:
\* nothing moves under a run between the freeze and the launch (specs 05.1, 05.2).
RunReadsItsVersion ==
  \A r \in runs : \E w \in versions : w.inv = r.inv /\ w.no = r.version /\ w.view = r.view

\* Only a published inventory is superseded, by a correction of its own that exists, and following the
\* corrections never comes back (spec 05.3).
CorrectionsChain ==
  /\ \A i \in Invs : inv[i].supersededBy # NoInv =>
       /\ inv[i].status = "PUBLISHED"
       /\ Exists(inv[i].supersededBy)
  /\ \A i, j \in Invs : inv[i].supersededBy # NoInv /\ inv[i].supersededBy = inv[j].supersededBy => i = j
  /\ \A S \in (SUBSET Invs) \ {{}} : \E i \in S : inv[i].supersededBy \notin S

\* An organization that holds a signed or published inventory never carries the tombstone (spec 01.3).
RecordsOutliveTheOrganization ==
  removed => \A i \in Invs : inv[i].status \notin {"FINAL", "PUBLISHED"}

-----------------------------------------------------------------------------
\* A signature is another's than the submitter's, or it is a member's whom no other member could check:
\* an administrator under support access never signs their own submission (spec 05.8), because the
\* organization keeps an owner.
SignedByAnother ==
  [][\A i \in Invs :
       inv[i].status # "FINAL" /\ inv'[i].status = "FINAL" =>
         \/ inv'[i].signer # inv'[i].submittedBy
         \/ /\ CanApprove(role[inv'[i].signer])
            /\ \A q \in Accounts : CanApprove(role[q]) => q = inv'[i].signer]_vars

\* A run on file is never rewritten: it keeps its version and its lines, and once voided stays voided,
\* for as long as its inventory is on file (spec 05.2).
RunsAreARecord ==
  [][\A r \in runs :
       inv'[r.inv].status # "ABSENT" =>
         r \in runs' \/ (~r.voided /\ [r EXCEPT !.voided = TRUE] \in runs')]_vars

\* Once published, the inventory, its runs and its versions never change; only the pointer to a
\* correction is set, once, and cleared when that correction is deleted (specs 05.1, 05.3).
PublishedIsARecord ==
  [][\A i \in Invs :
       inv[i].status = "PUBLISHED" =>
         /\ inv'[i] = [inv[i] EXCEPT !.supersededBy = inv'[i].supersededBy]
         /\ inv'[i].supersededBy # inv[i].supersededBy =>
              inv[i].supersededBy = NoInv \/ inv'[inv[i].supersededBy].status = "ABSENT"
         /\ {r \in runs' : r.inv = i} = {r \in runs : r.inv = i}
         /\ {w \in versions' : w.inv = i} = {w \in versions : w.inv = i}]_vars

\* While a recalculation holds an inventory, no step puts its figure forward, signs or issues it
\* (specs 02.7, 06.1).
HeldFiguresStay ==
  [][\A i \in Invs :
       RecalculationHolds(i) =>
         /\ inv'[i].status \in {"IN_REVIEW", "FINAL", "PUBLISHED"} => inv'[i].status = inv[i].status
         /\ inv'[i].status = "IN_REVIEW" => inv'[i].submittedRun = inv[i].submittedRun]_vars
=============================================================================
