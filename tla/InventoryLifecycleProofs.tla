---------------------- MODULE InventoryLifecycleProofs ----------------------
(***************************************************************************)
(* Proofs about InventoryLifecycle, and about what InventoryOffers says    *)
(* the pages offer of it, for any number of accounts, inventories, runs    *)
(* and versions.                                                           *)
(*                                                                         *)
(* Base is the inductive invariant of the rows, one at a time (Tidy), and  *)
(* gives the type invariant and the sign-off's.  Tables, inductive over    *)
(* Base, relates rows to runs and versions; it is proved against           *)
(* RowEffect, which says once what any request does to any row.  The       *)
(* action properties and the chain of corrections follow from the two.     *)
(***************************************************************************)
EXTENDS InventoryOffers, TLAPS

-----------------------------------------------------------------------------
(* Rows.  What the requests keep of each inventory's row, whatever the other rows are. *)

\* A run stands as submitted exactly from the submission on, with who put it forward; the final run is
\* that run, its signature is disclosed, and only a published inventory is superseded.
Tidy(row) ==
  /\ row.status \in {"IN_REVIEW", "FINAL", "PUBLISHED"} <=> row.submittedRun # NoNumber
  /\ row.submittedRun # NoNumber <=> row.submittedBy # NoOne
  /\ row.status \in {"FINAL", "PUBLISHED"} => row.finalRun = row.submittedRun /\ row.signer # NoOne
  /\ row.status \notin {"FINAL", "PUBLISHED"} => row.finalRun = NoNumber /\ row.signer = NoOne
  /\ row.selfApproved = TRUE <=> row.signer # NoOne /\ row.signer = row.submittedBy
  /\ row.supersededBy # NoInv => row.status = "PUBLISHED"

TidyRow == {row \in Inventory \cup {Absent} : Tidy(row)}

\* A new draft is tidy: it has no run, no submission and no signature.
LEMMA NewRowTidy ==
  ASSUME NEW v \in Views, NEW t \in {"PRO_RATE", "BLOCK"}
  PROVE  Row("DRAFT", v, t) \in TidyRow
  BY DEF Row, Inventory, TidyRow, Tidy, NoNumber, Status

\* So is the row of an inventory that is not on file.
LEMMA AbsentTidy == Absent \in TidyRow
  BY DEF Absent, Row, TidyRow, Tidy, NoNumber

\* The row of an inventory on file is a record of the table.
LEMMA FiledRow ==
  ASSUME NEW row \in TidyRow, row.status # "ABSENT"
  PROVE  row \in Inventory /\ Tidy(row)
  BY DEF Absent, Row, TidyRow

\* Withdrawing a submission leaves a frozen, unsigned row.
LEMMA WithdrawnTidy ==
  ASSUME NEW row \in Inventory, Tidy(row), row.status \in {"FROZEN", "IN_REVIEW"}
  PROVE  Withdrawn(row) \in Inventory /\ Withdrawn(row) \in TidyRow
  BY DEF Withdrawn, Inventory, Status, NoNumber, TidyRow, Tidy

\* The edits that leave the status and the sign-off alone.
LEMMA EditedRowTidy ==
  ASSUME NEW row \in Inventory, Tidy(row), NEW v \in Views, NEW t \in {"PRO_RATE", "BLOCK"},
         NEW a \in Accounts \cup {NoOne}, NEW b \in Accounts \cup {NoOne}
  PROVE  /\ [row EXCEPT !.view = v] \in TidyRow
         /\ [row EXCEPT !.view = v, !.straddle = t] \in TidyRow
         /\ [row EXCEPT !.preparer = a, !.approver = b] \in TidyRow
  <1>1. [row EXCEPT !.view = v] \in TidyRow
    BY DEF Inventory, TidyRow, Tidy
  <1>2. [row EXCEPT !.view = v, !.straddle = t] \in TidyRow
    BY DEF Inventory, TidyRow, Tidy
  <1>3. [row EXCEPT !.preparer = a, !.approver = b] \in TidyRow
    BY DEF Inventory, TidyRow, Tidy
  <1> QED BY <1>1, <1>2, <1>3

\* Freezing a draft cites a version and leaves the sign-off empty.
LEMMA FrozenRowTidy ==
  ASSUME NEW row \in Inventory, Tidy(row), row.status = "DRAFT", NEW n \in Nat
  PROVE  [row EXCEPT !.status = "FROZEN", !.version = n] \in TidyRow
  BY DEF Inventory, TidyRow, Tidy, Status, NoNumber

\* Reopening takes a standing submission along.
LEMMA ReopenedRowTidy ==
  ASSUME NEW row \in Inventory, Tidy(row), row.status \in {"FROZEN", "IN_REVIEW"}
  PROVE  [Withdrawn(row) EXCEPT !.status = "DRAFT"] \in TidyRow
  BY WithdrawnTidy DEF Withdrawn, Inventory, TidyRow, Tidy, Status, NoNumber

\* Submitting a run, for the first time or in place of another, names run and submitter together.
LEMMA SubmittedRowTidy ==
  ASSUME NEW row \in Inventory, Tidy(row), row.status \in {"FROZEN", "IN_REVIEW"},
         NEW n \in Nat \ {0}, NEW p \in Accounts
  PROVE  [row EXCEPT !.status = "IN_REVIEW", !.submittedRun = n, !.submittedBy = p] \in TidyRow
  BY NullAssumption DEF Inventory, TidyRow, Tidy, Status, NoNumber

\* Signing the submitted run discloses a self-approval exactly when there is one.
LEMMA SignedRowTidy ==
  ASSUME NEW row \in Inventory, Tidy(row), row.status = "IN_REVIEW", NEW p \in Accounts
  PROVE  [row EXCEPT !.status = "FINAL", !.finalRun = row.submittedRun, !.signer = p,
                     !.selfApproved = (p = row.submittedBy)] \in TidyRow
  <1>1. CASE p = row.submittedBy
    BY <1>1, NullAssumption DEF Inventory, TidyRow, Tidy, Status, NoNumber
  <1>2. CASE p # row.submittedBy
    BY <1>2, NullAssumption DEF Inventory, TidyRow, Tidy, Status, NoNumber
  <1> QED BY <1>1, <1>2

\* Withdrawing the final designation clears the signature, the final run and the disclosure.
LEMMA UnsignedRowTidy ==
  ASSUME NEW row \in Inventory, Tidy(row), row.status = "FINAL"
  PROVE  [Withdrawn(row) EXCEPT !.finalRun = NoNumber, !.signer = NoOne, !.selfApproved = FALSE]
           \in TidyRow
  BY DEF Withdrawn, Inventory, TidyRow, Tidy, Status, NoNumber

\* Publishing, and setting or clearing the pointer to a correction, keep the signature.
LEMMA PublishedRowTidy ==
  ASSUME NEW row \in Inventory, Tidy(row), NEW j \in Invs \cup {NoInv}
  PROVE  /\ row.status = "FINAL" => [row EXCEPT !.status = "PUBLISHED"] \in TidyRow
         /\ row.status = "PUBLISHED" => [row EXCEPT !.supersededBy = j] \in TidyRow
         /\ [row EXCEPT !.supersededBy = NoInv] \in TidyRow
  BY DEF Inventory, TidyRow, Tidy, Status, NoNumber

-----------------------------------------------------------------------------
(* Types and rows over the steps. *)

Records ==
  /\ inv \in [Invs -> TidyRow]
  /\ runs \subseteq Run
  /\ versions \subseteq Version

Facts ==
  /\ holds \in [Views -> SUBSET HeldActs]
  /\ baseYear \in Invs \cup {NoInv}
  /\ candidates \subseteq CandidateKinds

Base == AccessTypeOK /\ Records /\ Facts

\* The inductive base implies the type invariant.
LEMMA BaseIsTyped == Base => TypeOK
  BY DEF Base, Records, Facts, TypeOK, TidyRow

\* It holds of an organization just created.
LEMMA InitBase == Init => Base
  BY AbsentTidy, RolesAssumption, ViewAssumption
     DEF Init, AccessInit, Base, Records, Facts, AccessTypeOK, OrgRole

\* FiledRow for the table of inventories.
LEMMA RowOnFile ==
  ASSUME Records, NEW i \in Invs, inv[i].status # "ABSENT"
  PROVE  inv[i] \in Inventory /\ Tidy(inv[i])
  BY FiledRow DEF Records

\* Every lifecycle request writes tidy rows and typed runs and versions.
LEMMA RequestKeepsRecords ==
  ASSUME Records, NEW p \in Accounts, InventoryActs(p)
  PROVE  Records'
  <1>1. ASSUME NEW i \in Invs, Create(p, i) PROVE Records'
    <2> PICK v \in Views, t \in Treatments : inv' = [inv EXCEPT ![i] = Row("DRAFT", v, t)]
      BY <1>1 DEF Create, MayCreate
    <2> QED BY <1>1, NewRowTidy, OfferAssumption DEF Create, Records, MayCreate
  <1>2. ASSUME NEW i \in Invs, Update(p, i) PROVE Records'
    <2> PICK v \in Views, t \in Treatments : inv' = [inv EXCEPT ![i].view = v, ![i].straddle = t]
      BY <1>2 DEF Update, MayUpdate
    <2>1. [inv[i] EXCEPT !.view = v, !.straddle = t] \in TidyRow
      BY <1>2, RowOnFile, EditedRowTidy, OfferAssumption DEF Update, Exists, MayUpdate
    <2>2. inv' = [inv EXCEPT ![i] = [inv[i] EXCEPT !.view = v, !.straddle = t]]
      BY DEF Records
    <2> QED BY <1>2, <2>1, <2>2 DEF Update, Records, MayUpdate
  <1>3. ASSUME NEW i \in Invs, EditView(p, i) PROVE Records'
    <2> PICK v \in Views : inv' = [inv EXCEPT ![i].view = v]
      BY <1>3 DEF EditView, MayEditView
    <2>1. [inv[i] EXCEPT !.view = v] \in TidyRow
      BY <1>3, RowOnFile, EditedRowTidy DEF EditView, IsEditable, MayEditView
    <2> QED BY <1>3, <2>1 DEF EditView, Records, MayEditView
  <1>4. ASSUME NEW i \in Invs, Delete(p, i) PROVE Records'
    <2>1. ASSUME NEW j \in Invs, j # i, inv[j].supersededBy = i
          PROVE  [inv[j] EXCEPT !.supersededBy = NoInv] \in TidyRow
      <3>1. inv[j].status # "ABSENT"
        BY <2>1, NullAssumption DEF Records, TidyRow, Tidy
      <3> QED BY <3>1, RowOnFile, PublishedRowTidy
    <2>2. inv' \in [Invs -> TidyRow]
      BY <1>4, <2>1, AbsentTidy DEF Delete, Records, MayDelete
    <2> QED BY <1>4, <2>2 DEF Delete, Records, MayDelete
  <1>5. ASSUME NEW i \in Invs, Freeze(p, i) PROVE Records'
    <2> PICK n \in 1..MaxVersions :
               /\ versions' = versions \cup {[inv |-> i, no |-> n, view |-> inv[i].view]}
               /\ inv' = [inv EXCEPT ![i].status = "FROZEN", ![i].version = n]
      BY <1>5 DEF Freeze, MayFreeze
    <2>1. inv[i] \in Inventory /\ Tidy(inv[i]) /\ inv[i].status = "DRAFT" /\ n \in Nat \ {0}
      BY <1>5, RowOnFile, BoundAssumption DEF Freeze, IsEditable, MayFreeze
    <2>2. [inv[i] EXCEPT !.status = "FROZEN", !.version = n] \in TidyRow
      BY <2>1, FrozenRowTidy
    <2>3. inv' = [inv EXCEPT ![i] = [inv[i] EXCEPT !.status = "FROZEN", !.version = n]]
      BY DEF Records
    <2>4. versions' \subseteq Version
      BY <2>1 DEF Records, Version, Inventory
    <2> QED BY <1>5, <2>2, <2>3, <2>4 DEF Freeze, Records, MayFreeze
  <1>6. ASSUME NEW i \in Invs, Reopen(p, i) PROVE Records'
    <2>1. [Withdrawn(inv[i]) EXCEPT !.status = "DRAFT"] \in TidyRow
      BY <1>6, RowOnFile, ReopenedRowTidy DEF Reopen, MayReopen
    <2> QED BY <1>6, <2>1 DEF Reopen, Records, MayReopen
  <1>7. ASSUME NEW i \in Invs, LaunchRun(p, i) PROVE Records'
    <2>1. inv[i] \in Inventory /\ Tidy(inv[i])
      BY <1>7, RowOnFile DEF LaunchRun, AllowsRuns, MayLaunchRun
    <2>2. inv' \in [Invs -> TidyRow]
      BY <1>7, <2>1, WithdrawnTidy DEF LaunchRun, Records, MayLaunchRun
    <2> PICK n \in 1..MaxRuns :
               runs' = runs \cup {[inv |-> i, no |-> n, version |-> inv[i].version,
                                   view |-> inv[i].view, voided |-> FALSE]}
      BY <1>7 DEF LaunchRun, MayLaunchRun
    <2>4. inv[i].version \in Nat /\ inv[i].view \in Views /\ n \in Nat \ {0}
      BY <2>1, BoundAssumption DEF Inventory
    <2>5. [inv |-> i, no |-> n, version |-> inv[i].version, view |-> inv[i].view, voided |-> FALSE] \in Run
      BY <2>4, Zenon DEF Run
    <2>3. runs' \subseteq Run
      BY <2>5 DEF Records
    <2> QED BY <1>7, <2>2, <2>3 DEF LaunchRun, Records, MayLaunchRun
  <1>8. ASSUME NEW i \in Invs, ReturnToPreparer(p, i) PROVE Records'
    <2>1. Withdrawn(inv[i]) \in TidyRow
      BY <1>8, RowOnFile, WithdrawnTidy DEF ReturnToPreparer, MayReturnToPreparer
    <2> QED BY <1>8, <2>1 DEF ReturnToPreparer, Records, MayReturnToPreparer
  <1>9. ASSUME NEW i \in Invs, WithdrawFinal(p, i) PROVE Records'
    <2>1. [Withdrawn(inv[i]) EXCEPT !.finalRun = NoNumber, !.signer = NoOne, !.selfApproved = FALSE]
            \in TidyRow
      BY <1>9, RowOnFile, UnsignedRowTidy DEF WithdrawFinal, MayWithdrawFinal
    <2> QED BY <1>9, <2>1 DEF WithdrawFinal, Records, MayWithdrawFinal
  <1>10. ASSUME NEW i \in Invs, Publish(p, i) PROVE Records'
    <2>1. [inv[i] EXCEPT !.status = "PUBLISHED"] \in TidyRow
      BY <1>10, RowOnFile, PublishedRowTidy DEF Publish, MayPublish
    <2> QED BY <1>10, <2>1 DEF Publish, Records, MayPublish
  <1>11. ASSUME NEW i \in Invs, NEW a \in Accounts \cup {NoOne}, NEW b \in Accounts \cup {NoOne},
                AssignSignOff(p, i, a, b)
         PROVE  Records'
    <2>1. [inv[i] EXCEPT !.preparer = a, !.approver = b] \in TidyRow
      <3>1. PICK v \in Views, t \in {"PRO_RATE", "BLOCK"} : inv[i].view = v
        BY <1>11, RowOnFile DEF AssignSignOff, Exists, Inventory, MayAssignSignOff
      <3> QED BY <1>11, <3>1, RowOnFile, EditedRowTidy DEF AssignSignOff, Exists, MayAssignSignOff
    <2>2. inv' = [inv EXCEPT ![i] = [inv[i] EXCEPT !.preparer = a, !.approver = b]]
      BY <1>11 DEF AssignSignOff, Records, MayAssignSignOff
    <2> QED BY <1>11, <2>1, <2>2 DEF AssignSignOff, Records, MayAssignSignOff
  <1>12. ASSUME NEW i \in Invs, NEW j \in Invs, Supersede(p, i, j) PROVE Records'
    <2>1. inv[i] \in Inventory /\ Tidy(inv[i]) /\ i # j
      BY <1>12, RowOnFile DEF Supersede, Exists, MaySupersede
    <2>2. PICK v \in Views : inv' = [inv EXCEPT ![j] = Row("DRAFT", v, inv[i].straddle),
                                                ![i] = [inv[i] EXCEPT !.supersededBy = j]]
      BY <1>12, <2>1 DEF Supersede, Records, MaySupersede
    <2>3. Row("DRAFT", v, inv[i].straddle) \in TidyRow
      BY <2>1, NewRowTidy DEF Inventory
    <2>4. [inv[i] EXCEPT !.supersededBy = j] \in TidyRow
      BY <1>12, <2>1, PublishedRowTidy DEF Supersede, MaySupersede
    <2> QED BY <1>12, <2>2, <2>3, <2>4 DEF Supersede, Records, MaySupersede
  <1>13. ASSUME NEW r \in runs, VoidRun(p, r) PROVE Records'
    <2>1. r \in Run
      BY DEF Records
    <2>2. inv' \in [Invs -> TidyRow]
      <3>1. CASE inv[r.inv].status = "IN_REVIEW"
        BY <1>13, <2>1, <3>1, RowOnFile, WithdrawnTidy DEF VoidRun, Records, Run, MayVoidRun
      <3>2. CASE inv[r.inv].status # "IN_REVIEW"
        BY <1>13, <3>2 DEF VoidRun, Records, MayVoidRun
      <3> QED BY <3>1, <3>2
    <2>3. runs' \subseteq Run
      BY <1>13, <2>1 DEF VoidRun, Records, Run, MayVoidRun
    <2> QED BY <1>13, <2>2, <2>3 DEF VoidRun, Records, MayVoidRun
  <1>14. ASSUME NEW r \in runs, SubmitForReview(p, r) PROVE Records'
    <2>1. r.inv \in Invs /\ r.no \in Nat \ {0}
      BY DEF Records, Run
    <2> DEFINE row == [inv[r.inv] EXCEPT !.status = "IN_REVIEW", !.submittedRun = r.no,
                                         !.submittedBy = p]
    <2>2. row \in TidyRow
      BY <1>14, <2>1, RowOnFile, SubmittedRowTidy DEF SubmitForReview, MaySubmitForReview
    <2>3. inv' = [inv EXCEPT ![r.inv] = row]
      BY <1>14, <2>1 DEF SubmitForReview, Records, MaySubmitForReview
    <2> QED BY <1>14, <2>1, <2>2, <2>3 DEF SubmitForReview, Records, MaySubmitForReview
  <1>15. ASSUME NEW r \in runs, DesignateFinal(p, r) PROVE Records'
    <2>1. r.inv \in Invs /\ r.no = inv[r.inv].submittedRun
      BY <1>15 DEF DesignateFinal, Records, Run, MayDesignateFinal
    <2> DEFINE row == [inv[r.inv] EXCEPT !.status = "FINAL", !.finalRun = inv[r.inv].submittedRun,
                                         !.signer = p,
                                         !.selfApproved = (p = inv[r.inv].submittedBy)]
    <2>2. row \in TidyRow
      BY <1>15, <2>1, RowOnFile, SignedRowTidy DEF DesignateFinal, MayDesignateFinal
    <2>3. inv' = [inv EXCEPT ![r.inv] = row]
      BY <1>15, <2>1 DEF DesignateFinal, Records, MayDesignateFinal
    <2> QED BY <1>15, <2>1, <2>2, <2>3 DEF DesignateFinal, Records, MayDesignateFinal
  <1> QED
    BY <1>1, <1>2, <1>3, <1>4, <1>5, <1>6, <1>7, <1>8, <1>9, <1>10, <1>11, <1>12, <1>13, <1>14, <1>15
       DEF InventoryActs

\* Cutting a version keeps the candidates typed.
LEMMA WeighKeepsTheFacts ==
  ASSUME Facts, NEW i \in Invs, Weigh(i)
  PROVE  candidates' \subseteq CandidateKinds /\ UNCHANGED baseYear
  <1>1. candidates \subseteq CandidateKinds /\ UNCHANGED baseYear
    BY DEF Facts, Weigh
  <1>2. ASSUME NEW kinds, NEW left \in Decided(kinds)
        PROVE  left \subseteq CandidateKinds
    BY <1>1, <1>2 DEF Decided, CandidateKinds
  <1>3. ASSUME NEW superseded, NEW raised \in {{}, {"ABOVE"}, {"BELOW"}},
               candidates' \in {left \cup raised : left \in Decided(superseded)}
        PROVE  candidates' \subseteq CandidateKinds
    <2>1. PICK left \in Decided(superseded) : candidates' = left \cup raised
      BY <1>3
    <2>2. raised \subseteq CandidateKinds
      BY <1>3 DEF CandidateKinds, Undecided
    <2> QED BY <1>2, <2>1, <2>2
  <1> QED BY <1>1, <1>3 DEF Weigh

\* A lifecycle request leaves the members and grants alone and keeps the facts typed.
LEMMA RequestKeepsTheRest ==
  ASSUME NEW p \in Accounts, InventoryActs(p), Facts
  PROVE  UNCHANGED accessVars /\ UNCHANGED holds /\ Facts'
  <1>1. ASSUME NEW i \in Invs, Delete(p, i) PROVE UNCHANGED accessVars /\ UNCHANGED holds /\ Facts'
    BY <1>1 DEF Delete, Facts, MayDelete
  <1>2. ASSUME NEW i \in Invs, Freeze(p, i) PROVE UNCHANGED accessVars /\ UNCHANGED holds /\ Facts'
    BY <1>2, WeighKeepsTheFacts DEF Freeze, Facts, MayFreeze
  <1>3. CASE UNCHANGED accessVars /\ UNCHANGED factVars
    BY <1>3 DEF Facts, factVars
  <1>4. ASSUME NEW i \in Invs,
               Create(p, i) \/ Update(p, i) \/ EditView(p, i) \/ Reopen(p, i) \/ LaunchRun(p, i)
        PROVE  UNCHANGED accessVars /\ UNCHANGED factVars
    BY <1>4 DEF Create, Update, EditView, Reopen, LaunchRun, MayCreate, MayUpdate, MayEditView, MayReopen,
                MayLaunchRun
  <1>5. ASSUME NEW i \in Invs,
               \/ ReturnToPreparer(p, i) \/ WithdrawFinal(p, i) \/ Publish(p, i)
               \/ \E a, b \in Accounts \cup {NoOne} : AssignSignOff(p, i, a, b)
               \/ \E j \in Invs : Supersede(p, i, j)
        PROVE  UNCHANGED accessVars /\ UNCHANGED factVars
    BY <1>5 DEF ReturnToPreparer, WithdrawFinal, Publish, AssignSignOff, Supersede, MayReturnToPreparer,
                MayWithdrawFinal, MayPublish, MayAssignSignOff, MaySupersede
  <1>6. ASSUME NEW r \in runs, VoidRun(p, r) \/ SubmitForReview(p, r) \/ DesignateFinal(p, r)
        PROVE  UNCHANGED accessVars /\ UNCHANGED factVars
    BY <1>6 DEF VoidRun, SubmitForReview, DesignateFinal, MayVoidRun, MaySubmitForReview, MayDesignateFinal
  <1> QED BY <1>1, <1>2, <1>3, <1>4, <1>5, <1>6 DEF InventoryActs

\* So do the base-year requests, which write no row.
LEMMA BaseYearActKeepsTheRest ==
  ASSUME NEW p \in Accounts, BaseYearActs(p), Facts
  PROVE  UNCHANGED <<recordVars, accessVars>> /\ Facts'
  <1>1. ASSUME NEW i \in Bases, SetBaseYear(p, i) PROVE UNCHANGED <<recordVars, accessVars>> /\ Facts'
    BY <1>1, OfferAssumption DEF SetBaseYear, Facts, MaySetBaseYear, CandidateKinds
  <1>2. CASE RaiseCandidate(p) \/ ClearBaseYear(p)
    BY <1>2 DEF RaiseCandidate, ClearBaseYear, Facts, MayRaiseCandidate, MayClearBaseYear, CandidateKinds
  <1>3. ASSUME NEW kind \in CandidateKinds, DecideCandidate(p, kind)
        PROVE  UNCHANGED <<recordVars, accessVars>> /\ Facts'
    BY <1>3 DEF DecideCandidate, Decided, Facts, MayDecideCandidate, CandidateKinds
  <1> QED BY <1>1, <1>2, <1>3 DEF BaseYearActs

\* The member and grant handlers keep the access tables typed.
LEMMA AccessTyped ==
  ASSUME AccessTypeOK, AccessNext
  PROVE  AccessTypeOK'
  <1>1. ASSUME NEW p \in Accounts, NEW q \in Accounts, NEW r \in OfferedRoles,
               AddMember(p, q, r) \/ ChangeMemberRole(p, q, r)
        PROVE  AccessTypeOK'
    BY <1>1, RolesAssumption DEF AccessTypeOK, AddMember, ChangeMemberRole, MayAddMember, MayChangeMemberRole
  <1>2. ASSUME NEW p \in Accounts, NEW q \in Accounts, RemoveMember(p, q)
        PROVE  AccessTypeOK'
    BY <1>2 DEF AccessTypeOK, RemoveMember, MayRemoveMember
  <1>3. ASSUME NEW p \in Accounts,
               AssumeSupportAccess(p) \/ EndSupportAccess(p) \/ SupportAccessExpires(p)
        PROVE  AccessTypeOK'
    BY <1>3 DEF AccessTypeOK, AssumeSupportAccess, EndSupportAccess, SupportAccessExpires
  <1> QED BY <1>1, <1>2, <1>3 DEF AccessNext

\* The base is inductive over every step of the organization.
LEMMA BaseStep == Base /\ [Next]_vars => Base'
  <1> SUFFICES ASSUME Base, [Next]_vars PROVE Base'
    OBVIOUS
  <1>1. ASSUME NEW p \in Accounts, InventoryActs(p) PROVE Base'
    BY <1>1, RequestKeepsRecords, RequestKeepsTheRest DEF Base, AccessTypeOK, accessVars
  <1>2. ASSUME NEW p \in Accounts, BaseYearActs(p) PROVE Base'
    BY <1>2, BaseYearActKeepsTheRest DEF Base, Records, AccessTypeOK, accessVars, recordVars
  <1>3. ASSUME NEW p \in Accounts, NEW v \in Views, ChangeFacts(p, v) PROVE Base'
    BY <1>3, ViewAssumption DEF Base, Records, Facts, AccessTypeOK, accessVars, recordVars, ChangeFacts
  <1>4. ASSUME NEW p \in Accounts, DeleteOrganization(p) PROVE Base'
    BY <1>4 DEF Base, Records, Facts, AccessTypeOK, recordVars, factVars, DeleteOrganization,
                RemoveOrganization, MayDeleteOrganization
  <1>5. ASSUME AccessNext, UNCHANGED <<recordVars, factVars>> PROVE Base'
    BY <1>5, AccessTyped DEF Base, Records, Facts, recordVars, factVars
  <1>6. CASE UNCHANGED vars
    BY <1>6 DEF Base, Records, Facts, AccessTypeOK, vars, accessVars, recordVars, factVars
  <1> QED BY <1>1, <1>2, <1>3, <1>4, <1>5, <1>6 DEF Next

\* In every reachable state each inventory's row is tidy: submission, signature, final run, disclosure and
\* status agree with one another, whatever sequence of requests wrote them.
THEOREM RowsStayTidy == Spec => []Base
  BY InitBase, BaseStep, PTL DEF Spec

\* Type correctness of every variable, for any number of accounts, inventories, runs and versions.
THEOREM TypeCorrect == Spec => []TypeOK
  BY RowsStayTidy, BaseIsTyped, PTL

\* FinalRunIsTheSubmittedRun and SelfApprovalIsDisclosed are about one row at a time.
THEOREM SignOffIsWhole == Spec => []FinalRunIsTheSubmittedRun
  <1>1. Base => FinalRunIsTheSubmittedRun
    BY DEF Base, Records, TidyRow, Tidy, FinalRunIsTheSubmittedRun
  <1> QED BY <1>1, RowsStayTidy, PTL

\* The self-approval flag is set exactly when signer and submitter are the same account.
THEOREM SelfApprovalsAreDisclosed == Spec => []SelfApprovalIsDisclosed
  <1>1. ASSUME Base, NEW i \in Invs
        PROVE  inv[i].selfApproved <=> inv[i].signer # NoOne /\ inv[i].signer = inv[i].submittedBy
    <2>1. inv[i] \in TidyRow
      BY <1>1 DEF Base, Records
    <2>2. inv[i].selfApproved \in BOOLEAN
      <3>1. CASE inv[i] = Absent
        BY <3>1 DEF Absent, Row
      <3>2. CASE inv[i] \in Inventory
        BY <3>2, Zenon DEF Inventory
      <3> QED BY <2>1, <3>1, <3>2 DEF TidyRow
    <2>3. inv[i].selfApproved = TRUE <=> inv[i].signer # NoOne /\ inv[i].signer = inv[i].submittedBy
      BY <2>1 DEF TidyRow, Tidy
    <2> QED BY <2>2, <2>3
  <1>2. Base => SelfApprovalIsDisclosed
    BY <1>1 DEF SelfApprovalIsDisclosed
  <1> QED BY <1>2, RowsStayTidy, PTL

-----------------------------------------------------------------------------
(* What a request can do to a row, and by which request each change of status comes. *)

Cut(row) == row.status \notin {"ABSENT", "DRAFT"}

RowEffect(p, i) ==
  /\ inv'[i].submittedRun = NoNumber
     \/ inv'[i].submittedRun = inv[i].submittedRun
     \/ \E r \in runs : r.inv = i /\ r.no = inv'[i].submittedRun /\ SubmitForReview(p, r)
  /\ Cut(inv'[i]) => \/ Cut(inv[i]) /\ inv'[i].version = inv[i].version /\ inv'[i].view = inv[i].view
                     \/ Freeze(p, i)
  /\ inv'[i].status = "IN_REVIEW" =>
       \/ inv[i].status = "IN_REVIEW" /\ inv'[i].submittedRun = inv[i].submittedRun
       \/ \E r \in runs : r.inv = i /\ SubmitForReview(p, r)
  /\ inv'[i].status = "FINAL" =>
       inv[i].status = "FINAL" \/ \E r \in runs : r.inv = i /\ DesignateFinal(p, r)
  /\ inv'[i].status = "PUBLISHED" => inv[i].status = "PUBLISHED" \/ Publish(p, i)

\* A row the request does not touch, and one whose request leaves it an unsubmitted draft or no row.
LEMMA RowKept ==
  ASSUME NEW p, NEW i, inv'[i] = inv[i]
  PROVE  RowEffect(p, i)
  BY DEF RowEffect, Cut

\* A deleted row, and a new draft, have no submission.
LEMMA RowCleared ==
  ASSUME NEW p, NEW i, inv'[i].status \in {"ABSENT", "DRAFT"}, inv'[i].submittedRun = NoNumber
  PROVE  RowEffect(p, i)
  BY DEF RowEffect, Cut

\* A withdrawal clears the submission of the row it writes.
LEMMA RowWithdrawn ==
  ASSUME NEW p, NEW i, inv[i] \in Inventory, Cut(inv[i]), inv'[i].status = "FROZEN",
         inv'[i].submittedRun = NoNumber, inv'[i].version = inv[i].version, inv'[i].view = inv[i].view
  PROVE  RowEffect(p, i)
  BY DEF RowEffect, Cut

\* The edits leave the submission and the cited version where they are.
LEMMA RowEdited ==
  ASSUME NEW p, NEW i, inv'[i].status = inv[i].status, inv'[i].submittedRun = inv[i].submittedRun,
         Cut(inv[i]) => inv'[i].version = inv[i].version /\ inv'[i].view = inv[i].view
  PROVE  RowEffect(p, i)
  BY DEF RowEffect, Cut

\* What any lifecycle request does to any row, as one of a few effects: the invariants that relate rows
\* to tables are proved against the effects and not against each request again.
LEMMA RowEffects ==
  ASSUME Records, NEW p \in Accounts, InventoryActs(p), NEW k \in Invs
  PROVE  RowEffect(p, k)
  <1>1. ASSUME NEW i \in Invs, Create(p, i) PROVE RowEffect(p, k)
    BY <1>1, RowKept, RowCleared DEF Create, Records, Row, MayCreate
  <1>2. ASSUME NEW i \in Invs, Update(p, i) PROVE RowEffect(p, k)
    BY <1>2, RowKept, RowEdited, RowOnFile DEF Update, Exists, IsEditable, Cut, Records, Inventory, MayUpdate
  <1>3. ASSUME NEW i \in Invs, EditView(p, i) PROVE RowEffect(p, k)
    BY <1>3, RowKept, RowEdited, RowOnFile DEF EditView, IsEditable, Cut, Records, Inventory, MayEditView
  <1>4. ASSUME NEW i \in Invs, Delete(p, i) PROVE RowEffect(p, k)
    <2>1. CASE k = i
      BY <1>4, <2>1, RowCleared DEF Delete, Absent, Row, MayDelete
    <2>2. CASE k # i
      <3>1. CASE inv[k].supersededBy = i
        <4>1. inv[k] \in Inventory
          BY <3>1, FiledRow, NullAssumption DEF Records, TidyRow, Tidy
        <4> QED BY <1>4, <2>2, <3>1, <4>1, RowEdited DEF Delete, Inventory, MayDelete
      <3>2. CASE inv[k].supersededBy # i
        BY <1>4, <2>2, <3>2, RowKept DEF Delete, MayDelete
      <3> QED BY <3>1, <3>2
    <2> QED BY <2>1, <2>2
  <1>5. ASSUME NEW i \in Invs, Freeze(p, i) PROVE RowEffect(p, k)
    <2>1. CASE k = i
      <3>1. inv[k] \in Inventory /\ Tidy(inv[k])
        BY <1>5, <2>1, RowOnFile DEF Freeze, IsEditable, MayFreeze
      <3>2. inv'[k].status = "FROZEN" /\ inv'[k].submittedRun = inv[k].submittedRun
        BY <1>5, <2>1, <3>1 DEF Freeze, Records, Inventory, MayFreeze
      <3> QED BY <1>5, <2>1, <3>2 DEF RowEffect
    <2>2. CASE k # i
      BY <1>5, <2>2, RowKept DEF Freeze, Records, MayFreeze
    <2> QED BY <2>1, <2>2
  <1>6. ASSUME NEW i \in Invs, Reopen(p, i) PROVE RowEffect(p, k)
    BY <1>6, RowKept, RowCleared, RowOnFile DEF Reopen, Withdrawn, Records, Inventory, MayReopen
  <1>7. ASSUME NEW i \in Invs, LaunchRun(p, i) PROVE RowEffect(p, k)
    BY <1>7, RowKept, RowWithdrawn, RowOnFile DEF LaunchRun, AllowsRuns, Withdrawn, Cut, Records, Inventory,
                                                  MayLaunchRun
  <1>8. ASSUME NEW i \in Invs, ReturnToPreparer(p, i) PROVE RowEffect(p, k)
    BY <1>8, RowKept, RowWithdrawn, RowOnFile DEF ReturnToPreparer, Withdrawn, Cut, Records, Inventory,
                                                  MayReturnToPreparer
  <1>9. ASSUME NEW i \in Invs, WithdrawFinal(p, i) PROVE RowEffect(p, k)
    BY <1>9, RowKept, RowWithdrawn, RowOnFile DEF WithdrawFinal, Withdrawn, Cut, Records, Inventory,
                                                  MayWithdrawFinal
  <1>10. ASSUME NEW i \in Invs, Publish(p, i) PROVE RowEffect(p, k)
    <2>1. CASE k = i
      BY <1>10, <2>1, RowOnFile DEF Publish, RowEffect, Cut, Records, Inventory, MayPublish
    <2>2. CASE k # i
      BY <1>10, <2>2, RowKept DEF Publish, Records, MayPublish
    <2> QED BY <2>1, <2>2
  <1>11. ASSUME NEW i \in Invs, NEW a \in Accounts \cup {NoOne}, NEW b \in Accounts \cup {NoOne},
                AssignSignOff(p, i, a, b)
         PROVE  RowEffect(p, k)
    BY <1>11, RowKept, RowEdited, RowOnFile DEF AssignSignOff, Exists, Records, Inventory, MayAssignSignOff
  <1>12. ASSUME NEW i \in Invs, NEW j \in Invs, Supersede(p, i, j) PROVE RowEffect(p, k)
    <2>1. i # j /\ inv[i] \in Inventory
      BY <1>12, RowOnFile DEF Supersede, Exists, MaySupersede
    <2>2. CASE k = j
      BY <1>12, <2>1, <2>2, RowCleared DEF Supersede, Records, Row, MaySupersede
    <2>3. CASE k = i
      BY <1>12, <2>1, <2>3, RowEdited DEF Supersede, Records, Inventory, MaySupersede
    <2>4. CASE k # i /\ k # j
      BY <1>12, <2>4, RowKept DEF Supersede, Records, MaySupersede
    <2> QED BY <2>2, <2>3, <2>4
  <1>13. ASSUME NEW r \in runs, VoidRun(p, r) PROVE RowEffect(p, k)
    BY <1>13, RowKept, RowWithdrawn, RowOnFile DEF VoidRun, Withdrawn, Cut, Records, Inventory, Run, MayVoidRun
  <1>14. ASSUME NEW r \in runs, SubmitForReview(p, r) PROVE RowEffect(p, k)
    <2>1. r.inv \in Invs
      BY DEF Records, Run
    <2>2. CASE k = r.inv
      <3>1. inv[k] \in Inventory
        BY <1>14, <2>2, RowOnFile DEF SubmitForReview, MaySubmitForReview
      <3>2. /\ inv'[k].status = "IN_REVIEW" /\ inv'[k].submittedRun = r.no
            /\ inv'[k].version = inv[k].version /\ inv'[k].view = inv[k].view
        BY <1>14, <2>2, <3>1 DEF SubmitForReview, Records, Inventory, MaySubmitForReview
      <3>3. Cut(inv[k])
        BY <1>14, <2>2 DEF SubmitForReview, Cut, MaySubmitForReview
      <3> QED BY <1>14, <2>2, <3>2, <3>3 DEF RowEffect
    <2>3. CASE k # r.inv
      BY <1>14, <2>1, <2>3, RowKept DEF SubmitForReview, Records, MaySubmitForReview
    <2> QED BY <2>2, <2>3
  <1>15. ASSUME NEW r \in runs, DesignateFinal(p, r) PROVE RowEffect(p, k)
    <2>1. r.inv \in Invs
      BY DEF Records, Run
    <2>2. CASE k = r.inv
      <3>1. inv[k] \in Inventory
        BY <1>15, <2>2, RowOnFile DEF DesignateFinal, MayDesignateFinal
      <3>2. /\ inv'[k].status = "FINAL" /\ inv'[k].submittedRun = inv[k].submittedRun
            /\ inv'[k].version = inv[k].version /\ inv'[k].view = inv[k].view
        BY <1>15, <2>2, <3>1 DEF DesignateFinal, Records, Inventory, MayDesignateFinal
      <3>3. Cut(inv[k])
        BY <1>15, <2>2 DEF DesignateFinal, Cut, MayDesignateFinal
      <3> QED BY <1>15, <2>2, <3>2, <3>3 DEF RowEffect
    <2>3. CASE k # r.inv
      BY <1>15, <2>1, <2>3, RowKept DEF DesignateFinal, Records, MayDesignateFinal
    <2> QED BY <2>2, <2>3
  <1> QED
    BY <1>1, <1>2, <1>3, <1>4, <1>5, <1>6, <1>7, <1>8, <1>9, <1>10, <1>11, <1>12, <1>13, <1>14, <1>15
       DEF InventoryActs

\* The requests that write a table; the others leave both tables alone.
LEMMA TableWriters ==
  ASSUME NEW p \in Accounts, InventoryActs(p)
  PROVE  \/ \E i \in Invs : Delete(p, i) \/ Freeze(p, i) \/ LaunchRun(p, i)
         \/ \E r \in runs : VoidRun(p, r)
         \/ UNCHANGED <<runs, versions>>
  BY DEF InventoryActs, Create, Update, EditView, Reopen, ReturnToPreparer, WithdrawFinal, Publish,
         AssignSignOff, Supersede, SubmitForReview, DesignateFinal, MayCreate, MayUpdate, MayEditView,
         MayReopen, MayReturnToPreparer, MayWithdrawFinal, MayPublish, MayAssignSignOff, MaySupersede,
         MaySubmitForReview, MayDesignateFinal

-----------------------------------------------------------------------------
(* Rows and tables together: the inductive invariant of the lifecycle. *)

\* The submitted run is on file and not voided.
SubmittedRunOnFile ==
  \A i \in Invs : inv[i].submittedRun # NoNumber =>
    \E r \in runs : r.inv = i /\ r.no = inv[i].submittedRun /\ ~r.voided

\* The version a frozen view was cut with is on file, and the view is still the one it was cut with.
CutVersionOnFile ==
  \A i \in Invs : Cut(inv[i]) =>
    \E w \in versions : w.inv = i /\ w.no = inv[i].version /\ w.view = inv[i].view

Tables == SubmittedRunOnFile /\ CutVersionOnFile /\ RunReadsItsVersion /\ NumbersAreUnique

\* A standing submission names a run on file that is not voided: the void of that run withdraws it.
LEMMA SubmittedRunKept ==
  ASSUME Records, SubmittedRunOnFile, NEW p \in Accounts, InventoryActs(p)
  PROVE  SubmittedRunOnFile'
  <1> SUFFICES ASSUME NEW k \in Invs, inv'[k].submittedRun # NoNumber
               PROVE  \E r \in runs' : r.inv = k /\ r.no = inv'[k].submittedRun /\ ~r.voided
    BY DEF SubmittedRunOnFile
  <1>1. PICK s \in runs : s.inv = k /\ s.no = inv'[k].submittedRun /\ ~s.voided
    <2>1. CASE inv'[k].submittedRun = inv[k].submittedRun
      BY <2>1 DEF SubmittedRunOnFile
    <2>2. CASE \E r \in runs : r.inv = k /\ r.no = inv'[k].submittedRun /\ SubmitForReview(p, r)
      BY <2>2 DEF SubmitForReview, MaySubmitForReview
    <2> QED BY <2>1, <2>2, RowEffects DEF RowEffect
  <1>2. ASSUME NEW i \in Invs, Delete(p, i) PROVE k # i
    BY <1>2 DEF Delete, Absent, Row, MayDelete
  <1>3. ASSUME NEW r \in runs, VoidRun(p, r) PROVE s # r
    <2> SUFFICES ASSUME s = r PROVE FALSE
      OBVIOUS
    <2>1. inv[k].status # "PUBLISHED" /\ inv[k].finalRun # s.no
      BY <1>1, <1>3 DEF VoidRun, MayVoidRun
    <2>2. CASE inv[k].status = "IN_REVIEW" /\ s.no = inv[k].submittedRun
      BY <1>1, <1>3, <2>2, RowOnFile DEF VoidRun, Withdrawn, Records, Inventory, MayVoidRun
    <2>3. CASE ~(inv[k].status = "IN_REVIEW" /\ s.no = inv[k].submittedRun)
      <3>1. inv'[k] = inv[k]
        BY <1>1, <1>3, <2>3 DEF VoidRun, MayVoidRun
      <3> QED BY <1>1, <2>1, <2>3, <3>1 DEF Records, TidyRow, Tidy
    <2> QED BY <2>2, <2>3
  <1>4. s \in runs'
    BY <1>1, <1>2, <1>3, TableWriters DEF Delete, Freeze, LaunchRun, VoidRun, MayDelete, MayFreeze,
                                          MayLaunchRun, MayVoidRun
  <1> QED BY <1>1, <1>4

\* The version a frozen inventory cites is on file and was cut with the view the inventory has now.
LEMMA CutVersionKept ==
  ASSUME Records, CutVersionOnFile, NEW p \in Accounts, InventoryActs(p)
  PROVE  CutVersionOnFile'
  <1> SUFFICES ASSUME NEW k \in Invs, Cut(inv'[k])
               PROVE  \E w \in versions' : w.inv = k /\ w.no = inv'[k].version /\ w.view = inv'[k].view
    BY DEF CutVersionOnFile, Cut
  <1>1. CASE Freeze(p, k)
    <2> PICK n \in 1..MaxVersions :
               /\ versions' = versions \cup {[inv |-> k, no |-> n, view |-> inv[k].view]}
               /\ inv' = [inv EXCEPT ![k].status = "FROZEN", ![k].version = n]
      BY <1>1 DEF Freeze, MayFreeze
    <2>1. inv[k] \in Inventory
      BY <1>1, RowOnFile DEF Freeze, IsEditable, MayFreeze
    <2>2. inv'[k].version = n /\ inv'[k].view = inv[k].view
      BY <2>1 DEF Records, Inventory
    <2> DEFINE new == [inv |-> k, no |-> n, view |-> inv[k].view]
    <2>3. new.inv = k /\ new.no = n /\ new.view = inv[k].view /\ new \in versions'
      OBVIOUS
    <2> HIDE DEF new
    <2> QED BY <2>2, <2>3
  <1>2. CASE ~Freeze(p, k)
    <2>1. PICK w \in versions : w.inv = k /\ w.no = inv'[k].version /\ w.view = inv'[k].view
      BY <1>2, RowEffects DEF RowEffect, CutVersionOnFile
    <2>2. ASSUME NEW i \in Invs, Delete(p, i) PROVE k # i
      BY <2>2 DEF Delete, Absent, Row, Cut, MayDelete
    <2>3. w \in versions'
      BY <2>1, <2>2, TableWriters DEF Delete, Freeze, LaunchRun, VoidRun, MayDelete, MayFreeze, MayLaunchRun,
                                      MayVoidRun
    <2> QED BY <2>1, <2>3
  <1> QED BY <1>1, <1>2

\* A launch snapshots the current view, which is the cited version's.
LEMMA RunReadsItsVersionKept ==
  ASSUME Records, CutVersionOnFile, RunReadsItsVersion, NEW p \in Accounts, InventoryActs(p)
  PROVE  RunReadsItsVersion'
  <1>1. ASSUME NEW i \in Invs, Delete(p, i) PROVE RunReadsItsVersion'
    BY <1>1 DEF Delete, RunReadsItsVersion, MayDelete
  <1>2. ASSUME NEW i \in Invs, Freeze(p, i) PROVE RunReadsItsVersion'
    BY <1>2 DEF Freeze, RunReadsItsVersion, MayFreeze
  <1>3. ASSUME NEW i \in Invs, LaunchRun(p, i) PROVE RunReadsItsVersion'
    <2> PICK n \in 1..MaxRuns :
               runs' = runs \cup {[inv |-> i, no |-> n, version |-> inv[i].version,
                                   view |-> inv[i].view, voided |-> FALSE]}
      BY <1>3 DEF LaunchRun, MayLaunchRun
    <2>1. Cut(inv[i])
      BY <1>3 DEF LaunchRun, AllowsRuns, Cut, MayLaunchRun
    <2> QED BY <1>3, <2>1 DEF LaunchRun, CutVersionOnFile, RunReadsItsVersion, MayLaunchRun
  <1>4. ASSUME NEW r \in runs, VoidRun(p, r) PROVE RunReadsItsVersion'
    <2> DEFINE voided == [r EXCEPT !.voided = TRUE]
    <2>1. voided.inv = r.inv /\ voided.version = r.version /\ voided.view = r.view
      BY DEF Records, Run
    <2>2. runs' = (runs \ {r}) \cup {voided} /\ versions' = versions
      BY <1>4 DEF VoidRun, MayVoidRun
    <2> HIDE DEF voided
    <2> QED BY <2>1, <2>2 DEF RunReadsItsVersion
  <1>5. CASE UNCHANGED <<runs, versions>>
    BY <1>5 DEF RunReadsItsVersion
  <1> QED BY <1>1, <1>2, <1>3, <1>4, <1>5, TableWriters

\* A number one above all on file is new.
LEMMA NumbersKept ==
  ASSUME Records, NumbersAreUnique, NEW p \in Accounts, InventoryActs(p)
  PROVE  NumbersAreUnique'
  <1>1. ASSUME NEW i \in Invs, Delete(p, i) PROVE NumbersAreUnique'
    BY <1>1 DEF Delete, NumbersAreUnique, MayDelete
  <1>2. ASSUME NEW i \in Invs, Freeze(p, i) PROVE NumbersAreUnique'
    <2> PICK n \in 1..MaxVersions :
               /\ IsNextNumber(versions, i, n)
               /\ versions' = versions \cup {[inv |-> i, no |-> n, view |-> inv[i].view]}
      BY <1>2 DEF Freeze, MayFreeze
    <2>1. \A w \in versions : w.inv = i => w.no # n
      BY BoundAssumption DEF IsNextNumber, Records, Version
    <2> QED BY <1>2, <2>1 DEF Freeze, NumbersAreUnique, MayFreeze
  <1>3. ASSUME NEW i \in Invs, LaunchRun(p, i) PROVE NumbersAreUnique'
    <2> PICK n \in 1..MaxRuns :
               /\ IsNextNumber(runs, i, n)
               /\ runs' = runs \cup {[inv |-> i, no |-> n, version |-> inv[i].version,
                                      view |-> inv[i].view, voided |-> FALSE]}
      BY <1>3 DEF LaunchRun, MayLaunchRun
    <2> DEFINE new == [inv |-> i, no |-> n, version |-> inv[i].version,
                       view |-> inv[i].view, voided |-> FALSE]
    <2>1. \A r \in runs : r.inv = i => r.no # n
      BY BoundAssumption DEF IsNextNumber, Records, Run
    <2>2. new.inv = i /\ new.no = n /\ runs' = runs \cup {new} /\ versions' = versions
      BY <1>3 DEF LaunchRun, MayLaunchRun
    <2> HIDE DEF new
    <2> QED BY <2>1, <2>2 DEF NumbersAreUnique
  <1>4. ASSUME NEW r \in runs, VoidRun(p, r) PROVE NumbersAreUnique'
    <2> DEFINE voided == [r EXCEPT !.voided = TRUE]
    <2>1. voided.inv = r.inv /\ voided.no = r.no
      BY DEF Records, Run
    <2>2. runs' = (runs \ {r}) \cup {voided} /\ versions' = versions
      BY <1>4 DEF VoidRun, MayVoidRun
    <2> HIDE DEF voided
    <2> QED BY <2>1, <2>2 DEF NumbersAreUnique
  <1>5. CASE UNCHANGED <<runs, versions>>
    BY <1>5 DEF NumbersAreUnique
  <1> QED BY <1>1, <1>2, <1>3, <1>4, <1>5, TableWriters

-----------------------------------------------------------------------------
(* The invariant over all steps. *)

\* The facts, the base year and the members move no inventory, run or version.
LEMMA OthersKeepTheRecords ==
  ASSUME Base, [Next]_vars, \A p \in Accounts : ~InventoryActs(p)
  PROVE  UNCHANGED recordVars
  BY BaseYearActKeepsTheRest DEF Next, Base, ChangeFacts, DeleteOrganization, vars, recordVars,
                                 MayDeleteOrganization

\* The invariants that relate rows to tables are inductive over the base.
LEMMA TablesStep == Base /\ Tables /\ [Next]_vars => Tables'
  <1> SUFFICES ASSUME Base, Tables, [Next]_vars PROVE Tables'
    OBVIOUS
  <1>1. ASSUME NEW p \in Accounts, InventoryActs(p) PROVE Tables'
    BY <1>1, SubmittedRunKept, CutVersionKept, RunReadsItsVersionKept, NumbersKept DEF Base, Tables
  <1>2. CASE UNCHANGED recordVars
    BY <1>2 DEF recordVars, Tables, SubmittedRunOnFile, CutVersionOnFile, Cut, RunReadsItsVersion,
                NumbersAreUnique
  <1> QED BY <1>1, <1>2, OthersKeepTheRecords

\* They hold of empty tables.
LEMMA InitTables == Init => Tables
  BY DEF Init, Absent, Row, Tables, SubmittedRunOnFile, CutVersionOnFile, Cut, RunReadsItsVersion,
         NumbersAreUnique

\* In every reachable state submissions name runs on file, cited versions carry the current view, runs
\* read their versions and numbers are unique.
THEOREM TablesStand == Spec => []Tables
  BY RowsStayTidy, InitTables, TablesStep, PTL DEF Spec

\* A submission stands exactly in review, final and published, and the run it names is on file and not
\* voided, whatever was launched, voided, returned, reopened or withdrawn in between.
THEOREM SubmissionsStand == Spec => []SubmissionStands
  <1>1. Base /\ Tables => SubmissionStands
    BY DEF Base, Records, Tables, TidyRow, Tidy, SubmittedRunOnFile, SubmissionStands
  <1> QED BY <1>1, RowsStayTidy, TablesStand, PTL

\* Run and version numbers are never given twice.
THEOREM NumbersStayUnique == Spec => []NumbersAreUnique
  BY TablesStand, PTL DEF Tables

\* Every run on file read exactly the view its boundary version was cut with.
THEOREM RunsReadTheirVersions == Spec => []RunReadsItsVersion
  BY TablesStand, PTL DEF Tables

-----------------------------------------------------------------------------
(* The version of the run that is signed. *)

\* What submitForReview does not ensure: the run put forward is of the version the inventory has now.
SubmitsCurrentVersion ==
  [][\A p \in Accounts, r \in runs : SubmitForReview(p, r) => r.version = inv[r.inv].version]_vars

SubmittedRunIsCurrent ==
  \A i \in Invs, r \in runs : r.inv = i /\ r.no = inv[i].submittedRun => r.version = inv[i].version

\* Once a run is put forward, the version stays until the submission is withdrawn.
LEMMA CurrentRunKept ==
  ASSUME Base, Tables, Tables', SubmittedRunIsCurrent, NEW p \in Accounts, InventoryActs(p),
         \A r \in runs : SubmitForReview(p, r) => r.version = inv[r.inv].version
  PROVE  SubmittedRunIsCurrent'
  <1> SUFFICES ASSUME NEW k \in Invs, NEW r \in runs', r.inv = k, r.no = inv'[k].submittedRun
               PROVE  r.version = inv'[k].version
    BY DEF SubmittedRunIsCurrent
  <1>1. Records /\ Records'
    BY RequestKeepsRecords DEF Base
  <1>2. inv'[k].submittedRun # NoNumber /\ inv'[k].status \in {"IN_REVIEW", "FINAL", "PUBLISHED"}
    <2>1. r.no # NoNumber
      BY <1>1, BoundAssumption DEF Records, Run, NoNumber
    <2> QED BY <1>1, <2>1 DEF Records, TidyRow, Tidy
  <1>3. ~Freeze(p, k)
    BY <1>1, <1>2, RowOnFile DEF Freeze, MayFreeze, IsEditable, Records, Inventory
  <1>4. Cut(inv[k]) /\ inv'[k].version = inv[k].version
    BY <1>1, <1>2, <1>3, RowEffects DEF RowEffect, Cut
  <1>5. PICK s \in runs : s.inv = k /\ s.no = r.no /\ s.version = inv[k].version
    <2>1. CASE inv'[k].submittedRun = inv[k].submittedRun
      <3>1. PICK s \in runs : s.inv = k /\ s.no = inv[k].submittedRun
        BY <1>2, <2>1 DEF Tables, SubmittedRunOnFile
      <3> QED BY <2>1, <3>1 DEF SubmittedRunIsCurrent
    <2>2. CASE \E s \in runs : s.inv = k /\ s.no = inv'[k].submittedRun /\ SubmitForReview(p, s)
      BY <2>2
    <2> QED BY <1>1, <1>2, <2>1, <2>2, RowEffects DEF RowEffect
  <1>6. PICK t \in runs' : t.inv = k /\ t.no = s.no /\ t.version = s.version
    <2>1. ASSUME NEW i \in Invs, Delete(p, i) PROVE k # i
      BY <1>2, <2>1 DEF Delete, Absent, Row, MayDelete
    <2>2. ASSUME NEW v \in runs, VoidRun(p, v), s = v PROVE \E t \in runs' : t.inv = k /\ t.no = s.no /\ t.version = s.version
      <3> DEFINE t == [v EXCEPT !.voided = TRUE]
      <3>1. t \in runs' /\ t.inv = v.inv /\ t.no = v.no /\ t.version = v.version
        BY <1>1, <2>2 DEF VoidRun, Records, Run
      <3> QED BY <1>5, <2>2, <3>1
    <2>3. (\E v \in runs : VoidRun(p, v) /\ s = v) \/ s \in runs'
      BY <1>5, <2>1, TableWriters DEF Delete, Freeze, LaunchRun, VoidRun
    <2> QED BY <1>5, <2>2, <2>3
  <1>7. r = t
    BY <1>5, <1>6 DEF Tables, NumbersAreUnique
  <1> QED BY <1>4, <1>5, <1>6, <1>7

\* A run of the current version was calculated from the view as it is.
LEMMA CurrentRunReadsTheView ==
  ASSUME Tables, NEW i \in Invs, Cut(inv[i]), NEW r \in runs, r.inv = i, r.version = inv[i].version
  PROVE  r.view = inv[i].view
  BY DEF Tables, RunReadsItsVersion, CutVersionOnFile, NumbersAreUnique

LEMMA CurrentRunStep ==
  /\ Base /\ Tables /\ Tables' /\ SubmittedRunIsCurrent /\ [Next]_vars
  /\ [\A p \in Accounts, r \in runs : SubmitForReview(p, r) => r.version = inv[r.inv].version]_vars
  => SubmittedRunIsCurrent'
  <1> SUFFICES ASSUME Base, Tables, Tables', SubmittedRunIsCurrent, [Next]_vars,
                      [\A p \in Accounts, r \in runs :
                         SubmitForReview(p, r) => r.version = inv[r.inv].version]_vars
               PROVE  SubmittedRunIsCurrent'
    OBVIOUS
  <1>1. CASE UNCHANGED recordVars
    BY <1>1 DEF recordVars, SubmittedRunIsCurrent
  <1>2. ASSUME NEW p \in Accounts, InventoryActs(p), ~UNCHANGED recordVars PROVE SubmittedRunIsCurrent'
    <2>1. ~UNCHANGED vars
      BY <1>2 DEF vars, recordVars
    <2> QED BY <1>2, <2>1, CurrentRunKept
  <1> QED BY <1>1, <1>2, OthersKeepTheRecords

\* The lines of the signed run are the view on file, and the final holds, read from that view, were read of
\* the run being signed (InventoryService.designateFinal).
SignedRunReadsTheView ==
  \A i \in Invs, r \in runs : r.inv = i /\ r.no = inv[i].finalRun => r.view = inv[i].view
HoldsReadTheSignedRun ==
  [][\A p \in Accounts, r \in runs : DesignateFinal(p, r) => "FINAL" \notin holds[r.view]]_vars

\* While only runs of the current version are put forward, the run that is signed read the view on file, and
\* its sign-off looked at the holds of its own lines (specs 05.7).  The code lets an earlier version's run
\* be put forward; that check at the submission is the only one missing, for a reopening withdraws what was
\* submitted and a view is edited in a draft only.
THEOREM SignedRunsReadTheViewWhereCurrent ==
  Spec /\ SubmitsCurrentVersion => []SignedRunReadsTheView /\ HoldsReadTheSignedRun
  <1>1. Init => SubmittedRunIsCurrent
    BY DEF Init, SubmittedRunIsCurrent
  <1>2. Base /\ Tables /\ SubmittedRunIsCurrent => SignedRunReadsTheView
    <2> SUFFICES ASSUME Base, Tables, SubmittedRunIsCurrent, NEW i \in Invs, NEW r \in runs,
                        r.inv = i, r.no = inv[i].finalRun
                 PROVE  r.view = inv[i].view
      BY DEF SignedRunReadsTheView
    <2>1. r.no # NoNumber
      BY BoundAssumption DEF Base, Records, Run, NoNumber
    <2>2. inv[i].submittedRun = inv[i].finalRun /\ Cut(inv[i])
      BY <2>1 DEF Base, Records, TidyRow, Tidy, Cut
    <2> QED BY <2>2, CurrentRunReadsTheView DEF SubmittedRunIsCurrent
  <1>3. Base /\ Tables /\ SubmittedRunIsCurrent /\ [Next]_vars =>
          [\A p \in Accounts, r \in runs : DesignateFinal(p, r) => "FINAL" \notin holds[r.view]]_vars
    <2> SUFFICES ASSUME Base, Tables, SubmittedRunIsCurrent, NEW p \in Accounts, NEW r \in runs,
                        DesignateFinal(p, r)
                 PROVE  "FINAL" \notin holds[r.view]
      OBVIOUS
    <2>1. /\ inv[r.inv].status = "IN_REVIEW" /\ r.no = inv[r.inv].submittedRun
          /\ "FINAL" \notin holds[inv[r.inv].view] /\ r.inv \in Invs
      BY DEF DesignateFinal, MayDesignateFinal, FinalHolds, Base, Records, Run
    <2>2. Cut(inv[r.inv]) /\ r.version = inv[r.inv].version
      BY <2>1 DEF Cut, SubmittedRunIsCurrent
    <2> QED BY <2>1, <2>2, CurrentRunReadsTheView
  <1> QED
    BY <1>1, <1>2, <1>3, CurrentRunStep, RowsStayTidy, TablesStand, PTL
    DEF Spec, SubmitsCurrentVersion, HoldsReadTheSignedRun

-----------------------------------------------------------------------------
(* Owners, and what outlives the organization. *)

\* No member handler takes the last owner: a demotion or a removal needs another.
LEMMA OwnerStep == Base /\ OwnerRemains /\ [Next]_vars => OwnerRemains'
  <1> SUFFICES ASSUME Base, OwnerRemains, [Next]_vars PROVE OwnerRemains'
    OBVIOUS
  <1>1. ASSUME NEW p \in Accounts, NEW m \in Accounts, NEW r \in OfferedRoles, AddMember(p, m, r)
        PROVE  OwnerRemains'
    BY <1>1 DEF AddMember, OwnerRemains, Base, AccessTypeOK, NotAMember, MayAddMember
  <1>2. ASSUME NEW p \in Accounts, NEW m \in Accounts, NEW r \in OfferedRoles, ChangeMemberRole(p, m, r)
        PROVE  OwnerRemains'
    BY <1>2 DEF ChangeMemberRole, IsLastOwner, OwnerRemains, Base, AccessTypeOK, MayChangeMemberRole
  <1>3. ASSUME NEW p \in Accounts, NEW m \in Accounts, RemoveMember(p, m)
        PROVE  OwnerRemains'
    BY <1>3 DEF RemoveMember, IsLastOwner, OwnerRemains, Base, AccessTypeOK, MayRemoveMember
  <1>4. CASE UNCHANGED role
    BY <1>4 DEF OwnerRemains
  <1>5. ASSUME NEW p \in Accounts,
               \/ InventoryActs(p) \/ BaseYearActs(p) \/ DeleteOrganization(p)
               \/ \E v \in Views : ChangeFacts(p, v)
        PROVE  UNCHANGED role
    BY <1>5, RequestKeepsTheRest, BaseYearActKeepsTheRest
       DEF Base, DeleteOrganization, RemoveOrganization, ChangeFacts, accessVars, MayDeleteOrganization
  <1>6. ASSUME NEW p \in Accounts,
               AssumeSupportAccess(p) \/ EndSupportAccess(p) \/ SupportAccessExpires(p)
        PROVE  UNCHANGED role
    BY <1>6 DEF AssumeSupportAccess, EndSupportAccess, SupportAccessExpires
  <1> QED BY <1>1, <1>2, <1>3, <1>4, <1>5, <1>6 DEF Next, AccessNext, vars, accessVars

\* An organization never loses its last owner, by any sequence of additions, demotions and removals.
THEOREM OwnersRemain == Spec => []OwnerRemains
  <1>1. Init => OwnerRemains
    BY DEF Init, AccessInit, OwnerRemains
  <1> QED BY <1>1, OwnerStep, RowsStayTidy, PTL DEF Spec

\* In a removed organization nobody has a role, so no request of its inventories is answered.
LEMMA RemovedAnswersNothing ==
  ASSUME removed, AccessTypeOK, NEW p \in Accounts
  PROVE  ~MayWrite(p) /\ ~MayApprove(p) /\ ~MemberOwner(p)
  <1>1. RoleIn(p) = NotAMember
    BY DEF RoleIn
  <1> QED BY <1>1 DEF MayWrite, MayApprove, MemberOwner, CanWrite, CanApprove, NotAMember, OrgRole

\* So its inventories stay as they are.
LEMMA RemovedRecordsStay ==
  ASSUME Base, removed, NEW p \in Accounts
  PROVE  ~InventoryActs(p)
  BY RemovedAnswersNothing
     DEF Base, InventoryActs, Create, Update, EditView, Delete, Freeze, Reopen, LaunchRun, ReturnToPreparer,
         WithdrawFinal, Publish, AssignSignOff, Supersede, VoidRun, SubmitForReview, DesignateFinal, MayCreate,
         MayUpdate, MayEditView, MayDelete, MayFreeze, MayReopen, MayLaunchRun, MayReturnToPreparer,
         MayWithdrawFinal, MayPublish, MayAssignSignOff, MaySupersede, MayVoidRun, MaySubmitForReview,
         MayDesignateFinal

\* The tombstone is set only where no inventory is signed, and nothing is signed afterwards.
LEMMA RecordsOutliveStep ==
  Base /\ RecordsOutliveTheOrganization /\ [Next]_vars => RecordsOutliveTheOrganization'
  <1> SUFFICES ASSUME Base, RecordsOutliveTheOrganization, [Next]_vars, removed'
               PROVE  \A i \in Invs : inv'[i].status \notin {"FINAL", "PUBLISHED"}
    BY DEF RecordsOutliveTheOrganization
  <1>1. CASE removed
    <2>1. UNCHANGED recordVars
      BY <1>1, RemovedRecordsStay, OthersKeepTheRecords
    <2> QED BY <1>1, <2>1 DEF RecordsOutliveTheOrganization, recordVars
  <1>2. CASE ~removed
    <2>1. PICK p \in Accounts : DeleteOrganization(p)
      BY <1>2, RequestKeepsTheRest, BaseYearActKeepsTheRest
         DEF Next, Base, AccessNext, AddMember, ChangeMemberRole, RemoveMember, AssumeSupportAccess,
             EndSupportAccess, SupportAccessExpires, ChangeFacts, vars, accessVars, MayAddMember,
             MayChangeMemberRole, MayRemoveMember
    <2> QED BY <2>1 DEF DeleteOrganization, recordVars, MayDeleteOrganization
  <1> QED BY <1>1, <1>2

\* A signed or published inventory is never buried with its organization.
THEOREM RecordsOutlive == Spec => []RecordsOutliveTheOrganization
  <1>1. Init => RecordsOutliveTheOrganization
    BY DEF Init, AccessInit, RecordsOutliveTheOrganization
  <1> QED BY <1>1, RecordsOutliveStep, RowsStayTidy, PTL DEF Spec

-----------------------------------------------------------------------------
(* What a step may never do. *)

\* Only designateFinal signs, and it compares the caller with the submitter.
LEMMA SignedByAnotherStep ==
  ASSUME Base, OwnerRemains, [Next]_vars, NEW i \in Invs,
         inv[i].status # "FINAL", inv'[i].status = "FINAL"
  PROVE  \/ inv'[i].signer # inv'[i].submittedBy
         \/ /\ CanApprove(role[inv'[i].signer])
            /\ \A q \in Accounts : CanApprove(role[q]) => q = inv'[i].signer
  <1>1. PICK p \in Accounts : InventoryActs(p)
    BY OthersKeepTheRecords DEF recordVars
  <1>2. PICK r \in runs : r.inv = i /\ DesignateFinal(p, r)
    BY <1>1, RowEffects DEF Base, RowEffect
  <1>3. inv'[i].signer = p /\ inv'[i].submittedBy = inv[i].submittedBy
    BY <1>2, RowOnFile DEF Base, DesignateFinal, Records, Inventory, MayDesignateFinal
  <1>4. CASE p # inv[i].submittedBy
    BY <1>3, <1>4
  <1>5. CASE p = inv[i].submittedBy
    <2>1. \A q \in Accounts \ {p} : ~CanApprove(role[q])
      BY <1>2, <1>5 DEF DesignateFinal, AnotherApprover, MayDesignateFinal
    <2>2. PICK q \in Accounts : role[q] = "OWNER"
      BY DEF OwnerRemains
    <2>3. q = p /\ CanApprove(role[p])
      BY <2>1, <2>2 DEF CanApprove
    <2> QED BY <1>3, <2>1, <2>3
  <1> QED BY <1>4, <1>5

\* No inventory is signed by its submitter while another member could have checked it, under support
\* access neither: the organization always has an owner to ask.
THEOREM SignaturesAreAnothers == Spec => SignedByAnother
  <1>1. Base /\ OwnerRemains /\ [Next]_vars =>
          [\A i \in Invs :
             inv[i].status # "FINAL" /\ inv'[i].status = "FINAL" =>
               \/ inv'[i].signer # inv'[i].submittedBy
               \/ /\ CanApprove(role[inv'[i].signer])
                  /\ \A q \in Accounts : CanApprove(role[q]) => q = inv'[i].signer]_vars
    BY SignedByAnotherStep
  <1> QED BY <1>1, RowsStayTidy, OwnersRemain, PTL DEF Spec, SignedByAnother

\* Submission, signature and publication each look at the recalculation hold.
LEMMA HeldFiguresStep ==
  ASSUME Base, [Next]_vars, NEW i \in Invs, RecalculationHolds(i)
  PROVE  /\ inv'[i].status \in {"IN_REVIEW", "FINAL", "PUBLISHED"} => inv'[i].status = inv[i].status
         /\ inv'[i].status = "IN_REVIEW" => inv'[i].submittedRun = inv[i].submittedRun
  <1>1. CASE UNCHANGED recordVars
    BY <1>1 DEF recordVars
  <1>2. ASSUME NEW p \in Accounts, InventoryActs(p)
        PROVE  /\ inv'[i].status \in {"IN_REVIEW", "FINAL", "PUBLISHED"} => inv'[i].status = inv[i].status
               /\ inv'[i].status = "IN_REVIEW" => inv'[i].submittedRun = inv[i].submittedRun
    <2>1. RowEffect(p, i)
      BY <1>2, RowEffects DEF Base
    <2>2. \A r \in runs : r.inv = i => ~SubmitForReview(p, r) /\ ~DesignateFinal(p, r)
      BY DEF SubmitForReview, DesignateFinal, MaySubmitForReview, MayDesignateFinal
    <2>3. ~Publish(p, i)
      BY DEF Publish, MayPublish
    <2> QED BY <2>1, <2>2, <2>3 DEF RowEffect
  <1> QED BY <1>1, <1>2, OthersKeepTheRecords

\* A pending recalculation of the base year keeps the figures that report against it where they are.
THEOREM HeldFiguresAreHeld == Spec => HeldFiguresStay
  <1>1. Base /\ [Next]_vars =>
          [\A i \in Invs :
             RecalculationHolds(i) =>
               /\ inv'[i].status \in {"IN_REVIEW", "FINAL", "PUBLISHED"} => inv'[i].status = inv[i].status
               /\ inv'[i].status = "IN_REVIEW" => inv'[i].submittedRun = inv[i].submittedRun]_vars
    BY HeldFiguresStep
  <1> QED BY <1>1, RowsStayTidy, PTL DEF Spec, HeldFiguresStay

\* A published row keeps everything but the pointer to its correction, which is set once and cleared
\* with the correction.
RecordKept(k) ==
  /\ inv'[k] = [inv[k] EXCEPT !.supersededBy = inv'[k].supersededBy]
  /\ inv'[k].supersededBy # inv[k].supersededBy =>
       inv[k].supersededBy = NoInv \/ inv'[inv[k].supersededBy].status = "ABSENT"

\* The only request that writes a published row is its correction, or the deletion of one.
LEMMA PublishedRowKept ==
  ASSUME Records, NEW p \in Accounts, InventoryActs(p), NEW k \in Invs, inv[k].status = "PUBLISHED"
  PROVE  RecordKept(k)
  <1>0. inv[k] \in Inventory
    BY RowOnFile
  <1>1. ASSUME inv'[k] = inv[k] PROVE RecordKept(k)
    BY <1>0, <1>1 DEF RecordKept, Inventory
  <1>2. ASSUME NEW i \in Invs, Create(p, i) PROVE inv'[k] = inv[k]
    BY <1>2 DEF Create, Exists, Records, MayCreate
  <1>3. ASSUME NEW i \in Invs, Update(p, i) PROVE inv'[k] = inv[k]
    BY <1>3 DEF Update, Records, MayUpdate
  <1>4. ASSUME NEW i \in Invs, EditView(p, i) PROVE inv'[k] = inv[k]
    BY <1>4 DEF EditView, IsEditable, Records, MayEditView
  <1>5. ASSUME NEW i \in Invs, Delete(p, i) PROVE RecordKept(k)
    <2>1. CASE inv[k].supersededBy = i
      <3>1. inv'[k] = [inv[k] EXCEPT !.supersededBy = NoInv] /\ inv'[i] = Absent
        BY <1>5, <2>1 DEF Delete, MayDelete
      <3> QED BY <1>0, <2>1, <3>1 DEF RecordKept, Inventory, Absent, Row
    <2>2. CASE inv[k].supersededBy # i
      BY <1>1, <1>5, <2>2 DEF Delete, MayDelete
    <2> QED BY <2>1, <2>2
  <1>6. ASSUME NEW i \in Invs, Freeze(p, i) PROVE inv'[k] = inv[k]
    BY <1>6 DEF Freeze, IsEditable, Records, MayFreeze
  <1>7. ASSUME NEW i \in Invs, Reopen(p, i) PROVE inv'[k] = inv[k]
    BY <1>7 DEF Reopen, Records, MayReopen
  <1>8. ASSUME NEW i \in Invs, LaunchRun(p, i) PROVE inv'[k] = inv[k]
    BY <1>8 DEF LaunchRun, Records, MayLaunchRun
  <1>9. ASSUME NEW i \in Invs, ReturnToPreparer(p, i) PROVE inv'[k] = inv[k]
    BY <1>9 DEF ReturnToPreparer, Records, MayReturnToPreparer
  <1>10. ASSUME NEW i \in Invs, WithdrawFinal(p, i) PROVE inv'[k] = inv[k]
    BY <1>10 DEF WithdrawFinal, Records, MayWithdrawFinal
  <1>11. ASSUME NEW i \in Invs, Publish(p, i) PROVE inv'[k] = inv[k]
    BY <1>11 DEF Publish, Records, MayPublish
  <1>12. ASSUME NEW i \in Invs, NEW a \in Accounts \cup {NoOne}, NEW b \in Accounts \cup {NoOne},
                AssignSignOff(p, i, a, b)
         PROVE  inv'[k] = inv[k]
    BY <1>12 DEF AssignSignOff, Records, MayAssignSignOff
  <1>13. ASSUME NEW i \in Invs, NEW j \in Invs, Supersede(p, i, j) PROVE RecordKept(k)
    <2>1. k # j
      BY <1>13 DEF Supersede, Exists, MaySupersede
    <2>2. CASE k = i
      BY <1>0, <1>13, <2>1, <2>2 DEF Supersede, Records, RecordKept, Inventory, MaySupersede
    <2>3. CASE k # i
      BY <1>1, <1>13, <2>1, <2>3 DEF Supersede, Records, MaySupersede
    <2> QED BY <2>2, <2>3
  <1>14. ASSUME NEW r \in runs, VoidRun(p, r) PROVE inv'[k] = inv[k]
    BY <1>14 DEF VoidRun, Records, MayVoidRun
  <1>15. ASSUME NEW r \in runs, SubmitForReview(p, r) PROVE inv'[k] = inv[k]
    BY <1>15 DEF SubmitForReview, Records, MaySubmitForReview
  <1>16. ASSUME NEW r \in runs, DesignateFinal(p, r) PROVE inv'[k] = inv[k]
    BY <1>16 DEF DesignateFinal, Records, MayDesignateFinal
  <1> QED
    BY <1>1, <1>2, <1>3, <1>4, <1>5, <1>6, <1>7, <1>8, <1>9, <1>10, <1>11, <1>12, <1>13, <1>14, <1>15, <1>16
       DEF InventoryActs

\* Launch, void, freeze and delete all refuse a published inventory.
LEMMA PublishedTablesKept ==
  ASSUME Records, NEW p \in Accounts, InventoryActs(p), NEW k \in Invs, inv[k].status = "PUBLISHED"
  PROVE  /\ {r \in runs' : r.inv = k} = {r \in runs : r.inv = k}
         /\ {w \in versions' : w.inv = k} = {w \in versions : w.inv = k}
  <1>1. ASSUME NEW i \in Invs, Delete(p, i)
        PROVE  /\ {r \in runs' : r.inv = k} = {r \in runs : r.inv = k}
               /\ {w \in versions' : w.inv = k} = {w \in versions : w.inv = k}
    BY <1>1 DEF Delete, MayDelete
  <1>2. ASSUME NEW i \in Invs, Freeze(p, i)
        PROVE  UNCHANGED runs /\ {w \in versions' : w.inv = k} = {w \in versions : w.inv = k}
    BY <1>2 DEF Freeze, IsEditable, MayFreeze
  <1>3. ASSUME NEW i \in Invs, LaunchRun(p, i)
        PROVE  UNCHANGED versions /\ {r \in runs' : r.inv = k} = {r \in runs : r.inv = k}
    BY <1>3 DEF LaunchRun, AllowsRuns, MayLaunchRun
  <1>4. ASSUME NEW r \in runs, VoidRun(p, r)
        PROVE  UNCHANGED versions /\ {s \in runs' : s.inv = k} = {s \in runs : s.inv = k}
    <2> DEFINE voided == [r EXCEPT !.voided = TRUE]
    <2>1. r.inv # k /\ voided.inv = r.inv
      BY <1>4 DEF VoidRun, Records, Run, MayVoidRun
    <2>2. runs' = (runs \ {r}) \cup {voided} /\ versions' = versions
      BY <1>4 DEF VoidRun, MayVoidRun
    <2> HIDE DEF voided
    <2> QED BY <2>1, <2>2
  <1> QED BY <1>1, <1>2, <1>3, <1>4, TableWriters

\* A published inventory, its runs and its versions are a record: no request of anybody changes them.
THEOREM PublicationsAreRecords == Spec => PublishedIsARecord
  <1>1. ASSUME Base, [Next]_vars, NEW k \in Invs, inv[k].status = "PUBLISHED"
        PROVE  /\ RecordKept(k)
               /\ {r \in runs' : r.inv = k} = {r \in runs : r.inv = k}
               /\ {w \in versions' : w.inv = k} = {w \in versions : w.inv = k}
    <2>1. CASE UNCHANGED recordVars
      <3>1. inv[k] \in Inventory
        BY <1>1, RowOnFile DEF Base
      <3> QED BY <2>1, <3>1 DEF recordVars, RecordKept, Inventory
    <2>2. ASSUME NEW p \in Accounts, InventoryActs(p)
          PROVE  /\ RecordKept(k)
                 /\ {r \in runs' : r.inv = k} = {r \in runs : r.inv = k}
                 /\ {w \in versions' : w.inv = k} = {w \in versions : w.inv = k}
      BY <1>1, <2>2, PublishedRowKept, PublishedTablesKept DEF Base
    <2> QED BY <1>1, <2>1, <2>2, OthersKeepTheRecords
  <1>2. Base /\ [Next]_vars =>
          [\A i \in Invs :
             inv[i].status = "PUBLISHED" =>
               /\ inv'[i] = [inv[i] EXCEPT !.supersededBy = inv'[i].supersededBy]
               /\ inv'[i].supersededBy # inv[i].supersededBy =>
                    inv[i].supersededBy = NoInv \/ inv'[inv[i].supersededBy].status = "ABSENT"
               /\ {r \in runs' : r.inv = i} = {r \in runs : r.inv = i}
               /\ {w \in versions' : w.inv = i} = {w \in versions : w.inv = i}]_vars
    BY <1>1 DEF RecordKept
  <1> QED BY <1>2, RowsStayTidy, PTL DEF Spec, PublishedIsARecord

\* A request that writes the run table adds, voids, or deletes with the inventory.
LEMMA RunRecordKept ==
  ASSUME Records, NEW p \in Accounts, InventoryActs(p), NEW s \in runs, inv'[s.inv].status # "ABSENT"
  PROVE  s \in runs' \/ (~s.voided /\ [s EXCEPT !.voided = TRUE] \in runs')
  <1>1. ASSUME NEW i \in Invs, Delete(p, i) PROVE s \in runs'
    <2>1. s.inv # i
      BY <1>1 DEF Delete, Absent, Row, MayDelete
    <2> QED BY <1>1, <2>1 DEF Delete, MayDelete
  <1>2. ASSUME NEW r \in runs, VoidRun(p, r)
        PROVE  s \in runs' \/ (~s.voided /\ [s EXCEPT !.voided = TRUE] \in runs')
    BY <1>2 DEF VoidRun, MayVoidRun
  <1>3. ASSUME NEW i \in Invs, Freeze(p, i) \/ LaunchRun(p, i) PROVE s \in runs'
    BY <1>3 DEF Freeze, LaunchRun, MayFreeze, MayLaunchRun
  <1> QED BY <1>1, <1>2, <1>3, TableWriters

\* A run is never rewritten and never deleted on its own: it stays, or is voided, once, with its inventory.
THEOREM RunsStayOnRecord == Spec => RunsAreARecord
  <1>1. ASSUME Base, [Next]_vars, NEW s \in runs, inv'[s.inv].status # "ABSENT"
        PROVE  s \in runs' \/ (~s.voided /\ [s EXCEPT !.voided = TRUE] \in runs')
    BY <1>1, RunRecordKept, OthersKeepTheRecords DEF Base, recordVars
  <1>2. Base /\ [Next]_vars =>
          [\A r \in runs :
             inv'[r.inv].status # "ABSENT" =>
               r \in runs' \/ (~r.voided /\ [r EXCEPT !.voided = TRUE] \in runs')]_vars
    BY <1>1
  <1> QED BY <1>2, RowsStayTidy, PTL DEF Spec, RunsAreARecord

-----------------------------------------------------------------------------
(* Corrections: the third conjunct says that following them ends, for any set of inventories. *)

\* A row that points where it did, and is on file and published if it was.
Pointing(k) ==
  /\ inv'[k].supersededBy = inv[k].supersededBy
  /\ inv[k].status = "PUBLISHED" => inv'[k].status = "PUBLISHED"
  /\ inv[k].status # "ABSENT" => inv'[k].status # "ABSENT"

\* A step that moves no pointer and deletes no inventory keeps the chain.
LEMMA ChainUnmoved ==
  ASSUME CorrectionsChain, \A k \in Invs : Pointing(k),
         \A k \in Invs : inv[k].supersededBy \in Invs \cup {NoInv}
  PROVE  CorrectionsChain'
  BY DEF CorrectionsChain, Exists, Pointing

\* The requests other than deletion and correction move no pointer.
LEMMA PointersKept ==
  ASSUME Records, NEW p \in Accounts, InventoryActs(p), NEW k \in Invs,
         \A i \in Invs : ~Delete(p, i),
         \A i, j \in Invs : ~Supersede(p, i, j)
  PROVE  Pointing(k)
  <1>1. ASSUME NEW i \in Invs, Create(p, i) PROVE Pointing(k)
    <2>1. inv[i].supersededBy = NoInv
      BY <1>1 DEF Create, Exists, Records, TidyRow, Tidy, MayCreate
    <2> QED BY <1>1, <2>1 DEF Create, Exists, Records, Row, Pointing, MayCreate
  <1>2. ASSUME NEW i \in Invs, Update(p, i) PROVE Pointing(k)
    BY <1>2, RowOnFile DEF Update, Exists, Records, Inventory, Pointing, MayUpdate
  <1>3. ASSUME NEW i \in Invs, EditView(p, i) PROVE Pointing(k)
    BY <1>3, RowOnFile DEF EditView, IsEditable, Records, Inventory, Pointing, MayEditView
  <1>4. ASSUME NEW i \in Invs, Freeze(p, i) PROVE Pointing(k)
    BY <1>4, RowOnFile DEF Freeze, IsEditable, Records, Inventory, Pointing, MayFreeze
  <1>5. ASSUME NEW i \in Invs, Reopen(p, i) PROVE Pointing(k)
    BY <1>5, RowOnFile DEF Reopen, Withdrawn, Records, Inventory, Pointing, MayReopen
  <1>6. ASSUME NEW i \in Invs, LaunchRun(p, i) PROVE Pointing(k)
    BY <1>6, RowOnFile DEF LaunchRun, AllowsRuns, Withdrawn, Records, Inventory, Pointing, MayLaunchRun
  <1>7. ASSUME NEW i \in Invs, ReturnToPreparer(p, i) PROVE Pointing(k)
    BY <1>7, RowOnFile DEF ReturnToPreparer, Withdrawn, Records, Inventory, Pointing, MayReturnToPreparer
  <1>8. ASSUME NEW i \in Invs, WithdrawFinal(p, i) PROVE Pointing(k)
    BY <1>8, RowOnFile DEF WithdrawFinal, Withdrawn, Records, Inventory, Pointing, MayWithdrawFinal
  <1>9. ASSUME NEW i \in Invs, Publish(p, i) PROVE Pointing(k)
    BY <1>9, RowOnFile DEF Publish, Records, Inventory, Pointing, MayPublish
  <1>10. ASSUME NEW i \in Invs, NEW a \in Accounts \cup {NoOne}, NEW b \in Accounts \cup {NoOne},
                AssignSignOff(p, i, a, b)
         PROVE  Pointing(k)
    BY <1>10, RowOnFile DEF AssignSignOff, Exists, Records, Inventory, Pointing, MayAssignSignOff
  <1>11. ASSUME NEW r \in runs, VoidRun(p, r) PROVE Pointing(k)
    BY <1>11, RowOnFile DEF VoidRun, Withdrawn, Records, Inventory, Pointing, MayVoidRun
  <1>12. ASSUME NEW r \in runs, SubmitForReview(p, r) PROVE Pointing(k)
    BY <1>12, RowOnFile DEF SubmitForReview, Records, Inventory, Pointing, MaySubmitForReview
  <1>13. ASSUME NEW r \in runs, DesignateFinal(p, r) PROVE Pointing(k)
    BY <1>13, RowOnFile DEF DesignateFinal, Records, Inventory, Pointing, MayDesignateFinal
  <1> QED
    BY <1>1, <1>2, <1>3, <1>4, <1>5, <1>6, <1>7, <1>8, <1>9, <1>10, <1>11, <1>12, <1>13 DEF InventoryActs

\* Setting a pointer to a new draft, or clearing the pointers to a deleted one, makes no cycle.
LEMMA ChainKept ==
  ASSUME Records, CorrectionsChain, NEW p \in Accounts, InventoryActs(p)
  PROVE  CorrectionsChain'
  <1>0. \A k \in Invs : inv[k].supersededBy \in Invs \cup {NoInv}
    BY DEF Records, TidyRow, Inventory, Absent, Row
  <1>1. ASSUME NEW i \in Invs, Delete(p, i) PROVE CorrectionsChain'
    <2>1. \A k \in Invs : inv'[k].supersededBy =
                            IF k = i \/ inv[k].supersededBy = i THEN NoInv ELSE inv[k].supersededBy
      <3> TAKE k \in Invs
      <3>1. CASE k # i /\ inv[k].supersededBy = i
        <4>1. inv[k] \in Inventory
          BY <3>1, FiledRow, NullAssumption DEF Records, TidyRow, Tidy
        <4> QED BY <1>1, <3>1, <4>1 DEF Delete, Inventory, MayDelete
      <3>2. CASE k = i \/ inv[k].supersededBy # i
        BY <1>1, <3>2 DEF Delete, Absent, Row, MayDelete
      <3> QED BY <3>1, <3>2
    <2>2. \A k \in Invs \ {i} : inv'[k].status = inv[k].status
      <3> TAKE k \in Invs \ {i}
      <3>1. CASE inv[k].supersededBy = i
        <4>1. inv[k] \in Inventory
          BY <3>1, FiledRow, NullAssumption DEF Records, TidyRow, Tidy
        <4> QED BY <1>1, <3>1, <4>1 DEF Delete, Inventory, MayDelete
      <3>2. CASE inv[k].supersededBy # i
        BY <1>1, <3>2 DEF Delete, MayDelete
      <3> QED BY <3>1, <3>2
    <2>3. ASSUME NEW k \in Invs, inv'[k].supersededBy # NoInv
          PROVE  inv'[k].status = "PUBLISHED" /\ Exists(inv[k].supersededBy)'
      BY <1>0, <2>1, <2>2, <2>3 DEF CorrectionsChain, Exists
    <2>4. \A S \in (SUBSET Invs) \ {{}} : \E k \in S : inv'[k].supersededBy \notin S
      BY <2>1, NullAssumption DEF CorrectionsChain
    <2>5. \A k, j \in Invs :
            inv'[k].supersededBy # NoInv /\ inv'[k].supersededBy = inv'[j].supersededBy => k = j
      BY <2>1 DEF CorrectionsChain
    <2> QED BY <2>1, <2>3, <2>4, <2>5 DEF CorrectionsChain, Exists
  <1>2. ASSUME NEW i \in Invs, NEW j \in Invs, Supersede(p, i, j) PROVE CorrectionsChain'
    <2>1. /\ i # j /\ inv[j].status = "ABSENT"
          /\ inv[i].status = "PUBLISHED" /\ inv[i].supersededBy = NoInv
      BY <1>2 DEF Supersede, Exists, MaySupersede
    <2>2. /\ inv'[i].supersededBy = j /\ inv'[i].status = "PUBLISHED"
          /\ inv'[j].supersededBy = NoInv /\ inv'[j].status = "DRAFT"
          /\ \A k \in Invs \ {i, j} : inv'[k] = inv[k]
      BY <1>2, <2>1, RowOnFile DEF Supersede, Records, Inventory, Row, MaySupersede
    <2>3. \A k \in Invs : inv[k].supersededBy # j
      BY <2>1, NullAssumption DEF CorrectionsChain, Exists
    <2>4. inv[j].supersededBy = NoInv
      BY <2>1 DEF CorrectionsChain
    <2>5. ASSUME NEW S \in (SUBSET Invs) \ {{}} PROVE \E k \in S : inv'[k].supersededBy \notin S
      <3>1. CASE j \in S
        BY <2>2, <3>1, NullAssumption
      <3>2. CASE j \notin S
        BY <2>2, <3>2 DEF CorrectionsChain
      <3> QED BY <3>1, <3>2
    <2>6. \A k \in Invs : inv'[k].supersededBy # NoInv =>
            inv'[k].status = "PUBLISHED" /\ inv'[inv'[k].supersededBy].status # "ABSENT"
      BY <1>0, <2>1, <2>2, <2>3, <2>4 DEF CorrectionsChain, Exists
    <2>7. \A k, l \in Invs :
            inv'[k].supersededBy # NoInv /\ inv'[k].supersededBy = inv'[l].supersededBy => k = l
      BY <1>0, <2>2, <2>3, <2>4, NullAssumption DEF CorrectionsChain
    <2> QED BY <2>5, <2>6, <2>7 DEF CorrectionsChain, Exists
  <1> QED BY <1>0, <1>1, <1>2, PointersKept, ChainUnmoved

\* Corrections never branch, never point at nothing and never come round, for any number of inventories.
THEOREM CorrectionsNeverCycle == Spec => []CorrectionsChain
  <1>1. Init => CorrectionsChain
    <2> SUFFICES ASSUME Init PROVE CorrectionsChain
      OBVIOUS
    <2>1. \A i \in Invs : inv[i].supersededBy = NoInv
      BY DEF Init, Absent, Row
    <2>2. \A S \in (SUBSET Invs) \ {{}} : \E i \in S : inv[i].supersededBy \notin S
      <3> TAKE S \in (SUBSET Invs) \ {{}}
      <3> PICK i \in S : TRUE
        OBVIOUS
      <3> QED BY <2>1, NullAssumption
    <2> QED BY <2>1, <2>2 DEF CorrectionsChain
  <1>2. Base /\ CorrectionsChain /\ [Next]_vars => CorrectionsChain'
    <2> SUFFICES ASSUME Base, CorrectionsChain, [Next]_vars PROVE CorrectionsChain'
      OBVIOUS
    <2>1. CASE UNCHANGED recordVars
      BY <2>1 DEF recordVars, CorrectionsChain, Exists
    <2> QED BY <2>1, ChainKept, OthersKeepTheRecords DEF Base
  <1> QED BY <1>1, <1>2, RowsStayTidy, PTL DEF Spec

-----------------------------------------------------------------------------
(* The pages.  What the server does was on offer. *)

\* The rights the pages read (roles.ts) are the server's, support access included.
LEMMA RightsAreShown ==
  ASSUME NEW p \in Accounts
  PROVE  /\ MayWrite(p) => mayWrite(p)
         /\ MayApprove(p) => mayApprove(p)
         /\ MemberOwner(p) => mayManageMembership(p)
  BY DEF MayWrite, MayApprove, MemberOwner, CanWrite, CanApprove, OrgRole, mayWrite, mayApprove,
         mayManageMembership, MyRole, WRITE_ROLES, APPROVE_ROLES, UnderSupportAccess, RoleIn, NotAMember

\* What the server does to an inventory was on offer on its pages.
LEMMA InventoryActsOffered ==
  ASSUME NEW p \in Accounts, NEW i \in Invs
  PROVE  /\ Create(p, i) => i \in CreationOffers(p)
         /\ SetBaseYear(p, i) => i \in DesignationOffers(p)
         /\ Delete(p, i) => "delete" \in PageOffers(p, i)
         /\ Update(p, i) /\ inv[i].status = "DRAFT" => "update" \in PageOffers(p, i)
         /\ EditView(p, i) => "edit" \in PageOffers(p, i)
         /\ Freeze(p, i) /\ inv[i].view \notin Unsited \ Unbounded => "freeze" \in LifecycleOffers(p, i)
         /\ Reopen(p, i) => "reopen" \in LifecycleOffers(p, i)
         /\ ReturnToPreparer(p, i) => "return" \in LifecycleOffers(p, i)
         /\ WithdrawFinal(p, i) => "withdraw" \in LifecycleOffers(p, i)
         /\ Publish(p, i) => "publish" \in LifecycleOffers(p, i)
         /\ (\E j \in Invs : Supersede(p, i, j)) => "supersede" \in LifecycleOffers(p, i)
         /\ LaunchRun(p, i) => "launch" \in LaunchOffers(p, i)
  <1>1. /\ Create(p, i) => i \in CreationOffers(p)
        /\ SetBaseYear(p, i) => i \in DesignationOffers(p)
        /\ Delete(p, i) => "delete" \in PageOffers(p, i)
        /\ Update(p, i) /\ inv[i].status = "DRAFT" => "update" \in PageOffers(p, i)
        /\ EditView(p, i) => "edit" \in PageOffers(p, i)
    BY RightsAreShown DEF Create, SetBaseYear, Delete, Update, EditView, IsEditable, Filed, When,
                          CreationOffers, DesignationOffers, PageOffers, MayCreate, MaySetBaseYear, MayDelete,
                          MayUpdate, MayEditView
  <1>2. Freeze(p, i) /\ inv[i].view \notin Unsited \ Unbounded => "freeze" \in LifecycleOffers(p, i)
    BY RightsAreShown DEF Freeze, IsEditable, FreezeBlocked, Sited, LifecycleOffers, When, MayFreeze
  <1>3. Reopen(p, i) => "reopen" \in LifecycleOffers(p, i)
    BY RightsAreShown DEF Reopen, LifecycleOffers, When, MayReopen
  <1>4. ReturnToPreparer(p, i) => "return" \in LifecycleOffers(p, i)
    BY RightsAreShown DEF ReturnToPreparer, LifecycleOffers, When, MayReturnToPreparer
  <1>5. /\ WithdrawFinal(p, i) => "withdraw" \in LifecycleOffers(p, i)
        /\ Publish(p, i) => "publish" \in LifecycleOffers(p, i)
    BY RightsAreShown DEF WithdrawFinal, Publish, LifecycleOffers, When, MayWithdrawFinal, MayPublish
  <1>6. (\E j \in Invs : Supersede(p, i, j)) => "supersede" \in LifecycleOffers(p, i)
    BY RightsAreShown DEF Supersede, LifecycleOffers, When, MaySupersede
  <1>7. LaunchRun(p, i) => "launch" \in LaunchOffers(p, i)
    BY RightsAreShown DEF LaunchRun, AllowsRuns, ReportReady, LaunchOffers, When, MayLaunchRun
  <1> QED BY <1>1, <1>2, <1>3, <1>4, <1>5, <1>6, <1>7

\* Whoever may sign the run they put forward themselves is shown so (submitterMaySign).
LEMMA RunActsOffered ==
  ASSUME NEW p \in Accounts, NEW r \in runs
  PROVE  /\ SubmitForReview(p, r) /\ r.no # inv[r.inv].submittedRun => "submit" \in RunOffers(p, r)
         /\ DesignateFinal(p, r) => "final" \in RunOffers(p, r)
         /\ VoidRun(p, r) => "void" \in RunOffers(p, r)
  <1>1. SubmitForReview(p, r) => mayWrite(p) /\ inv[r.inv].status \in {"FROZEN", "IN_REVIEW"} /\ ~r.voided
    BY RightsAreShown DEF SubmitForReview, MaySubmitForReview
  <1>2. VoidRun(p, r) => mayWrite(p) /\ inv[r.inv].status # "PUBLISHED" /\ ~r.voided /\ r.no # inv[r.inv].finalRun
    BY RightsAreShown DEF VoidRun, MayVoidRun
  <1>3. DesignateFinal(p, r) =>
          /\ mayApprove(p) /\ inv[r.inv].status = "IN_REVIEW" /\ r.no = inv[r.inv].submittedRun
          /\ ~(p = inv[r.inv].submittedBy /\ ~SubmitterMaySign(r.inv))
    BY RightsAreShown, NullAssumption DEF DesignateFinal, SubmitterMaySign, MayDesignateFinal
  <1> QED BY <1>1, <1>2, <1>3 DEF RunOffers, When

LEMMA OtherActsOffered ==
  ASSUME NEW p \in Accounts
  PROVE  /\ DeleteOrganization(p) => "delete organization" \in OrganizationOffers(p)
         /\ ClearBaseYear(p) => "clear" \in BaseYearOffers(p)
         /\ RaiseCandidate(p) => "raise" \in BaseYearOffers(p)
         /\ \A kind \in Undecided : DecideCandidate(p, kind) => kind \in DecisionOffers(p)
  <1>1. DeleteOrganization(p) => "delete organization" \in OrganizationOffers(p)
    BY RightsAreShown DEF DeleteOrganization, RemoveOrganization, OrganizationOffers, Filed, When,
                          MayDeleteOrganization
  <1>2. ClearBaseYear(p) \/ RaiseCandidate(p) => mayWrite(p) /\ baseYear # NoInv
    BY RightsAreShown DEF ClearBaseYear, RaiseCandidate, MayClearBaseYear, MayRaiseCandidate
  <1>3. \A kind \in Undecided : DecideCandidate(p, kind) => kind \in DecisionOffers(p)
    BY RightsAreShown DEF DecideCandidate, MayDecideCandidate, DecisionOffers, When
  <1> QED BY <1>1, <1>2, <1>3 DEF BaseYearOffers, When

\* Nobody is locked out of an act by a screen: for any accounts, roles and grants, whatever the server lets a
\* request do to the inventories, their runs, the base year and the organization, the pages offered it.
THEOREM ServerActsAreOffered == Spec => ActsAreOffered
  <1>1. ASSUME NEW p \in Accounts PROVE OfferedTo(p)
    BY InventoryActsOffered, RunActsOffered, OtherActsOffered DEF OfferedTo
  <1>2. [\A p \in Accounts : OfferedTo(p)]_vars
    BY <1>1
  <1> QED BY <1>2, PTL DEF ActsAreOffered

\* A sign-off that names somebody else was one of the pairs the two selects hold.
LEMMA NamingOffered ==
  ASSUME Records, NEW p \in Accounts, NEW i \in Invs, NEW a, NEW b, AssignSignOff(p, i, a, b), inv' # inv
  PROVE  <<a, b>> \in SignOffOffers(p, i)
  <1> DEFINE preparers == {m \in Accounts : CanWrite(role[m])} \cup {NoOne, inv[i].preparer}
             approvers == {m \in Accounts : CanApprove(role[m])} \cup {NoOne, inv[i].approver}
  <1>1. mayApprove(p) /\ inv[i].status # "PUBLISHED" /\ a \in preparers /\ b \in approvers
    BY RightsAreShown DEF AssignSignOff, MayAssignSignOff
  <1>2. <<a, b>> # <<inv[i].preparer, inv[i].approver>>
    <2> SUFFICES ASSUME a = inv[i].preparer, b = inv[i].approver PROVE inv' = inv
      OBVIOUS
    <2>1. inv[i] \in Inventory
      BY RowOnFile DEF AssignSignOff, Exists, MayAssignSignOff
    <2>2. [inv[i] EXCEPT !.preparer = a, !.approver = b] = inv[i]
      BY <2>1 DEF Inventory
    <2>3. inv' = [inv EXCEPT ![i] = [inv[i] EXCEPT !.preparer = a, !.approver = b]]
      BY DEF AssignSignOff, MayAssignSignOff
    <2> QED BY <2>2, <2>3 DEF Records
  <1> QED BY <1>1, <1>2 DEF SignOffOffers, When

\* The same of the acts on people: whoever may name a preparer or an approver, or add, promote or remove a
\* member, found the control that does it.
THEOREM ServerActsOnPeopleAreOffered == Spec => ActsOnPeopleAreOffered
  <1> DEFINE Offered == \A p \in Accounts :
        /\ inv' # inv => \A i \in Invs :
             LET pair == <<inv'[i].preparer, inv'[i].approver>>
             IN  AssignSignOff(p, i, pair[1], pair[2]) => pair \in SignOffOffers(p, i)
        /\ role' # role => \A m \in Accounts :
             /\ (\E r \in OfferedRoles : AddMember(p, m, r)) => "add" \in MemberOffers(p, m)
             /\ (\E r \in OfferedRoles : ChangeMemberRole(p, m, r)) => "change" \in MemberOffers(p, m)
             /\ RemoveMember(p, m) => "remove" \in MemberOffers(p, m)
  <1>1. ASSUME Base PROVE Offered
    <2>1. ASSUME NEW p \in Accounts, NEW i \in Invs, inv' # inv,
                 AssignSignOff(p, i, inv'[i].preparer, inv'[i].approver)
          PROVE  <<inv'[i].preparer, inv'[i].approver>> \in SignOffOffers(p, i)
      BY <1>1, <2>1, NamingOffered DEF Base
    <2>2. ASSUME NEW p \in Accounts, NEW m \in Accounts
          PROVE  /\ (\E r \in OfferedRoles : AddMember(p, m, r)) => "add" \in MemberOffers(p, m)
                 /\ (\E r \in OfferedRoles : ChangeMemberRole(p, m, r)) => "change" \in MemberOffers(p, m)
                 /\ RemoveMember(p, m) => "remove" \in MemberOffers(p, m)
      BY RightsAreShown DEF AddMember, ChangeMemberRole, RemoveMember, MemberOffers, When, MayAddMember,
                            MayChangeMemberRole, MayRemoveMember
    <2> QED BY <2>1, <2>2
  <1>2. Base => [Offered]_vars
    BY <1>1
  <1> QED BY <1>2, RowsStayTidy, PTL DEF ActsOnPeopleAreOffered

-----------------------------------------------------------------------------
(* What the pages offer is accepted. *)

\* A right that the page counts on is one the server grants: support access is shown as a role of its own and
\* counts as an owner's, and nobody holds a role that is not of the organization's.
LEMMA RightsShownAreHeld ==
  ASSUME AccessTypeOK, NEW p \in Accounts
  PROVE  /\ mayWrite(p) => MayWrite(p)
         /\ mayApprove(p) => MayApprove(p)
         /\ mayManageMembership(p) => MemberOwner(p)
  <1>1. UnderSupportAccess(p) => RoleIn(p) = "OWNER" /\ MyRole(p) = "ADMIN"
    BY DEF UnderSupportAccess, RoleIn, MyRole
  <1>2. ~UnderSupportAccess(p) => MyRole(p) = RoleIn(p)
    BY DEF MyRole
  <1>3. RoleIn(p) \in OrgRole \cup {NotAMember}
    BY DEF AccessTypeOK, RoleIn, OrgRole
  <1>4. CASE UnderSupportAccess(p)
    BY <1>1, <1>4 DEF mayWrite, mayApprove, mayManageMembership, MayWrite, MayApprove, CanWrite, CanApprove,
                      OrgRole
  <1>5. CASE ~UnderSupportAccess(p)
    BY <1>2, <1>3, <1>5 DEF mayWrite, mayApprove, mayManageMembership, MayWrite, MayApprove, MemberOwner,
                            CanWrite, CanApprove, OrgRole, NotAMember, WRITE_ROLES, APPROVE_ROLES
  <1> QED BY <1>4, <1>5

\* The controls of the list, the workbench and the lifecycle's bar.
LEMMA InventoryOffersAccepted ==
  ASSUME Base, NEW p \in Accounts, NEW i \in Filed
  PROVE  /\ \A act \in PageOffers(p, i) \ When(~MayWrite(p), {"delete"}) : PageAccepts(p, i, act)
         /\ \A act \in LifecycleOffers(p, i) \ LifecycleUnseen(p, i) : LifecycleAccepts(p, i, act)
         /\ LaunchOffers(p, i) # {} => MayLaunchRun(p, i)
  <1>1. i \in Invs /\ Exists(i) /\ inv[i].status \in Status
    BY RowOnFile DEF Filed, Exists, Base, Inventory
  <1>2. /\ mayWrite(p) => MayWrite(p)
        /\ mayApprove(p) => MayApprove(p)
    BY RightsShownAreHeld DEF Base
  <1>3. ASSUME NEW act \in PageOffers(p, i) \ When(~MayWrite(p), {"delete"}) PROVE PageAccepts(p, i, act)
    <2>1. CASE act = "delete"
      BY <1>1, <1>3, <2>1 DEF PageOffers, PageAccepts, When, MayDelete
    <2>2. CASE act \in {"update", "edit"}
      BY <1>1, <1>2, <1>3, <2>2 DEF PageOffers, PageAccepts, When, MayUpdate, MayEditView, IsEditable
    <2> QED BY <1>3, <2>1, <2>2 DEF PageOffers, When
  <1>4. ASSUME NEW act \in LifecycleOffers(p, i) \ LifecycleUnseen(p, i) PROVE LifecycleAccepts(p, i, act)
    <2>1. CASE act \in {"freeze", "reopen"}
      BY <1>2, <1>4, <2>1, BoundaryAssumption
         DEF LifecycleOffers, LifecycleAccepts, When, MayFreeze, MayReopen, FreezeBlocked, Sited, IsEditable
    <2>2. CASE act \in {"return", "publish"}
      BY <1>2, <1>4, <2>2 DEF LifecycleOffers, LifecycleUnseen, LifecycleAccepts, When, MayReturnToPreparer,
                              MayPublish
    <2>3. CASE act \in {"withdraw", "supersede"}
      BY <1>2, <1>4, <2>3 DEF LifecycleOffers, LifecycleAccepts, When, MayWithdrawFinal, MaySupersede
    <2> QED BY <1>4, <2>1, <2>2, <2>3 DEF LifecycleOffers, When
  <1>5. LaunchOffers(p, i) # {} => MayLaunchRun(p, i)
    BY <1>1, <1>2 DEF LaunchOffers, When, ReportReady, MayLaunchRun, AllowsRuns, Status
  <1> QED BY <1>3, <1>4, <1>5

\* The runs' controls: the run in review, whose sign-off is offered, is not voided.
LEMMA RunOffersAccepted ==
  ASSUME Base, Tables, NEW p \in Accounts, NEW r \in runs, NEW act \in RunOffers(p, r) \ RunUnseen(p, r)
  PROVE  RunAccepts(p, r, act)
  <1>1. /\ mayWrite(p) => MayWrite(p)
        /\ mayApprove(p) => MayApprove(p)
    BY RightsShownAreHeld DEF Base
  <1>2. CASE act = "submit"
    BY <1>1, <1>2 DEF RunOffers, RunUnseen, RunAccepts, When, MaySubmitForReview
  <1>3. CASE act = "void"
    BY <1>1, <1>3 DEF RunOffers, RunAccepts, When, MayVoidRun
  <1>4. CASE act = "final"
    <2> DEFINE i == r.inv
    <2>1. /\ mayApprove(p) /\ inv[i].status = "IN_REVIEW" /\ r.no = inv[i].submittedRun
          /\ ~(p = inv[i].submittedBy /\ ~SubmitterMaySign(i))
          /\ IsTheApprover(p, i) /\ ~RecalculationHolds(i) /\ ~FinalHolds(i)
      BY <1>4 DEF RunOffers, RunUnseen, When
    <2>2. ~r.voided
      <3>1. r \in Run /\ i \in Invs /\ r.no # NoNumber
        BY DEF Base, Records, Run, NoNumber
      <3>2. PICK s \in runs : s.inv = i /\ s.no = inv[i].submittedRun /\ ~s.voided
        BY <2>1, <3>1 DEF Tables, SubmittedRunOnFile
      <3> QED BY <2>1, <3>2 DEF Tables, NumbersAreUnique
    <2>3. p = inv[i].submittedBy => ~AnotherApprover(p)
      BY <2>1 DEF SubmitterMaySign
    <2> QED BY <1>1, <1>4, <2>1, <2>2, <2>3 DEF RunAccepts, MayDesignateFinal
  <1> QED BY <1>2, <1>3, <1>4 DEF RunOffers, When

\* The names of the sign-off: a pair that the card holds and that nobody named before is one of roles that fit.
LEMMA NamingAccepted ==
  ASSUME Base, NEW p \in Accounts, NEW i \in Filed, NEW pair \in SignOffOffers(p, i) \ SignOffUnseen
  PROVE  MayAssignSignOff(p, i, pair[1], pair[2])
  <1>1. i \in Invs /\ Exists(i) /\ inv[i] \in Inventory
    BY RowOnFile DEF Filed, Exists, Base
  <1>2. mayApprove(p) /\ inv[i].status # "PUBLISHED"
    BY DEF SignOffOffers, When
  <1>3. MayApprove(p)
    BY <1>2, RightsShownAreHeld DEF Base
  <1>4. pair \in Namings
    BY <1>1, <1>2 DEF SignOffOffers, When, Namings, Inventory
  <1>5. /\ pair[1] \in Accounts \cup {NoOne} /\ pair[2] \in Accounts \cup {NoOne}
        /\ pair[1] = NoOne \/ pair[1] # pair[2]
        /\ pair[1] = NoOne \/ CanWrite(role[pair[1]])
        /\ pair[2] = NoOne \/ CanApprove(role[pair[2]])
    BY <1>4 DEF SignOffUnseen, Namings
  <1> QED BY <1>1, <1>2, <1>3, <1>5 DEF MayAssignSignOff

\* The members' card, the organization's dialog, the base year's page and the list's "new".
LEMMA OtherOffersAccepted ==
  ASSUME Base, NEW p \in Accounts
  PROVE  /\ \A m \in Accounts : \A act \in MemberOffers(p, m) \ MemberUnseen(m) : MemberAccepts(p, m, act)
         /\ OrganizationOffers(p) # {} => MayDeleteOrganization(p)
         /\ \A act \in BaseYearOffers(p) : BaseYearAccepts(p, act)
         /\ \A kind \in DecisionOffers(p) : MayDecideCandidate(p, kind)
         /\ \A i \in DesignationOffers(p) : MaySetBaseYear(p, i)
         /\ \A i \in CreationOffers(p) : MayCreate(p, i)
  <1>1. /\ mayWrite(p) => MayWrite(p)
        /\ mayManageMembership(p) => MemberOwner(p)
    BY RightsShownAreHeld DEF Base
  <1>2. ASSUME NEW m \in Accounts, NEW act \in MemberOffers(p, m) \ MemberUnseen(m)
        PROVE  MemberAccepts(p, m, act)
    <2>1. CASE act = "add"
      BY <1>1, <1>2, <2>1 DEF MemberOffers, When, MemberAccepts, MayAddMember
    <2>2. CASE act \in {"change", "remove"}
      BY <1>1, <1>2, <2>2 DEF MemberOffers, MemberUnseen, When, MemberAccepts, MayChangeMemberRole,
                              MayRemoveMember
    <2> QED BY <1>2, <2>1, <2>2 DEF MemberOffers, When
  <1>3. OrganizationOffers(p) # {} => MayDeleteOrganization(p)
    <2>1. \A i \in Invs \ Filed : inv[i].status = "ABSENT" /\ inv[i].finalRun = NoNumber
      BY DEF Filed, Exists, Base, Records, TidyRow, Tidy
    <2> QED BY <1>1, <2>1 DEF OrganizationOffers, When, MayDeleteOrganization
  <1>4. \A act \in BaseYearOffers(p) : BaseYearAccepts(p, act)
    BY <1>1 DEF BaseYearOffers, When, BaseYearAccepts, MayClearBaseYear, MayRaiseCandidate
  <1>5. /\ \A i \in DesignationOffers(p) : MaySetBaseYear(p, i)
        /\ \A i \in CreationOffers(p) : MayCreate(p, i)
    BY <1>1 DEF DesignationOffers, CreationOffers, Filed, When, MaySetBaseYear, MayCreate
  <1>6. \A kind \in DecisionOffers(p) : MayDecideCandidate(p, kind)
    BY <1>1 DEF DecisionOffers, When, MayDecideCandidate
  <1> QED BY <1>2, <1>3, <1>4, <1>5, <1>6

\* A control that is enabled on an up-to-date page does what it says, but for the refusals no page can tell:
\* the handler's checks pass, in every reachable state, for any accounts, roles, grants and inventories.
THEOREM OffersAreAccepted == Spec => []OfferedIsAccepted
  <1>1. Base /\ Tables => OfferedIsAccepted
    BY InventoryOffersAccepted, RunOffersAccepted, NamingAccepted, OtherOffersAccepted
       DEF OfferedIsAccepted, Readers
  <1> QED BY <1>1, RowsStayTidy, TablesStand, PTL
=============================================================================
