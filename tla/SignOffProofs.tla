---------------------------- MODULE SignOffProofs ----------------------------
(***************************************************************************)
(* The lifecycle implements the sign-off workflow, for any number of       *)
(* accounts, inventories and runs.                                         *)
(*                                                                         *)
(* Base and Tables (InventoryLifecycleProofs) are the invariant the steps  *)
(* are mapped under: rows are tidy, a standing submission names a run on   *)
(* file, and a number names one run.  Each request that rewrites a row is  *)
(* one step of the workflow, or leaves the row's case alone.               *)
(***************************************************************************)
EXTENDS InventoryLifecycleProofs, InventorySignOff

cases == [i \in Invs |-> caseOf(inv[i])]

\* The runs on file carry numbers the workflow knows.
Numbered == \A r \in runs : r.no \in 1..MaxRuns

-----------------------------------------------------------------------------
\* Only a launch adds a run, and a void keeps the number.
LEMMA NumberedStep == Base /\ Numbered /\ [Next]_vars => Numbered'
  <1> SUFFICES ASSUME Base, Numbered, [Next]_vars PROVE Numbered'
    OBVIOUS
  <1>1. ASSUME NEW p \in Accounts, InventoryActs(p) PROVE Numbered'
    <2>1. CASE UNCHANGED <<runs, versions>>
      BY <2>1 DEF Numbered
    <2>2. ASSUME NEW i \in Invs, Delete(p, i) \/ Freeze(p, i) PROVE Numbered'
      BY <2>2 DEF Delete, Freeze, Numbered, MayDelete, MayFreeze
    <2>3. ASSUME NEW i \in Invs, LaunchRun(p, i) PROVE Numbered'
      BY <2>3 DEF LaunchRun, Numbered, MayLaunchRun
    <2>4. ASSUME NEW r \in runs, VoidRun(p, r) PROVE Numbered'
      <3>1. r \in Run
        BY DEF Base, Records
      <3>2. [r EXCEPT !.voided = TRUE].no = r.no
        BY <3>1 DEF Run
      <3> QED BY <2>4, <3>2 DEF VoidRun, Numbered, MayVoidRun
    <2> QED BY <1>1, <2>1, <2>2, <2>3, <2>4, TableWriters
  <1>2. CASE UNCHANGED recordVars
    BY <1>2 DEF recordVars, Numbered
  <1> QED BY <1>1, <1>2, OthersKeepTheRecords

\* A step that rewrites one row rewrites one case.
LEMMA OneCase ==
  ASSUME Records, NEW i \in Invs, NEW row, inv' = [inv EXCEPT ![i] = row]
  PROVE  cases' = [cases EXCEPT ![i] = caseOf(row)]
  BY DEF Records, cases

\* A case is read off five columns.
SameSignOff(a, b) ==
  /\ a.status = b.status /\ a.submittedRun = b.submittedRun /\ a.submittedBy = b.submittedBy
  /\ a.finalRun = b.finalRun /\ a.signer = b.signer

\* Edits of the other columns keep it.
LEMMA SameCase ==
  ASSUME NEW a, NEW b, SameSignOff(a, b)
  PROVE  caseOf(a) = caseOf(b)
  BY DEF SameSignOff, caseOf

\* The case of a tidy row without a submission is open.
LEMMA OpenCase ==
  ASSUME NEW row \in TidyRow, row.submittedRun = NoNumber
  PROVE  caseOf(row) = Workflow!Open
  BY DEF TidyRow, Tidy, caseOf, stageOf, Workflow!Open, NoNumber

\* So a step that rewrites one row, from a case to the same, and no run, leaves the workflow alone.
LEMMA CaseKept ==
  ASSUME Records, NEW i \in Invs, NEW row, inv' = [inv EXCEPT ![i] = row],
         caseOf(row) = caseOf(inv[i]), UNCHANGED runs
  PROVE  UNCHANGED <<soundRuns, cases>>
  <1>1. cases' = cases
    BY OneCase DEF cases
  <1> QED BY <1>1 DEF soundRuns

-----------------------------------------------------------------------------
(* The steps.  The workflow's variables are soundRuns and cases. *)

WorkflowStep == Workflow!Next \/ UNCHANGED <<soundRuns, cases>>

\* Headers, views, freezes, assignments, new drafts and corrections are not the workflow's business.
LEMMA EditsRefine ==
  ASSUME Base, Base', NEW p \in Accounts, NEW i \in Invs,
         \/ Create(p, i) \/ Update(p, i) \/ EditView(p, i) \/ Freeze(p, i)
         \/ \E a, b \in Accounts \cup {NoOne} : AssignSignOff(p, i, a, b)
         \/ \E j \in Invs : Supersede(p, i, j)
  PROVE  UNCHANGED <<soundRuns, cases>>
  <1>1. UNCHANGED runs
    BY DEF Create, Update, EditView, Freeze, AssignSignOff, Supersede, MayCreate, MayUpdate, MayEditView,
           MayFreeze, MayAssignSignOff, MaySupersede
  <1>2. \A k \in Invs : inv[k] \in TidyRow /\ inv'[k] \in TidyRow
    BY DEF Base, Records
  <1>3. ASSUME NEW k \in Invs PROVE caseOf(inv'[k]) = caseOf(inv[k])
    <2>1. CASE Create(p, i)
      <3>1. CASE k = i
        <4>1. inv[k].submittedRun = NoNumber /\ inv'[k].submittedRun = NoNumber
          BY <1>2, <2>1, <3>1 DEF Create, Exists, Row, Base, Records, TidyRow, Tidy, MayCreate
        <4> QED BY <4>1, <1>2, OpenCase
      <3>2. CASE k # i
        BY <2>1, <3>2 DEF Create, Base, Records, MayCreate
      <3> QED BY <3>1, <3>2
    <2>2. CASE Update(p, i)
      <3>1. inv[i] \in Inventory
        BY <2>2, RowOnFile DEF Update, Exists, IsEditable, Base, MayUpdate
      <3>2. PICK v \in Views, t \in Treatments : inv' = [inv EXCEPT ![i].view = v, ![i].straddle = t]
        BY <2>2 DEF Update, MayUpdate
      <3>3. inv'[k] = IF k = i THEN [inv[i] EXCEPT !.view = v, !.straddle = t] ELSE inv[k]
        BY <3>2 DEF Base, Records
      <3>4. SameSignOff(inv'[k], inv[k])
        BY <3>1, <3>3 DEF Inventory, SameSignOff
      <3> QED BY <3>4, SameCase
    <2>3. CASE EditView(p, i)
      <3>1. inv[i] \in Inventory
        BY <2>3, RowOnFile DEF EditView, Exists, IsEditable, Base, MayEditView
      <3>2. PICK v \in Views : inv' = [inv EXCEPT ![i].view = v]
        BY <2>3 DEF EditView, MayEditView
      <3>3. inv'[k] = IF k = i THEN [inv[i] EXCEPT !.view = v] ELSE inv[k]
        BY <3>2 DEF Base, Records
      <3>4. SameSignOff(inv'[k], inv[k])
        BY <3>1, <3>3 DEF Inventory, SameSignOff
      <3> QED BY <3>4, SameCase
    <2>4. CASE Freeze(p, i)
      <3>1. CASE k = i
        <4>1. inv[k].submittedRun = NoNumber /\ inv'[k].submittedRun = NoNumber
          <5>1. inv[k] \in Inventory /\ Tidy(inv[k]) /\ inv[k].status = "DRAFT"
            BY <2>4, <3>1, RowOnFile DEF Freeze, IsEditable, Base, MayFreeze
          <5>2. PICK n \in 1..MaxVersions : inv' = [inv EXCEPT ![i].status = "FROZEN", ![i].version = n]
            BY <2>4 DEF Freeze, MayFreeze
          <5>3. inv'[k] = [inv[i] EXCEPT !.status = "FROZEN", !.version = n]
            BY <3>1, <5>2 DEF Base, Records
          <5>4. inv'[k].submittedRun = inv[k].submittedRun
            BY <3>1, <5>1, <5>3 DEF Inventory
          <5> QED BY <5>1, <5>4 DEF Tidy
        <4> QED BY <4>1, <1>2, OpenCase
      <3>2. CASE k # i
        BY <2>4, <3>2 DEF Freeze, Base, Records, MayFreeze
      <3> QED BY <3>1, <3>2
    <2>5. ASSUME NEW a \in Accounts \cup {NoOne}, NEW b \in Accounts \cup {NoOne}, AssignSignOff(p, i, a, b)
          PROVE  caseOf(inv'[k]) = caseOf(inv[k])
      <3>1. inv[i] \in Inventory
        BY <2>5, RowOnFile DEF AssignSignOff, Exists, Base, MayAssignSignOff
      <3>2. SameSignOff(inv'[k], inv[k])
        BY <2>5, <3>1 DEF AssignSignOff, Base, Records, Inventory, SameSignOff, MayAssignSignOff
      <3> QED BY <3>2, SameCase
    <2>6. ASSUME NEW j \in Invs, Supersede(p, i, j) PROVE caseOf(inv'[k]) = caseOf(inv[k])
      <3>1. CASE k = j
        <4>1. inv[k].submittedRun = NoNumber /\ inv'[k].submittedRun = NoNumber
          BY <1>2, <2>6, <3>1 DEF Supersede, Exists, Row, Base, Records, TidyRow, Tidy, MaySupersede
        <4> QED BY <4>1, <1>2, OpenCase
      <3>2. CASE k = i /\ k # j
        <4>1. inv[i] \in Inventory
          BY <2>6, RowOnFile DEF Supersede, Base, MaySupersede
        <4>2. SameSignOff(inv'[k], inv[k])
          BY <2>6, <3>2, <4>1 DEF Supersede, Base, Records, Inventory, SameSignOff, MaySupersede
        <4> QED BY <4>2, SameCase
      <3>3. CASE k # i /\ k # j
        BY <2>6, <3>3 DEF Supersede, Base, Records, MaySupersede
      <3> QED BY <3>1, <3>2, <3>3
    <2> QED BY <2>1, <2>2, <2>3, <2>4, <2>5, <2>6
  <1> QED BY <1>1, <1>3 DEF soundRuns, cases

\* Reopening, returning and withdrawing the final designation take the case back, if there is one.
LEMMA WithdrawalsRefine ==
  ASSUME Base, Base', NEW p \in Accounts, NEW i \in Invs,
         Reopen(p, i) \/ ReturnToPreparer(p, i) \/ WithdrawFinal(p, i)
  PROVE  WorkflowStep
  <1>1. PICK row : inv' = [inv EXCEPT ![i] = row] /\ row.submittedRun = NoNumber /\ UNCHANGED runs
                   /\ inv[i].status \in {"FROZEN", "IN_REVIEW", "FINAL"}
    <2>1. inv[i] \in Inventory
      BY RowOnFile DEF Base, Reopen, ReturnToPreparer, WithdrawFinal, MayReopen, MayReturnToPreparer,
                       MayWithdrawFinal
    <2>2. CASE Reopen(p, i)
      <3> DEFINE row == [Withdrawn(inv[i]) EXCEPT !.status = "DRAFT"]
      <3>1. row.submittedRun = NoNumber
        BY <2>1 DEF Withdrawn, Inventory
      <3> QED BY <2>2, <3>1 DEF Reopen, MayReopen
    <2>3. CASE ReturnToPreparer(p, i)
      <3>1. Withdrawn(inv[i]).submittedRun = NoNumber
        BY <2>1 DEF Withdrawn, Inventory
      <3> QED BY <2>3, <3>1 DEF ReturnToPreparer, MayReturnToPreparer
    <2>4. CASE WithdrawFinal(p, i)
      <3> DEFINE row == [Withdrawn(inv[i]) EXCEPT !.finalRun = NoNumber, !.signer = NoOne,
                                                  !.selfApproved = FALSE]
      <3>1. row.submittedRun = NoNumber
        BY <2>1 DEF Withdrawn, Inventory
      <3> QED BY <2>4, <3>1 DEF WithdrawFinal, MayWithdrawFinal
    <2> QED BY <2>2, <2>3, <2>4
  <1>2. inv[i] \in TidyRow /\ row \in TidyRow
    BY <1>1 DEF Base, Records
  <1>3. caseOf(row) = Workflow!Open
    BY <1>1, <1>2, OpenCase
  <1>4. CASE inv[i].status = "FROZEN"
    <2>1. inv[i].submittedRun = NoNumber
      BY <1>2, <1>4 DEF TidyRow, Tidy
    <2>2. caseOf(inv[i]) = caseOf(row)
      BY <2>1, <1>2, <1>3, OpenCase
    <2> QED BY <1>1, <2>2, CaseKept DEF Base, WorkflowStep
  <1>5. CASE inv[i].status \in {"IN_REVIEW", "FINAL"}
    <2>1. cases' = [cases EXCEPT ![i] = Workflow!Open]
      BY <1>1, <1>3, OneCase DEF Base
    <2>2. cases[i].stage \in {"PUT", "SIGNED"}
      BY <1>5 DEF cases, caseOf, stageOf
    <2>3. Workflow!TakeBack(i)
      BY <1>1, <2>1, <2>2 DEF Workflow!TakeBack, Workflow!TakenBack, cases, soundRuns
    <2> QED BY <2>3 DEF Workflow!Next, WorkflowStep
  <1> QED BY <1>1, <1>4, <1>5

\* A launch records a run under a new number and takes back what was put forward.
LEMMA LaunchRefines ==
  ASSUME Base, Base', NEW p \in Accounts, NEW i \in Invs, LaunchRun(p, i)
  PROVE  WorkflowStep
  <1>1. PICK n \in 1..MaxRuns :
          /\ IsNextNumber(runs, i, n)
          /\ runs' = runs \cup {[inv |-> i, no |-> n, version |-> inv[i].version,
                                 view |-> inv[i].view, voided |-> FALSE]}
    BY DEF LaunchRun, MayLaunchRun
  <1>2. \A r \in runs : r.inv = i => r.no # n
    BY <1>1 DEF IsNextNumber, Base, Records, Run
  <1>3. <<i, n>> \notin soundRuns
    BY <1>2 DEF soundRuns
  <1>4. soundRuns' = soundRuns \cup {<<i, n>>}
    <2> DEFINE new == [inv |-> i, no |-> n, version |-> inv[i].version, view |-> inv[i].view, voided |-> FALSE]
    <2>1. new.inv = i /\ new.no = n /\ ~new.voided
      OBVIOUS
    <2> HIDE DEF new
    <2>2. {s \in runs' : ~s.voided} = {s \in runs : ~s.voided} \cup {new}
      BY <1>1, <2>1 DEF new
    <2> QED BY <2>1, <2>2 DEF soundRuns
  <1>5. inv[i] \in Inventory /\ inv[i] \in TidyRow /\ inv[i].status \in {"FROZEN", "IN_REVIEW", "FINAL"}
    BY RowOnFile DEF LaunchRun, AllowsRuns, Base, Records, MayLaunchRun
  <1>6. cases[i].stage # "ISSUED"
    BY <1>5 DEF cases, caseOf, stageOf
  <1>7. cases' = IF cases[i].stage = "PUT" THEN [cases EXCEPT ![i] = Workflow!Open] ELSE cases
    <2>1. CASE inv[i].status = "IN_REVIEW"
      <3>1. inv' = [inv EXCEPT ![i] = Withdrawn(inv[i])]
        BY <2>1 DEF LaunchRun, MayLaunchRun
      <3>2. Withdrawn(inv[i]).submittedRun = NoNumber /\ Withdrawn(inv[i]) \in TidyRow
        BY <1>5, <3>1 DEF Withdrawn, Inventory, Base, Records
      <3>3. cases[i].stage = "PUT"
        BY <2>1 DEF cases, caseOf, stageOf
      <3> QED BY <3>1, <3>2, <3>3, OneCase, OpenCase DEF Base
    <2>2. CASE inv[i].status # "IN_REVIEW"
      <3>1. inv' = inv
        BY <2>2 DEF LaunchRun, MayLaunchRun
      <3>2. cases[i].stage # "PUT"
        BY <1>5, <2>2 DEF cases, caseOf, stageOf
      <3> QED BY <3>1, <3>2 DEF cases
    <2> QED BY <2>1, <2>2
  <1>8. Workflow!Record(i, n)
    BY <1>3, <1>4, <1>6, <1>7 DEF Workflow!Record, Workflow!TakenBack, cases
  <1>9. Workflow!Next
    BY <1>8, Zenon DEF Workflow!Next
  <1> QED BY <1>9 DEF WorkflowStep

\* A void takes one run off the sound ones, since no other run has its number, and its case with it.
LEMMA VoidRefines ==
  ASSUME Base, Base', Tables, Numbered, NEW p \in Accounts, NEW r \in runs, VoidRun(p, r)
  PROVE  WorkflowStep
  <1> DEFINE i == r.inv
             n == r.no
             v == [r EXCEPT !.voided = TRUE]
  <1>1. r \in Run /\ i \in Invs /\ n \in 1..MaxRuns /\ n # NoNumber
    BY DEF Base, Records, Run, Numbered, NoNumber
  <1>2. ~r.voided /\ runs' = (runs \ {r}) \cup {v} /\ v.voided
    BY <1>1 DEF VoidRun, Run, MayVoidRun
  <1>3. \A s \in runs : s.inv = i /\ s.no = n => s = r
    BY DEF Tables, NumbersAreUnique
  <1>4. <<i, n>> \in soundRuns
    BY <1>2 DEF soundRuns
  <1>5. soundRuns' = soundRuns \ {<<i, n>>}
    <2>1. {s \in runs' : ~s.voided} = {s \in runs : ~s.voided} \ {r}
      BY <1>2
    <2>2. \A s \in runs \ {r} : <<s.inv, s.no>> # <<i, n>>
      BY <1>3
    <2> QED BY <2>1, <2>2 DEF soundRuns
  <1>6. inv[i].status # "PUBLISHED" /\ n # inv[i].finalRun /\ inv[i] \in TidyRow
    BY <1>1 DEF VoidRun, Base, Records, MayVoidRun
  <1>7. cases[i].stage # "ISSUED" /\ (cases[i].stage = "SIGNED" => cases[i].run # n)
    BY <1>1, <1>6 DEF cases, caseOf, stageOf
  <1>8. cases' = IF cases[i].run = n THEN [cases EXCEPT ![i] = Workflow!Open] ELSE cases
    <2>1. CASE inv[i].status = "IN_REVIEW" /\ n = inv[i].submittedRun
      <3>1. inv' = [inv EXCEPT ![i] = Withdrawn(inv[i])]
        BY <2>1 DEF VoidRun, MayVoidRun
      <3>2. inv[i] \in Inventory
        BY <1>1, <2>1, RowOnFile DEF Base
      <3>3. Withdrawn(inv[i]).submittedRun = NoNumber /\ Withdrawn(inv[i]) \in TidyRow
        BY <1>1, <3>1, <3>2 DEF Withdrawn, Inventory, Base, Records
      <3>4. cases[i].run = n
        BY <1>1, <2>1 DEF cases, caseOf
      <3> QED BY <1>1, <3>1, <3>3, <3>4, OneCase, OpenCase DEF Base
    <2>2. CASE ~(inv[i].status = "IN_REVIEW" /\ n = inv[i].submittedRun)
      <3>1. inv' = inv
        BY <2>2 DEF VoidRun, MayVoidRun
      <3>2. inv[i].status \in {"IN_REVIEW", "FINAL"} \/ inv[i].submittedRun = NoNumber
        BY <1>6 DEF TidyRow, Tidy
      <3>3. cases[i].run # n
        BY <1>1, <1>6, <2>2, <3>2 DEF cases, caseOf
      <3> QED BY <3>1, <3>3 DEF cases
    <2> QED BY <2>1, <2>2
  <1>9. Workflow!Void(i, n)
    BY <1>4, <1>5, <1>7, <1>8 DEF Workflow!Void, Workflow!TakenBack, cases
  <1>10. Workflow!Next
    BY <1>1, <1>9, Zenon DEF Workflow!Next
  <1> QED BY <1>10 DEF WorkflowStep

\* A submission puts a sound run forward, in place of another or not.
LEMMA SubmissionRefines ==
  ASSUME Base, Base', Numbered, NEW p \in Accounts, NEW r \in runs, SubmitForReview(p, r)
  PROVE  WorkflowStep
  <1> DEFINE i == r.inv
             n == r.no
             row == [inv[i] EXCEPT !.status = "IN_REVIEW", !.submittedRun = n, !.submittedBy = p]
  <1>1. i \in Invs /\ n \in 1..MaxRuns
    BY DEF Base, Records, Run, Numbered
  <1>2. inv[i] \in Inventory /\ Tidy(inv[i]) /\ inv[i].status \in {"FROZEN", "IN_REVIEW"}
    BY <1>1, RowOnFile DEF SubmitForReview, Base, MaySubmitForReview
  <1>3. inv' = [inv EXCEPT ![i] = row] /\ UNCHANGED runs /\ ~r.voided
    BY DEF SubmitForReview, Base, Records, MaySubmitForReview
  <1>4. caseOf(row) = [stage |-> "PUT", run |-> n, by |-> p, signer |-> NoOne]
    <2>1. /\ row.status = "IN_REVIEW" /\ row.submittedRun = n /\ row.submittedBy = p
          /\ row.signer = NoOne
      BY <1>2 DEF Inventory, Tidy
    <2> QED BY <2>1 DEF caseOf, stageOf
  <1>5. cases' = [cases EXCEPT ![i] = [stage |-> "PUT", run |-> n, by |-> p, signer |-> NoOne]]
    BY <1>1, <1>3, <1>4, OneCase DEF Base
  <1>6. cases[i].stage \in {"OPEN", "PUT"}
    BY <1>1, <1>2 DEF cases, caseOf, stageOf
  <1>7. <<i, n>> \in soundRuns /\ UNCHANGED soundRuns
    BY <1>3 DEF soundRuns
  <1>8. Workflow!PutForward(i, n, p)
    BY <1>5, <1>6, <1>7 DEF Workflow!PutForward, cases
  <1>9. Workflow!Next
    BY <1>1, <1>8, Zenon DEF Workflow!Next
  <1> QED BY <1>9 DEF WorkflowStep

\* A designation signs the run put forward; its publication issues what was signed.
LEMMA SignaturesRefine ==
  ASSUME Base, Base', NEW p \in Accounts,
         \/ \E r \in runs : DesignateFinal(p, r)
         \/ \E i \in Invs : Publish(p, i)
  PROVE  WorkflowStep
  <1>1. ASSUME NEW r \in runs, DesignateFinal(p, r) PROVE WorkflowStep
    <2> DEFINE i == r.inv
               row == [inv[i] EXCEPT !.status = "FINAL", !.finalRun = r.no, !.signer = p,
                                     !.selfApproved = (p = inv[i].submittedBy)]
    <2>1. i \in Invs
      BY DEF Base, Records, Run
    <2>2. inv[i] \in Inventory /\ inv[i].status = "IN_REVIEW" /\ r.no = inv[i].submittedRun
      BY <1>1, <2>1, RowOnFile DEF DesignateFinal, Base, MayDesignateFinal
    <2>3. inv' = [inv EXCEPT ![i] = row] /\ UNCHANGED runs
      BY <1>1 DEF DesignateFinal, Base, Records, MayDesignateFinal
    <2>4. caseOf(row) = [stage |-> "SIGNED", run |-> caseOf(inv[i]).run, by |-> caseOf(inv[i]).by,
                         signer |-> p]
      <3>1. /\ row.status = "FINAL" /\ row.finalRun = inv[i].submittedRun
            /\ row.submittedBy = inv[i].submittedBy /\ row.signer = p
        BY <2>2 DEF Inventory
      <3>2. caseOf(row) = [stage |-> "SIGNED", run |-> inv[i].submittedRun,
                           by |-> inv[i].submittedBy, signer |-> p]
        BY <3>1 DEF caseOf, stageOf
      <3>3. caseOf(inv[i]) = [stage |-> "PUT", run |-> inv[i].submittedRun,
                              by |-> inv[i].submittedBy, signer |-> inv[i].signer]
        BY <2>2 DEF caseOf, stageOf
      <3> QED BY <3>2, <3>3
    <2>5. cases' = [cases EXCEPT ![i] = [stage |-> "SIGNED", run |-> cases[i].run,
                                                by |-> cases[i].by, signer |-> p]]
      <3> HIDE DEF row
      <3>1. cases' = [cases EXCEPT ![i] = caseOf(row)]
        BY <2>1, <2>3, OneCase DEF Base
      <3>2. cases[i] = caseOf(inv[i])
        BY <2>1 DEF cases
      <3> QED BY <2>4, <3>1, <3>2
    <2>6. cases[i].stage = "PUT"
      BY <2>1, <2>2 DEF cases, caseOf, stageOf
    <2>7. Workflow!Sign(i, p)
      BY <2>3, <2>5, <2>6 DEF Workflow!Sign, cases, soundRuns
    <2> QED BY <2>1, <2>7 DEF Workflow!Next, WorkflowStep
  <1>2. ASSUME NEW i \in Invs, Publish(p, i) PROVE WorkflowStep
    <2> DEFINE row == [inv[i] EXCEPT !.status = "PUBLISHED"]
    <2>1. inv[i] \in Inventory /\ inv[i].status = "FINAL"
      BY <1>2, RowOnFile DEF Publish, Base, MayPublish
    <2>2. inv' = [inv EXCEPT ![i] = row] /\ UNCHANGED runs
      BY <1>2 DEF Publish, Base, Records, MayPublish
    <2>3. caseOf(row) = [caseOf(inv[i]) EXCEPT !.stage = "ISSUED"]
      <3>1. /\ row.status = "PUBLISHED" /\ row.finalRun = inv[i].finalRun
            /\ row.submittedBy = inv[i].submittedBy /\ row.signer = inv[i].signer
        BY <2>1 DEF Inventory
      <3>2. caseOf(row) = [stage |-> "ISSUED", run |-> inv[i].finalRun,
                           by |-> inv[i].submittedBy, signer |-> inv[i].signer]
        BY <3>1 DEF caseOf, stageOf
      <3>3. caseOf(inv[i]) = [stage |-> "SIGNED", run |-> inv[i].finalRun,
                              by |-> inv[i].submittedBy, signer |-> inv[i].signer]
        BY <2>1 DEF caseOf, stageOf
      <3> QED BY <3>2, <3>3
    <2>4. cases' = [cases EXCEPT ![i] = [cases[i] EXCEPT !.stage = "ISSUED"]]
      <3>1. cases' = [cases EXCEPT ![i] = caseOf(row)]
        BY <2>2, OneCase DEF Base
      <3>2. cases[i] = caseOf(inv[i])
        BY DEF cases
      <3> QED BY <2>3, <3>1, <3>2
    <2>5. cases[i].stage = "SIGNED"
      BY <2>1 DEF cases, caseOf, stageOf
    <2>6. Workflow!Issue(i)
      BY <2>2, <2>4, <2>5 DEF Workflow!Issue, cases, soundRuns
    <2> QED BY <2>6 DEF Workflow!Next, WorkflowStep
  <1> QED BY <1>1, <1>2

\* A deletion drops the case with its runs, and moves nobody else's: only pointers to it are cleared.
LEMMA DeletionRefines ==
  ASSUME Base, Base', NEW p \in Accounts, NEW i \in Invs, Delete(p, i)
  PROVE  WorkflowStep
  <1>1. inv[i] \in Inventory /\ inv[i].status # "PUBLISHED"
    BY RowOnFile DEF Delete, Exists, Base, MayDelete
  <1>2. cases[i].stage # "ISSUED"
    BY <1>1 DEF cases, caseOf, stageOf, Inventory, Status
  <1>3. caseOf(Absent) = Workflow!Open
    <2>1. Absent.submittedRun = NoNumber
      BY DEF Absent, Row
    <2> QED BY <2>1, AbsentTidy, OpenCase
  <1>4. ASSUME NEW k \in Invs, k # i PROVE caseOf(inv'[k]) = caseOf(inv[k])
    <2>1. CASE inv[k].supersededBy = i
      <3>1. inv[k] \in Inventory
        <4>1. inv[k].status # "ABSENT"
          BY <2>1, NullAssumption DEF Base, Records, TidyRow, Tidy
        <4> QED BY <4>1, RowOnFile DEF Base
      <3>2. SameSignOff(inv'[k], inv[k])
        BY <1>4, <2>1, <3>1 DEF Delete, Inventory, SameSignOff, MayDelete
      <3> QED BY <3>2, SameCase
    <2>2. CASE inv[k].supersededBy # i
      BY <1>4, <2>2 DEF Delete, MayDelete
    <2> QED BY <2>1, <2>2
  <1>5. cases' = [cases EXCEPT ![i] = Workflow!Open]
    BY <1>3, <1>4 DEF cases, Delete, MayDelete
  <1>6. soundRuns' = {s \in soundRuns : s[1] # i}
    <2>1. {s \in runs' : ~s.voided} = {s \in {t \in runs : ~t.voided} : s.inv # i}
      BY DEF Delete, MayDelete
    <2>2. \A s \in runs : <<s.inv, s.no>>[1] = s.inv
      OBVIOUS
    <2> QED BY <2>1, <2>2 DEF soundRuns
  <1>7. Workflow!Drop(i)
    BY <1>2, <1>5, <1>6 DEF Workflow!Drop, Workflow!TakenBack, cases
  <1> QED BY <1>7 DEF Workflow!Next, WorkflowStep

-----------------------------------------------------------------------------
\* Every step of the organization is a step of the workflow or leaves it alone.
LEMMA StepRefines ==
  ASSUME Base, Base', Tables, Numbered, [Next]_vars
  PROVE  WorkflowStep
  <1>1. ASSUME NEW p \in Accounts, InventoryActs(p) PROVE WorkflowStep
    <2>1. ASSUME NEW i \in Invs, InventoryActs(p),
                 \/ Create(p, i) \/ Update(p, i) \/ EditView(p, i) \/ Freeze(p, i)
                 \/ \E a, b \in Accounts \cup {NoOne} : AssignSignOff(p, i, a, b)
                 \/ \E j \in Invs : Supersede(p, i, j)
          PROVE  WorkflowStep
      BY <2>1, EditsRefine DEF WorkflowStep
    <2> QED BY <1>1, <2>1, WithdrawalsRefine, LaunchRefines, VoidRefines, SubmissionRefines,
               SignaturesRefine, DeletionRefines DEF InventoryActs
  <1>2. CASE UNCHANGED recordVars
    BY <1>2 DEF recordVars, soundRuns, cases, WorkflowStep
  <1> QED BY <1>1, <1>2, OthersKeepTheRecords

\* The handlers of the lifecycle implement the sign-off workflow (specs 05.2, 05.8): whatever the requests
\* and their order, a signature is on a sound run that was put forward, and what is issued stays.
THEOREM LifecycleImplementsSignOff == Spec => ImplementsSignOff
  <1>1. Init => Workflow!Init
    <2>1. Absent.submittedRun = NoNumber
      BY DEF Absent, Row
    <2>2. caseOf(Absent) = Workflow!Open
      BY <2>1, AbsentTidy, OpenCase
    <2> QED BY <2>2 DEF Init, Workflow!Init, soundRuns
  <1>2. Init => Numbered
    BY DEF Init, Numbered
  <1>3. Base /\ Base' /\ Tables /\ Numbered /\ [Next]_vars => [Workflow!Next]_(Workflow!caseVars)
    <2> SUFFICES ASSUME Base, Base', Tables, Numbered, [Next]_vars
                 PROVE  [Workflow!Next]_(Workflow!caseVars)
      OBVIOUS
    <2>1. WorkflowStep
      BY StepRefines
    <2> QED BY <2>1 DEF WorkflowStep, Workflow!caseVars, cases
  <1>4. Spec => []Numbered
    BY <1>2, NumberedStep, RowsStayTidy, PTL DEF Spec
  <1> QED
    BY <1>1, <1>3, <1>4, RowsStayTidy, TablesStand, PTL DEF Spec, ImplementsSignOff, Workflow!Spec
=============================================================================
