------------------------ MODULE InventoryRacesProofs ------------------------
(***************************************************************************)
(* Proofs about InventoryRaces, for any number of overlapping requests,    *)
(* runs and versions.                                                      *)
(*                                                                         *)
(* Whole says that a row is one a single request left behind.  It is       *)
(* inductive only with the rows the requests hold in memory (Rows): a      *)
(* commit writes such a row, however old the row it was made from.  The    *)
(* numbers stay dense because what a request is about to insert follows a  *)
(* number that is still on file (InFlight), so an insert that does not     *)
(* clash is the next one.  The last four parts are about what overlapping  *)
(* requests do break, the claim of InventoryRaceClaims, that a publication *)
(* is final, that a run reads its version and that the sign-off workflow   *)
(* is kept: they say which overlap does it, and that nothing else does.    *)
(***************************************************************************)
EXTENDS InventoryRacesSignOff, FiniteSetTheorems, TLAPS

-----------------------------------------------------------------------------
(* The numbers. *)

Numbers(table) == {r.no : r \in table}
Unique(table) == \A r, s \in table : r.no = s.no => r = s
DenseTo(table, k) == Unique(table) /\ Numbers(table) = 1..k

\* A dense table has as many rows as its highest number says.
LEMMA DenseCount ==
  ASSUME NEW table, NEW k \in Nat, DenseTo(table, k)
  PROVE  IsFiniteSet(table) /\ Cardinality(table) = k
  <1> DEFINE rowOf == [n \in 1..k |-> CHOOSE r \in table : r.no = n]
  <1>1. \A n \in 1..k : rowOf[n] \in table /\ rowOf[n].no = n
    BY DEF DenseTo, Numbers
  <1>2. \A r \in table : r.no \in 1..k /\ rowOf[r.no] = r
    BY <1>1 DEF DenseTo, Unique, Numbers
  <1>3. rowOf \in [1..k -> table]
    BY <1>1
  <1>4. \A m, n \in 1..k : rowOf[m] = rowOf[n] => m = n
    BY <1>1
  <1>5. \A r \in table : \E n \in 1..k : rowOf[n] = r
    BY <1>2
  <1>6. IsFiniteSet(1..k) /\ Cardinality(1..k) = k
    BY FS_Interval
  <1> HIDE DEF rowOf
  <1>7. rowOf \in Bijection(1..k, table)
    BY <1>3, <1>4, <1>5 DEF Bijection, Injection, Surjection, IsInjective
  <1> QED BY <1>7, <1>6, FS_Bijection DEF ExistsBijection

\* The next number is positive, and of a dense table it is the one after the highest.
LEMMA NextNumberFollows ==
  ASSUME NEW table
  PROVE  /\ NextNumber(table) \in Nat \ {0}
         /\ \A k \in 0..(MaxRuns + MaxVersions) : DenseTo(table, k) => NextNumber(table) = k + 1
  <1> DEFINE reached == {n \in 1..(MaxRuns + MaxVersions) : \E r \in table : r.no >= n}
  <1>1. IsFiniteSet(1..(MaxRuns + MaxVersions))
    BY FS_Interval, BoundAssumption
  <1>2. IsFiniteSet(reached)
    BY <1>1, FS_Subset
  <1>3. Cardinality(reached) \in Nat
    BY <1>2, FS_CardinalityType
  <1>4. ASSUME NEW k \in 0..(MaxRuns + MaxVersions), DenseTo(table, k)
        PROVE  Cardinality(reached) = k
    <2>1. \A r \in table : r.no \in 1..k
      BY <1>4 DEF DenseTo, Numbers
    <2>2. \A n \in 1..k : \E r \in table : r.no = n
      BY <1>4 DEF DenseTo, Numbers
    <2>3. reached = 1..k
      BY <2>1, <2>2, BoundAssumption
    <2>4. k \in Nat /\ Cardinality(1..k) = k
      BY FS_Interval, BoundAssumption
    <2> HIDE DEF reached
    <2> QED BY <2>3, <2>4
  <1> QED BY <1>3, <1>4 DEF NextNumber

-----------------------------------------------------------------------------
(* The rows. *)

\* The status, the submission and the signature are those of one request.
Whole(r) ==
  /\ r.status \in {"IN_REVIEW", "FINAL", "PUBLISHED"} <=> r.submittedRun # NoNumber
  /\ r.submittedRun # NoNumber <=> r.submittedBy # NoOne
  /\ IF r.status \in {"FINAL", "PUBLISHED"}
       THEN r.finalRun = r.submittedRun /\ r.signer \notin {NoOne, r.submittedBy}
       ELSE r.finalRun = NoNumber /\ r.signer = NoOne

\* So are the rows the requests are about to write.
Rows ==
  /\ TypeOK
  /\ row # Gone => Whole(row)
  /\ \A q \in Requests : tx[q] # Idle => Whole(tx[q].row)

\* A request begins with a row that is whole, whatever else it will write.
LEMMA BeginKeepsRows ==
  ASSUME Rows, NEW q \in Requests, NEW w \in Work, Whole(w.row), Begin(q, w)
  PROVE  Rows'
  <1>1. TypeOK' /\ UNCHANGED row
    BY DEF Rows, TypeOK, Begin
  <1>2. \A c \in Requests : tx'[c] = tx[c] \/ tx'[c] = w
    BY DEF Rows, TypeOK, Begin
  <1> QED BY <1>1, <1>2 DEF Rows, Whole

\* What a handler loads and leaves is a unit of work that writes no table yet.
Prepared(w, leaves) == w \in Work /\ w.row = leaves /\ w.runs = {} /\ w.versions = {}

LEMMA LoadedPrepared ==
  ASSUME row \in Row, NEW leaves \in Row
  PROVE  /\ Prepared(Loaded(leaves), leaves) /\ Loaded(leaves).voids = {}
         /\ LET w == [Loaded(leaves) EXCEPT !.writes = TRUE] IN Prepared(w, leaves) /\ w.voids = {}
         /\ LET w == [Loaded(leaves) EXCEPT !.deletes = TRUE] IN Prepared(w, leaves) /\ w.voids = {}
         /\ LET w == [Loaded(leaves) EXCEPT !.stage = "READ"] IN Prepared(w, leaves) /\ w.voids = {}
         /\ \A v \in Views : LET w == [Loaded(leaves) EXCEPT !.view = v] IN Prepared(w, leaves) /\ w.voids = {}
         /\ \A r \in Run : LET w == [Loaded(leaves) EXCEPT !.voids = {r}] IN Prepared(w, leaves) /\ w.voids = {r}
  BY DEF Loaded, Work, Prepared

\* A withdrawal leaves a frozen row with no submission.
LEMMA WithdrawnWhole ==
  ASSUME NEW r \in Row, Whole(r), r.status \in {"FROZEN", "IN_REVIEW"}
  PROVE  Withdrawn(r) \in Row /\ Whole(Withdrawn(r))
  BY DEF Withdrawn, Row, Status, Whole, NoNumber

\* Every handler begins a unit of work whose row is whole and whose inserts come later; a run it voids is
\* on file and not voided.
Started(q) ==
  \E w \in Work :
    /\ Begin(q, w) /\ Whole(w.row) /\ row # Gone
    /\ w.runs = {} /\ w.versions = {}
    /\ w.voids \subseteq {r \in runs : ~r.voided}

\* The unit of work a handler begins with.
LEMMA StartedWith ==
  ASSUME NEW q \in Requests, NEW leaves, Whole(leaves), NEW w, Prepared(w, leaves), Begin(q, w), row # Gone,
         w.voids \subseteq {r \in runs : ~r.voided}
  PROVE  Started(q)
  BY DEF Started, Prepared

LEMMA HandlersStart ==
  ASSUME Rows, NEW q \in Requests, Handle(q)
  PROVE  Started(q)
  <1>0. row # Gone
    BY DEF Handle, Update, Delete, Freeze, Reopen, LaunchRun, ReturnToPreparer, WithdrawFinal, Publish,
           EditView, VoidRun, SubmitForReview, DesignateFinal
  <1>1. row \in Row /\ Whole(row)
    BY <1>0 DEF Rows, TypeOK
  <1>2. \A r \in runs : r \in Run /\ r.no \in 1..MaxRuns
    BY DEF Rows, TypeOK, Run
  <1>3. CASE Update(q)
    <2> DEFINE leaves == row
               w == [Loaded(leaves) EXCEPT !.writes = TRUE]
    <2>1. leaves \in Row /\ Whole(leaves)
      BY <1>1
    <2>2. Prepared(w, leaves) /\ w.voids = {}
      <3> HIDE DEF leaves
      <3> QED BY <1>1, <1>2, <2>1, LoadedPrepared
    <2>3. Begin(q, w)
      BY <1>3 DEF Update
    <2> HIDE DEF leaves, w
    <2> QED BY <1>0, <2>1, <2>2, <2>3, StartedWith
  <1>4. CASE Delete(q)
    <2> DEFINE leaves == row
               w == [Loaded(leaves) EXCEPT !.deletes = TRUE]
    <2>1. leaves \in Row /\ Whole(leaves)
      BY <1>1
    <2>2. Prepared(w, leaves) /\ w.voids = {}
      <3> HIDE DEF leaves
      <3> QED BY <1>1, <1>2, <2>1, LoadedPrepared
    <2>3. Begin(q, w)
      BY <1>4 DEF Delete
    <2> HIDE DEF leaves, w
    <2> QED BY <1>0, <2>1, <2>2, <2>3, StartedWith
  <1>5. ASSUME NEW v \in Views, EditView(q, v) PROVE Started(q)
    <2> DEFINE leaves == row
               w == [Loaded(leaves) EXCEPT !.view = v]
    <2>1. leaves \in Row /\ Whole(leaves)
      BY <1>1
    <2>2. Prepared(w, leaves) /\ w.voids = {}
      <3> HIDE DEF leaves
      <3> QED BY <1>1, <1>2, <2>1, LoadedPrepared
    <2>3. Begin(q, w)
      BY <1>5 DEF EditView
    <2> HIDE DEF leaves, w
    <2> QED BY <1>0, <2>1, <2>2, <2>3, StartedWith
  <1>6. CASE Freeze(q)
    <2> DEFINE leaves == [row EXCEPT !.status = "FROZEN"]
               w == [Loaded(leaves) EXCEPT !.stage = "READ"]
    <2>1. leaves \in Row /\ Whole(leaves)
      BY <1>1, <1>6 DEF Freeze, Row, Status, Whole
    <2>2. Prepared(w, leaves) /\ w.voids = {}
      <3> HIDE DEF leaves
      <3> QED BY <1>1, <1>2, <2>1, LoadedPrepared
    <2>3. Begin(q, w)
      BY <1>6 DEF Freeze
    <2> HIDE DEF leaves, w
    <2> QED BY <1>0, <2>1, <2>2, <2>3, StartedWith
  <1>7. CASE Reopen(q)
    <2> DEFINE leaves == [Withdrawn(row) EXCEPT !.status = "DRAFT"]
               w == Loaded(leaves)
    <2>1. leaves \in Row /\ Whole(leaves)
      BY <1>1, <1>7 DEF Reopen, Withdrawn, Row, Status, Whole, NoNumber
    <2>2. Prepared(w, leaves) /\ w.voids = {}
      <3> HIDE DEF leaves
      <3> QED BY <1>1, <1>2, <2>1, LoadedPrepared
    <2>3. Begin(q, w)
      BY <1>7 DEF Reopen
    <2> HIDE DEF leaves, w
    <2> QED BY <1>0, <2>1, <2>2, <2>3, StartedWith
  <1>8. CASE LaunchRun(q)
    <2> DEFINE leaves == IF row.status = "IN_REVIEW" THEN Withdrawn(row) ELSE row
               w == [Loaded(leaves) EXCEPT !.stage = "READ"]
    <2>1. leaves \in Row /\ Whole(leaves)
      BY <1>1, WithdrawnWhole
    <2>2. Prepared(w, leaves) /\ w.voids = {}
      <3> HIDE DEF leaves
      <3> QED BY <1>1, <1>2, <2>1, LoadedPrepared
    <2>3. Begin(q, w)
      BY <1>8 DEF LaunchRun
    <2> HIDE DEF leaves, w
    <2> QED BY <1>0, <2>1, <2>2, <2>3, StartedWith
  <1>9. ASSUME NEW r \in runs, VoidRun(q, r) PROVE Started(q)
    <2> DEFINE leaves == IF row.status = "IN_REVIEW" /\ r.no = row.submittedRun THEN Withdrawn(row) ELSE row
               w == [Loaded(leaves) EXCEPT !.voids = {r}]
    <2>1. leaves \in Row /\ Whole(leaves)
      BY <1>1, WithdrawnWhole
    <2>2. Prepared(w, leaves) /\ w.voids = {r}
      <3> HIDE DEF leaves
      <3> QED BY <1>1, <1>2, <2>1, LoadedPrepared
    <2>3. Begin(q, w)
      BY <1>9 DEF VoidRun
    <2>4. ~r.voided
      BY <1>9 DEF VoidRun
    <2> HIDE DEF leaves, w
    <2> QED BY <1>0, <2>1, <2>2, <2>3, <2>4, StartedWith
  <1>10. ASSUME NEW p \in Accounts, NEW r \in runs, SubmitForReview(q, p, r) PROVE Started(q)
    <2> DEFINE leaves == [row EXCEPT !.status = "IN_REVIEW", !.submittedRun = r.no, !.submittedBy = p]
               w == [Loaded(leaves) EXCEPT !.writes = TRUE]
    <2>1. leaves \in Row /\ Whole(leaves)
      <3>1. row.status \in {"FROZEN", "IN_REVIEW"} /\ r.no \in 1..MaxRuns /\ p # NoOne
        BY <1>2, <1>10, NullAssumption DEF SubmitForReview
      <3>2. r.no \in 0..MaxRuns
        BY <3>1, BoundAssumption
      <3>3. leaves \in Row
        BY <1>1, <3>2 DEF Row, Status
      <3>4. leaves.submittedRun # NoNumber
        BY <1>1, <3>1, BoundAssumption DEF Row, NoNumber
      <3> QED BY <1>1, <3>1, <3>3, <3>4 DEF Row, Whole
    <2>2. Prepared(w, leaves) /\ w.voids = {}
      <3> HIDE DEF leaves
      <3> QED BY <1>1, <1>2, <2>1, LoadedPrepared
    <2>3. Begin(q, w)
      BY <1>10 DEF SubmitForReview
    <2> HIDE DEF leaves, w
    <2> QED BY <1>0, <2>1, <2>2, <2>3, StartedWith
  <1>11. CASE ReturnToPreparer(q)
    <2> DEFINE leaves == Withdrawn(row)
               w == Loaded(leaves)
    <2>1. leaves \in Row /\ Whole(leaves)
      BY <1>1, <1>11, WithdrawnWhole DEF ReturnToPreparer
    <2>2. Prepared(w, leaves) /\ w.voids = {}
      <3> HIDE DEF leaves
      <3> QED BY <1>1, <1>2, <2>1, LoadedPrepared
    <2>3. Begin(q, w)
      BY <1>11 DEF ReturnToPreparer
    <2> HIDE DEF leaves, w
    <2> QED BY <1>0, <2>1, <2>2, <2>3, StartedWith
  <1>12. ASSUME NEW p \in Accounts, NEW r \in runs, DesignateFinal(q, p, r) PROVE Started(q)
    <2> DEFINE leaves == [row EXCEPT !.status = "FINAL", !.finalRun = r.no, !.signer = p]
               w == Loaded(leaves)
    <2>1. leaves \in Row /\ Whole(leaves)
      BY <1>1, <1>2, <1>12, NullAssumption, BoundAssumption
         DEF DesignateFinal, Row, Status, Whole, NoNumber
    <2>2. Prepared(w, leaves) /\ w.voids = {}
      <3> HIDE DEF leaves
      <3> QED BY <1>1, <1>2, <2>1, LoadedPrepared
    <2>3. Begin(q, w)
      BY <1>12 DEF DesignateFinal
    <2> HIDE DEF leaves, w
    <2> QED BY <1>0, <2>1, <2>2, <2>3, StartedWith
  <1>13. CASE WithdrawFinal(q)
    <2> DEFINE leaves == [Withdrawn(row) EXCEPT !.finalRun = NoNumber, !.signer = NoOne]
               w == Loaded(leaves)
    <2>1. leaves \in Row /\ Whole(leaves)
      <3>1. NoNumber \in 0..MaxRuns
        BY BoundAssumption DEF NoNumber
      <3> QED BY <1>1, <3>1 DEF Withdrawn, Row, Status, Whole
    <2>2. Prepared(w, leaves) /\ w.voids = {}
      <3> HIDE DEF leaves
      <3> QED BY <1>1, <1>2, <2>1, LoadedPrepared
    <2>3. Begin(q, w)
      BY <1>13 DEF WithdrawFinal
    <2> HIDE DEF leaves, w
    <2> QED BY <1>0, <2>1, <2>2, <2>3, StartedWith
  <1>14. CASE Publish(q)
    <2> DEFINE leaves == [row EXCEPT !.status = "PUBLISHED"]
               w == Loaded(leaves)
    <2>1. leaves \in Row /\ Whole(leaves)
      BY <1>1, <1>14 DEF Publish, Row, Status, Whole
    <2>2. Prepared(w, leaves) /\ w.voids = {}
      <3> HIDE DEF leaves
      <3> QED BY <1>1, <1>2, <2>1, LoadedPrepared
    <2>3. Begin(q, w)
      BY <1>14 DEF Publish
    <2> HIDE DEF leaves, w
    <2> QED BY <1>0, <2>1, <2>2, <2>3, StartedWith
  <1> QED BY <1>3, <1>4, <1>5, <1>6, <1>7, <1>8, <1>9, <1>10, <1>11, <1>12, <1>13, <1>14 DEF Handle

\* The second reads of a launch and of a freeze put typed rows in the unit of work, and leave the
\* inventory's row whole.
LEMMA ReadsKeepRows ==
  ASSUME Rows, NEW q \in Requests, ReadForLaunch(q) \/ ReadForFreeze(q)
  PROVE  Rows'
  <1> DEFINE t == tx[q]
  <1>1. UNCHANGED <<row, view, runs, versions>>
    BY DEF ReadForLaunch, ReadForFreeze
  <1>2. tx \in [Requests -> Work \cup {Idle}] /\ t \in Work /\ t # Idle
    BY DEF Rows, TypeOK, ReadForLaunch, ReadForFreeze, Work, Idle
  <1>3. t.seen \in Row /\ t.row \in Row /\ Whole(t.row)
    BY <1>2 DEF Rows, Work
  <1>4. ASSUME NEW w \in Work, Whole(w.row), tx' = [tx EXCEPT ![q] = w] PROVE Rows'
    <2>1. tx' \in [Requests -> Work \cup {Idle}] /\ \A c \in Requests : tx'[c] = tx[c] \/ tx'[c] = w
      BY <1>2, <1>4
    <2> QED BY <1>1, <1>4, <2>1 DEF Rows, TypeOK, Whole
  <1> HIDE DEF t
  <1>5. CASE ReadForLaunch(q)
    <2> DEFINE n == NextNumber(runs)
    <2>1. n \in 1..MaxRuns
      BY <1>5, NextNumberFollows, BoundAssumption DEF ReadForLaunch
    <2> HIDE DEF n
    <2>2. [no |-> n, version |-> t.seen.version, view |-> view, voided |-> FALSE] \in Run
      BY <2>1, <1>3 DEF Rows, TypeOK, Run, Row
    <2>3. WithRun(t, n, view) \in Work /\ WithRun(t, n, view).row = t.row
      BY <1>2, <2>2 DEF WithRun, Work
    <2> QED BY <1>3, <1>4, <1>5, <2>3 DEF ReadForLaunch, n, t
  <1>6. CASE ReadForFreeze(q)
    <2> DEFINE n == NextNumber(versions)
               r == [t.row EXCEPT !.version = n]
    <2>1. n \in 1..MaxVersions /\ n \in 0..MaxVersions
      BY <1>6, NextNumberFollows, BoundAssumption DEF ReadForFreeze
    <2> HIDE DEF n
    <2>2. r \in Row /\ Whole(r)
      BY <1>3, <2>1 DEF Row, Whole
    <2>3. [no |-> n, view |-> view] \in Version
      BY <2>1 DEF Rows, TypeOK, Version
    <2>4. WithVersion(t, n) \in Work /\ WithVersion(t, n).row = r
      BY <1>2, <2>2, <2>3 DEF WithVersion, Work
    <2> QED BY <1>4, <1>6, <2>2, <2>4 DEF ReadForFreeze, n, t
  <1> QED BY <1>5, <1>6

\* A commit writes the row its request holds, or none.
LEMMA CommitKeepsRows ==
  ASSUME Rows, NEW q \in Requests, Commit(q)
  PROVE  Rows'
  <1> DEFINE t == tx[q]
  <1>1. t \in Work /\ t # Idle /\ tx \in [Requests -> Work \cup {Idle}]
    BY DEF Rows, TypeOK, Commit, Work, Idle
  <1>2. t.row \in Row /\ Whole(t.row) /\ t.runs \subseteq Run /\ t.voids \subseteq Run
          /\ t.versions \subseteq Version /\ t.view \in Views \cup {NoView}
    BY <1>1 DEF Rows, Work
  <1>3. row' \in {Gone, t.row, row}
    BY <1>1 DEF Commit, Work
  <1>4. runs' \subseteq Run
    <2>1. \A r \in t.voids : [r EXCEPT !.voided = TRUE] \in Run
      BY <1>2 DEF Run
    <2> QED BY <1>2, <2>1 DEF Commit, Rows, TypeOK
  <1>5. versions' \subseteq Version /\ view' \in Views
    BY <1>2 DEF Commit, Rows, TypeOK
  <1>6. tx' = [tx EXCEPT ![q] = Idle]
    BY DEF Commit
  <1>7. tx' \in [Requests -> Work \cup {Idle}] /\ \A c \in Requests : tx'[c] # Idle => tx'[c] = tx[c]
    BY <1>1, <1>6
  <1>8. row' \in Row \cup {Gone} /\ (row' # Gone => Whole(row'))
    BY <1>2, <1>3 DEF Rows, TypeOK
  <1> QED BY <1>4, <1>5, <1>7, <1>8 DEF Rows, TypeOK, Whole

\* Every step keeps the rows whole.
LEMMA RowsStep == Rows /\ [Next]_vars => Rows'
  <1> SUFFICES ASSUME Rows, [Next]_vars PROVE Rows'
    OBVIOUS
  <1>1. ASSUME NEW q \in Requests, Handle(q) PROVE Rows'
    BY <1>1, HandlersStart, BeginKeepsRows DEF Started
  <1>2. ASSUME NEW q \in Requests, Abort(q) PROVE Rows'
    <2>1. tx' \in [Requests -> Work \cup {Idle}] /\ \A c \in Requests : tx'[c] # Idle => tx'[c] = tx[c]
      BY <1>2 DEF Abort, Rows, TypeOK
    <2> QED BY <1>2, <2>1 DEF Abort, Rows, TypeOK, Whole
  <1>3. CASE UNCHANGED vars
    BY <1>3 DEF vars, Rows, TypeOK, Whole
  <1> QED BY <1>1, <1>2, <1>3, ReadsKeepRows, CommitKeepsRows DEF Next

\* A draft just created is whole, and nothing is under way.
LEMMA InitRows == Init => Rows
  <1> SUFFICES ASSUME Init PROVE Rows
    OBVIOUS
  <1>1. row \in Row /\ Whole(row)
    BY BoundAssumption DEF Init, Row, Status, Whole, NoNumber
  <1> QED BY <1>1 DEF Init, Rows, TypeOK

\* The rows stay whole, for any number of requests.
THEOREM RowsStayWhole == Spec => []Rows
  BY InitRows, RowsStep, PTL DEF Spec

\* Type correctness: what overlapping requests hold in memory and commit has its type.
THEOREM RacesTypeCorrect == Spec => []TypeOK
  <1>1. Rows => TypeOK
    BY DEF Rows
  <1> QED BY <1>1, RowsStayWhole, PTL

\* However many requests overlap, the status, the submission and the signature on file are those of one
\* request, and the signer is not who put the run forward (Inventory.java: the row is written whole).
THEOREM OverlapsLeaveRowsWhole == Spec => []RowIsWhole
  <1>1. Rows => RowIsWhole
    BY DEF Rows, RowIsWhole, Whole
  <1> QED BY <1>1, RowsStayWhole, PTL

-----------------------------------------------------------------------------
(* The numbers stay dense. *)

Dense(table) == \E k \in Nat : DenseTo(table, k)

\* The rows are the first of the table, or follow one that is in it.
Follows(rows, table) ==
  /\ \A r, s \in rows : r = s
  /\ \A r \in rows : r.no \in Nat \ {0} /\ (r.no = 1 \/ r.no - 1 \in Numbers(table))

\* The runs to be voided are on file, voided since or not.
OnFile(voids, table) ==
  \A v \in voids : ~v.voided /\ v \in Run /\ (v \in table \/ [v EXCEPT !.voided = TRUE] \in table)

\* One row more, of a number that is not in the table.
LEMMA InsertDense ==
  ASSUME NEW table, Dense(table), NEW rows, Follows(rows, table),
         ~\E r \in rows, s \in table : r.no = s.no
  PROVE  Dense(table \cup rows) /\ Numbers(table) \subseteq Numbers(table \cup rows)
  <1>1. PICK k \in Nat : DenseTo(table, k)
    BY DEF Dense
  <1>2. CASE rows = {}
    <2>1. table \cup rows = table
      BY <1>2
    <2> QED BY <2>1
  <1>3. CASE rows # {}
    <2>1. PICK r \in rows : rows = {r}
      BY <1>3 DEF Follows
    <2>2. r.no \notin 1..k /\ r.no \in Nat \ {0} /\ (r.no = 1 \/ r.no - 1 \in 1..k)
      BY <1>1, <2>1 DEF Follows, DenseTo, Numbers
    <2>3. r.no = k + 1
      BY <2>2
    <2>4. Numbers(table \cup rows) = 1..k \cup {k + 1}
      BY <1>1, <2>1, <2>3 DEF Numbers, DenseTo
    <2>5. Unique(table \cup rows)
      BY <1>1, <2>1 DEF Unique, DenseTo
    <2>6. 1..k \cup {k + 1} = 1..(k + 1) /\ k + 1 \in Nat
      OBVIOUS
    <2>7. DenseTo(table \cup rows, k + 1)
      BY <2>4, <2>5, <2>6 DEF DenseTo
    <2> QED BY <1>1, <2>4, <2>6, <2>7 DEF Dense, DenseTo
  <1> QED BY <1>2, <1>3

\* Voiding rewrites rows and moves no number.
Voided(table, voids) == (table \ voids) \cup {[v EXCEPT !.voided = TRUE] : v \in voids}

LEMMA VoidDense ==
  ASSUME NEW table, Dense(table), NEW voids, OnFile(voids, table)
  PROVE  Dense(Voided(table, voids)) /\ Numbers(Voided(table, voids)) = Numbers(table)
  <1> DEFINE after == Voided(table, voids)
  <1>1. PICK k \in Nat : DenseTo(table, k)
    BY DEF Dense
  <1>2. \A v \in voids : LET x == [v EXCEPT !.voided = TRUE]
                         IN  x.no = v.no /\ x.voided /\ x \in after /\ x \notin voids
    BY DEF OnFile, Voided, Run
  <1> DEFINE x(v) == [v EXCEPT !.voided = TRUE]
  <1>3. \A u \in after : u \in table \ voids \/ \E v \in voids : u = x(v)
    BY DEF Voided
  <1>4. \A v \in voids : \E s \in table : s.no = v.no
    BY <1>2 DEF OnFile
  <1>5. \A s \in table : s \in after \/ s \in voids
    BY DEF Voided
  <1>6. Numbers(after) = Numbers(table)
    <2> HIDE DEF after
    <2>1. ASSUME NEW u \in after PROVE \E s \in table : s.no = u.no
      <3>1. CASE u \in table \ voids
        BY <3>1
      <3>2. ASSUME NEW v \in voids, u = x(v) PROVE \E s \in table : s.no = u.no
        BY <1>2, <1>4, <3>2
      <3> QED BY <1>3, <2>1, <3>1, <3>2
    <2>2. ASSUME NEW s \in table PROVE \E u \in after : u.no = s.no
      BY <1>2, <1>5 DEF after
    <2> QED BY <2>1, <2>2 DEF Numbers
  \* Two rows of one number: kept ones are equal, and a voided one is the row it voids or was there.
  <1>7. \A v \in voids, s \in table \ voids : s.no = v.no => s = [v EXCEPT !.voided = TRUE]
    BY <1>1, <1>2 DEF OnFile, DenseTo, Unique
  <1>8. \A v, w \in voids : v.no = w.no => [v EXCEPT !.voided = TRUE] = [w EXCEPT !.voided = TRUE]
    <2> SUFFICES ASSUME NEW v \in voids, NEW w \in voids, v.no = w.no
                 PROVE  [v EXCEPT !.voided = TRUE] = [w EXCEPT !.voided = TRUE]
      OBVIOUS
    <2>1. CASE v \in table /\ w \in table
      BY <1>1, <2>1 DEF DenseTo, Unique
    <2>2. CASE v \in table /\ w \notin table
      BY <1>1, <1>2, <2>2 DEF OnFile, DenseTo, Unique
    <2>3. CASE v \notin table /\ w \in table
      BY <1>1, <1>2, <2>3 DEF OnFile, DenseTo, Unique
    <2>4. CASE v \notin table /\ w \notin table
      BY <1>1, <1>2, <2>4 DEF OnFile, DenseTo, Unique
    <2> QED BY <2>1, <2>2, <2>3, <2>4
  <1>9. Unique(after)
    <2> SUFFICES ASSUME NEW r \in after, NEW s \in after, r.no = s.no
                 PROVE  r = s
      BY DEF Unique
    <2>1. CASE r \in table \ voids /\ s \in table \ voids
      BY <1>1, <2>1 DEF DenseTo, Unique
    <2>2. ASSUME NEW v \in voids, r = x(v), s \in table \ voids PROVE r = s
      BY <1>2, <1>7, <2>2
    <2>3. ASSUME NEW v \in voids, s = x(v), r \in table \ voids PROVE r = s
      BY <1>2, <1>7, <2>3
    <2>4. ASSUME NEW v \in voids, NEW w \in voids, r = x(v), s = x(w) PROVE r = s
      BY <1>2, <1>8, <2>4
    <2> QED BY <1>3, <2>1, <2>2, <2>3, <2>4
  <1>10. DenseTo(after, k)
    BY <1>1, <1>6, <1>9 DEF DenseTo
  <1> QED BY <1>6, <1>10 DEF Dense

\* What a request is about to insert follows what is on file, and what it is about to void is on file,
\* until the inventory is deleted.
InFlight ==
  row # Gone =>
    \A q \in Requests : tx[q] # Idle =>
      Follows(tx[q].runs, runs) /\ Follows(tx[q].versions, versions) /\ OnFile(tx[q].voids, runs)

Tables == Rows /\ Dense(runs) /\ Dense(versions) /\ InFlight

\* A table that kept its numbers, and its runs up to voiding, carries what the requests hold.
LEMMA FollowsOn ==
  ASSUME NEW rows, NEW table, NEW more, Follows(rows, table), Numbers(table) \subseteq Numbers(more)
  PROVE  Follows(rows, more)
  BY DEF Follows

LEMMA OnFileOn ==
  ASSUME NEW voids, NEW others, NEW table, NEW rows, OnFile(voids, table), OnFile(others, table)
  PROVE  OnFile(voids, Voided(table, others) \cup rows)
  <1> SUFFICES ASSUME NEW v \in voids
               PROVE  v \in Voided(table, others) \/ [v EXCEPT !.voided = TRUE] \in Voided(table, others)
    BY DEF OnFile
  <1>1. CASE v \in table
    BY <1>1 DEF Voided
  <1>2. CASE [v EXCEPT !.voided = TRUE] \in table
    <2>1. [v EXCEPT !.voided = TRUE].voided
      BY DEF OnFile, Run
    <2>2. [v EXCEPT !.voided = TRUE] \notin others
      BY <2>1 DEF OnFile
    <2> QED BY <1>2, <2>2 DEF Voided
  <1> QED BY <1>1, <1>2 DEF OnFile

\* The numbers read are those that follow.
LEMMA NextFollows ==
  ASSUME NEW table, Dense(table), Numbers(table) \subseteq 0..(MaxRuns + MaxVersions),
         NEW r, r.no = NextNumber(table)
  PROVE  Follows({r}, table)
  <1>1. PICK k \in Nat : DenseTo(table, k)
    BY DEF Dense
  <1>2. k \in 0..(MaxRuns + MaxVersions)
    <2>1. k = 0 \/ k \in 1..k
      OBVIOUS
    <2> QED BY <1>1, <2>1, BoundAssumption DEF DenseTo
  <1>3. r.no = k + 1
    BY <1>1, <1>2, NextNumberFollows
  <1>4. r.no = 1 \/ r.no - 1 \in 1..k
    BY <1>3
  <1> QED BY <1>1, <1>3, <1>4 DEF Follows, DenseTo

\* The numbers on file are within the bounds.
LEMMA NumbersBounded ==
  ASSUME Rows
  PROVE  /\ Numbers(runs) \subseteq 0..(MaxRuns + MaxVersions)
         /\ Numbers(versions) \subseteq 0..(MaxRuns + MaxVersions)
  BY BoundAssumption DEF Rows, TypeOK, Run, Version, Numbers

\* A request begins with nothing to insert, and voids what it loaded.
LEMMA BeginKeepsTables ==
  ASSUME Tables, Rows', NEW q \in Requests, Started(q)
  PROVE  Tables'
  <1>1. PICK w \in Work :
          Begin(q, w) /\ w.runs = {} /\ w.versions = {} /\ w.voids \subseteq {r \in runs : ~r.voided}
    BY DEF Started
  <1>2. UNCHANGED <<row, runs, versions>> /\ \A c \in Requests : tx'[c] = tx[c] \/ tx'[c] = w
    BY <1>1 DEF Begin, Tables, Rows, TypeOK
  <1>3. Follows(w.runs, runs) /\ Follows(w.versions, versions)
    BY <1>1 DEF Follows
  <1>4. OnFile(w.voids, runs)
    BY <1>1 DEF OnFile, Tables, Rows, TypeOK
  <1>5. InFlight'
    BY <1>2, <1>3, <1>4 DEF InFlight, Tables
  <1> QED BY <1>2, <1>5 DEF Tables

\* The second reads number what is to be inserted.
LEMMA ReadsKeepTables ==
  ASSUME Tables, Rows', NEW q \in Requests, ReadForLaunch(q) \/ ReadForFreeze(q)
  PROVE  Tables'
  <1> DEFINE t == tx[q]
  <1>1. UNCHANGED <<row, runs, versions>>
    BY DEF ReadForLaunch, ReadForFreeze
  <1>2. tx \in [Requests -> Work \cup {Idle}] /\ t \in Work /\ t # Idle
    BY DEF Tables, Rows, TypeOK, ReadForLaunch, ReadForFreeze, Work, Idle
  <1>3. row # Gone => Follows(t.runs, runs) /\ Follows(t.versions, versions) /\ OnFile(t.voids, runs)
    BY <1>2 DEF Tables, InFlight
  <1>4. ASSUME NEW w, tx' = [tx EXCEPT ![q] = w],
               row # Gone => Follows(w.runs, runs) /\ Follows(w.versions, versions) /\ OnFile(w.voids, runs)
        PROVE  Tables'
    <2>1. \A c \in Requests : tx'[c] = tx[c] \/ tx'[c] = w
      BY <1>2, <1>4
    <2> QED BY <1>1, <1>4, <2>1 DEF Tables, InFlight
  <1> HIDE DEF t
  <1>5. CASE ReadForLaunch(q)
    <2> DEFINE n == NextNumber(runs)
               r == [no |-> n, version |-> t.seen.version, view |-> view, voided |-> FALSE]
               w == WithRun(t, n, view)
    <2>1. r.no = n /\ w.runs = {r} /\ w.versions = t.versions /\ w.voids = t.voids
      BY <1>2 DEF WithRun, Work
    <2>2. tx' = [tx EXCEPT ![q] = w]
      BY <1>5 DEF ReadForLaunch, t
    <2> HIDE DEF r, w
    <2>3. Follows({r}, runs)
      BY <2>1, NextFollows, NumbersBounded DEF Tables
    <2> QED BY <1>3, <1>4, <2>1, <2>2, <2>3
  <1>6. CASE ReadForFreeze(q)
    <2> DEFINE n == NextNumber(versions)
               v == [no |-> n, view |-> view]
               w == WithVersion(t, n)
    <2>1. v.no = n /\ w.versions = {v} /\ w.runs = t.runs /\ w.voids = t.voids
      BY <1>2 DEF WithVersion, Work
    <2>2. tx' = [tx EXCEPT ![q] = w]
      BY <1>6 DEF ReadForFreeze, t
    <2> HIDE DEF v, w
    <2>3. Follows({v}, versions)
      BY <2>1, NextFollows, NumbersBounded DEF Tables
    <2> QED BY <1>3, <1>4, <2>1, <2>2, <2>3
  <1> QED BY <1>5, <1>6

\* A commit inserts the next number or none, and what the others hold stays in reach; a deletion leaves
\* empty tables, and no commit after it.
LEMMA CommitKeepsTables ==
  ASSUME Tables, Rows', NEW q \in Requests, Commit(q)
  PROVE  Tables'
  <1> DEFINE t == tx[q]
             kept == Voided(runs, t.voids)
  <1>1. t \in Work /\ t # Idle /\ tx \in [Requests -> Work \cup {Idle}] /\ row # Gone
    BY DEF Tables, Rows, TypeOK, Commit, Work, Idle
  <1>2. Follows(t.runs, runs) /\ Follows(t.versions, versions) /\ OnFile(t.voids, runs)
    BY <1>1 DEF Tables, InFlight
  <1>3. CASE t.deletes
    <2>1. row' = Gone /\ runs' = {} /\ versions' = {}
      BY <1>1, <1>3 DEF Commit, Work
    <2>2. DenseTo({}, 0)
      BY DEF DenseTo, Unique, Numbers
    <2> QED BY <2>1, <2>2 DEF Tables, Dense, InFlight
  <1>4. CASE ~t.deletes
    <2>1. runs' = kept \cup t.runs /\ versions' = versions \cup t.versions
      BY <1>4 DEF Commit, Voided
    <2>2. (~\E r \in t.runs, s \in runs : r.no = s.no) /\ (~\E w \in t.versions, x \in versions : w.no = x.no)
      BY DEF Commit, Clashes
    <2>3. Dense(kept) /\ Numbers(kept) = Numbers(runs)
      BY <1>2, VoidDense DEF Tables
    <2>4. Follows(t.runs, kept) /\ ~\E r \in t.runs, s \in kept : r.no = s.no
      <3> HIDE DEF kept
      <3>1. Follows(t.runs, kept)
        BY <1>2, <2>3, FollowsOn
      <3>2. \A r \in t.runs : r.no \notin Numbers(runs)
        BY <2>2 DEF Numbers
      <3>3. \A s \in kept : s.no \in Numbers(kept)
        BY DEF Numbers
      <3> QED BY <2>3, <3>1, <3>2, <3>3
    <2>5. Dense(runs') /\ Numbers(runs) \subseteq Numbers(runs')
      <3> HIDE DEF kept
      <3> QED BY <2>1, <2>3, <2>4, InsertDense
    <2>6. Dense(versions') /\ Numbers(versions) \subseteq Numbers(versions')
      BY <1>2, <2>1, <2>2, InsertDense DEF Tables
    <2>7. ASSUME NEW c \in Requests, tx'[c] # Idle
          PROVE  Follows(tx'[c].runs, runs') /\ Follows(tx'[c].versions, versions') /\ OnFile(tx'[c].voids, runs')
      <3>1. tx'[c] = tx[c] /\ tx[c] # Idle
        BY <1>1, <2>7 DEF Commit
      <3>2. Follows(tx[c].runs, runs) /\ Follows(tx[c].versions, versions) /\ OnFile(tx[c].voids, runs)
        BY <1>1, <3>1 DEF Tables, InFlight
      <3>3. OnFile(tx[c].voids, runs')
        BY <1>2, <2>1, <3>2, OnFileOn
      <3> QED BY <2>5, <2>6, <3>1, <3>2, <3>3, FollowsOn
    <2> QED BY <2>5, <2>6, <2>7 DEF Tables, InFlight
  <1> QED BY <1>3, <1>4

\* Every step keeps the tables dense.
LEMMA TablesStep == Tables /\ [Next]_vars => Tables'
  <1> SUFFICES ASSUME Tables, [Next]_vars PROVE Tables'
    OBVIOUS
  <1>1. Rows /\ Rows'
    BY RowsStep DEF Tables
  <1>2. ASSUME NEW q \in Requests, Handle(q) PROVE Tables'
    BY <1>1, <1>2, HandlersStart, BeginKeepsTables
  <1>3. ASSUME NEW q \in Requests, Abort(q) PROVE Tables'
    <2>1. \A c \in Requests : tx'[c] # Idle => tx'[c] = tx[c]
      BY <1>1, <1>3 DEF Abort, Rows, TypeOK
    <2>2. InFlight'
      BY <1>3, <2>1 DEF Abort, InFlight, Tables
    <2> QED BY <1>1, <1>3, <2>2 DEF Abort, Tables
  <1>4. CASE UNCHANGED vars
    BY <1>1, <1>4 DEF vars, Tables, InFlight
  <1> QED BY <1>1, <1>2, <1>3, <1>4, ReadsKeepTables, CommitKeepsTables DEF Next

LEMMA InitTables == Init => Tables
  <1> SUFFICES ASSUME Init PROVE Tables
    OBVIOUS
  <1>1. runs = {} /\ versions = {} /\ \A q \in Requests : tx[q] = Idle
    BY DEF Init
  <1>2. DenseTo({}, 0)
    BY DEF DenseTo, Unique, Numbers
  <1>3. InFlight
    BY <1>1 DEF InFlight
  <1> QED BY <1>1, <1>2, <1>3, InitRows DEF Tables, Dense

\* However many launches and freezes overlap, the numbers of the runs are 1 to their count, and so are
\* those of the versions (the unique constraints of V9 and V22).
THEOREM OverlapsKeepNumbersDense == Spec => []NumbersAreDense
  <1>1. ASSUME NEW table, Dense(table) PROVE Numbers(table) = 1..Cardinality(table)
    BY <1>1, DenseCount DEF Dense, DenseTo
  <1>2. Tables => NumbersAreDense
    BY <1>1 DEF Tables, NumbersAreDense, Numbers
  <1> QED BY <1>2, InitTables, TablesStep, PTL DEF Spec

-----------------------------------------------------------------------------
(* The voided runs and the final one. *)

\* The run a row puts forward is not voided on file.
Stands(r) == \A s \in runs : s.no = r.submittedRun => ~s.voided

\* The row a request's commit leaves on file.
Leaves(w) == IF w.writes THEN w.row ELSE row

\* What a request is about to write puts forward no voided run, nor one it voids itself, and inserts none.
Upholds(w) ==
  /\ \A r \in w.runs : ~r.voided
  /\ w.writes => Stands(w.row)
  /\ \A v \in w.voids : v.no # Leaves(w).submittedRun

Submissions ==
  /\ Tables
  /\ row # Gone => Stands(row) /\ \A q \in Requests : tx[q] # Idle => Upholds(tx[q])

\* A number names one run.
LEMMA RunsAreUnique == Tables => \A r, s \in runs : r.no = s.no => r = s
  BY DEF Tables, Dense, DenseTo, Unique

\* A row that puts no run forward, the run on file or one that is not voided, puts no voided run forward.
LEMMA StandsAgain ==
  ASSUME Submissions, row # Gone, NEW l \in Row,
         \/ l.submittedRun \in {NoNumber, row.submittedRun}
         \/ \E r \in runs : ~r.voided /\ l.submittedRun = r.no
  PROVE  Stands(l)
  <1>1. \A s \in runs : s.no # NoNumber
    BY BoundAssumption DEF Submissions, Tables, Rows, TypeOK, Run, NoNumber
  <1>2. CASE l.submittedRun \in {NoNumber, row.submittedRun}
    BY <1>1, <1>2 DEF Submissions, Stands
  <1>3. CASE \E r \in runs : ~r.voided /\ l.submittedRun = r.no
    BY <1>3, RunsAreUnique DEF Submissions, Stands
  <1> QED BY <1>2, <1>3

\* The run a handler's row puts forward is the one it loaded, one it read and found not voided, or none; a
\* void of the run put forward withdraws it, and a signed run is not voided.
HandlesRun(w) ==
  /\ \/ w.row.submittedRun \in {NoNumber, row.submittedRun}
     \/ \E r \in runs : ~r.voided /\ w.row.submittedRun = r.no
  /\ \A v \in w.voids : v.no # Leaves(w).submittedRun

LEMMA HandlersHandleRuns ==
  ASSUME Tables, NEW q \in Requests, Handle(q)
  PROVE  HandlesRun(tx'[q])
  <1>0. row # Gone
    BY DEF Handle, Update, Delete, Freeze, Reopen, LaunchRun, ReturnToPreparer, WithdrawFinal, Publish,
           EditView, VoidRun, SubmitForReview, DesignateFinal
  <1>1. row \in Row /\ Whole(row)
    BY <1>0 DEF Tables, Rows, TypeOK
  <1>2. \A r \in runs : r.no \in 1..MaxRuns /\ r.no # NoNumber
    BY BoundAssumption DEF Tables, Rows, TypeOK, Run, NoNumber
  <1>3. ASSUME NEW w, Begin(q, w) PROVE tx'[q] = w
    BY <1>3 DEF Begin, Tables, Rows, TypeOK
  \* A handler that voids nothing.
  <1>4. ASSUME NEW w, Begin(q, w), w.voids = {},
               \/ w.row.submittedRun \in {NoNumber, row.submittedRun}
               \/ \E r \in runs : ~r.voided /\ w.row.submittedRun = r.no
        PROVE  HandlesRun(tx'[q])
    BY <1>3, <1>4 DEF HandlesRun
  <1>5. ASSUME NEW l
        PROVE  /\ Loaded(l).row = l /\ Loaded(l).voids = {}
               /\ LET w == [Loaded(l) EXCEPT !.writes = TRUE] IN w.row = l /\ w.voids = {}
               /\ LET w == [Loaded(l) EXCEPT !.deletes = TRUE] IN w.row = l /\ w.voids = {}
               /\ LET w == [Loaded(l) EXCEPT !.stage = "READ"] IN w.row = l /\ w.voids = {}
               /\ \A v \in Views : LET w == [Loaded(l) EXCEPT !.view = v] IN w.row = l /\ w.voids = {}
    BY DEF Loaded
  <1>6. Withdrawn(row).submittedRun = NoNumber
    BY <1>1 DEF Withdrawn, Row
  <1>7. CASE Update(q) \/ Delete(q) \/ \E v \in Views : EditView(q, v)
    <2>1. CASE Update(q)
      BY <1>4, <1>5, <2>1 DEF Update
    <2>2. CASE Delete(q)
      BY <1>4, <1>5, <2>2 DEF Delete
    <2>3. ASSUME NEW v \in Views, EditView(q, v) PROVE HandlesRun(tx'[q])
      <3> DEFINE w == [Loaded(row) EXCEPT !.view = v]
      <3>1. w.row = row /\ w.voids = {}
        BY <1>5
      <3>2. Begin(q, w)
        BY <2>3 DEF EditView
      <3> HIDE DEF w
      <3> QED BY <1>4, <3>1, <3>2
    <2> QED BY <1>7, <2>1, <2>2, <2>3
  <1>8. CASE Freeze(q)
    <2> DEFINE l == [row EXCEPT !.status = "FROZEN"]
    <2>1. l.submittedRun = row.submittedRun
      BY <1>1 DEF Row
    <2>2. Begin(q, [Loaded(l) EXCEPT !.stage = "READ"])
      BY <1>8 DEF Freeze
    <2> HIDE DEF l
    <2> QED BY <1>4, <1>5, <2>1, <2>2
  <1>9. CASE Reopen(q)
    <2> DEFINE l == [Withdrawn(row) EXCEPT !.status = "DRAFT"]
    <2>1. l.submittedRun = NoNumber
      BY <1>1 DEF Withdrawn, Row
    <2>2. Begin(q, Loaded(l))
      BY <1>9 DEF Reopen
    <2> HIDE DEF l
    <2> QED BY <1>4, <1>5, <2>1, <2>2
  <1>10. CASE LaunchRun(q)
    <2> DEFINE l == IF row.status = "IN_REVIEW" THEN Withdrawn(row) ELSE row
    <2>1. l.submittedRun \in {NoNumber, row.submittedRun}
      BY <1>6
    <2>2. Begin(q, [Loaded(l) EXCEPT !.stage = "READ"])
      BY <1>10 DEF LaunchRun
    <2> HIDE DEF l
    <2> QED BY <1>4, <1>5, <2>1, <2>2
  <1>11. CASE ReturnToPreparer(q)
    BY <1>4, <1>5, <1>6, <1>11 DEF ReturnToPreparer
  <1>12. CASE WithdrawFinal(q)
    <2> DEFINE l == [Withdrawn(row) EXCEPT !.finalRun = NoNumber, !.signer = NoOne]
    <2>1. l.submittedRun = NoNumber
      BY <1>1 DEF Withdrawn, Row
    <2>2. Begin(q, Loaded(l))
      BY <1>12 DEF WithdrawFinal
    <2> HIDE DEF l
    <2> QED BY <1>4, <1>5, <2>1, <2>2
  <1>13. CASE Publish(q)
    <2> DEFINE l == [row EXCEPT !.status = "PUBLISHED"]
    <2>1. l.submittedRun = row.submittedRun
      BY <1>1 DEF Row
    <2>2. Begin(q, Loaded(l))
      BY <1>13 DEF Publish
    <2> HIDE DEF l
    <2> QED BY <1>4, <1>5, <2>1, <2>2
  <1>14. ASSUME NEW p \in Accounts, NEW r \in runs, SubmitForReview(q, p, r) PROVE HandlesRun(tx'[q])
    <2> DEFINE l == [row EXCEPT !.status = "IN_REVIEW", !.submittedRun = r.no, !.submittedBy = p]
    <2>1. l.submittedRun = r.no /\ ~r.voided
      BY <1>1, <1>14 DEF Row, SubmitForReview
    <2> DEFINE w == [Loaded(l) EXCEPT !.writes = TRUE]
    <2>2. Begin(q, w)
      BY <1>14 DEF SubmitForReview
    <2> HIDE DEF l
    <2>3. w.row = l /\ w.voids = {}
      BY <1>5
    <2> HIDE DEF w
    <2> QED BY <1>4, <2>1, <2>2, <2>3
  <1>15. ASSUME NEW p \in Accounts, NEW r \in runs, DesignateFinal(q, p, r) PROVE HandlesRun(tx'[q])
    <2> DEFINE l == [row EXCEPT !.status = "FINAL", !.finalRun = r.no, !.signer = p]
    <2>1. l.submittedRun = row.submittedRun
      BY <1>1 DEF Row
    <2>2. Begin(q, Loaded(l))
      BY <1>15 DEF DesignateFinal
    <2> HIDE DEF l
    <2> QED BY <1>4, <1>5, <2>1, <2>2
  \* A void: of the run in review, it withdraws the submission; a signed run is refused.
  <1>16. ASSUME NEW r \in runs, VoidRun(q, r) PROVE HandlesRun(tx'[q])
    <2> DEFINE l == IF row.status = "IN_REVIEW" /\ r.no = row.submittedRun THEN Withdrawn(row) ELSE row
               w == [Loaded(l) EXCEPT !.voids = {r}]
    <2>1. w.row = l /\ w.voids = {r} /\ w.writes = (l # row)
      BY DEF Loaded
    <2>2. tx'[q] = w
      BY <1>3, <1>16 DEF VoidRun
    <2>3. l.submittedRun \in {NoNumber, row.submittedRun}
      BY <1>6
    <2>4. r.no # l.submittedRun
      <3>1. CASE row.status = "IN_REVIEW" /\ r.no = row.submittedRun
        BY <1>2, <1>6, <3>1
      <3>2. CASE ~(row.status = "IN_REVIEW" /\ r.no = row.submittedRun)
        BY <1>1, <1>2, <1>16, <3>2 DEF VoidRun, Whole, Row, Status
      <3> QED BY <3>1, <3>2
    <2> HIDE DEF l, w
    <2>5. Leaves(w) = l
      BY <2>1 DEF Leaves
    <2> QED BY <2>1, <2>2, <2>3, <2>4, <2>5 DEF HandlesRun
  <1> QED BY <1>7, <1>8, <1>9, <1>10, <1>11, <1>12, <1>13, <1>14, <1>15, <1>16 DEF Handle

\* A request begins with a row that puts no voided run forward.
LEMMA BeginKeepsSubmissions ==
  ASSUME Submissions, Tables', NEW q \in Requests, Handle(q)
  PROVE  Submissions'
  <1>1. PICK w \in Work : Begin(q, w) /\ row # Gone /\ w.runs = {}
    BY HandlersStart DEF Started, Submissions, Tables
  <1>2. tx'[q] = w /\ \A c \in Requests : c # q => tx'[c] = tx[c]
    BY <1>1 DEF Begin, Submissions, Tables, Rows, TypeOK
  <1>3. HandlesRun(w)
    BY <1>2, HandlersHandleRuns DEF Submissions
  <1>4. UNCHANGED <<row, runs>>
    BY <1>1 DEF Begin
  <1>5. Stands(w.row)
    BY <1>1, <1>3, StandsAgain DEF HandlesRun, Work
  <1>6. Upholds(w)
    BY <1>1, <1>3, <1>5 DEF Upholds, HandlesRun
  <1>7. ASSUME NEW c \in Requests, tx'[c] # Idle PROVE Upholds(tx[c])'
    <2>1. Upholds(tx'[c])
      BY <1>1, <1>2, <1>6, <1>7 DEF Submissions
    <2> QED BY <1>4, <2>1 DEF Upholds, Stands, Leaves
  <1> QED BY <1>1, <1>4, <1>7 DEF Submissions, Stands

\* The second reads change neither what a request voids nor the run its row puts forward.
LEMMA ReadsKeepSubmissions ==
  ASSUME Submissions, Tables', NEW q \in Requests, ReadForLaunch(q) \/ ReadForFreeze(q)
  PROVE  Submissions'
  <1>1. UNCHANGED <<row, runs>>
    BY DEF ReadForLaunch, ReadForFreeze
  <1>2. tx[q] \in Work /\ tx[q] # Idle /\ tx \in [Requests -> Work \cup {Idle}]
    BY DEF Submissions, Tables, Rows, TypeOK, ReadForLaunch, ReadForFreeze, Work, Idle
  <1>3. \A c \in Requests : c # q => tx'[c] = tx[c]
    BY <1>2 DEF ReadForLaunch, ReadForFreeze
  <1>4. /\ tx'[q].writes = tx[q].writes /\ tx'[q].voids = tx[q].voids
        /\ tx'[q].row.submittedRun = tx[q].row.submittedRun
        /\ \A r \in tx'[q].runs : r \in tx[q].runs \/ ~r.voided
    <2>1. CASE ReadForLaunch(q)
      BY <1>2, <2>1 DEF ReadForLaunch, WithRun, Work
    <2>2. CASE ReadForFreeze(q)
      BY <1>2, <2>2 DEF ReadForFreeze, WithVersion, Work, Row
    <2> QED BY <2>1, <2>2
  <1>5. ASSUME NEW c \in Requests, tx'[c] # Idle, row # Gone PROVE Upholds(tx[c])'
    <2>1. CASE c = q
      <3>1. Upholds(tx[q])
        BY <1>2, <1>5 DEF Submissions
      <3> QED BY <1>1, <1>4, <2>1, <3>1 DEF Upholds, Stands, Leaves
    <2>2. CASE c # q
      <3>1. Upholds(tx[c]) /\ tx'[c] = tx[c]
        BY <1>3, <1>5, <2>2 DEF Submissions
      <3> QED BY <1>1, <3>1 DEF Upholds, Stands, Leaves
    <2> QED BY <2>1, <2>2
  <1> QED BY <1>1, <1>5 DEF Submissions, Stands

\* A commit that voids a run leaves a row that does not put it forward, and no other request is about to
\* write one that does.
LEMMA CommitKeepsSubmissions ==
  ASSUME Submissions, Tables', VoidsApart, NEW q \in Requests, Commit(q)
  PROVE  Submissions'
  <1> DEFINE t == tx[q]
  <1>1. t \in Work /\ t # Idle /\ tx \in [Requests -> Work \cup {Idle}] /\ row # Gone
    BY DEF Submissions, Tables, Rows, TypeOK, Commit, Work, Idle
  <1>2. Upholds(t) /\ Stands(row)
    BY <1>1 DEF Submissions
  <1>3. ASSUME NEW c \in Requests, tx'[c] # Idle PROVE c # q /\ tx'[c] = tx[c] /\ tx[c] # Idle
    BY <1>1, <1>3 DEF Commit
  <1>4. CASE t.deletes
    BY <1>1, <1>4 DEF Commit, Submissions, Work
  <1>5. CASE ~t.deletes
    <2>1. row' = Leaves(t)
      BY <1>1, <1>5 DEF Commit, Leaves, Work
    <2>2. runs' = Voided(runs, t.voids) \cup t.runs
      BY <1>5 DEF Commit, Voided
    <2>3. t.voids \subseteq Run
      BY <1>1 DEF Work
    <2>4. ASSUME NEW s \in runs', s.voided PROVE s \in runs \/ \E v \in t.voids : s.no = v.no
      BY <1>2, <2>2, <2>3, <2>4 DEF Voided, Upholds, Run
    <2>5. ASSUME NEW l, Stands(l), \A v \in t.voids : v.no # l.submittedRun
          PROVE  \A s \in runs' : s.no = l.submittedRun => ~s.voided
      BY <2>4, <2>5 DEF Stands
    <2>6. Stands(row)'
      <3>1. Stands(Leaves(t)) /\ \A v \in t.voids : v.no # Leaves(t).submittedRun
        BY <1>2 DEF Upholds, Leaves
      <3> QED BY <2>1, <2>5, <3>1 DEF Stands
    <2>7. ASSUME NEW c \in Requests, tx'[c] # Idle PROVE Upholds(tx[c])'
      <3> DEFINE u == tx[c]
      <3>1. c # q /\ tx'[c] = u /\ u # Idle
        BY <1>3, <2>7
      <3>2. Upholds(u)
        BY <1>1, <3>1 DEF Submissions
      <3>3. u.writes => \A s \in runs' : s.no = u.row.submittedRun => ~s.voided
        BY <1>1, <2>5, <3>1, <3>2 DEF Upholds, VoidsApart
      <3>4. t.writes => \A v \in u.voids : v.no # t.row.submittedRun
        BY <1>1, <3>1 DEF VoidsApart
      <3>5. \A v \in u.voids : v.no # (IF u.writes THEN u.row ELSE row').submittedRun
        BY <2>1, <3>2, <3>4 DEF Upholds, Leaves
      <3> HIDE DEF u
      <3> QED BY <3>1, <3>2, <3>3, <3>5 DEF Upholds, Stands, Leaves
    <2> QED BY <2>6, <2>7 DEF Submissions
  <1> QED BY <1>4, <1>5

\* Every step keeps the run put forward, while voids keep apart.
LEMMA SubmissionsStep == Submissions /\ VoidsApart /\ [Next]_vars => Submissions'
  <1> SUFFICES ASSUME Submissions, VoidsApart, [Next]_vars PROVE Submissions'
    OBVIOUS
  <1>1. Tables /\ Tables'
    BY TablesStep DEF Submissions
  <1>2. ASSUME NEW q \in Requests, Abort(q) PROVE Submissions'
    <2>1. \A c \in Requests : tx'[c] # Idle => tx'[c] = tx[c]
      BY <1>1, <1>2 DEF Abort, Tables, Rows, TypeOK
    <2>2. UNCHANGED <<row, runs>>
      BY <1>2 DEF Abort
    <2>3. ASSUME NEW c \in Requests, tx'[c] # Idle, row # Gone PROVE Upholds(tx[c])'
      <3>1. Upholds(tx[c]) /\ tx'[c] = tx[c]
        BY <2>1, <2>3 DEF Submissions
      <3> QED BY <2>2, <3>1 DEF Upholds, Stands, Leaves
    <2> QED BY <1>1, <2>2, <2>3 DEF Submissions, Stands
  <1>3. CASE UNCHANGED vars
    BY <1>1, <1>3 DEF vars, Submissions, Upholds, Stands, Leaves
  <1> QED BY <1>1, <1>2, <1>3, BeginKeepsSubmissions, ReadsKeepSubmissions, CommitKeepsSubmissions DEF Next

\* The run that is final is not voided (the formula of InventoryRaceClaims).
FinalRunStands == row # Gone => \A r \in runs : r.no = row.finalRun => ~r.voided

\* A voided run is never final (specs/05.2) while no void overlaps a request that is about to write a row
\* putting the same run forward: the guards of voidRun, submitForReview and designateFinal are right, and
\* what they lack is a lock on the row or a version of it.
THEOREM FinalRunStandsWhereVoidsKeepApart == Spec /\ []VoidsApart => []FinalRunStands
  <1>1. Init => Submissions
    <2> SUFFICES ASSUME Init PROVE Submissions
      OBVIOUS
    <2> QED BY InitTables DEF Init, Submissions, Stands
  <1>2. Submissions => FinalRunStands
    <2> SUFFICES ASSUME Submissions, row # Gone, NEW r \in runs, r.no = row.finalRun PROVE ~r.voided
      BY DEF FinalRunStands
    <2>1. r.no # NoNumber
      BY BoundAssumption DEF Submissions, Tables, Rows, TypeOK, Run, NoNumber
    <2>2. row.finalRun = row.submittedRun
      BY <2>1 DEF Submissions, Tables, Rows, Whole
    <2> QED BY <2>2 DEF Submissions, Stands
  <1> QED BY <1>1, <1>2, SubmissionsStep, PTL DEF Spec

-----------------------------------------------------------------------------
(* The publication. *)

\* What the handlers do not ensure: nothing else is under way beside a publication.
PublishesAlone ==
  \A c, d \in Requests :
    tx[c] # Idle /\ tx[d] # Idle /\ tx[c].writes /\ tx[c].row.status = "PUBLISHED" => c = d

\* Once published, nothing is under way: every handler's guard refuses what it loads.
Settled == row # Gone /\ row.status = "PUBLISHED" => \A q \in Requests : tx[q] = Idle

\* No handler begins on a published row.
LEMMA PublishedIsRefused ==
  ASSUME NEW q \in Requests, Handle(q)
  PROVE  row.status # "PUBLISHED" /\ UNCHANGED row
  BY DEF Handle, Begin, Update, Delete, Freeze, Reopen, LaunchRun, ReturnToPreparer, WithdrawFinal, Publish,
         EditView, VoidRun, SubmitForReview, DesignateFinal

LEMMA SettledStep == TypeOK /\ Settled /\ PublishesAlone /\ [Next]_vars => Settled'
  <1> SUFFICES ASSUME TypeOK, Settled, PublishesAlone, [Next]_vars PROVE Settled'
    OBVIOUS
  <1>1. ASSUME NEW q \in Requests, Handle(q) PROVE Settled'
    BY <1>1, PublishedIsRefused DEF Settled
  <1>2. ASSUME NEW q \in Requests, ReadForLaunch(q) \/ ReadForFreeze(q) PROVE Settled'
    <2>1. tx[q] # Idle /\ UNCHANGED row
      BY <1>2 DEF ReadForLaunch, ReadForFreeze, Idle
    <2> QED BY <2>1 DEF Settled
  <1>3. ASSUME NEW q \in Requests, Commit(q) PROVE Settled'
    <2> SUFFICES ASSUME row' # Gone, row'.status = "PUBLISHED", NEW c \in Requests
                 PROVE  tx'[c] = Idle
      BY DEF Settled
    <2>1. tx[q] # Idle /\ tx[q] \in Work /\ tx' = [tx EXCEPT ![q] = Idle] /\ row # Gone
      BY <1>3 DEF Commit, TypeOK, Idle
    <2>2. row.status # "PUBLISHED"
      BY <2>1 DEF Settled
    <2>3. tx[q].writes /\ row' = tx[q].row
      BY <1>3, <2>1, <2>2 DEF Commit, Work
    <2>4. c # q => tx[c] = Idle
      BY <2>1, <2>3 DEF PublishesAlone
    <2> QED BY <2>1, <2>4 DEF TypeOK
  <1>4. ASSUME NEW q \in Requests, Abort(q) PROVE Settled'
    BY <1>4 DEF Abort, Settled
  <1>5. CASE UNCHANGED vars
    BY <1>5 DEF vars, Settled
  <1> QED BY <1>1, <1>2, <1>3, <1>4, <1>5 DEF Next

\* A published inventory, its runs, its versions and its view change no more.
PublishedStands ==
  [][row # Gone /\ row.status = "PUBLISHED" => UNCHANGED <<row, view, runs, versions>>]_vars

\* A publication is final (InventoryStatus.java: "nothing may change") while nothing else is under way beside
\* it: the guards are right, and what they lack is a lock, for a request that loaded the row before may commit
\* after.
THEOREM PublicationsStandWhereAlone == Spec /\ []PublishesAlone => PublishedStands
  <1>1. Init => Settled
    BY DEF Init, Settled
  <1>2. Settled /\ [Next]_vars =>
          [row # Gone /\ row.status = "PUBLISHED" => UNCHANGED <<row, view, runs, versions>>]_vars
    <2> SUFFICES ASSUME Settled, [Next]_vars, row # Gone, row.status = "PUBLISHED"
                 PROVE  UNCHANGED <<row, view, runs, versions>>
      OBVIOUS
    <2>1. \A q \in Requests : tx[q] = Idle
      BY DEF Settled
    <2>2. \A q \in Requests : ~Handle(q)
      BY PublishedIsRefused
    <2>3. \A q \in Requests : ~ReadForLaunch(q) /\ ~ReadForFreeze(q) /\ ~Commit(q) /\ ~Abort(q)
      BY <2>1 DEF ReadForLaunch, ReadForFreeze, Commit, Abort, Idle
    <2>4. UNCHANGED vars
      BY <2>2, <2>3 DEF Next
    <2> QED BY <2>4 DEF vars
  <1> QED BY <1>1, <1>2, SettledStep, RacesTypeCorrect, PTL DEF Spec, PublishedStands

-----------------------------------------------------------------------------
(* The runs and their versions. *)

\* What the handlers do not ensure: nothing else is under way beside an edit of the view.
EditsAlone ==
  \A c, d \in Requests : tx[c] # Idle /\ tx[c].view # NoView /\ tx[d] # Idle => c = d

\* The run's lines come from what its version was cut from.
ReadsVersion(r, table) == \E w \in table : w.no = r.version /\ w.view = r.view

\* The version of a row that is no draft was cut from the view as it is.
Backed(r, table) == r.status # "DRAFT" => \E w \in table : w.no = r.version /\ w.view = view

\* What a request holds is backed, by a version on file or by the one it cuts; an edit of the view is of a
\* draft, and leaves its row alone.
Carries(t) ==
  /\ Backed(t.seen, versions)
  /\ \A r \in t.runs : ReadsVersion(r, versions)
  /\ t.view # NoView => row.status = "DRAFT" /\ ~t.writes
  /\ IF t.seen.status = "DRAFT" THEN t.stage = "READ" \/ Backed(t.row, t.versions) ELSE Backed(t.row, versions)

Held ==
  /\ \A r \in runs : ReadsVersion(r, versions)
  /\ row # Gone => Backed(row, versions) /\ \A q \in Requests : tx[q] # Idle => Carries(tx[q])

\* A handler keeps the version it loaded, a freeze reads before it writes, and only a draft's view is edited.
HandlesView(w) ==
  /\ w.seen = row /\ w.runs = {}
  /\ w.view # NoView => row.status = "DRAFT" /\ ~w.writes
  /\ \/ w.row.status = "DRAFT"
     \/ row.status = "DRAFT" /\ w.stage = "READ"
     \/ row.status # "DRAFT" /\ w.row.version = row.version

LEMMA HandlersHandleViews ==
  ASSUME TypeOK, NEW q \in Requests, Handle(q)
  PROVE  HandlesView(tx'[q])
  <1>0. row # Gone
    BY DEF Handle, Update, Delete, Freeze, Reopen, LaunchRun, ReturnToPreparer, WithdrawFinal, Publish,
           EditView, VoidRun, SubmitForReview, DesignateFinal
  <1>1. row \in Row
    BY <1>0 DEF TypeOK
  \* A handler that keeps the version of a row that is no draft, or leaves a draft.
  <1>2. ASSUME NEW w, Begin(q, w), w.seen = row, w.runs = {}, w.view = NoView,
               \/ w.row.status = "DRAFT"
               \/ row.status = "DRAFT" /\ w.stage = "READ"
               \/ row.status # "DRAFT" /\ w.row.version = row.version
        PROVE  HandlesView(tx'[q])
    BY <1>2 DEF Begin, TypeOK, HandlesView
  <1>3. ASSUME NEW l
        PROVE  /\ LET w == Loaded(l) IN w.seen = row /\ w.row = l /\ w.runs = {} /\ w.view = NoView
               /\ LET w == [Loaded(l) EXCEPT !.writes = TRUE]
                  IN  w.seen = row /\ w.row = l /\ w.runs = {} /\ w.view = NoView
               /\ LET w == [Loaded(l) EXCEPT !.deletes = TRUE]
                  IN  w.seen = row /\ w.row = l /\ w.runs = {} /\ w.view = NoView
               /\ LET w == [Loaded(l) EXCEPT !.stage = "READ"]
                  IN  w.seen = row /\ w.row = l /\ w.runs = {} /\ w.view = NoView /\ w.stage = "READ"
               /\ \A r : LET w == [Loaded(l) EXCEPT !.voids = {r}]
                         IN  w.seen = row /\ w.row = l /\ w.runs = {} /\ w.view = NoView
    BY DEF Loaded
  \* The versions a handler's row may name.
  <1>4. Withdrawn(row).version = row.version
    BY <1>1 DEF Withdrawn, Row
  <1>5. CASE Update(q)
    <2> DEFINE w == [Loaded(row) EXCEPT !.writes = TRUE]
    <2>1. Begin(q, w)
      BY <1>5 DEF Update
    <2>2. w.seen = row /\ w.row = row /\ w.runs = {} /\ w.view = NoView
      BY <1>3
    <2> HIDE DEF w
    <2> QED BY <1>2, <2>1, <2>2
  <1>6. CASE Delete(q)
    <2> DEFINE w == [Loaded(row) EXCEPT !.deletes = TRUE]
    <2>1. Begin(q, w)
      BY <1>6 DEF Delete
    <2>2. w.seen = row /\ w.row = row /\ w.runs = {} /\ w.view = NoView
      BY <1>3
    <2> HIDE DEF w
    <2> QED BY <1>2, <2>1, <2>2
  <1>7. ASSUME NEW v \in Views, EditView(q, v) PROVE HandlesView(tx'[q])
    <2> DEFINE w == [Loaded(row) EXCEPT !.view = v]
    <2>1. w.seen = row /\ w.row = row /\ w.runs = {} /\ ~w.writes
      BY DEF Loaded
    <2>2. tx'[q] = w /\ row.status = "DRAFT"
      BY <1>7 DEF EditView, Begin, TypeOK
    <2> HIDE DEF w
    <2> QED BY <2>1, <2>2 DEF HandlesView
  <1>8. CASE Freeze(q)
    <2> DEFINE l == [row EXCEPT !.status = "FROZEN"]
               w == [Loaded(l) EXCEPT !.stage = "READ"]
    <2>1. row.status = "DRAFT" /\ Begin(q, w)
      BY <1>8 DEF Freeze
    <2> HIDE DEF l
    <2>2. w.seen = row /\ w.row = l /\ w.runs = {} /\ w.view = NoView /\ w.stage = "READ"
      BY <1>3
    <2> HIDE DEF w
    <2> QED BY <1>2, <2>1, <2>2
  <1>9. CASE Reopen(q)
    <2> DEFINE l == [Withdrawn(row) EXCEPT !.status = "DRAFT"]
    <2>1. l.status = "DRAFT"
      BY <1>1 DEF Withdrawn, Row
    <2>2. Begin(q, Loaded(l))
      BY <1>9 DEF Reopen
    <2> HIDE DEF l
    <2> QED BY <1>2, <1>3, <2>1, <2>2
  <1>10. CASE LaunchRun(q)
    <2> DEFINE l == IF row.status = "IN_REVIEW" THEN Withdrawn(row) ELSE row
    <2>1. row.status # "DRAFT" /\ l.version = row.version
      BY <1>4, <1>10 DEF LaunchRun
    <2> DEFINE w == [Loaded(l) EXCEPT !.stage = "READ"]
    <2>2. Begin(q, w)
      BY <1>10 DEF LaunchRun
    <2> HIDE DEF l
    <2>3. w.seen = row /\ w.row = l /\ w.runs = {} /\ w.view = NoView
      BY <1>3
    <2> HIDE DEF w
    <2> QED BY <1>2, <2>1, <2>2, <2>3
  <1>11. CASE ReturnToPreparer(q)
    <2>1. row.status # "DRAFT" /\ Begin(q, Loaded(Withdrawn(row)))
      BY <1>11 DEF ReturnToPreparer
    <2> QED BY <1>2, <1>3, <1>4, <2>1
  <1>12. CASE WithdrawFinal(q)
    <2> DEFINE l == [Withdrawn(row) EXCEPT !.finalRun = NoNumber, !.signer = NoOne]
    <2>1. row.status # "DRAFT" /\ l.version = row.version
      BY <1>1, <1>12 DEF WithdrawFinal, Withdrawn, Row
    <2>2. Begin(q, Loaded(l))
      BY <1>12 DEF WithdrawFinal
    <2> HIDE DEF l
    <2> QED BY <1>2, <1>3, <2>1, <2>2
  <1>13. CASE Publish(q)
    <2> DEFINE l == [row EXCEPT !.status = "PUBLISHED"]
    <2>1. row.status # "DRAFT" /\ l.version = row.version
      BY <1>1, <1>13 DEF Publish, Row
    <2>2. Begin(q, Loaded(l))
      BY <1>13 DEF Publish
    <2> HIDE DEF l
    <2> QED BY <1>2, <1>3, <2>1, <2>2
  <1>14. ASSUME NEW p \in Accounts, NEW r \in runs, SubmitForReview(q, p, r) PROVE HandlesView(tx'[q])
    <2> DEFINE l == [row EXCEPT !.status = "IN_REVIEW", !.submittedRun = r.no, !.submittedBy = p]
    <2>1. row.status # "DRAFT" /\ l.version = row.version
      BY <1>1, <1>14 DEF SubmitForReview, Row
    <2> DEFINE w == [Loaded(l) EXCEPT !.writes = TRUE]
    <2>2. Begin(q, w)
      BY <1>14 DEF SubmitForReview
    <2> HIDE DEF l
    <2>3. w.seen = row /\ w.row = l /\ w.runs = {} /\ w.view = NoView
      BY <1>3
    <2> HIDE DEF w
    <2> QED BY <1>2, <2>1, <2>2, <2>3
  <1>15. ASSUME NEW p \in Accounts, NEW r \in runs, DesignateFinal(q, p, r) PROVE HandlesView(tx'[q])
    <2> DEFINE l == [row EXCEPT !.status = "FINAL", !.finalRun = r.no, !.signer = p]
    <2>1. row.status # "DRAFT" /\ l.version = row.version
      BY <1>1, <1>15 DEF DesignateFinal, Row
    <2>2. Begin(q, Loaded(l))
      BY <1>15 DEF DesignateFinal
    <2> HIDE DEF l
    <2> QED BY <1>2, <1>3, <2>1, <2>2
  <1>16. ASSUME NEW r \in runs, VoidRun(q, r) PROVE HandlesView(tx'[q])
    <2> DEFINE l == IF row.status = "IN_REVIEW" /\ r.no = row.submittedRun THEN Withdrawn(row) ELSE row
               w == [Loaded(l) EXCEPT !.voids = {r}]
    <2>1. l.version = row.version /\ (row.status = "DRAFT" => l.status = "DRAFT")
      BY <1>4
    <2>2. Begin(q, w)
      BY <1>16 DEF VoidRun
    <2> HIDE DEF l
    <2>3. w.seen = row /\ w.row = l /\ w.runs = {} /\ w.view = NoView
      BY <1>3
    <2> HIDE DEF w
    <2> QED BY <1>2, <2>1, <2>2, <2>3
  <1> QED BY <1>5, <1>6, <1>7, <1>8, <1>9, <1>10, <1>11, <1>12, <1>13, <1>14, <1>15, <1>16 DEF Handle

\* A request begins with what is on file.
LEMMA BeginKeepsHeld ==
  ASSUME Rows, Held, NEW q \in Requests, Handle(q)
  PROVE  Held'
  <1>1. PICK w \in Work : Begin(q, w) /\ row # Gone
    BY HandlersStart DEF Started
  <1>2. tx'[q] = w /\ (\A c \in Requests : c # q => tx'[c] = tx[c]) /\ UNCHANGED <<row, view, runs, versions>>
    BY <1>1 DEF Begin, Rows, TypeOK
  <1>3. HandlesView(w)
    BY <1>2, HandlersHandleViews DEF Rows
  <1>4. Carries(w)
    BY <1>1, <1>3 DEF HandlesView, Carries, Held, Backed
  <1>5. ASSUME NEW c \in Requests, tx'[c] # Idle PROVE Carries(tx[c])'
    <2>1. Carries(tx'[c])
      BY <1>1, <1>2, <1>4, <1>5 DEF Held
    <2> QED BY <1>2, <2>1 DEF Carries, Backed, ReadsVersion
  <1> QED BY <1>1, <1>2, <1>5 DEF Held, Backed, ReadsVersion

\* A launch reads the view its row's version was cut from, a freeze cuts its version from the view it reads.
LEMMA ReadsKeepHeld ==
  ASSUME Rows, Held, NEW q \in Requests, ReadForLaunch(q) \/ ReadForFreeze(q)
  PROVE  Held'
  <1> DEFINE t == tx[q]
  <1>1. UNCHANGED <<row, view, runs, versions>>
    BY DEF ReadForLaunch, ReadForFreeze
  <1>2. t \in Work /\ t # Idle /\ tx \in [Requests -> Work \cup {Idle}]
    BY DEF Rows, TypeOK, ReadForLaunch, ReadForFreeze, Work, Idle
  <1>3. \A c \in Requests : c # q => tx'[c] = tx[c]
    BY <1>2 DEF ReadForLaunch, ReadForFreeze
  <1>4. ASSUME row # Gone PROVE Carries(tx'[q])
    <2>1. Carries(t)
      BY <1>2, <1>4 DEF Held
    <2>2. CASE ReadForLaunch(q)
      <3> DEFINE r == [no |-> NextNumber(runs), version |-> t.seen.version, view |-> view, voided |-> FALSE]
      <3>1. /\ tx'[q].runs = {r} /\ tx'[q].seen = t.seen /\ tx'[q].row = t.row /\ tx'[q].view = t.view
            /\ tx'[q].writes = t.writes /\ t.seen.status # "DRAFT"
        BY <1>2, <2>2 DEF ReadForLaunch, WithRun, Work
      <3>2. ReadsVersion(r, versions)
        BY <2>1, <3>1 DEF Carries, Backed, ReadsVersion
      <3> HIDE DEF r, t
      <3> QED BY <2>1, <3>1, <3>2 DEF Carries
    <2>3. CASE ReadForFreeze(q)
      <3> DEFINE v == [no |-> NextNumber(versions), view |-> view]
      <3>1. /\ tx'[q].versions = {v} /\ tx'[q].seen = t.seen /\ tx'[q].row.version = v.no
            /\ tx'[q].view = t.view /\ tx'[q].writes = t.writes /\ tx'[q].runs = t.runs
            /\ t.seen.status = "DRAFT"
        BY <1>2, <2>3 DEF ReadForFreeze, WithVersion, Work, Row
      <3>2. Backed(tx'[q].row, tx'[q].versions)
        BY <3>1 DEF Backed
      <3> HIDE DEF v, t
      <3> QED BY <2>1, <3>1, <3>2 DEF Carries
    <2> QED BY <2>2, <2>3
  <1>5. ASSUME NEW c \in Requests, tx'[c] # Idle, row # Gone PROVE Carries(tx[c])'
    <2>1. Carries(tx'[c])
      BY <1>2, <1>3, <1>4, <1>5 DEF Held
    <2> QED BY <1>1, <2>1 DEF Carries, Backed, ReadsVersion
  <1> QED BY <1>1, <1>5 DEF Held, Backed, ReadsVersion

\* A commit that leaves the view adds a version at most; one that edits it has nothing beside it.
LEMMA CommitKeepsHeld ==
  ASSUME Tables, Held, EditsAlone, NEW q \in Requests, Commit(q)
  PROVE  Held'
  <1> DEFINE t == tx[q]
  <1>1. t \in Work /\ t # Idle /\ t.stage = "READY" /\ tx \in [Requests -> Work \cup {Idle}] /\ row # Gone
    BY DEF Tables, Rows, TypeOK, Commit, Work, Idle
  <1>2. Carries(t)
    BY <1>1 DEF Held
  <1>3. \A c \in Requests : tx'[c] # Idle => c # q /\ tx'[c] = tx[c]
    BY <1>1 DEF Commit
  <1>4. CASE t.deletes
    BY <1>1, <1>4 DEF Commit, Held, Work
  <1>5. CASE ~t.deletes
    <2>1. /\ row' = IF t.writes THEN t.row ELSE row
          /\ versions' = versions \cup t.versions
          /\ runs' = Voided(runs, t.voids) \cup t.runs
          /\ view' = IF t.view = NoView THEN view ELSE t.view
      BY <1>1, <1>5 DEF Commit, Voided, Work
    <2>2. row' # Gone => row' = t.row \/ row' = row
      BY <2>1
    <2>3. \A r \in runs' : ReadsVersion(r, versions')
      <3>1. versions \subseteq versions' /\ \A r \in runs \cup t.runs : ReadsVersion(r, versions)
        BY <1>2, <2>1 DEF Held, Carries
      <3>2. \A r \in runs \cup t.runs : ReadsVersion(r, versions')
        BY <3>1 DEF ReadsVersion
      <3>3. ASSUME NEW v \in t.voids PROVE ReadsVersion([v EXCEPT !.voided = TRUE], versions')
        <4> DEFINE x == [v EXCEPT !.voided = TRUE]
        <4>1. x.version = v.version /\ x.view = v.view
          BY <1>1 DEF Work, Run
        <4>2. v \in runs \/ x \in runs
          BY <1>1 DEF Tables, InFlight, OnFile
        <4> HIDE DEF x
        <4>3. ReadsVersion(x, versions')
          BY <3>2, <4>1, <4>2 DEF ReadsVersion
        <4> QED BY <4>3 DEF x
      <3> QED BY <2>1, <3>2, <3>3 DEF Voided
    <2>4. CASE t.view # NoView
      <3>1. row' = row /\ row.status = "DRAFT"
        BY <1>2, <2>1, <2>4 DEF Carries
      <3>2. \A c \in Requests : tx'[c] = Idle
        BY <1>1, <1>3, <2>4 DEF EditsAlone
      <3>3. row' # Gone => Backed(row, versions)'
        BY <3>1 DEF Backed
      <3> QED BY <2>3, <3>2, <3>3 DEF Held
    <2>5. CASE t.view = NoView
      <3>1. view' = view /\ versions \subseteq versions' /\ t.versions \subseteq versions'
        BY <2>1, <2>5
      <3>2. row' # Gone => Backed(row, versions)'
        <4>1. CASE t.writes
          BY <1>1, <1>2, <2>1, <3>1, <4>1 DEF Carries, Backed
        <4>2. CASE ~t.writes
          BY <1>1, <2>1, <3>1, <4>2 DEF Held, Backed
        <4> QED BY <4>1, <4>2
      <3>3. ASSUME NEW c \in Requests, tx'[c] # Idle PROVE Carries(tx[c])'
        <4>1. c # q /\ tx'[c] = tx[c] /\ tx[c] # Idle
          BY <1>3, <3>3
        <4>2. Carries(tx[c])
          BY <1>1, <4>1 DEF Held
        <4>3. tx[c].view = NoView
          BY <1>1, <4>1 DEF EditsAlone
        <4> QED BY <3>1, <4>1, <4>2, <4>3 DEF Carries, Backed, ReadsVersion
      <3> QED BY <2>3, <3>2, <3>3 DEF Held
    <2> QED BY <2>4, <2>5
  <1> QED BY <1>4, <1>5

\* Every step keeps that, while the edits keep to themselves.
LEMMA HeldStep == Tables /\ Held /\ EditsAlone /\ [Next]_vars => Held'
  <1> SUFFICES ASSUME Tables, Held, EditsAlone, [Next]_vars PROVE Held'
    OBVIOUS
  <1>1. Rows
    BY DEF Tables
  <1>2. ASSUME NEW q \in Requests, Abort(q) PROVE Held'
    <2>1. \A c \in Requests : tx'[c] # Idle => tx'[c] = tx[c]
      BY <1>1, <1>2 DEF Abort, Rows, TypeOK
    <2>2. UNCHANGED <<row, view, runs, versions>>
      BY <1>2 DEF Abort
    <2>3. ASSUME NEW c \in Requests, tx'[c] # Idle, row # Gone PROVE Carries(tx[c])'
      <3>1. Carries(tx[c]) /\ tx'[c] = tx[c]
        BY <2>1, <2>3 DEF Held
      <3> QED BY <2>2, <3>1 DEF Carries, Backed, ReadsVersion
    <2> QED BY <2>2, <2>3 DEF Held, Backed, ReadsVersion
  <1>3. CASE UNCHANGED vars
    BY <1>3 DEF vars, Held, Carries, Backed, ReadsVersion
  <1> QED BY <1>1, <1>2, <1>3, BeginKeepsHeld, ReadsKeepHeld, CommitKeepsHeld DEF Next

\* A run's lines come from the view its boundary version was cut from.
RunsReadVersions == \A r \in runs : ReadsVersion(r, versions)

\* A run reads its version (specs 05.1, 05.2) however freezes, launches, reopens and the other requests overlap,
\* while nothing overlaps an edit of the view: the second reads of freeze and launchRun are safe but for an
\* edit whose check that the inventory is a draft came before the freeze.
THEOREM RunsReadVersionsWhereEditsAreAlone == Spec /\ []EditsAlone => []RunsReadVersions
  <1>1. Init => Held
    BY DEF Init, Held, Backed
  <1>2. Held => RunsReadVersions
    BY DEF Held, RunsReadVersions
  <1> QED BY <1>1, <1>2, HeldStep, InitTables, TablesStep, PTL DEF Spec

-----------------------------------------------------------------------------
(* The sign-off workflow. *)

\* The case stays, is taken back, put forward, signed or issued.
CaseMoves(from, to) ==
  \/ to = from
  \/ from.stage \in {"PUT", "SIGNED"} /\ to = Workflow!Open
  \/ /\ from.stage \in {"OPEN", "PUT"}
     /\ \E n \in 1..MaxRuns, p \in Accounts : to = [stage |-> "PUT", run |-> n, by |-> p, signer |-> NoOne]
  \/ /\ from.stage = "PUT"
     /\ \E p \in Accounts : to = [stage |-> "SIGNED", run |-> from.run, by |-> from.by, signer |-> p]
  \/ from.stage = "SIGNED" /\ to = [from EXCEPT !.stage = "ISSUED"]

\* What a request that neither launches nor voids decided; only a freeze of these reads a second time.
Moves(w) ==
  /\ w.runs = {} /\ w.voids = {}
  /\ w.stage = "READ" => w.seen.status = "DRAFT" /\ w.writes
  /\ CaseMoves(caseOf(w.seen), caseOf(w.row))

\* A launch takes back what is in review, and inserts one run once it has read for it.
Launches(w) ==
  /\ w.voids = {}
  /\ w.seen.status \in {"FROZEN", "IN_REVIEW", "FINAL"}
  /\ w.stage = "READY" => \E r \in Run : w.runs = {r} /\ ~r.voided
  /\ caseOf(w.row) = IF w.seen.status = "IN_REVIEW" THEN Workflow!Open ELSE caseOf(w.seen)

\* A void takes back the run that is put forward and leaves the signed one.
VoidsOne(w) ==
  LET from == caseOf(w.seen) IN
  /\ w.runs = {} /\ w.stage = "READY"
  /\ w.seen.status # "PUBLISHED"
  /\ \E r \in Run :
       /\ w.voids = {r} /\ ~r.voided
       /\ from.stage = "SIGNED" => from.run # r.no
       /\ caseOf(w.row) = IF from.run = r.no THEN Workflow!Open ELSE from

\* What a request decided on the row it loaded.
Decided(w) ==
  /\ ~w.writes => w.row = w.seen
  /\ w.deletes => w.seen.status # "PUBLISHED"
  /\ Moves(w) \/ Launches(w) \/ VoidsOne(w)

\* The run a row puts forward is on file.
Named(r) == r.submittedRun \in Numbers(runs) \cup {NoNumber}

Decisions ==
  /\ Tables
  /\ \A q \in Requests : tx[q] # Idle => Decided(tx[q])
  /\ row # Gone => Named(row) /\ \A q \in Requests : tx[q] # Idle => Named(tx[q].row)

\* A row that puts nothing forward is an open case.
LEMMA OpenCase ==
  ASSUME NEW r \in Row, Whole(r), r.status \in {"DRAFT", "FROZEN"}
  PROVE  caseOf(r) = Workflow!Open
  BY DEF caseOf, stageOf, Workflow!Open, Row, Status, Whole, NoNumber

\* So is one withdrawn.
LEMMA WithdrawnOpen ==
  ASSUME NEW r \in Row, Whole(r), r.status \in {"FROZEN", "IN_REVIEW"}
  PROVE  caseOf(Withdrawn(r)) = Workflow!Open
  <1>1. Withdrawn(r).status = "FROZEN"
    BY DEF Withdrawn, Row
  <1> QED BY <1>1, WithdrawnWhole, OpenCase

\* The units of work that handlers begin with.
LEMMA LoadedFields ==
  ASSUME NEW l
  PROVE  /\ LET w == Loaded(l) IN
              /\ w.seen = row /\ w.row = l /\ w.runs = {} /\ w.voids = {} /\ ~w.deletes
              /\ w.stage = "READY" /\ (~w.writes => l = row)
         /\ LET w == [Loaded(l) EXCEPT !.writes = TRUE] IN
              /\ w.seen = row /\ w.row = l /\ w.runs = {} /\ w.voids = {} /\ ~w.deletes
              /\ w.stage = "READY" /\ w.writes
         /\ LET w == [Loaded(l) EXCEPT !.deletes = TRUE] IN
              /\ w.seen = row /\ w.row = l /\ w.runs = {} /\ w.voids = {} /\ w.deletes
              /\ w.stage = "READY" /\ (~w.writes => l = row)
         /\ LET w == [Loaded(l) EXCEPT !.stage = "READ"] IN
              /\ w.seen = row /\ w.row = l /\ w.runs = {} /\ w.voids = {} /\ ~w.deletes
              /\ w.stage = "READ" /\ (w.writes <=> l # row)
         /\ \A v : LET w == [Loaded(l) EXCEPT !.view = v] IN
              /\ w.seen = row /\ w.row = l /\ w.runs = {} /\ w.voids = {} /\ ~w.deletes
              /\ w.stage = "READY" /\ (~w.writes => l = row)
         /\ \A r : LET w == [Loaded(l) EXCEPT !.voids = {r}] IN
              /\ w.seen = row /\ w.row = l /\ w.runs = {} /\ w.voids = {r} /\ ~w.deletes
              /\ w.stage = "READY" /\ (~w.writes => l = row)
  BY DEF Loaded

\* Every handler decides so.
LEMMA HandlersDecide ==
  ASSUME Tables, NEW q \in Requests, Handle(q)
  PROVE  Decided(tx'[q])
  <1>0. row # Gone
    BY DEF Handle, Update, Delete, Freeze, Reopen, LaunchRun, ReturnToPreparer, WithdrawFinal, Publish,
           EditView, VoidRun, SubmitForReview, DesignateFinal
  <1>1. row \in Row /\ Whole(row)
    BY <1>0 DEF Tables, Rows, TypeOK
  <1>2. \A r \in runs : r \in Run /\ r.no \in 1..MaxRuns /\ r.no # NoNumber
    BY BoundAssumption DEF Tables, Rows, TypeOK, Run, NoNumber
  <1>3. ASSUME NEW w, Begin(q, w) PROVE tx'[q] = w
    BY <1>3 DEF Begin, Tables, Rows, TypeOK
  \* A handler that takes the case back, or leaves it.
  <1>4. ASSUME NEW w, Begin(q, w), w.seen = row, w.runs = {}, w.voids = {}, ~w.writes => w.row = row,
               w.deletes => row.status # "PUBLISHED", w.stage = "READ" => row.status = "DRAFT" /\ w.writes,
               \/ caseOf(w.row) = caseOf(row)
               \/ row.status \in {"IN_REVIEW", "FINAL"} /\ caseOf(w.row) = Workflow!Open
        PROVE  Decided(tx'[q])
    <2>1. tx'[q] = w
      BY <1>3, <1>4
    <2>2. caseOf(row).stage = stageOf(row.status)
      BY DEF caseOf
    <2>3. row.status \in {"IN_REVIEW", "FINAL"} => stageOf(row.status) \in {"PUT", "SIGNED"}
      BY DEF stageOf
    <2>4. Moves(w)
      BY <1>4, <2>2, <2>3 DEF Moves, CaseMoves
    <2> QED BY <1>4, <2>1, <2>4 DEF Decided
  <1>5. CASE Update(q) \/ Delete(q) \/ \E v \in Views : EditView(q, v)
    <2>1. CASE Update(q)
      <3> DEFINE w == [Loaded(row) EXCEPT !.writes = TRUE]
      <3>1. Begin(q, w)
        BY <2>1 DEF Update
      <3>2. w.seen = row /\ w.row = row /\ w.runs = {} /\ w.voids = {} /\ ~w.deletes /\ w.stage = "READY"
        BY LoadedFields
      <3> HIDE DEF w
      <3> QED BY <1>4, <3>1, <3>2
    <2>2. CASE Delete(q)
      <3> DEFINE w == [Loaded(row) EXCEPT !.deletes = TRUE]
      <3>1. Begin(q, w) /\ row.status # "PUBLISHED"
        BY <2>2 DEF Delete
      <3>2. w.seen = row /\ w.row = row /\ w.runs = {} /\ w.voids = {} /\ w.stage = "READY"
        BY LoadedFields
      <3> HIDE DEF w
      <3> QED BY <1>4, <3>1, <3>2
    <2>3. ASSUME NEW v \in Views, EditView(q, v) PROVE Decided(tx'[q])
      <3> DEFINE w == [Loaded(row) EXCEPT !.view = v]
      <3>1. Begin(q, w)
        BY <2>3 DEF EditView
      <3>2. w.seen = row /\ w.row = row /\ w.runs = {} /\ w.voids = {} /\ ~w.deletes /\ w.stage = "READY"
        BY LoadedFields
      <3> HIDE DEF w
      <3> QED BY <1>4, <3>1, <3>2
    <2> QED BY <1>5, <2>1, <2>2, <2>3
  <1>6. CASE Freeze(q)
    <2> DEFINE l == [row EXCEPT !.status = "FROZEN"]
               w == [Loaded(l) EXCEPT !.stage = "READ"]
    <2>1. row.status = "DRAFT" /\ Begin(q, w)
      BY <1>6 DEF Freeze
    <2>2. l \in Row /\ Whole(l) /\ l.status = "FROZEN"
      BY <1>1, <2>1 DEF Row, Status, Whole
    <2> HIDE DEF l
    <2>3. caseOf(l) = caseOf(row) /\ l # row
      BY <1>1, <2>1, <2>2, OpenCase
    <2>4. w.seen = row /\ w.row = l /\ w.runs = {} /\ w.voids = {} /\ ~w.deletes /\ (w.writes <=> l # row)
      BY LoadedFields
    <2> HIDE DEF w
    <2> QED BY <1>4, <2>1, <2>3, <2>4
  <1>7. CASE Reopen(q)
    <2> DEFINE l == [Withdrawn(row) EXCEPT !.status = "DRAFT"]
               w == Loaded(l)
    <2>1. row.status \in {"FROZEN", "IN_REVIEW"} /\ Begin(q, w)
      BY <1>7 DEF Reopen
    <2>2. caseOf(l) = Workflow!Open
      <3>1. l \in Row /\ Whole(l) /\ l.status = "DRAFT"
        BY <1>1, <2>1 DEF Withdrawn, Row, Status, Whole, NoNumber
      <3> HIDE DEF l
      <3> QED BY <3>1, OpenCase
    <2>3. row.status = "FROZEN" => caseOf(row) = Workflow!Open
      BY <1>1, OpenCase
    <2> HIDE DEF l
    <2>4. w.seen = row /\ w.row = l /\ w.runs = {} /\ w.voids = {} /\ ~w.deletes /\ (~w.writes => l = row)
            /\ w.stage = "READY"
      BY LoadedFields
    <2> HIDE DEF w
    <2> QED BY <1>4, <2>1, <2>2, <2>3, <2>4
  <1>8. CASE LaunchRun(q)
    <2> DEFINE l == IF row.status = "IN_REVIEW" THEN Withdrawn(row) ELSE row
               w == [Loaded(l) EXCEPT !.stage = "READ"]
    <2>1. row.status \in {"FROZEN", "IN_REVIEW", "FINAL"} /\ Begin(q, w)
      BY <1>8 DEF LaunchRun
    <2>2. caseOf(l) = IF row.status = "IN_REVIEW" THEN Workflow!Open ELSE caseOf(row)
      BY <1>1, WithdrawnOpen
    <2> HIDE DEF l
    <2>3. w.seen = row /\ w.row = l /\ w.runs = {} /\ w.voids = {} /\ ~w.deletes /\ (~w.writes => l = row)
            /\ w.stage = "READ"
      BY LoadedFields
    <2> HIDE DEF w
    <2>4. Launches(w)
      BY <2>1, <2>2, <2>3 DEF Launches
    <2> QED BY <1>3, <2>1, <2>3, <2>4 DEF Decided
  <1>9. CASE ReturnToPreparer(q)
    <2> DEFINE l == Withdrawn(row)
               w == Loaded(l)
    <2>1. row.status = "IN_REVIEW" /\ Begin(q, w)
      BY <1>9 DEF ReturnToPreparer
    <2>2. caseOf(l) = Workflow!Open
      BY <1>1, <2>1, WithdrawnOpen
    <2> HIDE DEF l
    <2>3. w.seen = row /\ w.row = l /\ w.runs = {} /\ w.voids = {} /\ ~w.deletes /\ (~w.writes => l = row)
            /\ w.stage = "READY"
      BY LoadedFields
    <2> HIDE DEF w
    <2> QED BY <1>4, <2>1, <2>2, <2>3
  <1>10. CASE WithdrawFinal(q)
    <2> DEFINE l == [Withdrawn(row) EXCEPT !.finalRun = NoNumber, !.signer = NoOne]
               w == Loaded(l)
    <2>1. row.status = "FINAL" /\ Begin(q, w)
      BY <1>10 DEF WithdrawFinal
    <2>2. caseOf(l) = Workflow!Open
      <3>1. NoNumber \in 0..MaxRuns
        BY BoundAssumption DEF NoNumber
      <3>2. l \in Row /\ Whole(l) /\ l.status = "FROZEN"
        BY <1>1, <3>1 DEF Withdrawn, Row, Status, Whole
      <3> HIDE DEF l
      <3> QED BY <3>2, OpenCase
    <2> HIDE DEF l
    <2>3. w.seen = row /\ w.row = l /\ w.runs = {} /\ w.voids = {} /\ ~w.deletes /\ (~w.writes => l = row)
            /\ w.stage = "READY"
      BY LoadedFields
    <2> HIDE DEF w
    <2> QED BY <1>4, <2>1, <2>2, <2>3
  \* The three handlers that put the case forward, sign it and issue it.
  <1>11. ASSUME NEW w, Begin(q, w), w.seen = row, w.runs = {}, w.voids = {}, ~w.writes => w.row = row,
                ~w.deletes, w.stage = "READY", CaseMoves(caseOf(row), caseOf(w.row))
         PROVE  Decided(tx'[q])
    <2>1. tx'[q] = w
      BY <1>3, <1>11
    <2>2. Moves(w)
      BY <1>11 DEF Moves
    <2> QED BY <1>11, <2>1, <2>2 DEF Decided
  <1>12. CASE Publish(q)
    <2> DEFINE l == [row EXCEPT !.status = "PUBLISHED"]
               w == Loaded(l)
    <2>1. row.status = "FINAL" /\ Begin(q, w)
      BY <1>12 DEF Publish
    <2>2. caseOf(row).stage = "SIGNED" /\ caseOf(l) = [caseOf(row) EXCEPT !.stage = "ISSUED"]
      BY <1>1, <2>1 DEF caseOf, stageOf, Row, Status
    <2> HIDE DEF l
    <2>3. w.seen = row /\ w.row = l /\ w.runs = {} /\ w.voids = {} /\ ~w.deletes /\ (~w.writes => l = row)
            /\ w.stage = "READY"
      BY LoadedFields
    <2> HIDE DEF w
    <2> QED BY <1>11, <2>1, <2>2, <2>3 DEF CaseMoves
  <1>13. ASSUME NEW p \in Accounts, NEW r \in runs, SubmitForReview(q, p, r) PROVE Decided(tx'[q])
    <2> DEFINE l == [row EXCEPT !.status = "IN_REVIEW", !.submittedRun = r.no, !.submittedBy = p]
               w == [Loaded(l) EXCEPT !.writes = TRUE]
    <2>1. row.status \in {"FROZEN", "IN_REVIEW"} /\ Begin(q, w)
      BY <1>13 DEF SubmitForReview
    <2>2. row.signer = NoOne
      BY <1>1, <2>1 DEF Whole
    <2>3. /\ caseOf(row).stage \in {"OPEN", "PUT"}
          /\ caseOf(l) = [stage |-> "PUT", run |-> r.no, by |-> p, signer |-> NoOne]
      BY <1>1, <2>1, <2>2 DEF caseOf, stageOf, Row, Status
    <2>4. r.no \in 1..MaxRuns
      BY <1>2
    <2> HIDE DEF l
    <2>5. w.seen = row /\ w.row = l /\ w.runs = {} /\ w.voids = {} /\ ~w.deletes /\ w.writes
            /\ w.stage = "READY"
      BY LoadedFields
    <2> HIDE DEF w
    <2> QED BY <1>11, <2>1, <2>3, <2>4, <2>5 DEF CaseMoves
  <1>14. ASSUME NEW p \in Accounts, NEW r \in runs, DesignateFinal(q, p, r) PROVE Decided(tx'[q])
    <2> DEFINE l == [row EXCEPT !.status = "FINAL", !.finalRun = r.no, !.signer = p]
               w == Loaded(l)
    <2>1. row.status = "IN_REVIEW" /\ r.no = row.submittedRun /\ Begin(q, w)
      BY <1>14 DEF DesignateFinal
    <2>2. /\ caseOf(row).stage = "PUT"
          /\ caseOf(l) = [stage |-> "SIGNED", run |-> caseOf(row).run, by |-> caseOf(row).by, signer |-> p]
      BY <1>1, <2>1 DEF caseOf, stageOf, Row, Status
    <2> HIDE DEF l
    <2>3. w.seen = row /\ w.row = l /\ w.runs = {} /\ w.voids = {} /\ ~w.deletes /\ (~w.writes => l = row)
            /\ w.stage = "READY"
      BY LoadedFields
    <2> HIDE DEF w
    <2> QED BY <1>11, <2>1, <2>2, <2>3 DEF CaseMoves
  <1>15. ASSUME NEW r \in runs, VoidRun(q, r) PROVE Decided(tx'[q])
    <2> DEFINE l == IF row.status = "IN_REVIEW" /\ r.no = row.submittedRun THEN Withdrawn(row) ELSE row
               w == [Loaded(l) EXCEPT !.voids = {r}]
    <2>1. row.status # "PUBLISHED" /\ r.no # row.finalRun /\ ~r.voided /\ Begin(q, w)
      BY <1>15 DEF VoidRun
    <2>2. caseOf(row).stage = "SIGNED" => caseOf(row).run # r.no
      BY <1>1, <2>1 DEF caseOf, stageOf, Row, Status
    <2>3. caseOf(l) = IF caseOf(row).run = r.no THEN Workflow!Open ELSE caseOf(row)
      <3>1. CASE row.status = "IN_REVIEW"
        <4>1. caseOf(row).run = row.submittedRun
          BY <3>1 DEF caseOf
        <4> QED BY <1>1, <3>1, <4>1, WithdrawnOpen
      <3>2. CASE row.status # "IN_REVIEW"
        <4>1. caseOf(row).run # r.no
          BY <1>1, <1>2, <2>1, <3>2 DEF caseOf, Whole, Row, Status
        <4> QED BY <3>2, <4>1
      <3> QED BY <3>1, <3>2
    <2>4. r \in Run
      BY <1>2
    <2> HIDE DEF l
    <2>5. w.seen = row /\ w.row = l /\ w.runs = {} /\ w.voids = {r} /\ ~w.deletes /\ (~w.writes => l = row)
            /\ w.stage = "READY"
      BY LoadedFields
    <2> HIDE DEF w
    <2>6. VoidsOne(w)
      BY <2>1, <2>2, <2>3, <2>4, <2>5 DEF VoidsOne
    <2> QED BY <1>3, <2>1, <2>5, <2>6 DEF Decided
  <1> QED BY <1>5, <1>6, <1>7, <1>8, <1>9, <1>10, <1>12, <1>13, <1>14, <1>15 DEF Handle

\* The second reads leave the case that was decided, and give a launch its run.
LEMMA ReadsDecide ==
  ASSUME Rows, NEW q \in Requests, ReadForLaunch(q) \/ ReadForFreeze(q), Decided(tx[q])
  PROVE  Decided(tx'[q]) /\ tx'[q].row.submittedRun = tx[q].row.submittedRun
  <1> DEFINE t == tx[q]
  <1>1. tx \in [Requests -> Work \cup {Idle}] /\ t \in Work /\ t.stage = "READ"
    BY DEF Rows, TypeOK, ReadForLaunch, ReadForFreeze, Work, Idle
  <1>2. t.seen \in Row /\ t.row \in Row
    BY <1>1 DEF Work
  <1>3. CASE ReadForLaunch(q)
    <2> DEFINE r == [no |-> NextNumber(runs), version |-> t.seen.version, view |-> view, voided |-> FALSE]
               w == WithRun(t, NextNumber(runs), view)
    <2>1. t.seen.status # "DRAFT" /\ tx'[q] = w
      BY <1>1, <1>3 DEF ReadForLaunch
    <2>2. Launches(t)
      BY <1>1, <2>1 DEF Decided, Moves, VoidsOne
    <2>3. r \in Run /\ ~r.voided
      <3>1. NextNumber(runs) \in 1..MaxRuns
        BY <1>3, NextNumberFollows, BoundAssumption DEF ReadForLaunch
      <3> QED BY <1>2, <3>1 DEF Run, Row, Rows, TypeOK
    <2>4. /\ w.seen = t.seen /\ w.row = t.row /\ w.writes = t.writes /\ w.deletes = t.deletes
          /\ w.voids = t.voids /\ w.runs = {r}
      BY <1>1 DEF WithRun, Work
    <2> HIDE DEF w, t, r
    <2>5. Launches(w)
      BY <2>2, <2>3, <2>4 DEF Launches
    <2> QED BY <2>1, <2>4, <2>5 DEF Decided, t
  <1>4. CASE ReadForFreeze(q)
    <2> DEFINE w == WithVersion(t, NextNumber(versions))
    <2>1. t.seen.status = "DRAFT" /\ tx'[q] = w
      BY <1>1, <1>4 DEF ReadForFreeze
    <2>2. Moves(t)
      BY <1>1, <2>1 DEF Decided, Launches, VoidsOne
    <2>3. /\ w.seen = t.seen /\ w.writes = t.writes /\ w.deletes = t.deletes /\ w.voids = t.voids
          /\ w.runs = t.runs /\ w.stage = "READY" /\ w.row = [t.row EXCEPT !.version = NextNumber(versions)]
      BY <1>1 DEF WithVersion, Work
    <2>4. caseOf(w.row) = caseOf(t.row) /\ w.row.submittedRun = t.row.submittedRun
      BY <1>2, <2>3 DEF caseOf, Row
    <2>5. t.writes
      BY <1>1, <2>2 DEF Moves
    <2> HIDE DEF w, t
    <2>6. Moves(w)
      BY <2>1, <2>2, <2>3, <2>4 DEF Moves
    <2> QED BY <2>1, <2>3, <2>4, <2>5, <2>6 DEF Decided, t
  <1> QED BY <1>3, <1>4

\* A commit that deletes nothing keeps every number on file.
LEMMA NumbersStay ==
  ASSUME Tables, NEW q \in Requests, Commit(q), ~tx[q].deletes
  PROVE  Numbers(runs) \subseteq Numbers(runs')
  <1> DEFINE t == tx[q]
  <1>1. t # Idle /\ row # Gone
    BY DEF Commit, Idle
  <1>2. OnFile(t.voids, runs)
    BY <1>1 DEF Tables, InFlight
  <1>3. Numbers(Voided(runs, t.voids)) = Numbers(runs)
    BY <1>2, VoidDense DEF Tables
  <1>4. runs' = Voided(runs, t.voids) \cup t.runs
    BY DEF Commit, Voided
  <1> QED BY <1>3, <1>4 DEF Numbers

\* Every step keeps what the requests decided, and the run each row puts forward on file.
LEMMA DecisionsStep == Decisions /\ [Next]_vars => Decisions'
  <1> SUFFICES ASSUME Decisions, [Next]_vars PROVE Decisions'
    OBVIOUS
  <1>1. Tables /\ Tables' /\ Rows /\ tx \in [Requests -> Work \cup {Idle}]
    BY TablesStep DEF Decisions, Tables, Rows, TypeOK
  \* A step that leaves the row and the runs alone, and gives one request a unit of work.
  <1>2. ASSUME NEW q \in Requests, \A c \in Requests : c # q => tx'[c] = tx[c],
               tx'[q] # Idle => Decided(tx'[q]) /\ (row # Gone => Named(tx'[q].row)),
               UNCHANGED <<row, runs>>
        PROVE  Decisions'
    <2>1. \A r : Named(r)' <=> Named(r')
      BY <1>2 DEF Named
    <2>2. ASSUME NEW c \in Requests, tx'[c] # Idle PROVE Decided(tx'[c]) /\ (row # Gone => Named(tx'[c].row))
      BY <1>2, <2>2 DEF Decisions
    <2> QED BY <1>1, <1>2, <2>2 DEF Decisions, Named
  <1>3. ASSUME NEW q \in Requests, Handle(q) PROVE Decisions'
    <2>1. PICK w \in Work : Begin(q, w) /\ row # Gone
      BY <1>1, <1>3, HandlersStart DEF Started
    <2>2. UNCHANGED <<row, runs>> /\ \A c \in Requests : c # q => tx'[c] = tx[c]
      BY <1>1, <2>1 DEF Begin
    <2>3. Decided(tx'[q])
      BY <1>1, <1>3, HandlersDecide
    <2>4. Named(tx'[q].row)
      <3>1. HandlesRun(tx'[q])
        BY <1>1, <1>3, HandlersHandleRuns
      <3> QED BY <2>1, <3>1 DEF HandlesRun, Decisions, Named, Numbers
    <2> QED BY <1>2, <2>2, <2>3, <2>4
  <1>4. ASSUME NEW q \in Requests, ReadForLaunch(q) \/ ReadForFreeze(q) PROVE Decisions'
    <2>1. UNCHANGED <<row, runs>> /\ (\A c \in Requests : c # q => tx'[c] = tx[c]) /\ tx[q] # Idle
      BY <1>1, <1>4 DEF ReadForLaunch, ReadForFreeze, Idle
    <2>2. Decided(tx'[q]) /\ tx'[q].row.submittedRun = tx[q].row.submittedRun
      BY <1>1, <1>4, <2>1, ReadsDecide DEF Decisions
    <2>3. row # Gone => Named(tx'[q].row)
      BY <2>1, <2>2 DEF Decisions, Named
    <2> QED BY <1>2, <2>1, <2>2, <2>3
  <1>5. ASSUME NEW q \in Requests, Abort(q) PROVE Decisions'
    <2>1. UNCHANGED <<row, runs>> /\ (\A c \in Requests : c # q => tx'[c] = tx[c]) /\ tx'[q] = Idle
      BY <1>1, <1>5 DEF Abort
    <2> QED BY <1>2, <2>1
  <1>6. ASSUME NEW q \in Requests, Commit(q) PROVE Decisions'
    <2> DEFINE t == tx[q]
    <2>1. t \in Work /\ t # Idle /\ row # Gone
      BY <1>1, <1>6 DEF Commit, Work, Idle
    <2>2. ASSUME NEW c \in Requests, tx'[c] # Idle PROVE tx'[c] = tx[c]
      BY <1>1, <1>6, <2>2 DEF Commit
    <2>3. \A c \in Requests : tx'[c] # Idle => Decided(tx'[c])
      BY <2>2 DEF Decisions
    <2>4. CASE t.deletes
      BY <1>1, <1>6, <2>1, <2>3, <2>4 DEF Commit, Work, Decisions
    <2>5. CASE ~t.deletes
      <3>1. Numbers(runs) \subseteq Numbers(runs')
        BY <1>1, <1>6, <2>5, NumbersStay
      <3>2. row' \in {row, t.row}
        BY <1>6, <2>1, <2>5 DEF Commit, Work
      <3>3. Named(row)'
        BY <2>1, <3>1, <3>2 DEF Decisions, Named
      <3>4. ASSUME NEW c \in Requests, tx'[c] # Idle PROVE Named(tx[c].row)'
        BY <2>1, <2>2, <3>1, <3>4 DEF Decisions, Named
      <3> QED BY <1>1, <2>3, <3>3, <3>4 DEF Decisions
    <2> QED BY <2>4, <2>5
  <1>7. CASE UNCHANGED vars
    BY <1>1, <1>7 DEF vars, Decisions, Named
  <1> QED BY <1>3, <1>4, <1>5, <1>6, <1>7 DEF Next

LEMMA InitDecisions == Init => Decisions
  BY InitTables DEF Init, Decisions, Named

\* The case as a function of the one inventory, as the workflow reads it.
cases == [i \in {Here} |-> caseHere]

WorkflowStep == Workflow!Next \/ UNCHANGED <<soundRuns, cases>>

\* A case that changes changes the function.
LEMMA CaseBecomes ==
  ASSUME NEW c, caseHere' = c
  PROVE  /\ cases' = [cases EXCEPT ![Here] = c] /\ cases[Here] = caseHere
         /\ Workflow!TakenBack(Here) = [cases EXCEPT ![Here] = Workflow!Open]
  BY DEF cases, Workflow!TakenBack

\* A deletion drops the case with its runs.
LEMMA DeletionRefines ==
  ASSUME Decisions, NEW q \in Requests, Commit(q), tx[q].deletes, tx[q].seen = row
  PROVE  WorkflowStep
  <1> DEFINE t == tx[q]
  <1>1. t \in Work /\ t # Idle /\ row # Gone /\ row \in Row
    BY DEF Decisions, Tables, Rows, TypeOK, Commit, Work, Idle
  <1>2. row' = Gone /\ runs' = {}
    BY <1>1 DEF Commit, Work
  <1>3. caseHere' = Workflow!Open
    BY <1>2 DEF caseHere, Workflow!Open, NoNumber
  <1>4. caseHere.stage # "ISSUED"
    <2>1. row.status # "PUBLISHED"
      BY <1>1 DEF Decisions, Decided
    <2> QED BY <1>1, <2>1 DEF caseHere, caseOf, stageOf, Row, Status
  <1>5. soundRuns' = {s \in soundRuns : s[1] # Here}
    <2>1. soundRuns' = {}
      BY <1>2 DEF soundRuns
    <2>2. \A s \in soundRuns : s[1] = Here
      BY DEF soundRuns
    <2> QED BY <2>1, <2>2
  <1>6. Workflow!Drop(Here)
    BY <1>3, <1>4, <1>5, CaseBecomes DEF Workflow!Drop, cases
  <1> QED BY <1>6 DEF WorkflowStep, Workflow!Next

\* The case a commit leaves when it deletes nothing.
LEMMA CaseLeft ==
  ASSUME Decisions, NEW q \in Requests, Commit(q), ~tx[q].deletes, tx[q].seen = row
  PROVE  /\ tx[q] \in Work /\ tx[q] # Idle /\ row # Gone /\ row \in Row /\ Decided(tx[q])
         /\ caseHere = caseOf(row) /\ caseHere' = caseOf(tx[q].row)
         /\ runs' = Voided(runs, tx[q].voids) \cup tx[q].runs
  <1> DEFINE t == tx[q]
  <1>1. t \in Work /\ t # Idle /\ row # Gone /\ row \in Row /\ Decided(t)
    BY DEF Decisions, Tables, Rows, TypeOK, Commit, Work, Idle
  <1>2. row' = t.row
    BY <1>1 DEF Commit, Work, Decided
  <1>3. t.row \in Row
    BY <1>1 DEF Work
  <1>4. row' # Gone
    BY <1>2, <1>3, GoneAssumption
  <1> QED BY <1>1, <1>2, <1>4 DEF caseHere, Commit, Voided

\* A request that neither launches nor voids moves the case.
LEMMA MovesRefine ==
  ASSUME Decisions, Submissions, NEW q \in Requests, Commit(q), ~tx[q].deletes, tx[q].seen = row, Moves(tx[q])
  PROVE  WorkflowStep
  <1> DEFINE t == tx[q]
             from == caseOf(row)
             to == caseOf(t.row)
  <1>1. /\ t \in Work /\ t # Idle /\ row # Gone /\ Decided(t)
        /\ caseHere = from /\ caseHere' = to
    BY CaseLeft
  <1>2. runs' = runs
    BY CaseLeft DEF Moves, Voided
  <1>3. soundRuns' = soundRuns
    BY <1>2 DEF soundRuns
  <1>4. cases' = [cases EXCEPT ![Here] = to] /\ cases[Here] = from
          /\ Workflow!TakenBack(Here) = [cases EXCEPT ![Here] = Workflow!Open]
    BY <1>1, CaseBecomes
  <1>5. CaseMoves(from, to)
    BY DEF Moves
  <1>6. CASE to = from
    BY <1>1, <1>3, <1>6 DEF WorkflowStep, cases
  <1>7. ASSUME NEW n \in 1..MaxRuns, to.stage = "PUT", to.run = n, to # from
        PROVE  <<Here, n>> \in soundRuns
    <2>1. t.writes /\ t.row \in Row
      BY <1>1, <1>7 DEF Decided, Work
    <2>2. t.row.submittedRun = n
      BY <1>7, <2>1 DEF caseOf, stageOf, Row, Status
    <2>3. n # NoNumber
      BY BoundAssumption DEF NoNumber
    <2>4. PICK r \in runs : r.no = n
      BY <1>1, <2>2, <2>3 DEF Decisions, Named, Numbers
    <2>5. ~r.voided
      BY <1>1, <2>1, <2>2, <2>4 DEF Submissions, Upholds, Stands
    <2> QED BY <2>4, <2>5 DEF soundRuns
  <1> HIDE DEF from, to
  <1>8. CASE from.stage \in {"PUT", "SIGNED"} /\ to = Workflow!Open
    <2>1. Workflow!TakeBack(Here)
      BY <1>3, <1>4, <1>8 DEF Workflow!TakeBack, cases
    <2> QED BY <2>1 DEF WorkflowStep, Workflow!Next
  <1>9. ASSUME NEW n \in 1..MaxRuns, NEW p \in Accounts, from.stage \in {"OPEN", "PUT"}, to # from,
               to = [stage |-> "PUT", run |-> n, by |-> p, signer |-> NoOne]
        PROVE  WorkflowStep
    <2>1. Workflow!PutForward(Here, n, p)
      BY <1>3, <1>4, <1>7, <1>9 DEF Workflow!PutForward, cases
    <2> QED BY <2>1 DEF WorkflowStep, Workflow!Next
  <1>10. ASSUME NEW p \in Accounts, from.stage = "PUT",
                to = [stage |-> "SIGNED", run |-> from.run, by |-> from.by, signer |-> p]
         PROVE  WorkflowStep
    <2>1. Workflow!Sign(Here, p)
      BY <1>3, <1>4, <1>10 DEF Workflow!Sign, cases
    <2> QED BY <2>1 DEF WorkflowStep, Workflow!Next
  <1>11. CASE from.stage = "SIGNED" /\ to = [from EXCEPT !.stage = "ISSUED"]
    <2>1. Workflow!Issue(Here)
      BY <1>3, <1>4, <1>11 DEF Workflow!Issue, cases
    <2> QED BY <2>1 DEF WorkflowStep, Workflow!Next
  <1> QED BY <1>5, <1>6, <1>8, <1>9, <1>10, <1>11 DEF CaseMoves

\* A launch records a sound run under a number of its own.
LEMMA LaunchRefines ==
  ASSUME Decisions, NEW q \in Requests, Commit(q), ~tx[q].deletes, tx[q].seen = row, Launches(tx[q])
  PROVE  WorkflowStep
  <1> DEFINE t == tx[q]
  <1>1. /\ t \in Work /\ row # Gone /\ row \in Row
        /\ caseHere = caseOf(row) /\ caseHere' = caseOf(t.row)
    BY CaseLeft
  <1>2. PICK r \in Run : t.runs = {r} /\ ~r.voided
    BY DEF Launches, Commit
  <1>3. runs' = runs \cup {r}
    BY <1>2, CaseLeft DEF Launches, Voided
  <1>4. \A s \in runs : s.no # r.no
    BY <1>2 DEF Commit, Clashes
  <1>5. r.no \in 1..MaxRuns
    BY DEF Run
  <1>6. soundRuns' = soundRuns \cup {<<Here, r.no>>} /\ <<Here, r.no>> \notin soundRuns
    BY <1>2, <1>3, <1>4 DEF soundRuns
  <1>7. caseHere.stage # "ISSUED" /\ (caseHere.stage = "PUT" <=> row.status = "IN_REVIEW")
    BY <1>1 DEF Launches, caseOf, stageOf
  <1>8. caseHere' = IF caseHere.stage = "PUT" THEN Workflow!Open ELSE caseHere
    BY <1>1, <1>7 DEF Launches
  <1>9. cases' = IF cases[Here].stage = "PUT" THEN Workflow!TakenBack(Here) ELSE cases
    BY <1>8, CaseBecomes DEF cases
  <1>10. Workflow!Record(Here, r.no)
    BY <1>6, <1>7, <1>9 DEF Workflow!Record, cases
  <1> QED BY <1>5, <1>10 DEF WorkflowStep, Workflow!Next

\* A void takes the run from the sound ones, and the case back that puts it forward; a run voided since it
\* was loaded stays as it is.
LEMMA VoidRefines ==
  ASSUME Decisions, Submissions, NEW q \in Requests, Commit(q), ~tx[q].deletes, tx[q].seen = row, VoidsOne(tx[q])
  PROVE  WorkflowStep
  <1> DEFINE t == tx[q]
  <1>1. /\ t \in Work /\ t # Idle /\ row # Gone /\ row \in Row
        /\ caseHere = caseOf(row) /\ caseHere' = caseOf(t.row)
    BY CaseLeft
  <1>2. PICK r \in Run : /\ t.voids = {r} /\ ~r.voided
                         /\ caseOf(row).stage = "SIGNED" => caseOf(row).run # r.no
                         /\ caseOf(t.row) = IF caseOf(row).run = r.no THEN Workflow!Open ELSE caseOf(row)
    BY DEF VoidsOne
  <1> DEFINE v == [r EXCEPT !.voided = TRUE]
  <1>3. runs' = (runs \ {r}) \cup {v}
    BY <1>2, CaseLeft DEF VoidsOne, Voided
  <1>4. r \in runs \/ v \in runs
    BY <1>1, <1>2 DEF Decisions, Tables, InFlight, OnFile
  <1>5. v.voided /\ v.no = r.no /\ r.no \in 1..MaxRuns
    BY DEF Run
  <1>6. \A a, b \in runs : a.no = b.no => a = b
    BY RunsAreUnique DEF Decisions
  <1>7. caseHere.stage # "ISSUED"
    BY <1>1 DEF VoidsOne, caseOf, stageOf
  <1> HIDE DEF v
  <1>8. CASE r \in runs
    <2>1. soundRuns' = soundRuns \ {<<Here, r.no>>} /\ <<Here, r.no>> \in soundRuns
      BY <1>2, <1>3, <1>5, <1>6, <1>8 DEF soundRuns
    <2>2. cases' = IF cases[Here].run = r.no THEN Workflow!TakenBack(Here) ELSE cases
      BY <1>1, <1>2, CaseBecomes DEF cases
    <2>3. Workflow!Void(Here, r.no)
      BY <1>1, <1>2, <1>7, <2>1, <2>2 DEF Workflow!Void, cases
    <2> QED BY <1>5, <2>3 DEF WorkflowStep, Workflow!Next
  <1>9. CASE r \notin runs
    <2>1. v \in runs /\ runs' = runs
      BY <1>3, <1>4, <1>9
    <2>2. caseOf(row).run # r.no
      <3>1. row.submittedRun # r.no
        BY <1>1, <1>5, <2>1 DEF Submissions, Stands
      <3>2. row.finalRun \in {NoNumber, row.submittedRun}
        BY <1>1 DEF Decisions, Tables, Rows, Whole
      <3>3. r.no # NoNumber
        BY <1>5, BoundAssumption DEF NoNumber
      <3> QED BY <3>1, <3>2, <3>3 DEF caseOf
    <2>3. caseHere' = caseHere
      BY <1>1, <1>2, <2>2
    <2> QED BY <2>1, <2>3 DEF WorkflowStep, soundRuns, cases
  <1> QED BY <1>8, <1>9

\* Every commit that decided on the row on file is a step of the workflow or leaves it alone.
LEMMA CommitRefines ==
  ASSUME Decisions, Submissions, NEW q \in Requests, Commit(q), WritesRecords(tx[q]) => tx[q].seen = row
  PROVE  WorkflowStep
  <1> DEFINE t == tx[q]
  <1>1. t \in Work /\ t # Idle /\ Decided(t)
    BY DEF Decisions, Tables, Rows, TypeOK, Commit, Work, Idle
  <1>2. CASE ~WritesRecords(t)
    <2>1. row' = row /\ runs' = runs
      BY <1>1, <1>2 DEF Commit, WritesRecords, Work
    <2> QED BY <2>1 DEF WorkflowStep, soundRuns, cases, caseHere
  <1>3. CASE WritesRecords(t)
    BY <1>1, <1>3, DeletionRefines, MovesRefine, LaunchRefines, VoidRefines DEF Decided
  <1> QED BY <1>2, <1>3

\* Overlapping requests implement the sign-off workflow (specs 05.2, 05.8) while whatever is written was
\* decided on the row still on file and no void overlaps a write of a row that puts its run forward.  The
\* guards of the handlers are the workflow's; what they lack is that a commit, a launch's and a void's too,
\* checks the row its request decided on, and that who is about to put a run forward sees its void.
THEOREM OverlapsImplementSignOff == Spec /\ CommitsAreFresh /\ []VoidsApart => Workflow!Spec
  <1>1. Init => Workflow!Init
    <2> SUFFICES ASSUME Init PROVE Workflow!Init
      OBVIOUS
    <2>1. row # Gone
      <3>1. row \in Row
        BY BoundAssumption DEF Init, Row, Status, NoNumber
      <3> QED BY <3>1, GoneAssumption
    <2>2. caseHere = Workflow!Open
      BY <2>1 DEF Init, caseHere, caseOf, stageOf, Workflow!Open, NoNumber
    <2>3. soundRuns = {}
      BY DEF Init, soundRuns
    <2> QED BY <2>2, <2>3 DEF Workflow!Init
  <1>2. Init => Submissions
    <2> SUFFICES ASSUME Init PROVE Submissions
      OBVIOUS
    <2> QED BY InitTables DEF Init, Submissions, Stands
  <1>3. /\ Decisions /\ Submissions /\ [Next]_vars
        /\ [\A q \in Requests : Commit(q) /\ WritesRecords(tx[q]) => tx[q].seen = row]_vars
        => [Workflow!Next]_(Workflow!caseVars)
    <2> SUFFICES ASSUME Decisions, Submissions, [Next]_vars,
                        [\A q \in Requests : Commit(q) /\ WritesRecords(tx[q]) => tx[q].seen = row]_vars
                 PROVE  WorkflowStep
      BY DEF WorkflowStep, Workflow!caseVars, cases
    <2>1. ASSUME UNCHANGED <<row, runs>> PROVE WorkflowStep
      BY <2>1 DEF WorkflowStep, soundRuns, cases, caseHere
    <2>2. CASE UNCHANGED vars
      BY <2>1, <2>2 DEF vars
    <2>3. ASSUME NEW q \in Requests, Handle(q) PROVE WorkflowStep
      BY <2>1, <2>3, HandlersStart DEF Started, Begin, Decisions, Tables
    <2>4. ASSUME NEW q \in Requests, ReadForLaunch(q) \/ ReadForFreeze(q) \/ Abort(q) PROVE WorkflowStep
      BY <2>1, <2>4 DEF ReadForLaunch, ReadForFreeze, Abort
    <2>5. ASSUME NEW q \in Requests, Commit(q) PROVE WorkflowStep
      BY <2>2, <2>5, CommitRefines
    <2> QED BY <2>2, <2>3, <2>4, <2>5 DEF Next
  <1> QED
    BY <1>1, <1>2, <1>3, InitDecisions, DecisionsStep, SubmissionsStep, PTL
    DEF Spec, CommitsAreFresh, Workflow!Spec
=============================================================================
