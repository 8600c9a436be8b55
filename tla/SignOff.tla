------------------------------- MODULE SignOff -------------------------------
(***************************************************************************)
(* What the sign-off workflow promises, whatever freezes, edits, roles and *)
(* holds surround it: a sound run is put forward by somebody, signed by    *)
(* somebody, and issued; until it is issued it can be taken back whole.    *)
(*                                                                         *)
(* This is the abstract specification of specs 05.2 and 05.8 that          *)
(* InventorySignOff shows the handlers to implement.                       *)
(***************************************************************************)
EXTENDS Naturals

CONSTANTS Invs, Accounts, NoOne, Numbers   \* Numbers: the numbers runs are given

VARIABLES
  sound,   \* the runs on file that nobody has voided: pairs of an inventory and a number
  case     \* per inventory, what was put forward and how far it came

caseVars == <<sound, case>>

Open == [stage |-> "OPEN", run |-> 0, by |-> NoOne, signer |-> NoOne]
TakenBack(i) == [case EXCEPT ![i] = Open]

Init ==
  /\ sound = {}
  /\ case = [i \in Invs |-> Open]

\* A new run takes back what was put forward before it, and leaves a signature alone.
Record(i, n) ==
  /\ case[i].stage # "ISSUED"
  /\ <<i, n>> \notin sound
  /\ sound' = sound \cup {<<i, n>>}
  /\ case' = IF case[i].stage = "PUT" THEN TakenBack(i) ELSE case

\* The run that is signed stays; voiding the run put forward takes it back.
Void(i, n) ==
  /\ <<i, n>> \in sound
  /\ case[i].stage # "ISSUED"
  /\ case[i].stage = "SIGNED" => case[i].run # n
  /\ sound' = sound \ {<<i, n>>}
  /\ case' = IF case[i].run = n THEN TakenBack(i) ELSE case

PutForward(i, n, p) ==
  /\ case[i].stage \in {"OPEN", "PUT"}
  /\ <<i, n>> \in sound
  /\ case' = [case EXCEPT ![i] = [stage |-> "PUT", run |-> n, by |-> p, signer |-> NoOne]]
  /\ UNCHANGED sound

Sign(i, p) ==
  /\ case[i].stage = "PUT"
  /\ case' = [case EXCEPT ![i] = [stage |-> "SIGNED", run |-> case[i].run, by |-> case[i].by, signer |-> p]]
  /\ UNCHANGED sound

TakeBack(i) ==
  /\ case[i].stage \in {"PUT", "SIGNED"}
  /\ case' = TakenBack(i)
  /\ UNCHANGED sound

Issue(i) ==
  /\ case[i].stage = "SIGNED"
  /\ case' = [case EXCEPT ![i] = [case[i] EXCEPT !.stage = "ISSUED"]]
  /\ UNCHANGED sound

\* The inventory is deleted with all its runs.
Drop(i) ==
  /\ case[i].stage # "ISSUED"
  /\ case' = TakenBack(i)
  /\ sound' = {r \in sound : r[1] # i}

Next ==
  \E i \in Invs :
    \/ \E n \in Numbers : Record(i, n) \/ Void(i, n)
    \/ \E n \in Numbers, p \in Accounts : PutForward(i, n, p)
    \/ \E p \in Accounts : Sign(i, p)
    \/ TakeBack(i) \/ Issue(i) \/ Drop(i)

Spec == Init /\ [][Next]_caseVars
=============================================================================
