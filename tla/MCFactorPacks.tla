---------------------------- MODULE MCFactorPacks ----------------------------
(***************************************************************************)
(* A seeded edition and two more over the lineage of one row and at most   *)
(* one period, for TLC.                                                    *)
(***************************************************************************)
EXTENDS FactorPacks, TLC

CONSTANTS seed, e1, e2, low, high, ada, bo, year

FirstDay == [i \in {year} |-> 1]
SecondDay == [i \in {year} |-> 2]
NoPeriod == <<>>

ValuesAlike == Permutations({low, high})

\* Bounds: the seeded edition applies from the first day with a checked row, and one edition is withdrawn or
\* declined.
Bounded ==
  /\ edition[Seeded].appliesFrom = 1 /\ edition[Seeded].row.approved
  /\ Cardinality({e \in Editions : edition[e].status = "WITHDRAWN" \/ notice[e] = "DECLINED"}) <= 1

Symmetric == Permutations({e1, e2}) \cup ValuesAlike
=============================================================================
