----------------------------- MODULE MCBaseYear -----------------------------
(***************************************************************************)
(* A base year with two facilities and a third that came later, for TLC.   *)
(***************************************************************************)
EXTENDS BaseYear, TLC

CONSTANTS port, depot, barn, whole, part, r1, y1, y2

Start == [f \in {port, depot, barn} |-> IF f = barn THEN Out ELSE whole]
WithBarn(b) == [b EXCEPT ![barn] = whole]

\* y1 reports under the base year's approach, with any boundary of the two facilities, or the barn beside
\* the depot's absence or presence; y2 reports under another approach and is frozen once.
Drawn == {b \in Boundaries : b[barn] = Out} \cup {WithBarn(Start), [WithBarn(Start) EXCEPT ![depot] = Out]}
Under(boundaries, approach) == [boundary : boundaries, approach : {approach}]
YearDrafts == [i \in {y1, y2} |-> IF i = y1 THEN Under(Drawn, "CONTROL") ELSE Under({Start}, "EQUITY")]
Versions == [i \in {y1, y2} |-> IF i = y1 THEN 3 ELSE 1]

PortEndsDepot == {<<port, depot>>}
=============================================================================
