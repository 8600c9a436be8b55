--------------------------- MODULE BaseYearClaims ---------------------------
(***************************************************************************)
(* What the specs say of the recalculation candidates and the code does    *)
(* not keep.                                                               *)
(***************************************************************************)
EXTENDS MCBaseYear

\* A facility with base-year emissions that a weighed year leaves out has a candidate that counts: only a
\* facility put back takes its removal away (specs 06 and 06.1).
RemovalsKeepACandidate ==
  \A i \in Years, f \in Emitting :
    Weighed(i) /\ cut[i].boundary[f] = Out /\ BaseBoundary[f] # Out =>
      \E c \in candidates : c.year = i /\ <<f, "removed">> \in c.changes /\ c.status # "SUPERSEDED"
=============================================================================
