----------------------------- MODULE MCQaChain -----------------------------
(* Procedure 1 of two steps and procedure 2 of one, the steps of every shape the vocabulary has. *)
EXTENDS QaChain, QaVocabulary

Kept == [act |-> "adds", page |-> FALSE, expects |-> "effect", shown |-> {"api", "ui"}]
Unseen == [Kept EXCEPT !.shown = {}]
Promised == {StepOf(verb) : verb \in DOMAIN Verbs}
\* Steps that a capture alone closes.
Measured == [act : {"adds", "changes"}, page : {FALSE}, expects : {"measured"}, shown : {{}, {"api", "ui"}}]
Declined == [act : {"adds", "changes"}, page : {FALSE}, expects : {"refused", "withheld"}, shown : {{}}]
MCScripts == {<<<<step, Kept>>, <<Kept>>>> : step \in Promised \cup Measured}
               \cup {<<<<Unseen, step>>, <<Kept>>>> : step \in Declined} \cup {<<<<step, step>>, <<Kept>>>> : step \in Declined}
=============================================================================
