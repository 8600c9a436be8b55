--------------------------- MODULE QaChainProofs ---------------------------
(***************************************************************************)
(* What the records of the QA procedures certify, for any scripts, any     *)
(* number of procedures and any number of runs.                            *)
(***************************************************************************)
EXTENDS QaChain, FiniteSetTheorems, TLAPS

Runs ==
  [phase : {"do", "check", "end", "digest"}, driver : Drivers, procedure : Procedures, at : Nat,
   started : BOOLEAN, accepted : BOOLEAN, noticed : BOOLEAN, ended : SUBSET Nat, passed : SUBSET Nat,
   failed : BOOLEAN, acted : SUBSET Nat, sound : BOOLEAN, fresh : BOOLEAN]
Stacks == [done : SUBSET (Procedures \X Nat), rows : Int, by : Drivers \cup {"nobody"}, upto : {0} \cup Procedures]

\* A run is at a step of its own procedure, and what it keeps is of steps of that procedure.
InItsScript ==
  /\ run.at \in Steps(run.procedure)
  /\ run.ended \subseteq Steps(run.procedure) /\ run.passed \subseteq run.ended
  /\ run.acted \subseteq Steps(run.procedure)

Types ==
  /\ script \in Scripts
  /\ stack \in Stacks /\ \A step \in stack.done : step[2] \in Steps(step[1])
  /\ chain \in [Drivers -> SUBSET Procedures]
  /\ Running => run \in Runs /\ InItsScript
  /\ results \in [Drivers -> [Procedures -> {Unfinished} \cup Left]]
  /\ records \in [Drivers -> [Procedures -> {NoRecord} \cup Made]]
  /\ starts \in 0 .. MaxRuns

-----------------------------------------------------------------------------
\* The steps of a procedure are 1 to their number, and there is one.
LEMMA StepsOf ==
  ASSUME script \in Scripts, NEW p \in Procedures
  PROVE  /\ script[p] \in Seq(Shape) /\ Len(script[p]) \in Nat \ {0}
         /\ Steps(p) = 1 .. Len(script[p]) /\ Steps(p) \subseteq Nat /\ 1 \in Steps(p)
         /\ \A i \in Steps(p) : script[p][i] \in Shape
  <1>1. script \in [Procedures -> Seq(Shape)] /\ script[p] # <<>>
    BY ChainAssumption
  <1>2. script[p] \in Seq(Shape) /\ Len(script[p]) \in Nat /\ Steps(p) = 1 .. Len(script[p])
    BY <1>1 DEF Steps
  <1>3. Len(script[p]) # 0
    BY <1>1, <1>2
  <1> QED
    BY <1>2, <1>3

\* Nothing runs at first.
LEMMA TypesInit == Init => Types
  <1> SUFFICES ASSUME Init PROVE Types
    OBVIOUS
  <1>1. stack \in Stacks /\ stack.done = {}
    BY DEF Init, Empty, Stacks
  <1>2. ~Running
    BY DEF Init, Running, Idle
  <1>3. starts \in 0 .. MaxRuns
    BY ChainAssumption DEF Init
  <1> QED
    BY <1>1, <1>2, <1>3 DEF Types, Init

\* A run under way has its type, and its step the shape of a step.
LEMMA RunTypes ==
  ASSUME Types, Running
  PROVE  /\ run \in Runs /\ InItsScript
         /\ run.procedure \in Procedures /\ run.driver \in Drivers /\ run.at \in Nat
         /\ Here \in Procedures \X Nat /\ Here = <<run.procedure, run.at>> /\ Step \in Shape
         /\ Rows(Step.act) \in Int
  <1>1. run \in Runs /\ InItsScript
    BY DEF Types
  <1>2. run.procedure \in Procedures /\ run.driver \in Drivers /\ run.at \in Nat
    BY <1>1 DEF Runs
  <1>3. Step \in Shape
    BY <1>1, <1>2, StepsOf DEF Types, Step, InItsScript
  <1>4. Rows(Step.act) \in Int
    BY DEF Rows
  <1> QED
    BY <1>1, <1>2, <1>3, <1>4 DEF Here

\* What the product does with an act leaves the stack in its type, and only adds the step.
LEMMA PerformTypes ==
  ASSUME Types, Running, NEW ok \in BOOLEAN, Perform(ok)
  PROVE  /\ stack' \in Stacks /\ \A step \in stack'.done : step[2] \in Steps(step[1])
         /\ stack'.by = stack.by /\ stack'.upto = stack.upto
         /\ stack'.done = (IF ok THEN stack.done \cup {Here} ELSE stack.done)
         /\ stack'.rows = (IF ok THEN stack.rows + Rows(Step.act) ELSE stack.rows)
  <1>1. Here \in Procedures \X Nat /\ Here[2] \in Steps(Here[1]) /\ Rows(Step.act) \in Int
    BY RunTypes DEF InItsScript
  <1>2. stack \in Stacks /\ \A step \in stack.done : step[2] \in Steps(step[1])
    BY DEF Types
  <1>3. CASE ok
    <2>1. stack' = [stack EXCEPT !.done = @ \cup {Here}, !.rows = @ + Rows(Step.act)]
      BY <1>3 DEF Perform
    <2>2. stack.rows + Rows(Step.act) \in Int /\ stack.done \cup {Here} \subseteq Procedures \X Nat
      BY <1>1, <1>2 DEF Stacks
    <2> QED
      BY <1>1, <1>2, <1>3, <2>1, <2>2 DEF Stacks
  <1>4. CASE ~ok
    BY <1>2, <1>4 DEF Perform
  <1> QED
    BY <1>3, <1>4

\* A step that leaves the results and the records of what ran before.
LEMMA TypesOfARun ==
  ASSUME Types, UNCHANGED <<script, results, records, starts>>, chain' \in [Drivers -> SUBSET Procedures],
         stack' \in Stacks, \A step \in stack'.done : step[2] \in Steps(step[1]),
         Running' => run' \in Runs /\ InItsScript'
  PROVE  Types'
  BY DEF Types, Steps

\* Every step keeps the types.
LEMMA TypesNext == Types /\ [Next]_vars => Types'
  <1> SUFFICES ASSUME Types, [Next]_vars PROVE Types'
    OBVIOUS
  <1>1. ASSUME NEW d \in Drivers, NEW p \in Procedures, NEW from \in Steps(p), Start(d, p, from) PROVE Types'
    <2>1. PICK before \in {Empty, stack} : run' = NewRun(d, p, from, before) /\ stack' = [before EXCEPT !.by = "nobody"]
      BY <1>1 DEF Start
    <2>2. before \in Stacks /\ \A step \in before.done : step[2] \in Steps(step[1])
      BY <2>1 DEF Types, Empty, Stacks
    <2>3. stack' \in Stacks /\ stack'.done = before.done
      BY <2>1, <2>2 DEF Stacks
    <2>4. run' \in Runs /\ run'.at = from /\ run'.procedure = p /\ run'.ended = {} /\ run'.passed = {} /\ run'.acted = {}
      <3>1. from \in Nat
        BY StepsOf DEF Types
      <3>2. /\ (from = 1) \in BOOLEAN
            /\ (from = 1 /\ (IF p = 1 THEN before = Empty ELSE before.by = d /\ before.upto = p - 1)) \in BOOLEAN
        OBVIOUS
      <3> QED
        BY <2>1, <3>1, <3>2 DEF NewRun, Runs
    <2>5. InItsScript'
      BY <2>4, <1>1 DEF InItsScript, Start, Steps
    <2>6. chain' \in [Drivers -> SUBSET Procedures] /\ results' \in [Drivers -> [Procedures -> {Unfinished} \cup Left]]
          /\ starts' \in 0 .. MaxRuns /\ script' = script /\ records' = records
      BY <1>1, ChainAssumption DEF Start, Types
    <2> QED
      BY <2>2, <2>3, <2>4, <2>5, <2>6 DEF Types, Steps
  <1>2. ASSUME NEW d \in Drivers, NEW p \in Procedures, StartFails(d, p) PROVE Types'
    <2>1. 1 \in Steps(p)
      BY StepsOf DEF Types
    <2>2. run' \in Runs /\ run'.at = 1 /\ run'.procedure = p /\ run'.ended = {} /\ run'.passed = {} /\ run'.acted = {}
      <3>1. /\ (1 = 1) \in BOOLEAN
            /\ (1 = 1 /\ (IF p = 1 THEN stack = Empty ELSE stack.by = d /\ stack.upto = p - 1)) \in BOOLEAN
        OBVIOUS
      <3>2. NewRun(d, p, 1, stack) \in Runs
        BY <3>1 DEF NewRun, Runs
      <3>3. run' = [NewRun(d, p, 1, stack) EXCEPT !.phase = "end", !.started = FALSE, !.sound = FALSE]
        BY <1>2 DEF StartFails
      <3>4. run' \in Runs
        BY <3>2, <3>3 DEF Runs
      <3> QED
        BY <3>3, <3>4 DEF NewRun
    <2>3. InItsScript'
      BY <2>1, <2>2, <1>2 DEF InItsScript, StartFails, Steps
    <2>4. stack' \in Stacks /\ \A step \in stack'.done : step[2] \in Steps(step[1])
      BY <1>2 DEF StartFails, Types, Empty, Stacks
    <2>5. starts' \in 0 .. MaxRuns
      BY <1>2, ChainAssumption DEF StartFails, Types
    <2> QED
      BY <1>2, <2>2, <2>3, <2>4, <2>5 DEF StartFails, Types, Steps
  <1>3. ASSUME NEW d \in Drivers, NEW p \in Procedures, Record(d, p) PROVE Types'
    <2>1. results[d][p] \in Left
      BY <1>3 DEF Types, Record, Unfinished
    <2>2. [made |-> TRUE, rows |-> results[d][p].rows, acted |-> results[d][p].acted,
           sound |-> results[d][p].sound, fresh |-> results[d][p].fresh] \in Made
      BY <2>1 DEF Left, Made
    <2>3. records' \in [Drivers -> [Procedures -> {NoRecord} \cup Made]]
      BY <1>3, <2>2 DEF Record, MakeRecord, Types
    <2> QED
      BY <1>3, <2>3 DEF Record, MakeRecord, Types, Steps, InItsScript, Running
  <1>4. CASE Act
    <2>0. Running
      BY <1>4 DEF Act, Running
    <2>n. \A ok \in BOOLEAN : Notices(ok) \subseteq BOOLEAN
      BY <2>0, RunTypes DEF Notices, Runs
    <2>o. PICK ok \in BOOLEAN :
            /\ Perform(ok)
            /\ \E noticed \in Notices(ok) :
                 run' = [run EXCEPT !.phase = "check", !.accepted = ok, !.noticed = noticed,
                                    !.acted = IF ok THEN @ \cup {run.at} ELSE @]
      BY <1>4 DEF Act
    <2>1. PICK noticed \in BOOLEAN :
            run' = [run EXCEPT !.phase = "check", !.accepted = ok, !.noticed = noticed,
                                  !.acted = IF ok THEN @ \cup {run.at} ELSE @]
      BY <2>n, <2>o
    <2>2. run' \in Runs /\ InItsScript'
      BY <1>4, <2>0, <2>1, RunTypes DEF Act, Runs, InItsScript, Steps
    <2> QED
      BY <1>4, <2>0, <2>o, <2>2, PerformTypes, TypesOfARun DEF Act, Types
  <1>5. CASE ActFails
    <2>0. Running
      BY <1>5 DEF ActFails, Running
    <2>1. PICK ok \in BOOLEAN :
            /\ Perform(ok)
            /\ run' = [run EXCEPT !.phase = "end", !.ended = @ \cup {run.at}, !.failed = TRUE, !.sound = FALSE,
                                  !.acted = IF ok THEN @ \cup {run.at} ELSE @]
      BY <1>5 DEF ActFails
    <2>2. run' \in Runs /\ InItsScript'
      <3>1. run' \in Runs
        BY <2>0, <2>1, RunTypes DEF Runs
      <3>2. InItsScript'
        BY <1>5, <2>0, <2>1, RunTypes DEF ActFails, Runs, InItsScript, Steps
      <3> QED
        BY <3>1, <3>2
    <2> QED
      BY <1>5, <2>0, <2>1, <2>2, PerformTypes, TypesOfARun DEF ActFails, Types
  <1>6. CASE Check
    <2>0. Running
      BY <1>6 DEF Check, Running
    <2>1. PICK noticed \in BOOLEAN :
            run' = [run EXCEPT !.ended = @ \cup {run.at},
                          !.passed = IF run.driver = "api" /\ Step.page THEN @ ELSE @ \cup {run.at},
                          !.noticed = noticed,
                          !.at = IF run.at = Len(script[run.procedure]) THEN @ ELSE @ + 1,
                          !.phase = IF run.at = Len(script[run.procedure]) THEN "end" ELSE "do"]
      BY <1>6, <2>0, RunTypes DEF Check, Runs
    <2>2. run.at \in 1 .. Len(script[run.procedure]) /\ Len(script[run.procedure]) \in Nat
          /\ Steps(run.procedure) = 1 .. Len(script[run.procedure])
      BY <2>0, RunTypes, StepsOf DEF InItsScript, Types
    <2>3. run' \in Runs
      <3>1. (IF run.driver = "api" /\ Step.page THEN run.passed ELSE run.passed \cup {run.at}) \in SUBSET Nat
        BY <2>0, RunTypes DEF Runs
      <3>2. (IF run.at = Len(script[run.procedure]) THEN run.at ELSE run.at + 1) \in Nat
        BY <2>0, RunTypes
      <3>3. (IF run.at = Len(script[run.procedure]) THEN "end" ELSE "do") \in {"do", "check", "end", "digest"}
        OBVIOUS
      <3>4. run.ended \cup {run.at} \in SUBSET Nat /\ run \in Runs
        BY <2>0, RunTypes DEF Runs
      <3>5. PICK passed \in SUBSET Nat, at \in Nat, phase \in {"do", "check", "end", "digest"} :
              run' = [run EXCEPT !.ended = @ \cup {run.at}, !.passed = passed, !.noticed = noticed, !.at = at,
                                 !.phase = phase]
        BY <2>1, <3>1, <3>2, <3>3
      <3> QED
        BY <3>4, <3>5 DEF Runs
    <2>4. InItsScript'
      BY <1>6, <2>0, <2>1, <2>2, RunTypes DEF Check, Runs, InItsScript, Steps
    <2> QED
      BY <1>6, <2>3, <2>4, TypesOfARun DEF Check, Types
  <1>7. CASE CheckFails
    <2>1. Running
      BY <1>7 DEF CheckFails, Running
    <2>2. run' \in Runs /\ InItsScript'
      BY <1>7, <2>1, RunTypes DEF CheckFails, Runs, InItsScript, Steps
    <2> QED
      BY <1>7, <2>2, TypesOfARun DEF CheckFails, Types
  <1>8. CASE Timeout
    <2>1. Running
      BY <1>8 DEF Timeout, Running
    <2>2. run' \in Runs /\ InItsScript'
      BY <1>8, <2>1, RunTypes DEF Timeout, Runs, InItsScript, Steps
    <2> QED
      BY <1>8, <2>2, TypesOfARun DEF Timeout, Types
  <1>9. CASE Finish
    <2>1. Running
      BY <1>9 DEF Finish, Running
    <2>2. run' \in Runs /\ InItsScript'
      BY <1>9, <2>1, RunTypes DEF Finish, Runs, InItsScript, Steps
    <2>3. chain' \in [Drivers -> SUBSET Procedures]
      BY <1>9, <2>1, RunTypes DEF Finish, Types
    <2> QED
      BY <1>9, <2>2, <2>3, TypesOfARun DEF Finish, Types
  <1>10. CASE Close
    <2>1. Running /\ run' = Idle /\ UNCHANGED <<script, chain, records, starts>>
      BY <1>10 DEF Close, Running
    <2>2. run.driver \in Drivers /\ run.procedure \in Procedures /\ run \in Runs
      BY <2>1, RunTypes
    <2>3. stack' \in Stacks /\ stack'.done = stack.done
      BY <1>10, <2>2 DEF Close, Types, Stacks
    <2>4. \A read \in BOOLEAN :
            [closed |-> TRUE, ended |-> run.ended, failed |-> run.failed \/ ~read, rows |-> IF read THEN stack.rows ELSE 0,
             acted |-> IF run.sound THEN run.acted ELSE {}, sound |-> run.sound, fresh |-> run.sound /\ run.fresh] \in Left
      BY <2>2 DEF Left, Runs, Types, Stacks
    <2>5. results' \in [Drivers -> [Procedures -> {Unfinished} \cup Left]]
      BY <1>10, <2>2, <2>4 DEF Close, Types
    <2>6. ~Running'
      BY <2>1 DEF Running, Idle
    <2> QED
      BY <2>1, <2>3, <2>5, <2>6 DEF Types, Steps
  <1>11. CASE Kill
    <2>1. ~Running'
      BY <1>11 DEF Kill, Running, Idle
    <2> QED
      BY <1>11, <2>1, TypesOfARun DEF Kill, Types
  <1>12. CASE ResetAll
    <2>1. ~Running' /\ stack' \in Stacks /\ stack'.done = {}
      BY <1>12 DEF ResetAll, Running, Empty, Stacks
    <2> QED
      BY <1>12, <2>1, TypesOfARun DEF ResetAll, Types
  <1>13. CASE CarryOver
    <2>1. ~Running'
      BY <1>13 DEF CarryOver, Running
    <2> QED
      BY <1>13, <2>1, TypesOfARun DEF CarryOver, Types, Drivers
  <1>14. CASE UNCHANGED vars
    BY <1>14 DEF vars, Types, Running, InItsScript, Steps
  <1> QED
    BY <1>1, <1>2, <1>3, <1>4, <1>5, <1>6, <1>7, <1>8, <1>9, <1>10, <1>11, <1>12, <1>13, <1>14 DEF Next, RunStep

\* The types hold in every behaviour.
LEMMA TypesHold == Spec => []Types
  <1> QED
    BY TypesInit, TypesNext, PTL DEF Spec

\* The state files, the results and the records keep their types, and a run is at a step of its own procedure,
\* for any scripts and any number of runs.
THEOREM ChainTypes == Spec => []TypeOK
  <1>1. ASSUME Types PROVE TypeOK
    <2>1. stack.rows \in Int /\ stack.by \in Drivers \cup {"nobody"} /\ stack.upto \in {0} \cup Procedures
          /\ \A step \in stack.done : step[1] \in Procedures /\ step[2] \in Steps(step[1])
      BY <1>1 DEF Types, Stacks
    <2>2. Running =>
            /\ run.phase \in {"do", "check", "end", "digest"} /\ run.driver \in Drivers
            /\ run.procedure \in Procedures /\ run.at \in Steps(run.procedure)
            /\ run.ended \subseteq Steps(run.procedure) /\ run.passed \subseteq run.ended
            /\ run.acted \subseteq Steps(run.procedure)
            /\ {run.started, run.accepted, run.noticed, run.failed, run.sound, run.fresh} \subseteq BOOLEAN
      BY <1>1 DEF Types, Runs, InItsScript
    <2>3. \A d \in Drivers, p \in Procedures :
            /\ results[d][p] = Unfinished \/ results[d][p] \in Left
            /\ records[d][p] = NoRecord \/ records[d][p] \in Made
      BY <1>1 DEF Types
    <2> QED
      BY <1>1, <2>1, <2>2, <2>3 DEF Types, TypeOK
  <1> QED
    BY <1>1, TypesHold, PTL

-----------------------------------------------------------------------------
(* What the steps of a run do to it *)

\* The run goes on as the run it was.
Goes == run' \in Runs /\ run'.driver = run.driver /\ run'.procedure = run.procedure /\ run'.fresh = run.fresh

\* A run begins.
LEMMA StartEffect ==
  ASSUME Types, Types', NEW d \in Drivers, NEW p \in Procedures, NEW from \in Steps(p), Start(d, p, from)
  PROVE  /\ run' \in Runs /\ run'.phase = "do" /\ run'.driver = d /\ run'.procedure = p /\ run'.at = from
         /\ run'.noticed = FALSE /\ run'.ended = {} /\ run'.passed = {} /\ run'.failed = FALSE /\ run'.acted = {}
         /\ run'.sound <=> from = 1
         /\ run'.fresh => from = 1
         /\ run'.fresh /\ p = 1 => stack'.done = {} /\ stack'.rows = 0
         /\ run'.fresh /\ p # 1 => stack.by = d /\ stack.upto = p - 1 /\ stack'.done = stack.done /\ stack'.rows = stack.rows
         /\ stack'.by = "nobody" /\ stack'.done \in {{}, stack.done}
  <1>1. PICK before \in IF p = 1 THEN {Empty, stack} ELSE {stack} :
          run' = NewRun(d, p, from, before) /\ stack' = [before EXCEPT !.by = "nobody"]
    BY DEF Start
  <1>2. before \in Stacks /\ before \in {Empty, stack} /\ (p # 1 => before = stack)
    BY <1>1 DEF Types, Empty, Stacks
  <1>3. stack'.done = before.done /\ stack'.rows = before.rows /\ stack'.by = "nobody"
    BY <1>1, <1>2 DEF Stacks
  <1>4. run' \in Runs
    BY <1>1 DEF Types, Running, NewRun
  <1>5. run'.fresh => from = 1 /\ (IF p = 1 THEN before = Empty ELSE before.by = d /\ before.upto = p - 1)
    BY <1>1 DEF NewRun
  <1>6. Empty.done = {} /\ Empty.rows = 0
    BY DEF Empty
  <1>7. /\ run'.fresh /\ p = 1 => stack'.done = {} /\ stack'.rows = 0
        /\ run'.fresh /\ p # 1 => stack.by = d /\ stack.upto = p - 1 /\ stack'.done = stack.done /\ stack'.rows = stack.rows
    BY <1>2, <1>3, <1>5, <1>6
  <1>8. stack'.done \in {{}, stack.done}
    BY <1>2, <1>3, <1>6
  <1> QED
    BY <1>1, <1>3, <1>4, <1>5, <1>7, <1>8 DEF NewRun

\* A run that could not begin has nothing to show.
LEMMA StartFailsEffect ==
  ASSUME Types, Types', NEW d \in Drivers, NEW p \in Procedures, StartFails(d, p)
  PROVE  /\ run' \in Runs /\ run'.phase = "end" /\ run'.procedure = p /\ run'.ended = {} /\ run'.passed = {}
         /\ run'.sound = FALSE
         /\ stack' \in {Empty, stack} /\ Empty.done = {} /\ Empty.by = "nobody"
  <1>1. run' = [NewRun(d, p, 1, stack) EXCEPT !.phase = "end", !.started = FALSE, !.sound = FALSE]
        /\ stack' \in {Empty, stack}
    BY DEF StartFails
  <1>2. run'.phase = "end" /\ run'.procedure = p /\ run'.ended = {} /\ run'.passed = {} /\ run'.sound = FALSE
    BY <1>1 DEF NewRun
  <1>3. run' \in Runs
    BY <1>2 DEF Types, Running
  <1> QED
    BY <1>1, <1>2, <1>3 DEF Empty

\* The product is asked for the step, and answers.
LEMMA ActEffect ==
  ASSUME Types, Types', Act
  PROVE  /\ Running /\ run.phase = "do" /\ run'.phase = "check" /\ Goes
         /\ run'.at = run.at /\ run'.ended = run.ended /\ run'.passed = run.passed
         /\ run'.failed = run.failed /\ run'.sound = run.sound
         /\ run'.acted = (IF run'.accepted THEN run.acted \cup {run.at} ELSE run.acted)
         /\ run'.noticed => run.noticed \/ ~run'.accepted
         /\ Perform(run'.accepted)
  <1>1. Running /\ run.phase = "do" /\ run \in Runs
    BY RunTypes DEF Act, Running
  <1>2. PICK ok \in BOOLEAN : /\ Perform(ok)
                             /\ \E noticed \in Notices(ok) :
                                  run' = [run EXCEPT !.phase = "check", !.accepted = ok, !.noticed = noticed,
                                                     !.acted = IF ok THEN @ \cup {run.at} ELSE @]
    BY DEF Act
  <1>3. PICK noticed \in Notices(ok) :
          run' = [run EXCEPT !.phase = "check", !.accepted = ok, !.noticed = noticed,
                             !.acted = IF ok THEN @ \cup {run.at} ELSE @]
    BY <1>2
  <1>4. noticed => run.noticed \/ ~ok
    BY <1>3 DEF Notices
  <1>5. run'.accepted = ok /\ run'.noticed = noticed /\ run'.phase = "check"
        /\ run'.acted = (IF ok THEN run.acted \cup {run.at} ELSE run.acted)
    BY <1>1, <1>3 DEF Runs
  <1>6. run' \in Runs
    BY <1>5 DEF Types, Running
  <1> QED
    BY <1>1, <1>2, <1>3, <1>4, <1>5, <1>6 DEF Goes, Runs

\* The step holds, and the run moves on to the next or is through.
LEMMA CheckEffect ==
  ASSUME Types, Types', Check
  PROVE  /\ Running /\ run.phase = "check" /\ Goes /\ Holds
         /\ run'.acted = run.acted /\ run'.failed = run.failed /\ run'.sound = run.sound
         /\ run'.ended = run.ended \cup {run.at}
         /\ run'.passed = (IF run.driver = "api" /\ Step.page THEN run.passed ELSE run.passed \cup {run.at})
         /\ run'.noticed => run.noticed
         /\ \/ run'.phase = "do" /\ run'.at = run.at + 1
            \/ run'.phase = "end" /\ Steps(run.procedure) = 1 .. run.at
  <1>1. Running /\ run.phase = "check" /\ run \in Runs /\ Holds
    BY RunTypes DEF Check, Running
  <1>2. PICK noticed \in {run.noticed, FALSE} :
          run' = [run EXCEPT !.ended = @ \cup {run.at},
                             !.passed = IF run.driver = "api" /\ Step.page THEN @ ELSE @ \cup {run.at},
                             !.noticed = noticed,
                             !.at = IF run.at = Len(script[run.procedure]) THEN @ ELSE @ + 1,
                             !.phase = IF run.at = Len(script[run.procedure]) THEN "end" ELSE "do"]
    BY DEF Check
  <1>3. noticed => run.noticed
    BY <1>2
  <1>4. run'.phase = (IF run.at = Len(script[run.procedure]) THEN "end" ELSE "do")
    BY <1>1, <1>2 DEF Runs
  <1>5. run' \in Runs
    BY <1>4 DEF Types, Running
  <1>6. Steps(run.procedure) = 1 .. Len(script[run.procedure])
    BY <1>1, RunTypes, StepsOf DEF Types
  <1>7. CASE run.at = Len(script[run.procedure])
    BY <1>1, <1>2, <1>3, <1>5, <1>6, <1>7 DEF Goes, Runs
  <1>8. CASE run.at # Len(script[run.procedure])
    BY <1>1, <1>2, <1>3, <1>5, <1>6, <1>8 DEF Goes, Runs
  <1> QED
    BY <1>7, <1>8

\* The run ends at the step it is at: the act failed, the check failed, or its time was up.
Stops == ActFails \/ CheckFails \/ Timeout
LEMMA StopsEffect ==
  ASSUME Types, Types', Stops
  PROVE  /\ Running /\ run.phase \in {"do", "check"} /\ run'.phase = "end" /\ Goes /\ run'.sound = FALSE
         /\ run'.passed = run.passed
         /\ \/ run'.failed = TRUE /\ run'.ended = run.ended \cup {run.at}
            \/ run'.failed = run.failed /\ run'.ended = run.ended
         /\ \/ run'.acted = run.acted /\ stack' = stack
            \/ run'.acted = run.acted \cup {run.at} /\ run.phase = "do" /\ Perform(TRUE)
            \/ run'.acted = run.acted /\ run.phase = "do" /\ Perform(FALSE)
  <1>1. Running /\ run.phase \in {"do", "check"} /\ run \in Runs
    BY RunTypes DEF Stops, ActFails, CheckFails, Timeout, Running
  <1>2. CASE ActFails
    <2>1. PICK ok \in BOOLEAN :
            /\ Perform(ok)
            /\ run' = [run EXCEPT !.phase = "end", !.ended = @ \cup {run.at}, !.failed = TRUE, !.sound = FALSE,
                                  !.acted = IF ok THEN @ \cup {run.at} ELSE @]
      BY <1>2 DEF ActFails
    <2>2. run'.phase = "end"
      BY <1>1, <2>1 DEF Runs
    <2>3. run' \in Runs
      BY <2>2 DEF Types, Running
    <2>4. run.phase = "do"
      BY <1>2 DEF ActFails
    <2>5. run'.failed = TRUE /\ run'.ended = run.ended \cup {run.at} /\ run'.passed = run.passed /\ run'.sound = FALSE
          /\ run'.acted = (IF ok THEN run.acted \cup {run.at} ELSE run.acted) /\ Goes
      BY <1>1, <2>1, <2>3 DEF Goes, Runs
    <2>6. \/ run'.acted = run.acted \cup {run.at} /\ Perform(TRUE)
          \/ run'.acted = run.acted /\ Perform(FALSE)
      BY <2>1, <2>5 DEF Perform
    <2> QED
      BY <1>1, <2>2, <2>4, <2>5, <2>6
  <1>3. CASE CheckFails
    <2>1. run'.phase = "end"
      BY <1>1, <1>3 DEF CheckFails, Runs
    <2>2. run' \in Runs
      BY <2>1 DEF Types, Running
    <2> QED
      BY <1>1, <1>3, <2>2 DEF CheckFails, Goes, Runs
  <1>4. CASE Timeout
    <2>1. run'.phase = "end"
      BY <1>1, <1>4 DEF Timeout, Runs
    <2>2. run' \in Runs
      BY <2>1 DEF Types, Running
    <2> QED
      BY <1>1, <1>4, <2>2 DEF Timeout, Goes, Runs
  <1> QED
    BY <1>2, <1>3, <1>4 DEF Stops

\* afterAll writes the state file, and nothing else changes but the phase.
LEMMA FinishEffect ==
  ASSUME Types, Types', Finish
  PROVE  /\ Running /\ run.phase = "end" /\ run'.phase = "digest" /\ Goes
         /\ run'.acted = run.acted /\ run'.ended = run.ended /\ run'.passed = run.passed
         /\ run'.failed = run.failed /\ run'.sound = run.sound /\ UNCHANGED <<script, stack, results, records>>
  <1>1. Running /\ run.phase = "end" /\ run \in Runs
    BY RunTypes DEF Finish, Running
  <1>2. run'.phase = "digest"
    BY <1>1 DEF Finish, Runs
  <1>3. run' \in Runs
    BY <1>2 DEF Types, Running
  <1> QED
    BY <1>1, <1>2, <1>3 DEF Finish, Goes, Runs

-----------------------------------------------------------------------------
(* What a run leaves *)

\* A run that nothing cut short has ended every step up to the one it is at; one that began in the middle never
\* ends the first.
Advances ==
  /\ run.phase \in {"do", "check"} =>
       /\ ~run.failed /\ run.ended \subseteq 1 .. run.at - 1
       /\ run.sound => run.ended = 1 .. run.at - 1
       /\ ~run.sound => run.at # 1
       /\ ~run.sound => 1 \notin run.ended
  /\ run.phase \in {"end", "digest"} =>
       /\ run.sound => run.ended = Steps(run.procedure) /\ ~run.failed
       /\ ~run.sound => run.failed \/ run.ended # Steps(run.procedure)

\* Results that look like a whole green run are of one.
ResultsAreHonest ==
  \A d \in Drivers, p \in Procedures :
    results[d][p] \in Left => results[d][p].sound \/ results[d][p].failed \/ results[d][p].ended # Steps(p)

RecordsAreHonest == \A d \in Drivers, p \in Procedures : records[d][p] \in Made => records[d][p].sound

Whole == Advances /\ ResultsAreHonest /\ RecordsAreHonest

\* Nothing has run at first.
LEMMA WholeInit == Init => Whole
  <1>1. (\A left \in Left : left.closed = TRUE) /\ (\A made \in Made : made.made = TRUE)
    BY DEF Left, Made
  <1>2. Unfinished.closed = FALSE /\ NoRecord.made = FALSE
    BY DEF Unfinished, NoRecord
  <1>3. Unfinished \notin Left /\ NoRecord \notin Made
    BY <1>1, <1>2
  <1> QED
    BY <1>3 DEF Init, Idle, Whole, Advances, ResultsAreHonest, RecordsAreHonest

\* Nothing but the end of a run and a record touches what was left.
LEMMA LeftAsTheyWere ==
  ASSUME ResultsAreHonest, RecordsAreHonest, UNCHANGED <<script, results, records>>
  PROVE  ResultsAreHonest' /\ RecordsAreHonest'
  BY DEF ResultsAreHonest, RecordsAreHonest, Steps

\* Every step leaves a run, the results and the records honest.
LEMMA WholeNext == Types /\ Types' /\ Whole /\ [Next]_vars => Whole'
  <1> SUFFICES ASSUME Types, Types', Whole, [Next]_vars PROVE Whole'
    OBVIOUS
  <1>a. Advances /\ ResultsAreHonest /\ RecordsAreHonest
    BY DEF Whole
  <1>1. ASSUME NEW d \in Drivers, NEW p \in Procedures, NEW from \in Steps(p), Start(d, p, from) PROVE Whole'
    <2>1. run'.phase = "do" /\ run'.at = from /\ run'.ended = {} /\ run'.failed = FALSE /\ (run'.sound <=> from = 1)
      BY <1>1, StartEffect
    <2>2. Advances'
      BY <2>1 DEF Advances
    <2>3. results' = [results EXCEPT ![d][p] = Unfinished] /\ UNCHANGED <<script, records>>
      BY <1>1 DEF Start
    <2>4. ResultsAreHonest'
      BY <1>a, <2>3 DEF ResultsAreHonest, Types, Unfinished, Left, Steps
    <2> QED
      BY <1>a, <2>2, <2>3, <2>4 DEF Whole, RecordsAreHonest
  <1>2. ASSUME NEW d \in Drivers, NEW p \in Procedures, StartFails(d, p) PROVE Whole'
    <2>1. run'.phase = "end" /\ run'.procedure = p /\ run'.ended = {} /\ run'.sound = FALSE
      BY <1>2, StartFailsEffect
    <2>2. UNCHANGED <<script, results, records>> /\ Steps(p)' = Steps(p) /\ Steps(p) # {}
      BY <1>2, StepsOf DEF StartFails, Types, Steps
    <2>3. Advances'
      BY <2>1, <2>2 DEF Advances
    <2> QED
      BY <1>a, <2>2, <2>3, LeftAsTheyWere DEF Whole
  <1>3. ASSUME NEW d \in Drivers, NEW p \in Procedures, Record(d, p) PROVE Whole'
    <2>1. results[d][p] \in Left /\ ~results[d][p].failed /\ results[d][p].ended = Steps(p)
      BY <1>3 DEF Types, Record, Unfinished
    <2>2. results[d][p].sound
      BY <1>a, <2>1 DEF ResultsAreHonest
    <2>3. records' = [records EXCEPT ![d][p] =
            [made |-> TRUE, rows |-> results[d][p].rows, acted |-> results[d][p].acted,
             sound |-> results[d][p].sound, fresh |-> results[d][p].fresh]]
          /\ UNCHANGED <<script, results, run>>
      BY <1>3 DEF Record, MakeRecord
    <2>4. RecordsAreHonest'
      BY <1>a, <2>2, <2>3 DEF RecordsAreHonest, Types
    <2> QED
      BY <1>a, <2>3, <2>4 DEF Whole, Advances, ResultsAreHonest, Steps
  <1>4. CASE Act
    <2>1. Advances'
      BY <1>4, <1>a, ActEffect DEF Advances, Goes
    <2> QED
      BY <1>4, <1>a, <2>1, LeftAsTheyWere DEF Whole, Act
  <1>5. CASE Check
    <2>1. Running /\ run.at \in Nat /\ run.at >= 1 /\ Steps(run.procedure)' = Steps(run.procedure)
      <3>1. Running /\ script' = script /\ run'.procedure = run.procedure
        BY <1>5, CheckEffect DEF Check, Goes
      <3>2. run.at \in Steps(run.procedure) /\ Steps(run.procedure) = 1 .. Len(script[run.procedure])
        BY <3>1, RunTypes, StepsOf DEF InItsScript, Types
      <3>3. run.at \in Nat /\ Steps(run.procedure)' = Steps(run.procedure)
        BY <3>1, RunTypes DEF Steps
      <3> QED
        BY <3>1, <3>2, <3>3
    <2>2. ~run.failed /\ run.ended \subseteq 1 .. run.at - 1 /\ (run.sound => run.ended = 1 .. run.at - 1)
          /\ (~run.sound => run.at # 1 /\ 1 \notin run.ended)
      BY <1>5, <1>a, CheckEffect DEF Advances
    <2>3. run'.ended = run.ended \cup {run.at} /\ run'.sound = run.sound /\ run'.failed = run.failed
          /\ run'.procedure = run.procedure
      BY <1>5, CheckEffect DEF Goes
    <2>4. (run.sound => run'.ended = 1 .. run.at) /\ (~run.sound => run'.ended # 1 .. run.at)
          /\ (~run.sound => 1 \notin run'.ended) /\ run'.ended \subseteq 1 .. run.at
      BY <2>1, <2>2, <2>3
    <2>5. Advances'
      <3>1. CASE run'.phase = "do" /\ run'.at = run.at + 1
        BY <2>1, <2>2, <2>3, <2>4, <3>1 DEF Advances
      <3>2. CASE run'.phase = "end" /\ Steps(run.procedure) = 1 .. run.at
        BY <2>1, <2>2, <2>3, <2>4, <3>2 DEF Advances
      <3> QED
        BY <1>5, <3>1, <3>2, CheckEffect
    <2> QED
      BY <1>5, <1>a, <2>5, LeftAsTheyWere DEF Whole, Check
  <1>6. CASE Stops
    <2>1. UNCHANGED <<script, results, records>>
      BY <1>6 DEF Stops, ActFails, CheckFails, Timeout
    <2>2. run'.phase = "end" /\ run'.procedure = run.procedure /\ run'.sound = FALSE
          /\ (run'.failed = TRUE \/ run'.ended = run.ended) /\ run.phase \in {"do", "check"} /\ Running
      BY <1>6, StopsEffect DEF Goes
    <2>3. run.at \in Steps(run.procedure) /\ run.at \in Nat /\ Steps(run.procedure)' = Steps(run.procedure)
      BY <2>1, <2>2, RunTypes DEF InItsScript, Steps
    <2>4. run.ended \subseteq 1 .. run.at - 1
      BY <1>a, <2>2 DEF Advances
    <2>5. run.ended # Steps(run.procedure)
      BY <2>3, <2>4
    <2>6. Advances'
      BY <2>2, <2>3, <2>5 DEF Advances
    <2> QED
      BY <1>a, <2>1, <2>6, LeftAsTheyWere DEF Whole
  <1>7. CASE Finish
    <2>1. Advances'
      BY <1>7, <1>a, FinishEffect DEF Advances, Goes, Steps
    <2> QED
      BY <1>7, <1>a, <2>1, FinishEffect, LeftAsTheyWere DEF Whole
  <1>8. CASE Close
    <2>1. Running /\ run.phase = "digest" /\ run.driver \in Drivers /\ run.procedure \in Procedures
      BY <1>8, RunTypes DEF Close, Running
    <2>2. PICK read \in BOOLEAN :
            results' = [results EXCEPT ![run.driver][run.procedure] =
              [closed |-> TRUE, ended |-> run.ended, failed |-> run.failed \/ ~read, rows |-> IF read THEN stack.rows ELSE 0,
               acted |-> IF run.sound THEN run.acted ELSE {}, sound |-> run.sound, fresh |-> run.sound /\ run.fresh]]
      BY <1>8 DEF Close
    <2>3. run.sound \/ run.failed \/ run.ended # Steps(run.procedure)
      BY <1>a, <2>1 DEF Advances
    <2>4. ResultsAreHonest'
      <3> SUFFICES ASSUME NEW d \in Drivers, NEW p \in Procedures, (results[d][p] \in Left)'
                   PROVE (results[d][p].sound \/ results[d][p].failed \/ results[d][p].ended # Steps(p))'
        BY DEF ResultsAreHonest
      <3>1. script' = script
        BY <1>8 DEF Close
      <3>2. CASE d = run.driver /\ p = run.procedure
        BY <2>1, <2>2, <2>3, <3>1, <3>2 DEF Types, Steps
      <3>3. CASE ~(d = run.driver /\ p = run.procedure)
        <4>1. results'[d][p] = results[d][p]
          BY <2>1, <2>2, <3>3 DEF Types
        <4> QED
          BY <1>a, <3>1, <4>1 DEF ResultsAreHonest, Steps
      <3> QED
        BY <3>2, <3>3
    <2>5. Advances' /\ RecordsAreHonest'
      BY <1>8, <1>a DEF Close, Advances, RecordsAreHonest, Idle
    <2> QED
      BY <2>4, <2>5 DEF Whole
  <1>9. CASE Kill
    <2>1. Advances'
      BY <1>9 DEF Kill, Advances, Idle
    <2> QED
      BY <1>9, <1>a, <2>1, LeftAsTheyWere DEF Whole, Kill
  <1>10. CASE ResetAll \/ CarryOver \/ UNCHANGED vars
    <2>1. UNCHANGED <<script, run, results, records>>
      BY <1>10 DEF ResetAll, CarryOver, vars
    <2>2. Advances'
      BY <1>a, <2>1 DEF Advances, Steps
    <2> QED
      BY <1>a, <2>1, <2>2, LeftAsTheyWere DEF Whole
  <1> QED
    BY <1>1, <1>2, <1>3, <1>4, <1>5, <1>6, <1>7, <1>8, <1>9, <1>10 DEF Next, RunStep, Stops

\* A record is of a run of the whole procedure that nothing cut short, however many runs were refused, killed,
\* timed out or begun in the middle before it.
THEOREM RecordsCertifyWholeRuns == Spec => []RecordsAreOfWholeRuns
  <1>1. Types /\ Whole => RecordsAreOfWholeRuns
    BY DEF Types, Whole, RecordsAreHonest, RecordsAreOfWholeRuns, NoRecord
  <1>2. Spec => []Whole
    BY TypesHold, WholeInit, WholeNext, PTL DEF Spec
  <1> QED
    BY <1>1, <1>2, TypesHold, PTL

-----------------------------------------------------------------------------
(* What a passed step says *)

\* The acts a run had accepted are of the steps so far, and a notice on the page is of one that was refused.
Witnessed ==
  /\ run.phase = "do" =>
       /\ run.acted \subseteq 1 .. run.at - 1
       /\ run.noticed => \E j \in run.ended : j \notin run.acted
  /\ run.phase = "check" =>
       /\ run.acted \subseteq 1 .. run.at
       /\ run.accepted <=> run.at \in run.acted
       /\ run.noticed => \E j \in run.ended \cup {run.at} : j \notin run.acted

\* A run of a chain from the reset, as long as nothing cut it short.
Clean == run.fresh /\ (run.phase \in {"do", "check"} \/ run.sound)

\* A step of an earlier procedure, or one of the run's own that the product accepted.
OfTheChain(step) == step[1] < run.procedure \/ (step[1] = run.procedure /\ step[2] \in run.acted)

\* What is in place on a clean stack is of the chain so far, and of the run's own procedure what it did.
Placed ==
  /\ stack.by # "nobody" => \A step \in stack.done : step[1] <= stack.upto
  /\ run.phase \in {"do", "check"} => stack.by = "nobody"
  /\ Running /\ Clean => \A step \in stack.done : OfTheChain(step)

\* What the property says of one passed step.
Says(i) ==
  LET step == script[run.procedure][i]
  IN /\ run.driver = "api" /\ step.expects # "measured" => (i \in run.acted <=> step.expects = "effect")
     /\ run.driver = "ui" /\ run.fresh /\ step.expects \in {"effect", "measured"} /\ "ui" \in step.shown => i \in run.acted
     /\ run.driver = "ui" /\ step.expects = "refused" => \E j \in run.ended : j <= i /\ j \notin run.acted

Told == Running => \A i \in run.passed : Says(i)

Passing == Witnessed /\ Placed /\ Told

\* The stack is empty at first, and nothing runs.
LEMMA PassingInit == Init => Passing
  BY DEF Init, Idle, Empty, Running, Passing, Witnessed, Placed, OfTheChain, Told

\* Outside a run there is nothing to witness.
LEMMA QuietPasses ==
  ASSUME Placed, ~Running', stack'.by # "nobody" => \A step \in stack'.done : step[1] <= stack'.upto
  PROVE  Passing'
  BY DEF Running, Passing, Witnessed, Placed, OfTheChain, Told

\* What a step of the past says is not changed by the acts of later ones.
LEMMA SaysStill ==
  ASSUME Types, Running, Goes, UNCHANGED script, NEW i \in run.passed, Says(i), run.passed \subseteq run.ended,
         run.ended \subseteq run'.ended, run.acted \subseteq run'.acted,
         \A j \in run.ended : j \in run'.acted => j \in run.acted
  PROVE  Says(i)'
  BY DEF Says, Goes

\* The act of the step joins what is in place, and what was accepted.
LEMMA PlacedByAct ==
  ASSUME Types, Running, Placed, Goes, run.phase = "do", NEW ok \in BOOLEAN, Perform(ok),
         run'.acted = (IF ok THEN run.acted \cup {run.at} ELSE run.acted)
  PROVE  Placed'
  <1>1. stack'.by = "nobody" /\ stack'.done = (IF ok THEN stack.done \cup {Here} ELSE stack.done)
    BY PerformTypes DEF Placed, OfTheChain
  <1>2. Here[1] = run.procedure /\ Here[2] = run.at
    BY RunTypes
  <1>3. Clean' => Clean
    BY DEF Clean, Goes
  <1>4. Clean => \A step \in stack.done : OfTheChain(step)
    BY DEF Placed, OfTheChain
  <1>5. Clean' => \A step \in stack'.done : OfTheChain(step)'
    BY <1>1, <1>2, <1>3, <1>4 DEF Goes, OfTheChain
  <1> QED
    BY <1>1, <1>5 DEF Placed, OfTheChain

\* A check that holds says what happened of the step it asked about.
LEMMA CheckedSays ==
  ASSUME Types, Types', Whole, Passing, Check, NEW i, i = run.at, i \in run'.passed
  PROVE  Says(i)'
  <1>1. run'.acted = run.acted /\ run'.ended = run.ended \cup {run.at} /\ Goes /\ Holds /\ script' = script
        /\ Running /\ run.phase = "check"
    BY CheckEffect DEF Check
  <1>2. run.acted \subseteq 1 .. run.at /\ (run.accepted <=> i \in run.acted)
        /\ (run.noticed => \E j \in run.ended \cup {run.at} : j \notin run.acted)
    BY <1>1 DEF Passing, Witnessed
  <1>3. run.ended \subseteq 1 .. run.at - 1 /\ run.at \in Nat /\ run.passed \subseteq run.ended
    BY <1>1, RunTypes DEF Whole, Advances, InItsScript
  <1>4. i \notin run.passed
    BY <1>3
  <1>5. ~(run.driver = "api" /\ Step.page)
    BY <1>4, CheckEffect
  <1>6. Step = script[run.procedure][i] /\ Here = <<run.procedure, i>>
    BY DEF Step, Here
  <1>7. run.fresh /\ InPlace => i \in run.acted
    <2>1. Running /\ Clean => \A step \in stack.done : OfTheChain(step)
      BY DEF Passing, Placed, OfTheChain
    <2>2. run.fresh => Clean
      BY <1>1 DEF Clean
    <2>3. ~(run.procedure < run.procedure)
      BY <1>1, RunTypes DEF Procedures
    <2> QED
      BY <1>1, <1>6, <2>1, <2>2, <2>3 DEF InPlace, OfTheChain
  <1>8. run.driver = "api" /\ Step.expects # "measured" => (i \in run.acted <=> Step.expects = "effect")
    BY <1>1, <1>2, <1>5 DEF Holds, ApiHolds
  <1>9. run.driver # "api" /\ Step.expects \in {"effect", "measured"} /\ run.fresh /\ run.driver \in Step.shown => i \in run.acted
    BY <1>1, <1>7 DEF Holds, UiHolds, Shown
  <1>10. run.driver # "api" /\ Step.expects = "refused" => \E j \in run.ended \cup {run.at} : j \notin run.acted
    BY <1>1, <1>2 DEF Holds, UiHolds
  <1>11. \A j \in run.ended \cup {run.at} : j <= i
    BY <1>3
  <1> QED
    BY <1>1, <1>6, <1>8, <1>9, <1>10, <1>11 DEF Says, Goes

\* Every step leaves what passed steps say true.
LEMMA PassingNext == Types /\ Types' /\ Whole /\ Passing /\ [Next]_vars => Passing'
  <1> SUFFICES ASSUME Types, Types', Whole, Passing, [Next]_vars PROVE Passing'
    OBVIOUS
  <1>a. Witnessed /\ Placed /\ Told /\ Advances
    BY DEF Passing, Whole
  <1>b. Running => run.at \in Nat /\ run.passed \subseteq run.ended
    BY RunTypes DEF InItsScript
  <1>1. ASSUME NEW d \in Drivers, NEW p \in Procedures, NEW from \in Steps(p), Start(d, p, from) PROVE Passing'
    <2>1. run'.phase = "do" /\ run'.procedure = p /\ run'.noticed = FALSE /\ run'.passed = {} /\ run'.acted = {}
          /\ stack'.by = "nobody"
      BY <1>1, StartEffect
    <2>2. run'.fresh => \A step \in stack'.done : step[1] < p
      <3>1. p \in Nat /\ p - 1 < p /\ d # "nobody" /\ \A step \in stack.done : step[1] \in Nat
        BY DEF Procedures, Drivers, Types, Stacks
      <3>2. CASE run'.fresh /\ p # 1
        <4>1. stack.by = d /\ stack.upto = p - 1 /\ stack'.done = stack.done
          BY <1>1, <3>2, StartEffect
        <4> QED
          BY <1>a, <3>1, <4>1 DEF Placed, OfTheChain
      <3>3. CASE run'.fresh /\ p = 1
        <4>1. stack'.done = {}
          BY <1>1, <3>3, StartEffect
        <4> QED
          BY <4>1
      <3> QED
        BY <3>2, <3>3
    <2>3. Witnessed' /\ Told'
      BY <2>1 DEF Witnessed, Told
    <2>4. Placed'
      BY <2>1, <2>2 DEF Placed, OfTheChain, Clean
    <2> QED
      BY <2>3, <2>4 DEF Passing
  <1>2. ASSUME NEW d \in Drivers, NEW p \in Procedures, StartFails(d, p) PROVE Passing'
    <2>1. run'.phase = "end" /\ run'.passed = {} /\ run'.sound = FALSE /\ stack' \in {Empty, stack}
          /\ Empty.done = {} /\ Empty.by = "nobody"
      BY <1>2, StartFailsEffect
    <2> QED
      BY <1>a, <2>1 DEF Passing, Witnessed, Placed, OfTheChain, Told, Clean
  <1>4. CASE Act
    <2>1. Running /\ run.phase = "do" /\ run'.phase = "check" /\ Goes /\ run'.at = run.at /\ run'.ended = run.ended
          /\ run'.passed = run.passed /\ run'.acted = (IF run'.accepted THEN run.acted \cup {run.at} ELSE run.acted)
          /\ (run'.noticed => run.noticed \/ ~run'.accepted) /\ Perform(run'.accepted) /\ script' = script
          /\ run'.accepted \in BOOLEAN
      BY <1>4, ActEffect DEF Act, Goes, Runs
    <2>2. run.acted \subseteq 1 .. run.at - 1 /\ (run.noticed => \E j \in run.ended : j \notin run.acted)
          /\ run.ended \subseteq 1 .. run.at - 1 /\ run.at \in Nat /\ run.passed \subseteq run.ended
      BY <1>a, <1>b, <2>1 DEF Witnessed, Advances
    <2>3. \A j \in run.ended : j \in run'.acted => j \in run.acted
      BY <2>1, <2>2
    <2>4. Witnessed'
      <3>1. run'.acted \subseteq 1 .. run.at /\ (run'.accepted <=> run.at \in run'.acted)
        <4>1. run.at \notin run.acted /\ run.acted \subseteq 1 .. run.at
          BY <2>2
        <4>2. run.at \in 1 .. run.at
          BY <2>1, RunTypes, StepsOf DEF Types, InItsScript
        <4>3. CASE run'.accepted
          BY <2>1, <4>1, <4>2, <4>3
        <4>4. CASE ~run'.accepted
          BY <2>1, <4>1, <4>4
        <4> QED
          BY <4>3, <4>4
      <3>2. run'.noticed => \E j \in run.ended \cup {run.at} : j \notin run'.acted
        BY <2>1, <2>2, <2>3
      <3> QED
        BY <2>1, <3>1, <3>2 DEF Witnessed
    <2>5. Placed'
      BY <1>a, <2>1, PlacedByAct
    <2>6. \A i \in run.passed : Says(i)'
      BY <1>a, <2>1, <2>2, <2>3, SaysStill DEF Told
    <2> QED
      BY <2>1, <2>4, <2>5, <2>6 DEF Passing, Told
  <1>5. CASE Check
    <2>1. Running /\ run.phase = "check" /\ Goes /\ run'.acted = run.acted /\ run'.sound = run.sound
          /\ run'.ended = run.ended \cup {run.at} /\ (run'.noticed => run.noticed) /\ run'.passed \subseteq run.passed \cup {run.at}
          /\ ((run'.phase = "do" /\ run'.at = run.at + 1) \/ run'.phase = "end") /\ UNCHANGED <<script, stack>>
      BY <1>5, CheckEffect DEF Check
    <2>2. Witnessed'
      BY <1>a, <1>b, <2>1 DEF Witnessed
    <2>3. Placed'
      BY <1>a, <2>1 DEF Placed, OfTheChain, Clean, Goes, Running
    <2>4. \A i \in run.passed : Says(i)'
      BY <1>a, <1>b, <2>1, SaysStill DEF Told
    <2>5. \A i \in run'.passed : i = run.at => Says(i)'
      BY <1>5, CheckedSays
    <2> QED
      BY <2>1, <2>2, <2>3, <2>4, <2>5 DEF Passing, Told
  <1>6. CASE Stops
    <2>1. Running /\ run.phase \in {"do", "check"} /\ run'.phase = "end" /\ Goes /\ run'.sound = FALSE
          /\ run'.passed = run.passed /\ run.ended \subseteq run'.ended
          /\ run'.acted \in {run.acted, run.acted \cup {run.at}} /\ stack'.by = stack.by
          /\ UNCHANGED script
      <3>1. stack'.by = stack.by
        BY <1>6, StopsEffect, PerformTypes
      <3> QED
        BY <1>6, <3>1, StopsEffect DEF Stops, ActFails, CheckFails, Timeout
    <2>2. run.ended \subseteq 1 .. run.at - 1 /\ stack.by = "nobody"
      BY <1>a, <2>1 DEF Advances, Placed, OfTheChain
    <2>3. \A j \in run.ended : j \in run'.acted => j \in run.acted
      BY <1>b, <2>1, <2>2
    <2>4. \A i \in run.passed : Says(i)'
      BY <1>a, <1>b, <2>1, <2>3, SaysStill DEF Told
    <2> QED
      BY <2>1, <2>2, <2>4 DEF Passing, Witnessed, Placed, OfTheChain, Told, Clean
  <1>7. CASE Finish
    <2>1. Running /\ run'.phase = "digest" /\ Goes /\ run'.acted = run.acted /\ run'.ended = run.ended
          /\ run'.passed = run.passed /\ run'.sound = run.sound /\ run.phase = "end" /\ UNCHANGED <<script, stack>>
      BY <1>7, FinishEffect
    <2>2. \A i \in run.passed : Says(i)'
      BY <1>a, <1>b, <2>1, SaysStill DEF Told
    <2>3. Placed'
      BY <1>a, <2>1 DEF Placed, OfTheChain, Clean, Goes, Running
    <2> QED
      BY <2>1, <2>2, <2>3 DEF Passing, Witnessed, Told
  <1>8. CASE Close
    <2>1. Running /\ run.phase = "digest" /\ run' = Idle /\ run \in Runs
          /\ stack' = IF run.sound /\ run.fresh THEN [stack EXCEPT !.by = run.driver, !.upto = run.procedure] ELSE stack
      BY <1>8, RunTypes DEF Close, Running
    <2>2. stack'.by # "nobody" => \A step \in stack'.done : step[1] <= stack'.upto
      <3>1. CASE run.sound /\ run.fresh
        <4>1. \A step \in stack.done : step[1] < run.procedure \/ step[1] = run.procedure
          BY <1>a, <2>1, <3>1 DEF Placed, OfTheChain, Clean
        <4>2. stack'.done = stack.done /\ stack'.upto = run.procedure /\ run.procedure \in Nat
              /\ \A step \in stack.done : step[1] \in Nat
          BY <2>1, <3>1 DEF Types, Stacks, Runs, Procedures
        <4> QED
          BY <4>1, <4>2
      <3>2. CASE ~(run.sound /\ run.fresh)
        BY <1>a, <2>1, <3>2 DEF Placed, OfTheChain
      <3> QED
        BY <3>1, <3>2
    <2> QED
      BY <1>a, <2>1, <2>2, QuietPasses DEF Running, Idle
  <1>9. CASE Kill
    BY <1>9, <1>a, QuietPasses DEF Kill, Running, Idle, Placed, OfTheChain
  <1>10. ASSUME NEW d \in Drivers, NEW p \in Procedures, Record(d, p) PROVE Passing'
    BY <1>10, <1>a, QuietPasses DEF Record, MakeRecord, Running, Placed, OfTheChain
  <1>11. CASE ResetAll
    BY <1>11, <1>a, QuietPasses DEF ResetAll, Running, Empty
  <1>12. CASE CarryOver
    BY <1>12, <1>a, QuietPasses DEF CarryOver, Running, Placed, OfTheChain
  <1>13. CASE UNCHANGED vars
    BY <1>13, <1>a DEF vars, Passing, Witnessed, Placed, OfTheChain, Told, Says, Clean, Running
  <1> QED
    BY <1>1, <1>2, <1>4, <1>5, <1>6, <1>7, <1>8, <1>9, <1>10, <1>11, <1>12, <1>13 DEF Next, RunStep, Stops

\* A passed step says what the product did, for any scripts, any number of runs and any runs before.
THEOREM PassesAreTrue == Spec => []PassesSayWhatHappened
  <1>1. Passing => PassesSayWhatHappened
    BY DEF Passing, Told, Says, PassesSayWhatHappened
  <1>2. Spec => []Whole
    BY TypesHold, WholeInit, WholeNext, PTL DEF Spec
  <1>3. Spec => []Passing
    BY <1>2, TypesHold, PassingInit, PassingNext, PTL DEF Spec
  <1> QED
    BY <1>1, <1>3, PTL

-----------------------------------------------------------------------------
(* What two records that agree say of the two drivers *)

StepsUpTo(p) == {s \in (1 .. p) \X Nat : s[2] \in Steps(s[1])}
AddsIn(done) == {s \in done : script[s[1]][s[2]].act = "adds"}

\* Of a step whose check held on a clean stack: through the API, one that adds is in place.
Faithful(d, s, done) == d = "api" /\ script[s[1]][s[2]].act = "adds" => s \in done

\* What is in place is of the procedures up to p, each step faithfully, and acted is p's part of it.
Vouched(d, p, acted, done) ==
  /\ IsFiniteSet(done) /\ done \subseteq StepsUpTo(p)
  /\ \A s \in StepsUpTo(p) : Faithful(d, s, done)
  /\ acted = {i \in Steps(p) : <<p, i>> \in done}
Vouches(d, p, rows, acted) ==
  OnlyAdds(p) => \E done : Vouched(d, p, acted, done) /\ rows = Cardinality(AddsIn(done))

\* The stack between the runs of one driver's chain.
ChainStack ==
  stack.by # "nobody" /\ OnlyAdds(stack.upto) =>
    /\ stack.rows = Cardinality(AddsIn(stack.done))
    /\ \A s \in StepsUpTo(stack.upto) : Faithful(stack.by, s, stack.done)

\* The stack during a clean run.
RunStack ==
  Running /\ Clean =>
    /\ \A i \in Steps(run.procedure) : <<run.procedure, i>> \in stack.done <=> i \in run.acted
    /\ OnlyAdds(run.procedure) =>
         /\ stack.rows = Cardinality(AddsIn(stack.done))
         /\ \A s \in StepsUpTo(run.procedure) :
              s[1] < run.procedure \/ s[2] \in run.ended => Faithful(run.driver, s, stack.done)

ResultsVouch ==
  \A d \in Drivers, p \in Procedures :
    results[d][p] \in Left /\ ~results[d][p].failed /\ results[d][p].fresh =>
      Vouches(d, p, results[d][p].rows, results[d][p].acted)
RecordsVouch ==
  /\ \A d \in Drivers, p \in Procedures :
       records[d][p] \in Made /\ records[d][p].fresh => Vouches(d, p, records[d][p].rows, records[d][p].acted)
  /\ \A d, e \in Drivers, p \in Procedures :
       records[d][p] \in Made /\ records[e][p] \in Made => records[d][p].rows = records[e][p].rows

Counted == IsFiniteSet(stack.done) /\ ChainStack /\ RunStack /\ ResultsVouch /\ RecordsVouch

\* The records of two drivers that left as many rows are of the same additions: what the screen's driver has in
\* place the API's has too, and no more fits in the count.
LEMMA SameAdditions ==
  ASSUME Types, NEW p \in Procedures, OnlyAdds(p), NEW rows, NEW a, NEW u,
         Vouches("api", p, rows, a), Vouches("ui", p, rows, u)
  PROVE  {i \in a : script[p][i].act = "adds"} = {i \in u : script[p][i].act = "adds"}
  <1>1. PICK A : Vouched("api", p, a, A) /\ rows = Cardinality(AddsIn(A))
    BY DEF Vouches
  <1>2. PICK U : Vouched("ui", p, u, U) /\ rows = Cardinality(AddsIn(U))
    BY DEF Vouches
  <1>3. AddsIn(U) \subseteq AddsIn(A)
    <2>1. \A s \in U : s \in StepsUpTo(p) /\ Faithful("api", s, A)
      BY <1>1, <1>2 DEF Vouched
    <2> QED
      BY <2>1 DEF Faithful, AddsIn
  <1>4. IsFiniteSet(AddsIn(A))
    <2>1. IsFiniteSet(A) /\ AddsIn(A) \in SUBSET A
      BY <1>1 DEF Vouched, AddsIn
    <2> QED
      BY <2>1, FS_Subset
  <1>5. AddsIn(U) = AddsIn(A)
    BY <1>1, <1>2, <1>3, <1>4, FS_Subset
  <1>6. \A i \in Steps(p) : <<p, i>>[1] = p /\ <<p, i>>[2] = i
    OBVIOUS
  <1>7. \A i : i \in a /\ script[p][i].act = "adds" <=> i \in Steps(p) /\ <<p, i>> \in AddsIn(A)
    BY <1>1, <1>6 DEF Vouched, AddsIn
  <1>8. \A i : i \in u /\ script[p][i].act = "adds" <=> i \in Steps(p) /\ <<p, i>> \in AddsIn(U)
    BY <1>2, <1>6 DEF Vouched, AddsIn
  <1> QED
    BY <1>5, <1>7, <1>8

\* Hence the property.
LEMMA CountedAgrees == Types /\ Counted => CleanPairsAgree
  <1> SUFFICES ASSUME Types, Counted, NEW p \in Procedures,
                      \A d \in Drivers : records[d][p].made /\ records[d][p].fresh, OnlyAdds(p)
               PROVE  Added("api", p) = Added("ui", p)
    BY DEF CleanPairsAgree
  <1>1. "api" \in Drivers /\ "ui" \in Drivers
    BY DEF Drivers
  <1>2. \A d \in Drivers : records[d][p] \in Made /\ records[d][p].fresh
    BY DEF Types, NoRecord
  <1>3. \A d \in Drivers : Vouches(d, p, records[d][p].rows, records[d][p].acted)
    BY <1>2 DEF Counted, RecordsVouch
  <1>4. records["api"][p].rows = records["ui"][p].rows
    BY <1>1, <1>2 DEF Counted, RecordsVouch
  <1> DEFINE rows == records["api"][p].rows
  <1>5. Vouches("api", p, rows, records["api"][p].acted) /\ Vouches("ui", p, rows, records["ui"][p].acted)
    BY <1>1, <1>3, <1>4
  <1> HIDE DEF rows
  <1> QED
    BY <1>5, SameAdditions DEF Added

\* The script stays, and with it everything that is said in its terms.
LEMMA ScriptStays ==
  ASSUME UNCHANGED script
  PROVE  /\ \A p : StepsUpTo(p)' = StepsUpTo(p) /\ (OnlyAdds(p)' <=> OnlyAdds(p)) /\ Steps(p)' = Steps(p)
         /\ \A done : AddsIn(done)' = AddsIn(done)
         /\ \A d, s, done : Faithful(d, s, done)' <=> Faithful(d, s, done)
         /\ \A d, p, rows, acted : Vouches(d, p, rows, acted)' <=> Vouches(d, p, rows, acted)
  BY DEF StepsUpTo, OnlyAdds, Steps, AddsIn, Faithful, Vouches, Vouched

\* Nothing is in place at first and nothing is recorded.
LEMMA CountedInit == Init => Counted
  <1> SUFFICES ASSUME Init PROVE Counted
    OBVIOUS
  <1>1. stack.by = "nobody" /\ stack.done = {} /\ ~Running
    BY DEF Init, Empty, Idle, Running
  <1>2. IsFiniteSet(stack.done)
    BY <1>1, FS_EmptySet
  <1>3. (\A left \in Left : left.closed = TRUE) /\ (\A made \in Made : made.made = TRUE)
        /\ Unfinished.closed = FALSE /\ NoRecord.made = FALSE
    BY DEF Left, Made, Unfinished, NoRecord
  <1>4. Unfinished \notin Left /\ NoRecord \notin Made
    BY <1>3
  <1>5. ResultsVouch /\ RecordsVouch
    BY <1>4 DEF Init, ResultsVouch, RecordsVouch
  <1> QED
    BY <1>1, <1>2, <1>5 DEF Counted, ChainStack, RunStack

\* What was left keeps vouching as long as it is left alone.
LEMMA LeftVouches ==
  ASSUME ResultsVouch, RecordsVouch, UNCHANGED <<script, results, records>>
  PROVE  ResultsVouch' /\ RecordsVouch'
  <1>1. \A d, p, rows, acted : Vouches(d, p, rows, acted)' <=> Vouches(d, p, rows, acted)
    BY ScriptStays
  <1>2. results' = results /\ records' = records
    OBVIOUS
  <1>3. ResultsVouch'
    BY <1>1, <1>2 DEF ResultsVouch
  <1>4. RecordsVouch'
    BY <1>1, <1>2 DEF RecordsVouch
  <1> QED
    BY <1>3, <1>4

\* A chain of additions is one of fewer additions, up to any of its procedures.
LEMMA AddsBefore ==
  ASSUME NEW p \in Procedures, OnlyAdds(p)
  PROVE  OnlyAdds(p - 1)
  BY ChainAssumption DEF Procedures, OnlyAdds

\* An accepted addition is one row, and any other act of such a chain none.
LEMMA OneMore ==
  ASSUME Types, Running, OnlyAdds(run.procedure), IsFiniteSet(stack.done), Here \notin stack.done
  PROVE  Cardinality(AddsIn(stack.done \cup {Here})) = Cardinality(AddsIn(stack.done)) + Rows(Step.act)
  <1>1. Step = script[Here[1]][Here[2]] /\ Step \in Shape /\ Step.act # "removes"
    <2>1. Here = <<run.procedure, run.at>> /\ run.procedure \in Procedures /\ run.at \in Steps(run.procedure)
      BY RunTypes DEF InItsScript
    <2>2. run.procedure \in 1 .. run.procedure
      BY <2>1 DEF Procedures
    <2> QED
      BY <2>1, <2>2, RunTypes DEF Step, OnlyAdds
  <1>2. IsFiniteSet(AddsIn(stack.done)) /\ Here \notin AddsIn(stack.done) /\ Cardinality(AddsIn(stack.done)) \in Nat
    <2>1. AddsIn(stack.done) \in SUBSET stack.done
      BY DEF AddsIn
    <2> QED
      BY <2>1, FS_Subset, FS_CardinalityType
  <1>3. CASE Step.act = "adds"
    <2>1. AddsIn(stack.done \cup {Here}) = AddsIn(stack.done) \cup {Here} /\ Rows(Step.act) = 1
      BY <1>1, <1>3 DEF AddsIn, Rows
    <2> QED
      BY <1>2, <2>1, FS_AddElement
  <1>4. CASE Step.act # "adds"
    <2>1. AddsIn(stack.done \cup {Here}) = AddsIn(stack.done) /\ Rows(Step.act) = 0
      BY <1>1, <1>4 DEF AddsIn, Rows
    <2> QED
      BY <1>2, <2>1
  <1> QED
    BY <1>3, <1>4

\* A run begins where its driver's chain left the stack.
LEMMA CountedStart ==
  ASSUME Types, Types', Passing, Counted, NEW d \in Drivers, NEW p \in Procedures, NEW from \in Steps(p), Start(d, p, from)
  PROVE  RunStack'
  <1>1. run'.driver = d /\ run'.procedure = p /\ run'.ended = {} /\ run'.acted = {} /\ script' = script
    BY StartEffect DEF Start
  <1>2. p \in Nat /\ p >= 1 /\ d # "nobody"
    BY ChainAssumption DEF Procedures, Drivers
  <1>3. SUFFICES ASSUME run'.fresh
                 PROVE  /\ \A i \in Steps(p) : <<p, i>> \notin stack'.done
                        /\ OnlyAdds(p) =>
                             /\ stack'.rows = Cardinality(AddsIn(stack'.done))
                             /\ \A s \in StepsUpTo(p) : s[1] < p => Faithful(d, s, stack'.done)
    BY <1>1, ScriptStays DEF RunStack, Clean
  <1>4. CASE p = 1
    <2>1. stack'.done = {} /\ stack'.rows = 0
      BY <1>3, <1>4, StartEffect
    <2>2. AddsIn({}) = {} /\ Cardinality({}) = 0
      BY FS_EmptySet DEF AddsIn
    <2>3. \A s \in StepsUpTo(p) : ~(s[1] < p)
      BY <1>4 DEF StepsUpTo
    <2> QED
      BY <2>1, <2>2, <2>3
  <1>5. CASE p # 1
    <2>1. stack.by = d /\ stack.upto = p - 1 /\ stack'.done = stack.done /\ stack'.rows = stack.rows
      BY <1>3, <1>5, StartEffect
    <2>2. \A i \in Steps(p) : <<p, i>> \notin stack'.done
      <3>1. \A step \in stack.done : step[1] <= p - 1
        BY <1>2, <2>1 DEF Passing, Placed
      <3> QED
        BY <1>2, <2>1, <3>1
    <2>3. \A s \in StepsUpTo(p) : s[1] < p => s \in StepsUpTo(p - 1)
      BY <1>2 DEF StepsUpTo
    <2> QED
      BY <1>2, <2>1, <2>2, <2>3, AddsBefore DEF Counted, ChainStack
  <1> QED
    BY <1>4, <1>5

\* An act is counted, and the steps before it keep their word.
LEMMA CountedAct ==
  ASSUME Types, Types', Whole, Passing, Counted, Act
  PROVE  RunStack' /\ IsFiniteSet(stack'.done) /\ stack'.by = "nobody"
  <1>1. Running /\ run.phase = "do" /\ run'.phase = "check" /\ Goes /\ run'.at = run.at /\ run'.ended = run.ended
        /\ run'.acted = (IF run'.accepted THEN run.acted \cup {run.at} ELSE run.acted) /\ run'.sound = run.sound
        /\ Perform(run'.accepted) /\ run'.accepted \in BOOLEAN /\ script' = script
    BY ActEffect DEF Act, Goes, Runs
  <1>2. stack'.done = (IF run'.accepted THEN stack.done \cup {Here} ELSE stack.done) /\ stack'.by = stack.by
        /\ stack'.rows = (IF run'.accepted THEN stack.rows + Rows(Step.act) ELSE stack.rows)
    BY <1>1, PerformTypes
  <1>3. stack'.by = "nobody"
    BY <1>1, <1>2 DEF Passing, Placed
  <1>4. IsFiniteSet(stack'.done)
    BY <1>2, FS_AddElement DEF Counted
  <1>5. Here = <<run.procedure, run.at>> /\ run.at \in Steps(run.procedure) /\ run.at \in Nat /\ run.procedure \in Nat
    BY <1>1, RunTypes DEF InItsScript, Procedures
  <1>6. run.at \notin run.acted /\ run.at \notin run.ended
    BY <1>1, <1>5 DEF Passing, Witnessed, Whole, Advances
  <1>7. SUFFICES ASSUME Clean PROVE RunStack'
    BY <1>1, <1>3, <1>4 DEF RunStack, Clean, Goes
  <1>8. /\ \A i \in Steps(run.procedure) : <<run.procedure, i>> \in stack.done <=> i \in run.acted
        /\ OnlyAdds(run.procedure) =>
             /\ stack.rows = Cardinality(AddsIn(stack.done))
             /\ \A s \in StepsUpTo(run.procedure) :
                  s[1] < run.procedure \/ s[2] \in run.ended => Faithful(run.driver, s, stack.done)
    BY <1>1, <1>7 DEF Counted, RunStack
  <1>9. Here \notin stack.done
    BY <1>5, <1>6, <1>8
  <1>10. \A i \in Steps(run.procedure) : <<run.procedure, i>> \in stack'.done <=> i \in run'.acted
    BY <1>1, <1>2, <1>5, <1>8
  <1>11. ASSUME OnlyAdds(run.procedure)
         PROVE  /\ stack'.rows = Cardinality(AddsIn(stack'.done))
                /\ \A s \in StepsUpTo(run.procedure) :
                     s[1] < run.procedure \/ s[2] \in run.ended => Faithful(run.driver, s, stack'.done)
    <2>1. stack'.rows = Cardinality(AddsIn(stack'.done))
      BY <1>1, <1>2, <1>8, <1>9, <1>11, OneMore DEF Counted
    <2>2. \A s \in StepsUpTo(run.procedure) : s[1] < run.procedure \/ s[2] \in run.ended => s # Here
      BY <1>5, <1>6
    <2>3. \A s : s # Here => (s \in stack'.done <=> s \in stack.done)
      BY <1>2
    <2> QED
      BY <1>8, <1>11, <2>1, <2>2, <2>3 DEF Faithful
  <1> QED
    BY <1>1, <1>10, <1>11, ScriptStays DEF RunStack, Goes

\* A check that holds is the step's word.
LEMMA CountedCheck ==
  ASSUME Types, Types', Whole, Passing, Counted, Check
  PROVE  RunStack'
  <1>1. Running /\ run.phase = "check" /\ Goes /\ Holds /\ run'.acted = run.acted /\ run'.sound = run.sound
        /\ run'.ended = run.ended \cup {run.at} /\ UNCHANGED <<script, stack>>
    BY CheckEffect DEF Check
  <1>2. Here = <<run.procedure, run.at>> /\ run.at \in Steps(run.procedure) /\ Step = script[Here[1]][Here[2]]
        /\ Step \in Shape /\ run.driver \in Drivers /\ run.procedure \in Procedures
    BY <1>1, RunTypes DEF InItsScript, Step
  <1>3. run.accepted <=> run.at \in run.acted
    BY <1>1 DEF Passing, Witnessed
  <1>4. SUFFICES ASSUME Clean PROVE RunStack'
    BY <1>1 DEF RunStack, Clean, Goes
  <1>5. /\ \A i \in Steps(run.procedure) : <<run.procedure, i>> \in stack.done <=> i \in run.acted
        /\ OnlyAdds(run.procedure) =>
             /\ stack.rows = Cardinality(AddsIn(stack.done))
             /\ \A s \in StepsUpTo(run.procedure) :
                  s[1] < run.procedure \/ s[2] \in run.ended => Faithful(run.driver, s, stack.done)
    BY <1>1, <1>4 DEF Counted, RunStack
  <1>6. Here \in stack.done <=> run.accepted
    BY <1>2, <1>3, <1>5
  <1>7. ASSUME OnlyAdds(run.procedure) PROVE Faithful(run.driver, Here, stack.done)
    <2>1. Step.act = "adds" => ~Step.page /\ Step.expects = "effect"
      <3>1. run.procedure \in 1 .. run.procedure
        BY <1>2 DEF Procedures
      <3> QED
        BY <1>2, <1>7, <3>1 DEF OnlyAdds, Step
    <2>2. run.driver = "api" /\ Step.act = "adds" => run.accepted
      BY <1>1, <2>1 DEF Holds, ApiHolds
    <2> QED
      BY <1>2, <1>6, <2>2 DEF Faithful
  <1>8. ASSUME OnlyAdds(run.procedure)
        PROVE  \A s \in StepsUpTo(run.procedure) :
                 s[1] < run.procedure \/ s[2] \in run'.ended => Faithful(run.driver, s, stack.done)
    <2> SUFFICES ASSUME NEW s \in StepsUpTo(run.procedure), s[1] < run.procedure \/ s[2] \in run'.ended
                 PROVE  Faithful(run.driver, s, stack.done)
      OBVIOUS
    <2>1. CASE s[1] < run.procedure \/ s[2] \in run.ended
      BY <1>5, <1>8, <2>1
    <2>2. CASE ~(s[1] < run.procedure) /\ s[2] = run.at
      <3>1. s = <<s[1], s[2]>> /\ s[1] \in 1 .. run.procedure
        BY DEF StepsUpTo
      <3>2. s = Here
        BY <1>2, <2>2, <3>1 DEF Procedures
      <3> QED
        BY <1>7, <1>8, <3>2
    <2> QED
      BY <1>1, <2>1, <2>2
  <1> QED
    BY <1>1, <1>5, <1>8, ScriptStays DEF RunStack, Goes

\* A clean run that comes to its end vouches for its procedure, and the stack for the chain.
LEMMA CountedClose ==
  ASSUME Types, Types', Whole, Passing, Counted, Close
  PROVE  Counted'
  <1>1. Running /\ run.phase = "digest" /\ run' = Idle /\ run \in Runs /\ InItsScript
        /\ run.driver \in Drivers /\ run.procedure \in Procedures /\ run.procedure \in Nat
    BY RunTypes DEF Close, Running, Procedures
  <1>2. stack' = (IF run.sound /\ run.fresh THEN [stack EXCEPT !.by = run.driver, !.upto = run.procedure] ELSE stack)
        /\ UNCHANGED <<script, records>>
    BY DEF Close
  <1>3. PICK read \in BOOLEAN :
          results' = [results EXCEPT ![run.driver][run.procedure] =
            [closed |-> TRUE, ended |-> run.ended, failed |-> run.failed \/ ~read, rows |-> IF read THEN stack.rows ELSE 0,
             acted |-> IF run.sound THEN run.acted ELSE {}, sound |-> run.sound, fresh |-> run.sound /\ run.fresh]]
    BY DEF Close
  <1>4. stack'.done = stack.done /\ stack'.rows = stack.rows /\ stack \in Stacks
    BY <1>2 DEF Types, Stacks
  <1>5. ASSUME run.sound, run.fresh
        PROVE  /\ OnlyAdds(run.procedure) =>
                    /\ stack.rows = Cardinality(AddsIn(stack.done))
                    /\ \A s \in StepsUpTo(run.procedure) : Faithful(run.driver, s, stack.done)
               /\ Vouches(run.driver, run.procedure, stack.rows, run.acted)
    <2>1. Clean /\ run.ended = Steps(run.procedure)
      BY <1>1, <1>5 DEF Clean, Whole, Advances
    <2>2. \A s \in StepsUpTo(run.procedure) : s[1] < run.procedure \/ s[2] \in run.ended
      BY <1>1, <2>1 DEF StepsUpTo
    <2>3. /\ \A i \in Steps(run.procedure) : <<run.procedure, i>> \in stack.done <=> i \in run.acted
          /\ OnlyAdds(run.procedure) =>
               /\ stack.rows = Cardinality(AddsIn(stack.done))
               /\ \A s \in StepsUpTo(run.procedure) :
                    s[1] < run.procedure \/ s[2] \in run.ended => Faithful(run.driver, s, stack.done)
      BY <1>1, <2>1 DEF Counted, RunStack
    <2>4. stack.done \subseteq StepsUpTo(run.procedure)
      <3>1. \A step \in stack.done : step[1] <= run.procedure
        BY <1>1, <1>4, <2>1 DEF Passing, Placed, OfTheChain, Stacks, Procedures
      <3>2. \A step \in stack.done : step \in Procedures \X Nat /\ step[2] \in Steps(step[1])
        BY DEF Types, Stacks
      <3> QED
        BY <1>1, <3>1, <3>2 DEF StepsUpTo, Procedures
    <2>5. run.acted = {i \in Steps(run.procedure) : <<run.procedure, i>> \in stack.done}
      BY <1>1, <2>3 DEF InItsScript
    <2>6. OnlyAdds(run.procedure) => Vouched(run.driver, run.procedure, run.acted, stack.done)
      BY <2>2, <2>3, <2>4, <2>5 DEF Vouched, Counted
    <2> QED
      BY <2>2, <2>3, <2>6 DEF Vouches
  <1>6. ChainStack'
    <2>1. CASE run.sound /\ run.fresh
      <3>1. stack'.by = run.driver /\ stack'.upto = run.procedure
        BY <1>2, <1>4, <2>1 DEF Stacks
      <3> QED
        BY <1>2, <1>4, <1>5, <2>1, <3>1, ScriptStays DEF ChainStack
    <2>2. CASE ~(run.sound /\ run.fresh)
      BY <1>2, <2>2, ScriptStays DEF ChainStack, Counted
    <2> QED
      BY <2>1, <2>2
  <1>7. ResultsVouch'
    <2> SUFFICES ASSUME NEW d \in Drivers, NEW p \in Procedures,
                        results'[d][p] \in Left, ~results'[d][p].failed, results'[d][p].fresh
                 PROVE  Vouches(d, p, results'[d][p].rows, results'[d][p].acted)
      BY <1>2, ScriptStays DEF ResultsVouch
    <2>1. CASE d = run.driver /\ p = run.procedure
      <3>1. results'[d][p] = [closed |-> TRUE, ended |-> run.ended, failed |-> run.failed \/ ~read,
              rows |-> IF read THEN stack.rows ELSE 0, acted |-> IF run.sound THEN run.acted ELSE {},
              sound |-> run.sound, fresh |-> run.sound /\ run.fresh]
        BY <1>1, <1>3, <2>1 DEF Types
      <3>2. run.sound /\ run.fresh /\ read
        BY <3>1
      <3>3. results'[d][p].rows = stack.rows /\ results'[d][p].acted = run.acted
        BY <3>1, <3>2
      <3> QED
        BY <1>5, <2>1, <3>2, <3>3
    <2>2. CASE ~(d = run.driver /\ p = run.procedure)
      <3>1. results'[d][p] = results[d][p]
        BY <1>1, <1>3, <2>2 DEF Types
      <3> QED
        BY <3>1 DEF Counted, ResultsVouch
    <2> QED
      BY <2>1, <2>2
  <1>8. RecordsVouch'
    <2>1. records' = records /\ \A d, p, rows, acted : Vouches(d, p, rows, acted)' <=> Vouches(d, p, rows, acted)
      BY <1>2, ScriptStays
    <2> QED
      BY <2>1 DEF Counted, RecordsVouch
  <1>9. ~Running'
    BY <1>1 DEF Running, Idle
  <1> QED
    BY <1>4, <1>6, <1>7, <1>8, <1>9 DEF Counted, RunStack

\* A record says what the results said, and as many rows as the other driver's.
LEMMA CountedRecord ==
  ASSUME Types, Types', Counted, NEW d \in Drivers, NEW p \in Procedures, Record(d, p)
  PROVE  Counted'
  <1> DEFINE left == results[d][p]
             made == [made |-> TRUE, rows |-> left.rows, acted |-> left.acted, sound |-> left.sound, fresh |-> left.fresh]
  <1>1. left \in Left /\ ~left.failed /\ (records[OtherDriver(d)][p].made => records[OtherDriver(d)][p].rows = left.rows)
        /\ records' = [records EXCEPT ![d][p] = made] /\ UNCHANGED <<script, stack, run, results>> /\ ~Running
    BY DEF Record, MakeRecord, Types, Unfinished
  <1>2. made.rows = left.rows /\ made.acted = left.acted /\ made.fresh = left.fresh
    OBVIOUS
  <1>3. records'[d][p] = made /\ \A e \in Drivers, q \in Procedures : e # d \/ q # p => records'[e][q] = records[e][q]
    BY <1>1 DEF Types
  <1>4. made.fresh => Vouches(d, p, made.rows, made.acted)
    BY <1>1, <1>2 DEF Counted, ResultsVouch
  <1>5. \A e \in Drivers : e # d => e = OtherDriver(d)
    BY DEF Drivers, OtherDriver
  <1>6. \A e \in Drivers : e # d /\ records[e][p] \in Made => records[e][p].rows = made.rows
    <2>1. \A m \in Made : m.made = TRUE
      BY DEF Made
    <2> QED
      BY <1>1, <1>2, <1>5, <2>1
  <1> HIDE DEF made, left
  <1>7. \A e \in Drivers, q \in Procedures :
          records'[e][q] \in Made /\ records'[e][q].fresh => Vouches(e, q, records'[e][q].rows, records'[e][q].acted)
    BY <1>3, <1>4 DEF Counted, RecordsVouch
  <1>8. \A e, f \in Drivers, q \in Procedures :
          records'[e][q] \in Made /\ records'[f][q] \in Made => records'[e][q].rows = records'[f][q].rows
    BY <1>3, <1>6 DEF Counted, RecordsVouch
  <1>9. RecordsVouch'
    BY <1>1, <1>7, <1>8, ScriptStays DEF RecordsVouch
  <1>10. ResultsVouch'
    <2>1. results' = results /\ \A e, q, rows, acted : Vouches(e, q, rows, acted)' <=> Vouches(e, q, rows, acted)
      BY <1>1, ScriptStays
    <2> QED
      BY <2>1 DEF Counted, ResultsVouch
  <1>11. ~Running' /\ ChainStack'
    BY <1>1, ScriptStays DEF Counted, ChainStack, Running
  <1> QED
    BY <1>1, <1>9, <1>10, <1>11 DEF Counted, RunStack

\* Every step keeps the count.
LEMMA CountedNext == Types /\ Types' /\ Whole /\ Passing /\ Counted /\ [Next]_vars => Counted'
  <1> SUFFICES ASSUME Types, Types', Whole, Passing, Counted, [Next]_vars PROVE Counted'
    OBVIOUS
  <1>a. IsFiniteSet(stack.done) /\ ChainStack /\ RunStack /\ ResultsVouch /\ RecordsVouch
    BY DEF Counted
  <1>b. IsFiniteSet({}) /\ Empty.done = {} /\ Empty.by = "nobody"
    BY FS_EmptySet DEF Empty
  <1>1. ASSUME NEW d \in Drivers, NEW p \in Procedures, NEW from \in Steps(p), Start(d, p, from) PROVE Counted'
    <2>1. stack'.by = "nobody" /\ IsFiniteSet(stack'.done)
      BY <1>1, <1>a, <1>b, StartEffect
    <2>2. results' = [results EXCEPT ![d][p] = Unfinished] /\ UNCHANGED <<script, records>>
      BY <1>1 DEF Start
    <2>3. Unfinished \notin Left
      <3>1. Unfinished.closed = FALSE /\ \A left \in Left : left.closed = TRUE
        BY DEF Unfinished, Left
      <3> QED
        BY <3>1
    <2>4. \A e \in Drivers, q \in Procedures : results'[e][q] \in Left => results'[e][q] = results[e][q]
      BY <2>2, <2>3 DEF Types
    <2>5. \A e, q, rows, acted : Vouches(e, q, rows, acted)' <=> Vouches(e, q, rows, acted)
      BY <2>2, ScriptStays
    <2>6. ResultsVouch'
      BY <1>a, <2>4, <2>5 DEF ResultsVouch
    <2>7. RecordsVouch'
      BY <1>a, <2>2, <2>5 DEF RecordsVouch
    <2> QED
      BY <1>1, <2>1, <2>6, <2>7, CountedStart DEF Counted, ChainStack
  <1>2. ASSUME NEW d \in Drivers, NEW p \in Procedures, StartFails(d, p) PROVE Counted'
    <2>1. run'.phase = "end" /\ run'.sound = FALSE /\ stack' \in {Empty, stack} /\ UNCHANGED <<script, results, records>>
      BY <1>2, StartFailsEffect DEF StartFails
    <2>2. ChainStack' /\ IsFiniteSet(stack'.done)
      BY <1>a, <1>b, <2>1, ScriptStays DEF ChainStack
    <2> QED
      BY <1>a, <2>1, <2>2, LeftVouches DEF Counted, RunStack, Clean
  <1>3. ASSUME NEW d \in Drivers, NEW p \in Procedures, Record(d, p) PROVE Counted'
    BY <1>3, CountedRecord
  <1>4. CASE Act
    BY <1>4, <1>a, CountedAct, LeftVouches DEF Counted, ChainStack, Act
  <1>5. CASE Check
    <2>1. UNCHANGED <<script, stack, results, records>>
      BY <1>5 DEF Check
    <2>2. ChainStack'
      BY <1>a, <2>1, ScriptStays DEF ChainStack
    <2> QED
      BY <1>5, <1>a, <2>1, <2>2, CountedCheck, LeftVouches DEF Counted
  <1>6. CASE Stops
    <2>1. run'.phase = "end" /\ run'.sound = FALSE /\ Running /\ run.phase \in {"do", "check"}
          /\ UNCHANGED <<script, results, records>>
          /\ (stack' = stack \/ Perform(TRUE) \/ Perform(FALSE))
      BY <1>6, StopsEffect DEF Stops, ActFails, CheckFails, Timeout
    <2>2. stack'.by = "nobody" /\ IsFiniteSet(stack'.done)
      <3>1. stack.by = "nobody"
        BY <2>1 DEF Passing, Placed
      <3>2. CASE Perform(TRUE)
        <4>1. stack'.by = stack.by /\ stack'.done = stack.done \cup {Here}
          BY <2>1, <3>2, PerformTypes
        <4> QED
          BY <1>a, <3>1, <4>1, FS_AddElement
      <3>3. CASE Perform(FALSE)
        BY <1>a, <2>1, <3>1, <3>3, PerformTypes
      <3> QED
        BY <1>a, <2>1, <3>1, <3>2, <3>3
    <2> QED
      BY <1>a, <2>1, <2>2, LeftVouches DEF Counted, ChainStack, RunStack, Clean
  <1>7. CASE Finish
    <2>1. Running /\ Goes /\ run'.acted = run.acted /\ run'.ended = run.ended /\ run'.sound = run.sound
          /\ run.phase = "end" /\ run'.phase = "digest" /\ UNCHANGED <<script, stack, results, records>>
      BY <1>7, FinishEffect
    <2>2. ChainStack'
      BY <1>a, <2>1, ScriptStays DEF ChainStack
    <2>3. RunStack'
      BY <1>a, <2>1, ScriptStays DEF RunStack, Clean, Goes
    <2> QED
      BY <1>a, <2>1, <2>2, <2>3, LeftVouches DEF Counted
  <1>8. CASE Close
    BY <1>8, CountedClose
  <1>9. CASE Kill \/ CarryOver
    <2>1. ~Running' /\ UNCHANGED <<script, stack, results, records>>
      BY <1>9 DEF Kill, CarryOver, Running, Idle
    <2>2. ChainStack'
      BY <1>a, <2>1, ScriptStays DEF ChainStack
    <2> QED
      BY <1>a, <2>1, <2>2, LeftVouches DEF Counted, RunStack
  <1>10. CASE ResetAll
    <2>1. ~Running' /\ stack' = Empty /\ UNCHANGED <<script, results, records>>
      BY <1>10 DEF ResetAll, Running
    <2> QED
      BY <1>a, <1>b, <2>1, LeftVouches DEF Counted, ChainStack, RunStack
  <1>11. CASE UNCHANGED vars
    <2>1. UNCHANGED <<script, stack, run, results, records>>
      BY <1>11 DEF vars
    <2>2. ChainStack'
      BY <1>a, <2>1, ScriptStays DEF ChainStack
    <2>3. RunStack'
      BY <1>a, <2>1, ScriptStays DEF RunStack, Clean, Running
    <2> QED
      BY <1>a, <2>1, <2>2, <2>3, LeftVouches DEF Counted
  <1> QED
    BY <1>1, <1>2, <1>3, <1>4, <1>5, <1>6, <1>7, <1>8, <1>9, <1>10, <1>11 DEF Next, RunStep, Stops

\* Two records made from each driver's own chain are of the same additions, for any number of procedures of any
\* length: the counts of the rows are enough to tell.
THEOREM CleanPairsDoAgree == Spec => []CleanPairsAgree
  <1>1. Spec => []Whole
    BY TypesHold, WholeInit, WholeNext, PTL DEF Spec
  <1>2. Spec => []Passing
    BY <1>1, TypesHold, PassingInit, PassingNext, PTL DEF Spec
  <1>3. Spec => []Counted
    BY <1>1, <1>2, TypesHold, CountedInit, CountedNext, PTL DEF Spec
  <1> QED
    BY <1>3, TypesHold, CountedAgrees, PTL
=============================================================================
