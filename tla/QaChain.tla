------------------------------ MODULE QaChain ------------------------------
(***************************************************************************)
(* The QA procedures run by their two drivers on one stack: the chain of   *)
(* procedures, the steps of a run, what is written of it and the record.   *)
(*                                                                         *)
(* Source: qa/src/runtime (procedure.ts, state.ts, results.ts, the two     *)
(* drivers), qa/src/record/record.ts, qa/src/cli.ts, and the compiled      *)
(* scripts' hooks (compile.ts). The scripts run serially with one worker.  *)
(*                                                                         *)
(* The product is the environment: it accepts or refuses an act. A record  *)
(* of a step is its index in its procedure's script.                       *)
(***************************************************************************)
EXTENDS Integers, Sequences, FiniteSets

CONSTANTS
  Last,      \* the procedures are 1 .. Last, each after the one before
  Scripts,   \* the scripts to choose from: the steps of every procedure
  MaxRuns    \* how many runs are started

Drivers == {"api", "ui"}
Procedures == 1 .. Last

\* act: what an accepted act does to the rows; page: the page acts on its own and the API driver does not;
\* expects: what closes the step - the effect it has, a capture alone that measures something (the scenario lists
\* no outcome), a refusal, a control the page withholds; shown: the drivers that can tell whether it took effect.
Shape == [act : {"adds", "removes", "changes", "reads"}, page : BOOLEAN,
          expects : {"effect", "measured", "refused", "withheld"}, shown : SUBSET Drivers]

\* A scenario has a section with a case, and a case is a step.
ASSUME ChainAssumption ==
  /\ Last \in Nat \ {0} /\ MaxRuns \in Nat
  /\ Scripts \subseteq [Procedures -> Seq(Shape)]
  /\ \A s \in Scripts, p \in Procedures : s[p] # <<>>

VARIABLES
  script,    \* the steps of every procedure
  stack,     \* the product: the steps in place and the rows, since the last reset
  chain,     \* per driver, the procedures its state file says finished
  run,       \* the run under way
  results,   \* per driver and procedure, what its last run left
  records,   \* per driver and procedure, the committed record
  starts     \* runs started so far

vars == <<script, stack, chain, run, results, records, starts>>

Empty == [done |-> {}, rows |-> 0, by |-> "nobody", upto |-> 0]
Idle == [phase |-> "none"]
Unfinished == [closed |-> FALSE]
NoRecord == [made |-> FALSE]

Steps(p) == DOMAIN script[p]
Rows(act) == CASE act = "adds" -> 1 [] act = "removes" -> -1 [] OTHER -> 0

Running == run.phase # "none"
Step == script[run.procedure][run.at]
Here == <<run.procedure, run.at>>

Init ==
  /\ script \in Scripts
  /\ stack = Empty /\ run = Idle /\ starts = 0
  /\ chain = [d \in Drivers |-> {}]
  /\ results = [d \in Drivers |-> [p \in Procedures |-> Unfinished]]
  /\ records = [d \in Drivers |-> [p \in Procedures |-> NoRecord]]

-----------------------------------------------------------------------------
(* beforeAll *)

\* A run of the procedure's steps from `from` on; the ghosts: acted, the acts the product accepted; sound, the
\* run was of the whole procedure and nothing cut it short; fresh, the stack held the chain before it and no more.
NewRun(d, p, from, before) ==
  [phase |-> "do", driver |-> d, procedure |-> p, at |-> from, started |-> TRUE, accepted |-> FALSE,
   noticed |-> FALSE, ended |-> {}, passed |-> {}, failed |-> FALSE, acted |-> {},
   sound |-> from = 1, fresh |-> from = 1 /\ (IF p = 1 THEN before = Empty ELSE before.by = d /\ before.upto = p - 1)]

\* Procedure 1 resets the stack, unless it is told not to, and clears its own driver's chain. A later one looks
\* its predecessor up in its driver's chain. Some of the cases may be run alone.
Start(d, p, from) ==
  /\ ~Running /\ starts < MaxRuns /\ from \in Steps(p)
  /\ p > 1 => p - 1 \in chain[d]
  /\ \E before \in IF p = 1 THEN {Empty, stack} ELSE {stack} :
       /\ run' = NewRun(d, p, from, before)
       /\ stack' = [before EXCEPT !.by = "nobody"]
  /\ chain' = IF p = 1 THEN [chain EXCEPT ![d] = {}] ELSE chain
  /\ results' = [results EXCEPT ![d][p] = Unfinished]
  /\ starts' = starts + 1
  /\ UNCHANGED <<script, records>>

\* The predecessor has not run, or the mailbox could not be emptied after the reset: no step runs, afterAll does.
StartFails(d, p) ==
  /\ ~Running /\ starts < MaxRuns
  /\ p > 1 => p - 1 \notin chain[d]
  /\ run' = [NewRun(d, p, 1, stack) EXCEPT !.phase = "end", !.started = FALSE, !.sound = FALSE]
  /\ stack' \in IF p = 1 THEN {Empty, stack} ELSE {stack}
  /\ starts' = starts + 1
  /\ UNCHANGED <<script, chain, results, records>>

-----------------------------------------------------------------------------
(* The steps *)

Perform(ok) ==
  stack' = IF ok THEN [stack EXCEPT !.done = @ \cup {Here}, !.rows = @ + Rows(Step.act)] ELSE stack

\* A refusal prints a notice; a control the page withholds is not clicked and prints none.
Notices(ok) == IF ok \/ run.driver = "api" THEN {run.noticed} ELSE {run.noticed, TRUE}

Act ==
  /\ run.phase = "do"
  /\ \E ok \in IF run.driver = "api" /\ Step.page THEN {FALSE} ELSE BOOLEAN :
       /\ Perform(ok)
       /\ \E noticed \in Notices(ok) :
            run' = [run EXCEPT !.phase = "check", !.accepted = ok, !.noticed = noticed,
                               !.acted = IF ok THEN @ \cup {run.at} ELSE @]
  /\ UNCHANGED <<script, chain, results, records, starts>>

\* The page cannot be driven, or the call cannot be made: before the act took effect, or after.
ActFails ==
  /\ run.phase = "do"
  /\ \E ok \in BOOLEAN :
       /\ Perform(ok)
       /\ run' = [run EXCEPT !.phase = "end", !.ended = @ \cup {run.at}, !.failed = TRUE, !.sound = FALSE,
                             !.acted = IF ok THEN @ \cup {run.at} ELSE @]
  /\ UNCHANGED <<script, chain, results, records, starts>>

Shown == run.driver \in Step.shown
InPlace == Here \in stack.done

\* An API driver that does not look at the answer of an act whose effect it cannot read.
ApiHoldsUnread ==
  \/ Step.page
  \/ Step.expects \in {"effect", "measured"} /\ (Shown => InPlace)
  \/ Step.expects \in {"refused", "withheld"} /\ ~run.accepted
\* The API driver knows from the answer; a page-only act is n/a for it. A step that a capture closes is not asked
\* whether its act was accepted, and a refused one's effect is not looked for.
ApiHolds ==
  \/ Step.page
  \/ Step.expects = "effect" /\ run.accepted /\ (Shown => InPlace)
  \/ Step.expects = "measured" /\ (run.accepted /\ Shown => InPlace)
  \/ Step.expects \in {"refused", "withheld"} /\ ~run.accepted
\* The UI driver knows from the screen: the effect where it can be read, the notice of the rule among those the
\* page has shown since it was loaded. That a control is disabled after the step is the page's answer, whatever
\* became of the act: it may be read (Check) or not (CheckFails).
UiHolds ==
  CASE Step.expects \in {"effect", "measured"} -> Shown => InPlace
    [] Step.expects = "refused" -> run.noticed
    [] Step.expects = "withheld" -> TRUE
Holds == IF run.driver = "api" THEN ApiHolds ELSE UiHolds

\* A step that always moves on to the next one.
CheckRunsOn ==
  /\ run.phase = "check" /\ Holds
  /\ run' = [run EXCEPT !.ended = @ \cup {run.at}, !.at = @ + 1, !.phase = "do"]
  /\ UNCHANGED <<script, stack, chain, results, records, starts>>

\* A screen may be read on a fresh page, which forgets the notices.
Check ==
  /\ run.phase = "check" /\ Holds
  /\ \E noticed \in {run.noticed, FALSE} :
       run' = [run EXCEPT !.ended = @ \cup {run.at},
                          !.passed = IF run.driver = "api" /\ Step.page THEN @ ELSE @ \cup {run.at},
                          !.noticed = noticed,
                          !.at = IF run.at = Len(script[run.procedure]) THEN @ ELSE @ + 1,
                          !.phase = IF run.at = Len(script[run.procedure]) THEN "end" ELSE "do"]
  /\ UNCHANGED <<script, stack, chain, results, records, starts>>

\* What is asked does not hold, or could not be read in time. A step with nothing to ask cannot fail here.
CheckFails ==
  /\ run.phase = "check"
  /\ Holds => Shown \/ Step.expects # "effect"
  /\ run' = [run EXCEPT !.phase = "end", !.ended = @ \cup {run.at}, !.failed = TRUE, !.sound = FALSE]
  /\ UNCHANGED <<script, stack, chain, results, records, starts>>

\* The test's time is up: the step has no status and the rest are not run.
Timeout ==
  /\ run.phase \in {"do", "check"}
  /\ run' = [run EXCEPT !.phase = "end", !.sound = FALSE]
  /\ UNCHANGED <<script, stack, chain, results, records, starts>>

-----------------------------------------------------------------------------
(* afterAll, and what may come instead *)

\* An afterAll that returns where a step failed.
FinishGreenOnly ==
  /\ run.phase = "end" /\ ~run.failed
  /\ chain' = IF run.started THEN [chain EXCEPT ![run.driver] = @ \cup {run.procedure}] ELSE chain
  /\ run' = [run EXCEPT !.phase = "digest"]
  /\ UNCHANGED <<script, stack, results, records, starts>>

Finish ==
  /\ run.phase = "end"
  /\ chain' = IF run.started /\ ~run.failed THEN [chain EXCEPT ![run.driver] = @ \cup {run.procedure}] ELSE chain
  /\ run' = [run EXCEPT !.phase = "digest"]
  /\ UNCHANGED <<script, stack, results, records, starts>>

\* The digest is the row count of the product; where it cannot be read the results say so.
Close ==
  /\ run.phase = "digest"
  /\ \E read \in BOOLEAN :
       results' = [results EXCEPT ![run.driver][run.procedure] =
         [closed |-> TRUE, ended |-> run.ended, failed |-> run.failed \/ ~read, rows |-> IF read THEN stack.rows ELSE 0,
          acted |-> IF run.sound THEN run.acted ELSE {}, sound |-> run.sound, fresh |-> run.sound /\ run.fresh]]
  /\ stack' = IF run.sound /\ run.fresh THEN [stack EXCEPT !.by = run.driver, !.upto = run.procedure] ELSE stack
  /\ run' = Idle
  /\ UNCHANGED <<script, chain, records, starts>>

\* The process dies: what it wrote stays.
Kill ==
  /\ Running
  /\ run' = Idle
  /\ UNCHANGED <<script, stack, chain, results, records, starts>>

-----------------------------------------------------------------------------
(* The commands between runs *)

OtherDriver(d) == CHOOSE e \in Drivers : e # d

MakeRecord(d, p, left) ==
  /\ records' = [records EXCEPT ![d][p] =
       [made |-> TRUE, rows |-> left.rows, acted |-> left.acted, sound |-> left.sound, fresh |-> left.fresh]]
  /\ UNCHANGED <<script, stack, chain, run, results, starts>>

\* A record that does not look for steps that were not run, and one that does not ask the other driver's.
RecordSkipped(d, p) ==
  /\ ~Running
  /\ LET left == results[d][p]
         other == records[OtherDriver(d)][p]
     IN /\ left.closed /\ ~left.failed
        /\ other.made => other.rows = left.rows
        /\ MakeRecord(d, p, left)
RecordAlone(d, p) ==
  /\ ~Running
  /\ LET left == results[d][p] IN left.closed /\ ~left.failed /\ left.ended = Steps(p) /\ MakeRecord(d, p, left)

\* The record is refused for a run that is not finished, failed, skipped a step, or left other rows than the
\* other driver's record.
Record(d, p) ==
  /\ ~Running
  /\ LET left == results[d][p]
         other == records[OtherDriver(d)][p]
     IN /\ left.closed /\ ~left.failed /\ left.ended = Steps(p)
        /\ other.made => other.rows = left.rows
        /\ MakeRecord(d, p, left)

ResetAll ==
  /\ ~Running
  /\ stack' = Empty /\ chain' = [d \in Drivers |-> {}]
  /\ UNCHANGED <<script, run, results, records, starts>>

\* A tester carries the API's chain over to the browser's.
CarryOver ==
  /\ ~Running
  /\ chain' = [chain EXCEPT !["ui"] = chain["api"]]
  /\ UNCHANGED <<script, stack, run, results, records, starts>>

RunStep == Act \/ ActFails \/ Check \/ CheckFails \/ Timeout \/ Finish \/ Close
Next ==
  \/ \E d \in Drivers, p \in Procedures : StartFails(d, p) \/ Record(d, p) \/ \E from \in Steps(p) : Start(d, p, from)
  \/ RunStep \/ Kill \/ ResetAll \/ CarryOver

Spec == Init /\ [][Next]_vars /\ WF_vars(RunStep)
-----------------------------------------------------------------------------
(* Properties *)

Left == [closed : {TRUE}, ended : SUBSET Nat, failed : BOOLEAN, rows : Int, acted : SUBSET Nat,
         sound : BOOLEAN, fresh : BOOLEAN]
Made == [made : {TRUE}, rows : Int, acted : SUBSET Nat, sound : BOOLEAN, fresh : BOOLEAN]

\* The script, the stack, the state files, the run, the results and the records have their types, and a run is
\* at a step of its own procedure.
TypeOK ==
  /\ script \in Scripts
  /\ stack.rows \in Int /\ stack.by \in Drivers \cup {"nobody"} /\ stack.upto \in {0} \cup Procedures
  /\ \A step \in stack.done : step[1] \in Procedures /\ step[2] \in Steps(step[1])
  /\ chain \in [Drivers -> SUBSET Procedures]
  /\ Running =>
       /\ run.phase \in {"do", "check", "end", "digest"} /\ run.driver \in Drivers
       /\ run.procedure \in Procedures /\ run.at \in Steps(run.procedure)
       /\ run.ended \subseteq Steps(run.procedure) /\ run.passed \subseteq run.ended
       /\ run.acted \subseteq Steps(run.procedure)
       /\ {run.started, run.accepted, run.noticed, run.failed, run.sound, run.fresh} \subseteq BOOLEAN
  /\ \A d \in Drivers, p \in Procedures :
       /\ results[d][p] = Unfinished \/ results[d][p] \in Left
       /\ records[d][p] = NoRecord \/ records[d][p] \in Made
  /\ starts \in 0 .. MaxRuns

\* A step a driver passed says what the product did. Through the API: the act went through where its effect was
\* expected, and was refused where a refusal was. On the screen of a chain run from the reset: an effect the screen
\* can show is of an act that went through, and a refusal the page printed was a refusal of an act of this run (of
\* this step, or of one before it whose notice is still among those seen). Of two kinds of steps a pass says less:
\* through the API nothing of the act of a step that a capture closes, which passes though it was refused; on the
\* screen nothing of the act behind a control that reads disabled.
PassesSayWhatHappened ==
  Running =>
    \A i \in run.passed :
      LET step == script[run.procedure][i]
      IN /\ run.driver = "api" /\ step.expects # "measured" => (i \in run.acted <=> step.expects = "effect")
         /\ run.driver = "ui" /\ run.fresh /\ step.expects \in {"effect", "measured"} /\ "ui" \in step.shown =>
              i \in run.acted
         /\ run.driver = "ui" /\ step.expects = "refused" => \E j \in run.ended : j <= i /\ j \notin run.acted

\* A record is of a run of the whole procedure that nothing cut short: whatever refused starts, partial runs,
\* timeouts, failures and deaths of the process came before it, and whatever they left in the results file.
RecordsAreOfWholeRuns ==
  \A d \in Drivers, p \in Procedures : records[d][p].made => records[d][p].sound

\* The procedure and those before it only add: no act removes, and one that adds is expected to. An addition
\* that stays on the page, or whose step a refusal, a withheld control or a capture alone closes, is set apart:
\* there one driver passes what the other does not have, and the counts may cancel out.
OnlyAdds(p) ==
  \A q \in 1 .. p : \A i \in Steps(q) :
    /\ script[q][i].act # "removes"
    /\ script[q][i].act = "adds" => ~script[q][i].page /\ script[q][i].expects = "effect"
Added(d, p) == {i \in records[d][p].acted : script[p][i].act = "adds"}

\* Two records made from each driver's own chain show that the two drivers did the same: every addition the
\* product accepted from the one it accepted from the other, those included that the screen shows nothing of.
CleanPairsAgree ==
  \A p \in Procedures :
    (\A d \in Drivers : records[d][p].made /\ records[d][p].fresh) /\ OnlyAdds(p) => Added("api", p) = Added("ui", p)

\* A run comes to its end: whatever its steps meet, afterAll closes it, unless the process dies.
RunsClose == Running ~> ~Running
=============================================================================
