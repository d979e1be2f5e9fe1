----------------------------- MODULE GameStage -----------------------------
(* One stage of the game from its reset to its last write, as run by          *)
(* game/strategy_runtime.py (run_game_stage, kind "runtime") and by           *)
(* eval/runners/run_stage.py (run_stage, kind "eval"), and what stages leave  *)
(* to each other: the policies in force at the controller, and the files of   *)
(* each kind - the population, the stage log, the decision trace and, for     *)
(* eval, the summaries. A stage is a process that may fail or be killed at    *)
(* any step; nothing keeps two of them from running at once.                  *)
(*                                                                            *)
(* The controller is seen as the set of stages whose policy is in force, and  *)
(* those whose install is still under way though the stage gave it up: it may *)
(* be registered any time later. How a reset and an install go about it is    *)
(* StageRunner's subject; a clear that was given up, which can only take      *)
(* policies away, is left to it altogether. Of the game, the attack and the   *)
(* observation only what decides about the files is kept; the choice of the   *)
(* defence is DefenderSelector's.                                             *)
EXTENDS Integers, Sequences, FiniteSets, FiniteSetsExt

CONSTANTS
  Scenarios,   \* scenario ids
  NoScenario,  \* stands for the scenario of a runtime stage, which no file is read by
  MaxStages,   \* bound: stages begun
  MaxTogether, \* bound: only the first so many stages may begin while another runs
  MaxTroubles  \* bound: stages that are killed or begin while another one runs

ASSUME GameStageAssumption ==
  /\ MaxStages \in Nat \ {0}
  /\ MaxTogether \in Nat
  /\ MaxTroubles \in Nat

VARIABLES
  stage,        \* the stages begun, in this order
  inForce,      \* the stages whose policy the controller has registered
  underWay,     \* the stages whose install is given up, but not over at the controller
  population,   \* for each kind, the stage that saved the file, or its condition
  log           \* for each kind and log, the lines of the file

vars == <<stage, inForce, underWay, population, log>>

Kinds == {"runtime", "eval"}
Logs == {"stage", "trace", "summary"}

\* The population file is missing, opened for writing and still empty, or no
\* JSON because two stages wrote it at once.
NoFile == 0
Empty == MaxStages + 1
Mixed == MaxStages + 2
Unreadable == {Empty, Mixed}

\* The steps of both runners, in the order both take them in; "count" is where
\* the next stage_id is read off the stage log by eval, "number" by the runtime.
Order == <<"load", "defend", "count", "truncate", "write", "number", "stage",
           "trace", "summary", "reset">>
Steps == {Order[i] : i \in DOMAIN Order}

\* Wrong variant: the population is opened before it is known to be saved.
TakesOpening(s, step) ==
  CASE step = "truncate" -> s.logs
    [] step = "write" -> s.learns
    [] step = "number" -> s.logs /\ s.kind = "runtime"
    [] step \in {"stage", "trace"} -> s.logs
    [] step = "summary" -> s.logs /\ s.kind = "eval"
    [] step = "reset" -> s.kind = "eval" /\ s.executed
    [] OTHER -> TRUE

\* The steps a stage takes: it learns and logs as its outcome says, only eval
\* writes summaries and clears its policy at the end.
Takes(s, step) ==
  CASE step \in {"truncate", "write"} -> s.learns
    [] step = "number" -> s.logs /\ s.kind = "runtime"
    [] step \in {"stage", "trace"} -> s.logs
    [] step = "summary" -> s.logs /\ s.kind = "eval"
    [] step = "reset" -> s.kind = "eval" /\ s.executed
    [] OTHER -> TRUE

After(s, step) ==
  LET here == CHOOSE i \in DOMAIN Order : Order[i] = step
      ahead == {i \in DOMAIN Order : i > here /\ Takes(s, Order[i])}
  IN IF ahead = {} THEN "done" ELSE Order[Min(ahead)]

\* A stage that ends loses what it kept in memory.
Ended(s, end) ==
  [s EXCEPT !.pc = end, !.reset = "none", !.strays = {}, !.basis = NoFile,
             !.attack = FALSE, !.executed = FALSE]

\* The stage goes on to the step after the present one.
Onwards(s) ==
  LET next == After(s, s.pc) IN IF next = "done" THEN Ended(s, "done") ELSE [s EXCEPT !.pc = next]

Running == {n \in DOMAIN stage : stage[n].pc \in Steps}
Crashed == {n \in DOMAIN stage : stage[n].pc = "crashed"}
Troubles == Cardinality(Crashed) + Cardinality({n \in DOMAIN stage : stage[n].with # {}})

\* Some time both stages were running. (history)
Overlap(m, n) == m \in stage[n].with \/ n \in stage[m].with

Init ==
  /\ stage = <<>>
  /\ inForce = {}
  /\ underWay = {}
  /\ population = [k \in Kinds |-> NoFile]
  /\ log = [k \in Kinds |-> [l \in Logs |-> <<>>]]

-----------------------------------------------------------------------------
(* The stage up to its observation.                                           *)

\* Wrong variant: a reset that failed is taken for one that was done.
ResetClaimed(result) ==
  IF result = "none" THEN UNCHANGED inForce ELSE inForce' \in SUBSET inForce

\* What a reset leaves in force: nothing, or anything if it fails.
Reset(result) ==
  CASE result = "done" -> inForce' = {}
    [] result = "failed" -> inForce' \in SUBSET inForce
    [] result = "none" -> UNCHANGED inForce

\* A stage begins with stage_teardown; eval makes none if it executes no defence,
\* the runtime none if it is told not to. An install still under way is in no
\* registry yet, so no reset reaches it: strays are those of earlier stages. (history)
Begin(kind, scenario, reset) ==
  /\ Len(stage) < MaxStages
  /\ Running # {} => Len(stage) < MaxTogether /\ Troubles < MaxTroubles
  /\ scenario = NoScenario <=> kind = "runtime"
  /\ Reset(reset)
  /\ stage' = Append(stage,
       [kind |-> kind, scenario |-> scenario, reset |-> reset, strays |-> underWay,
        pc |-> "load", basis |-> NoFile, attack |-> TRUE, executed |-> FALSE,
        learns |-> FALSE, logs |-> FALSE, warmup |-> FALSE, id |-> 0, count |-> 0,
        cleared |-> FALSE, with |-> Running, reached |-> "none"])
  /\ UNCHANGED <<underWay, population, log>>

\* The population a stage starts from.
Loaded(n, attack) == IF attack THEN population[stage[n].kind] ELSE NoFile

\* load_population returns: without a file as well, but not on one that is no JSON.
Loads(n, attack) == Loaded(n, attack) \notin Unreadable

\* The runtime plays, and loads the population, only if an attack is possible;
\* eval always loads it.
Load(n) ==
  /\ stage[n].pc = "load"
  /\ \E attack \in BOOLEAN :
       /\ stage[n].kind = "eval" => attack
       /\ stage' = [stage EXCEPT ![n] =
            IF Loads(n, attack)
            THEN Onwards([@ EXCEPT !.attack = attack, !.basis = Loaded(n, attack)])
            ELSE Ended(@, "failed")]
  /\ UNCHANGED <<inForce, underWay, population, log>>

\* The defence is posted to the controller, or is to observe, or stays a dry run;
\* without a possible attack the runtime observes. A call that is not answered in
\* time counts as failed, and may still be under way.
Defend(n) ==
  /\ stage[n].pc = "defend"
  /\ \E executed, givenUp \in BOOLEAN :
       /\ ~(executed /\ givenUp)
       /\ executed \/ givenUp =>
            stage[n].attack /\ (stage[n].kind = "eval" => stage[n].reset # "none")
       /\ inForce' = IF executed THEN inForce \union {n} ELSE inForce
       /\ underWay' = IF givenUp THEN underWay \union {n} ELSE underWay
       /\ stage' = [stage EXCEPT ![n] = Onwards([@ EXCEPT !.executed = executed])]
  /\ UNCHANGED <<population, log>>

\* The controller is through with the sends of an install and registers it, whatever
\* has been reset or begun since.
RegisterLate(n) ==
  /\ n \in underWay
  /\ inForce' = inForce \union {n}
  /\ underWay' = underWay \ {n}
  /\ UNCHANGED <<stage, population, log>>

-----------------------------------------------------------------------------
(* What the stage comes to.                                                   *)

\* The lines of a scenario that can be parsed.
RowsOf(scenario, lines) ==
  {i \in DOMAIN lines : lines[i].whole /\ stage[lines[i].stage].scenario = scenario}

\* Wrong variant: all warm-ups of the scenario are counted.
AllWarmupsOf(scenario, lines) ==
  Cardinality({i \in RowsOf(scenario, lines) : stage[lines[i].stage].warmup})

\* consecutive_stage_kind_count: the warm-ups of a scenario since its last other
\* stage.
WarmupsOf(scenario, lines) ==
  LET rows == RowsOf(scenario, lines)
  IN Cardinality({i \in rows : \A j \in rows : j >= i => stage[lines[j].stage].warmup})

\* Wrong variant: the runtime learns also when its sources failed.
OutcomesUnlogged(s) ==
  {[learns |-> s.attack /\ s.kind = "runtime", logs |-> FALSE, warmup |-> FALSE]}

\* Wrong variant: the runtime learns also from a stage without an attack.
OutcomesIdle(s) ==
  {[learns |-> s.kind = "runtime", logs |-> TRUE, warmup |-> FALSE]}

\* Whether a stage is learned from, logged, and a warm-up. A stage whose sources
\* failed is invalid: nothing is written (should_skip_persistence_for_state). The
\* runtime learns from every other one with an attack. eval learns only from a
\* comparable stage which the model decided with a consistent outcome (valid) and
\* whose defence was executed, confirmed and successful (effective).
Outcomes(s) ==
  {[learns |-> FALSE, logs |-> FALSE, warmup |-> FALSE]} \union
  IF s.kind = "runtime"
  THEN {[learns |-> s.attack, logs |-> TRUE, warmup |-> FALSE]}
  ELSE {[learns |-> comparable /\ valid /\ s.executed /\ effective,
         logs |-> TRUE, warmup |-> ~comparable] :
          comparable \in BOOLEAN, valid \in BOOLEAN, effective \in BOOLEAN}

\* Wrong variant: the lines of another log are counted.
NextStageIdOfTrace(k) == Len(log[k]["trace"]) + 1

NextStageId(k) == Len(log[k]["stage"]) + 1

\* The next state is built, and the outcome follows; eval counts the warm-ups
\* before it and reads its stage_id off the stage log (_next_stage_id). The reset,
\* the strays and the attack are only written down from here on, and forgotten.
Count(n) ==
  /\ stage[n].pc = "count"
  /\ \E outcome \in Outcomes(stage[n]) :
       stage' = [stage EXCEPT ![n] = Onwards([@ EXCEPT
         !.reset = "none", !.strays = {}, !.attack = FALSE,
         !.learns = outcome.learns, !.logs = outcome.logs, !.warmup = outcome.warmup,
         !.count = IF outcome.warmup
                   THEN WarmupsOf(stage[n].scenario, log["eval"]["summary"]) + 1 ELSE 0,
         !.id = IF stage[n].kind = "eval" THEN NextStageId("eval") ELSE 0])]
  /\ UNCHANGED <<inForce, underWay, population, log>>

-----------------------------------------------------------------------------
(* What the stage writes.                                                     *)

\* save_population opens the file for writing, which empties it, ...
Truncate(n) ==
  /\ stage[n].pc = "truncate"
  /\ population' = [population EXCEPT ![stage[n].kind] = Empty]
  /\ stage' = [stage EXCEPT ![n] = Onwards([@ EXCEPT !.basis = NoFile])]
  /\ UNCHANGED <<inForce, underWay, log>>

\* ... and writes from its start: over whatever another stage wrote there since,
\* of which a longer rest may stay.
Write(n) ==
  /\ stage[n].pc = "write"
  /\ population' \in {[population EXCEPT ![stage[n].kind] = content] :
       content \in IF population[stage[n].kind] = Empty THEN {n} ELSE {n, Mixed}}
  /\ stage' = [stage EXCEPT ![n] = Onwards(@)]
  /\ UNCHANGED <<inForce, underWay, log>>

\* append_record counts the lines before it appends one.
Number(n) ==
  /\ stage[n].pc = "number"
  /\ stage' = [stage EXCEPT ![n] = Onwards([@ EXCEPT
                 !.id = NextStageId(stage[n].kind)])]
  /\ UNCHANGED <<inForce, underWay, population, log>>

\* Wrong variant: every log numbers its lines itself.
RowNumbered(n) ==
  [stage |-> n, id |-> Len(log[stage[n].kind][stage[n].pc]) + 1, whole |-> TRUE, ended |-> TRUE]

\* The line stage n writes.
Row(n) == [stage |-> n, id |-> stage[n].id, whole |-> TRUE, ended |-> TRUE]

\* Where a line was cut off, the next one continues it, and can no more be parsed.
Appended(lines, row) ==
  IF lines # <<>> /\ ~lines[Len(lines)].ended
  THEN [lines EXCEPT ![Len(lines)] = [@ EXCEPT !.ended = row.ended]]
  ELSE Append(lines, row)

AppendRow(n) ==
  LET step == stage[n].pc IN
  /\ step \in Logs
  /\ log' = [log EXCEPT ![stage[n].kind][step] = Appended(@, Row(n))]
  /\ stage' = [stage EXCEPT ![n] = Onwards(@)]
  /\ UNCHANGED <<inForce, underWay, population>>

\* eval clears the policy it had executed.
ResetAfter(n) ==
  /\ stage[n].pc = "reset"
  /\ \E result \in {"done", "failed"} :
       /\ Reset(result)
       /\ stage' = [stage EXCEPT ![n] = Onwards([@ EXCEPT !.cleared = (result = "done")])]
  /\ UNCHANGED <<underWay, population, log>>

\* A stage is killed, or raises on a write: a line may be cut off.
Crash(n) ==
  LET step == stage[n].pc IN
  /\ n \in Running
  /\ Troubles < MaxTroubles
  /\ stage' = [stage EXCEPT ![n] = Ended([@ EXCEPT
                 !.reached = IF step \in {"write"} \union Logs THEN step ELSE "none"], "crashed")]
  /\ \/ UNCHANGED log
     \/ /\ step \in Logs
        /\ log' = [log EXCEPT ![stage[n].kind][step] =
                     Appended(@, [Row(n) EXCEPT !.whole = FALSE, !.ended = FALSE])]
  /\ UNCHANGED <<inForce, underWay, population>>

StageStep(n) ==
  \/ Load(n)
  \/ Defend(n)
  \/ Count(n)
  \/ Truncate(n)
  \/ Write(n)
  \/ Number(n)
  \/ AppendRow(n)
  \/ ResetAfter(n)

Next ==
  \/ \E kind \in Kinds, scenario \in Scenarios \union {NoScenario},
        reset \in {"done", "failed", "none"} : Begin(kind, scenario, reset)
  \/ \E n \in DOMAIN stage : StageStep(n) \/ Crash(n)
  \/ \E n \in underWay : RegisterLate(n)

Spec == Init /\ [][Next]_vars

-----------------------------------------------------------------------------
(* Properties.                                                                *)

\* A stage log that can be read numbers its stages: a later line has a larger
\* stage_id, also after a crash, unless the two stages ran at the same time
\* (_next_stage_id, append_record).
IdsIncrease ==
  \A k \in Kinds : \A i, j \in DOMAIN log[k]["stage"] :
    LET first == log[k]["stage"][i]
        second == log[k]["stage"][j]
    IN i < j /\ first.whole /\ second.whole
         => first.id < second.id \/ Overlap(first.stage, second.stage)

\* Decision trace and summary name the stage by the id it has in the stage log,
\* whatever earlier crashes did to the number of their lines.
TracesAgree ==
  \A k \in Kinds, l \in Logs :
    \A i \in DOMAIN log[k][l], j \in DOMAIN log[k]["stage"] :
      LET row == log[k][l][i]
          logged == log[k]["stage"][j]
      IN row.whole /\ logged.whole /\ row.stage = logged.stage => row.id = logged.id

\* A stage that came to its end and counts - it was logged, or the population
\* learned from it - can be read in every log of its kind; a crash while a line
\* was written to a log costs that log at most one other stage.
Owed(k, l) ==
  {n \in DOMAIN stage : /\ stage[n].pc = "done"
                        /\ stage[n].kind = k
                        /\ stage[n].logs \/ stage[n].learns
                        /\ l = "summary" => k = "eval"}
Readable(k, l) == {log[k][l][i].stage : i \in {i \in DOMAIN log[k][l] : log[k][l][i].whole}}

LossIsBounded ==
  \A k \in Kinds, l \in Logs :
    Cardinality(Owed(k, l) \ Readable(k, l)) <=
      Cardinality({n \in Crashed : stage[n].kind = k /\ stage[n].reached = l})

\* The number of warm-ups a summary reports - what the run's health is judged
\* by - continues the one of the summary before it in the same scenario, also
\* after a crash, as long as no two stages of eval ran at the same time.
WarmupsCounted ==
  LET lines == log["eval"]["summary"]
      evals == {n \in DOMAIN stage : stage[n].kind = "eval"}
      Before(i) == {j \in 1..(i - 1) :
                      /\ lines[j].whole
                      /\ stage[lines[j].stage].scenario = stage[lines[i].stage].scenario}
      Previous(i) == IF Before(i) = {} THEN 0 ELSE stage[lines[Max(Before(i))].stage].count
  IN (\A m, n \in evals : ~Overlap(m, n)) =>
       \A i \in DOMAIN lines :
         LET n == lines[i].stage IN
         lines[i].whole =>
           stage[n].count = IF stage[n].warmup THEN Previous(i) + 1 ELSE 0

\* No stage's learning is lost: the population a stage is about to replace is the
\* one it started from, unless it ran together with another stage that saved.
NothingUnlearned ==
  \A n \in DOMAIN stage :
    stage[n].pc = "truncate" =>
      \/ population[stage[n].kind] = stage[n].basis
      \/ \E m \in DOMAIN stage : m # n /\ Overlap(m, n) /\ stage[m].kind = stage[n].kind
                                 /\ stage[m].learns

\* The population can be read, so that further stages can start, unless a stage
\* is saving it, was killed while it did, or ran together with one that saved.
PopulationReadable ==
  \A k \in Kinds :
    population[k] \in Unreadable =>
      \E n \in DOMAIN stage :
        /\ stage[n].kind = k /\ stage[n].learns
        /\ \/ stage[n].pc = "write"
           \/ stage[n].reached = "write"
           \/ \E m \in DOMAIN stage : m # n /\ Overlap(m, n) /\ stage[m].learns

\* A stage observes no other stage's policy, but for one it ran together with; after
\* a reset that failed; without a reset, one that stage did not clear at its own end;
\* and, however its reset went, one whose install an earlier stage had given up and
\* the controller was not through with when the reset was made.
OwnDefence ==
  \A n \in DOMAIN stage : \A m \in inForce \ {n} :
    stage[n].pc = "count" =>
      \/ Overlap(m, n)
      \/ stage[n].reset = "failed"
      \/ m \in stage[n].strays
      \/ stage[n].reset = "none" /\ ~stage[m].cleared
=============================================================================
