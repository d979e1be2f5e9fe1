----------------------------- MODULE GameRounds -----------------------------
(* Stages of the game one after the other, as run by game/strategy_runtime.py *)
(* (run_game_stage) and by eval/runners/run_stage.py (run_stage), with what   *)
(* they read and change: the controller's policies, the metrics that events   *)
(* and telemetry end up in, and the populations the game has learned.         *)
(*                                                                            *)
(* A stage reads the state (StateBuilder), filters the strategies by it       *)
(* (StrategyFilter), plays a step of the game (Population), has the attack    *)
(* and the defence executed, reads the state again and concludes              *)
(* (StageOutcome). Attacks end, and telemetry goes on, at any time. Reads     *)
(* and posts may fail, and cloud-metrics, which keeps all in memory, restart: *)
(* together at most MaxFaults times.                                          *)
(*                                                                            *)
(* Stages run one at a time: GameStage has two of them share their files, and *)
(* StageRunner has the calls to the controller that time out.                 *)
EXTENDS StrategyFilter, StageOutcome, Population

CONSTANTS
  Asked,      \* the values of --scenario-id
  Strict,     \* --strict-preconditions
  Modes,      \* who runs the stages: [kind, execute] (--execute-defender)
  Milestones, \* the values the sensors' own telemetry passes through, in their order
  High, Low,  \* the utility of the strategy that does best, and of the others
  MaxStages, MaxFaults   \* bounds

ASSUME RoundsAssumption ==
  /\ Strict \in BOOLEAN
  /\ Modes \subseteq [kind : {"runtime", "eval"}, execute : BOOLEAN]
  /\ Milestones \in Seq([reached : Nat, storage : Nat])
  /\ Milestones # <<>> /\ Milestones[1] = NoWork
  /\ AnyScenario \notin Scenarios /\ \A a \in Attackers : a.scenario \in Scenarios
  /\ High \in 0..100 /\ Low \in 0..100
  /\ MaxStages \in Nat /\ MaxFaults \in Nat

VARIABLES
  mtd,        \* the controller's active actions: [action, target]
  totals,     \* its counters of flow rules and meters
  core,       \* what cloud-metrics has
  running,    \* the attackers whose Caldera operation runs
  stage, step, mode,      \* stages begun, where the present one is (Begin .. Conclude), who runs it
  state, next,            \* the state it began with, and the one after
  game, attack, exec,     \* the step of the game, the two executions
  population,             \* the population file
  faults,     \* faults so far
  launched, succeeded     \* history: scenarios attacked, attackers that were successful

world == <<mtd, totals, core, running>>
round == <<stage, step, mode, state, next, game, attack, exec>>
history == <<faults, launched, succeeded>>
vars == <<world, round, population, history>>

NoState == [scenario |-> "none"]
NoGame == [attacker |-> NoPopulation, defender |-> NoPopulation, favourites |-> {}]
NoAttackRun == [status |-> "none", abilities |-> FALSE]
NoDefenceRun ==
  [status |-> "none", action |-> "observe", target |-> NoTarget, answer |-> NoAnswer,
   event |-> NoEvent, expects |-> {}, decision |-> [request |-> TRUE, parse |-> TRUE, fallback |-> FALSE]]

Ids(strategies) == {x.id : x \in strategies}

Init ==
  /\ mtd = {}
  /\ totals = NoTotals
  /\ core = NoCore
  /\ running = {}
  /\ stage = 0
  /\ step = "begin"
  /\ mode = CHOOSE m \in Modes : TRUE
  /\ state = NoState /\ next = NoState
  /\ game = NoGame
  /\ attack = NoAttackRun
  /\ exec = NoDefenceRun
  /\ population = [attacker |-> NoPopulation, defender |-> NoPopulation,
                   attackers |-> NoPopulation, defenders |-> NoPopulation]
  /\ faults = 0
  /\ launched = {} /\ succeeded = {}

-----------------------------------------------------------------------------
(* Around the stage.                                                          *)

\* A call that may fail: it does what it should, or it costs a fault.
Fault(worked) == IF worked THEN faults' = faults ELSE faults < MaxFaults /\ faults' = faults + 1

\* Where an attack that succeeded is reported to have been seen (build_attack_result).
ReachOf(a) ==
  {where \in {"gateway", "worker", "cloud"} :
     \/ where \in a.expects
     \/ Len(a.path) > (CASE where = "gateway" -> 1 [] where = "worker" -> 2 [] OTHER -> 3)}

\* record_attack_event: what an event names is set, what it does not stays.
Started(rows) == [rows EXCEPT !.rows = TRUE, !.active = TRUE]
Ended(rows, a, success) ==
  [rows EXCEPT !.rows = TRUE, !.active = FALSE, !.success = success, !.effect = success,
               !.seen = (@ \ {"gateway", "worker", "cloud"}) \union (IF success THEN ReachOf(a) ELSE {})]

\* Of the orders of the environment's steps and a stage's, those are left out that
\* nothing can tell apart: telemetry is seen when a state is built, the end of an
\* operation then or when an event of another attack follows it.
Read == step \in {"observe", "after"}

\* poll_operation: the operation is over, its result is posted, or lost.
OperationEnds ==
  /\ Read \/ step = "attack"
  /\ \E a \in running, success, posted \in BOOLEAN :
       /\ running' = running \ {a}
       /\ core' = IF posted THEN [core EXCEPT !.attack[a.scenario] = Ended(@, a, success)] ELSE core
       /\ succeeded' = IF success THEN succeeded \union {a} ELSE succeeded
       /\ Fault(posted)
       /\ UNCHANGED <<mtd, totals, round, population, launched>>

\* The sensors' own telemetry: it gets further, and more of it is stored.
Telemetry ==
  /\ Read
  /\ \E i \in 2..Len(Milestones) :
       /\ core.work = Milestones[i - 1]
       /\ core' = [core EXCEPT !.work = Milestones[i]]
  /\ UNCHANGED <<mtd, totals, running, round, population, history>>

\* cloud-metrics starts again, with nothing.
MetricsRestart ==
  /\ core # NoCore
  /\ core' = NoCore
  /\ Fault(FALSE)
  /\ UNCHANGED <<mtd, totals, running, round, population, launched, succeeded>>

-----------------------------------------------------------------------------
(* The stage.                                                                 *)

\* stage_teardown: it clears every policy, or fails to; the stage goes on anyway.
Teardown ==
  \/ mtd' = {} /\ UNCHANGED faults
  \/ mtd # {} /\ mtd' = mtd /\ Fault(FALSE)

\* The runtime clears first, the evaluation if it executes defences.
Begin ==
  /\ step = "begin" /\ stage < MaxStages
  /\ stage' = stage + 1
  /\ step' = "observe"
  /\ mode' \in Modes
  /\ IF mode'.kind = "runtime" \/ mode'.execute THEN Teardown ELSE UNCHANGED <<mtd, faults>>
  /\ state' = NoState /\ next' = NoState
  /\ game' = NoGame /\ attack' = NoAttackRun /\ exec' = NoDefenceRun
  /\ UNCHANGED <<totals, core, running, population, launched, succeeded>>

\* What the sources answer: at most one fails at a time.
Answers(failed) ==
  [core |-> IF failed = "core" THEN "none" ELSE "direct",
   metrics |-> failed # "metrics", status |-> failed # "status",
   data |-> core, actions |-> mtd, totals |-> totals]

Sources == {"none", "core", "metrics", "status"}

\* The first build_state; under strict preconditions it may end the stage.
Observe ==
  /\ step = "observe"
  /\ \E failed \in Sources, asked \in Asked :
       LET obs == Answers(failed)
           c == [strict |-> Strict, baseline |-> 0, abilities |-> FALSE,
                 flows |-> NoBaseline, meters |-> NoBaseline]
       IN /\ Fault(failed = "none")
          /\ \E s \in ChosenScenarios(FetchCore(obs), asked) :
               IF Refused(s, c) THEN step' = "begin" /\ UNCHANGED state
               ELSE step' = "attack" /\ state' = BuildState(obs, s, c)
  /\ UNCHANGED <<world, stage, mode, next, game, attack, exec, population, launched, succeeded>>

ActiveFor(runner, built) ==
  IF runner = "runtime" THEN FallbackDefenders(built) ELSE ActiveDefenders(built)

\* The utilities of a role: one strategy does best. Without rivals there are none.
Payoffs(ids, rivals) ==
  IF ids = {} \/ rivals = {} THEN {[id \in ids |-> 0]}
  ELSE {[id \in ids |-> IF id = best THEN High ELSE Low] : best \in ids}

\* evolutionary_step from the populations of the file; the runtime plays none
\* without an attacker and takes the defenders it has left evenly.
Played(attackers, defenders, ua, ud) ==
  LET evens == Total \div Cardinality(defenders)
      defender == IF mode.kind = "runtime" /\ attackers = {}
                  THEN [id \in Ids(defenders) |-> evens]
                  ELSE Evolve(Ids(defenders), population.defender, ud)
  IN [attacker |-> Evolve(Ids(attackers), population.attacker, ua),
      defender |-> defender,
      favourites |-> IF mode.kind = "runtime" THEN Dominant(defender, ud) ELSE {}]

\* execute_attacker: the bridge has the operation run and reports its start. A
\* dispatch that failed may have started it all the same.
Dispatch(a) ==
  \/ /\ attack' = [status |-> "dry_run", abilities |-> FALSE]
     /\ UNCHANGED <<core, running, faults, launched>>
  \/ /\ \E abilities, posted \in BOOLEAN, status \in {"dispatched", "dispatch_failed"} :
          /\ attack' = [status |-> status, abilities |-> abilities /\ status = "dispatched"]
          /\ core' = IF posted THEN [core EXCEPT !.attack[a.scenario] = Started(@)] ELSE core
          /\ Fault(posted /\ status = "dispatched")
     /\ running' = running \union {a}
     /\ launched' = launched \union {a.scenario}
  \/ /\ attack' = [status |-> "dispatch_failed", abilities |-> FALSE]
     /\ Fault(FALSE)
     /\ UNCHANGED <<core, running, launched>>

\* The filter, the step of the game and the attack it selects.
Attack ==
  /\ step = "attack"
  /\ step' = "defend"
  /\ LET attackers == ActiveAttackers(state)
         defenders == ActiveFor(mode.kind, state)
     IN \E ua \in Payoffs(Ids(attackers), defenders), ud \in Payoffs(Ids(defenders), attackers) :
          /\ game' = Played(attackers, defenders, ua, ud)
          /\ IF attackers = {}
             THEN /\ attack' = [status |-> "no_active_attacker_strategy", abilities |-> FALSE]
                  /\ UNCHANGED <<core, running, faults, launched>>
             ELSE \E a \in attackers : a.id \in Dominant(game'.attacker, ua) /\ Dispatch(a)
  /\ UNCHANGED <<mtd, totals, stage, mode, state, next, exec, population, succeeded>>

\* Wrong variant: what was selected is executed, with an attacker or without.
ExecutesAnyhow(attackers) == mode.execute

\* execute=args.execute_defender and not no_active_attack, in the runtime.
Executes(attackers) == mode.execute /\ (mode.kind = "eval" \/ attackers # {})

\* The defender the game, or the model within what is active, has selected.
SelectedDefenders ==
  {d \in ActiveFor(mode.kind, state) : mode.kind = "runtime" => d.id \in game.favourites}

\* The model's answer, or one of the selector's fallbacks (DefenderSelector).
Decisions ==
  IF mode.kind = "runtime" THEN {NoDefenceRun.decision}
  ELSE {NoDefenceRun.decision,
        [request |-> FALSE, parse |-> FALSE, fallback |-> TRUE]}

\* The flags a defence_result event claims: by its action, or taken over.
ClaimedFlags(e, built) ==
  {flag \in {"drop", "counters", "rate"} :
     IF flag = "rate" THEN e.action = "rate_limit" /\ e.answer.active > 0
     ELSE e.action \in Isolations \/ flag \in built.flags}

\* defense_action_confirmed: all counts come with the controller's answer.
EventConfirmed(e) ==
  /\ e.status = "executed" /\ e.answer.ok
  /\ e.answer.active > 0
  /\ e.answer.flows > 0 \/ e.answer.meters > 0 \/ e.answer.installed

EventOf(e, built) ==
  [flags |-> ClaimedFlags(e, built), active |-> e.answer.active,
   flows |-> e.answer.flows, meters |-> e.answer.meters]

\* post_defense_result_event of a confirmed defence: the logger has it, or not.
PostDefenceEvent(e, built) ==
  IF EventConfirmed(e)
  THEN \E posted \in BOOLEAN :
         /\ exec' = [e EXCEPT !.event = EventOf(e, built)]
         /\ core' = IF posted
                    THEN [core EXCEPT !.defence[state.scenario] =
                            [rows |-> TRUE, success |-> TRUE, flags |-> ClaimedFlags(e, built)]]
                    ELSE core
         /\ Fault(posted)
  ELSE exec' = e /\ UNCHANGED <<core, faults>>

\* The controller carries a defence out, on the one switch that is connected.
Install(d) ==
  /\ mtd' = mtd \union {[action |-> d.action, target |-> d.target]}
  /\ totals' = [flows |-> totals.flows + 1,
                meters |-> totals.meters + (IF d.action = "rate_limit" THEN 1 ELSE 0)]

\* The defence a stage is about to execute, and what it is called if it is not.
DefenceRun(d, decision) ==
  [NoDefenceRun EXCEPT !.action = d.action, !.target = d.target,
                       !.expects = d.expects, !.decision = decision]

NotExecuted(e) ==
  /\ e.action = "observe" \/ ~Executes(ActiveAttackers(state))
  /\ \E status \in {"observe_only", "dry_run"} :
       /\ status = "observe_only" <=>
            \/ e.action = "observe"
            \/ mode.kind = "runtime" /\ ActiveAttackers(state) = {}
       /\ exec' = [e EXCEPT !.status = status]
  /\ UNCHANGED <<mtd, totals, core, faults>>

\* The runtime posts its event before it looks at the state again.
Executed(e) ==
  /\ Install(e)
  /\ LET done == [e EXCEPT !.status = "executed", !.answer =
                    [ok |-> TRUE, installed |-> TRUE, active |-> Cardinality(mtd'),
                     flows |-> 1, meters |-> totals'.meters - totals.meters]]
     IN IF mode.kind = "runtime" THEN PostDefenceEvent(done, [flags |-> {}])
        ELSE exec' = done /\ UNCHANGED <<core, faults>>

\* A POST may fail, and may be carried out even so.
ExecutionFailed(e) ==
  /\ Install(e) \/ UNCHANGED <<mtd, totals>>
  /\ Fault(FALSE)
  /\ exec' = [e EXCEPT !.status = "execution_failed"]
  /\ UNCHANGED core

\* execute_defender, _execute_llm_defender.
Defend ==
  /\ step = "defend"
  /\ step' = "after"
  /\ \E d \in SelectedDefenders, decision \in Decisions :
       LET e == DefenceRun(d, decision)
       IN \/ NotExecuted(e)
          \/ /\ d.action # "observe" /\ Executes(ActiveAttackers(state))
             /\ Executed(e) \/ ExecutionFailed(e)
  /\ UNCHANGED <<running, stage, mode, state, next, game, attack, population, launched, succeeded>>

\* The second build_state, against the storage of the first; the runtime, which
\* separates the stage's own flows and meters, also against its totals.
After ==
  /\ step = "after"
  /\ step' = "conclude"
  /\ \E failed \in Sources :
       LET runtime == mode.kind = "runtime"
           c == [strict |-> Strict, baseline |-> state.work.storage, abilities |-> attack.abilities,
                 flows |-> IF runtime THEN state.totals.flows ELSE NoBaseline,
                 meters |-> IF runtime THEN state.totals.meters ELSE NoBaseline]
       IN /\ Fault(failed = "none")
          /\ next' = BuildState(Answers(failed), state.scenario, c)
  /\ UNCHANGED <<world, stage, mode, state, game, attack, exec, population, launched, succeeded>>

\* should_skip_persistence_for_state: nothing could be read and there is nothing.
Placeholder(built) ==
  built.path_stage = 0 /\ ~built.metrics /\ built.work = NoWork /\ built.errors # {}

OutcomeOf(e, quiet) ==
  LET s == state.scenario
      path == {ScenarioPath[s][i] : i \in DOMAIN ScenarioPath[s]}
  IN Outcome(state, next, attack, e.decision, e, e.expects, path, quiet)

\* Wrong variant: a stage is learned from once it is fit to be published.
LearnsFromPaper(e, quiet) == ~Placeholder(state) /\ OutcomeOf(e, quiet).paper_valid

\* The runtime learns from every stage with an attacker, the evaluation from those
\* it finds valid for learning.
Learns(e, quiet) ==
  /\ ~Placeholder(state)
  /\ IF mode.kind = "runtime" THEN ActiveAttackers(state) # {}
     ELSE OutcomeOf(e, quiet).learning_valid

\* save_population, with the shares of all strategies of the scenario.
Saved ==
  LET ofScenario(strategies) == Ids({x \in strategies : x.scenario \in {AnyScenario, state.scenario}})
  IN [attacker |-> game.attacker, defender |-> game.defender,
      attackers |-> Globalize(ofScenario(Attackers), population.attackers, game.attacker),
      defenders |-> Globalize(ofScenario(Defenders), population.defenders, game.defender)]

\* The evaluation posts its event, concludes, saves and clears what it executed.
Conclude ==
  /\ step = "conclude"
  /\ step' = "begin"
  /\ IF mode.kind = "eval" THEN PostDefenceEvent(exec, next) ELSE UNCHANGED <<core, exec, faults>>
  /\ \E quiet \in BOOLEAN :
       population' = IF Learns(exec', quiet) THEN Saved ELSE population
  /\ IF mode.kind = "eval" /\ mode.execute /\ exec.status = "executed"
     THEN mtd' \in {{}, mtd} ELSE UNCHANGED mtd
  /\ UNCHANGED <<totals, running, stage, mode, state, next, game, attack, launched, succeeded>>

Next ==
  \/ Begin \/ Observe \/ Attack \/ Defend \/ After \/ Conclude
  \/ OperationEnds \/ Telemetry \/ MetricsRestart

Spec == Init /\ [][Next]_vars

-----------------------------------------------------------------------------
(* Properties.                                                                *)

\* README.md:742: the background's telemetry alone sets nothing. A scenario has
\* progress on its path only after an attack on it was dispatched, and a stage
\* begins with cloud_seen only after an attack that reaches the cloud succeeded.
EvidenceIsEarned ==
  /\ \A built \in {state, next} \ {NoState} : built.raw > 0 => built.scenario \in launched
  /\ state # NoState /\ state.cloud_seen =>
       \E a \in succeeded : a.scenario = state.scenario /\ "cloud" \in ReachOf(a)

\* query_ryu_defense_state: what an event once reported does not outlive the
\* controller's policies. A state with a flag or a success of the defence is built
\* only while some policy is in force.
FlagsNeedDefence ==
  [][\A built \in {state', next'} \ {state, next, NoState} :
       built.flags # {} \/ built.defense_success => mtd # {}]_vars

\* Without an attacker to play against the runtime installs nothing, whatever the
\* path stage it reads and the policies a teardown has left.
NoAttackNoDefence ==
  [][step = "defend" /\ step' = "after" /\ mode.kind = "runtime" /\ game.attacker = NoPopulation =>
       mtd' = mtd /\ exec'.status = "observe_only"]_vars

\* The evaluation learns only of defences the model itself selected, that were
\* executed and are in force, against an attack that was around.
LearnedInForce ==
  [][population' # population /\ mode.kind = "eval" =>
       /\ [action |-> exec'.action, target |-> exec'.target] \in mtd
       /\ exec'.status = "executed" /\ ~exec'.decision.fallback
       /\ state.attack_active \/ state.scenario \in launched]_vars

\* game_model.py: no strategy dies out, and shares remain shares, in a stage and
\* over all stages, for the strategies that were active and for those that were not.
SharesSound ==
  /\ Sound(game.attacker)
  /\ \A role \in DOMAIN population : Sound(population[role])

\* state_builder.py:556: "Derive defense flags from live Ryu state, with stale metric
\* detection." Traffic is taken for dropped only while a policy that drops it is in
\* force.
FlagsAreLive ==
  [][\A built \in {state', next'} \ {state, next, NoState} :
       "drop" \in built.flags => \E a \in mtd : a.action \in Quarantines]_vars
=============================================================================
