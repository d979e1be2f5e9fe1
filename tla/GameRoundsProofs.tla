-------------------------- MODULE GameRoundsProofs --------------------------
(* Proofs about GameRounds for any scenarios, strategies, modes and           *)
(* telemetry, and any number of stages and faults: progress is earned by      *)
(* attacks, flags need a defence in force, nothing is installed without an    *)
(* attack, and only what is in force is learned from. And for any utilities   *)
(* and any totals, floors and learning rates: shares remain shares, and no    *)
(* strategy dies out.                                                         *)
EXTENDS GameRounds, FiniteSetTheorems, WellFoundedInduction, TLAPS

-----------------------------------------------------------------------------
(* The invariant.                                                             *)

AttackRows ==
  [rows : BOOLEAN, active : BOOLEAN, success : BOOLEAN, effect : BOOLEAN,
   seen : SUBSET {"gateway", "worker", "cloud"}]
DefenceRows == [rows : BOOLEAN, success : BOOLEAN, flags : SUBSET {"drop", "counters", "rate"}]
Cores ==
  [attack : [Scenarios -> AttackRows], defence : [Scenarios -> DefenceRows],
   work : [reached : Nat, storage : Nat]]

Runs == {"status", "action", "target", "answer", "event", "expects", "decision"}

\* What cloud-metrics says of an attack on s, somebody has attacked s for.
RowsEarned(s) ==
  /\ core.attack[s].rows \/ core.attack[s].active \/ core.attack[s].seen # {} => s \in launched
  /\ "cloud" \in core.attack[s].seen =>
       \E a \in succeeded : a.scenario = s /\ "cloud" \in ReachOf(a)

CoreEarned == core \in Cores /\ \A s \in Scenarios : RowsEarned(s)

RunningLaunched == \A a \in running : a \in Attackers /\ a.scenario \in launched

\* So has a state that was built from it.
Earned(built) ==
  built.raw > 0 \/ built.attack_active => built.scenario \in launched

StatesEarned ==
  /\ \A built \in {state, next} \ {NoState} : Earned(built)
  /\ state # NoState /\ state.cloud_seen =>
       \E a \in succeeded : a.scenario = state.scenario /\ "cloud" \in ReachOf(a)

\* The stage: an attack that was dispatched was one on its scenario ...
DispatchedLaunched ==
  step \in {"defend", "after", "conclude"} /\ attack.status = "dispatched" =>
    state.scenario \in launched

\* ... there is an attacker to play, or there is none in the state either ...
PlayedActive ==
  step = "defend" /\ game.attacker = NoPopulation => ActiveAttackers(state) = {}

\* ... and what was executed stays in force until the stage concludes.
ExecutedInForce ==
  /\ DOMAIN exec = Runs
  /\ step \in {"after", "conclude"} /\ exec.status = "executed" =>
       [action |-> exec.action, target |-> exec.target] \in mtd

\* From the attack on there is a scenario.
ScenarioKnown ==
  step \in {"attack", "defend", "after", "conclude"} => state.scenario \in Scenarios

RoundsInv ==
  /\ CoreEarned /\ RunningLaunched /\ StatesEarned
  /\ ScenarioKnown /\ DispatchedLaunched /\ PlayedActive /\ ExecutedInForce

-----------------------------------------------------------------------------
(* cloud-metrics.                                                             *)

LEMMA NoCoreTyped == NoCore \in Cores /\ \A s \in Scenarios : NoCore.attack[s] = NoAttack
BY DEF NoCore, Cores, NoAttack, NoDefence, NoWork, AttackRows, DefenceRows

LEMMA ReachOfPlaces == \A a : ReachOf(a) \subseteq {"gateway", "worker", "cloud"}
BY DEF ReachOf

\* The rows of one scenario change, and what they say is earned.
LEMMA AttackPosted ==
  ASSUME CoreEarned, NEW s \in Scenarios, NEW rows \in AttackRows,
         core' = [core EXCEPT !.attack[s] = rows],
         launched \subseteq launched', succeeded \subseteq succeeded',
         rows.rows \/ rows.active \/ rows.seen # {} => s \in launched',
         "cloud" \in rows.seen =>
           \E a \in succeeded' : a.scenario = s /\ "cloud" \in ReachOf(a)
  PROVE  CoreEarned'
<1>1. /\ core' \in Cores /\ core'.attack[s] = rows
      /\ \A t \in Scenarios \ {s} : core'.attack[t] = core.attack[t]
  BY DEF CoreEarned, Cores
<1>2. ASSUME NEW t \in Scenarios PROVE RowsEarned(t)'
  <2>1. CASE t = s
    BY <1>1, <2>1 DEF RowsEarned
  <2>2. CASE t # s
    BY <1>1, <2>2 DEF RowsEarned, CoreEarned
  <2> QED BY <2>1, <2>2
<1> QED BY <1>1, <1>2 DEF CoreEarned

\* Nothing about an attack changes.
LEMMA AttacksKept ==
  ASSUME CoreEarned, core' \in Cores, core'.attack = core.attack,
         launched \subseteq launched', succeeded \subseteq succeeded'
  PROVE  CoreEarned'
BY DEF CoreEarned, RowsEarned

-----------------------------------------------------------------------------
(* The states.                                                                *)

LEMMA ChosenAreScenarios ==
  ASSUME NEW c, NEW asked PROVE ChosenScenarios(c, asked) \subseteq Scenarios
BY StateBuilderAssumption DEF ChosenScenarios

LEMMA AnswersObserve ==
  ASSUME NEW failed \in Sources
  PROVE  Answers(failed).data = core /\ Answers(failed).actions = mtd
BY DEF Answers

LEMMA BuiltIsEarned ==
  ASSUME CoreEarned, NEW obs, obs.data = core, NEW s \in Scenarios, NEW c
  PROVE  /\ Earned(BuildState(obs, s, c))
         /\ BuildState(obs, s, c).scenario = s
         /\ ~c.abilities /\ BuildState(obs, s, c).cloud_seen =>
              \E a \in succeeded : a.scenario = s /\ "cloud" \in ReachOf(a)
<1> DEFINE b == BuildState(obs, s, c)
           k == FetchCore(obs)
           rows == k.attack[s]
<1>1. /\ b.scenario = s /\ b.raw = RawPathStage(rows, k.work, c)
      /\ b.attack_active <=> rows.active \/ rows.rows
      /\ b.cloud_seen = CloudSeen(rows, k.work, c)
  BY DEF BuildState
<1> HIDE DEF b
<1>2. /\ rows \in AttackRows
      /\ rows.rows \/ rows.active \/ rows.seen # {} => s \in launched
      /\ "cloud" \in rows.seen => \E a \in succeeded : a.scenario = s /\ "cloud" \in ReachOf(a)
  <2>1. CASE k = core
    BY <2>1 DEF CoreEarned, RowsEarned, Cores
  <2>2. CASE k = NoCore
    <3>1. rows = NoAttack
      BY <2>2, NoCoreTyped
    <3> QED BY <3>1 DEF NoAttack, AttackRows
  <2> QED BY <2>1, <2>2 DEF FetchCore
<1> HIDE DEF rows, k
<1>3. rows.seen \subseteq {"gateway", "worker", "cloud"}
  BY <1>2 DEF AttackRows
<1>4. CloudSeen(rows, k.work, c) => rows.rows \/ "cloud" \in rows.seen
  BY <1>3 DEF CloudSeen
<1>5. ~c.abilities /\ CloudSeen(rows, k.work, c) => "cloud" \in rows.seen
  BY <1>3 DEF CloudSeen
<1>6. RawPathStage(rows, k.work, c) > 0 => rows.rows \/ rows.seen # {}
  BY <1>4 DEF RawPathStage, WorkerSeen, GatewaySeen
<1>7. b.raw > 0 \/ b.attack_active => s \in launched
  BY <1>1, <1>2, <1>6
<1>8. ~c.abilities /\ b.cloud_seen =>
        \E a \in succeeded : a.scenario = s /\ "cloud" \in ReachOf(a)
  BY <1>1, <1>2, <1>5
<1> QED BY <1>1, <1>7, <1>8 DEF Earned, b

-----------------------------------------------------------------------------
(* cloud-metrics and the history, action by action.                           *)

Grown == launched \subseteq launched' /\ succeeded \subseteq succeeded'

LEMMA CoreStep ==
  ASSUME RoundsInv, [Next]_vars
  PROVE  CoreEarned' /\ RunningLaunched' /\ Grown
<1> USE DEF RoundsInv
<1>0. CoreEarned /\ RunningLaunched
  OBVIOUS
<1>1. ASSUME UNCHANGED <<core, running, launched, succeeded>>
      PROVE  CoreEarned' /\ RunningLaunched' /\ Grown
  BY <1>0, <1>1 DEF CoreEarned, RowsEarned, RunningLaunched, Grown
<1>2. CASE Begin \/ Observe \/ After \/ UNCHANGED vars
  <2>1. UNCHANGED <<core, running, launched, succeeded>>
    BY <1>2 DEF Begin, Observe, After, world, history, vars
  <2> QED BY <1>1, <2>1
<1>3. CASE Attack
  <2>0. /\ succeeded' = succeeded
        /\ \/ UNCHANGED <<core, running, launched>>
           \/ \E a \in ActiveAttackers(state) : Dispatch(a)
    BY <1>3 DEF Attack
  <2>1. ASSUME NEW a \in Attackers, Dispatch(a)
        PROVE  CoreEarned' /\ RunningLaunched' /\ Grown
    <3>1. CASE UNCHANGED <<core, running, launched>>
      BY <1>1, <2>0, <3>1
    <3>2. CASE /\ \E abilities, posted \in BOOLEAN, status \in {"dispatched", "dispatch_failed"} :
                    /\ attack' = [status |-> status,
                                  abilities |-> abilities /\ status = "dispatched"]
                    /\ core' = IF posted THEN [core EXCEPT !.attack[a.scenario] = Started(@)]
                               ELSE core
                    /\ Fault(posted /\ status = "dispatched")
               /\ running' = running \union {a}
               /\ launched' = launched \union {a.scenario}
      <4>1. RunningLaunched' /\ Grown
        BY <1>0, <2>0, <3>2 DEF RunningLaunched, Grown
      <4>2. a.scenario \in Scenarios
        BY RoundsAssumption
      <4>3. CASE core' = core
        BY <1>0, <4>1, <4>3, AttacksKept DEF CoreEarned, Grown
      <4>4. CASE core' = [core EXCEPT !.attack[a.scenario] = Started(@)]
        <5> DEFINE rows == Started(core.attack[a.scenario])
        <5>1. rows \in AttackRows /\ rows.seen = core.attack[a.scenario].seen
          <6>1. core.attack[a.scenario] \in AttackRows
            BY <1>0, <4>2 DEF CoreEarned, Cores
          <6> QED BY <6>1 DEF Started, AttackRows
        <5>2. core' = [core EXCEPT !.attack[a.scenario] = rows]
          BY <1>0, <4>2, <4>4 DEF CoreEarned, Cores
        <5>3. "cloud" \in rows.seen =>
                \E x \in succeeded' : x.scenario = a.scenario /\ "cloud" \in ReachOf(x)
          BY <1>0, <2>0, <4>2, <5>1 DEF CoreEarned, RowsEarned
        <5> HIDE DEF rows
        <5>4. CoreEarned'
          BY <1>0, <3>2, <4>1, <4>2, <5>1, <5>2, <5>3, AttackPosted DEF Grown
        <5> QED BY <4>1, <5>4
      <4> QED BY <3>2, <4>1, <4>3, <4>4
    <3> QED BY <2>1, <3>1, <3>2 DEF Dispatch
  <2> QED BY <1>1, <2>0, <2>1 DEF ActiveAttackers
<1>4. ASSUME NEW e, NEW built, PostDefenceEvent(e, built),
             UNCHANGED <<running, launched, succeeded>>
      PROVE  CoreEarned' /\ RunningLaunched' /\ Grown
  <2>1. CASE core' = core
    BY <1>1, <1>4, <2>1
  <2>2. CASE core' # core
    <3> DEFINE row == [rows |-> TRUE, success |-> TRUE, flags |-> ClaimedFlags(e, built)]
    <3>1. core' = [core EXCEPT !.defence[state.scenario] = row]
      BY <1>4, <2>2 DEF PostDefenceEvent
    <3>2. row \in DefenceRows
      BY DEF ClaimedFlags, DefenceRows
    <3> HIDE DEF row
    <3>3. core' \in Cores /\ core'.attack = core.attack
      BY <1>0, <3>1, <3>2 DEF CoreEarned, Cores
    <3>4. CoreEarned'
      BY <1>0, <1>4, <3>3, AttacksKept
    <3> QED BY <1>0, <1>4, <3>4 DEF RunningLaunched, Grown
  <2> QED BY <2>1, <2>2
<1>5. CASE Defend
  <2>1. UNCHANGED <<running, launched, succeeded>>
    BY <1>5 DEF Defend
  <2>2. core' = core \/ \E e, built : PostDefenceEvent(e, built)
    BY <1>5 DEF Defend, NotExecuted, Executed, ExecutionFailed
  <2> QED BY <1>1, <1>4, <2>1, <2>2
<1>6. CASE Conclude
  <2>1. UNCHANGED <<running, launched, succeeded>>
    BY <1>6 DEF Conclude
  <2>2. core' = core \/ \E e, built : PostDefenceEvent(e, built)
    BY <1>6 DEF Conclude
  <2> QED BY <1>1, <1>4, <2>1, <2>2
<1>7. CASE OperationEnds
  <2>1. PICK a \in running, success, posted \in BOOLEAN :
          /\ running' = running \ {a}
          /\ core' = IF posted THEN [core EXCEPT !.attack[a.scenario] = Ended(@, a, success)]
                     ELSE core
          /\ succeeded' = IF success THEN succeeded \union {a} ELSE succeeded
          /\ UNCHANGED launched
    BY <1>7 DEF OperationEnds
  <2>2. a \in Attackers /\ a.scenario \in launched /\ a.scenario \in Scenarios
    BY <1>0, <2>1, RoundsAssumption DEF RunningLaunched
  <2>3. RunningLaunched' /\ Grown
    BY <1>0, <2>1 DEF RunningLaunched, Grown
  <2>4. CASE core' = core
    BY <1>0, <2>3, <2>4, AttacksKept DEF CoreEarned, Grown
  <2>5. CASE core' = [core EXCEPT !.attack[a.scenario] = Ended(@, a, success)]
    <3> DEFINE old == core.attack[a.scenario]
               seen == (old.seen \ {"gateway", "worker", "cloud"})
                         \union (IF success THEN ReachOf(a) ELSE {})
               rows == [old EXCEPT !.rows = TRUE, !.active = FALSE, !.success = success,
                                   !.effect = success, !.seen = seen]
    <3>1. old \in AttackRows
      BY <1>0, <2>2 DEF CoreEarned, Cores
    <3>2. core' = [core EXCEPT !.attack[a.scenario] = rows]
      BY <1>0, <2>2, <2>5 DEF CoreEarned, Cores, Ended
    <3>3. seen \in SUBSET {"gateway", "worker", "cloud"} /\ (~success => seen = {})
      BY <3>1, ReachOfPlaces DEF AttackRows
    <3>4. success => seen = ReachOf(a)
      BY <3>1 DEF AttackRows
    <3> HIDE DEF old, seen
    <3>5. rows \in AttackRows /\ rows.seen = seen
      BY <3>1, <3>3 DEF AttackRows
    <3> HIDE DEF rows
    <3>6. "cloud" \in rows.seen =>
            \E x \in succeeded' : x.scenario = a.scenario /\ "cloud" \in ReachOf(x)
      BY <2>1, <3>3, <3>4, <3>5
    <3>7. CoreEarned'
      BY <1>0, <2>1, <2>2, <2>3, <3>2, <3>5, <3>6, AttackPosted DEF Grown
    <3> QED BY <2>3, <3>7
  <2> QED BY <2>1, <2>4, <2>5
<1>8. CASE Telemetry
  <2>1. PICK i \in 2..Len(Milestones) : core' = [core EXCEPT !.work = Milestones[i]]
    BY <1>8 DEF Telemetry
  <2>2. Milestones[i] \in [reached : Nat, storage : Nat]
    <3> DEFINE works == [reached : Nat, storage : Nat]
    <3>1. Milestones \in Seq(works)
      BY RoundsAssumption
    <3> HIDE DEF works
    <3>2. Milestones[i] \in works
      BY <3>1
    <3> QED BY <3>2 DEF works
  <2>3. core' \in Cores /\ core'.attack = core.attack
    BY <1>0, <2>1, <2>2 DEF CoreEarned, Cores
  <2>4. UNCHANGED <<running, launched, succeeded>>
    BY <1>8 DEF Telemetry, history
  <2> QED BY <1>0, <2>3, <2>4, AttacksKept DEF RunningLaunched, Grown
<1>9. CASE MetricsRestart
  <2>1. core' = NoCore /\ UNCHANGED <<running, launched, succeeded>>
    BY <1>9 DEF MetricsRestart
  <2> QED BY <1>0, <2>1, NoCoreTyped
       DEF CoreEarned, RowsEarned, NoAttack, RunningLaunched, Grown
<1> QED BY <1>2, <1>3, <1>5, <1>6, <1>7, <1>8, <1>9 DEF Next

-----------------------------------------------------------------------------
(* The states a stage has built.                                              *)

\* The states stay earned as the history grows.
LEMMA EarnedKept ==
  ASSUME StatesEarned, Grown, state' \in {state, NoState}, next' \in {next, NoState}
  PROVE  StatesEarned'
<1>1. ASSUME NEW built \in {state', next'} \ {NoState} PROVE Earned(built)'
  BY <1>1 DEF StatesEarned, Earned, Grown
<1>2. CASE state' = NoState
  BY <1>1, <1>2 DEF StatesEarned
<1>3. CASE state' = state
  BY <1>1, <1>3 DEF StatesEarned, Grown
<1> QED BY <1>2, <1>3

LEMMA StatesStep ==
  ASSUME RoundsInv, [Next]_vars
  PROVE  StatesEarned'
<1> USE DEF RoundsInv
<1>0. CoreEarned /\ StatesEarned /\ Grown
  BY CoreStep
<1>1. CASE Observe
  <2>1. /\ next' = next /\ UNCHANGED <<core, launched, succeeded>>
    BY <1>1 DEF Observe, world
  <2>2. CASE state' = state
    BY <1>0, <2>1, <2>2, EarnedKept
  <2>3. CASE state' # state
    <3>1. PICK failed \in Sources, s \in Scenarios :
            state' = BuildState(Answers(failed), s,
                       [strict |-> Strict, baseline |-> 0, abilities |-> FALSE,
                        flows |-> NoBaseline, meters |-> NoBaseline])
      BY <1>1, <2>3, ChosenAreScenarios DEF Observe
    <3> DEFINE c == [strict |-> Strict, baseline |-> 0, abilities |-> FALSE,
                     flows |-> NoBaseline, meters |-> NoBaseline]
               b == BuildState(Answers(failed), s, c)
    <3>2. ~c.abilities
      OBVIOUS
    <3>3. /\ Earned(b) /\ b.scenario = s
          /\ b.cloud_seen => \E a \in succeeded : a.scenario = s /\ "cloud" \in ReachOf(a)
      <4> HIDE DEF c
      <4> QED BY <1>0, <3>2, BuiltIsEarned, AnswersObserve
    <3>4. state' = b
      BY <3>1
    <3> HIDE DEF c, b
    <3> QED BY <1>0, <2>1, <3>3, <3>4 DEF StatesEarned, Earned
  <2> QED BY <2>2, <2>3
<1>2. CASE After
  <2>1. state' = state /\ UNCHANGED <<launched, succeeded>>
    BY <1>2 DEF After
  <2>2. PICK failed, c :
          failed \in Sources /\ next' = BuildState(Answers(failed), state.scenario, c)
    BY <1>2 DEF After
  <2>3. state.scenario \in Scenarios
    BY <1>2 DEF After, ScenarioKnown
  <2>4. Earned(next')
    BY <1>0, <2>2, <2>3, BuiltIsEarned, AnswersObserve
  <2>5. Earned(next)'
    BY <2>1, <2>4 DEF Earned
  <2> QED BY <1>0, <2>1, <2>5 DEF StatesEarned, Earned, Grown
<1>3. CASE Begin \/ Attack \/ Defend \/ Conclude \/ OperationEnds \/ Telemetry
           \/ MetricsRestart \/ UNCHANGED vars
  <2>1. state' \in {state, NoState} /\ next' \in {next, NoState}
    BY <1>3 DEF Begin, Attack, Defend, Conclude, OperationEnds, Telemetry, MetricsRestart,
         round, vars
  <2> QED BY <1>0, <2>1, EarnedKept
<1> QED BY <1>1, <1>2, <1>3 DEF Next

-----------------------------------------------------------------------------
(* The stage.                                                                 *)

\* A step of the game keeps to the strategies it was given.
LEMMA EvolvedIds ==
  ASSUME NEW ids, NEW previous, NEW utility
  PROVE  DOMAIN Evolve(ids, previous, utility) = ids
<1>1. \A values : DOMAIN ApplyFloor(values) = DOMAIN values
  BY DEF ApplyFloor
<1>2. DOMAIN Normalize(ids, previous) = ids
  BY <1>1 DEF Normalize
<1>3. \A p : DOMAIN Replicate(p, utility) = DOMAIN p
  BY <1>1 DEF Replicate
<1> QED BY <1>2, <1>3 DEF Evolve

LEMMA StageStep ==
  ASSUME RoundsInv, [Next]_vars
  PROVE  ScenarioKnown' /\ DispatchedLaunched' /\ PlayedActive' /\ ExecutedInForce'
<1> USE DEF RoundsInv
<1>0. ScenarioKnown /\ DispatchedLaunched /\ PlayedActive /\ ExecutedInForce /\ Grown
  BY CoreStep
<1>1. CASE Begin
  <2>1. step' = "observe" /\ exec' = NoDefenceRun
    BY <1>1 DEF Begin
  <2>2. DOMAIN exec' = Runs
    BY <2>1 DEF NoDefenceRun, Runs
  <2> QED BY <2>1, <2>2 DEF ScenarioKnown, DispatchedLaunched, PlayedActive, ExecutedInForce
<1>2. CASE Observe
  <2>1. exec' = exec /\ step' \in {"begin", "attack"}
    BY <1>2 DEF Observe
  <2>2. step' = "attack" => state'.scenario \in Scenarios
    <3> SUFFICES ASSUME step' = "attack" PROVE state'.scenario \in Scenarios
      OBVIOUS
    <3>1. PICK failed \in Sources, s \in Scenarios :
            state' = BuildState(Answers(failed), s,
                       [strict |-> Strict, baseline |-> 0, abilities |-> FALSE,
                        flows |-> NoBaseline, meters |-> NoBaseline])
      BY <1>2, ChosenAreScenarios DEF Observe
    <3> QED BY <3>1 DEF BuildState
  <2> QED BY <1>0, <2>1, <2>2
       DEF ScenarioKnown, DispatchedLaunched, PlayedActive, ExecutedInForce
<1>3. CASE Attack
  <2>1. step = "attack" /\ step' = "defend" /\ state' = state /\ exec' = exec
    BY <1>3 DEF Attack
  <2>2. PICK ua, ud : game' = Played(ActiveAttackers(state), ActiveFor(mode.kind, state), ua, ud)
    BY <1>3 DEF Attack
  <2>3. game'.attacker = Evolve(Ids(ActiveAttackers(state)), population.attacker, ua)
    BY <2>2 DEF Played
  <2>4. DOMAIN game'.attacker = Ids(ActiveAttackers(state))
    BY <2>3, EvolvedIds
  <2>5. game'.attacker = NoPopulation => ActiveAttackers(state) = {}
    BY <2>4 DEF NoPopulation, Ids
  <2>6. attack'.status = "dispatched" => state.scenario \in launched'
    <3> SUFFICES ASSUME attack'.status = "dispatched" PROVE state.scenario \in launched'
      OBVIOUS
    <3>1. PICK a \in ActiveAttackers(state) : Dispatch(a)
      BY <1>3 DEF Attack
    <3>2. a.scenario \in launched'
      <4>1. CASE attack' = [status |-> "dry_run", abilities |-> FALSE]
        BY <4>1
      <4>2. CASE launched' = launched \union {a.scenario}
        BY <4>2
      <4>3. CASE attack' = [status |-> "dispatch_failed", abilities |-> FALSE]
        BY <4>3
      <4> QED BY <3>1, <4>1, <4>2, <4>3 DEF Dispatch
    <3>3. a.scenario = state.scenario
      BY RoundsAssumption DEF ActiveAttackers, ScenarioMatches
    <3> QED BY <3>2, <3>3
  <2>7. ScenarioKnown' /\ DispatchedLaunched'
    BY <1>0, <2>1, <2>6 DEF ScenarioKnown, DispatchedLaunched
  <2>8. PlayedActive'
    BY <2>1, <2>5 DEF PlayedActive, ActiveAttackers
  <2>9. ExecutedInForce'
    BY <1>0, <2>1 DEF ExecutedInForce
  <2> QED BY <2>7, <2>8, <2>9
<1>4. CASE Defend
  <2>1. step = "defend" /\ step' = "after" /\ state' = state /\ attack' = attack
    BY <1>4 DEF Defend
  <2>2. PICK d, decision, e :
          /\ e = DefenceRun(d, decision)
          /\ NotExecuted(e) \/ Executed(e) \/ ExecutionFailed(e)
    BY <1>4 DEF Defend
  <2>3. DOMAIN e = Runs
    BY <2>2 DEF DefenceRun, NoDefenceRun, Runs
  <2>4. ASSUME NEW status \in {"observe_only", "dry_run", "execution_failed"},
               exec' = [e EXCEPT !.status = status]
        PROVE  ExecutedInForce'
    <3>1. DOMAIN exec' = Runs /\ exec'.status # "executed"
      BY <2>3, <2>4 DEF Runs
    <3> QED BY <3>1 DEF ExecutedInForce
  <2>5. ASSUME Executed(e) PROVE ExecutedInForce'
    <3>1. PICK answer :
            LET done == [e EXCEPT !.status = "executed", !.answer = answer]
            IN exec' = done \/ \E event : exec' = [done EXCEPT !.event = event]
      BY <2>5 DEF Executed, PostDefenceEvent
    <3>2. DOMAIN exec' = Runs /\ exec'.action = e.action /\ exec'.target = e.target
      BY <2>3, <3>1 DEF Runs
    <3>3. [action |-> e.action, target |-> e.target] \in mtd'
      BY <2>5 DEF Executed, Install
    <3> QED BY <3>2, <3>3 DEF ExecutedInForce
  <2>6. ExecutedInForce'
    BY <2>2, <2>4, <2>5 DEF NotExecuted, ExecutionFailed
  <2> QED BY <1>0, <2>1, <2>6 DEF Grown, ScenarioKnown, DispatchedLaunched, PlayedActive
<1>5. CASE After
  <2>1. /\ step = "after" /\ step' = "conclude"
        /\ state' = state /\ exec' = exec /\ attack' = attack /\ mtd' = mtd
    BY <1>5 DEF After, world
  <2> QED BY <1>0, <2>1
       DEF Grown, ScenarioKnown, DispatchedLaunched, PlayedActive, ExecutedInForce
<1>6. CASE Conclude
  <2>1. /\ step' = "begin"
        /\ exec' = exec \/ \E e : exec' = [exec EXCEPT !.event = e]
    BY <1>6 DEF Conclude, PostDefenceEvent
  <2>2. DOMAIN exec' = Runs
    BY <1>0, <2>1 DEF ExecutedInForce
  <2> QED BY <2>1, <2>2 DEF ScenarioKnown, DispatchedLaunched, PlayedActive, ExecutedInForce
<1>7. CASE OperationEnds \/ Telemetry \/ MetricsRestart \/ UNCHANGED vars
  <2>1. UNCHANGED <<mtd, round>>
    BY <1>7 DEF OperationEnds, Telemetry, MetricsRestart, vars, world
  <2> QED BY <1>0, <2>1
       DEF round, Grown, ScenarioKnown, DispatchedLaunched, PlayedActive, ExecutedInForce
<1> QED BY <1>1, <1>2, <1>3, <1>4, <1>5, <1>6, <1>7 DEF Next

LEMMA RoundsInvInit == Init => RoundsInv
<1> SUFFICES ASSUME Init PROVE RoundsInv
  OBVIOUS
<1>1. CoreEarned
  BY NoCoreTyped DEF Init, CoreEarned, RowsEarned, NoAttack
<1>2. RunningLaunched /\ StatesEarned
  BY DEF Init, RunningLaunched, StatesEarned
<1>3. ScenarioKnown /\ DispatchedLaunched /\ PlayedActive
  BY DEF Init, ScenarioKnown, DispatchedLaunched, PlayedActive
<1>4. ExecutedInForce
  BY DEF Init, ExecutedInForce, NoDefenceRun, Runs
<1> QED BY <1>1, <1>2, <1>3, <1>4 DEF RoundsInv

LEMMA RoundsInvNext == RoundsInv /\ [Next]_vars => RoundsInv'
BY CoreStep, StatesStep, StageStep DEF RoundsInv

-----------------------------------------------------------------------------
(* The theorems.                                                              *)

\* Progress on a scenario's path is only seen after an attack on it was dispatched, and a
\* stage begins with the cloud seen only after an attack that reaches it succeeded
\* (derive_cloud_seen and the path stage of state_builder).
THEOREM ProgressIsEarned == Spec => []EvidenceIsEarned
<1>1. RoundsInv => EvidenceIsEarned
  BY DEF RoundsInv, StatesEarned, Earned, EvidenceIsEarned
<1> QED BY <1>1, RoundsInvInit, RoundsInvNext, PTL DEF Spec

LEMMA FlagsOfActions ==
  ASSUME NEW actions, NEW reported, actions = {}
  PROVE  DefenceFlags(actions, reported) = {} /\ ~DefenceSuccess(actions, reported)
BY DEF DefenceFlags, DefenceSuccess, StaleMetrics, LiveFlags

LEMMA BuiltNeedsDefence ==
  ASSUME NEW failed \in Sources, NEW s, NEW c, mtd = {}
  PROVE  /\ BuildState(Answers(failed), s, c).flags = {}
         /\ ~BuildState(Answers(failed), s, c).defense_success
<1>1. FetchStatus(Answers(failed)) = {}
  BY DEF FetchStatus, Answers
<1> QED BY <1>1, FlagsOfActions DEF BuildState

LEMMA FlagsStep ==
  ASSUME [Next]_vars, NEW built \in {state', next'} \ {state, next, NoState},
         built.flags # {} \/ built.defense_success
  PROVE  mtd # {}
<1>1. CASE Observe
  <2>1. built = state'
    BY <1>1 DEF Observe
  <2>2. PICK failed, s, c : failed \in Sources /\ state' = BuildState(Answers(failed), s, c)
    BY <1>1, <2>1 DEF Observe
  <2> QED BY <2>1, <2>2, BuiltNeedsDefence
<1>2. CASE After
  <2>1. built = next'
    BY <1>2 DEF After
  <2>2. PICK failed, s, c : failed \in Sources /\ next' = BuildState(Answers(failed), s, c)
    BY <1>2 DEF After
  <2> QED BY <2>1, <2>2, BuiltNeedsDefence
<1>3. CASE Begin \/ Attack \/ Defend \/ Conclude \/ OperationEnds \/ Telemetry
           \/ MetricsRestart \/ UNCHANGED vars
  BY <1>3 DEF Begin, Attack, Defend, Conclude, OperationEnds, Telemetry, MetricsRestart,
       round, vars
<1> QED BY <1>1, <1>2, <1>3 DEF Next

\* What an event reported of a defence does not outlive the controller's policies
\* (query_ryu_defense_state).
THEOREM FlagsOutliveNothing == Spec => FlagsNeedDefence
<1>1. [Next]_vars => \A built \in {state', next'} \ {state, next, NoState} :
                       built.flags # {} \/ built.defense_success => mtd # {}
  BY FlagsStep
<1> QED BY <1>1, PTL DEF Spec, FlagsNeedDefence

LEMMA NoAttackStep ==
  ASSUME RoundsInv, [Next]_vars, step = "defend", step' = "after", mode.kind = "runtime",
         game.attacker = NoPopulation
  PROVE  mtd' = mtd /\ exec'.status = "observe_only"
<1>1. ActiveAttackers(state) = {}
  BY DEF RoundsInv, PlayedActive
<1>2. ~Executes(ActiveAttackers(state))
  BY <1>1 DEF Executes
<1>3. Defend
  BY DEF Next, Begin, Observe, Attack, After, Conclude, OperationEnds, Telemetry, MetricsRestart,
     round, vars
<1>4. PICK d, decision : NotExecuted(DefenceRun(d, decision))
  BY <1>2, <1>3 DEF Defend
<1> DEFINE e == DefenceRun(d, decision)
<1>5. DOMAIN e = Runs
  BY DEF DefenceRun, NoDefenceRun, Runs
<1> HIDE DEF e
<1>6. mtd' = mtd /\ exec' = [e EXCEPT !.status = "observe_only"]
  BY <1>1, <1>4 DEF NotExecuted, e
<1> QED BY <1>5, <1>6 DEF Runs

\* Without an attacker to play against the runtime installs nothing
\* (run_game_stage, apply_no_attack_fallback).
THEOREM NothingWithoutAttack == Spec => NoAttackNoDefence
<1>1. RoundsInv /\ [Next]_vars =>
        (step = "defend" /\ step' = "after" /\ mode.kind = "runtime"
           /\ game.attacker = NoPopulation => mtd' = mtd /\ exec'.status = "observe_only")
  BY NoAttackStep
<1> QED BY <1>1, RoundsInvInit, RoundsInvNext, PTL DEF Spec, NoAttackNoDefence

\* What a stage that is valid for learning was.
LEMMA ValidOutcome ==
  ASSUME NEW before, NEW after, NEW attackExec, NEW decision, NEW e, NEW expects, NEW path,
         NEW quiet, Outcome(before, after, attackExec, decision, e, expects, path, quiet).learning_valid
  PROVE  /\ e.status = "executed" /\ ~decision.fallback
         /\ before.attack_active \/ attackExec.status = "dispatched"
BY DEF Outcome, PaperValid, Comparable

LEMMA LearnStep ==
  ASSUME RoundsInv, [Next]_vars, population' # population, mode.kind = "eval"
  PROVE  /\ [action |-> exec'.action, target |-> exec'.target] \in mtd
         /\ exec'.status = "executed" /\ ~exec'.decision.fallback
         /\ state.attack_active \/ state.scenario \in launched
<1>1. Conclude
  BY DEF Next, Begin, Observe, Attack, Defend, After, OperationEnds, Telemetry, MetricsRestart, vars
<1>2. PICK quiet \in BOOLEAN : Learns(exec', quiet)
  BY <1>1 DEF Conclude
<1>3. OutcomeOf(exec', quiet).learning_valid
  BY <1>2 DEF Learns
<1>4. /\ exec'.status = "executed" /\ ~exec'.decision.fallback
      /\ state.attack_active \/ attack.status = "dispatched"
  BY <1>3, ValidOutcome DEF OutcomeOf
<1>5. step = "conclude"
  BY <1>1 DEF Conclude
<1>6. state.attack_active \/ state.scenario \in launched
  BY <1>4, <1>5 DEF RoundsInv, DispatchedLaunched
<1>7. /\ DOMAIN exec = Runs
      /\ exec' = exec \/ \E event : exec' = [exec EXCEPT !.event = event]
  BY <1>1 DEF Conclude, PostDefenceEvent, RoundsInv, ExecutedInForce
<1>8. exec'.status = exec.status /\ exec'.action = exec.action /\ exec'.target = exec.target
  BY <1>7 DEF Runs
<1>9. [action |-> exec.action, target |-> exec.target] \in mtd
  BY <1>4, <1>5, <1>8 DEF RoundsInv, ExecutedInForce
<1> QED BY <1>4, <1>6, <1>8, <1>9

\* The evaluation learns only of defences that were executed and are in force, selected
\* without a fallback, against an attack (build_stage_outcome, run_stage).
THEOREM OnlyInForceIsLearned == Spec => LearnedInForce
<1>1. RoundsInv /\ [Next]_vars =>
        (population' # population /\ mode.kind = "eval" =>
           /\ [action |-> exec'.action, target |-> exec'.target] \in mtd
           /\ exec'.status = "executed" /\ ~exec'.decision.fallback
           /\ state.attack_active \/ state.scenario \in launched)
  BY LearnStep
<1> QED BY <1>1, RoundsInvInit, RoundsInvNext, PTL DEF Spec, LearnedInForce

-----------------------------------------------------------------------------
(* Induction over the size of a finite set. A property is a set Good here:    *)
(* the empty set is in it, and so is a set if what remains without any of its *)
(* elements is.                                                               *)

\* A set of numbers has a least one.
LEMMA Least == ASSUME NEW T, T \subseteq Nat, T # {} PROVE \E n \in T : \A m \in T : n <= m
<1>1. PICK R : IsWellFoundedOn(R, Nat) /\ \A y, x \in Nat : y < x => <<y, x>> \in R
  <2> DEFINE Q == OpToRel(<, Nat)
  <2>1. IsWellFoundedOn(Q, Nat)
    BY NatLessThanWellFounded
  <2>2. \A y, x \in Nat : y < x => <<y, x>> \in Q
    BY DEF OpToRel
  <2> HIDE DEF Q
  <2> QED BY <2>1, <2>2
<1>2. \E x \in T : \A y \in T : ~(<<y, x>> \in R)
  <2>1. IsWellFoundedOn(R, Nat)
    BY <1>1
  <2> QED BY <2>1, WFMin, Zenon
<1>2a. PICK n \in T : \A m \in T : ~(<<m, n>> \in R)
  BY <1>2
<1>3. \A m \in T : ~(m < n)
  BY <1>1, <1>2a
<1> QED BY <1>3

\* induction over the size of a finite set
LEMMA SizeInduction ==
  ASSUME NEW D, IsFiniteSet(D), NEW Good, {} \in Good,
         \A T \in SUBSET D : T # {} /\ (\A x \in T : T \ {x} \in Good) => T \in Good
  PROVE  \A T \in SUBSET D : T \in Good
<1> DEFINE Bad == {T \in SUBSET D : T \notin Good}
           Sizes == {Cardinality(T) : T \in Bad}
<1> SUFFICES ASSUME Bad # {} PROVE FALSE
  OBVIOUS
<1>1. \A T \in SUBSET D : IsFiniteSet(T) /\ Cardinality(T) \in Nat
  BY FS_Subset, FS_CardinalityType
<1>2. Sizes \subseteq Nat /\ Sizes # {}
  BY <1>1
<1> HIDE DEF Sizes
<1>3. PICK n \in Sizes : \A m \in Sizes : n <= m
  BY <1>2, Least
<1>4. PICK T \in Bad : Cardinality(T) = n
  BY <1>3 DEF Sizes
<1>5. ASSUME NEW x \in T PROVE T \ {x} \in Good
  <2>1. Cardinality(T \ {x}) = Cardinality(T) - 1 /\ T \ {x} \in SUBSET D
    BY <1>1, <1>5, FS_RemoveElement
  <2>2. Cardinality(T) \in Nat
    BY <1>1
  <2>3. Cardinality(T \ {x}) \notin Sizes
    BY <1>3, <1>4, <2>1, <2>2
  <2> QED BY <2>1, <2>3 DEF Sizes
<1>6. T # {}
  BY <1>4
<1> QED BY <1>4, <1>5, <1>6

-----------------------------------------------------------------------------
(* Sums over finite sets.                                                     *)

\* A sum over the subsets of D, as the folds of the community modules take it: of one
\* element, and of the rest.
Some(T) == CHOOSE x \in T : TRUE

IsSum(F, f, D) ==
  /\ F \in [SUBSET D -> Nat]
  /\ \A T \in SUBSET D : F[T] = IF T = {} THEN 0 ELSE f[Some(T)] + F[T \ {Some(T)}]

LEMMA SumExists ==
  ASSUME NEW D, IsFiniteSet(D), NEW f \in [D -> Nat]
  PROVE  \E F : IsSum(F, f, D)
<1> DEFINE Sum(H, T) == IF T = {} THEN 0 ELSE f[Some(T)] + H[T \ {Some(T)}]
           Right(n) == {H \in [SUBSET D -> Nat] :
                          \A T \in SUBSET D : Cardinality(T) <= n => H[T] = Sum(H, T)}
           Bad == {n \in Nat : Right(n) = {}}
<1>1. ASSUME NEW T \in SUBSET D, T # {}
      PROVE  /\ Some(T) \in D /\ T \ {Some(T)} \in SUBSET D
             /\ Cardinality(T \ {Some(T)}) = Cardinality(T) - 1
  <2>1. Some(T) \in T
    BY <1>1 DEF Some
  <2>2. IsFiniteSet(T)
    BY FS_Subset
  <2> QED BY <2>1, <2>2, FS_RemoveElement
<1>2. \A T \in SUBSET D : Cardinality(T) \in Nat /\ IsFiniteSet(T)
  BY FS_Subset, FS_CardinalityType
<1>3. ASSUME NEW H \in [SUBSET D -> Nat], NEW T \in SUBSET D PROVE Sum(H, T) \in Nat
  <2>1. CASE T = {}
    BY <2>1
  <2>2. CASE T # {}
    <3>1. f[Some(T)] \in Nat /\ H[T \ {Some(T)}] \in Nat
      BY <1>1, <2>2
    <3> QED BY <2>2, <3>1
  <2> QED BY <2>1, <2>2
<1>4. 0 \notin Bad
  <2> DEFINE H == [T \in SUBSET D |-> 0]
  <2>1. H \in [SUBSET D -> Nat]
    OBVIOUS
  <2>2. ASSUME NEW T \in SUBSET D, Cardinality(T) <= 0 PROVE H[T] = Sum(H, T)
    <3>1. T = {}
      BY <1>2, <2>2, FS_EmptySet
    <3> QED BY <3>1
  <2>3. H \in Right(0)
    BY <2>1, <2>2
  <2> QED BY <2>3
<1>5. ASSUME NEW n \in Nat, n \notin Bad PROVE n + 1 \notin Bad
  <2>1. PICK H \in [SUBSET D -> Nat] :
          \A T \in SUBSET D : Cardinality(T) <= n => H[T] = Sum(H, T)
    BY <1>5
  <2> DEFINE G == [T \in SUBSET D |-> Sum(H, T)]
  <2>2. G \in [SUBSET D -> Nat]
    BY <1>3
  <2>3. ASSUME NEW T \in SUBSET D, Cardinality(T) <= n + 1 PROVE G[T] = Sum(G, T)
    <3>1. CASE T = {}
      BY <3>1
    <3>2. CASE T # {}
      <4> DEFINE U == T \ {Some(T)}
      <4>1. U \in SUBSET D /\ Cardinality(U) <= n
        BY <1>1, <1>2, <2>3, <3>2
      <4>2. H[U] = Sum(H, U)
        BY <2>1, <4>1
      <4>3. G[U] = Sum(H, U)
        BY <4>1
      <4>4. Sum(G, T) = f[Some(T)] + G[U] /\ G[T] = f[Some(T)] + H[U]
        BY <3>2
      <4> QED BY <4>2, <4>3, <4>4
    <3> QED BY <3>1, <3>2
  <2>4. G \in Right(n + 1)
    BY <2>2, <2>3
  <2> QED BY <2>4
<1>6. Bad = {}
  <2> SUFFICES ASSUME Bad # {} PROVE FALSE
    OBVIOUS
  <2> HIDE DEF Right
  <2>1. PICK n \in Bad : \A m \in Bad : n <= m
    <3>1. Bad \subseteq Nat
      OBVIOUS
    <3> HIDE DEF Bad
    <3> QED BY <3>1, Least
  <2>2. n # 0 /\ n \in Nat
    BY <1>4
  <2>3. n - 1 \in Nat /\ n - 1 \notin Bad /\ (n - 1) + 1 = n
    <3> HIDE DEF Bad
    <3> QED BY <2>1, <2>2
  <2>4. (n - 1) + 1 \notin Bad
    <3> HIDE DEF Bad
    <3> QED BY <1>5, <2>3
  <2> QED BY <2>1, <2>3, <2>4
<1>7. PICK H \in [SUBSET D -> Nat] :
        \A T \in SUBSET D : Cardinality(T) <= Cardinality(D) => H[T] = Sum(H, T)
  <2>1. Cardinality(D) \notin Bad /\ Cardinality(D) \in Nat
    BY <1>2, <1>6
  <2> QED BY <2>1
<1>8. \A T \in SUBSET D : Cardinality(T) <= Cardinality(D)
  BY FS_Subset
<1>9. IsSum(H, f, D)
  BY <1>7, <1>8 DEF IsSum
<1> QED BY <1>9

\* What holds of a sum over the rest holds of the sum.
LEMMA SumParts ==
  ASSUME NEW D, NEW f, NEW F, IsSum(F, f, D)
  PROVE  \A T \in SUBSET D : T # {} =>
           /\ Some(T) \in T /\ Some(T) \in D
           /\ F[T] = f[Some(T)] + F[T \ {Some(T)}] /\ F[T \ {Some(T)}] \in Nat
<1> SUFFICES ASSUME NEW T \in SUBSET D, T # {}
             PROVE  /\ Some(T) \in T /\ Some(T) \in D
                    /\ F[T] = f[Some(T)] + F[T \ {Some(T)}] /\ F[T \ {Some(T)}] \in Nat
  OBVIOUS
<1>1. Some(T) \in T
  BY DEF Some
<1>2. T \ {Some(T)} \in SUBSET D
  OBVIOUS
<1> QED BY <1>1, <1>2 DEF IsSum

\* Whole is such a sum.
LEMMA WholeSum ==
  ASSUME NEW ids, IsFiniteSet(ids), NEW values \in [ids -> Nat]
  PROVE  \E F : IsSum(F, values, ids) /\ Whole(values) = F[ids]
<1> DEFINE Eq(it) == it = [s \in SUBSET ids |-> IF s = {} THEN 0
                              ELSE values[CHOOSE x \in s : TRUE] + it[s \ {CHOOSE x \in s : TRUE}]]
           F == CHOOSE it : Eq(it)
<1>1. Whole(values) = F[ids]
  BY DEF Whole, MapThenSumSet, MapThenFoldSet
<1>2. PICK H : IsSum(H, values, ids)
  BY SumExists
<1>3. Eq(H)
  <2>1. ASSUME NEW s \in SUBSET ids
        PROVE  H[s] = IF s = {} THEN 0
                      ELSE values[CHOOSE x \in s : TRUE] + H[s \ {CHOOSE x \in s : TRUE}]
    BY <1>2 DEF IsSum, Some
  <2>2. H = [s \in SUBSET ids |-> H[s]]
    BY <1>2 DEF IsSum
  <2> QED BY <2>1, <2>2
<1>4. Eq(F)
  <2> HIDE DEF Eq
  <2> QED BY <1>3
<1>5. F = [s \in SUBSET ids |-> F[s]]
  <2> HIDE DEF F
  <2> QED BY <1>4
<1>6. \A s \in SUBSET ids :
        F[s] = IF s = {} THEN 0 ELSE values[Some(s)] + F[s \ {Some(s)}]
  <2> HIDE DEF F
  <2> QED BY <1>4 DEF Some
<1> HIDE DEF F
<1>7. F \in [SUBSET ids -> Nat]
  <2> DEFINE Good == {s \in SUBSET ids : F[s] \in Nat}
  <2>1. {} \in Good
    <3>1. {} \in SUBSET ids /\ F[{}] = 0
      BY <1>6
    <3> QED BY <3>1
  <2>2. ASSUME NEW s \in SUBSET ids, s # {}, \A x \in s : s \ {x} \in Good PROVE s \in Good
    <3>1. Some(s) \in s
      BY <2>2 DEF Some
    <3>2. values[Some(s)] \in Nat /\ F[s \ {Some(s)}] \in Nat
      BY <2>2, <3>1
    <3>3. F[s] = values[Some(s)] + F[s \ {Some(s)}]
      BY <1>6, <2>2
    <3> QED BY <3>2, <3>3
  <2> HIDE DEF Good
  <2>3. \A s \in SUBSET ids : s \in Good
    BY <2>1, <2>2, SizeInduction
  <2> QED BY <1>5, <2>3 DEF Good
<1>8. IsSum(F, values, ids)
  BY <1>6, <1>7 DEF IsSum
<1> QED BY <1>1, <1>8

\* Sums of the same set agree.
LEMMA SumUnique ==
  ASSUME NEW D, IsFiniteSet(D), NEW f, NEW F, NEW G, IsSum(F, f, D), IsSum(G, f, D)
  PROVE  F[D] = G[D]
<1> DEFINE Good == {T \in SUBSET D : F[T] = G[T]}
<1>1. {} \in Good
  BY DEF IsSum
<1>2. ASSUME NEW T \in SUBSET D, T # {}, \A x \in T : T \ {x} \in Good PROVE T \in Good
  <2>1. Some(T) \in T
    BY <1>2 DEF Some
  <2>2. F[T \ {Some(T)}] = G[T \ {Some(T)}]
    BY <1>2, <2>1
  <2> QED BY <1>2, <2>2 DEF IsSum
<1> HIDE DEF Good
<1>3. \A T \in SUBSET D : T \in Good
  BY <1>1, <1>2, SizeInduction
<1> QED BY <1>3 DEF Good

\* What every element has more of.
LEMMA SumShifted ==
  ASSUME NEW D, IsFiniteSet(D), NEW c \in Nat, NEW h \in [D -> Nat], NEW p \in [D -> Nat],
         NEW H, NEW P, IsSum(H, h, D), IsSum(P, p, D), \A x \in D : p[x] = c + h[x]
  PROVE  P[D] = c * Cardinality(D) + H[D]
<1> DEFINE Good == {T \in SUBSET D : P[T] = c * Cardinality(T) + H[T]}
<1>1. {} \in Good
  <2>1. P[{}] = 0 /\ H[{}] = 0 /\ Cardinality({}) = 0
    BY FS_EmptySet DEF IsSum
  <2> QED BY <2>1
<1>2. \A T \in SUBSET D : T # {} =>
        /\ Some(T) \in T /\ Some(T) \in D
        /\ H[T] = h[Some(T)] + H[T \ {Some(T)}] /\ H[T \ {Some(T)}] \in Nat
  BY ONLY IsSum(H, h, D), SumParts
<1>3. \A T \in SUBSET D : T # {} =>
        P[T] = p[Some(T)] + P[T \ {Some(T)}] /\ P[T \ {Some(T)}] \in Nat
  BY ONLY IsSum(P, p, D), SumParts
<1>4. ASSUME NEW T \in SUBSET D, T # {}, \A x \in T : T \ {x} \in Good PROVE T \in Good
  <2> DEFINE x == Some(T)
             n == Cardinality(T \ {x})
  <2>0. T \in SUBSET D /\ T # {}
    BY <1>4
  <2>1. x \in T /\ x \in D /\ H[T] = h[x] + H[T \ {x}] /\ H[T \ {x}] \in Nat
    BY <1>2, <2>0
  <2>2. P[T] = p[x] + P[T \ {x}]
    BY <1>3, <2>0
  <2> HIDE DEF x
  <2>3. P[T \ {x}] = c * n + H[T \ {x}]
    <3>1. T \ {x} \in Good
      BY <1>4, <2>1
    <3> QED BY <3>1
  <2>4. n \in Nat /\ Cardinality(T) = n + 1
    <3>1. IsFiniteSet(T) /\ T \ {x} \in SUBSET D /\ x \in T
      BY <2>0, <2>1, FS_Subset
    <3>2. Cardinality(T) \in Nat /\ n \in Nat
      BY <3>1, FS_Subset, FS_CardinalityType
    <3>3. n = Cardinality(T) - 1
      BY <3>1, FS_RemoveElement
    <3> QED BY <3>2, <3>3
  <2> HIDE DEF n
  <2>5. /\ h[x] \in Nat /\ p[x] = c + h[x]
        /\ c * (n + 1) = c * n + c /\ c * n \in Nat
    <3>1. h[x] \in Nat /\ p[x] = c + h[x]
      BY <2>1
    <3>2. n \in Nat /\ c \in Nat
      BY <2>4
    <3>3. c * (n + 1) = c * n + c /\ c * n \in Nat
      BY ONLY <3>2
    <3> QED BY <3>1, <3>3
  <2>6. P[T] = c * Cardinality(T) + H[T]
    BY <2>1, <2>2, <2>3, <2>4, <2>5
  <2> QED BY <2>6
<1> HIDE DEF Good
<1>5. \A T \in SUBSET D : T \in Good
  BY <1>1, <1>4, SizeInduction
<1>6. D \in Good
  BY <1>5
<1> QED BY <1>6 DEF Good

\* One for each element.
LEMMA SumOfOnes ==
  ASSUME NEW D, IsFiniteSet(D), NEW f \in [D -> Nat], NEW F, IsSum(F, f, D),
         \A x \in D : f[x] = 1
  PROVE  F[D] = Cardinality(D)
<1> DEFINE Good == {T \in SUBSET D : F[T] = Cardinality(T)}
<1>1. {} \in Good
  BY FS_EmptySet DEF IsSum
<1>2. \A T \in SUBSET D : T # {} =>
        /\ Some(T) \in T /\ Some(T) \in D
        /\ F[T] = f[Some(T)] + F[T \ {Some(T)}] /\ F[T \ {Some(T)}] \in Nat
  BY ONLY IsSum(F, f, D), SumParts
<1>3. ASSUME NEW T \in SUBSET D, T # {}, \A x \in T : T \ {x} \in Good PROVE T \in Good
  <2>1. Some(T) \in T /\ F[T] = 1 + F[T \ {Some(T)}]
    BY <1>2, <1>3
  <2>2. F[T \ {Some(T)}] = Cardinality(T \ {Some(T)})
    BY <1>3, <2>1
  <2>3. Cardinality(T \ {Some(T)}) = Cardinality(T) - 1 /\ Cardinality(T) \in Nat
    BY <2>1, FS_Subset, FS_RemoveElement, FS_CardinalityType
  <2> QED BY <2>1, <2>2, <2>3
<1> HIDE DEF Good
<1>4. \A T \in SUBSET D : T \in Good
  BY <1>1, <1>3, SizeInduction
<1>5. D \in Good
  BY <1>4
<1> QED BY <1>5 DEF Good

\* What is shared out in proportion and rounded down comes to R, less a unit for each.
LEMMA SharedOut ==
  ASSUME NEW D, IsFiniteSet(D), NEW R \in Nat, NEW W \in Nat \ {0},
         NEW f \in [D -> Nat], NEW h \in [D -> Nat], NEW F, NEW H,
         IsSum(F, f, D), IsSum(H, h, D), F[D] = W,
         \A x \in D : W * h[x] <= R * f[x] /\ R * f[x] <= W * h[x] + W
  PROVE  H[D] <= R /\ R <= H[D] + Cardinality(D)
<1> DEFINE Good == {T \in SUBSET D : /\ W * H[T] <= R * F[T]
                                     /\ R * F[T] <= W * H[T] + W * Cardinality(T)}
<1>1. {} \in Good
  <2>1. F[{}] = 0 /\ H[{}] = 0 /\ Cardinality({}) = 0
    BY FS_EmptySet DEF IsSum
  <2> QED BY <2>1
<1>2. \A T \in SUBSET D : T # {} =>
        /\ Some(T) \in T /\ Some(T) \in D
        /\ F[T] = f[Some(T)] + F[T \ {Some(T)}] /\ F[T \ {Some(T)}] \in Nat
  BY ONLY IsSum(F, f, D), SumParts
<1>3. \A T \in SUBSET D : T # {} =>
        H[T] = h[Some(T)] + H[T \ {Some(T)}] /\ H[T \ {Some(T)}] \in Nat
  BY ONLY IsSum(H, h, D), SumParts
<1>4. ASSUME NEW T \in SUBSET D, T # {}, \A x \in T : T \ {x} \in Good PROVE T \in Good
  <2> DEFINE x == Some(T)
             n == Cardinality(T \ {x})
             rf == F[T \ {x}]
             rh == H[T \ {x}]
  <2>0. T \in SUBSET D /\ T # {}
    BY <1>4
  <2>1. x \in T /\ x \in D /\ F[T] = f[x] + rf /\ rf \in Nat
    BY <1>2, <2>0
  <2>2. H[T] = h[x] + rh /\ rh \in Nat
    BY <1>3, <2>0
  <2>3. n \in Nat /\ Cardinality(T) = n + 1
    <3>1. IsFiniteSet(T) /\ T \ {x} \in SUBSET D /\ x \in T
      BY <2>0, <2>1, FS_Subset
    <3>2. Cardinality(T) \in Nat /\ n \in Nat
      BY <3>1, FS_Subset, FS_CardinalityType
    <3>3. n = Cardinality(T) - 1
      BY <3>1, FS_RemoveElement
    <3> QED BY <3>2, <3>3
  <2>4. W * rh <= R * rf /\ R * rf <= W * rh + W * n
    <3>1. T \ {x} \in Good
      BY <1>4, <2>1
    <3> QED BY <3>1
  <2>5. f[x] \in Nat /\ h[x] \in Nat /\ W * h[x] <= R * f[x] /\ R * f[x] <= W * h[x] + W
    BY <2>1
  <2> HIDE DEF x, n, rf, rh
  <2>6. /\ W * (h[x] + rh) = W * h[x] + W * rh /\ R * (f[x] + rf) = R * f[x] + R * rf
        /\ W * (n + 1) = W * n + W
    BY <2>1, <2>2, <2>3, <2>5
  <2>7. /\ W * h[x] \in Nat /\ W * rh \in Nat /\ R * f[x] \in Nat /\ R * rf \in Nat
        /\ W * n \in Nat
    BY <2>1, <2>2, <2>3, <2>5
  <2>8. /\ W * H[T] <= R * F[T]
        /\ R * F[T] <= W * H[T] + W * Cardinality(T)
    <3>1. W * H[T] = W * h[x] + W * rh /\ R * F[T] = R * f[x] + R * rf
          /\ W * Cardinality(T) = W * n + W
      BY <2>1, <2>2, <2>3, <2>6
    <3> QED BY <2>4, <2>5, <2>7, <3>1
  <2> QED BY <2>8
<1> HIDE DEF Good
<1>5. \A T \in SUBSET D : T \in Good
  BY <1>1, <1>4, SizeInduction
<1>6. W * H[D] <= R * W /\ R * W <= W * H[D] + W * Cardinality(D)
  <2>1. D \in Good
    BY <1>5
  <2> QED BY <2>1 DEF Good
<1> DEFINE k == H[D]
           n == Cardinality(D)
<1>7. k \in Nat /\ n \in Nat /\ W * k <= R * W /\ R * W <= W * k + W * n
  BY <1>6, FS_CardinalityType DEF IsSum
<1> HIDE DEF k, n
<1>8. k <= R
  <2> SUFFICES ASSUME k >= R + 1 PROVE FALSE
    BY <1>7
  <2> DEFINE d == k - (R + 1)
  <2>1. d \in Nat /\ k = R + 1 + d
    BY <1>7
  <2> HIDE DEF d
  <2>2. W * k = R * W + W + W * d /\ W * d \in Nat /\ R * W \in Nat
    BY <2>1
  <2> QED BY <1>7, <2>2
<1>9. R <= k + n
  <2> SUFFICES ASSUME R >= k + n + 1 PROVE FALSE
    BY <1>7
  <2> DEFINE d == R - (k + n + 1)
  <2>1. d \in Nat /\ R = k + n + 1 + d
    BY <1>7
  <2> HIDE DEF d
  <2>2. R * W = W * k + W * n + W + W * d /\ W * d \in Nat /\ W * k \in Nat /\ W * n \in Nat
    BY <1>7, <2>1
  <2> QED BY <1>7, <2>2
<1> QED BY <1>8, <1>9 DEF k, n

-----------------------------------------------------------------------------
(* Populations.                                                               *)

\* A population the game may have: shares of finitely many strategies, and sound.
Fair(p) == IsFiniteSet(DOMAIN p) /\ p \in [DOMAIN p -> Nat] /\ Sound(p)

LEMMA Division ==
  ASSUME NEW a \in Nat, NEW b \in Nat \ {0}
  PROVE  a \div b \in Nat /\ b * (a \div b) <= a /\ a <= b * (a \div b) + b
<1>1. a \div b \in Nat /\ a % b \in 0..(b - 1) /\ a = b * (a \div b) + (a % b)
  OBVIOUS
<1> DEFINE q == a \div b
           m == b * q
<1>2. m \in Nat
  BY <1>1
<1> HIDE DEF m
<1>3. m <= a /\ a <= m + b
  BY <1>1, <1>2 DEF m
<1> QED BY <1>1, <1>3 DEF m

\* The floor leaves room for every strategy.
LEMMA FloorFits ==
  ASSUME NEW ids, IsFiniteSet(ids), ids # {}
  PROVE  /\ Cardinality(ids) \in Nat \ {0}
         /\ FloorOf(ids) \in Nat /\ FloorOf(ids) <= Total \div Cardinality(ids)
         /\ FloorOf(ids) * Cardinality(ids) <= Total
<1> DEFINE n == Cardinality(ids)
           room == Total \div n
<1>1. n \in Nat \ {0}
  BY FS_CardinalityType, FS_EmptySet
<1>2. Total \in Nat /\ Floor \in Nat
  BY PopulationAssumption
<1> HIDE DEF n
<1>3. room \in Nat /\ n * room <= Total
  BY <1>1, <1>2, Division
<1> HIDE DEF room
<1>4. FloorOf(ids) \in Nat /\ FloorOf(ids) <= room
  <2>1. FloorOf(ids) = IF Floor <= room THEN Floor ELSE room
    BY DEF FloorOf, n, room
  <2> QED BY <1>2, <1>3, <2>1
<1>5. FloorOf(ids) * n <= Total
  <2> DEFINE d == room - FloorOf(ids)
  <2>1. d \in Nat /\ room = FloorOf(ids) + d
    BY <1>3, <1>4
  <2> HIDE DEF d
  <2>2. n * room = FloorOf(ids) * n + n * d /\ n * d \in Nat /\ FloorOf(ids) * n \in Nat
    BY <1>1, <1>4, <2>1
  <2> QED BY <1>2, <1>3, <2>2
<1> QED BY <1>1, <1>4, <1>5 DEF n, room

\* c for each and what is shared out of the rest.
LEMMA PartsAreFair ==
  ASSUME NEW ids, IsFiniteSet(ids), ids # {}, NEW c \in Nat, FloorOf(ids) <= c,
         c * Cardinality(ids) <= Total, NEW W \in Nat \ {0},
         NEW f \in [ids -> Nat], NEW F, IsSum(F, f, ids), F[ids] = W
  PROVE  Fair([id \in ids |-> c + ((Total - c * Cardinality(ids)) * f[id]) \div W])
<1> DEFINE n == Cardinality(ids)
           m == c * n
           R == Total - m
           h == [id \in ids |-> (R * f[id]) \div W]
           p == [id \in ids |-> c + (R * f[id]) \div W]
<1>1. n \in Nat \ {0} /\ Total \in Nat /\ m \in Nat
  <2>1. n \in Nat \ {0} /\ Total \in Nat
    BY FloorFits, PopulationAssumption
  <2> HIDE DEF n
  <2> QED BY <2>1
<1> HIDE DEF m
<1>2. R \in Nat /\ Total = m + R
  <2>1. m <= Total
    BY DEF m
  <2> HIDE DEF n
  <2> QED BY <1>1, <2>1
<1> HIDE DEF R
<1>3. ASSUME NEW id \in ids
      PROVE  /\ R * f[id] \in Nat /\ (R * f[id]) \div W \in Nat
             /\ W * ((R * f[id]) \div W) <= R * f[id]
             /\ R * f[id] <= W * ((R * f[id]) \div W) + W
  <2>1. R * f[id] \in Nat
    <3>1. f[id] \in Nat
      BY <1>3
    <3> QED BY <1>2, <3>1
  <2> QED BY <2>1, Division
<1>4. h \in [ids -> Nat] /\ p \in [ids -> Nat]
  <2>1. \A id \in ids : (R * f[id]) \div W \in Nat /\ c + (R * f[id]) \div W \in Nat
    BY <1>3
  <2> QED BY <2>1
<1>5. \A id \in ids : p[id] = c + h[id] /\ W * h[id] <= R * f[id] /\ R * f[id] <= W * h[id] + W
  BY <1>3
<1>6. PICK H : IsSum(H, h, ids)
  <2> HIDE DEF h
  <2> QED BY <1>4, SumExists
<1>7. PICK P : IsSum(P, p, ids) /\ Whole(p) = P[ids]
  <2> HIDE DEF p
  <2> QED BY <1>4, WholeSum
<1>8. Fair(p)
  <2> HIDE DEF h, p
  <2>1. H[ids] <= R /\ R <= H[ids] + n
    <3>1. IsSum(F, f, ids) /\ IsSum(H, h, ids) /\ F[ids] = W
      BY <1>6
    <3>2. \A id \in ids : W * h[id] <= R * f[id] /\ R * f[id] <= W * h[id] + W
      BY <1>5
    <3> QED BY <1>2, <1>4, <3>1, <3>2, SharedOut
  <2>2. P[ids] = m + H[ids]
    <3>1. \A id \in ids : p[id] = c + h[id]
      BY <1>5
    <3> QED BY <1>4, <1>6, <1>7, <3>1, SumShifted DEF m
  <2>3. H[ids] \in Nat
    BY <1>6 DEF IsSum
  <2>4. Whole(p) \in (Total - n)..Total
    <3> HIDE DEF n
    <3>1. P[ids] \in Int /\ P[ids] <= Total /\ Total - n <= P[ids]
      BY <1>1, <1>2, <2>1, <2>2, <2>3
    <3> QED BY <1>1, <1>7, <3>1
  <2>5. DOMAIN p = ids
    BY <1>4
  <2>6. ASSUME NEW id \in ids PROVE p[id] >= FloorOf(ids)
    <3>1. FloorOf(ids) \in Nat /\ h[id] \in Nat /\ p[id] = c + h[id]
      BY <1>4, <1>5, FloorFits
    <3> QED BY <3>1
  <2> QED BY <1>4, <2>4, <2>5, <2>6 DEF Fair, Sound, n
<1> QED BY <1>8 DEF p, R, m, n

LEMMA NobodyIsFair == Fair(NoPopulation)
<1>1. DOMAIN NoPopulation = {} /\ NoPopulation \in [{} -> Nat]
  BY DEF NoPopulation
<1> QED BY <1>1, FS_EmptySet DEF Fair, Sound

\* The floor is applied, whatever the values.
LEMMA FloorIsFair ==
  ASSUME NEW ids, IsFiniteSet(ids), NEW values \in [ids -> Nat]
  PROVE  Fair(ApplyFloor(values)) /\ DOMAIN ApplyFloor(values) = ids
<1> DEFINE n == Cardinality(ids)
           c == FloorOf(ids)
           R == Total - c * n
           W == Whole(values)
<1>1. ApplyFloor(values) = [id \in ids |-> c + (IF W > 0 THEN (R * values[id]) \div W ELSE R \div n)]
  BY DEF ApplyFloor
<1>2. DOMAIN ApplyFloor(values) = ids
  BY <1>1
<1>3. CASE ids = {}
  <2>1. ApplyFloor(values) = NoPopulation
    BY <1>1, <1>3 DEF NoPopulation
  <2> QED BY <1>2, <2>1, NobodyIsFair
<1>4. CASE ids # {}
  <2>1. n \in Nat \ {0} /\ c \in Nat /\ c * n <= Total /\ Total \in Nat
    BY <1>4, FloorFits, PopulationAssumption
  <2>2. PICK F : IsSum(F, values, ids) /\ W = F[ids]
    BY WholeSum
  <2>3. W \in Nat
    BY <2>2 DEF IsSum
  <2>4. CASE W > 0
    <3>1. ApplyFloor(values) = [id \in ids |-> c + (R * values[id]) \div W]
      BY <1>1, <2>4
    <3>2. Fair([id \in ids |-> c + ((Total - c * Cardinality(ids)) * values[id]) \div W])
      <4>1. W \in Nat \ {0} /\ FloorOf(ids) <= c /\ c * Cardinality(ids) <= Total
        BY <2>1, <2>3, <2>4
      <4> HIDE DEF W, c
      <4> QED BY <1>4, <2>1, <2>2, <4>1, PartsAreFair
    <3> QED BY <1>2, <3>1, <3>2
  <2>5. CASE ~(W > 0)
    <3> DEFINE ones == [id \in ids |-> 1]
    <3>1. ones \in [ids -> Nat]
      OBVIOUS
    <3>2. PICK G : IsSum(G, ones, ids)
      <4> HIDE DEF ones
      <4> QED BY <3>1, SumExists
    <3>3. G[ids] = n
      <4>1. \A id \in ids : ones[id] = 1
        OBVIOUS
      <4> HIDE DEF ones
      <4> QED BY <3>1, <3>2, <4>1, SumOfOnes
    <3>4. Fair([id \in ids |-> c + ((Total - c * Cardinality(ids)) * ones[id]) \div n])
      <4>1. FloorOf(ids) <= c /\ c * Cardinality(ids) <= Total
        BY <2>1
      <4> HIDE DEF ones, c, n
      <4> QED BY <1>4, <2>1, <3>1, <3>2, <3>3, <4>1, PartsAreFair
    <3>5. R \in Int
      <4> HIDE DEF n, c
      <4> QED BY <2>1
    <3>6. ApplyFloor(values) = [id \in ids |-> c + (R * ones[id]) \div n]
      <4>1. \A id \in ids : R * ones[id] = R
        <5> HIDE DEF R
        <5> QED BY <3>5
      <4> HIDE DEF ones, R
      <4> QED BY <1>1, <2>5, <4>1
    <3> QED BY <1>2, <3>4, <3>6
  <2> QED BY <2>3, <2>4, <2>5
<1> QED BY <1>3, <1>4

LEMMA NormalizedIsFair ==
  ASSUME NEW ids, IsFiniteSet(ids), NEW previous, previous \in [DOMAIN previous -> Nat]
  PROVE  Fair(Normalize(ids, previous)) /\ DOMAIN Normalize(ids, previous) = ids
<1> DEFINE n == Cardinality(ids)
           values == [id \in ids |-> Share(previous, id, Total \div n)]
<1>1. ASSUME NEW id \in ids PROVE Share(previous, id, Total \div n) \in Nat
  <2>1. Total \in Nat /\ n \in Nat \ {0}
    BY <1>1, FloorFits, PopulationAssumption
  <2>2. Total \div n \in Nat
    <3> HIDE DEF n
    <3> QED BY <2>1, Division
  <2> HIDE DEF n
  <2> QED BY <2>2 DEF Share
<1>2. values \in [ids -> Nat]
  BY <1>1
<1>3. Normalize(ids, previous) = ApplyFloor(values)
  BY DEF Normalize
<1> HIDE DEF values
<1> QED BY <1>2, <1>3, FloorIsFair

LEMMA GlobalIsFair ==
  ASSUME NEW ids, IsFiniteSet(ids), NEW before, before \in [DOMAIN before -> Nat],
         NEW now, now \in [DOMAIN now -> Nat]
  PROVE  Fair(Globalize(ids, before, now))
<1> DEFINE all == DOMAIN before \union DOMAIN now
           prior == [id \in all |-> Share(now, id, before[id])]
<1>1. \A id \in all : Share(now, id, before[id]) \in Nat
  BY DEF Share
<1>2. prior \in [all -> Nat] /\ DOMAIN prior = all
  BY <1>1
<1>3. Globalize(ids, before, now) = Normalize(ids, prior)
  BY DEF Globalize
<1> HIDE DEF prior
<1> QED BY <1>2, <1>3, NormalizedIsFair

LEMMA ReplicatedIsFair ==
  ASSUME NEW p, Fair(p), NEW u \in [DOMAIN p -> 0..100]
  PROVE  Fair(Replicate(p, u)) /\ DOMAIN Replicate(p, u) = DOMAIN p
<1> DEFINE ids == DOMAIN p
           paid == [id \in ids |-> p[id] * u[id]]
           average == Average(p, u)
           grown(id) == p[id] + (Eta * p[id] * (u[id] - average)) \div 10000
           values == [id \in ids |-> Max({0, grown(id)})]
<1>1. Total \in Nat \ {0} /\ Eta \in Nat
  BY PopulationAssumption
<1>2. \A id \in ids : p[id] \in Nat /\ u[id] \in Nat
  BY DEF Fair
<1>3. average \in Int
  <2>1. \A id \in ids : p[id] * u[id] \in Nat
    BY <1>2
  <2>2. paid \in [ids -> Nat]
    BY <2>1
  <2>3. average = Whole(paid) \div Total
    BY DEF Average
  <2> HIDE DEF paid, average
  <2>4. PICK F : IsSum(F, paid, ids) /\ Whole(paid) = F[ids]
    BY <2>2, WholeSum DEF Fair
  <2>5. Whole(paid) \in Nat
    BY <2>4 DEF IsSum
  <2> QED BY <1>1, <2>3, <2>5
<1> HIDE DEF average
<1>4. ASSUME NEW id \in ids PROVE Max({0, grown(id)}) \in Nat
  <2>1. grown(id) \in Int
    <3>1. Eta * p[id] * (u[id] - average) \in Int
      <4>1. Eta * p[id] \in Int /\ u[id] - average \in Int
        BY <1>1, <1>2, <1>3
      <4> QED BY <4>1
    <3> QED BY <1>2, <3>1
  <2> HIDE DEF grown
  <2>2. \E m \in {0, grown(id)} : \A other \in {0, grown(id)} : other <= m
    BY <2>1
  <2>3. /\ Max({0, grown(id)}) \in {0, grown(id)}
        /\ \A other \in {0, grown(id)} : other <= Max({0, grown(id)})
    BY <2>2 DEF Max
  <2> QED BY <2>1, <2>3
<1>5. values \in [ids -> Nat]
  BY <1>4
<1>6. Replicate(p, u) = ApplyFloor(values)
  BY DEF Replicate, average
<1> HIDE DEF values
<1> QED BY <1>5, <1>6, FloorIsFair DEF Fair

LEMMA EvolvedIsFair ==
  ASSUME NEW ids, IsFiniteSet(ids), NEW previous, previous \in [DOMAIN previous -> Nat],
         NEW u \in [ids -> 0..100]
  PROVE  Fair(Evolve(ids, previous, u)) /\ DOMAIN Evolve(ids, previous, u) = ids
BY NormalizedIsFair, ReplicatedIsFair DEF Evolve

\* Without a game the strategies share evenly.
LEMMA EvenIsFair ==
  ASSUME NEW ids, IsFiniteSet(ids)
  PROVE  Fair([id \in ids |-> Total \div Cardinality(ids)])
<1> DEFINE n == Cardinality(ids)
           room == Total \div n
           ones == [id \in ids |-> 1]
           even == [id \in ids |-> room]
<1>1. CASE ids = {}
  <2>1. even = NoPopulation
    BY <1>1 DEF NoPopulation
  <2> QED BY <2>1, NobodyIsFair
<1>2. CASE ids # {}
  <2>1. n \in Nat \ {0} /\ Total \in Nat /\ FloorOf(ids) <= room
    BY <1>2, FloorFits, PopulationAssumption
  <2> HIDE DEF n
  <2>2. room \in Nat /\ Total % n \in 0..(n - 1) /\ Total = n * room + (Total % n)
    BY <2>1
  <2> HIDE DEF room
  <2>3. room * n <= Total /\ Total - room * n \in 0..(n - 1)
    <3> DEFINE m == room * n
    <3>1. n * room = m /\ m \in Nat
      BY <2>1, <2>2
    <3> HIDE DEF m
    <3>2. m <= Total /\ Total - m \in 0..(n - 1)
      BY <2>1, <2>2, <3>1
    <3> QED BY <3>2 DEF m
  <2>4. ones \in [ids -> Nat]
    OBVIOUS
  <2> HIDE DEF ones
  <2>5. PICK G : IsSum(G, ones, ids)
    BY <2>4, SumExists
  <2>6. G[ids] = n
    <3>1. \A id \in ids : ones[id] = 1
      BY DEF ones
    <3> QED BY <2>4, <2>5, <3>1, SumOfOnes DEF n
  <2>7. Fair([id \in ids |-> room + ((Total - room * Cardinality(ids)) * ones[id]) \div n])
    BY <1>2, <2>1, <2>2, <2>3, <2>4, <2>5, <2>6, PartsAreFair DEF n
  <2>8. even = [id \in ids |-> room + ((Total - room * Cardinality(ids)) * ones[id]) \div n]
    <3> DEFINE rest == Total - room * Cardinality(ids)
    <3>1. rest \in 0..(n - 1)
      BY <2>3 DEF n
    <3> HIDE DEF rest
    <3>2. \A id \in ids : room + (rest * ones[id]) \div n = room
      <4>1. rest * 1 = rest /\ rest \div n = 0
        BY <2>1, <3>1
      <4> QED BY <2>2, <4>1 DEF ones
    <3>3. even = [id \in ids |-> room + (rest * ones[id]) \div n]
      BY <3>2
    <3> QED BY <3>3 DEF rest
  <2> QED BY <2>7, <2>8 DEF room, n
<1> QED BY <1>1, <1>2

-----------------------------------------------------------------------------
(* The game's populations and the file's are fair.                            *)

Roles == {"attacker", "defender", "attackers", "defenders"}

SharesInv ==
  /\ Fair(game.attacker) /\ Fair(game.defender)
  /\ DOMAIN population = Roles /\ \A role \in Roles : Fair(population[role])

\* No two strategies have the same id.
LEMMA IdsAreFinite ==
  ASSUME NEW all, all = Attackers \/ all = Defenders, NEW S \in SUBSET all
  PROVE  IsFiniteSet(Ids(S)) /\ Cardinality(Ids(S)) = Cardinality(S)
<1> DEFINE f == [x \in S |-> x.id]
<1>1. IsFiniteSet(S) /\ \A x, y \in S : x.id = y.id => x = y
  BY StrategyFilterAssumption, FS_Subset
<1>2. f \in [S -> Ids(S)]
  BY DEF Ids
<1>3. f \in Injection(S, Ids(S))
  BY <1>1, <1>2 DEF Injection, IsInjective
<1>4. f \in Surjection(S, Ids(S))
  BY <1>2 DEF Surjection, Ids
<1>5. ExistsBijection(S, Ids(S))
  BY <1>3, <1>4 DEF Bijection, ExistsBijection
<1> QED BY <1>1, <1>5, FS_Bijection

LEMMA PayoffsTyped ==
  ASSUME NEW ids, NEW rivals, NEW u \in Payoffs(ids, rivals)
  PROVE  u \in [ids -> 0..100]
<1>1. High \in 0..100 /\ Low \in 0..100
  BY RoundsAssumption
<1>2. CASE ids = {} \/ rivals = {}
  <2>1. u = [id \in ids |-> 0]
    BY <1>2 DEF Payoffs
  <2> QED BY <2>1
<1>3. CASE ~(ids = {} \/ rivals = {})
  <2>1. PICK best \in ids : u = [id \in ids |-> IF id = best THEN High ELSE Low]
    BY <1>3 DEF Payoffs
  <2> QED BY <1>1, <2>1
<1> QED BY <1>2, <1>3

LEMMA PlayedIsFair ==
  ASSUME SharesInv, NEW attackers \in SUBSET Attackers, NEW defenders \in SUBSET Defenders,
         NEW ua \in [Ids(attackers) -> 0..100], NEW ud \in [Ids(defenders) -> 0..100]
  PROVE  /\ Fair(Played(attackers, defenders, ua, ud).attacker)
         /\ Fair(Played(attackers, defenders, ua, ud).defender)
<1> DEFINE played == Played(attackers, defenders, ua, ud)
<1>1. /\ IsFiniteSet(Ids(attackers)) /\ IsFiniteSet(Ids(defenders))
      /\ Cardinality(Ids(defenders)) = Cardinality(defenders)
  BY IdsAreFinite
<1>2. /\ population.attacker \in [DOMAIN population.attacker -> Nat]
      /\ population.defender \in [DOMAIN population.defender -> Nat]
  BY DEF SharesInv, Roles, Fair
<1>3. Fair(Evolve(Ids(attackers), population.attacker, ua))
  BY <1>1, <1>2, EvolvedIsFair
<1>4. Fair(Evolve(Ids(defenders), population.defender, ud))
  BY <1>1, <1>2, EvolvedIsFair
<1>5. Fair([id \in Ids(defenders) |-> Total \div Cardinality(defenders)])
  BY <1>1, EvenIsFair
<1>6. /\ played.attacker = Evolve(Ids(attackers), population.attacker, ua)
      /\ \/ played.defender = Evolve(Ids(defenders), population.defender, ud)
         \/ played.defender = [id \in Ids(defenders) |-> Total \div Cardinality(defenders)]
  BY DEF Played
<1> QED BY <1>3, <1>4, <1>5, <1>6

LEMMA SavedIsFair ==
  ASSUME SharesInv
  PROVE  DOMAIN Saved = Roles /\ \A role \in Roles : Fair(Saved[role])
<1> DEFINE as == Ids({x \in Attackers : x.scenario \in {AnyScenario, state.scenario}})
           ds == Ids({x \in Defenders : x.scenario \in {AnyScenario, state.scenario}})
<1>1. IsFiniteSet(as) /\ IsFiniteSet(ds)
  BY IdsAreFinite
<1> HIDE DEF as, ds
<1>2. /\ population.attackers \in [DOMAIN population.attackers -> Nat]
      /\ population.defenders \in [DOMAIN population.defenders -> Nat]
      /\ game.attacker \in [DOMAIN game.attacker -> Nat]
      /\ game.defender \in [DOMAIN game.defender -> Nat]
  BY DEF SharesInv, Roles, Fair
<1>3. Fair(Globalize(as, population.attackers, game.attacker))
  BY <1>1, <1>2, GlobalIsFair
<1>4. Fair(Globalize(ds, population.defenders, game.defender))
  BY <1>1, <1>2, GlobalIsFair
<1>5. Saved = [attacker |-> game.attacker, defender |-> game.defender,
               attackers |-> Globalize(as, population.attackers, game.attacker),
               defenders |-> Globalize(ds, population.defenders, game.defender)]
  BY DEF Saved, as, ds
<1>6. Fair(game.attacker) /\ Fair(game.defender)
  BY DEF SharesInv
<1> DEFINE allAs == Globalize(as, population.attackers, game.attacker)
           allDs == Globalize(ds, population.defenders, game.defender)
<1>7. /\ Fair(allAs) /\ Fair(allDs)
      /\ Saved = [attacker |-> game.attacker, defender |-> game.defender,
                  attackers |-> allAs, defenders |-> allDs]
  BY <1>3, <1>4, <1>5
<1> HIDE DEF allAs, allDs
<1>8. DOMAIN Saved = Roles
  BY <1>7 DEF Roles
<1>9. ASSUME NEW role \in Roles PROVE Fair(Saved[role])
  BY <1>6, <1>7 DEF Roles
<1> QED BY <1>8, <1>9

LEMMA SharesInvNext ==
  ASSUME SharesInv, [Next]_vars
  PROVE  SharesInv'
<1>1. CASE Begin
  <2>1. game' = NoGame /\ population' = population
    BY <1>1 DEF Begin
  <2>2. Fair(game'.attacker) /\ Fair(game'.defender)
    BY <2>1, NobodyIsFair DEF NoGame
  <2> QED BY <2>1, <2>2 DEF SharesInv
<1>2. CASE Attack
  <2>1. PICK ua, ud :
          /\ ua \in Payoffs(Ids(ActiveAttackers(state)), ActiveFor(mode.kind, state))
          /\ ud \in Payoffs(Ids(ActiveFor(mode.kind, state)), ActiveAttackers(state))
          /\ game' = Played(ActiveAttackers(state), ActiveFor(mode.kind, state), ua, ud)
    BY <1>2 DEF Attack
  <2>2. ActiveAttackers(state) \in SUBSET Attackers
    BY DEF ActiveAttackers
  <2>3. ActiveFor(mode.kind, state) \in SUBSET Defenders
    BY DEF ActiveFor, FallbackDefenders, ActiveDefenders, Observers
  <2>4. /\ ua \in [Ids(ActiveAttackers(state)) -> 0..100]
        /\ ud \in [Ids(ActiveFor(mode.kind, state)) -> 0..100]
    BY <2>1, PayoffsTyped
  <2>5. Fair(game'.attacker) /\ Fair(game'.defender)
    BY <2>1, <2>2, <2>3, <2>4, PlayedIsFair
  <2>6. population' = population
    BY <1>2 DEF Attack
  <2> QED BY <2>5, <2>6 DEF SharesInv
<1>3. CASE Conclude
  <2>1. game' = game /\ (population' = population \/ population' = Saved)
    BY <1>3 DEF Conclude
  <2> QED BY <2>1, SavedIsFair DEF SharesInv
<1>4. CASE Observe \/ Defend \/ After
  BY <1>4 DEF Observe, Defend, After, SharesInv
<1>5. CASE OperationEnds \/ Telemetry \/ MetricsRestart \/ UNCHANGED vars
  BY <1>5 DEF OperationEnds, Telemetry, MetricsRestart, round, vars, SharesInv
<1> QED BY <1>1, <1>2, <1>3, <1>4, <1>5 DEF Next

\* No strategy dies out, and the shares are everything but what rounding loses, whatever
\* is played and learned (apply_population_floor, replicator_update, save_population).
THEOREM SharesStaySound == Spec => []SharesSound
<1>1. Init => SharesInv
  BY NobodyIsFair DEF Init, NoGame, SharesInv, Roles
<1>2. SharesInv /\ [Next]_vars => SharesInv'
  BY SharesInvNext
<1>3. SharesInv => SharesSound
  BY DEF SharesInv, SharesSound, Fair
<1> QED BY <1>1, <1>2, <1>3, PTL DEF Spec
=============================================================================
