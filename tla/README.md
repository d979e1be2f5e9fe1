# A verification of the LLM-driven moving-target defence

This directory models the running system of the repository in TLA+: an SDN
controller that installs and clears moving-target-defence (MTD) policies on
OpenFlow switches, a game stage that attacks, chooses a defence and carries it
out, the attack emulation behind it, and the edge-cloud telemetry it all
observes. TLC checks each model on small instances. TLAPS proves, for every value
of the constants, every safety invariant and action property that the passing runs
check, and that the telemetry pipeline implements an abstract relay; what is
temporal is checked by TLC alone.

Run a check with `tlc -config MtdOverlap.cfg MCMtdController`, a proof with
`tlapm MtdControllerProofs.tla`.

## 1. Inventory

### Parts, state, operations

| Part | State | Operations | Must be right |
|---|---|---|---|
| SDN controller (`environment/sdn/controller_app.py`) | `datapaths`, `active_actions`, metrics, MAC table | `POST /mtd/action` (isolate, rate limit, reroute, clear), `DELETE /mtd/actions`, switch connect/disconnect, packet-in | what the registry says is what the switches enforce; clearing clears |
| Switches (external) | policy table, meters, control connection | apply OpenFlow messages in order, lose the connection, restart | — |
| Stage runner (`game/strategy_runtime.py`, `eval/runners/run_stage.py`) | the stage in progress, log and population files | teardown, build state, filter, game step, select, execute attacker and defender, confirm, log | stages do not influence each other except through what is logged |
| Game (`game/game_model.py`, `strategy_manager.py`, `policy_selector.py`) | population shares | filter strategies, replicator step, select | shares stay a distribution above the floor; only active strategies are played |
| State builder (`game/state_builder.py`, `stage_transition.py`) | none | derive path stage, evidence, labels from metrics | evidence is of this stage, not of an earlier one |
| Defender selector (`defender/decision/`) | none between stages | ask the model, retry, parse, recover, fall back | always an allowed strategy, correctly attributed |
| Caldera bridge (`attacker/engine/caldera_dispatch_bridge.py`) | threads; agents' groups and operations live in Caldera | dispatch: preflight, group, launch, poll, report, restore | every agent returns, every operation is reported |
| Cloud logger, cloud metrics (`environment/services/`) | event file; latest values, samples | append and report; record | metrics shows the state of the attack |
| Sensors, gateways, workers, cloud-db (`environment/services/`) | counters, bounded queues, summary table | send, queue, forward, summarise, store | counters are consistent and nothing accepted is lost silently |
| Cloud policy, cloud object | external context; blobs | update, decide; put, get | a decision uses one consistent context |
| Trial runner and clients (`eval/runners/run_trial.py`, `eval/emulator_client/`, `defender/actions/`) | trial log | decide, guard, adapt and act, repeat failed POSTs | one decision, one installed action, inside the scenario |
| MulVAL, topology, environment controllers, dashboard, reports | batch data | generate, parse, show | — |

### Interactions

    run_stage / strategy_runtime --HTTP--> controller --OpenFlow--> switches
          |        |                                          | drop, limit, reroute
          |        +--HTTP--> Caldera bridge --> Caldera      v
          |                        | attack_start/_result   sensor -> gateway -> worker -> cloud-db
          |                        v                                 (all report to metrics)
          +--reads--> cloud-metrics <-- cloud-logger <-- defense_result
          +--asks --> language model
          +--posts, asks--> cloud-policy <--posts-- run_trial --HTTP--> controller

Every arrow is one HTTP call with a timeout, and the callee goes on working on a
call its caller has given up. Only the selector's requests to the model and the
trial runner's POSTs are repeated. All services are `ThreadingHTTPServer`s, the
controller is one process of green threads (eventlet).

### Where it is hard

* The controller's handlers block in `send_msg`, so two requests and the switch
  events interleave in the middle of their loops; the loops run over a
  dictionary that the switch events change.
* Control connections come and go, are noticed late, and a switch that was away
  keeps its tables.
* Callers time out and repeat, or go on without an answer, while the callee
  finishes.
* Threads of a service take and release a lock several times in one request.
* The language model may answer anything, or nothing.
* Two dispatches share agents; the process that should return them may stop.
* Logs and the population file are written one after the other, without
  atomic replacement.

`PROJECT.json` lists the hazards one by one with their lines and the properties
that cover them.

## 2. The modules

| Module | Models | Uses |
|---|---|---|
| `MtdController` | the controller's policies, switches and connections | |
| `StageRunner` | `stage_teardown` and `execute_defender` over several stages, as the controller's client | `MtdController` |
| `GameStage` | a stage of either runner from its reset to its last write, with the files stages leave to each other | |
| `StateBuilder` | what a stage takes for the state of the system (operators) | |
| `StrategyFilter` | which strategies a state activates (operators) | `StateBuilder` |
| `Population` | normalisation, floor, replicator step, choice (operators) | |
| `StageOutcome` | what a stage led to and what it counts as (operators) | `StateBuilder` |
| `GameRounds` | stages of both runners, one after the other, with what they read, change and learn | the four above |
| `CloudPolicy` | the policy service and how it is called (operators) | |
| `TrialRunner` | stage runners and trial runner side by side as clients of the policy service and the controller | `CloudPolicy` |
| `CalderaBridge` | dispatches, agents' groups, operations | |
| `AttackEvents` | attack events through the logger to metrics | `CalderaBridge` |
| `BoundedRelay` | what a gateway promises: the abstract specification | |
| `TelemetryPipeline` | one sensor's payloads over all hops | implements `BoundedRelay` |
| `DefenderSelector` | the choice of a defence by the model, and its fallbacks | |
| `*Proofs` | theorems (section 4) | each its module |
| `MC*` | values of the constants for TLC | each its module |

### MtdController

`datapaths` and `active_actions` are the dictionaries' keys; `request` is the
record stored under an action id; `task` is what each REST thread is in the
middle of. `connected`, `deadEvents`, `chan`, `table` and `meters` are the
switches' side. A table entry maps a match to the action that owns it (the
cookie).

A handler is split at its `send_msg` calls and at the passes of its loops,
because there, and only there, a green thread can lose control:

| Code | Actions |
|---|---|
| `_apply_isolation`, `_apply_rate_limit` | `BeginInstall`, `VisitDatapath`, `Send`, `Register` |
| `_apply_dual_homed_reroute` | `BeginReroute`, `VisitInterface`, `Send`, `Register` |
| `_clear_target_policy`, `_clear_all_policies` | `ClearTarget`/`ClearAll`, `VisitDatapath`, `Send`, `Unregister` |
| the dictionary changed its size during the loop | `IterationError` |
| `del` of an entry another clear removed | `UnregisterTwice` |
| `switch_features_handler`, `state_change_handler` | `SwitchConnects`, `HandleDead` |
| the connection, the switch | `ConnectionLost`, `SwitchReceives` |

`VisitDatapath` and `IterationError` follow Python: the size of the dictionary is
compared before every step of the iteration, an entry that is added or removed
while the size is otherwise kept changes what is visited. The order in which a
dictionary or a snapshot is walked is left free.

Two history variables name what the code does not handle: `preSession[s]` holds
the actions issued before the present session of switch `s` began or its end was
handled, `aborted` the actions whose install or clear was cut short by an
exception. The properties except them and nothing else, so that they say exactly
where the promise ends.

Abstracted: the values in a match but for the address, priorities (all policy
rules have one), latencies and counters; `uuid4` is a fresh identifier, and the
stage runners pass no `action_id` of their own (a trial's model can: `TrialRunner`); the hash of an id into a cookie is
injective, the one into a meter id is a constant (`MeterOf`) and need not be.

### StageRunner

Adds the stage's client: `Teardown` (DELETE), `PostInstead` (the POST when the
DELETE was not answered with success), `ClearAnswered`, `Verify` (the count of
active policies, where a failed query counts as none), `Defend`, `Executed`,
`NextStage`. `inbox` holds the calls on their way; `ServeClear` and
`ServeInstall` start one of the controller's handlers for them, `Handle` runs it
and answers. A call the runner gave up stays in `inbox` or with its thread.

### GameStage

A stage is a record in the sequence `stage` with a program counter; `kind` says
which of the two runners it belongs to. Each kind has its own files, as by
default: `population`, and in `log` the stage log, the decision trace and (eval)
the summaries. `inForce` is the set of stages whose policy the controller has
registered, `underWay` those whose install the stage gave up while its handler goes on:
it registers at any time later (`RegisterLate`), whatever was reset meanwhile. A
stage's `strays` are the installs that were under way when its reset was made, history
that `OwnDefence` excepts. How a reset or an install gets to the controller is
`StageRunner`'s subject.

| Code | Actions |
|---|---|
| `stage_teardown` before the stage, unless the runtime is told not to or eval is a dry run | `Begin` |
| no-attack fallback, `load_population` | `Load` |
| `execute_defender`, `_execute_llm_defender` | `Defend` |
| the controller's handler comes to its end after the stage gave the call up | `RegisterLate` |
| next state, `build_stage_outcome`, `stage_persistence_policy`, warm-up count, eval's `_next_stage_id` | `Count` |
| `save_population`: open, then write | `Truncate`, `Write` |
| `append_record`: count, then append | `Number`, `AppendRow` |
| eval's second `stage_teardown` | `ResetAfter` |
| the process is killed or a write raises | `Crash` |

`Order` is the one order in which both runners take these steps and `Takes` says
which of them a stage takes. A file's line has the flags `whole` (it can be
parsed) and `ended` (a newline follows): a line cut off by a crash is continued by
the next append. A population that is written over by two stages may end up as
`Mixed`. `Overlap` is history: which stages ran at the same time.

Abstracted: what a record holds besides its id; the options that switch loading,
saving or logging off, or that make eval refuse strategies other than the runtime's
(defaults are modelled); the ratio of valid stages and the memory given to the model,
which decide nothing that is written. A clear that was given up and is served later can
only take policies away, which no property here minds; it is in `StageRunner`. A stage
killed while its call is served is `Defend` with the call given up, followed by `Crash`.

### StateBuilder, StrategyFilter, Population, StageOutcome

Pure operators, each translated from one file, over records of what later code
decides by.

* `StateBuilder.BuildState(obs, s, c)` is `build_state`: `obs` is what the sources
  answer (an export that could not be fetched is empty), `c` the constraints
  a stage passes on. `GatewaySeen`, `WorkerSeen`, `CloudSeen` are the three kinds of
  evidence, `StaleMetrics` is the detection of stale defence metrics, `Refused` the
  strict preconditions. A counter of which the code only asks whether it is
  positive is a Boolean; the storage counter is a number, because its growth over
  a baseline is compared.
* `StrategyFilter` has one operator for each reason of
  `_activation_failure_reason`; `ActiveAttackers`, `ActiveDefenders` put them
  together.
* `Population` works with whole units of which a population shares out `Total`;
  dividing rounds down, which loses less than a unit a strategy. `ApplyFloor`,
  `Normalize`, `Evolve` and `Dominant` are `apply_population_floor`,
  `normalize_population`, the replicator step and the choice of the largest share.
  Utilities are any two values, so the weights they are computed by are left out.
* `StageOutcome` has `reconcile_defense_effects` (`Reconciled`), the semantic
  observation of each expected effect (`Observed`), `resolve_security_outcome`
  (`SecurityOutcome`) and `build_stage_outcome` (`Outcome`, with `StageKind` and
  `PaperValid`).

### GameRounds

| Code | Actions |
|---|---|
| the stage begins; `stage_teardown` | `Begin` |
| first `build_state`, strict preconditions | `Observe` |
| filter, no-attack fallback, game step, selection, `execute_attacker` | `Attack` |
| `execute_defender`, `_execute_llm_defender`, the runtime's `post_defense_result_event` | `Defend` |
| second `build_state` | `After` |
| eval's event, outcome, `stage_persistence_policy`, population | `Conclude` |
| the bridge reports an operation; telemetry goes on; cloud-metrics restarts | `OperationEnds`, `Telemetry`, `MetricsRestart` |

`mode` says which runner a stage belongs to and whether it executes its defence.
`core` is what cloud-metrics holds, `mtd` and `totals` the controller's policies
and counters, `population` the file with active and global shares. The selection
of the model is any active defender, with or without a fallback
(`DefenderSelector` says how it is found). `launched` and `succeeded` are history:
which scenarios were attacked, which attackers reported success.

Calls are atomic here, so `LearnedInForce` speaks of a defence in force as of its answer; a
clear served late that takes it away again is `StageRunner`'s subject, that two
stages share their files `GameStage`'s, that events overtake each other
`AttackEvents`'.

### CloudPolicy and TrialRunner

A caller's round is a stage (from the selection on) or a trial; its calls to
`/context`, `/decide` and `/mtd/action` are records in `calls`, served by a thread
each (`ServeContext`, `Snapshot`, `Decide`, `ServeAction`). `GiveUp` is a timeout or a
failure: the call is made again as often as that caller's client does
(`CloudPolicy.Tries`), while the old one may be served still or is lost. A context
maps the keys of the service to the post they came from; merging is `Overlaid`. A trial
takes its decision from a baseline, the model's answer or what
`_recover_decision_from_text` makes of a text; `Executable` and `Adapted` are guard
and adapter. The answer's parameters are any object, of which `Parameters` has what names
a key of the request: the adapter puts them over the action and the target the guard
checked (`Payload`), and the controller takes an `action_id` among them for the id of the
policy. `Applied` is what the controller makes of any such request: clears of everything
and of a target under each of their names, installs that replace a policy of
the same id or are refused, and the rest, which changes nothing.

### CalderaBridge and AttackEvents

A dispatch is one thread with a program counter: `Preflight`, `Query` (live
agents of the plan's hosts), `PatchNext`, `Launch`, `PostStart`/`StartPolling`,
`Poll`, `PostResult`/`FinishPolling`, `Restore`. A call to Caldera may fail, and a
failed PATCH may have been applied. `BridgeStops` ends every thread. The external
side is `OperationEnds` and the agents' `group`.

`AttackEvents` replaces the posting steps by the way of the event: `Log`
(`append_event` under the lock), `Report` (after the lock), `Record` (metrics),
`Answer`. The bridge goes on when it is answered, or gives up (`GoesOn`).

### TelemetryPipeline

Sensor, gateways, workers and cloud-db with one thread per call; every
lock-protected block is one action, so `Admit` (`put_nowait`) and `Count` (the
statistics) are two. `SensorGivesUp`, `ForwardGivesUp`, `SummaryGivesUp` are calls
that fail unserved or time out and are served all the same; `RestartStorage` keeps
the rows and loses counters and threads. A thread is named by its sequence
number, which is never posted twice to the same route.

`BoundedRelay` says what this amounts to for a route: a payload is taken in or,
with a full queue, refused; those taken in leave in order, one at a time; each ends
as forwarded, which the worker has then processed, or as an error, which it may have.
The refinement mapping `RelayOf(g)` counts as accepted what a gateway's thread put
into the queue even when it has yet to add it to `received`; the queue, the
payload in the forward loop's hands and the counters of gateway and worker are
mapped to themselves.

### DefenderSelector

`Answered`/`Failed` are the request with its retries and the compact prompt after
a timeout, `Parse` and `Resolve` the reading and mapping of the answer, `Decide`
the three fallbacks and the normal end, `Record` what `run_stage` writes down. A
strategy is its position in `strategy_space.json`. The baseline is any active
strategy: which one the game prefers depends on utilities that are left out, and
it is `observe` whenever no attacker strategy is active, because then all are zero
and the cheapest wins.

## 3. What is checked

| Run | Instance | Shows |
|---|---|---|
| `mtd_overlap` | 2 switches, dual-homed node, 2 actions, 2 threads, no losses | `NoOrphanRules`, `RegisteredIsEnforced` under every interleaving of isolation, reroute and clears |
| `mtd_sessions` | 1 switch, 2 addresses, isolation and rate limit, 2 threads, 1 lost connection, fairness | `RegisteredIsEnforced`, `NoOrphanMeters` and `TypeOK` when sessions change, and `ClearTakesEffect` |
| `stage_reset` | 2 stages, 1 switch that may connect at any time, 2 threads | `ResetIsReal`, `DefenceLasts` |
| `stage_isolation` | the same with 1 lost connection | a violation: `StagesIsolated` (section 5) |
| `bridge_groups` | 2 dispatches sharing one of 2 agents, 1 failure, 1 stop | `AgentsAccounted`, `AgentsReturn`, `ResultReported` |
| `attack_events` | 2 operations of 1 scenario, 1 lost or late event, 1 stop | `StartsFirst`, `ActiveDuringAttack`, `LatestResultIsLogged` |
| `telemetry` | 1 route, 4 payloads, queue of 2, 2 troubles, fairness | `DeliveredIsCounted`, `SummariesAreStored`, `LastSequenceGrows`, `RelayImplemented`, `Drained` |
| `stage_files` | 3 stages of both kinds, 2 scenarios; 1 crash, or the first 2 overlap; any install given up | `IdsIncrease`, `TracesAgree`, `LossIsBounded`, `WarmupsCounted`, `NothingUnlearned`, `PopulationReadable`, `OwnDefence` |
| `selector_decides` | 4 strategies, 1 retry, answers ranking up to one strategy | `AlwaysAllowed`, `ModelObeyed`, `RightlyAttributed`, `Decided` |
| `game_rounds` | 2 stages of either runner, 2 scenarios, 3 attackers, 4 defenders, 1 failing call or restart | `EvidenceIsEarned`, `FlagsNeedDefence`, `NoAttackNoDefence`, `LearnedInForce`, `SharesSound` |
| `stale_flags` | the same with 3 stages and no failure | a violation: `FlagsAreLive` (section 5) |
| `policy_trials` | 1 runtime stage, 2 of eval, 1 trial, 1 retry, 2 calls given up | `OwnSelection`, `ContextIsLatest`, `InstalledOnce`, `GuardedTarget` |

### The bounds, and why they suffice

* *Two actions and two threads* are what every race of the controller needs: one
  install or clear in the middle of its loop, and another that overtakes it. Two
  switches are needed where a loop is half done (`mtd_overlap`); one is enough
  where a session changes, which concerns one switch at a time.
* *QueueSlots* of 1 makes every send a point of interleaving: the next one waits
  until the switch has taken the message.
* *MaxLosses* = 1 gives the late DEAD event of an old connection, the reconnect
  before it, and the restart. *MaxStages* = 2 in `stage_reset`: a stage and the one
  that clears it.
* *MaxFailures* and *MaxStops* = 1 in `bridge_groups`: each unhandled failure on
  its own, together with an overlap of the dispatches.
* `telemetry`: with four payloads and a queue of two there is a full queue, a payload
  in the forward loop's hands and one in the worker's; two troubles let a call that
  was given up be overtaken, and cloud-db restart under another; `SummaryEvery` = 2
  gives payloads with and without a summary. Routes share nothing but the sensor,
  which posts to them one after the other; the theorems are for any number of them.
* `stage_files`: a stage that is killed, the one whose line it spoils and the one
  that numbers the lines afterwards make three. *MaxTogether* = 2: a lost update
  or a double id takes two stages at once, and the third shows what they leave.
  *MaxTroubles* = 1 keeps the two kinds of trouble apart, each of which the
  properties except by name.
  Two scenarios tell the warm-ups of one from those of the other.
* *MaxRanked* = 1: the recovery takes the first active entry of the ranking and
  the first action named in it; entries before it are skipped, so longer
  rankings lead to no other choice.
* `game_rounds`: what one stage leaves to another (metrics, policies, populations)
  takes two. *Milestones* let the background's telemetry pass gateway, worker and
  storage; *MinRatio* and *MinDelta* are low enough for it to cross them. The shares
  are of 1000 units with a *Floor* of 150 and a full learning rate, so that the floor
  bites within two stages; *High* and *Low* are as far apart as utilities can be.
  The revival of stale flags takes a defence, the teardown after it, and a defence
  of another kind: three stages, no failure.
* `policy_trials`: two stages of one runner and one of the other are needed for a
  late call of an earlier stage to meet the context of a later one; *MaxGivenUp* = 2
  lets a first and a repeated call both be late. One node inside the scenario and
  one outside tell what the guard lets through. The *Parameters* put over it another
  node, the action that clears everything, and an install with the id of a stage's policy.

Symmetry is used where the members of a set are interchangeable and no liveness
property is checked in the run.

### Fairness

* `FairSpec` (controller): a green thread that can run is resumed, TCP delivers
  what a live connection holds, the controller notices a dead one. Weak
  fairness; nothing obliges a switch to connect or a client to call.
* `BridgeFairSpec`: a dispatch's thread goes on (`DispatchStep`); Caldera need not
  end an operation, since polling has a deadline; the bridge need not stop.
* `PipelineFairSpec`: threads and forward loops run; the sensor need not send,
  calls need not fail. A call ends because its callee answers.
* `SelectorFairSpec`: the selector runs, and a request ends by its timeout.

`GameRounds`, `TrialRunner`, `GameStage` and `StageRunner` have no liveness property:
a stage ends because its calls have timeouts, and nothing waits for another actor.

## 4. What is proved

Every safety invariant and every action property of the passing runs, and the
refinement of `BoundedRelay`, is a theorem, for all constants that satisfy the
assumptions of the modules: any number of switches, threads, agents, dispatches,
gateways, stages, strategies, and any bound on faults, losses and repetitions.
`PROJECT.json` lists the theorems with the properties they state.

Every proof has the same shape. A named invariant is a conjunction of named parts;
TLC has checked those that say more than a type on the run's instance. One lemma for each
action, or for each group of actions that leave the part alone, shows that a step
keeps it; the theorem is then temporal logic. A proof module begins each part with the
definitions of its invariant.

### The controller and the stage runner (`MtdControllerProofs`)

From finitely many switches, addresses that differ from names, and queues that hold
at least one message:

* `TypeCorrect`: `Spec => [](TypeOK /\ OnlyIssued)`. `OnlyIssued` says that tasks
  and the registry refer to issued actions only; it is needed because the
  request of an action that was not issued has no target.
* `NoOrphans` (`NoOrphanRules`). That a rule belongs to a registered action says
  nothing of an action which a clear is about to remove from the registry. The
  inductive invariant `OrphanInv` adds `TaskSends` (what a thread has yet to send is
  what its loop sends), `OneInstaller` (an action is installed by one thread at a time,
  and is in no registry or snapshot until that thread registers it), `RulesIssued`,
  `RulesReachable` (a rule on a switch the controller does not have in `datapaths` is of
  an earlier session) and `EraseProgress` (when a clear has passed a switch, the
  rules of the action it erases are followed by the delete there, unless excused).
* `RegisteredMeansEnforced` (`RegisteredIsEnforced`). `EnforcedInv` follows a live
  action, installed or being installed and erased by nobody, from its handler's
  loop to the switch: each rule its request calls for is *pending* with the installing
  thread, or *placed* in the table or on the connection (`Enforcing`), no delete of it
  is anywhere (`NoDeletes`), only what a request calls for is sent (`OnlyWanted`), and
  a metered rule comes behind its meter (`MeterFirst`): `OFPFC_ADD` after
  `OFPMC_ADD` on one connection is what makes this hold, and `Contended` is the
  one exception, a rival for the same match or the same meter.
* `NoMeterOutlives` (`NoOrphanMeters`): `MetersAnswered` names for each meter on a
  switch an action that answers for it. It does not need meter ids to be distinct.
* `RunnerIsAClient`: `RunnerSpec => Spec`. The stage runner's steps are steps of the
  controller, so all of the above holds under the runner too.
* `ResetMeansGone` (`ResetIsReal`) and `DefenceStays` (`DefenceLasts`), on top of it.
  `RunnerInv`: a call is in one place, waiting or with one thread (`OneCarrier`); the
  present call is what the runner's step says, and the thread that clears everything
  still has before it what the reset is about (`PresentCall`); nothing a reset is about
  comes back (`GoalIsPast`, from `OneInstaller`) and a success means it is gone
  (`GoalIsGone`); without a clear that was given up none is under way outside the
  teardown (`NoStrayClears`), which keeps the stage's own defence (`DefenceKept`).

### The telemetry pipeline (`TelemetryPipelineProofs`, `BoundedRelayProofs`)

* `PipelineRefinesRelay`: `PipelineSpec => RelayImplemented`. Every action of the
  pipeline is a step of the relay of one gateway or leaves all relays alone; the part
  that needs an invariant is `Confirm`, which a relay may do only when the worker has
  processed more than was forwarded. `RelayInv` therefore accounts for the worker
  (`WorkerAccounts`), for which threads must be finite in number and unique by their
  sequence number (`ThreadsFinite`, `ThreadsUnique`, from `SensorPosts`).
* `NothingLost`, `ForwardedIsProcessed`: the relay's own invariants (`RelayConserves`,
  `RelayReportsProcessed`, `RelayTypeCorrect`), carried over along the refinement.
* `InOrderUnlessGivenUp` (`LastSequenceGrows`): `OrderInv` says, for each gateway whose
  calls were never given up, that one call is under way on each hop and that last
  processed, in hand and queued sequence numbers increase, with the sensor's own above
  them all.
* `PostedIsStored` (`SummariesAreStored`): `SummaryInv` counts, for each gateway and for
  the storage, the rows for which no thread on the way answers any more, and
  keeps apart where a payload may be: to come, with a worker's thread, with a storage
  thread, or a row (`NewToWorker`, `NewToStorage`, `OneStoring`, `RowsBehind`).
* `NothingOverreported` (`DeliveredIsCounted`): `sent_total` is at most the sum over the
  gateways of what they delivered. What a sum over a set is the module has from the
  fold of the community modules by `AcceptedSum`.

### Sums, and induction over the size of a set

Two properties are about sums over a finite set of any size, the sent total over the
gateways and the shares of a population. The library's induction theorems take an
operator as parameter, which the provers cannot instantiate. `SizeInduction` takes the
property as a *set* of sets instead: if the empty set is in `Good`, and each set all
of whose parts with one element less are, then all finite sets are. It follows from
`Least`, which is the library's well-foundedness of `<` on `Nat`. With it
`SumExists` shows that a function on subsets with a sum's recursive equation exists, so that
the `CHOOSE` in the library's fold is one, and the other lemmas (`SumParts`, `SumGrows`,
`SumShifted`, `SumOfOnes`, `SharedOut`) are inductions over it. `TelemetryPipelineProofs`
and `GameRoundsProofs` each carry the part they need.

### The stages of the game (`GameRoundsProofs`)

* `ProgressIsEarned` (`EvidenceIsEarned`): from what is in cloud-metrics being earned
  (`CoreEarned`), running operations having been launched (`RunningLaunched`), and
  the stage's states having been built from that (`StatesEarned`). The baseline of
  `cloud_seen` matters here: the first state of a stage has none, so storage alone
  cannot raise it.
* `FlagsOutliveNothing` (`FlagsNeedDefence`): whatever the metrics say, no policy means
  no flag, by the case analysis of `query_ryu_defense_state`.
* `NothingWithoutAttack` (`NoAttackNoDefence`): `PlayedActive` relates the populations
  of the step of the game to the strategies that were active when it was played.
* `OnlyInForceIsLearned` (`LearnedInForce`): `ExecutedInForce` keeps what was executed
  in the controller's registry until the stage concludes; `DispatchedLaunched`,
  `ScenarioKnown` that the attack was there.
* `SharesStaySound` (`SharesSound`), for any utilities in percent, any `Total`, `Floor`
  and `Eta`, and any finite sets of strategies. The heart is `PartsAreFair`: with the
  floor `c` for each of `n` strategies and the rest shared out in proportion and
  rounded down, the sum is within `n` of the total, because the sum of what was rounded
  off is a part of a unit for each (`SharedOut`). `FloorIsFair` is then
  `apply_population_floor` with its case of all zeros, `NormalizedIsFair`,
  `ReplicatedIsFair`, `EvenIsFair` and `GlobalIsFair` the functions that end in it, and
  `SharesInv` says that the game's and the file's populations are of finitely many
  strategies and sound.

### The files of the stages (`GameStageProofs`)

`Base` says what a stage's record and the files hold, that a stage met the earlier ones
that were not over (`MetInOrder`), and where its outcome takes it (`OnCourse`). On it
stand four invariants:

* `IdsInv` for `IdsAreIncreasing` and `TracesAreAgreed`: a line's id is at most its
  number, so a stage that counts the lines gets an id above all of them; between its
  count and its append only stages it met can write an id as large (`Numbered`).
* `PopulationInv` for `LearningIsKept` and `PopulationIsReadable`: until a stage
  truncates the file it holds what the stage loaded, unless a rival learned at the
  same time (`BasisStays`), and while it writes the file is the one it emptied
  (`EmptyStays`).
* `PoliciesInv` for `DefenceIsOwn`: until a stage has observed, every policy in force and
  every install under way is its own, of a stage it met, one of its strays, or excused by
  its reset. Registering a late install moves it from the second to the first, so the invariant
  has to speak of both. `LossInv` for `LossesAreBounded`: a log lacks as many
  stages as it has cut lines at most, and one less while a line is open that the next
  append would spoil.
* `WarmupsInv` for `WarmupsAreCounted`: a summary's count is the number of warm-ups
  back to the last line of its scenario that is none, where lines that cannot be parsed
  are skipped.

### The bridge and its events (`AttackEventsProofs`)

* `AgentsAreAccounted` (`AgentsAccounted`): an undisturbed agent is claimed by one
  dispatch at most, which has seen it in the default group (`AgentOK`), and where a
  dispatch is decides which agents it has noted and which it has to patch
  (`ThreadOK`).
* `CampaignIsBridge`: `CampaignSpec => BridgeSpec`, every behaviour with the services is
  one of the bridge alone, so `BridgeInv` holds in both.
* `EventsAreTyped`, `StartIsLoggedFirst`: a dispatch posts its start, then one result
  (`PostedInOrder`), and goes on only after it was answered, the event was lost, or it
  is overdue (`HeardInOrder`); the log keeps what it has (`LogKept`).
* `ActiveIsShown`, `LatestIsLogged`: in an undisturbed scenario operations are reported
  one after the other (`SoleReport`), every event but the awaited one was answered
  (`UnderWay`), and metrics shows the operation reported (`ActiveShown`) and the last
  result (`LatestShown`).

### The clients of the policy service (`TrialRunnerProofs`)

`RunnersInv`: a call carries the choice of its round (`RunnersTyped`); one that was not
given up is the only one of its kind, and is awaited (`CallsAwaited`); a round whose call
to the controller is made once has it on its way or installed, never both and never
twice (`ActedOnce`); the context is that of the last round whose post was not given up
(`PostedLast`). `ContextsMerged` is the lemma about the service: a runner's post names
every key, so merging key by key replaces the whole context, which is why
`SelectionIsOwn` and `ContextIsOfLatest` hold. `InstallsOnce` is `ActedOnce`. For
`TargetIsGuarded`, `RequestsGuarded` is the lemma about guard and adapter: a request of an
answer that names no key of it is what the guard checked (`SentAsChecked`).
`NoneReplaced` says that an install without a named id takes no stage's policy away,
since by `ActedOnce` the id it gets was never used, and `ActionAnswered` that the call served
is the one the property's exception looks at.

### The selector (`DefenderSelectorProofs`)

`SelectorInv` says that nothing is chosen but by an answer (`ChoiceKnown`) and that a
decision is one of three (`DecisionKnown`). The fallback is a `CHOOSE` of a least element
in the order of preference, so `DefenceIsActive` needs that the order has one in every
nonempty set of strategies.

### What the proofs changed in the models

* `TrialRunner.ServeAction` was a `CASE` with guards that overlapped: what it denoted
  was not determined, though TLC takes the first. The guards are exclusive now.
* `AttackEvents.Undisturbed` did not except a scenario whose operation's start was under
  way when its dispatch died: `ActiveIsShown` failed there, the bound of no stop had
  hidden it from TLC, and the run now has one stop.
* `LatestResultIsLogged` compared events and not their places in the log.
* `StrategyFilter` assumes finitely many strategies, as a file has; `TrialRunner` that a
  selection is one of the actions a stage can ask for.
* `Overlaid` (`CloudPolicy`), `Globalize` (`Population`) and `RowsOf` (`GameStage`) say with
  functions what was `@@`, or a sequence walked backwards.

### Only model-checked

Everything temporal stays with TLC, as TLAPS has neither `ENABLED` nor liveness under
fairness here: `ClearTakesEffect`, `AgentsReturn`, `ResultReported`, `Drained`, `Decided`. The
two properties that are violated are false. No theorem is about a recursive operator,
since none of the modules that are proved about has one.

## 5. Findings

* **Stages are not isolated from a switch that was away** (`stage_isolation`).
  `stage_teardown` says that it clears every policy "to keep stages isolated". The
  controller sends the deletes to the switches connected at that time and forgets
  the policies; a switch that kept its tables enforces them again when it is
  back, and the reset was reported as a success.
* **Cleared defences come back as flags** (`stale_flags`). `query_ryu_defense_state`
  says that it derives the flags "from live Ryu state, with stale metric
  detection". What was last reported is discounted only while no policy at all is
  active: a rate limit of a later stage makes the quarantine of an earlier one
  count again, as `drop_rules_active` and `counters_stopped`, which block attackers
  and count as containment.

Met while modelling, without a run of their own because the model has them as what
the code does:

* The fallbacks for a failed request and for an unusable answer take the game's best
  strategy without the check that an advanced attack is not to be observed
  (`defender_selector.py:744-857` against 869). `ModelObeyed` is about an answer
  that named an active strategy and leaves the two fallbacks out.
* Against the same words of `stage_teardown`, stages are not isolated from an install that
  was given up, either. The controller registers a policy after the last of its sends
  (`controller_app.py:608-623`). A stage whose POST timed out records `execution_failed` and
  goes on (`strategy_runtime.py:891`); the next stage's reset goes by the registry, as does
  the count that verifies it, so it succeeds, and then the install of the earlier stage is
  registered. `OwnDefence` excepts these installs as `strays`; leave that disjunct out, and
  `stage_files` shows the sequence.
* The constraint guard checks the decision's target, and the adapter merges the answer's
  parameters over action and target afterwards (`action_adapter.py:31-35`), so a
  `target`, an `action` (`clear_all_policies` too) or an `action_id` among them reaches
  the controller unchecked, and the trial's record names what was checked instead of
  what was sent. No doc or test says otherwise. `GuardedTarget` excepts these answers by
  name, and holds for all others.
* README.md:744 excludes no-attack stages from learning; `attack_active` of a built
  state stays true once a scenario has any rows (`state_builder.py:902`), so later
  stages of it are comparable.
* README.md:749 says that empty payoff matrices do not persist populations; eval
  saves whenever the stage is valid for learning and has no such condition.
* `should_skip_persistence_for_state` is to avoid "teaching the game from failed
  live-ingestion placeholder states" (`strategy_runtime.py:466`) and is asked of the
  first state only: of a stage whose second read failed the game learns.
* README.md:743, "No-attack stage 0 forces observation", holds in the runtime only.
* eval's reconciliation reads the controller's cumulative flow totals, since it
  passes no baseline, so any flow ever installed confirms.
* Saving the populations of one scenario forgets the global shares of the other's
  strategies (`strategy_runtime.py:421-443`).
* A restart of cloud-metrics looks like an attack that was deactivated
  (`run_stage.py:736`) and counts as a success of the defence.
* The update with `safe_no_attack_fallback` stands in the branch of an executed
  defence (`strategy_runtime.py:1274`), so stages that executed are labelled as
  having no attack.
* `run_stage.py:562` looks up `cloud_seen` at a key no state has.
* `run_trial` posts a context with no key the policy service accepts, and does not
  look at the result of `apply_action` (`run_trial.py:397`); `LoggerClient` repeats
  POSTs, so events may be logged twice.

## 6. Not modelled, and the plan

Not modelled at all: MulVAL input and parsing, topology data, the environment
controllers, the dashboard, reports, scripts — batch processing, text, or
reading only. `PROJECT.json` gives the reason for each. Left out of the modelled
parts: metrics and latencies, wording, the caps of 500 events, statistics polling, the
workers' rolling statistics, the weights of utilities and sampled selection, the
policy service's own choice by load.

Left, in this order:

1. Abstract specifications: a controller whose installs and clears are atomic,
   implemented by `MtdController` while no session changes; a log of stages that grows
   by whole stages, implemented by `GameStage` without crashes. `EnforcedInv` and
   `IdsInv` are most of what their refinements need.
2. `LearningSwitch`: host locations, which `VisitInterface` leaves free.
3. The memory of stages that is given to the model, and the ratio of valid stages.
