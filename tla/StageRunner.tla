---------------------------- MODULE StageRunner ----------------------------
(* The stage runner of game/strategy_runtime.py as a client of the SDN        *)
(* controller (MtdController): each stage first clears the policies of the    *)
(* stages before it (stage_teardown), then may have one policy installed      *)
(* (execute_defender). Its calls time out, and a call it gave up is served    *)
(* all the same: one still on its way is taken by a thread later, one a       *)
(* thread has taken runs to its end.                                          *)
(*                                                                            *)
(* The runner is the only REST client. wait_for_defense_commit, the event     *)
(* posts, the game and its files read nothing of the controller's that these  *)
(* steps depend on and are left out.                                          *)
EXTENDS MtdController

CONSTANT MaxStages   \* bound: how many stages are run

ASSUME StagesAssumption == MaxStages \in Nat \ {0}

VARIABLES
  stage,      \* stages begun
  step,       \* where run_game_stage is
  reply,      \* the answer to the present call
  calls,      \* calls made so far; the present call is the last
  inbox,      \* calls the controller has yet to take
  serving,    \* the call each REST thread serves, 0 for none
  reset,      \* pre_stage_reset_success of this stage, and what it rests on
  mine,       \* the action the present stage's defence was issued as
  givenUp     \* history: a clear of the teardown timed out while it was under way

runnerVars == <<stage, step, reply, calls, inbox, serving, reset, mine, givenUp>>
stageVars == <<vars, runnerVars>>

Waiting == {"delete", "post", "execute"}

Clear(call) == [kind |-> "clear", call |-> call]
Install(call, req) == [kind |-> "install", call |-> call, req |-> req]

\* The actions that were registered when the teardown began, whether its last
\* call was answered with success, and what it concluded.
NoReset == [goal |-> {}, ok |-> FALSE, success |-> FALSE]

RunnerInit ==
  /\ Init
  /\ stage = 1
  /\ step = "teardown"
  /\ reply = "none"
  /\ calls = 0
  /\ inbox = {}
  /\ serving = [th \in Threads |-> 0]
  /\ reset = NoReset
  /\ mine = NoAction
  /\ givenUp = FALSE

-----------------------------------------------------------------------------
(* The runner.                                                                *)

\* A call is made; the controller may be out of its reach.
Call(next, message(_)) ==
  /\ calls' = calls + 1
  /\ reply' = "none"
  /\ step' = next
  /\ inbox' \in {inbox, inbox \union {message(calls + 1)}}

\* stage_teardown up to its DELETE /mtd/actions.
Teardown ==
  /\ step = "teardown"
  /\ Call("delete", Clear)
  /\ reset' = [goal |-> active_actions, ok |-> FALSE, success |-> FALSE]
  /\ mine' = NoAction
  /\ UNCHANGED <<vars, stage, serving, givenUp>>

\* Status 0: no answer within the timeout. The call may be under way.
TimedOut == reply = "none"

UnderWay == (\E m \in inbox : m.call = calls) \/ \E th \in Threads : serving[th] = calls

\* `if not delete_result.get("ok")`: clear_all_policies is posted instead.
PostInstead ==
  /\ step = "delete"
  /\ reply # "ok"
  /\ Call("post", Clear)
  /\ givenUp' = (givenUp \/ (TimedOut /\ UnderWay))
  /\ UNCHANGED <<vars, stage, serving, reset, mine>>

\* Wrong variant: whatever the DELETE answered, it is taken for done.
ClearAnsweredAnyhow ==
  /\ step \in {"delete", "post"}
  /\ reset' = [reset EXCEPT !.ok = TRUE]
  /\ step' = "verify"
  /\ givenUp' = (givenUp \/ (TimedOut /\ UnderWay))
  /\ UNCHANGED <<vars, stage, reply, calls, inbox, serving, mine>>

\* The result the teardown goes on with: an accepted DELETE, or any end of the POST.
ClearAnswered ==
  /\ step = "delete" => reply = "ok"
  /\ step \in {"delete", "post"}
  /\ reset' = [reset EXCEPT !.ok = (reply = "ok")]
  /\ step' = "verify"
  /\ givenUp' = (givenUp \/ (TimedOut /\ UnderWay))
  /\ UNCHANGED <<vars, stage, reply, calls, inbox, serving, mine>>

\* query_active_policy_count: a query that fails counts as none.
Verify ==
  /\ step = "verify"
  /\ \E count \in {0, Cardinality(active_actions)} :
       reset' = [reset EXCEPT !.success = reset.ok /\ count = 0]
  /\ step' = "defend"
  /\ UNCHANGED <<vars, stage, reply, calls, inbox, serving, mine, givenUp>>

\* execute_defender posts the selected policy, or only observes. The stage goes
\* on after a reset that failed, too.
Defend ==
  /\ step = "defend"
  /\ \/ /\ \E req \in Offered : Call("execute", LAMBDA call : Install(call, req))
        /\ UNCHANGED <<vars, stage, serving, reset, mine, givenUp>>
     \/ /\ step' = "over"
        /\ UNCHANGED <<vars, stage, reply, calls, inbox, serving, reset, mine, givenUp>>

\* "executed" or "execution_failed"; the stage is over.
Executed ==
  /\ step = "execute"
  /\ step' = "over"
  /\ UNCHANGED <<vars, stage, reply, calls, inbox, serving, reset, mine, givenUp>>

NextStage ==
  /\ step = "over"
  /\ stage < MaxStages
  /\ stage' = stage + 1
  /\ step' = "teardown"
  /\ reply' = "none"
  /\ UNCHANGED <<vars, calls, inbox, serving, reset, mine, givenUp>>

Runner ==
  Teardown \/ PostInstead \/ ClearAnswered \/ Verify \/ Defend \/ Executed \/ NextStage

-----------------------------------------------------------------------------
(* The controller's side of a call.                                           *)

\* The runner hears of the end of call unless it has stopped listening.
Answer(call, result) ==
  reply' = IF step \in Waiting /\ call = calls THEN result ELSE reply

\* A thread takes a clear: with nothing registered it answers at once.
ServeClear(th, m) ==
  /\ m.kind = "clear"
  /\ \/ /\ ClearAll(th)
        /\ serving' = [serving EXCEPT ![th] = m.call]
        /\ UNCHANGED reply
     \/ /\ task[th].pc = "idle"
        /\ active_actions = {}
        /\ Answer(m.call, "ok")
        /\ UNCHANGED <<vars, serving>>
  /\ UNCHANGED mine

\* A thread takes an install.
ServeInstall(th, m) ==
  /\ m.kind = "install"
  /\ \E id \in ActionIds :
       /\ BeginInstall(th, m.req, id) \/ BeginReroute(th, m.req, id)
       /\ mine' = IF step = "execute" /\ m.call = calls THEN id ELSE mine
  /\ serving' = [serving EXCEPT ![th] = m.call]
  /\ UNCHANGED reply

Serve(th) ==
  /\ \E m \in inbox :
       /\ ServeClear(th, m) \/ ServeInstall(th, m)
       /\ inbox' = inbox \ {m}
  /\ UNCHANGED <<stage, step, calls, reset, givenUp>>

\* Wrong variant: 202 although the handler raised an exception.
SucceedsAlways == TRUE

\* A handler that ends with 202 has just changed the registry; one that ends
\* with 500 has not.
Succeeds == active_actions' # active_actions

\* A thread goes on with its call, and answers it when that is done.
Handle(th) ==
  /\ Work(th)
  /\ IF task'[th].pc = "idle"
     THEN /\ Answer(serving[th], IF Succeeds THEN "ok" ELSE "error")
          /\ serving' = [serving EXCEPT ![th] = 0]
     ELSE UNCHANGED <<reply, serving>>
  /\ UNCHANGED <<stage, step, calls, inbox, reset, mine, givenUp>>

RunnerNext ==
  \/ Runner
  \/ \E th \in Threads : Serve(th) \/ Handle(th)
  \/ \E s \in Switches : Network(s) /\ UNCHANGED runnerVars

RunnerSpec == RunnerInit /\ [][RunnerNext]_stageVars

-----------------------------------------------------------------------------

\* A reset that reports success has reset: none of the policies registered when
\* it began is registered, and their rules are gone from every switch, or a
\* delete is on its way behind them, but for the losses Accounted names. This
\* must hold although the count after it may come from a query that failed, and
\* although a DELETE that was given up may be running beside the POST.
ResetIsReal ==
  reset.success =>
    \A id \in reset.goal :
      /\ id \notin active_actions
      /\ \A s \in Switches, m \in Matches :
           Stands(s, id, m) => id \in preSession[s] \union aborted

\* A defence answered with 202 stays registered for its stage, as long as no
\* clear was given up: only such a clear can be served too late.
DefenceLasts ==
  step = "over" /\ reply = "ok" /\ mine # NoAction /\ ~givenUp => mine \in active_actions

\* Nothing is under way between the runner, the controller and the switches.
Quiet ==
  /\ inbox = {}
  /\ \A th \in Threads : task[th].pc = "idle"
  /\ \A s \in Switches : chan[s] = <<>> /\ deadEvents[s] = 0

\* "Clear every active MTD policy before the stage to keep stages isolated": once
\* a reset succeeded and everything is quiet, no switch enforces a policy of an
\* earlier stage.
StagesIsolated ==
  reset.success /\ Quiet =>
    \A s \in connected, id \in reset.goal, m \in Matches : table[s][m] # id
=============================================================================
