SPECIFICATION Spec
CONSTANTS
  Runtime = runtime
  Eval = eval
  Trial = trial
  Retries = 1
  Selections <- MCSelections
  Modes = {"game_only", "rule_only", "random_baseline", "llm"}
  ScenarioNodes = {"sen4"}
  EntryNode = "sen4"
  OtherNodes = {"sen5"}
  NoTarget = ""
  Parameters <- MCParameters
  MaxRounds <- MCMaxRounds
  MaxGivenUp = 2
INVARIANTS OwnSelection ContextIsLatest InstalledOnce
PROPERTY GuardedTarget
CHECK_DEADLOCK FALSE
