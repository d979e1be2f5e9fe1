--------------------------- MODULE MCTrialRunner ----------------------------
(* An instance of TrialRunner for TLC.                                        *)
EXTENDS TrialRunner

MCSelections ==
  {Choice("observe", "sen5"), Choice("rate_limit", "sen5")}

\* Whatever the guard checked: another node, what takes all policies away, and an
\* install on another node under the id of a stage's policy.
MCParameters ==
  {[target |-> "sen5"],
   [action |-> "clear_all_policies"],
   [action |-> "rate_limit", target |-> "sen5", action_id |-> <<Eval, 1, 1>>]}

MCMaxRounds == [r \in Callers |-> IF r = Eval THEN 2 ELSE 1]
=============================================================================
