--------------------------- MODULE MCOrchestrator ---------------------------
(***************************************************************************)
(* Instances of Orchestrator for TLC.                                      *)
(***************************************************************************)
EXTENDS Orchestrator, FiniteSets, TLC

CONSTANTS a1, a2, a3, b1, b2

Pipelines == {"customer", "commerce"}

FullPlan == [p \in Pipelines |-> IF p = "customer" THEN CustomerPlan ELSE CommercePlan]

\* The same shapes with fewer stages, where three attempts interleave.
ShortPlan ==
  [p \in Pipelines |-> IF p = "customer" THEN <<"quarantine", "bronze", "silver">>
                                         ELSE <<"bronze", "silver", "bronze">>]

OpsCalls == {"start_run", "begin_or_retry_batch", "start_stage", "complete_stage",
             "complete_batch", "complete_run", "fail_batch", "fail_run"}
AnyFault == (OpsCalls \cup {"body"}) \X {"refused", "lost"}
StageFaults == {"body", "start_stage", "complete_stage"} \X {"refused", "lost"}
RunEndFault == {<<"complete_run", "refused">>}
NoFault == {}

Symmetry == Permutations(Attempt) \cup Permutations(Batch)
=============================================================================
