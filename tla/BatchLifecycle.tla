--------------------------- MODULE BatchLifecycle ---------------------------
(***************************************************************************)
(* What ops.PipelineBatches promises to the pipelines that share it: the   *)
(* abstract specification of begin_or_retry_batch and complete_batch       *)
(* (src/src/monitoring/pipeline_batches.py), without the runs, the stages  *)
(* or the failures that lie behind a step.                                 *)
(*                                                                         *)
(* holders[b] is the set of attempts that have claimed batch b and may     *)
(* still write its row.  The table has no such column: the claim protocol  *)
(* alone keeps the set a singleton.                                        *)
(***************************************************************************)
CONSTANTS Attempt,   \* executions of a pipeline, one PipelineRunID each
          Batch,     \* BatchIDs
          Pipeline   \* PipelineNames

VARIABLES batches, holders

lifecycleVars == <<batches, holders>>

NoBatch == [pipeline |-> "none", status |-> "none"]
BatchRow == [pipeline : Pipeline, status : {"RUNNING", "SUCCESS", "FAILED"}]

LifecycleInit ==
  /\ batches = [b \in Batch |-> NoBatch]
  /\ holders = [b \in Batch |-> {}]

(***************************************************************************)
(* A new BatchID, or a FAILED one of the same pipeline, becomes RUNNING.   *)
(* The claimant may die or lose the answer in the very step that claims.   *)
(***************************************************************************)
Claim(a, p, b) ==
  /\ holders[b] = {}
  /\ \/ batches[b] = NoBatch
     \/ batches[b] = [pipeline |-> p, status |-> "FAILED"]
  /\ batches' = [batches EXCEPT ![b] = [pipeline |-> p, status |-> "RUNNING"]]
  /\ \/ holders' = [holders EXCEPT ![b] = {a}]
     \/ UNCHANGED holders

\* The holder of a running batch reports it done; it keeps the batch while it
\* records the end of its own run, or has no more to say of it.
ReportSuccess(a, b) ==
  /\ a \in holders[b]
  /\ batches[b].status = "RUNNING"
  /\ batches' = [batches EXCEPT ![b].status = "SUCCESS"]
  /\ \/ UNCHANGED holders
     \/ holders' = [holders EXCEPT ![b] = {}]

\* The holder reports failure (of a running batch, or of one it has already
\* reported done) and gives the batch up in the same step.
ReportFailure(a, b) ==
  /\ a \in holders[b]
  /\ batches' = [batches EXCEPT ![b].status = "FAILED"]
  /\ holders' = [holders EXCEPT ![b] = {}]

\* The holder returns, dies, or fails to write its report.
Release(a, b) ==
  /\ a \in holders[b]
  /\ holders' = [holders EXCEPT ![b] = {}]
  /\ UNCHANGED batches

LifecycleNext ==
  \E a \in Attempt, b \in Batch :
    \/ \E p \in Pipeline : Claim(a, p, b)
    \/ ReportSuccess(a, b)
    \/ ReportFailure(a, b)
    \/ Release(a, b)

LifecycleSpec == LifecycleInit /\ [][LifecycleNext]_lifecycleVars
=============================================================================
