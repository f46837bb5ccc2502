---------------------------- MODULE Orchestrator ----------------------------
(***************************************************************************)
(* Executions ("attempts") of run_customer_pipeline and                    *)
(* run_commerce_pipeline that share the operational tables                 *)
(* ops.PipelineBatches, ops.PipelineRuns and ops.PipelineStageRuns.        *)
(*                                                                         *)
(* Every call of the monitoring package opens its own connection, runs one *)
(* transaction and commits, so each is one atomic step here.  A call ends  *)
(*   "ok"       committed, and the caller knows;                           *)
(*   "refused"  rolled back or never sent, and it raises;                  *)
(*   "lost"     committed, and it raises all the same (the connection      *)
(*              drops after COMMIT has reached the server).                *)
(* A process may also die between two calls.  Several attempts, of the     *)
(* same or of different batches, interleave freely.                        *)
(***************************************************************************)
EXTENDS Naturals, Sequences

CONSTANTS Attempt,   \* calls of run_*_pipeline, each with a fresh uuid4 PipelineRunID
          Batch,     \* BatchIDs
          Pipeline,  \* PipelineNames
          Plan,      \* Plan[p]: the kind of each stage of p, in execution order
          Faulty,    \* the pairs <<call, outcome>> that may occur besides "ok"
          MayCrash   \* whether a process may die between two calls

StageKind == {"read", "quarantine", "bronze", "silver"}

\* run_customer_bronze: customer_bronze, extract, validate,
\* quarantine_invalid_customers, load_bronze_customers; then run_customer_silver.
CustomerPlan == <<"read", "read", "read", "quarantine", "bronze", "silver">>

\* COMMERCE_PIPELINES: Bronze, then Silver, of each of the five entities.
CommercePlan == <<"bronze", "silver", "bronze", "silver", "bronze", "silver",
                  "bronze", "silver", "bronze", "silver">>

\* Every pipeline has a stage, and loads what it has after validating it.
ASSUME PlanAssumption ==
  /\ Plan \in [Pipeline -> Seq(StageKind)]
  /\ \A p \in Pipeline : Plan[p] # <<>> /\ Plan[p][Len(Plan[p])] # "quarantine"
  /\ "none" \notin Pipeline

VARIABLES
  job,           \* job[a]: the pipeline and the batch_id the caller passes
  pc,            \* pc[a]: the next call of attempt a
  stage,         \* stage[a]: the position in Plan of the stage a is at
  batchStarted,  \* batchStarted[a]: the local batch_started
  batches,       \* ops.PipelineBatches, by BatchID
  runs,          \* [Status] of ops.PipelineRuns, by attempt
  stageRuns,     \* [Status] of ops.PipelineStageRuns, by attempt and position
  loaded         \* loaded[b]: the load stages some attempt has committed for b

vars == <<job, pc, stage, batchStarted, batches, runs, stageRuns, loaded>>
tables == <<batches, runs, stageRuns, loaded>>

NoBatch == [pipeline |-> "none", status |-> "none"]
RowStatus == {"RUNNING", "SUCCESS", "FAILED"}
BatchRow == [pipeline : Pipeline, status : RowStatus]

StageNo == UNION {DOMAIN Plan[p] : p \in Pipeline}
Kind(a, i) == Plan[job[a].pipeline][i]
LastStage(a) == Len(Plan[job[a].pipeline])
LoadStages(p) == {i \in DOMAIN Plan[p] : Plan[p][i] \in {"bronze", "silver"}}

\* The call an attempt makes while it owns the batch it has claimed.
OwnerCall == {"start_stage", "body", "complete_stage", "fail_stage", "check_rate",
              "complete_batch", "complete_run", "fail_batch"}
Ended == {"returned", "raised", "crashed"}
Call == OwnerCall \cup Ended \cup {"start_run", "begin_or_retry_batch", "fail_run"}

Outcomes(call) == {"ok"} \cup {o \in {"refused", "lost"} : <<call, o>> \in Faulty}

-----------------------------------------------------------------------------
Init ==
  /\ job \in [Attempt -> [pipeline : Pipeline, batch : Batch]]
  /\ pc = [a \in Attempt |-> "start_run"]
  /\ stage = [a \in Attempt |-> 1]
  /\ batchStarted = [a \in Attempt |-> FALSE]
  /\ batches = [b \in Batch |-> NoBatch]
  /\ runs = [a \in Attempt |-> "none"]
  /\ stageRuns = [a \in Attempt |-> [i \in StageNo |-> "none"]]
  /\ loaded = [b \in Batch |-> {}]

Goto(a, call) == pc' = [pc EXCEPT ![a] = call]

\* Mutants of Handler: the rejected attempt writes the batch; the handler forgets
\* the batch; the rejected attempt forgets its run.
HandlerIgnoringClaim(a) == "fail_batch"
HandlerRunOnly(a) == "fail_run"
HandlerBatchOnly(a) == IF batchStarted[a] THEN "fail_batch" ELSE "raised"

\* Where an exception inside the try block goes: to the handler, whose first
\* call depends on batch_started.
Handler(a) == IF batchStarted[a] THEN "fail_batch" ELSE "fail_run"

\* start_pipeline_run is called before the try: its exception goes to the caller.
StartRun(a) ==
  /\ pc[a] = "start_run"
  /\ \E o \in Outcomes("start_run") :
       /\ runs' = IF o = "refused" THEN runs ELSE [runs EXCEPT ![a] = "RUNNING"]
       /\ Goto(a, IF o = "ok" THEN "begin_or_retry_batch" ELSE "raised")
  /\ UNCHANGED <<job, stage, batchStarted, batches, stageRuns, loaded>>

\* Mutants of Claimable: without the check for RUNNING, without that for SUCCESS.
ClaimableIgnoringRunning(row, p) ==
  row = NoBatch \/ (row.pipeline = p /\ row.status # "SUCCESS")
ClaimableIgnoringSuccess(row, p) ==
  row = NoBatch \/ (row.pipeline = p /\ row.status # "RUNNING")

\* The rows begin_or_retry_batch turns into RUNNING: an absent one, or a FAILED
\* one that the same pipeline created.
Claimable(row, p) == row = NoBatch \/ row = [pipeline |-> p, status |-> "FAILED"]

BeginOrRetryBatch(a) ==
  LET p == job[a].pipeline
      b == job[a].batch
  IN  /\ pc[a] = "begin_or_retry_batch"
      /\ Claimable(batches[b], p)
      /\ \E o \in Outcomes("begin_or_retry_batch") :
           /\ batches' = IF o = "refused" THEN batches
                         ELSE [batches EXCEPT ![b] = [pipeline |-> p, status |-> "RUNNING"]]
           /\ batchStarted' = [batchStarted EXCEPT ![a] = (o = "ok")]
           /\ Goto(a, IF o = "ok" THEN "start_stage" ELSE Handler(a))
      /\ UNCHANGED <<job, stage, runs, stageRuns, loaded>>

\* The three ValueErrors: another pipeline's batch, a SUCCESS one, a RUNNING one.
RejectBatch(a) ==
  /\ pc[a] = "begin_or_retry_batch"
  /\ ~Claimable(batches[job[a].batch], job[a].pipeline)
  /\ Goto(a, Handler(a))
  /\ UNCHANGED <<job, stage, batchStarted, tables>>

-----------------------------------------------------------------------------
(***************************************************************************)
(* One stage: pipeline_stage(...) around the body.                         *)
(***************************************************************************)
SetStage(a, status) == stageRuns' = [stageRuns EXCEPT ![a][stage[a]] = status]

StartStage(a) ==
  /\ pc[a] = "start_stage"
  /\ \E o \in Outcomes("start_stage") :
       /\ IF o = "refused" THEN UNCHANGED stageRuns ELSE SetStage(a, "RUNNING")
       /\ Goto(a, IF o = "ok" THEN "body" ELSE Handler(a))
  /\ UNCHANGED <<job, stage, batchStarted, batches, runs, loaded>>

\* Mutant of AfterBody: the stage swallows the exception.
AfterBodySwallowing(a, o) == "complete_stage"

\* The body's exception goes to the except branch of pipeline_stage.
AfterBody(a, o) == IF o = "ok" THEN "complete_stage" ELSE "fail_stage"

\* A load is one transaction on the batch's rows that a repetition leaves as
\* they are; the other bodies write nothing that belongs to a batch.
StageBody(a) ==
  LET p == job[a].pipeline
      b == job[a].batch
  IN  /\ pc[a] = "body"
      /\ \E o \in Outcomes("body") :
           /\ loaded' = IF o # "refused" /\ stage[a] \in LoadStages(p)
                         THEN [loaded EXCEPT ![b] = @ \cup {stage[a]}]
                         ELSE loaded
           /\ Goto(a, AfterBody(a, o))
      /\ UNCHANGED <<job, stage, batchStarted, batches, runs, stageRuns>>

\* The stages that may follow: quarantine_invalid_customers runs only when
\* validation has found errors.
Following(a) ==
  LET i == stage[a]
  IN  {i + 1} \cup {j \in {i + 2} : i < LastStage(a) /\ Kind(a, i + 1) = "quarantine"}

\* Mutant of AfterStage: the loop over the entities ends one stage early.
AfterStageSkippingLast(a, j) ==
  IF Kind(a, j - 1) = "quarantine" THEN "check_rate"
  ELSE IF j >= LastStage(a) THEN "complete_batch" ELSE "start_stage"

\* The call after a completed stage, when j is the position of the next one: the
\* rate of invalid customers is checked whether or not there were any to quarantine.
AfterStage(a, j) ==
  IF Kind(a, j - 1) = "quarantine" THEN "check_rate"
  ELSE IF j > LastStage(a) THEN "complete_batch" ELSE "start_stage"

\* The else branch of pipeline_stage: outside its try, so that a failure here
\* leaves the row as it is and goes to the pipeline's handler.
CompleteStage(a) ==
  /\ pc[a] = "complete_stage"
  /\ \E o \in Outcomes("complete_stage") :
       /\ IF o = "refused" THEN UNCHANGED stageRuns ELSE SetStage(a, "SUCCESS")
       /\ IF o = "ok"
          THEN \E j \in Following(a) :
                 /\ stage' = [stage EXCEPT ![a] = j]
                 /\ Goto(a, AfterStage(a, j))
          ELSE /\ UNCHANGED stage
               /\ Goto(a, Handler(a))
  /\ UNCHANGED <<job, batchStarted, batches, runs, loaded>>

\* The except branch of pipeline_stage: the body's exception, or the one this
\* very call raises, goes on to the pipeline's handler.
FailStage(a) ==
  /\ pc[a] = "fail_stage"
  /\ \E o \in Outcomes("complete_stage") :
       IF o = "refused" THEN UNCHANGED stageRuns ELSE SetStage(a, "FAILED")
  /\ Goto(a, Handler(a))
  /\ UNCHANGED <<job, stage, batchStarted, batches, runs, loaded>>

\* The threshold is read, and the rate is or is not over it: on to the next stage,
\* or DataQualityError (ValueError, when the setting is malformed).
CheckInvalidRate(a) ==
  /\ pc[a] = "check_rate"
  /\ \/ Goto(a, "start_stage")
     \/ Goto(a, Handler(a))
  /\ UNCHANGED <<job, stage, batchStarted, tables>>

-----------------------------------------------------------------------------
(***************************************************************************)
(* The end of the run: complete_batch and complete_pipeline_run, first as  *)
(* the last calls of the try block, then as the calls of its handler.      *)
(* Neither UPDATE looks at the row's present status or at who claimed it;  *)
(* TypeOK says that they never run without a row to update.                *)
(***************************************************************************)
SetBatch(a, status) == batches' = [batches EXCEPT ![job[a].batch].status = status]
SetRun(a, status) == runs' = [runs EXCEPT ![a] = status]

CompleteBatch(a) ==
  /\ pc[a] = "complete_batch"
  /\ \E o \in Outcomes("complete_batch") :
       /\ IF o = "refused" THEN UNCHANGED batches ELSE SetBatch(a, "SUCCESS")
       /\ Goto(a, IF o = "ok" THEN "complete_run" ELSE Handler(a))
  /\ UNCHANGED <<job, stage, batchStarted, runs, stageRuns, loaded>>

CompleteRun(a) ==
  /\ pc[a] = "complete_run"
  /\ \E o \in Outcomes("complete_run") :
       /\ IF o = "refused" THEN UNCHANGED runs ELSE SetRun(a, "SUCCESS")
       /\ Goto(a, IF o = "ok" THEN "returned" ELSE Handler(a))
  /\ UNCHANGED <<job, stage, batchStarted, batches, stageRuns, loaded>>

\* An exception of this call leaves the handler: the run is not marked.
FailBatch(a) ==
  /\ pc[a] = "fail_batch"
  /\ \E o \in Outcomes("fail_batch") :
       /\ IF o = "refused" THEN UNCHANGED batches ELSE SetBatch(a, "FAILED")
       /\ Goto(a, IF o = "ok" THEN "fail_run" ELSE "raised")
  /\ UNCHANGED <<job, stage, batchStarted, runs, stageRuns, loaded>>

FailRun(a) ==
  /\ pc[a] = "fail_run"
  /\ \E o \in Outcomes("fail_run") :
       IF o = "refused" THEN UNCHANGED runs ELSE SetRun(a, "FAILED")
  /\ Goto(a, "raised")
  /\ UNCHANGED <<job, stage, batchStarted, batches, stageRuns, loaded>>

\* The worker dies: no handler runs.
Crash(a) ==
  /\ MayCrash
  /\ pc[a] \notin Ended
  /\ Goto(a, "crashed")
  /\ UNCHANGED <<job, stage, batchStarted, tables>>

Step(a) ==
  \/ StartRun(a)
  \/ BeginOrRetryBatch(a)
  \/ RejectBatch(a)
  \/ StartStage(a)
  \/ StageBody(a)
  \/ CompleteStage(a)
  \/ FailStage(a)
  \/ CheckInvalidRate(a)
  \/ CompleteBatch(a)
  \/ CompleteRun(a)
  \/ FailBatch(a)
  \/ FailRun(a)

Next == \E a \in Attempt : Step(a) \/ Crash(a)

Spec == Init /\ [][Next]_vars

\* A process that has not died goes on to its next call: the calls block only
\* on the database, and every one of them answers or raises.
FairSpec == Spec /\ \A a \in Attempt : WF_vars(Step(a))

-----------------------------------------------------------------------------
(***************************************************************************)
(* Properties                                                              *)
(***************************************************************************)
\* Every variable holds a value of its column or local: in particular the
\* statuses are the three of the CHECK constraints, nobody reports on a batch
\* without a row, and no attempt runs past the last stage of its plan.
TypeOK ==
  /\ job \in [Attempt -> [pipeline : Pipeline, batch : Batch]]
  /\ pc \in [Attempt -> Call]
  /\ stage \in [Attempt -> Nat \ {0}]
  /\ \A a \in Attempt : stage[a] <= LastStage(a) + 1
  /\ batchStarted \in [Attempt -> BOOLEAN]
  /\ batches \in [Batch -> BatchRow \cup {NoBatch}]
  /\ runs \in [Attempt -> RowStatus \cup {"none"}]
  /\ stageRuns \in [Attempt -> [StageNo -> RowStatus \cup {"none"}]]
  /\ loaded \in [Batch -> SUBSET StageNo]

Holds(a, b) == job[a].batch = b /\ batchStarted[a] /\ pc[a] \in OwnerCall
Returned(a, b) == job[a].batch = b /\ pc[a] = "returned"

\* begin_or_retry_batch lets one attempt at a time work on a batch, although
\* nothing in the row says whose it is and complete_batch does not ask; and
\* once an attempt has returned to its caller, nobody works on the batch again.
OneKeeper ==
  \A a1, a2 \in Attempt, b \in Batch :
    /\ Holds(a1, b) \/ Returned(a1, b)
    /\ Holds(a2, b) \/ Returned(a2, b)
    => a1 = a2

\* What the caller of run_*_pipeline was told stays true: after a normal return
\* the batch and the run are SUCCESS for good, whatever other attempts at the
\* same BatchID do.
ReturnIsDurable ==
  \A a \in Attempt :
    pc[a] = "returned" =>
      /\ batches[job[a].batch] = [pipeline |-> job[a].pipeline, status |-> "SUCCESS"]
      /\ runs[a] = "SUCCESS"

\* A batch is marked SUCCESS only when every Bronze and Silver load of its
\* pipeline has been committed for it, by whichever attempts.
SuccessMeansLoaded ==
  \A b \in Batch :
    batches[b].status = "SUCCESS" => LoadStages(batches[b].pipeline) \subseteq loaded[b]

\* Downstream entities do not execute after an upstream failure: over all the
\* attempts at a batch, a load is committed only after every load before it.
LoadsInOrder ==
  \A b \in Batch : \A i \in loaded[b] :
    \A j \in LoadStages(batches[b].pipeline) : j < i => j \in loaded[b]

\* The monitoring rows are evidence: a load stage recorded SUCCESS has been
\* committed, and a run recorded SUCCESS has a SUCCESS row for every load stage.
StageEvidence ==
  \A a \in Attempt : \A i \in LoadStages(job[a].pipeline) :
    /\ stageRuns[a][i] = "SUCCESS" => i \in loaded[job[a].batch]
    /\ runs[a] = "SUCCESS" => stageRuns[a][i] = "SUCCESS"

\* The holders as the abstract specification sees them.
holders == [b \in Batch |-> {a \in Attempt : Holds(a, b)}]
Lifecycle == INSTANCE BatchLifecycle

\* The orchestrators implement the batch lifecycle: a row changes only by a
\* claim of a new or FAILED batch or by the attempt that holds it, and a
\* rejected attempt changes nothing.
ImplementsLifecycle == Lifecycle!LifecycleSpec

\* If only the work of the stages and the stage rows can fail, no batch stays
\* RUNNING: it is reported SUCCESS or FAILED, and FAILED can be claimed again.
RunningIsSettled ==
  \A b \in Batch :
    batches[b].status = "RUNNING" ~> batches[b].status \in {"SUCCESS", "FAILED"}

\* ... and each attempt that raises has marked its run FAILED.
RaisedRunIsMarkedFailed ==
  \A a \in Attempt : pc[a] = "raised" => runs[a] = "FAILED"

\* An attempt records the batch's completion or its failure, not both.
SuccessIsFinal ==
  [][\A b \in Batch : batches[b].status = "SUCCESS" => batches'[b] = batches[b]]_vars

-----------------------------------------------------------------------------
(***************************************************************************)
(* The inductive invariant behind the safety properties.                   *)
(***************************************************************************)
StageCall == {"start_stage", "body", "complete_stage", "fail_stage", "check_rate"}

\* An attempt starts at stage 1 and, inside a stage, is at one of its plan.
StageInPlan ==
  \A a \in Attempt :
    /\ pc[a] \in {"start_run", "begin_or_retry_batch"} => stage[a] = 1
    /\ pc[a] \in StageCall => stage[a] <= LastStage(a)

\* batch_started is set exactly by a claim whose answer arrived.
ClaimFlag ==
  \A a \in Attempt :
    /\ pc[a] \in OwnerCall \cup {"returned"} => batchStarted[a]
    /\ pc[a] \in {"start_run", "begin_or_retry_batch"} => ~batchStarted[a]

\* What the row of its batch looks like to an attempt that holds it.
HeldRow ==
  \A a \in Attempt :
    LET row == batches[job[a].batch]
    IN  /\ pc[a] \in OwnerCall \cup {"returned"} => row.pipeline = job[a].pipeline
        /\ pc[a] \in StageCall \cup {"complete_batch"} => row.status = "RUNNING"
        /\ pc[a] \in {"complete_run", "returned"} => row.status = "SUCCESS"
        /\ pc[a] = "fail_batch" => row.status \in {"RUNNING", "SUCCESS"}

\* How far the attempt that holds a batch has come with the loads.
LoadProgress ==
  \A a \in Attempt :
    LET done == loaded[job[a].batch]
        p == job[a].pipeline
    IN  /\ pc[a] \in StageCall => \A i \in LoadStages(p) : i < stage[a] => i \in done
        /\ pc[a] = "complete_stage" /\ stage[a] \in LoadStages(p) => stage[a] \in done
        /\ pc[a] \in {"complete_batch", "complete_run"} => LoadStages(p) \subseteq done

NothingLoadedUnclaimed == \A b \in Batch : batches[b] = NoBatch => loaded[b] = {}

\* How far it has come with the stage rows of its run.
RowProgress ==
  \A a \in Attempt :
    /\ runs[a] = "SUCCESS" => pc[a] \in Ended \cup {"fail_batch", "fail_run"}
    /\ pc[a] \in StageCall =>
         \A i \in LoadStages(job[a].pipeline) : i < stage[a] => stageRuns[a][i] = "SUCCESS"
    /\ pc[a] \in {"complete_batch", "complete_run"} =>
         \A i \in LoadStages(job[a].pipeline) : stageRuns[a][i] = "SUCCESS"
    /\ pc[a] = "returned" => runs[a] = "SUCCESS"

ClaimInv == TypeOK /\ StageInPlan /\ ClaimFlag /\ HeldRow /\ OneKeeper
LoadInv == ClaimInv /\ LoadProgress /\ NothingLoadedUnclaimed /\ SuccessMeansLoaded /\ LoadsInOrder
EvidenceInv == LoadInv /\ RowProgress /\ StageEvidence
=============================================================================
