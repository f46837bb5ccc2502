----------------------------- MODULE CustomerDag -----------------------------
(***************************************************************************)
(* The Airflow DAG northstar_customer_pipeline                             *)
(* (src/dags/customer_pipeline_dag.py), for one dag_run and so for one     *)
(* BatchID.                                                                *)
(*                                                                         *)
(* Airflow keeps a state for each task and starts a process for each try   *)
(* of it.  The two may part: Airflow gives a try up when its heartbeat is  *)
(* missing, while the process may be dead or may go on, and then works at  *)
(* the tables besides the next try or behind the end of the dag_run.       *)
(* Clearing the tasks of a finished dag_run runs it again, with the same   *)
(* BatchID and a new PipelineRunID.                                        *)
(*                                                                         *)
(* As in Orchestrator a call on the database is one step that is "ok",     *)
(* "refused" (raises, nothing done) or "lost" (done, and raises).          *)
(***************************************************************************)
EXTENDS Naturals, FiniteSets

CONSTANTS Retries,   \* retries of bronze and of silver
          MaxRuns,   \* bound: how often the dag_run is executed
          Faulty,    \* the pairs <<call, outcome>> that may occur besides "ok"
          MayLose    \* whether Airflow may lose sight of a process

ASSUME DagAssumption == Retries \in Nat /\ MaxRuns \in Nat \ {0}

VARIABLES
  run,      \* the execution of the dag_run that is going on; also its PipelineRunID
  state,    \* state[t]: Airflow's state of task t
  tries,    \* tries[t]: tries of t started in this execution
  procs,    \* the processes, each executing one try of a task
  info,     \* XCom: the run_info that prepare_run has returned; 0 when there is none
  batch,    \* Status of the row of ops.PipelineBatches
  runs,     \* runs[r]: Status of the row of ops.PipelineRuns
  loaded,   \* the layers whose load has been committed for the batch
  alerted   \* the executions whose failure has been alerted

tables == <<batch, runs, loaded>>
vars == <<run, state, tries, procs, info, batch, runs, loaded, alerted>>

Run == 1 .. MaxRuns
Task == {"prepare_run", "bronze", "silver", "complete_success", "complete_failure"}
MaxTries(t) == IF t \in {"bronze", "silver"} THEN Retries + 1 ELSE 1
RowStatus == {"none", "RUNNING", "SUCCESS", "FAILED"}
Done == {"success", "failed", "upstream_failed", "skipped"}

Call == {"start_run", "claim", "push_info", "load", "complete_batch", "complete_run",
         "fail_batch", "fail_run", "alert"}

\* gen: the execution the try belongs to; id: the PipelineRunID it works for, 0 when
\* prepare_run has left no run_info.
Process == [gen : Run, task : Task, try : Nat \ {0}, id : {0} \cup Run, call : Call]

\* Mutants of Upstream: silver takes prepare_run's result; the failure task also
\* waits on complete_success.
UpstreamWithoutBronze(t) ==
  CASE t = "prepare_run"      -> {}
    [] t = "bronze"           -> {"prepare_run"}
    [] t = "silver"           -> {"prepare_run"}
    [] t = "complete_success" -> {"silver"}
    [] t = "complete_failure" -> {"prepare_run", "bronze", "silver"}
UpstreamOfEverything(t) ==
  CASE t = "prepare_run"      -> {}
    [] t = "bronze"           -> {"prepare_run"}
    [] t = "silver"           -> {"bronze"}
    [] t = "complete_success" -> {"silver"}
    [] t = "complete_failure" -> Task \ {"complete_failure"}

\* The wiring at the end of the DAG: by arguments, and by [...] >> failure_task.
Upstream(t) ==
  CASE t = "prepare_run"      -> {}
    [] t = "bronze"           -> {"prepare_run"}
    [] t = "silver"           -> {"bronze"}
    [] t = "complete_success" -> {"silver"}
    [] t = "complete_failure" -> {"prepare_run", "bronze", "silver"}

Outcomes(call) == {"ok"} \cup {o \in {"refused", "lost"} : <<call, o>> \in Faulty}

Init ==
  /\ run = 1
  /\ state = [t \in Task |-> "none"]
  /\ tries = [t \in Task |-> 0]
  /\ procs = {}
  /\ info = 0
  /\ batch = "none"
  /\ runs = [r \in Run |-> "none"]
  /\ loaded = {}
  /\ alerted = {}

-----------------------------------------------------------------------------
(***************************************************************************)
(* Airflow: which task may start, what becomes of one that cannot, what    *)
(* follows a failed try.                                                   *)
(***************************************************************************)
Failed(t) == state[t] \in {"failed", "upstream_failed"}

\* Mutant of Ready: complete_failure with the trigger rule ALL_FAILED.
ReadyWhenAllFailed(t) ==
  IF t = "complete_failure"
  THEN \A u \in Upstream(t) : Failed(u)
  ELSE \A u \in Upstream(t) : state[u] = "success"

\* ALL_SUCCESS, and ONE_FAILED for complete_failure.
Ready(t) ==
  IF t = "complete_failure"
  THEN \E u \in Upstream(t) : Failed(u)
  ELSE \A u \in Upstream(t) : state[u] = "success"

\* Mutant of FirstCall: handle_pipeline_failure forgets the batch.
FirstCallForgettingBatch(t) ==
  CASE t = "prepare_run"          -> "start_run"
    [] t \in {"bronze", "silver"} -> "load"
    [] t = "complete_success"     -> "complete_batch"
    [] t = "complete_failure"     -> IF info = 0 THEN "alert" ELSE "fail_run"

\* complete_failure goes by whether there is a run_info.
FirstCall(t) ==
  CASE t = "prepare_run"          -> "start_run"
    [] t \in {"bronze", "silver"} -> "load"
    [] t = "complete_success"     -> "complete_batch"
    [] t = "complete_failure"     -> IF info = 0 THEN "alert" ELSE "fail_batch"

\* A try starts: its task's XCom is cleared, its arguments are taken from XCom.
\* prepare_run makes a new PipelineRunID.
StartTry(t) ==
  /\ \/ state[t] = "none" /\ Ready(t)
     \/ state[t] = "up_for_retry"
  /\ state' = [state EXCEPT ![t] = "running"]
  /\ tries' = [tries EXCEPT ![t] = @ + 1]
  /\ procs' = procs \cup
       {[gen |-> run, task |-> t, try |-> tries[t] + 1, call |-> FirstCall(t),
         id |-> IF t = "prepare_run" THEN run ELSE info]}
  /\ info' = IF t = "prepare_run" THEN 0 ELSE info
  /\ UNCHANGED <<run, tables, alerted>>

\* A task whose rule can no longer be met is done without a try.
PassOver(t) ==
  /\ state[t] = "none"
  /\ IF t = "complete_failure"
     THEN /\ \A u \in Upstream(t) : state[u] = "success"
          /\ state' = [state EXCEPT ![t] = "skipped"]
     ELSE /\ \E u \in Upstream(t) : Failed(u)
          /\ state' = [state EXCEPT ![t] = "upstream_failed"]
  /\ UNCHANGED <<run, tries, procs, info, tables, alerted>>

\* Mutant of AfterFailure: one try too many.
AfterFailureOnceMore(t) == IF tries[t] <= MaxTries(t) THEN "up_for_retry" ELSE "failed"

AfterFailure(t) == IF tries[t] < MaxTries(t) THEN "up_for_retry" ELSE "failed"

\* p executes the try that Airflow takes to be running.
IsCurrent(p) == p.gen = run /\ p.try = tries[p.task] /\ state[p.task] = "running"

\* Airflow gives the running try up.
Lose(t) ==
  /\ MayLose
  /\ state[t] = "running"
  /\ state' = [state EXCEPT ![t] = AfterFailure(t)]
  /\ UNCHANGED <<run, tries, procs, info, tables, alerted>>

\* A process dies without a word.  (A stray one that dies does no more than one that
\* never moves again.)
Die(p) ==
  /\ MayLose
  /\ IsCurrent(p)
  /\ procs' = procs \ {p}
  /\ UNCHANGED <<run, state, tries, info, tables, alerted>>

Finished == \A t \in Task : state[t] \in Done

\* Somebody clears the tasks.
Rerun ==
  /\ Finished /\ run < MaxRuns
  /\ run' = run + 1
  /\ state' = [t \in Task |-> "none"]
  /\ tries' = [t \in Task |-> 0]
  /\ UNCHANGED <<procs, info, tables, alerted>>

-----------------------------------------------------------------------------
(***************************************************************************)
(* The tasks, call by call.  A try that Airflow has given up can no longer *)
(* report, but its calls on the database work as ever.                     *)
(***************************************************************************)
GoOn(p, call) ==
  /\ procs' = (procs \ {p}) \cup {[p EXCEPT !.call = call]}
  /\ UNCHANGED state

End(p, status) ==
  /\ procs' = procs \ {p}
  /\ state' = IF IsCurrent(p) THEN [state EXCEPT ![p.task] = status] ELSE state

\* The call has raised out of the task, or has answered: then the next call follows
\* or, after the last one, the task returns.
Answer(p, outcome, call) ==
  IF outcome # "ok" THEN End(p, AfterFailure(p.task))
  ELSE IF call = "return" THEN End(p, "success")
  ELSE GoOn(p, call)

\* prepare_run: start_pipeline_run, begin_or_retry_batch, return.
StartRun(p) ==
  /\ p.call = "start_run"
  /\ \E o \in Outcomes("start_run") :
       /\ runs' = IF o = "refused" THEN runs ELSE [runs EXCEPT ![p.id] = "RUNNING"]
       /\ Answer(p, o, "claim")
  /\ UNCHANGED <<run, tries, info, batch, loaded, alerted>>

\* Mutant of Claimable: without the check for RUNNING.
ClaimableIgnoringRunning(status) == status # "SUCCESS"

Claimable(status) == status \in {"none", "FAILED"}

ClaimBatch(p) ==
  /\ p.call = "claim"
  /\ Claimable(batch)
  /\ \E o \in Outcomes("claim") :
       /\ batch' = IF o = "refused" THEN batch ELSE "RUNNING"
       /\ Answer(p, o, "push_info")
  /\ UNCHANGED <<run, tries, info, runs, loaded, alerted>>

RejectBatch(p) ==
  /\ p.call = "claim"
  /\ ~Claimable(batch)
  /\ End(p, AfterFailure(p.task))
  /\ UNCHANGED <<run, tries, info, tables, alerted>>

PushInfo(p) ==
  /\ p.call = "push_info"
  /\ \E o \in Outcomes("push_info") :
       /\ info' = IF o = "refused" THEN info ELSE p.id
       /\ Answer(p, o, "return")
  /\ UNCHANGED <<run, tries, tables, alerted>>

\* run_customer_bronze or run_customer_silver: the load is one transaction, and
\* whatever else they do leaves the batch's data alone.
Load(p) ==
  /\ p.call = "load"
  /\ \E o \in Outcomes("load") :
       /\ loaded' = IF o = "refused" THEN loaded ELSE loaded \cup {p.task}
       /\ Answer(p, o, "return")
  /\ UNCHANGED <<run, tries, info, batch, runs, alerted>>

\* bronze finds too many invalid customers: BRONZE_RETRY_POLICY fails the task.
RefuseQuality(p) ==
  /\ p.call = "load" /\ p.task = "bronze"
  /\ End(p, "failed")
  /\ UNCHANGED <<run, tries, info, tables, alerted>>

\* complete_success: complete_batch, complete_pipeline_run.
CompleteBatch(p) ==
  /\ p.call = "complete_batch"
  /\ \E o \in Outcomes("complete_batch") :
       /\ batch' = IF o = "refused" THEN batch ELSE "SUCCESS"
       /\ Answer(p, o, "complete_run")
  /\ UNCHANGED <<run, tries, info, runs, loaded, alerted>>

CompleteRun(p) ==
  /\ p.call = "complete_run"
  /\ \E o \in Outcomes("complete_run") :
       /\ runs' = IF o = "refused" THEN runs ELSE [runs EXCEPT ![p.id] = "SUCCESS"]
       /\ Answer(p, o, "return")
  /\ UNCHANGED <<run, tries, info, batch, loaded, alerted>>

\* Mutant of AfterFailBatch: handle_pipeline_failure forgets the run.
AfterFailBatchAlerting == "alert"

AfterFailBatch == "fail_run"

\* complete_failure: handle_pipeline_failure, or the alert alone without a run_info.
FailBatch(p) ==
  /\ p.call = "fail_batch"
  /\ \E o \in Outcomes("fail_batch") :
       /\ batch' = IF o = "refused" THEN batch ELSE "FAILED"
       /\ Answer(p, o, AfterFailBatch)
  /\ UNCHANGED <<run, tries, info, runs, loaded, alerted>>

FailRun(p) ==
  /\ p.call = "fail_run"
  /\ \E o \in Outcomes("fail_run") :
       /\ runs' = IF o = "refused" THEN runs ELSE [runs EXCEPT ![p.id] = "FAILED"]
       /\ Answer(p, o, "alert")
  /\ UNCHANGED <<run, tries, info, batch, loaded, alerted>>

\* The logging sink does not raise, and the composite lets no sink's exception out.
Alert(p) ==
  /\ p.call = "alert"
  /\ alerted' = alerted \cup {p.gen}
  /\ End(p, "success")
  /\ UNCHANGED <<run, tries, info, tables>>

Step(p) ==
  \/ StartRun(p) \/ ClaimBatch(p) \/ RejectBatch(p) \/ PushInfo(p)
  \/ Load(p) \/ RefuseQuality(p)
  \/ CompleteBatch(p) \/ CompleteRun(p)
  \/ FailBatch(p) \/ FailRun(p) \/ Alert(p)

Next ==
  \/ \E t \in Task : StartTry(t) \/ PassOver(t) \/ Lose(t)
  \/ \E p \in procs : Step(p) \/ Die(p)
  \/ Rerun

Spec == Init /\ [][Next]_vars

\* No process executes the try that Airflow takes to be running.
Gone(t) == \A p \in procs : p.task = t => ~IsCurrent(p)

\* The scheduler goes on, each live process makes its next call, and a missing
\* heartbeat is noticed.  Nobody needs to lose or to clear anything.
FairSpec ==
  /\ Spec
  /\ \A t \in Task : /\ WF_vars(StartTry(t) \/ PassOver(t))
                     /\ WF_vars(Gone(t) /\ Lose(t))
                     /\ WF_vars(\E p \in procs : p.task = t /\ IsCurrent(p) /\ Step(p))

-----------------------------------------------------------------------------
(***************************************************************************)
(* Properties                                                              *)
(***************************************************************************)
\* Columns and task states have their values, and no task has more tries than its
\* retries allow.
TypeOK ==
  /\ run \in Run
  /\ state \in [Task -> Done \cup {"none", "running", "up_for_retry"}]
  /\ tries \in [Task -> Nat]
  /\ \A t \in Task : tries[t] <= MaxTries(t)
  /\ procs \subseteq Process
  /\ \A p \in procs : p.call # "alert" => p.id # 0
  /\ info \in {0} \cup Run
  /\ batch \in RowStatus
  /\ runs \in [Run -> RowStatus]
  /\ loaded \subseteq {"bronze", "silver"}
  /\ alerted \subseteq Run

\* The batch is SUCCESS only when both layers are loaded, whichever tries, stray
\* processes and executions did it.
SuccessMeansLoaded == batch = "SUCCESS" => loaded = {"bronze", "silver"}

\* When the execution is over and its completion task succeeded, batch and run agree
\* with it, and a failure has been alerted.  Stray processes cannot spoil that, but
\* for one: a prepare_run of an earlier execution that claims the FAILED batch.
FinishedMeansSettled ==
  Finished =>
    /\ state["complete_success"] = "success" =>
         batch = "SUCCESS" /\ runs[run] = "SUCCESS"
    /\ state["complete_failure"] = "success" =>
         /\ run \in alerted
         /\ state["prepare_run"] = "success" =>
              /\ runs[run] = "FAILED"
              /\ batch = "FAILED" \/ \E r \in 1 .. (run - 1) : runs[r] = "RUNNING"

\* A batch that is RUNNING can be traced: the row of the run that claimed it is
\* RUNNING too, even when the claim's answer was lost or the claimant has died.
RunningBatchHasRun == batch = "RUNNING" => \E r \in Run : runs[r] = "RUNNING"

\* What has been recorded of a finished batch or run is never taken back, however
\* the completion tasks fail and whoever is still at work.
OutcomeIsFinal ==
  [][/\ batch = "SUCCESS" => batch' = "SUCCESS"
     /\ \A r \in Run : runs[r] \in {"SUCCESS", "FAILED"} => runs'[r] = runs[r]]_vars

\* Somewhere a right to report on the batch is waiting to be used: in a prepare_run
\* about to return, in its XCom before either completion task starts, or in a
\* completion task about to report.
MayReport(r) ==
  \/ \E p \in procs : p.id = r /\ p.call \in {"push_info", "complete_batch", "fail_batch"}
  \/ /\ info = r
     /\ tries["prepare_run"] = 1
     /\ tries["complete_success"] = 0 /\ tries["complete_failure"] = 0

\* Executions of the DAG are attempts in the sense of the batch lifecycle: clearing
\* tasks and stray processes never bring two of them to one batch.
Lifecycle == INSTANCE BatchLifecycle WITH
  Attempt <- Run, Batch <- {"batch"}, Pipeline <- {"customer_pipeline"},
  batches <- [b \in {"batch"} |->
                [pipeline |-> IF batch = "none" THEN "none" ELSE "customer_pipeline",
                 status |-> batch]],
  holders <- [b \in {"batch"} |-> {r \in Run : MayReport(r)}]
FollowsLifecycle == Lifecycle!LifecycleSpec

\* Airflow has given up no prepare_run that is still there.
NoStrayClaim == \A p \in procs : p.task = "prepare_run" => IsCurrent(p)

\* A RUNNING batch does not stay behind: the execution ends, and the batch is
\* reported unless one of the tasks that write its row has itself failed.
RunningIsSettled ==
  []NoStrayClaim =>
    (batch = "RUNNING" ~>
       /\ Finished
       /\ \/ batch # "RUNNING"
          \/ \E t \in {"prepare_run", "complete_success", "complete_failure"} :
               state[t] = "failed")
=============================================================================
