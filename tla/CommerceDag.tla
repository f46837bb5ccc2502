---------------------------- MODULE CommerceDag -----------------------------
(***************************************************************************)
(* One dag_run of dags/commerce_pipeline_dag.py: the tries Airflow makes of *)
(* the task execute_commerce, each an attempt of Orchestrator with the      *)
(* BatchID of the dag_run and a PipelineRunID of its own.                   *)
(*                                                                         *)
(* Two layers of retries stand between the pipeline and an outage of the    *)
(* SQL Server, which holds both databases: every call of an attempt opens a *)
(* connection by _connect_with_retry (src/src/database.py), and Airflow     *)
(* repeats the task.  Airflow itself is modelled from what the DAG asks of  *)
(* it: a try that returns or raises reports its end; a try whose heartbeat  *)
(* is missed is given up, dead or not, and what a try that was given up     *)
(* reports is refused.  DataQualityError, which the retry policy does not   *)
(* retry, is never raised here: the processor of the customers is not       *)
(* called (see Warehouse).                                                  *)
(***************************************************************************)
EXTENDS Orchestrator, FiniteSets

CONSTANTS Retries,      \* the task's retries
          MaxConnects,  \* max_attempts of _connect_with_retry
          Fallible      \* the calls that may raise although the server is there

ASSUME DagAssumption ==
  /\ Retries \in Nat /\ MaxConnects \in Nat \ {0}
  /\ Attempt = 1 .. Retries + 1
  /\ "commerce" \in Pipeline
  /\ \A i \in DOMAIN Plan["commerce"] : Plan["commerce"][i] # "quarantine"

VARIABLES
  task,         \* the state of the task instance
  try,          \* its try_number, 0 before the first; try a is attempt a
  down,         \* whether the SQL Server cannot be reached
  refusals,     \* refusals[a]: connections refused to the present call of try a
  xcom,         \* the XComs of the dag_run: return values by task, failure_details
  callbacks,    \* the callbacks that have still to run, with their try
  events,       \* the rows of ops.PipelineEvents: EventType and TryNumber
  excused,      \* auxiliary: the tries one of whose calls failed on the server, or
                \* was refused a connection MaxConnects times in a row
  unreported    \* auxiliary: the tries that could not say how they ended

airflow == <<task, try, xcom, callbacks, events>>
dagVars == <<vars, airflow, down, refusals, excused, unreported>>

Over == {"success", "failed"}
TaskState == {"queued", "running", "up_for_retry"} \cup Over

\* uuid5 makes one BatchID of the dag_run's run_id, whatever the try.
DagInit ==
  /\ Init
  /\ \E b \in Batch : job = [a \in Attempt |-> [pipeline |-> "commerce", batch |-> b]]
  /\ task = "queued" /\ try = 0
  /\ down = FALSE
  /\ refusals = [a \in Attempt |-> 0]
  /\ xcom = {} /\ callbacks = {} /\ events = {}
  /\ excused = {} /\ unreported = {}

TheBatch == job[1].batch

-----------------------------------------------------------------------------
(***************************************************************************)
(* The processes.  Each try has one, which may outlive the try.            *)
(***************************************************************************)
Working(a) == a <= try /\ pc[a] \notin Ended

\* The calls by which an exception is handled.
Handling == {"fail_stage", "fail_batch", "fail_run"}

\* The next call of a raises, and has done nothing.
Refused(a) ==
  /\ Step(a)
  /\ tables' = tables
  /\ pc'[a] = CASE pc[a] \in {"start_run", "fail_batch", "fail_run"} -> "raised"
                [] pc[a] = "body" -> "fail_stage"
                [] OTHER -> Handler(a)

\* Neither a claim that was committed unseen nor a failure that could not be
\* written is known to the table and to the process that retries.
Unreported(a) ==
  \/ pc[a] = "begin_or_retry_batch" /\ batches' # batches /\ ~batchStarted'[a]
  \/ pc[a] = "fail_batch" /\ pc'[a] = "raised"

Note(a) == unreported' = IF Unreported(a) THEN unreported \cup {a} ELSE unreported

\* A call that gets its connection: it may fail on the server all the same.
Proceed(a) ==
  /\ Working(a) /\ ~down
  /\ \/ RejectBatch(a) /\ UNCHANGED excused
     \/ /\ Step(a) /\ ~RejectBatch(a)
        /\ Refused(a) => pc[a] \in Fallible
        /\ excused' = IF pc[a] \notin Handling /\ pc'[a] \in Handling \cup {"raised"}
                      THEN excused \cup {a} ELSE excused
  /\ refusals' = [refusals EXCEPT ![a] = 0]
  /\ Note(a)
  /\ UNCHANGED <<airflow, down>>

\* Mutant of RefuseConnection: the loop counts no attempt.
RefuseConnectionForever(a) ==
  /\ Working(a) /\ down
  /\ refusals' = [refusals EXCEPT ![a] = IF @ = 0 THEN 1 ELSE 0]
  /\ UNCHANGED <<vars, airflow, down, excused, unreported>>

\* _connect_with_retry sleeps after every refusal but the last ...
RefuseConnection(a) ==
  /\ Working(a) /\ down
  /\ refusals[a] + 1 < MaxConnects
  /\ refusals' = [refusals EXCEPT ![a] = @ + 1]
  /\ UNCHANGED <<vars, airflow, down, excused, unreported>>

\* Mutant of GiveUp: the loop raises one attempt too early.
GiveUpEarly(a) ==
  /\ Working(a) /\ down
  /\ refusals[a] + 2 >= MaxConnects
  /\ Refused(a)
  /\ excused' = IF refusals[a] + 1 = MaxConnects THEN excused \cup {a} ELSE excused
  /\ refusals' = [refusals EXCEPT ![a] = 0]
  /\ Note(a)
  /\ UNCHANGED <<airflow, down>>

\* ... and then raises TransientPipelineError: the call has done nothing.
GiveUp(a) ==
  /\ Working(a) /\ down
  /\ refusals[a] + 1 = MaxConnects
  /\ Refused(a)
  /\ excused' = excused \cup {a}
  /\ refusals' = [refusals EXCEPT ![a] = 0]
  /\ Note(a)
  /\ UNCHANGED <<airflow, down>>

Work(a) == Proceed(a) \/ RefuseConnection(a) \/ GiveUp(a)

\* The worker dies: nobody reports.
Die(a) ==
  /\ Working(a)
  /\ Crash(a)
  /\ unreported' = unreported \cup {a}
  /\ UNCHANGED <<airflow, down, refusals, excused>>

\* The SQL Server goes away, between two calls, or comes back.
Outage ==
  /\ down' = ~down
  /\ UNCHANGED <<vars, airflow, refusals, excused, unreported>>

-----------------------------------------------------------------------------
(***************************************************************************)
(* The task instance.                                                      *)
(***************************************************************************)
\* A try starts: execute_commerce draws a new PipelineRunID.
Launch ==
  /\ task \in {"queued", "up_for_retry"}
  /\ task' = "running"
  /\ try' = try + 1
  /\ UNCHANGED <<vars, down, refusals, xcom, callbacks, events, excused, unreported>>

\* Mutant of GoOn: one retry more than the task has.
GoOnOnceMore(kind) == IF try <= Retries + 1 THEN "up_for_retry" ELSE "failed"

\* Neither rule of the policy fails a task for what run_commerce_pipeline raises.
GoOn(kind) == IF kind = "success" THEN "success"
              ELSE IF try <= Retries THEN "up_for_retry" ELSE "failed"

CallbackOf(state) == CASE state = "success" -> "capture_task_success"
                       [] state = "up_for_retry" -> "capture_task_retry"
                       [] state = "failed" -> "capture_task_failure"

EndTry(kind) ==
  /\ task' = GoOn(kind)
  /\ callbacks' = callbacks \cup {<<CallbackOf(GoOn(kind)), try>>}
  /\ UNCHANGED <<vars, try, down, refusals, events, excused>>

\* The process of the present try tells Airflow how it ended.
Report ==
  /\ task = "running"
  /\ \/ /\ pc[try] = "returned"
        /\ EndTry("success")
        /\ xcom' = xcom \cup {"execute_commerce"}
     \/ /\ pc[try] = "raised"
        /\ EndTry("failure")
        /\ UNCHANGED xcom
  /\ UNCHANGED unreported

\* The heartbeat of the present try is missed: it is given up, and its process,
\* if it still runs, is left to itself.
Lose ==
  /\ task = "running"
  /\ EndTry("failure")
  /\ unreported' = unreported \cup {try}
  /\ UNCHANGED xcom

\* _get_run_info: the XCom of the task prepare_run, which this DAG does not have.
RunInfo == "prepare_run" \in xcom

\* A callback runs.  capture_task_retry returns without the run's identifiers;
\* capture_task_success, which has not checked for them, raises TypeError, and
\* Airflow logs it.
RunCallback ==
  \E c \in callbacks :
    /\ callbacks' = callbacks \ {c}
    /\ events' = events \cup
         (CASE c[1] = "capture_task_retry" /\ RunInfo -> {<<"RETRY", c[2]>>}
            [] c[1] = "capture_task_success" /\ c[2] > 1 /\ RunInfo -> {<<"RECOVERED", c[2]>>}
            [] OTHER -> {})
    /\ xcom' = IF c[1] = "capture_task_failure" THEN xcom \cup {"failure_details"} ELSE xcom
    /\ UNCHANGED <<vars, task, try, down, refusals, excused, unreported>>

DagNext ==
  \/ \E a \in Attempt : Work(a) \/ Die(a)
  \/ Outage \/ Launch \/ Report \/ Lose \/ RunCallback

DagSpec == DagInit /\ [][DagNext]_dagVars

\* The scheduler starts a try that is due, takes its report and gives up one whose
\* process is dead; a process goes on, and every call answers, raises or is
\* refused its connection.  Nothing says that the server comes back.
FairDagSpec ==
  /\ DagSpec
  /\ WF_dagVars(Launch) /\ WF_dagVars(Report)
  /\ WF_dagVars(try > 0 /\ pc[try] = "crashed" /\ Lose)
  /\ \A a \in Attempt : WF_dagVars(Work(a))

-----------------------------------------------------------------------------
(***************************************************************************)
(* Properties                                                              *)
(***************************************************************************)
\* Every variable holds a value of its type: in particular the task is tried at
\* most Retries + 1 times, and a call at most MaxConnects times.
DagTypeOK ==
  /\ TypeOK
  /\ task \in TaskState
  /\ try \in 0 .. Retries + 1
  /\ down \in BOOLEAN
  /\ refusals \in [Attempt -> 0 .. MaxConnects - 1]
  /\ xcom \subseteq {"execute_commerce", "failure_details"}
  /\ callbacks \subseteq
       {"capture_task_success", "capture_task_retry", "capture_task_failure"} \X Attempt
  /\ events \subseteq {"RETRY", "RECOVERED"} \X Attempt
  /\ excused \subseteq Attempt /\ unreported \subseteq Attempt

\* A task that succeeded stays true, whatever the tries that were given up and
\* still run do: the batch is SUCCESS with all its loads, and so is the run the
\* task's result names.
SuccessIsDurable ==
  task = "success" =>
    /\ batches[TheBatch] = [pipeline |-> "commerce", status |-> "SUCCESS"]
    /\ LoadStages("commerce") \subseteq loaded[TheBatch]
    /\ runs[try] = "SUCCESS"

\* When every try could report how it ended, a failed task can be cleared and run
\* again: the next claim of the batch is accepted.
FailedTaskIsRetryable ==
  task = "failed" /\ unreported = {} => Claimable(batches[TheBatch], "commerce")

\* ... and no try fails for what an earlier one left behind: a try raises only if
\* one of its calls failed on the server or was refused MaxConnects connections
\* in a row.
RaisedMeansOutage ==
  unreported = {} => \A a \in Attempt : pc[a] = "raised" => a \in excused

\* The task ends, even if the server never comes back and the workers die.
TaskEnds == <>(task \in Over)

\* The retry and success callbacks make the retries of a task visible: the try
\* that succeeded after others leaves its row in ops.PipelineEvents.
RecoveryIsRecorded ==
  task = "success" /\ try > 1 /\ callbacks = {} => <<"RECOVERED", try>> \in events

-----------------------------------------------------------------------------
(***************************************************************************)
(* The inductive invariant, beside that of Orchestrator.                   *)
(***************************************************************************)
\* All tries are at one batch of the commerce pipeline.
OneJob == \A a \in Attempt : job[a] = [pipeline |-> "commerce", batch |-> TheBatch]

\* The tries follow each other, and the task has succeeded because the last returned.
TriesInOrder ==
  /\ try = 0 <=> task = "queued"
  /\ task = "up_for_retry" => try <= Retries
  /\ task = "success" => pc[try] = "returned"
  /\ \A a \in Attempt : a > try => pc[a] = "start_run"

\* Those that are over have raised, when all could say so.
EarlierTriesRaised ==
  unreported = {} =>
    \A a \in Attempt : a < try \/ (a = try /\ task \in {"up_for_retry", "failed"}) => pc[a] = "raised"

\* Then the batch is free, or the last try has it or has finished it.
BatchIsAccountedFor ==
  unreported = {} =>
    \/ Claimable(batches[TheBatch], "commerce")
    \/ try > 0 /\ (Holds(try, TheBatch) \/ pc[try] = "returned")

ExcusedWhenHandling ==
  unreported = {} => \A a \in Attempt : pc[a] \in Handling \cup {"raised"} => a \in excused

DagInv ==
  /\ DagTypeOK /\ OneJob /\ TriesInOrder
  /\ EarlierTriesRaised /\ BatchIsAccountedFor /\ ExcusedWhenHandling
=============================================================================
