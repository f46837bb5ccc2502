# Northstar data platform: specifications and proofs

TLA+ specifications of the Northstar data platform (`src/`), the TLC
configurations that check them, and TLAPS proofs of their main properties.
Paths below are relative to `src/` unless they name a file of this directory;
`src/monitoring/...` is therefore the file `src/src/monitoring/...` of the
checkout.

To run it: `tlc -config WarehouseOrders.cfg MCWarehouse.tla`, likewise for the
other `.cfg` files, and `tlapm OrchestratorProofs.tla`, likewise for the other
modules whose name ends in `Proofs`.

## The system

Northstar copies customers, products, orders, order items and payments from an
operational database into a warehouse, in two layers: Bronze (`raw.*`, one copy
per batch, never changed) and Silver (`silver.*`, one row per key, the current
state). A pipeline execution has a `PipelineRunID`; the work it does belongs to a
`BatchID`, which outlives it, so that a failed batch can be retried by another
execution. What happens is recorded in `ops.*`. There is no process that owns
the state: several Python processes (Airflow workers, command lines) meet only
in the tables of one SQL Server database.

### Components

| Component | State it keeps | Operations | Modelled in |
|---|---|---|---|
| Batch lifecycle, `src/monitoring/pipeline_batches.py` | `ops.PipelineBatches`: pipeline and status per BatchID | `begin_or_retry_batch`, `complete_batch` | `BatchLifecycle` (abstract), `Orchestrator` |
| Run and stage records, `src/monitoring/pipeline_runs.py` | `ops.PipelineRuns`, `ops.PipelineStageRuns` | `start_pipeline_run`, `complete_pipeline_run`, `start_stage`, `complete_stage`, the context manager `pipeline_stage` | `Orchestrator` |
| Customer orchestrator, `src/customer_pipeline.py` | locals: `batch_started`, the position in its stages | `run_customer_pipeline`, its handler, the invalid-rate check | `Orchestrator` |
| Commerce orchestrator and framework, `src/commerce_pipeline.py`, `src/pipeline_framework/` | the same | `run_commerce_pipeline`, `execute_entity_pipeline`, the Bronze and Silver stages | `Orchestrator`, `Warehouse` |
| Bronze loading, `src/ingestion/`, `database/procedures/03*,04*_raw_*` | `raw.<Entity>` (per batch), staging tables | extract, validate, merge what the batch lacks | `Warehouse`, customers also in `CustomerLoad` |
| Silver transformation, `database/procedures/*_silver_load_*` | `silver.<Entity>`, `ops.<Entity>Quarantine` | quarantine, update, insert | `Warehouse` (a procedure is a step), `CustomerLoad` (customers, key by key) |
| Customer validation, `src/ingestion/customers.py`, `src/transformation/customer_record_processor.py` | `ops.CustomerQuarantine` | rules, the filter, the rate threshold | `CustomerLoad`; outcomes only in `Orchestrator` and `Warehouse` |
| Airflow customer DAG, `dags/customer_pipeline_dag.py`, `src/monitoring/failure_handler.py`, `airflow_failure.py` | task states, XComs, tries | `prepare_run`, `bronze`, `silver`, `complete_success`, `complete_failure` | `CustomerDag` |
| Airflow commerce DAG, `dags/commerce_pipeline_dag.py` | the same | one task, retried | `CommerceDag` |
| Retry observability, `src/monitoring/retry_observability.py`, `pipeline_events.py` | `ops.PipelineEvents` | callbacks | `CommerceDag` |
| Alerting, `src/monitoring/alerts.py` | none | a composite of sinks | one step of `CustomerDag` |
| Deployment, `src/database_deployment.py`, `database/deploy_manifest.txt`, `database/migrations/` | `ops.SchemaMigrations`, the schema | manifest, migrations | `AtomicDeployment` (abstract), `Deployment` |
| Connections, `src/database.py` | none | the retry loop | `CommerceDag` |
| Field validators, `src/validation/` | none | pure functions that no pipeline calls | not modelled |
| Legacy loader, `src/pipeline.py` | `PipelineRunLog` | one stored procedure, not in the repository | not modelled |
| Views, command lines, settings | none | queries, printing, parsing | not modelled |

### How they interact

- An orchestrator calls `start_pipeline_run`, then `begin_or_retry_batch`, then
  its stages, each wrapped in `pipeline_stage` (a row RUNNING, the body, the row
  SUCCESS or FAILED), then `complete_batch(SUCCESS)` and
  `complete_pipeline_run(SUCCESS)`. Every exception after the start goes to one
  handler: `complete_batch(FAILED)` if `batch_started`, then
  `complete_pipeline_run(FAILED)`, then re-raise.
- Every call opens a connection, runs one transaction and closes it. Between two
  calls the process holds no lock, so anything may happen to the tables.
- `begin_or_retry_batch` is the only mutual exclusion. It reads the row `WITH
  (UPDLOCK, HOLDLOCK)` and inserts or updates it in the same transaction, which
  makes the claim atomic. The row does not say who claimed it, and
  `complete_batch` updates by BatchID without asking.
- A Bronze stage extracts from the source database (another server), filters,
  fills a staging table and calls a procedure that inserts what the batch does
  not have yet. A Silver stage calls one procedure. Each is one transaction.
- The customer DAG does the same calls in five tasks, each a process of its own.
  `prepare_run` starts a run and claims the batch; its run_info goes by XCom to
  `bronze`, `silver` and then to one of `complete_success` (when all succeeded)
  and `complete_failure` (as soon as one failed), the only ones that report.
- The Commerce DAG calls `run_commerce_pipeline` as one task, and repeats it with a
  new PipelineRunID; below it every call repeats its connection attempt.
- A deployment replaces tables, procedures and views in one transaction that may
  meet another deployment's.
- Silver procedures read the Bronze rows of their batch and the Silver rows of
  their parents, which may come from other batches and other pipelines.

### What is hard here

- **Interleaving**: two attempts at one BatchID, or at two BatchIDs that meet in
  the same Silver tables. Tests run one attempt at a time against mocks.
- **Partial failure**: each of about ten calls may be refused, or may commit and
  still raise; the handler makes further calls that may fail likewise.
- **Crash**: a worker dies between two calls and no handler runs.
- **Retry**: an attempt repeats loads that are already committed, from a source
  that has changed, against parents that have appeared meanwhile.
- **Airflow**: it may give up a process that goes on working, start the next try
  or the whole dag_run beside it, and decides by trigger rules who reports.
- **Order**: silver tables have no foreign keys; references rest on joins, on the
  plan's order, and on no row ever being removed.

### What makes each component correct

- *Batch lifecycle*: at most one attempt works on a batch; SUCCESS is final; a
  FAILED batch can be claimed again; nobody else's report changes a row.
- *Records*: a SUCCESS row means committed work; an attempt that raises has
  marked its run FAILED.
- *Orchestrators*: SUCCESS only after every load, loads in plan order whatever
  the retries, every RUNNING batch reported eventually.
- *Bronze*: immutable per batch, idempotent, and of one source state.
- *Silver*: references resolve, rows come from Bronze and obey the rules, nothing
  is dropped, quarantine rows are unique and true.
- *Validation*: partitions the customers; each reported error is real and written
  before anybody acts on it; the gate refuses for the share of customers, no other
  reason.
- *DAGs*: a finished dag_run whose completion task succeeded has settled batch and
  run and alerted the failure; recorded outcomes are final; stray processes and
  cleared tasks bring no second reporter to a batch.
- *Commerce DAG*: a successful task stays true; a failed one can be run again; a
  try fails for its own faults only; the task ends.
- *Deployment*: all or nothing, each migration once and in order, whoever deploys at
  the same time and whatever fails; a deployer fails because of another one only over
  an object that both found missing.

`PROJECT.json` lists the hazards line by line, with the properties that cover
each, and says of the others why none does.

## The modules

### BatchLifecycle

The abstract specification: what `ops.PipelineBatches` promises. `batches` is the
table, `holders[b]` the attempts that have claimed `b` and may still write its
row. The table has no such column; the set exists to be a singleton. Its actions
are `Claim` (a new or FAILED batch, only when nobody holds it), `ReportSuccess`
(by the holder), `ReportFailure` (by the holder, who gives the batch up) and
`Release`. It allows the holder to report failure after success, because the
code does; `SuccessIsFinal` below is the run that says so. With its report of
success the holder may keep the batch (the orchestrators do, up to the end of
their run) or give it up (the DAG does, whose `complete_success` nobody handles).

### Orchestrator

Attempts `a` with `job[a]` (pipeline and BatchID) and a program counter `pc[a]`
that names the next call, interleaved freely. One action per call:

| Action | Code |
|---|---|
| `StartRun` | `start_pipeline_run`, before the `try` |
| `BeginOrRetryBatch`, `RejectBatch` | `begin_or_retry_batch`, its two successes and three ValueErrors |
| `StartStage`, `StageBody`, `CompleteStage`, `FailStage` | `pipeline_stage` around a stage |
| `CheckInvalidRate` | the threshold in `run_customer_bronze` |
| `CompleteBatch`, `CompleteRun` | the end of the `try` |
| `FailBatch`, `FailRun` | the handler |
| `Crash` | the worker dies |

Each call commits and answers (`ok`), is rolled back and raises (`refused`), or
commits and raises (`lost`, a connection that drops after COMMIT has reached the
server). `Faulty` says which faults an instance has, and `MayCrash` whether it
has crashes. `Plan[p]` lists the kinds of the stages of a pipeline; the real
plans are `CustomerPlan` and `CommercePlan`. `quarantine_invalid_customers` is
optional (`Following`), and its branch rejoins at the rate check. `stageRuns`
holds one row per stage, since an attempt runs a stage at most once; `loaded[b]`
is a history variable, the loads that are committed for `b`.

`ImplementsLifecycle` instantiates `BatchLifecycle` with `holders` computed from
`pc` and `batchStarted`.

### Warehouse

What the stages do to the data. The batches follow `BatchLifecycle` (property
`FollowsLifecycle`), so the attempt at a batch needs no name, and the
orchestrators' calls shrink to `Begin`, `Complete`, `Fail`, `Release`. The two
modules meet in that specification: `Orchestrator` shows the protocol provides
it whatever fails, `Warehouse` relies on nothing else about the control.

A row keeps what the procedures ask of it: whether its fields meet the rules
(`fields`: valid, invalid, or null where `silver.Customers` has NOT NULL), the
keys it refers to, and a version that stands for the other columns and for
`RecordHash`. `raw[e][b][i]`, `silver[e][i]` and `quarantine[e]` are the tables.
`source` moves freely among a set of contents (`UpdateSource`).

| Action | Code |
|---|---|
| `LoadBronze` | `execute_bronze_stage`, the loader and `raw.usp_Load*ForBatch`: `INSERT ... WHERE NOT EXISTS` |
| `SilverCustomers`, `SilverProducts` | 031, 043: update and insert without rules; NULL names abort the transaction |
| `SilverOrders` | 045: two quarantine INSERTs with different guards, then update and insert |
| `SilverOrderItems` | 047: one INSERT with all the reasons |
| `SilverPayments` | 049: the missing order counts only when the fields pass |
| `Begin`, `Complete`, `Fail`, `Release` | the lifecycle |

Three collapses are deliberate. A load is one step because it is one
transaction, its staging rows included. The gap between extraction and load is
not a state: only the attempt itself could see it, and `UpdateSource` may come
after the load instead. `Release` stands for every way in which an attempt ends
without a report.

### CustomerDag

One dag_run of `northstar_customer_pipeline`, and so one BatchID (`uuid5` of the
run_id). Airflow is external: `state`, `tries` and `info` (the run_info in XCom)
are its database, `procs` the processes it has started. A process is a record of
its task, its try, the execution it belongs to (`gen`), the PipelineRunID it
works for and its next call. `batch`, `runs` and `loaded` are the tables.

| Action | Code |
|---|---|
| `StartTry`, `PassOver` | Airflow's scheduler, by the wiring and the trigger rules of the DAG |
| `StartRun`, `ClaimBatch`, `RejectBatch`, `PushInfo` | `prepare_run`, call by call |
| `Load`, `RefuseQuality` | `bronze` and `silver`; `BRONZE_RETRY_POLICY` |
| `CompleteBatch`, `CompleteRun` | `complete_success` |
| `FailBatch`, `FailRun`, `Alert` | `complete_failure` with `handle_pipeline_failure`; without a run_info the alert only |
| `Lose` | Airflow misses the heartbeat of a running try and gives it up |
| `Die` | a process ends without a word |
| `Rerun` | somebody clears the tasks of a finished dag_run |

A process that was given up (*stray*) goes on: its calls change the tables and
XCom, but no task state (`IsCurrent`). A load is one step, with any stage rows
around it left to `Orchestrator`. Calls fail as in `Orchestrator`, `Alert` does
not: the composite sink catches what its sinks raise. Clearing a single task, or
a dag_run that is not finished, is left out.

`FollowsLifecycle` instantiates `BatchLifecycle` with executions as attempts. An
execution holds the batch while its right to report waits somewhere (`MayReport`):
in a `prepare_run` about to return, in XCom, or in a completion task.

### CustomerLoad

What `Orchestrator` and `Warehouse` take as outcomes: the records of an extract, the
four rules (`Breaks`), the rows of `ops.CustomerQuarantine`, the gate, the filter and
the Bronze load, and then `silver.usp_LoadCustomers` statement by statement and key
by key. `customers[l]` is the list in the memory of an attempt `l`, `raw` and
`silver` the tables, `wrote[l]` what its open transaction has written and locked.

| Action | Code |
|---|---|
| `Begin` | an attempt is let in (the command line, or a try of a task) |
| `Extract` | `extract_customers`, `validate_customers` |
| `QuarantineCustomerErrors` | one row for each error, in a transaction of its own |
| `CheckInvalidRate` | `len(invalid ids) / len(customers) > threshold`, as a product of integers |
| `LoadRawCustomers` | `load_raw_customers` with `raw.usp_LoadCustomersForBatch` |
| `UpdateKey`, `BeginInsert`, `InsertKey` | 031: the UPDATE and the INSERT ... NOT EXISTS, at one key |
| `CommitSilver` | `load_silver_customers`, the commit |
| `Victim`, `Fails` | a deadlock's victim; a call that raises, a process that dies |

Attempts at one batch follow each other. For runs of the pipeline `OneKeeper` of
`Orchestrator` shows that they do. For tries of the customer DAG's `bronze` and `silver`
it is an assumption: a try that Airflow has given up may go on beside the next one
(`Lose` of `CustomerDag`), and what two tries at one batch do to each other's staging
rows and statements is not modelled. Attempts at different batches meet in Silver. The
server is external: exclusive row locks are held to the end of the
transaction, a reader waits for them or sees the last committed version (both
settings of READ_COMMITTED_SNAPSHOT are allowed), keys are visited in any order, and
a cycle of waits is broken by a victim. `rival[l]` is auxiliary: the keys that others
have committed since the statements of `l` began. It is there because the code has
the anomaly it names: a row that another batch commits between the UPDATE and the
INSERT of `l` is skipped by both, so Silver keeps the other batch's row although `l`
succeeds. `SilverSaysWhatBatchSays` shows that this is the only way to miss a row.

Texts are values of a small set with `""` and NULL, and with or without an `@`;
`Hash` maps NULL to `""` as the code does and leaves out collisions by the separator.

### CommerceDag

One dag_run of `northstar_commerce_pipeline`. It extends `Orchestrator`: try `a` of
the task is attempt `a`, all of them at one BatchID, and every step of a process is
a step of `Orchestrator`. It adds the two layers of retries around it: `refusals`, the
loop of `_connect_with_retry` below every call, and `task`, `try`, `xcom`,
`callbacks`, Airflow's view of the task, above them.

| Action | Code |
|---|---|
| `Launch` | `execute_commerce`: the BatchID of the dag_run, a new PipelineRunID |
| `Proceed` | a call that got its connection; it may still fail on the server |
| `RefuseConnection`, `GiveUp` | `_connect_with_retry`: one more attempt, `TransientPipelineError` |
| `Outage` | the server goes or comes back, between any two calls |
| `Report`, `Lose` | Airflow is told the end of a try, or gives the try up, alive or not |
| `RunCallback` | `capture_task_retry`, `capture_task_success`, `capture_task_failure` |
| `Die` | a worker dies |

A process that was given up goes on. `unreported` collects the tries that could not
say how they ended: given up, dead, with a claim that was committed unseen, or with
a `complete_batch(FAILED)` that raised in the handler. The last two are those after
which a batch stays RUNNING for good; the properties hold exactly without them.

### AtomicDeployment and Deployment

`AtomicDeployment` is what a deployment promises: the objects, the effects of the
migrations and `ops.SchemaMigrations` change in one step, to those of one release,
and exactly the migrations that have no row take effect. `Deployment` is the code,
run by deployers `d` of possibly different releases at once:

| Action | Code |
|---|---|
| `ReadManifest` | `read_deployment_manifest`, outside the `try` |
| `ReplaceObject` | an unconditional batch of a script (`CREATE OR ALTER`, `GRANT`) |
| `CheckObject` | the `IF OBJECT_ID(...) IS NULL`, or `IF NOT EXISTS`, of a guarded batch |
| `CreateObject` | the `CREATE` behind it, or "there is already an object named ..." |
| `GetAppliedMigrations`, `SkipMigration` | what the transaction believes to be applied |
| `RunMigration`, `RecordMigration` | the script, and its row, in two statements |
| `Commit`, `Rollback` | the end of the `try`, its `except` |
| `Die` | the process or its connection is gone: the server rolls back |

Nothing in the code excludes another deployer. What does is the server: an object
that a transaction has created or replaced is locked to its end, and the manifest of
every release replaces, unconditionally, some object that all others replace too
(views, procedures) *before* the applied migrations are read. That is the last
conjunct of `DeploymentAssumption`; it keeps two deployers from running one migration.

It does not keep them from creating one table. A name that is absent cannot be locked,
so that two deployers may both pass the check of a guarded batch. The second `CREATE`
waits for the first one's transaction, and raises if that commits. `OnlyCreationsCollide`
says that this is the only way in which a deployer fails because of another one, and
that it takes an object that was missing when it began. `missing[d]` is auxiliary: the
guarded objects of its manifest that `d` did not find when it began.

### MC modules and configurations

`MCOrchestrator`, `MCWarehouse`, `MCCustomerDag`, `MCCustomerLoad`, `MCCommerceDag`
and `MCDeployment` define the values of the constants: the plans,
the fault sets, the contents of the source, the extracts, the releases. `Symmetry` permutes attempts and
batches, which no definition tells apart, and is used only in a run whose
properties are invariants and a step property without fairness.

## What is checked

| Run | Instance | States | Result |
|---|---|---|---|
| `orchestrator_contention` | 3 attempts, 1 batch, 2 pipelines of 3 stages, every fault, crashes | 519,248 | 6 invariants and the refinement hold |
| `orchestrator_settles` | 2 attempts, 2 batches, the real 6 and 10 stages, stages and stage rows fail | 426,642 | liveness and the run's mark hold |
| `orchestrator_success_flip` | 1 attempt, `complete_run` may be refused | 36 | violation of `SuccessIsFinal` |
| `warehouse_orders` | 2 batches of 2 tries, both pipelines, 2 keys, 3 sources, customers and orders | 393,903 | holds |
| `warehouse_commerce` | 1 batch of 3 tries, 5 entities, 5 sources | 129,930 | holds |
| `warehouse_unvalidated` | commerce pipeline with validation expected | 41 | violation of `CustomersValidated` |
| `warehouse_snapshot` | 1 batch, retried | 723 | violation of `OneSnapshot` |
| `customer_dag` | 2 executions, 1 retry of bronze and silver, every fault, lost and stray tries | 124,523 | 4 invariants, the refinement, finality and liveness hold |
| `customer_load` | 2 attempts at a batch and 1 at another, 2 customers, 5 extracts, threshold 1/3 | 129,630 | 4 invariants, a step property and liveness hold |
| `commerce_dag` | 2 tries, 3 connection attempts, 2 stages, outages, crashes, lost tries | 438,682 | 4 invariants and liveness hold |
| `commerce_events` | the same with 2 connection attempts | 44,340 | violation of `RecoveryIsRecorded` |
| `deployment` | 3 deployers, 2 releases of 4 objects and 2 migrations | 582,271 | 3 invariants, the refinement and liveness hold |

### Bounds, and why they are enough

- *Three attempts at one batch* are the claimant, its rival, and the one that
  comes when both have ended; two attempts cannot show a report that overwrites a
  third one's claim. One batch suffices because no call of an attempt reads or
  writes another batch's row; the settling run and the proofs have more.
- *Three stages* (`ShortPlan`) have a first, a middle and a last load and, for
  customers, the optional quarantine stage in front of the rate check. The
  settling run uses the full plans.
- *Two batches and two tries* let an older batch be retried after a newer one has
  loaded the same keys. *Three tries* of one batch let a quarantine row be there
  before the retry that might repeat it and after the one that resolves it.
- *Two keys* let an order move from a known customer to an unknown one;
  *two versions* make an update. `OrderSources` and `CommerceSources` are chosen
  so that a parent comes late, a row is invalidated, a row is deleted, and each
  quarantine reason occurs alone.
- `MaxTries` bounds how often a batch is claimed; it is a guard of `Begin` and
  part of nothing else but the run numbers.

- *Two executions* of a dag_run are a stray process's and the one it disturbs.
  *One retry* of `bronze` and `silver` instead of the two in the code keeps a first
  and a second try, and a stray first try beside the second; the liveness check
  with two retries takes more than five minutes. The theorems are for any number
  of both.

- *Three attempts, two customers* (`customer_load`): a batch, its retry and a rival.
  Two keys make a cycle of waits; of three batches at once, two could hold a row and the
  third would only wait, so that a second rival adds no new cycle. The extracts have
  each rule broken, two errors of one customer, a key twice, rates of 0, 1/3 (the threshold),
  1/2 and no customers at all, and the NULL that turns into `""`.
- *Two tries, three connection attempts* (`commerce_dag`): a try and the one that
  finds what it left; `MaxConnects` is the code's, `Retries` one less than the code's
  two. A third try multiplies the states by ten and adds no pair of actors; the
  theorems are for any number.
- *Three deployers of two releases* (`deployment`): an upgrade beside another upgrade
  and an older release; the new release has a table in the middle, a procedure and a
  migration more. All three start from an empty database, so that two first deployments
  collide over the first table, and two upgrades over the new one.

`CHECK_DEADLOCK FALSE` is set in each run, since an attempt ends and nothing
starts another one; `warehouse_*` may use up its tries, `customer_dag` its
executions.

### The properties

In `Orchestrator`:

- `OneKeeper`: two attempts never both hold a batch, nor does one hold what
  another has returned.
- `ReturnIsDurable`: after a normal return the batch and the run stay SUCCESS.
- `SuccessMeansLoaded`, `LoadsInOrder`: over all attempts at a batch.
- `StageEvidence`: SUCCESS rows of stages and runs are backed by commits.
- `ImplementsLifecycle`: refinement of `BatchLifecycle`.
- `RunningIsSettled` (liveness), `RaisedRunIsMarkedFailed`.

In `Warehouse`: `ReferencesResolve`, `SilverFieldsValid`, `OneQuarantineRow`,
`QuarantineIsEvidence`, `NothingDropped`, `BronzeIsImmutable`, `FollowsLifecycle`; the
comments in the module state them. `SilverComesFromBronze`, and `TypeOK` of
`CustomerLoad`, are left to their proofs.

In `CustomerDag`:

- `SuccessMeansLoaded`: over all tries, stray processes and executions.
- `FinishedMeansSettled`: what Airflow shows of a finished dag_run agrees with the
  tables. The exception it states is real: a stray `prepare_run` of an earlier
  execution claims the batch that a later one has reported FAILED, and nobody is
  left to report it.
- `RunningBatchHasRun`: behind a RUNNING batch there is a RUNNING run.
- `OutcomeIsFinal`: SUCCESS of the batch, SUCCESS and FAILED of a run are never
  taken back; it is what keeps `complete_success` out of the upstreams of
  `complete_failure`.
- `FollowsLifecycle`: refinement of `BatchLifecycle`.
- `RunningIsSettled` (liveness), under `NoStrayClaim`: while Airflow has given up
  no living `prepare_run`, a RUNNING batch is followed by the end of the execution
  and a report, unless a task that writes the batch's row has itself failed.

In `CustomerLoad`:

- `EvidenceIsComplete`: an attempt's quarantine rows are all its errors or none, and
  all before the gate, the load or a refusal.
- `BronzeIsClean`: a Bronze row is the only one of its key in the list it came from,
  breaks no rule, and that list was within the threshold.
- `RefusalIsJust`: refused means over the threshold in customers, not in errors.
- `NobodyIsLost`: each extracted customer is in Bronze or in quarantine.
- `SilverSaysWhatBatchSays`: see above.
- `EveryAttemptEnds` (liveness): locks, deadlocks and failures included.

In `CommerceDag`: `SuccessIsDurable` (whatever stray tries do), `FailedTaskIsRetryable`
and `RaisedMeansOutage` (while every try could report), `TaskEnds` (liveness, without
assuming that the server ever comes back).

In `Deployment`: `HistoryIsTrue` (a migration has taken effect once if it has a row,
never if not, none before its predecessors), `OnlyCreationsCollide` (a deployer fails
because of another one never over a migration, and over an object only when it was
missing at its start and the other has created it since), `ImplementsAtomic`,
`EveryDeploymentEnds` (liveness).

Each property of a passing run has a mutant in `PROJECT.json`, a plausible bug
that breaks it (`AfterBodySwallowing`, `QuarantinedByRun`, ...). The mutants are
defined next to the definitions they replace.

### Fairness

The liveness properties need it, no other does. In `Orchestrator` it is `WF_vars(Step(a))`
for each attempt. The calls
are synchronous and wait on nothing but the database, which answers or raises
(lock waits end, the driver has timeouts), so a live process whose next call is
enabled makes it. `Step(a)`, once enabled, stays enabled until it is taken,
because other attempts do not write `pc[a]`; weak fairness is enough. There is no
fairness for `Crash`, and the run excludes crashes: after one the batch stays
RUNNING for ever, since no lease, heartbeat or reset exists.

In `CustomerDag`, `FairSpec` has weak fairness of three kinds for each task: the
scheduler starts a task that may start or passes over one that cannot; the
process of the current try makes its next call; a try without a process is
noticed (`Gone(t) /\ Lose(t)`, Airflow's heartbeat timeout). Stray processes,
`Die`, `Rerun` and giving up a living process have none.

In `CommerceDag` the scheduler launches, takes reports and notices dead processes, and
each process makes its next call or its next connection attempt; `Outage` has no
fairness in either direction. In `Deployment` it is `WF` of each deployer's next
statement that does not fail and that waits for nobody (`WaitsFor`, which counts a check
of an object somebody else is creating as a wait, though it need not be one): a lock is
released when its transaction ends, and transactions end. In `CustomerLoad` it is one `WF` for all attempts together: some
attempt that can go on does. That is weaker than fairness of each, and enough, since
every step brings some attempt closer to its end; attempts that are never started
need none.

## What the checks found

1. **A finished batch becomes FAILED.** `complete_pipeline_run` runs inside the
   `try` after `complete_batch(SUCCESS)`; if it raises, the handler's UPDATE,
   which does not look at the status, sets the batch FAILED and it can be run
   again. `docs/airflow-pipeline-framework.md:161-168` lists no transition out of
   SUCCESS. (Nobody has been told SUCCESS then: `ReturnIsDurable` holds.)
   `SuccessIsTakenBackOnlyThere` proves the extent: only the attempt's own handler
   does it, to a batch that is fully loaded. `SuccessFlipHasOneCause` proves that
   nothing else causes it: with a `complete_pipeline_run` that does not fail and a
   `complete_batch` that answers when it has committed, `SuccessIsFinal` holds.
2. **The commerce pipeline does not validate customers.**
   `execute_entity_pipeline` does not pass `entity.processor` on, so that
   `process_customer_records` is never called, against
   `docs/airflow-pipeline-framework.md:78`. `InvalidCustomersComeFromElsewhere`
   proves that an invalid customer in Silver is always the row of a batch of a
   pipeline that does not filter; no retry or rival leads around the filter of one
   that does. `FilteringIsEnough` is its corollary for the repair.
3. **A BatchID is not one source snapshot.** A retry extracts again and inserts
   what is missing, against `docs/reusable-pipeline-framework.md:195`.
   `FirstTriesAreSnapshots` proves that a batch that was never retried does hold one
   state of the source for each entity (`OnlyRetriesMix` is its corollary).
4. **The Commerce DAG records no retries.** Its callbacks take the identifiers from
   the XCom of `prepare_run`, a task of the other DAG: `capture_task_retry` returns
   without a row, `capture_task_success` subscripts None, against
   `docs/airflow-pipeline-framework.md:191`. `NothingIsRecorded` proves the whole
   strength of it: `events` stays empty in every behaviour.

Two more limits of the code are stated by the hypotheses of properties that hold
(`unreported` in `CommerceDag`, `HandlerWorks` in `OrchestratorProofs`): a claim that
commits and raises, and a `complete_batch(FAILED)` that raises in the handler, each
leave the batch RUNNING for good; the second leaves the run RUNNING, too. "For good"
is a theorem, `AbandonedBatchStays`; `AbandonedDagRunStays` is the same of a dag_run
whose tasks are cleared and run again.

A third limit concerns deployments: of two that find a table missing at the same time
the second raises "already an object named ...". Nothing is damaged (`ImplementsAtomic`:
it rolls back as a whole), and a deployment that begins when its tables are there cannot
meet it, which is all that `database/README.md:50` asks for; it is no finding.

## What is proved

The `Proofs` modules prove for any values of the constants (any number of attempts,
batches, keys, retries, executions and deployers, any plans, extracts, releases,
contents of the source and faults), from the named assumptions only:

- `PlanAssumption`: every pipeline has a stage, its last stage is not the
  quarantine stage, and "none" is not a pipeline's name.
- `EntitiesAssumption`: a pipeline loads each entity once, source rows are rows,
  only customers have nullable names, `MaxTries` is a natural number.
- `DagAssumption` of `CustomerDag`: `Retries` is a natural number, `MaxRuns` a
  positive one. Of `CommerceDag`: attempts are the numbers from 1 to `Retries + 1`,
  and the commerce plan has no quarantine stage.
- `CustomerAssumption`: extracts are sequences of records, the threshold is a
  fraction between 0 and 1.
- `DeploymentAssumption`: a release lists a migration once, lists of migrations grow
  at their end, all releases replace some object unconditionally.

TLC evaluates them in the runs of their modules. A theorem with a hypothesis of its
own names it, and the text below says when it is met.

The invariants and action properties come first in each section. The theorems under
*What lasts*, *Exact causes* and *Progress* go beyond what the runs check.

### BatchLifecycle

`RowDecides`: `RowSpec` is the lifecycle as `begin_or_retry_batch` can know it, with a
claim that sees the row and nothing of `holders`, and a claimant that may lose the
answer. It implements `LifecycleSpec`, whose `Claim` asks that nobody holds the batch.
The argument is the invariant `LifecycleInv`: at most one holder (`OneHolder`), and a
held batch is RUNNING or SUCCESS (`HeldIsNotClaimable`), so that a row that can be
claimed has no holder (`RowClaimIsClaim`). `LifecycleKeepsOneHolder` states the
invariant, `AbandonedStays` that a batch without a holder which is not FAILED never
changes again, `OnlyTheHolderTakesBack` that an outcome is only rewritten by whoever
has reported it. The modules that implement the lifecycle instantiate these theorems.

### Orchestrator

`TypeCorrect`, `AtMostOneKeeper`, `SuccessIsBacked`, `LoadsFollowThePlan`,
`RowsAreEvidence`, `ReturnsAreDurable`, `LifecycleImplemented`, `RaisedRunsAreMarked`
(the last under `HandlerWorks`: the handler's calls do not fail themselves).

None of the properties is inductive. That a second attempt cannot claim a batch
follows only if the row of a held batch is known to be RUNNING (or SUCCESS after
the last report), so the invariant is built in three layers:

- `ClaimInv` = `TypeOK`, `StageInPlan`, `ClaimFlag` (the flag is set exactly by a
  claim whose answer arrived), `HeldRow` (what a holder's row looks like at each
  `pc`), `OneKeeper`. A claim needs an absent or FAILED row; `HeldRow` says no
  holder has one.
- `LoadInv` adds `LoadProgress` (the loads before a holder's position are
  committed), `NothingLoadedUnclaimed`, `SuccessMeansLoaded`, `LoadsInOrder`.
- `EvidenceInv` adds `RowProgress` (the same for the stage rows) and
  `StageEvidence`.

The proofs go action by action, with lemmas on what a step leaves alone: only
the stepping attempt's own row, run and locals change, so each conjunct splits
into the stepping attempt, the others at its batch (of which `OneKeeper` says
they hold nothing), and the rest. `LifecycleImplemented` computes what each step
does to `holders` (`HoldersStep`) and matches it with an action of
`BatchLifecycle`.

- *What lasts*: `AbandonedBatchStays` is `AbandonedStays` of the lifecycle, brought
  here by `LifecycleImplemented`.
- *Exact causes*: `SuccessIsTakenBackOnlyThere`; `SuccessFlipHasOneCause` under
  `CompletionWorks` (the two faults at the end of the `try` are absent, all others
  and crashes are allowed), from the invariant `HandlerFindsRunning`.
- *Progress*: `CallsRunOut`. `Remaining(a)` is a natural number, 0 exactly when the
  attempt has ended, and every call of `a` makes it smaller and leaves those of the
  others alone; it starts at `5 * LastStage(a) + 9`.

### Warehouse

`WarehouseTypeCorrect`, `ReferencesAlwaysResolve`, `SilverIsFromBronze`,
`SilverIsValid`, `QuarantinedOnce`, `QuarantineIsBorneOut`, `BronzeNeverChanges`,
`NothingIsDropped`, `LifecycleFollowed`.

`SilverIsOneShape` shows that the five procedures, different as they are, have
one effect: the keys of a set that is resolved and, where there are rules, valid
go to Silver; each key of the batch outside that set has a quarantine row
afterwards; new quarantine rows are true and not repeated. Everything else is
proved once for that shape. The orders procedure needs an argument the others do
not: its second INSERT asks only for a row with the reason "missing". That it
never adds a second row to a field failure holds because Bronze rows do not
change, so that a row that passes the rules now has no field row from before;
`QuarantineIsEvidence` carries this and is part of the invariant for that reason.

- `TableInv` = `TypeOK`, `ReferencesResolve`, `SilverComesFromBronze`,
  `SilverFieldsValid`, `OneQuarantineRow`, `QuarantineIsEvidence`. References
  survive because Silver only gains keys (`SilverRowStays`), and a row enters
  with references that resolve.
- `WorkInv` adds, per batch, `Work` (an attempt at the batch has accounted for
  each entity before its position, and the batch is RUNNING until the last) and
  `Done` (a SUCCESS batch is accounted for). `NothingDropped` follows from it,
  and so does the fact that a batch somebody works on cannot be claimed, from
  which `LifecycleFollowed` follows.
- `OriginInv` adds where rows come from: a Silver row is the Bronze row of some batch
  whose pipeline loads its entity, a filtering pipeline has no invalid customer in
  Bronze, and the first try at a batch has each entity from one state of the source.

*Exact causes*: `InvalidCustomersComeFromElsewhere` and `FirstTriesAreSnapshots` follow
from `OriginInv`. Their corollaries `FilteringIsEnough` (`EveryLoaderValidates`, which
the repository's pipelines do not meet) and `OnlyRetriesMix` (`MaxTries = 1`, while the
code sets no limit) say what would make the two violated properties true.

*What lasts*: `TablesOnlyGrow` (no key leaves Silver, no row leaves a quarantine table)
and `ClosedBatchesAreFrozen` (the row, the Bronze rows and the quarantine rows of a
batch that is SUCCESS, or that its attempt has left RUNNING, are final).

### CustomerDag

`DagTypeCorrect`, `SuccessIsLoaded`, `OutcomesAreFinal`,
`RunningBatchIsTraceable`, `DagFollowsLifecycle`, `FinishedIsSettled`: all
properties of the run but the liveness. They hold although nothing stops a stray
process, because of how rights pass on; the invariant is again built in layers:

- `AirflowInv` = `TypeOK`, `ProcessesKnown`, `TriesMatch`, `TasksInOrder`,
  `InfoKnown`: what the scheduler and the wiring guarantee. It gives `Starts`: a
  completion task starts when the other has not and will not.
- `RightsInv` adds `OneOwner` (at most one process, or XCom, may still end a run),
  `OwnedRun` (such a run's row is RUNNING) and `OneReporter` (at most one process,
  or XCom, may report on the batch, and the batch is RUNNING then). The claim
  starts from no right at all, and `StartTry` of a completion task takes the right
  out of XCom (`CompletionFindsRight`).
- `SettledInv` adds `ClaimantRuns` (a RUNNING batch has a RUNNING run that nobody
  is about to end), `OwnInfo` (before completion XCom holds this execution's
  run_info), `SuccessSettled` and `FailureSettled` (what the completion tasks of
  this execution have achieved so far).

`CallSummary` and `StatesKept` say once what any call does to the tables, to its
process and to the task states; each layer then has one step per action.

- *Exact causes*: `OnlyAStrayClaimUnsettles` removes the exception of
  `FinishedMeansSettled` under `[]NoStrayClaim`: a failed execution leaves batch and
  run FAILED and the alert sent. `FailureWritten` is the invariant that needs it: what
  `complete_failure` has written stays, because only a `prepare_run` could claim the
  batch, and none is left.
  `NothingStrays` shows that `NoStrayClaim` holds when Airflow loses nothing.
- *What lasts*: `AbandonedDagRunStays`, through `DagFollowsLifecycle`.
- *Progress*: `ExecutionsRunOut`. `TurnsLeft(t)` bounds the moves of a task by
  `2 * MaxTries(t)`, `CallsLeft` those of a process by 3; every step makes one of them
  smaller or starts a new execution, and no call of a process, stray ones included,
  gives a task a turn back.

### CustomerLoad

`TypeCorrect`, `EvidenceIsKept`, `RefusalsAreJust`, `CleanBronze`, `NoneLost`,
`SilverSays`. `BronzeInv` adds to the properties `OneAttemptAtATime` (from `Begin`),
`ListProgress` (the list and its evidence at each step) and `SourceHasExtracted`: the
list a Bronze row came from is not extracted again. `CustomerInv` adds
`WritesItsBatch` and `StatementProgress`: for each key the statement has visited,
either the row is written, or the committed one has the same hash (`Settled`), or a
rival has come in between. The step that needs it most is a commit of another
transaction, which changes the committed row under a statement that has already
passed; that is where `rival` enters. That two records with one hash agree but for
NULL and `""` is a lemma.

- *One step*: `SilverLoadsAreUpserts`. Silver changes only with the COMMIT of an
  attempt, and then each key is either what an upsert of the batch into the table of
  that moment makes it (`Upserted`), or is a rival's and stays. That is the step
  `SilverCustomers` of `Warehouse` takes, and so the bridge between the two modules:
  the procedure is atomic up to `rival`. `RowLocks` is the invariant behind it.
- *Waiting*: `SilverIsNeverStuck`. Of the attempts in their Silver transactions one
  waits for no lock, or is in a cycle and may be made the victim; attempts at one
  batch never wait for each other.
- *What lasts*: `NothingIsTakenAway`.
- *Progress*: `StepsRunOut`, for finitely many customers: at most
  `2 * Cardinality(Id) + 7` steps of each attempt.

### CommerceDag

`DagImplementsOrchestrator`: each step of the DAG is a step of `Orchestrator` or
changes nothing it speaks of, so that all of `OrchestratorProofs` holds of the tries.
`DagTypeCorrect`, `DurableSuccess`, `RetryableFailure`, `NoBlameForOthers` follow from
`DagInv`: `TriesInOrder`, `EarlierTriesRaised`, `BatchIsAccountedFor` (the batch can be
claimed, or the last try holds or has finished it) and `ExcusedWhenHandling`.
`DurableSuccess` is `ReturnIsDurable`, `SuccessMeansLoaded` and `TriesInOrder` together.

- *Exact causes*: `NothingIsRecorded`.
- *Progress*: `RetriesRunOut`. The two layers of retries are finite together:
  `ConnectsLeft(a)` is `MaxConnects` for each call that `Remaining(a)` still allows,
  less the refusals of the present one, and `TurnsLeft` counts the starts and ends of
  the task. Whatever a process does or dies of makes its own `ConnectsLeft` smaller and
  leaves the others alone, and each move of the task makes `TurnsLeft` smaller
  (`RetriesAreSpent`).

### Deployment

`TypeCorrect`, `Invariance`, `TrueHistory`, `OnlyFirstCreationsCollide`, `Refinement`.
`DeploymentInv` adds to the properties `LocksExclude`, `ObjectProgress` (what the executed
part of the manifest has locked), `MissingFromTheStart` and `MigrationProgress`. The argument: a deployer past its manifest has the shared
object locked (`ObjectProgress`), so there is one at most, so what it has read of
`ops.SchemaMigrations` is still all there is (`applied[d] = recorded`). Hence its
INSERT meets no key, and its commit is the abstract `Deploy`. A `CREATE` has no such
protection; since no object is ever dropped (`ObjectsStay`), one that a deployer finds
missing was missing when it began (`MissingFromTheStart`), and one that a `CREATE` then
meets was committed in between, which is what `OnlyCreationsCollide` says.

- *What lasts*: `CatalogStaysWhole`. All objects are those of one release `r` (tables
  that were there before stay), the migrations are those of a release `s` that has all
  of `r`'s: proved of the one-step deployment
  (`AtomicDeploymentsKeepTheCatalogWhole`) and carried over by `Refinement`.
- *Waiting*: `NoDeadlock`, for releases that can be numbered so that every manifest
  goes down (`InOneOrder`). Each batch of `deploy_manifest.txt` creates or replaces an
  object of its own, so a release agrees with itself, and two releases do as long as
  the later one only inserts lines or drops some; the manifests of the run do so. A
  deployer that waits for an object has locked only earlier ones (`LocksAreBehind`), and
  one that waits for a row of `ops.SchemaMigrations` would have the shared object,
  which only one can.
- *Progress*: `CallsRunOut`: two calls for each batch (the check and the creation), two
  for each migration and five.

### Only model-checked

Liveness (`RunningIsSettled` twice, `EveryAttemptEnds`, `TaskEnds`,
`EveryDeploymentEnds`): the prover knows neither `ENABLED` nor the fairness that needs
it. What can be proved of them is their safety half, and is: a measure that every step
of a process makes smaller (`CallsRunOut` twice, `ExecutionsRunOut`, `StepsRunOut`,
`RetriesRunOut`), and that waiting has no circle (`SilverIsNeverStuck`, `NoDeadlock`).
What is left to TLC is that somebody whose measure is not 0 has an enabled step.

The four violations themselves are counterexamples that TLC finds; the theorems above
say how far each of them goes.

## What is not modelled, and why

- `BaseException` (Airflow's task timeout, a signal): no handler runs, which is
  `Crash`.
- `RowsProcessed`, times and messages: no control depends on them. So the
  `failure_details` XCom of the customer DAG and the text of its alert.
- The customer DAG's retry and success callbacks: they add rows to
  `ops.PipelineEvents` that nothing reads.
- Attempts of a command line at the BatchID of a dag_run: the same claim and the
  same reports as in `Orchestrator`, where rivals of one batch are modelled.
- Statements of the Silver procedures for products, orders, items and payments
  interleaved with another transaction: a procedure is one step in `Warehouse`. Those
  of customers are in `CustomerLoad`.
- Hash collisions by texts that contain the separator, and which of two batches is
  newer: Silver is what the last batch to load says, and no doc says otherwise.
- Overlapping tries of the customer DAG's `bronze` or `silver` at one batch: `CustomerDag`
  has them as single steps that load or do not, `CustomerLoad` excludes them.
- What a DDL batch or a migration does inside an object: `Deployment` knows which
  release an object is of, and how often a migration has taken effect.
- `start_batch`, `batch_is_successful`, `load_bronze_for_batch`,
  `src/validation/`: no pipeline calls them.
- The legacy loader, the views, the command-line programs: one call of a missing
  procedure, read-only queries, argument handling.

## Plan

Done: `BatchLifecycle`, `Orchestrator`, `Warehouse`, `CustomerDag`, `Deployment`,
`CustomerLoad`, `CommerceDag`, each with its proofs. What is left, in this order:

1. `CustomerDag` with its loads replaced by attempts of `CustomerLoad`, so that
   `OneAttemptAtATime` there follows from the rights of the processes here; stray
   `bronze` processes, which may load beside a later try, are the interesting case.
2. The UPDATE and INSERT of the other four Silver procedures statement by statement,
   with parents that another batch commits meanwhile; references resolve all the same
   because no procedure takes a key away (`TablesOnlyGrow`).
3. The Commerce task with three tries, if a smaller state space can be found; the
   theorems hold for any number.
4. The composite sink of `src/monitoring/alerts.py`, now a step that does not raise.
