------------------------- MODULE CommerceDagProofs --------------------------
(***************************************************************************)
(* Proofs about CommerceDag, for any number of retries and of connection    *)
(* attempts, any plan and any faults.  The tries are attempts of            *)
(* Orchestrator, so what OrchestratorProofs shows holds of them.            *)
(***************************************************************************)
EXTENDS CommerceDag, OrchestratorProofs

LEMMA Tries ==
  /\ 1 \in Attempt /\ Attempt \subseteq Nat
  /\ \A a \in Nat : a \in Attempt <=> a >= 1 /\ a <= Retries + 1
BY DagAssumption

(***************************************************************************)
(* The steps of the DAG are steps of Orchestrator, or none.                *)
(***************************************************************************)
LEMMA WorkIsStep ==
  ASSUME NEW a \in Attempt, Proceed(a) \/ GiveUp(a)
  PROVE  Step(a)
BY DEF Proceed, GiveUp, Refused, Step

LEMMA DagStep ==
  ASSUME [DagNext]_dagVars
  PROVE  \/ \E a \in Attempt : Proceed(a) \/ GiveUp(a)
         \/ \E a \in Attempt : Die(a)
         \/ \E a \in Attempt : RefuseConnection(a)
         \/ Outage \/ Launch \/ Report \/ Lose \/ RunCallback
         \/ UNCHANGED dagVars
BY DEF DagNext, Work

\* Nothing but these changes what Orchestrator speaks of.
LEMMA Elsewhere ==
  ASSUME \/ \E a \in Attempt : RefuseConnection(a)
         \/ Outage \/ Launch \/ Report \/ Lose \/ RunCallback
         \/ UNCHANGED dagVars
  PROVE  UNCHANGED vars
BY DEF RefuseConnection, Outage, Launch, Report, Lose, RunCallback, EndTry, dagVars

\* The tries of the DAG's task are attempts as Orchestrator describes them: all its
\* theorems hold of them.
THEOREM DagImplementsOrchestrator == DagSpec => Spec
<1>1. DagInit => Init
  BY DEF DagInit
<1>2. [DagNext]_dagVars => [Next]_vars
  <2> SUFFICES ASSUME [DagNext]_dagVars PROVE [Next]_vars
    OBVIOUS
  <2>1. CASE \E a \in Attempt : Proceed(a) \/ GiveUp(a)
    BY <2>1, WorkIsStep DEF Next
  <2>2. CASE \E a \in Attempt : Die(a)
    BY <2>2 DEF Die, Next
  <2>3. CASE ~(\E a \in Attempt : Proceed(a) \/ GiveUp(a)) /\ ~(\E a \in Attempt : Die(a))
    BY <2>3, DagStep, Elsewhere
  <2> QED BY <2>1, <2>2, <2>3
<1> QED BY <1>1, <1>2, PTL DEF DagSpec, Spec

LEMMA DagEvidence == DagSpec => []EvidenceInv
BY DagImplementsOrchestrator, EvidenceInvariant, PTL

LEMMA EvidenceParts ==
  ASSUME EvidenceInv
  PROVE  TypeOK /\ ClaimFlag /\ HeldRow
BY DEF EvidenceInv, LoadInv, ClaimInv

(***************************************************************************)
(* Types.                                                                  *)
(***************************************************************************)
LEMMA InitDagTypes == DagInit => DagTypeOK
<1> SUFFICES ASSUME DagInit PROVE DagTypeOK
  OBVIOUS
<1>1. TypeOK
  BY InitTypeOK DEF DagInit
<1>2. task \in TaskState
  BY DEF DagInit, TaskState
<1>3. refusals \in [Attempt -> 0 .. MaxConnects - 1] /\ try \in 0 .. Retries + 1
  BY DagAssumption DEF DagInit
<1> QED BY <1>1, <1>2, <1>3 DEF DagInit, DagTypeOK

LEMMA EndTryTypes ==
  ASSUME DagTypeOK, TriesInOrder, NEW kind, task = "running", EndTry(kind)
  PROVE  /\ task' \in TaskState /\ task' # "running" /\ task' # "queued"
         /\ task' = "up_for_retry" => try <= Retries
         /\ task' = "success" <=> kind = "success"
         /\ callbacks' \subseteq
              {"capture_task_success", "capture_task_retry", "capture_task_failure"} \X Attempt
<1>1. /\ task' = GoOn(kind)
      /\ callbacks' = callbacks \cup {<<CallbackOf(GoOn(kind)), try>>}
  BY DEF EndTry
<1>2. GoOn(kind) \in {"success", "up_for_retry", "failed"}
  BY DEF GoOn
<1>3. try \in Attempt
  BY DagAssumption DEF DagTypeOK, TriesInOrder
<1>4. CallbackOf(GoOn(kind)) \in {"capture_task_success", "capture_task_retry", "capture_task_failure"}
  BY <1>2 DEF CallbackOf
<1>5. GoOn(kind) = "up_for_retry" => try <= Retries
  BY DEF GoOn
<1>6. GoOn(kind) = "success" <=> kind = "success"
  BY DEF GoOn
<1> QED BY <1>1, <1>2, <1>3, <1>4, <1>5, <1>6 DEF DagTypeOK, TaskState, Over

LEMMA NextDagTypes ==
  ASSUME DagTypeOK, TriesInOrder, TypeOK', [DagNext]_dagVars
  PROVE  DagTypeOK'
<1>1. ASSUME NEW a \in Attempt, Proceed(a) \/ GiveUp(a) PROVE DagTypeOK'
  <2>1. refusals' \in [Attempt -> 0 .. MaxConnects - 1]
    BY <1>1, DagAssumption DEF Proceed, GiveUp, DagTypeOK
  <2>2. excused' \subseteq Attempt /\ unreported' \subseteq Attempt
    BY <1>1 DEF Proceed, GiveUp, Note, DagTypeOK
  <2> QED BY <1>1, <2>1, <2>2 DEF Proceed, GiveUp, airflow, DagTypeOK
<1>2. ASSUME NEW a \in Attempt, Die(a) PROVE DagTypeOK'
  BY <1>2 DEF Die, airflow, DagTypeOK
<1>3. ASSUME NEW a \in Attempt, RefuseConnection(a) PROVE DagTypeOK'
  <2>1. refusals' \in [Attempt -> 0 .. MaxConnects - 1]
    BY <1>3, DagAssumption DEF RefuseConnection, DagTypeOK
  <2> QED BY <1>3, <2>1 DEF RefuseConnection, airflow, DagTypeOK
<1>4. CASE Outage
  BY <1>4 DEF Outage, airflow, DagTypeOK
<1>5. CASE Launch
  <2>1. try' \in 0 .. Retries + 1
    BY <1>5, DagAssumption DEF Launch, DagTypeOK, TriesInOrder
  <2> QED BY <1>5, <2>1 DEF Launch, DagTypeOK, TaskState
<1>6. CASE Report
  <2>1. xcom' \subseteq {"execute_commerce", "failure_details"}
    BY <1>6 DEF Report, DagTypeOK
  <2>2. \/ EndTry("success")
        \/ EndTry("failure")
    BY <1>6 DEF Report
  <2>3. task = "running" /\ UNCHANGED <<vars, try, down, refusals, events, excused, unreported>>
    BY <1>6, <2>2 DEF Report, EndTry
  <2> QED BY <2>1, <2>2, <2>3, EndTryTypes DEF DagTypeOK
<1>7. CASE Lose
  <2>1. EndTry("failure") /\ task = "running" /\ UNCHANGED xcom
        /\ UNCHANGED <<vars, try, down, refusals, events, excused>>
    BY <1>7 DEF Lose, EndTry
  <2>2. unreported' \subseteq Attempt
    <3>1. try \in 0 .. Retries + 1 /\ try # 0
      BY <2>1 DEF DagTypeOK, TriesInOrder
    <3>2. try \in Attempt
      BY <3>1, Tries
    <3> QED BY <1>7, <3>2 DEF Lose, DagTypeOK
  <2> QED BY <2>1, <2>2, EndTryTypes DEF DagTypeOK
<1>8. CASE RunCallback
  <2>1. PICK c \in callbacks :
          /\ callbacks' = callbacks \ {c}
          /\ events' = events \cup
               (CASE c[1] = "capture_task_retry" /\ RunInfo -> {<<"RETRY", c[2]>>}
                  [] c[1] = "capture_task_success" /\ c[2] > 1 /\ RunInfo -> {<<"RECOVERED", c[2]>>}
                  [] OTHER -> {})
          /\ xcom' = IF c[1] = "capture_task_failure" THEN xcom \cup {"failure_details"} ELSE xcom
          /\ UNCHANGED <<vars, task, try, down, refusals, excused, unreported>>
    BY <1>8 DEF RunCallback
  <2>2. ~RunInfo
    BY DEF RunInfo, DagTypeOK
  <2>3. events' = events
    BY <2>1, <2>2
  <2> QED BY <2>1, <2>3 DEF DagTypeOK
<1>9. CASE UNCHANGED dagVars
  BY <1>9 DEF dagVars, airflow, DagTypeOK
<1> QED BY <1>1, <1>2, <1>3, <1>4, <1>5, <1>6, <1>7, <1>8, <1>9, DagStep

(***************************************************************************)
(* The tries.                                                              *)
(***************************************************************************)
\* A process at work leaves Airflow, and the other tries, as they are.
LEMMA WorkFrame ==
  ASSUME TypeOK, NEW a \in Attempt, Proceed(a) \/ GiveUp(a) \/ Die(a)
  PROVE  /\ Frame(a) /\ Working(a)
         /\ UNCHANGED <<task, try, xcom, callbacks, events>>
         /\ unreported \subseteq unreported' /\ excused \subseteq excused'
<1>1. Step(a) \/ Crash(a)
  BY WorkIsStep DEF Die
<1> QED BY <1>1, StepFrame DEF Proceed, GiveUp, Die, airflow, Note

LEMMA OneJobStep ==
  ASSUME TypeOK, OneJob, [DagNext]_dagVars
  PROVE  OneJob' /\ job' = job
<1>1. job' = job
  <2>1. ASSUME NEW a \in Attempt, Proceed(a) \/ GiveUp(a) \/ Die(a) PROVE job' = job
    BY <2>1, WorkFrame DEF Frame
  <2> QED BY <2>1, DagStep, Elsewhere DEF vars
<1> QED BY <1>1 DEF OneJob, TheBatch

LEMMA TriesStep ==
  ASSUME DagTypeOK, TriesInOrder, [DagNext]_dagVars
  PROVE  TriesInOrder'
<1>1. ASSUME NEW a \in Attempt, Proceed(a) \/ GiveUp(a) \/ Die(a) PROVE TriesInOrder'
  <2>1. Frame(a) /\ Working(a) /\ UNCHANGED <<task, try>>
    BY <1>1, WorkFrame DEF DagTypeOK
  <2>2. a <= try /\ pc[a] \notin Ended
    BY <2>1 DEF Working
  <2>3. task = "success" => try # a
    BY <2>2 DEF TriesInOrder, Ended
  <2>4. task = "success" => try \in Attempt
    BY DagAssumption DEF DagTypeOK, TriesInOrder
  <2>5. task' = "success" => pc'[try'] = "returned"
    BY <2>1, <2>3, <2>4 DEF Frame, TriesInOrder
  <2>6. \A x \in Attempt : x > try' => pc'[x] = "start_run"
    <3> SUFFICES ASSUME NEW x \in Attempt, x > try PROVE pc'[x] = "start_run"
      BY <2>1
    <3>1. x # a
      BY <2>2, Tries DEF DagTypeOK
    <3> QED BY <2>1, <3>1 DEF Frame, TriesInOrder
  <2> QED BY <2>1, <2>5, <2>6 DEF TriesInOrder
<1>2. CASE Launch
  BY <1>2, Tries DEF Launch, vars, TriesInOrder, DagTypeOK
<1>3. CASE Report
  <2>1. \/ EndTry("success") /\ pc[try] = "returned"
        \/ EndTry("failure")
    BY <1>3 DEF Report
  <2>2. task = "running" /\ UNCHANGED <<vars, try>>
    BY <1>3, <2>1 DEF Report, EndTry
  <2>3. try # 0 /\ pc' = pc
    BY <2>2 DEF vars, TriesInOrder
  <2> QED BY <2>1, <2>2, <2>3, EndTryTypes DEF TriesInOrder
<1>4. CASE Lose
  <2>1. EndTry("failure") /\ task = "running" /\ UNCHANGED <<vars, try>>
    BY <1>4 DEF Lose, EndTry
  <2>2. try # 0 /\ pc' = pc
    BY <2>1 DEF vars, TriesInOrder
  <2> QED BY <2>1, <2>2, EndTryTypes DEF TriesInOrder
<1>5. CASE UNCHANGED <<vars, task, try>>
  BY <1>5 DEF vars, TriesInOrder
<1>6. ASSUME \/ \E a \in Attempt : RefuseConnection(a)
             \/ Outage \/ RunCallback \/ UNCHANGED dagVars
      PROVE  UNCHANGED <<vars, task, try>>
  BY <1>6 DEF RefuseConnection, Outage, RunCallback, dagVars, airflow
<1> QED BY <1>1, <1>2, <1>3, <1>4, <1>5, <1>6, DagStep

\* While every try has reported, only the present one works.
LEMMA OnlyTheLastWorks ==
  ASSUME DagTypeOK, TriesInOrder, EarlierTriesRaised, unreported = {},
         NEW a \in Attempt, Working(a)
  PROVE  a = try /\ task = "running"
<1>1. a <= try /\ pc[a] \notin Ended
  BY DEF Working
<1>2. ~(a < try)
  BY <1>1 DEF EarlierTriesRaised, Ended
<1>3. a = try
  BY <1>1, <1>2, Tries DEF DagTypeOK
<1>4. task \notin {"up_for_retry", "failed"}
  BY <1>1, <1>3 DEF EarlierTriesRaised, Ended
<1>5. task # "success"
  BY <1>1, <1>3 DEF TriesInOrder, Ended
<1>6. task # "queued"
  BY <1>3, Tries DEF TriesInOrder
<1> QED BY <1>3, <1>4, <1>5, <1>6 DEF DagTypeOK, TaskState, Over

LEMMA EarlierStep ==
  ASSUME DagTypeOK, TriesInOrder, EarlierTriesRaised, [DagNext]_dagVars
  PROVE  EarlierTriesRaised'
<1> SUFFICES ASSUME unreported' = {}
             PROVE  \A a \in Attempt : a < try' \/ (a = try' /\ task' \in {"up_for_retry", "failed"})
                                         => pc'[a] = "raised"
  BY DEF EarlierTriesRaised
<1>1. ASSUME NEW a \in Attempt, Proceed(a) \/ GiveUp(a) \/ Die(a)
      PROVE  \A x \in Attempt : x < try' \/ (x = try' /\ task' \in {"up_for_retry", "failed"})
                                         => pc'[x] = "raised"
  <2>1. Frame(a) /\ Working(a) /\ UNCHANGED <<task, try>> /\ unreported = {}
    BY <1>1, WorkFrame DEF DagTypeOK
  <2>2. a = try /\ task = "running"
    BY <2>1, OnlyTheLastWorks
  <2>3. \A x \in Attempt : x < try => x # a
    BY <2>2, Tries
  <2> QED BY <2>1, <2>2, <2>3 DEF Frame, EarlierTriesRaised
<1>2. CASE Launch
  <2>1. task \in {"queued", "up_for_retry"} /\ task' = "running" /\ try' = try + 1
        /\ pc' = pc /\ unreported = {}
    BY <1>2 DEF Launch, vars
  <2>2. \A x \in Attempt : x < try + 1 => x < try \/ (x = try /\ task = "up_for_retry")
    BY <2>1, Tries DEF DagTypeOK, TriesInOrder
  <2> QED BY <2>1, <2>2 DEF EarlierTriesRaised
<1>3. CASE Report
  <2>1. \/ EndTry("success")
        \/ EndTry("failure") /\ pc[try] = "raised"
    BY <1>3 DEF Report
  <2>2. task = "running" /\ UNCHANGED <<vars, try, unreported>>
    BY <1>3, <2>1 DEF Report, EndTry
  <2>3. EndTry("success") => task' \notin {"up_for_retry", "failed"}
    BY <2>2, EndTryTypes
  <2>4. pc' = pc
    BY <2>2 DEF vars
  <2> QED BY <2>1, <2>2, <2>3, <2>4 DEF EarlierTriesRaised
<1>4. CASE Lose
  BY <1>4 DEF Lose
<1>5. CASE UNCHANGED <<vars, task, try, unreported>>
  BY <1>5 DEF vars, EarlierTriesRaised
<1>6. ASSUME \/ \E a \in Attempt : RefuseConnection(a)
             \/ Outage \/ RunCallback \/ UNCHANGED dagVars
      PROVE  UNCHANGED <<vars, task, try, unreported>>
  BY <1>6 DEF RefuseConnection, Outage, RunCallback, dagVars, airflow
<1> QED BY <1>1, <1>2, <1>3, <1>4, <1>5, <1>6, DagStep

(***************************************************************************)
(* The batch.                                                              *)
(***************************************************************************)
\* An attempt that lets go of its batch has finished it, or has made it FAILED, or
\* could not.
LEMMA LetsGo ==
  ASSUME TypeOK, ClaimFlag, HeldRow, NEW a \in Attempt, Step(a), ~Unreported(a),
         pc[a] \in OwnerCall, pc'[a] \notin OwnerCall
  PROVE  pc'[a] = "returned" \/ Claimable(batches'[job[a].batch], job[a].pipeline)
<1>0. Handler(a) = "fail_batch"
  BY DEF ClaimFlag, Handler
<1> DEFINE Goal == pc'[a] = "returned" \/ Claimable(batches'[job[a].batch], job[a].pipeline)
<1>1. CASE CompleteRun(a)
  BY <1>0, <1>1 DEF CompleteRun, Goto, TypeOK, OwnerCall
<1>2. CASE FailBatch(a)
  <2>1. pc'[a] # "raised"
    BY <1>2 DEF Unreported, FailBatch
  <2>2. SetBatch(a, "FAILED")
    BY <1>2, <2>1 DEF FailBatch, Goto, TypeOK
  <2>3. /\ batches[job[a].batch].pipeline = job[a].pipeline
        /\ batches[job[a].batch].status \in {"RUNNING", "SUCCESS"}
    BY <1>2 DEF HeldRow, FailBatch, OwnerCall
  <2>4. job[a].batch \in Batch /\ batches[job[a].batch] \in BatchRow
    BY <2>3 DEF TypeOK, NoBatch
  <2>5. batches'[job[a].batch] = [batches[job[a].batch] EXCEPT !.status = "FAILED"]
    BY <2>2, <2>4 DEF SetBatch, TypeOK
  <2>6. batches'[job[a].batch] = [pipeline |-> job[a].pipeline, status |-> "FAILED"]
    BY <2>3, <2>4, <2>5 DEF BatchRow
  <2> QED BY <2>6 DEF Claimable
<1>3. CASE StartStage(a)
  BY <1>0, <1>3 DEF StartStage, Goto, TypeOK, OwnerCall
<1>4. CASE StageBody(a)
  BY <1>4 DEF StageBody, AfterBody, Goto, TypeOK, OwnerCall
<1>5. CASE CompleteStage(a)
  BY <1>0, <1>5 DEF CompleteStage, AfterStage, Goto, TypeOK, OwnerCall
<1>6. CASE FailStage(a)
  BY <1>0, <1>6 DEF FailStage, Goto, TypeOK, OwnerCall
<1>7. CASE CheckInvalidRate(a)
  BY <1>0, <1>7 DEF CheckInvalidRate, Goto, TypeOK, OwnerCall
<1>8. CASE CompleteBatch(a)
  BY <1>0, <1>8 DEF CompleteBatch, Goto, TypeOK, OwnerCall
<1>9. CASE StartRun(a) \/ BeginOrRetryBatch(a) \/ RejectBatch(a) \/ FailRun(a)
  BY <1>9 DEF StartRun, BeginOrRetryBatch, RejectBatch, FailRun, OwnerCall
<1> QED BY <1>1, <1>2, <1>3, <1>4, <1>5, <1>6, <1>7, <1>8, <1>9 DEF Step

\* One that has no batch claims it, or leaves the table alone, or loses its claim.
LEMMA TakesOrLeaves ==
  ASSUME TypeOK, ClaimFlag, HeldRow, NEW a \in Attempt, Step(a), ~Unreported(a),
         pc[a] \notin OwnerCall, pc'[a] \notin OwnerCall
  PROVE  batches' = batches
<1>1. Effect(a)
  BY StepEffect
<1>2. CASE Claims(a) /\ batches' # batches
  <2>1. pc[a] = "begin_or_retry_batch" /\ batchStarted'[a]
    BY <1>2 DEF Claims, Unreported, TypeOK
  <2>2. BeginOrRetryBatch(a)
    BY <1>2, <2>1 DEF Step, StartRun, RejectBatch, StartStage, StageBody, CompleteStage, FailStage,
       CheckInvalidRate, CompleteBatch, CompleteRun, FailBatch, FailRun, Claims
  <2>3. pc'[a] = "start_stage"
    BY <2>1, <2>2 DEF BeginOrRetryBatch, Goto, TypeOK
  <2> QED BY <2>3 DEF OwnerCall
<1> QED BY <1>1, <1>2 DEF Effect

LEMMA NotRejected ==
  ASSUME OneJob, BatchIsAccountedFor, unreported = {}, try \in Attempt,
         pc[try] \notin OwnerCall \cup {"returned"}
  PROVE  Claimable(batches[job[try].batch], job[try].pipeline)
BY DEF OneJob, BatchIsAccountedFor, Holds

LEMMA BatchStep ==
  ASSUME DagTypeOK, EvidenceInv, EvidenceInv', OneJob, TriesInOrder, EarlierTriesRaised,
         BatchIsAccountedFor, [DagNext]_dagVars
  PROVE  BatchIsAccountedFor'
<1> SUFFICES ASSUME unreported' = {}
             PROVE  \/ Claimable(batches'[TheBatch], "commerce")
                    \/ try' > 0 /\ (Holds(try, TheBatch)' \/ pc'[try'] = "returned")
  BY OneJobStep DEF BatchIsAccountedFor, TheBatch, DagTypeOK
<1>0. job' = job /\ TheBatch' = TheBatch
  BY OneJobStep DEF DagTypeOK, TheBatch
<1> DEFINE Goal == \/ Claimable(batches'[TheBatch], "commerce")
                   \/ try' > 0 /\ (Holds(try, TheBatch)' \/ pc'[try'] = "returned")
<1>1. ASSUME NEW a \in Attempt, Proceed(a) \/ GiveUp(a) PROVE Goal
  <2>1. Step(a) /\ Working(a) /\ UNCHANGED try /\ unreported = {}
    BY <1>1, WorkIsStep, WorkFrame DEF DagTypeOK
  <2>2. a = try /\ try > 0
    BY <2>1, OnlyTheLastWorks, Tries
  <2>3. ~Unreported(a)
    BY <1>1 DEF Proceed, GiveUp, Note
  <2>4. job[a].batch = TheBatch /\ job[a].pipeline = "commerce"
    BY DEF OneJob
  <2>5. TypeOK /\ ClaimFlag /\ HeldRow
    BY EvidenceParts
  <2>6. pc'[a] \in OwnerCall => Holds(a, TheBatch)'
    <3>1. ClaimFlag'
      BY DEF EvidenceInv, LoadInv, ClaimInv
    <3> QED BY <1>0, <2>4, <3>1 DEF Holds, ClaimFlag
  <2>7. CASE pc'[a] \in OwnerCall
    BY <2>1, <2>2, <2>6, <2>7
  <2>8. CASE pc[a] \in OwnerCall /\ pc'[a] \notin OwnerCall
    <3>1. pc'[a] = "returned" \/ Claimable(batches'[TheBatch], "commerce")
      BY <2>1, <2>3, <2>4, <2>5, <2>8, LetsGo
    <3> QED BY <2>1, <2>2, <3>1
  <2>9. CASE pc[a] \notin OwnerCall /\ pc'[a] \notin OwnerCall
    <3>1. batches' = batches
      BY <2>1, <2>3, <2>5, <2>9, TakesOrLeaves
    <3>2. Claimable(batches[TheBatch], "commerce")
      BY <2>1, <2>2, <2>4, <2>9, NotRejected DEF Working, Ended
    <3> QED BY <3>1, <3>2
  <2> QED BY <2>7, <2>8, <2>9
<1>2. ASSUME NEW a \in Attempt, Die(a) PROVE Goal
  BY <1>2 DEF Die
<1>3. CASE Launch
  <2>1. task \in {"queued", "up_for_retry"} /\ UNCHANGED vars /\ unreported = {}
    BY <1>3 DEF Launch
  <2>2. CASE task = "queued"
    BY <2>1, <2>2 DEF vars, BatchIsAccountedFor, TriesInOrder
  <2>3. CASE task = "up_for_retry"
    <3>1. try \in Attempt
      BY <2>3, Tries DEF DagTypeOK, TriesInOrder
    <3>2. pc[try] = "raised"
      BY <2>1, <2>3, <3>1 DEF EarlierTriesRaised
    <3>3. Claimable(batches[TheBatch], "commerce")
      BY <2>1, <3>1, <3>2, NotRejected DEF OneJob, OwnerCall
    <3> QED BY <2>1, <3>3 DEF vars
  <2> QED BY <2>1, <2>2, <2>3
<1>4. CASE Lose
  BY <1>4 DEF Lose
<1>5. ASSUME UNCHANGED <<vars, try, unreported>> PROVE Goal
  BY <1>5 DEF vars, BatchIsAccountedFor, Holds, TheBatch
<1>6. ASSUME \/ \E a \in Attempt : RefuseConnection(a)
             \/ Outage \/ Report \/ RunCallback \/ UNCHANGED dagVars
      PROVE  UNCHANGED <<vars, try, unreported>>
  BY <1>6 DEF RefuseConnection, Outage, Report, EndTry, RunCallback, dagVars, airflow
<1> QED BY <1>1, <1>2, <1>3, <1>4, <1>5, <1>6, DagStep

LEMMA ExcusedStep ==
  ASSUME DagTypeOK, OneJob, TriesInOrder, EarlierTriesRaised, BatchIsAccountedFor,
         ExcusedWhenHandling, [DagNext]_dagVars
  PROVE  ExcusedWhenHandling'
<1> SUFFICES ASSUME unreported' = {}, NEW x \in Attempt, pc'[x] \in Handling \cup {"raised"}
             PROVE  x \in excused'
  BY DEF ExcusedWhenHandling
<1>1. ASSUME NEW a \in Attempt, Proceed(a) \/ GiveUp(a) PROVE x \in excused'
  <2>1. Frame(a) /\ Working(a) /\ unreported = {} /\ excused \subseteq excused'
    BY <1>1, WorkFrame DEF DagTypeOK
  <2>2. CASE x # a \/ pc[x] \in Handling
    BY <2>1, <2>2 DEF Frame, ExcusedWhenHandling
  <2>3. CASE x = a /\ pc[a] \notin Handling
    <3>1. CASE GiveUp(a)
      BY <2>3, <3>1 DEF GiveUp
    <3>2. ~RejectBatch(a)
      <4>1. a = try
        BY <2>1, OnlyTheLastWorks
      <4> QED BY <2>1, <4>1, NotRejected DEF RejectBatch, OwnerCall
    <3>3. CASE Proceed(a)
      BY <2>3, <3>2, <3>3 DEF Proceed
    <3> QED BY <1>1, <3>1, <3>3
  <2> QED BY <2>2, <2>3
<1>2. ASSUME NEW a \in Attempt, Die(a) PROVE x \in excused'
  BY <1>2 DEF Die
<1>3. CASE Lose
  BY <1>3 DEF Lose
<1>4. ASSUME UNCHANGED <<vars, excused, unreported>> PROVE x \in excused'
  BY <1>4 DEF vars, ExcusedWhenHandling
<1>5. ASSUME \/ \E a \in Attempt : RefuseConnection(a)
             \/ Outage \/ Launch \/ Report \/ RunCallback \/ UNCHANGED dagVars
      PROVE  UNCHANGED <<vars, excused, unreported>>
  BY <1>5 DEF RefuseConnection, Outage, Launch, Report, EndTry, RunCallback, dagVars
<1> QED BY <1>1, <1>2, <1>3, <1>4, <1>5, DagStep

(***************************************************************************)
(* The invariant and the theorems.                                         *)
(***************************************************************************)
LEMMA InitDagInv == DagInit => DagInv
<1> SUFFICES ASSUME DagInit PROVE DagInv
  OBVIOUS
<1>1. PICK b \in Batch : job = [a \in Attempt |-> [pipeline |-> "commerce", batch |-> b]]
  BY DEF DagInit
<1>2. OneJob /\ TheBatch = b /\ TheBatch \in Batch
  BY <1>1, Tries DEF OneJob, TheBatch
<1>3. TriesInOrder /\ EarlierTriesRaised
  BY Tries DEF DagInit, Init, TriesInOrder, EarlierTriesRaised
<1>4. BatchIsAccountedFor
  BY <1>2 DEF DagInit, Init, BatchIsAccountedFor, Claimable
<1>5. ExcusedWhenHandling
  BY DEF DagInit, Init, ExcusedWhenHandling, Handling
<1> QED BY <1>2, <1>3, <1>4, <1>5, InitDagTypes DEF DagInv

LEMMA NextDagInv == DagInv /\ EvidenceInv /\ EvidenceInv' /\ [DagNext]_dagVars => DagInv'
<1> SUFFICES ASSUME DagInv, EvidenceInv, EvidenceInv', [DagNext]_dagVars PROVE DagInv'
  OBVIOUS
<1>1. TypeOK'
  BY DEF EvidenceInv, LoadInv, ClaimInv
<1>2. DagTypeOK'
  BY <1>1, NextDagTypes DEF DagInv
<1>3. OneJob' /\ TriesInOrder' /\ EarlierTriesRaised'
  BY OneJobStep, TriesStep, EarlierStep DEF DagInv, DagTypeOK
<1>4. BatchIsAccountedFor'
  BY BatchStep DEF DagInv
<1>5. ExcusedWhenHandling'
  BY ExcusedStep DEF DagInv
<1> QED BY <1>2, <1>3, <1>4, <1>5 DEF DagInv

LEMMA DagInvariance == DagSpec => [](DagInv /\ EvidenceInv)
<1>1. DagSpec => []DagInv
  BY InitDagInv, NextDagInv, DagEvidence, PTL DEF DagSpec
<1> QED BY <1>1, DagEvidence, PTL

\* The types, and with them the bounds on tries and on connection attempts.
THEOREM DagTypeCorrect == DagSpec => []DagTypeOK
<1>1. DagInv => DagTypeOK
  BY DEF DagInv
<1> QED BY <1>1, DagInvariance, PTL

\* A task that has succeeded has left a finished batch behind, for good.
THEOREM DurableSuccess == DagSpec => []SuccessIsDurable
<1>1. ASSUME DagInv, EvidenceInv, ReturnIsDurable PROVE SuccessIsDurable
  <2> SUFFICES ASSUME task = "success"
               PROVE  /\ batches[TheBatch] = [pipeline |-> "commerce", status |-> "SUCCESS"]
                      /\ LoadStages("commerce") \subseteq loaded[TheBatch]
                      /\ runs[try] = "SUCCESS"
    BY DEF SuccessIsDurable
  <2>1. try \in Attempt /\ pc[try] = "returned"
    BY <1>1, Tries DEF DagInv, DagTypeOK, TriesInOrder
  <2>2. job[try].batch = TheBatch /\ job[try].pipeline = "commerce"
    BY <1>1, <2>1 DEF DagInv, OneJob
  <2>3. /\ batches[TheBatch] = [pipeline |-> "commerce", status |-> "SUCCESS"]
        /\ runs[try] = "SUCCESS"
    BY <1>1, <2>1, <2>2 DEF ReturnIsDurable
  <2>4. TheBatch \in Batch
    BY <1>1, <2>1, <2>2 DEF DagInv, DagTypeOK, TypeOK
  <2>5. LoadStages("commerce") \subseteq loaded[TheBatch]
    BY <1>1, <2>3, <2>4 DEF EvidenceInv, LoadInv, SuccessMeansLoaded
  <2> QED BY <2>3, <2>5
<1>2. DagSpec => []ReturnIsDurable
  BY DagImplementsOrchestrator, ReturnsAreDurable, PTL
<1> QED BY <1>1, <1>2, DagInvariance, PTL

\* A failed task whose tries have all reported has left a batch that can be claimed.
THEOREM RetryableFailure == DagSpec => []FailedTaskIsRetryable
<1>1. ASSUME DagInv PROVE FailedTaskIsRetryable
  <2> SUFFICES ASSUME task = "failed", unreported = {}
               PROVE  Claimable(batches[TheBatch], "commerce")
    BY DEF FailedTaskIsRetryable
  <2>1. try \in Attempt
    BY <1>1, Tries DEF DagInv, DagTypeOK, TriesInOrder
  <2>2. pc[try] = "raised"
    BY <1>1, <2>1 DEF DagInv, EarlierTriesRaised
  <2> QED BY <1>1, <2>1, <2>2, NotRejected DEF DagInv, OneJob, OwnerCall
<1> QED BY <1>1, DagInvariance, PTL

\* A try fails for a reason of its own, never for what another has left behind.
THEOREM NoBlameForOthers == DagSpec => []RaisedMeansOutage
<1>1. DagInv => RaisedMeansOutage
  BY DEF DagInv, ExcusedWhenHandling, RaisedMeansOutage
<1> QED BY <1>1, DagInvariance, PTL

\* The exact strength of what RecoveryIsRecorded is refuted by: not only may a
\* recovery go unrecorded, no retry and no recovery is ever recorded, because the
\* callbacks look for an XCom of a task that this DAG does not have.
THEOREM NothingIsRecorded == DagSpec => [](events = {})
<1> DEFINE Silent == events = {}
<1>1. DagInit => Silent
  BY DEF DagInit
<1>2. DagTypeOK /\ Silent /\ [DagNext]_dagVars => Silent'
  <2> SUFFICES ASSUME DagTypeOK, events = {}, [DagNext]_dagVars PROVE events' = {}
    OBVIOUS
  <2>1. CASE RunCallback
    <3>1. ~RunInfo
      BY DEF RunInfo, DagTypeOK
    <3>2. QED BY <2>1, <3>1 DEF RunCallback
  <2>2. ASSUME NEW a \in Attempt, Work(a) \/ Die(a) PROVE events' = events
    BY <2>2 DEF Work, Proceed, RefuseConnection, GiveUp, Die, airflow
  <2>3. CASE Outage \/ Launch \/ Report \/ Lose \/ UNCHANGED dagVars
    BY <2>3 DEF Outage, Launch, Report, Lose, EndTry, dagVars, airflow
  <2>4. QED BY <2>1, <2>2, <2>3 DEF DagNext
<1> HIDE DEF Silent
<1>3. DagSpec => []Silent
  BY <1>1, <1>2, DagTypeCorrect, PTL DEF DagSpec
<1>4. QED BY <1>3 DEF Silent

-----------------------------------------------------------------------------
(***************************************************************************)
(* Both layers of retries run out.                                         *)
(***************************************************************************)
\* The connection attempts that the process of try a has left, at most MaxConnects
\* for each of its calls.
ConnectsLeft(a) == IF pc[a] \in Ended THEN 0 ELSE Remaining(a) * MaxConnects - refusals[a]

\* The starts and the ends of tries that the task has left.
TurnsLeft ==
  IF task \in Over THEN 0
  ELSE 2 * (Retries + 1 - try) + (IF task = "running" THEN 1 ELSE 0)

\* Whatever a process does, gets refused or dies of brings it nearer to its end and
\* leaves the others where they are, in an outage that comes and goes, too; whatever
\* Airflow does to the task brings the task nearer to its end.
RetriesAreSpent ==
  [][/\ vars' # vars \/ refusals' # refusals =>
          \E a \in Attempt : /\ ConnectsLeft(a)' < ConnectsLeft(a)
                             /\ \A x \in Attempt \ {a} : ConnectsLeft(x)' = ConnectsLeft(x)
     /\ task' # task \/ try' # try => TurnsLeft' < TurnsLeft]_dagVars

LEMMA FewerCalls ==
  ASSUME NEW m \in Nat, NEW j \in Nat, NEW k \in Nat, j < k
  PROVE  j * m \in Nat /\ k * m \in Nat /\ j * m + m <= k * m
<1> DEFINE t == k - j - 1
<1>1. t \in Nat /\ k = j + 1 + t
  OBVIOUS
<1> HIDE DEF t
<1>2. t * m \in Nat /\ j * m \in Nat
  BY <1>1
<1>3. (j + 1 + t) * m = j * m + m + t * m
  BY <1>1
<1>4. QED BY <1>1, <1>2, <1>3

\* The count of Orchestrator, of every try.
CallsAreCounted == \A a \in Attempt : Remaining(a) \in Nat

LEMMA CallsAreNat == (ClaimInv => CallsAreCounted) /\ (ClaimInv' => CallsAreCounted')
<1>1. ClaimInv => CallsAreCounted
  BY RemainingIsNat DEF ClaimInv, CallsAreCounted
<1>2. QED BY <1>1, PTL

LEMMA ConnectsAreNat ==
  ASSUME DagTypeOK, ClaimInv, NEW a \in Attempt
  PROVE  /\ ConnectsLeft(a) \in Nat
         /\ ConnectsLeft(a) = 0 <=> pc[a] \in Ended
<1>1. Remaining(a) \in Nat /\ (Remaining(a) = 0 <=> pc[a] \in Ended)
  BY RemainingIsNat DEF ClaimInv
<1>2. refusals[a] \in 0 .. MaxConnects - 1 /\ MaxConnects \in Nat \ {0}
  BY DagAssumption DEF DagTypeOK
<1>3. CASE pc[a] \notin Ended
  <2>1. 0 < Remaining(a)
    BY <1>1, <1>3
  <2>2. Remaining(a) * MaxConnects \in Nat /\ MaxConnects <= Remaining(a) * MaxConnects
    BY <1>1, <1>2, <2>1, FewerCalls
  <2>3. ConnectsLeft(a) = Remaining(a) * MaxConnects - refusals[a]
    BY <1>3 DEF ConnectsLeft
  <2> DEFINE w == Remaining(a) * MaxConnects
  <2> HIDE DEF w
  <2>4. w \in Nat /\ MaxConnects <= w /\ ConnectsLeft(a) = w - refusals[a]
    BY <2>2, <2>3 DEF w
  <2>5. QED BY <1>2, <1>3, <2>4
<1>4. QED BY <1>3 DEF ConnectsLeft

LEMMA WorkIsSpent ==
  ASSUME DagTypeOK, DagTypeOK', ClaimInv, ClaimInv', NEW a \in Attempt, Work(a) \/ Die(a)
  PROVE  /\ ConnectsLeft(a)' < ConnectsLeft(a)
         /\ \A x \in Attempt \ {a} : ConnectsLeft(x)' = ConnectsLeft(x)
<1>0. /\ refusals[a] \in 0 .. MaxConnects - 1 /\ refusals'[a] \in 0 .. MaxConnects - 1
      /\ MaxConnects \in Nat \ {0} /\ pc[a] \notin Ended
      /\ TypeOK /\ refusals \in [Attempt -> 0 .. MaxConnects - 1]
  BY DagAssumption DEF DagTypeOK, Work, Proceed, RefuseConnection, GiveUp, Die, Working
<1>1. CASE RefuseConnection(a)
  <2>1. /\ refusals'[a] = refusals[a] + 1
        /\ \A x \in Attempt \ {a} : refusals'[x] = refusals[x]
        /\ UNCHANGED vars
    BY <1>0, <1>1 DEF RefuseConnection
  <2>2. \A x \in Attempt : Remaining(x)' = Remaining(x) /\ pc'[x] = pc[x]
    BY <2>1 DEF vars, Remaining, LastStage
  <2>3. Remaining(a) * MaxConnects \in Nat
    BY <1>0, RemainingIsNat, FewerCalls DEF ClaimInv
  <2>4. \A x \in Attempt \ {a} : ConnectsLeft(x)' = ConnectsLeft(x)
    BY <2>1, <2>2 DEF ConnectsLeft
  <2> DEFINE w == Remaining(a) * MaxConnects
  <2>5. ConnectsLeft(a) = w - refusals[a] /\ ConnectsLeft(a)' = w - refusals'[a]
    BY <1>0, <2>2 DEF ConnectsLeft
  <2> HIDE DEF w
  <2>6. w \in Nat
    BY <2>3 DEF w
  <2>7. QED BY <1>0, <2>1, <2>4, <2>5, <2>6
<1>2. CASE Proceed(a) \/ GiveUp(a) \/ Die(a)
  <2>1. Step(a) \/ Crash(a)
    BY <1>2, WorkIsStep DEF Die
  <2>2. Remaining(a)' < Remaining(a)
    BY <2>1, CallAdvances
  <2>3. \A x \in Attempt \ {a} : refusals'[x] = refusals[x]
    BY <1>0, <1>2 DEF Proceed, GiveUp, Die
  <2>4. \A x \in Attempt \ {a} : Remaining(x)' = Remaining(x) /\ pc'[x] = pc[x]
    BY <1>0, <2>1, StepFrame DEF Frame, Remaining, LastStage
  <2>5. \A x \in Attempt \ {a} : ConnectsLeft(x)' = ConnectsLeft(x)
    BY <2>3, <2>4 DEF ConnectsLeft
  <2>6. Remaining(a) \in Nat /\ Remaining(a)' \in Nat
    BY CallsAreNat DEF CallsAreCounted
  <2> DEFINE v == Remaining(a)' * MaxConnects
             w == Remaining(a) * MaxConnects
  <2>7. v \in Nat /\ w \in Nat /\ v + MaxConnects <= w
    BY <1>0, <2>2, <2>6, FewerCalls
  <2>8. ConnectsLeft(a) = w - refusals[a]
    BY <1>0 DEF ConnectsLeft
  <2>9. ConnectsLeft(a)' = 0 \/ ConnectsLeft(a)' = v - refusals'[a]
    BY DEF ConnectsLeft
  <2> HIDE DEF v, w
  <2>10. QED BY <1>0, <2>5, <2>7, <2>8, <2>9
<1>3. QED BY <1>1, <1>2 DEF Work

LEMMA TurnIsTaken ==
  ASSUME DagTypeOK, DagTypeOK', TriesInOrder, TriesInOrder', Launch \/ Report \/ Lose
  PROVE  TurnsLeft' < TurnsLeft
<1>1. Retries \in Nat /\ try \in 0 .. Retries + 1 /\ try' \in 0 .. Retries + 1
  BY DagAssumption DEF DagTypeOK
<1>2. CASE Launch
  BY <1>1, <1>2 DEF Launch, TurnsLeft, Over
<1>3. CASE Report \/ Lose
  <2>1. task = "running" /\ try' = try /\ task' \in {"success", "up_for_retry", "failed"}
    BY <1>3 DEF Report, Lose, EndTry, GoOn
  <2>2. QED BY <1>1, <2>1 DEF TurnsLeft, Over
<1>4. QED BY <1>2, <1>3

\* The retries of the pipeline's calls and those of the task are finite together: a
\* try makes at most MaxConnects * (5 * LastStage + 9) connection attempts, and the
\* task is started and ended at most Retries + 1 times, whatever the server does.
\* What TaskEnds adds to it is only that somebody moves.
THEOREM RetriesRunOut ==
  DagSpec => /\ [](/\ \A a \in Attempt : /\ ConnectsLeft(a) \in Nat
                                         /\ ConnectsLeft(a) = 0 <=> pc[a] \in Ended
                   /\ TurnsLeft \in Nat
                   /\ TurnsLeft = 0 <=> task \in Over)
             /\ RetriesAreSpent
<1> DEFINE Counted == /\ \A a \in Attempt : /\ ConnectsLeft(a) \in Nat
                                            /\ ConnectsLeft(a) = 0 <=> pc[a] \in Ended
                      /\ TurnsLeft \in Nat
                      /\ TurnsLeft = 0 <=> task \in Over
           Spent == /\ vars' # vars \/ refusals' # refusals =>
                         \E a \in Attempt : /\ ConnectsLeft(a)' < ConnectsLeft(a)
                                            /\ \A x \in Attempt \ {a} : ConnectsLeft(x)' = ConnectsLeft(x)
                    /\ task' # task \/ try' # try => TurnsLeft' < TurnsLeft
           Inv == DagInv /\ EvidenceInv
<1>1. ASSUME Inv PROVE Counted
  <2>1. DagTypeOK /\ ClaimInv /\ TriesInOrder
    BY <1>1 DEF DagInv, EvidenceInv, LoadInv
  <2>2. \A a \in Attempt : ConnectsLeft(a) \in Nat /\ (ConnectsLeft(a) = 0 <=> pc[a] \in Ended)
    BY <2>1, ConnectsAreNat
  <2>3. /\ Retries \in Nat /\ try \in 0 .. Retries + 1 /\ task \in TaskState
        /\ task = "up_for_retry" => try <= Retries
        /\ task = "queued" => try = 0
    BY <2>1, DagAssumption DEF DagTypeOK, TriesInOrder
  <2>4. TurnsLeft \in Nat /\ (TurnsLeft = 0 <=> task \in Over)
    BY <2>3 DEF TurnsLeft, TaskState, Over
  <2>5. QED BY <2>2, <2>4
<1>2. ASSUME Inv, Inv', [DagNext]_dagVars PROVE [Spent]_dagVars
  <2>1. /\ DagTypeOK /\ DagTypeOK' /\ ClaimInv /\ ClaimInv' /\ TriesInOrder /\ TriesInOrder'
    BY <1>2 DEF DagInv, EvidenceInv, LoadInv
  <2>2. ASSUME NEW a \in Attempt, Work(a) \/ Die(a) PROVE Spent
    <3>1. task' = task /\ try' = try
      BY <2>2 DEF Work, Proceed, RefuseConnection, GiveUp, Die, airflow
    <3>2. QED BY <2>1, <2>2, <3>1, WorkIsSpent
  <2>3. ASSUME Launch \/ Report \/ Lose PROVE Spent
    <3>1. vars' = vars /\ refusals' = refusals
      BY <2>3 DEF Launch, Report, Lose, EndTry
    <3>2. QED BY <2>1, <2>3, <3>1, TurnIsTaken
  <2>4. ASSUME Outage \/ RunCallback PROVE Spent
    BY <2>4 DEF Outage, RunCallback, airflow
  <2>5. QED BY <1>2, <2>2, <2>3, <2>4 DEF DagNext
<1>3. DagSpec => []Inv
  BY DagInvariance
<1> HIDE DEF Counted, Spent, Inv
<1>4. DagSpec => []Counted /\ [][Spent]_dagVars
  BY <1>1, <1>2, <1>3, PTL DEF DagSpec
<1>5. QED BY <1>4 DEF Counted, Spent, RetriesAreSpent
=============================================================================
