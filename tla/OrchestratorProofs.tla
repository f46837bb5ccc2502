------------------------- MODULE OrchestratorProofs -------------------------
(***************************************************************************)
(* Theorems about Orchestrator, for any attempts, batches, pipelines,      *)
(* plans and faults.                                                       *)
(***************************************************************************)
EXTENDS Orchestrator, TLAPS

(***************************************************************************)
(* Lemmas about the plans.                                                 *)
(***************************************************************************)
\* The stages of a plan are numbered from 1 to its length, and each number is a
\* StageNo.
LEMMA PlanStages ==
  ASSUME NEW p \in Pipeline
  PROVE  /\ Plan[p] \in Seq(StageKind)
         /\ Len(Plan[p]) \in Nat \ {0}
         /\ DOMAIN Plan[p] = 1 .. Len(Plan[p])
         /\ DOMAIN Plan[p] \subseteq StageNo
         /\ LoadStages(p) \subseteq DOMAIN Plan[p]
         /\ Plan[p][Len(Plan[p])] # "quarantine"
BY PlanAssumption DEF StageNo, LoadStages

\* The stage after a completed one is the next, or the one after a quarantine
\* stage: it is at most one past the end, no load is skipped, and a quarantine
\* stage is always followed by another.
LEMMA FollowingStage ==
  ASSUME TypeOK, NEW a \in Attempt, stage[a] <= LastStage(a), NEW j \in Following(a)
  PROVE  /\ j \in Nat \ {0}
         /\ stage[a] < j
         /\ j <= LastStage(a) + 1
         /\ Kind(a, j - 1) = "quarantine" => j <= LastStage(a)
         /\ \A i \in LoadStages(job[a].pipeline) : i < j => i = stage[a] \/ i < stage[a]
<1> DEFINE p == job[a].pipeline
<1>1. p \in Pipeline /\ stage[a] \in Nat \ {0}
  BY DEF TypeOK
<1>2. PICK n \in Nat \ {0} : n = Len(Plan[p])
  BY <1>1, PlanStages
<1>3. LastStage(a) = n /\ Plan[p][n] # "quarantine"
  BY <1>1, <1>2, PlanStages DEF LastStage
<1>4. CASE j = stage[a] + 1
  <2>1. Kind(a, stage[a]) = "quarantine" => stage[a] # n
    BY <1>3 DEF Kind
  <2>2. \A i \in LoadStages(p) : i \in Nat
    BY <1>1, PlanStages
  <2>3. j - 1 = stage[a]
    BY <1>1, <1>4
  <2>4. QED BY <1>1, <1>2, <1>3, <1>4, <2>1, <2>2, <2>3
<1>5. CASE j = stage[a] + 2 /\ stage[a] < LastStage(a) /\ Kind(a, stage[a] + 1) = "quarantine"
  <2>1. stage[a] + 1 # n
    BY <1>3, <1>5 DEF Kind
  <2>2. \A i \in LoadStages(p) : i \in Nat /\ i # stage[a] + 1
    BY <1>1, <1>5, PlanStages DEF LoadStages, Kind
  <2>3. QED BY <1>1, <1>2, <1>3, <1>5, <2>1, <2>2
<1>6. QED
  BY <1>4, <1>5 DEF Following

-----------------------------------------------------------------------------
(***************************************************************************)
(* Type correctness.                                                       *)
(***************************************************************************)
LEMMA InitTypeOK == Init => TypeOK
<1> SUFFICES ASSUME Init PROVE TypeOK
  OBVIOUS
<1>1. \A a \in Attempt : stage[a] <= LastStage(a) + 1
  <2> TAKE a \in Attempt
  <2>1. job[a].pipeline \in Pipeline /\ stage[a] = 1
    BY DEF Init
  <2>2. Len(Plan[job[a].pipeline]) \in Nat \ {0}
    BY <2>1, PlanStages
  <2>3. QED BY <2>1, <2>2 DEF LastStage
<1>2. QED
  BY <1>1 DEF Init, TypeOK, Call, OwnerCall, Ended

\* The rows an attempt writes into the batches table are rows of that table.
LEMMA WrittenRows ==
  ASSUME TypeOK, NEW a \in Attempt
  PROVE  /\ job[a].pipeline \in Pipeline
         /\ job[a].batch \in Batch
         /\ [pipeline |-> job[a].pipeline, status |-> "RUNNING"] \in BatchRow
BY DEF TypeOK, BatchRow, RowStatus

\* complete_batch keeps the rest of the row.
LEMMA ReportedRow ==
  ASSUME TypeOK, NEW b \in Batch, batches[b] # NoBatch, NEW s \in RowStatus
  PROVE  [batches EXCEPT ![b].status = s] \in [Batch -> BatchRow \cup {NoBatch}]
<1>1. batches[b] \in BatchRow
  BY DEF TypeOK
<1>2. [batches[b] EXCEPT !.status = s] \in BatchRow
  BY <1>1 DEF BatchRow
<1>3. QED
  BY <1>2 DEF TypeOK

\* A stage row is written at the position the attempt is at.
LEMMA WrittenStageRow ==
  ASSUME TypeOK, NEW a \in Attempt, stage[a] <= LastStage(a), NEW s \in RowStatus
  PROVE  /\ stage[a] \in StageNo
         /\ [stageRuns EXCEPT ![a][stage[a]] = s]
              \in [Attempt -> [StageNo -> RowStatus \cup {"none"}]]
<1>1. stage[a] \in StageNo
  BY PlanStages, WrittenRows DEF TypeOK, LastStage
<1>2. [stageRuns[a] EXCEPT ![stage[a]] = s] \in [StageNo -> RowStatus \cup {"none"}]
  BY <1>1 DEF TypeOK
<1>3. QED
  BY <1>1, <1>2 DEF TypeOK

LEMMA HandlerCall ==
  ASSUME NEW a
  PROVE  Handler(a) \in {"fail_batch", "fail_run"}
BY DEF Handler

LEMMA NextTypeOK ==
  ASSUME TypeOK, [Next]_vars,
         StageInPlan,
         \A a \in Attempt : pc[a] \in OwnerCall => batches[job[a].batch] # NoBatch
  PROVE  TypeOK'
<1> USE DEF Call, OwnerCall, Ended, Goto
<1>1. ASSUME NEW a \in Attempt, StartRun(a) PROVE TypeOK'
  BY <1>1 DEF StartRun, TypeOK, RowStatus, LastStage
<1>2. ASSUME NEW a \in Attempt, BeginOrRetryBatch(a) PROVE TypeOK'
  BY <1>2, WrittenRows, HandlerCall DEF BeginOrRetryBatch, TypeOK, LastStage
<1>3. ASSUME NEW a \in Attempt, RejectBatch(a) PROVE TypeOK'
  BY <1>3, HandlerCall DEF RejectBatch, TypeOK, LastStage, tables
<1>4. ASSUME NEW a \in Attempt, StartStage(a) PROVE TypeOK'
  <2>1. stageRuns' \in [Attempt -> [StageNo -> RowStatus \cup {"none"}]]
    <3>1. stageRuns' = stageRuns \/ stageRuns' = [stageRuns EXCEPT ![a][stage[a]] = "RUNNING"]
      BY <1>4 DEF StartStage, SetStage
    <3>2. stage[a] <= LastStage(a)
      BY <1>4 DEF StartStage, StageInPlan, StageCall
    <3>3. "RUNNING" \in RowStatus
      BY DEF RowStatus
    <3>4. [stageRuns EXCEPT ![a][stage[a]] = "RUNNING"]
            \in [Attempt -> [StageNo -> RowStatus \cup {"none"}]]
      BY <3>2, <3>3, WrittenStageRow
    <3>5. QED
      BY <3>1, <3>4 DEF TypeOK
  <2>2. QED
    BY <1>4, <2>1, HandlerCall DEF StartStage, TypeOK, LastStage
<1>5. ASSUME NEW a \in Attempt, StageBody(a) PROVE TypeOK'
  BY <1>5, WrittenRows, PlanStages DEF StageBody, AfterBody, TypeOK, LastStage
<1>6. ASSUME NEW a \in Attempt, CompleteStage(a) PROVE TypeOK'
  <2>1. stageRuns' \in [Attempt -> [StageNo -> RowStatus \cup {"none"}]]
    <3>1. stageRuns' = stageRuns \/ stageRuns' = [stageRuns EXCEPT ![a][stage[a]] = "SUCCESS"]
      BY <1>6 DEF CompleteStage, SetStage
    <3>2. stage[a] <= LastStage(a)
      BY <1>6 DEF CompleteStage, StageInPlan, StageCall
    <3>3. "SUCCESS" \in RowStatus
      BY DEF RowStatus
    <3>4. [stageRuns EXCEPT ![a][stage[a]] = "SUCCESS"]
            \in [Attempt -> [StageNo -> RowStatus \cup {"none"}]]
      BY <3>2, <3>3, WrittenStageRow
    <3>5. QED
      BY <3>1, <3>4 DEF TypeOK
  <2>2. stage[a] <= LastStage(a)
    BY <1>6 DEF CompleteStage, StageInPlan, StageCall
  <2>3. /\ stage' \in [Attempt -> Nat \ {0}]
        /\ \A x \in Attempt : stage'[x] <= LastStage(x) + 1
    <3>1. \A j \in Following(a) : j \in Nat \ {0} /\ j <= LastStage(a) + 1
      BY <2>2, FollowingStage
    <3>2. QED
      BY <1>6, <2>2, <3>1 DEF CompleteStage, TypeOK
  <2>4. pc' \in [Attempt -> Call]
    BY <1>6, HandlerCall DEF CompleteStage, AfterStage, TypeOK
  <2>5. QED
    BY <1>6, <2>1, <2>3, <2>4 DEF CompleteStage, TypeOK, LastStage
<1>7. ASSUME NEW a \in Attempt, FailStage(a) PROVE TypeOK'
  <2>1. stageRuns' \in [Attempt -> [StageNo -> RowStatus \cup {"none"}]]
    <3>1. stageRuns' = stageRuns \/ stageRuns' = [stageRuns EXCEPT ![a][stage[a]] = "FAILED"]
      BY <1>7 DEF FailStage, SetStage
    <3>2. stage[a] <= LastStage(a)
      BY <1>7 DEF FailStage, StageInPlan, StageCall
    <3>3. "FAILED" \in RowStatus
      BY DEF RowStatus
    <3>4. [stageRuns EXCEPT ![a][stage[a]] = "FAILED"]
            \in [Attempt -> [StageNo -> RowStatus \cup {"none"}]]
      BY <3>2, <3>3, WrittenStageRow
    <3>5. QED
      BY <3>1, <3>4 DEF TypeOK
  <2>2. QED
    BY <1>7, <2>1, HandlerCall DEF FailStage, TypeOK, LastStage
<1>8. ASSUME NEW a \in Attempt, CheckInvalidRate(a) PROVE TypeOK'
  BY <1>8, HandlerCall DEF CheckInvalidRate, TypeOK, LastStage, tables
<1>9. ASSUME NEW a \in Attempt, CompleteBatch(a) PROVE TypeOK'
  <2>1. batches' \in [Batch -> BatchRow \cup {NoBatch}]
    <3>1. batches' = batches \/ batches' = [batches EXCEPT ![job[a].batch].status = "SUCCESS"]
      BY <1>9 DEF CompleteBatch, SetBatch
    <3>2. batches[job[a].batch] # NoBatch
      BY <1>9 DEF CompleteBatch
    <3>3. job[a].batch \in Batch /\ "SUCCESS" \in RowStatus
      BY WrittenRows DEF RowStatus
    <3>4. [batches EXCEPT ![job[a].batch].status = "SUCCESS"] \in [Batch -> BatchRow \cup {NoBatch}]
      BY <3>2, <3>3, ReportedRow
    <3>5. QED
      BY <3>1, <3>4 DEF TypeOK
  <2>2. QED
    BY <1>9, <2>1, HandlerCall DEF CompleteBatch, TypeOK, LastStage
<1>10. ASSUME NEW a \in Attempt, CompleteRun(a) PROVE TypeOK'
  BY <1>10, HandlerCall DEF CompleteRun, SetRun, TypeOK, LastStage, RowStatus
<1>11. ASSUME NEW a \in Attempt, FailBatch(a) PROVE TypeOK'
  <2>1. batches' \in [Batch -> BatchRow \cup {NoBatch}]
    <3>1. batches' = batches \/ batches' = [batches EXCEPT ![job[a].batch].status = "FAILED"]
      BY <1>11 DEF FailBatch, SetBatch
    <3>2. batches[job[a].batch] # NoBatch
      BY <1>11 DEF FailBatch
    <3>3. job[a].batch \in Batch /\ "FAILED" \in RowStatus
      BY WrittenRows DEF RowStatus
    <3>4. [batches EXCEPT ![job[a].batch].status = "FAILED"] \in [Batch -> BatchRow \cup {NoBatch}]
      BY <3>2, <3>3, ReportedRow
    <3>5. QED
      BY <3>1, <3>4 DEF TypeOK
  <2>2. QED
    BY <1>11, <2>1 DEF FailBatch, TypeOK, LastStage
<1>12. ASSUME NEW a \in Attempt, FailRun(a) PROVE TypeOK'
  BY <1>12 DEF FailRun, SetRun, TypeOK, LastStage, RowStatus
<1>13. ASSUME NEW a \in Attempt, Crash(a) PROVE TypeOK'
  BY <1>13 DEF Crash, TypeOK, LastStage, tables
<1>14. CASE UNCHANGED vars
  BY <1>14 DEF vars, TypeOK, LastStage
<1>15. QED
  BY <1>1, <1>2, <1>3, <1>4, <1>5, <1>6, <1>7, <1>8, <1>9, <1>10, <1>11, <1>12,
     <1>13, <1>14 DEF Next, Step

-----------------------------------------------------------------------------
(***************************************************************************)
(* What one step of one attempt leaves alone.                              *)
(***************************************************************************)
Frame(a) ==
  /\ job' = job
  /\ \A x \in Attempt \ {a} :
       /\ pc'[x] = pc[x] /\ stage'[x] = stage[x] /\ batchStarted'[x] = batchStarted[x]
       /\ runs'[x] = runs[x] /\ stageRuns'[x] = stageRuns[x]
  /\ \A b \in Batch \ {job[a].batch} : batches'[b] = batches[b] /\ loaded'[b] = loaded[b]
  /\ \A b \in Batch : loaded[b] \subseteq loaded'[b]

\* A step of an attempt touches its own locals and rows, and the batch it was
\* called for; nothing that has been loaded is lost.
LEMMA StepFrame ==
  ASSUME TypeOK, NEW a \in Attempt, Step(a) \/ Crash(a)
  PROVE  Frame(a)
<1> USE DEF Frame, Goto, TypeOK
<1>1. ASSUME StartRun(a) PROVE Frame(a)
  BY <1>1 DEF StartRun
<1>2. ASSUME BeginOrRetryBatch(a) PROVE Frame(a)
  BY <1>2 DEF BeginOrRetryBatch
<1>3. ASSUME RejectBatch(a) PROVE Frame(a)
  BY <1>3 DEF RejectBatch, tables
<1>4. ASSUME StartStage(a) PROVE Frame(a)
  BY <1>4 DEF StartStage, SetStage
<1>5. ASSUME StageBody(a) PROVE Frame(a)
  BY <1>5 DEF StageBody
<1>6. ASSUME CompleteStage(a) PROVE Frame(a)
  BY <1>6 DEF CompleteStage, SetStage
<1>7. ASSUME FailStage(a) PROVE Frame(a)
  BY <1>7 DEF FailStage, SetStage
<1>8. ASSUME CheckInvalidRate(a) PROVE Frame(a)
  BY <1>8 DEF CheckInvalidRate, tables
<1>9. ASSUME CompleteBatch(a) PROVE Frame(a)
  BY <1>9 DEF CompleteBatch, SetBatch
<1>10. ASSUME CompleteRun(a) PROVE Frame(a)
  BY <1>10 DEF CompleteRun, SetRun
<1>11. ASSUME FailBatch(a) PROVE Frame(a)
  BY <1>11 DEF FailBatch, SetBatch
<1>12. ASSUME FailRun(a) PROVE Frame(a)
  BY <1>12 DEF FailRun, SetRun
<1>13. ASSUME Crash(a) PROVE Frame(a)
  BY <1>13 DEF Crash, tables
<1>14. QED
  BY <1>1, <1>2, <1>3, <1>4, <1>5, <1>6, <1>7, <1>8, <1>9, <1>10, <1>11, <1>12, <1>13 DEF Step

-----------------------------------------------------------------------------
(***************************************************************************)
(* One keeper per batch.                                                   *)
(***************************************************************************)
Keeping(call) == call \in OwnerCall \cup {"returned"}
Claims(a) == pc[a] = "begin_or_retry_batch" /\ Claimable(batches[job[a].batch], job[a].pipeline)

\* The part of HeldRow that speaks of attempt a.
HeldRowOf(a) ==
  LET row == batches[job[a].batch]
  IN  /\ Keeping(pc[a]) => row.pipeline = job[a].pipeline
      /\ pc[a] \in StageCall \cup {"complete_batch"} => row.status = "RUNNING"
      /\ pc[a] \in {"complete_run", "returned"} => row.status = "SUCCESS"
      /\ pc[a] = "fail_batch" => row.status \in {"RUNNING", "SUCCESS"}

LEMMA HeldRowParts == HeldRow <=> \A a \in Attempt : HeldRowOf(a)
BY DEF HeldRow, HeldRowOf, Keeping

\* Only a claim makes an attempt a keeper.
LEMMA BecomesKeeper ==
  ASSUME TypeOK, ClaimFlag, NEW a \in Attempt, Step(a) \/ Crash(a), Keeping(pc'[a])
  PROVE  Keeping(pc[a]) \/ Claims(a)
<1> USE DEF Goto, TypeOK, Keeping, Claims, OwnerCall, Handler, ClaimFlag
<1>1. ASSUME StartRun(a) PROVE Keeping(pc[a]) \/ Claims(a)
  BY <1>1 DEF StartRun
<1>2. ASSUME BeginOrRetryBatch(a) PROVE Keeping(pc[a]) \/ Claims(a)
  BY <1>2 DEF BeginOrRetryBatch
<1>3. ASSUME RejectBatch(a) PROVE Keeping(pc[a]) \/ Claims(a)
  BY <1>3 DEF RejectBatch
<1>4. ASSUME StartStage(a) PROVE Keeping(pc[a]) \/ Claims(a)
  BY <1>4 DEF StartStage
<1>5. ASSUME StageBody(a) PROVE Keeping(pc[a]) \/ Claims(a)
  BY <1>5 DEF StageBody
<1>6. ASSUME CompleteStage(a) PROVE Keeping(pc[a]) \/ Claims(a)
  BY <1>6 DEF CompleteStage
<1>7. ASSUME FailStage(a) PROVE Keeping(pc[a]) \/ Claims(a)
  BY <1>7 DEF FailStage
<1>8. ASSUME CheckInvalidRate(a) PROVE Keeping(pc[a]) \/ Claims(a)
  BY <1>8 DEF CheckInvalidRate
<1>9. ASSUME CompleteBatch(a) PROVE Keeping(pc[a]) \/ Claims(a)
  BY <1>9 DEF CompleteBatch
<1>10. ASSUME CompleteRun(a) PROVE Keeping(pc[a]) \/ Claims(a)
  BY <1>10 DEF CompleteRun
<1>11. ASSUME FailBatch(a) PROVE Keeping(pc[a]) \/ Claims(a)
  BY <1>11 DEF FailBatch
<1>12. ASSUME FailRun(a) PROVE Keeping(pc[a]) \/ Claims(a)
  BY <1>12 DEF FailRun
<1>13. ASSUME Crash(a) PROVE Keeping(pc[a]) \/ Claims(a)
  BY <1>13 DEF Crash
<1>14. QED
  BY <1>1, <1>2, <1>3, <1>4, <1>5, <1>6, <1>7, <1>8, <1>9, <1>10, <1>11, <1>12, <1>13 DEF Step

\* Only a claim or the attempt that holds the batch writes its row.
LEMMA RowWriter ==
  ASSUME TypeOK, NEW a \in Attempt, Step(a) \/ Crash(a),
         batches'[job[a].batch] # batches[job[a].batch]
  PROVE  pc[a] \in OwnerCall \/ Claims(a)
<1> USE DEF Goto, TypeOK, Claims, OwnerCall
<1>1. ASSUME StartRun(a) PROVE pc[a] \in OwnerCall \/ Claims(a)
  BY <1>1 DEF StartRun
<1>2. ASSUME BeginOrRetryBatch(a) PROVE pc[a] \in OwnerCall \/ Claims(a)
  BY <1>2 DEF BeginOrRetryBatch
<1>3. ASSUME RejectBatch(a) PROVE pc[a] \in OwnerCall \/ Claims(a)
  BY <1>3 DEF RejectBatch, tables
<1>4. ASSUME StartStage(a) PROVE pc[a] \in OwnerCall \/ Claims(a)
  BY <1>4 DEF StartStage
<1>5. ASSUME StageBody(a) PROVE pc[a] \in OwnerCall \/ Claims(a)
  BY <1>5 DEF StageBody
<1>6. ASSUME CompleteStage(a) PROVE pc[a] \in OwnerCall \/ Claims(a)
  BY <1>6 DEF CompleteStage
<1>7. ASSUME FailStage(a) PROVE pc[a] \in OwnerCall \/ Claims(a)
  BY <1>7 DEF FailStage
<1>8. ASSUME CheckInvalidRate(a) PROVE pc[a] \in OwnerCall \/ Claims(a)
  BY <1>8 DEF CheckInvalidRate, tables
<1>9. ASSUME CompleteBatch(a) PROVE pc[a] \in OwnerCall \/ Claims(a)
  BY <1>9 DEF CompleteBatch
<1>10. ASSUME CompleteRun(a) PROVE pc[a] \in OwnerCall \/ Claims(a)
  BY <1>10 DEF CompleteRun
<1>11. ASSUME FailBatch(a) PROVE pc[a] \in OwnerCall \/ Claims(a)
  BY <1>11 DEF FailBatch
<1>12. ASSUME FailRun(a) PROVE pc[a] \in OwnerCall \/ Claims(a)
  BY <1>12 DEF FailRun
<1>13. ASSUME Crash(a) PROVE pc[a] \in OwnerCall \/ Claims(a)
  BY <1>13 DEF Crash, tables
<1>14. QED
  BY <1>1, <1>2, <1>3, <1>4, <1>5, <1>6, <1>7, <1>8, <1>9, <1>10, <1>11, <1>12, <1>13 DEF Step

LEMMA ReportedFields ==
  ASSUME TypeOK, NEW b \in Batch, batches[b].status # "none", NEW s,
         batches' = [batches EXCEPT ![b].status = s]
  PROVE  /\ batches'[b].status = s
         /\ batches'[b].pipeline = batches[b].pipeline
<1>1. batches[b] \in BatchRow
  BY DEF TypeOK, NoBatch
<1>2. batches'[b] = [batches[b] EXCEPT !.status = s]
  BY DEF TypeOK
<1>3. QED
  BY <1>1, <1>2 DEF BatchRow

\* The attempt that takes the step: its flag and its row stay as described.
LEMMA OwnClaim ==
  ASSUME TypeOK, ClaimFlag, HeldRow, NEW a \in Attempt, Step(a) \/ Crash(a)
  PROVE  /\ Keeping(pc'[a]) => batchStarted'[a]
         /\ pc'[a] \in {"start_run", "begin_or_retry_batch"} => ~batchStarted'[a]
         /\ HeldRowOf(a)'
<1> DEFINE Goal == /\ Keeping(pc'[a]) => batchStarted'[a]
                   /\ pc'[a] \in {"start_run", "begin_or_retry_batch"} => ~batchStarted'[a]
                   /\ HeldRowOf(a)'
<1>0. HeldRowOf(a)
  BY HeldRowParts
<1> USE <1>0 DEF Goto, TypeOK, Keeping, Claims, OwnerCall, StageCall, Handler, ClaimFlag, HeldRowOf
<1>1. ASSUME StartRun(a) PROVE Goal
  BY <1>1 DEF StartRun
<1>2. ASSUME BeginOrRetryBatch(a) PROVE Goal
  <2>1. job[a].batch \in Batch /\ ~batchStarted[a]
    BY <1>2 DEF BeginOrRetryBatch
  <2>2. PICK o \in Outcomes("begin_or_retry_batch") :
          /\ batches' = IF o = "refused" THEN batches
                        ELSE [batches EXCEPT ![job[a].batch] =
                                [pipeline |-> job[a].pipeline, status |-> "RUNNING"]]
          /\ batchStarted' = [batchStarted EXCEPT ![a] = (o = "ok")]
          /\ pc' = [pc EXCEPT ![a] = IF o = "ok" THEN "start_stage" ELSE Handler(a)]
    BY <1>2 DEF BeginOrRetryBatch
  <2>3. CASE o = "ok"
    <3>1. batchStarted'[a] /\ pc'[a] = "start_stage"
      BY <2>2, <2>3
    <3>2. batches'[job[a].batch] = [pipeline |-> job[a].pipeline, status |-> "RUNNING"]
      BY <2>1, <2>2, <2>3
    <3>3. QED
      BY <1>2, <3>1, <3>2 DEF BeginOrRetryBatch
  <2>4. CASE o # "ok"
    <3>1. pc'[a] = "fail_run"
      BY <2>1, <2>2, <2>4
    <3>2. QED
      BY <3>1
  <2>5. QED
    BY <2>3, <2>4
<1>3. ASSUME RejectBatch(a) PROVE Goal
  BY <1>3 DEF RejectBatch, tables
<1>4. ASSUME StartStage(a) PROVE Goal
  BY <1>4 DEF StartStage
<1>5. ASSUME StageBody(a) PROVE Goal
  BY <1>5 DEF StageBody, AfterBody
<1>6. ASSUME CompleteStage(a) PROVE Goal
  BY <1>6 DEF CompleteStage, AfterStage
<1>7. ASSUME FailStage(a) PROVE Goal
  BY <1>7 DEF FailStage
<1>8. ASSUME CheckInvalidRate(a) PROVE Goal
  BY <1>8 DEF CheckInvalidRate, tables
<1>9. ASSUME CompleteBatch(a) PROVE Goal
  <2>1. /\ job[a].batch \in Batch /\ batchStarted[a]
        /\ batches[job[a].batch].pipeline = job[a].pipeline
        /\ batches[job[a].batch].status = "RUNNING"
    BY <1>9 DEF CompleteBatch
  <2>2. CASE batches' = batches /\ pc'[a] = "fail_batch"
    BY <1>9, <2>1, <2>2 DEF CompleteBatch
  <2>3. CASE batches' = [batches EXCEPT ![job[a].batch].status = "SUCCESS"]
    <3>1. /\ batches'[job[a].batch].pipeline = job[a].pipeline
          /\ batches'[job[a].batch].status = "SUCCESS"
      BY <2>1, <2>3, ReportedFields
    <3>2. QED
      BY <1>9, <2>1, <3>1 DEF CompleteBatch
  <2>4. QED
    BY <1>9, <2>2, <2>3 DEF CompleteBatch, SetBatch
<1>10. ASSUME CompleteRun(a) PROVE Goal
  BY <1>10 DEF CompleteRun, SetRun
<1>11. ASSUME FailBatch(a) PROVE Goal
  BY <1>11 DEF FailBatch, SetBatch
<1>12. ASSUME FailRun(a) PROVE Goal
  BY <1>12 DEF FailRun, SetRun
<1>13. ASSUME Crash(a) PROVE Goal
  BY <1>13 DEF Crash, tables
<1>14. QED
  BY <1>1, <1>2, <1>3, <1>4, <1>5, <1>6, <1>7, <1>8, <1>9, <1>10, <1>11, <1>12, <1>13 DEF Step

\* A batch with a keeper cannot be claimed.
LEMMA KeptNotClaimable ==
  ASSUME HeldRow, NEW a \in Attempt, Keeping(pc[a]), NEW p \in Pipeline, TypeOK
  PROVE  ~Claimable(batches[job[a].batch], p)
<1>1. HeldRowOf(a)
  BY HeldRowParts
<1>2. batches[job[a].batch].status \in {"RUNNING", "SUCCESS"}
  BY <1>1 DEF HeldRowOf, Keeping, OwnerCall, StageCall
<1>3. QED
  BY <1>2 DEF Claimable, NoBatch

LEMMA KeeperUnique ==
  ASSUME ClaimFlag, OneKeeper, NEW a1 \in Attempt, NEW a2 \in Attempt, TypeOK,
         Keeping(pc[a1]), Keeping(pc[a2]), job[a1].batch = job[a2].batch
  PROVE  a1 = a2
BY DEF ClaimFlag, OneKeeper, Holds, Returned, Keeping, TypeOK

\* A step of another attempt leaves the row of a keeper alone.
LEMMA KeptRowStays ==
  ASSUME ClaimInv, NEW a \in Attempt, Step(a) \/ Crash(a),
         NEW x \in Attempt, x # a, Keeping(pc[x])
  PROVE  batches'[job[x].batch] = batches[job[x].batch]
<1>1. /\ Frame(a) /\ TypeOK /\ ClaimFlag /\ HeldRow /\ OneKeeper
      /\ job[x].batch \in Batch /\ job[a].pipeline \in Pipeline
  BY StepFrame, WrittenRows DEF ClaimInv
<1>2. CASE job[x].batch # job[a].batch
  BY <1>1, <1>2 DEF Frame
<1>3. CASE job[x].batch = job[a].batch
  <2>1. ~Claims(a)
    BY <1>1, <1>3, KeptNotClaimable DEF Claims
  <2>2. pc[a] \notin OwnerCall
    BY <1>1, <1>3, KeeperUnique DEF Keeping
  <2>3. QED
    BY <1>1, <1>3, <2>1, <2>2, RowWriter
<1>4. QED
  BY <1>2, <1>3

LEMMA StepClaimInv ==
  ASSUME ClaimInv, NEW a \in Attempt, Step(a) \/ Crash(a)
  PROVE  ClaimFlag' /\ HeldRow' /\ OneKeeper'
<1> USE DEF ClaimInv
<1>1. Frame(a)
  BY StepFrame
<1>2. ClaimFlag'
  <2> SUFFICES ASSUME NEW x \in Attempt
               PROVE  /\ Keeping(pc'[x]) => batchStarted'[x]
                      /\ pc'[x] \in {"start_run", "begin_or_retry_batch"} => ~batchStarted'[x]
    BY DEF ClaimFlag, Keeping
  <2>1. CASE x = a
    BY <2>1, OwnClaim
  <2>2. CASE x # a
    BY <1>1, <2>2 DEF Frame, ClaimFlag, Keeping
  <2>3. QED
    BY <2>1, <2>2
<1>3. ASSUME NEW x \in Attempt, x # a, Keeping(pc[x])
      PROVE  batches'[job[x].batch] = batches[job[x].batch]
  BY <1>3, KeptRowStays
<1>4. HeldRow'
  <2>1. ASSUME NEW x \in Attempt PROVE HeldRowOf(x)'
    <3>1. CASE x = a
      BY <3>1, OwnClaim
    <3>2. CASE x # a /\ Keeping(pc[x])
      BY <1>1, <1>3, <3>2, HeldRowParts DEF Frame, HeldRowOf
    <3>3. CASE x # a /\ ~Keeping(pc[x])
      BY <1>1, <3>3 DEF Frame, HeldRowOf, Keeping, OwnerCall, StageCall
    <3>4. QED
      BY <3>1, <3>2, <3>3
  <2>2. QED
    BY <2>1 DEF HeldRow, HeldRowOf, Keeping
<1>5. OneKeeper'
  <2> SUFFICES ASSUME NEW x \in Attempt, NEW y \in Attempt, x # y,
                      Keeping(pc'[x]), Keeping(pc'[y]), job'[x].batch = job'[y].batch
               PROVE  FALSE
    BY DEF OneKeeper, Holds, Returned, Keeping
  <2>1. job[x].batch = job[y].batch
    BY <1>1 DEF Frame
  <2>2. ASSUME NEW k \in {x, y}, k # a PROVE Keeping(pc[k])
    BY <1>1, <2>2 DEF Frame
  <2>3. ASSUME NEW k \in {x, y}, k = a PROVE Keeping(pc[k])
    <3>1. PICK other \in {x, y} : other # k
      OBVIOUS
    <3>2. Keeping(pc[other]) /\ job[other].batch = job[a].batch
      BY <2>1, <2>2, <2>3, <3>1
    <3>3. ~Claims(a)
      BY <3>2, KeptNotClaimable DEF Claims, TypeOK
    <3>4. QED
      BY <2>3, <3>3, BecomesKeeper
  <2>4. QED
    BY <2>1, <2>2, <2>3, KeeperUnique
<1>6. QED
  BY <1>2, <1>4, <1>5

\* The attempt stays within its plan.
LEMMA StepStageInPlan ==
  ASSUME TypeOK, StageInPlan, NEW a \in Attempt, Step(a) \/ Crash(a)
  PROVE  StageInPlan'
<1> DEFINE Own == /\ pc'[a] \in {"start_run", "begin_or_retry_batch"} => stage'[a] = 1
                  /\ pc'[a] \in StageCall => stage'[a] <= LastStage(a)
<1>0. LastStage(a) \in Nat /\ 1 <= LastStage(a)
  <2>1. job[a].pipeline \in Pipeline
    BY WrittenRows
  <2>2. Len(Plan[job[a].pipeline]) \in Nat \ {0}
    BY <2>1, PlanStages
  <2>3. QED
    BY <2>2 DEF LastStage
<1> USE <1>0, HandlerCall DEF Goto, TypeOK, StageInPlan, StageCall
<1>1. ASSUME StartRun(a) PROVE Own
  BY <1>1 DEF StartRun
<1>2. ASSUME BeginOrRetryBatch(a) PROVE Own
  BY <1>2 DEF BeginOrRetryBatch
<1>3. ASSUME RejectBatch(a) PROVE Own
  BY <1>3 DEF RejectBatch
<1>4. ASSUME StartStage(a) PROVE Own
  BY <1>4 DEF StartStage
<1>5. ASSUME StageBody(a) PROVE Own
  BY <1>5 DEF StageBody, AfterBody
<1>6. ASSUME CompleteStage(a) PROVE Own
  <2>1. stage[a] <= LastStage(a) /\ pc[a] = "complete_stage"
    BY <1>6 DEF CompleteStage
  <2>2. ASSUME NEW j \in Following(a), stage' = [stage EXCEPT ![a] = j],
               pc' = [pc EXCEPT ![a] = AfterStage(a, j)]
        PROVE  Own
    <3>1. j \in Nat /\ j <= LastStage(a) + 1 /\ LastStage(a) \in Nat
      BY <2>1, FollowingStage, PlanStages, WrittenRows DEF LastStage
    <3>2. stage'[a] = j /\ pc'[a] = AfterStage(a, j)
      BY <2>2
    <3>3. CASE Kind(a, j - 1) = "quarantine"
      BY <2>1, <3>2, <3>3, FollowingStage DEF AfterStage
    <3>4. CASE Kind(a, j - 1) # "quarantine"
      BY <3>1, <3>2, <3>4 DEF AfterStage
    <3>5. QED
      BY <3>3, <3>4
  <2>3. QED
    BY <1>6, <2>1, <2>2 DEF CompleteStage
<1>7. ASSUME FailStage(a) PROVE Own
  BY <1>7 DEF FailStage
<1>8. ASSUME CheckInvalidRate(a) PROVE Own
  BY <1>8 DEF CheckInvalidRate
<1>9. ASSUME CompleteBatch(a) PROVE Own
  BY <1>9 DEF CompleteBatch
<1>10. ASSUME CompleteRun(a) PROVE Own
  BY <1>10 DEF CompleteRun
<1>11. ASSUME FailBatch(a) PROVE Own
  BY <1>11 DEF FailBatch
<1>12. ASSUME FailRun(a) PROVE Own
  BY <1>12 DEF FailRun
<1>13. ASSUME Crash(a) PROVE Own
  BY <1>13 DEF Crash
<1>14. Own
  BY <1>1, <1>2, <1>3, <1>4, <1>5, <1>6, <1>7, <1>8, <1>9, <1>10, <1>11, <1>12, <1>13 DEF Step
<1>15. QED
  BY <1>14, StepFrame DEF Frame, LastStage

-----------------------------------------------------------------------------
(***************************************************************************)
(* The claim protocol is an invariant.                                     *)
(***************************************************************************)
LEMMA InitClaimInv == Init => ClaimInv
<1> SUFFICES ASSUME Init PROVE ClaimInv
  OBVIOUS
<1>1. TypeOK
  BY InitTypeOK
<1>2. StageInPlan /\ ClaimFlag /\ HeldRow /\ OneKeeper
  BY DEF Init, StageInPlan, ClaimFlag, HeldRow, OneKeeper, Holds, Returned, OwnerCall, StageCall
<1>3. QED
  BY <1>1, <1>2 DEF ClaimInv

LEMMA NextClaimInv ==
  ASSUME ClaimInv, [Next]_vars
  PROVE  ClaimInv'
<1>1. CASE UNCHANGED vars
  BY <1>1 DEF vars, ClaimInv, TypeOK, StageInPlan, ClaimFlag, HeldRow, OneKeeper, Holds,
              Returned, LastStage
<1>2. ASSUME NEW a \in Attempt, Step(a) \/ Crash(a) PROVE ClaimInv'
  <2>1. \A x \in Attempt : pc[x] \in OwnerCall => batches[job[x].batch] # NoBatch
    BY DEF ClaimInv, HeldRow, OwnerCall, StageCall, NoBatch
  <2>2. TypeOK'
    BY <2>1, NextTypeOK DEF ClaimInv
  <2>3. QED
    BY <1>2, <2>2, StepStageInPlan, StepClaimInv DEF ClaimInv
<1>3. QED
  BY <1>1, <1>2 DEF Next

LEMMA ClaimInvariant == Spec => []ClaimInv
<1>1. QED
  BY InitClaimInv, NextClaimInv, PTL DEF Spec

\* Every variable keeps to its type: the status columns hold one of the three
\* values of their CHECK constraints, and no attempt runs past its plan.
THEOREM TypeCorrect == Spec => []TypeOK
<1>1. ClaimInv => TypeOK
  BY DEF ClaimInv
<1>2. QED
  BY <1>1, ClaimInvariant, PTL

\* Two attempts never work on one batch, and none works on a batch an attempt
\* has returned, however calls fail and processes die.
THEOREM AtMostOneKeeper == Spec => []OneKeeper
<1>1. ClaimInv => OneKeeper
  BY DEF ClaimInv
<1>2. QED
  BY <1>1, ClaimInvariant, PTL

-----------------------------------------------------------------------------
(***************************************************************************)
(* The loads behind a SUCCESS.                                             *)
(***************************************************************************)
\* The part of LoadProgress that speaks of attempt a.
LoadProgressOf(a) ==
  LET done == loaded[job[a].batch]
      p == job[a].pipeline
  IN  /\ pc[a] \in StageCall => \A i \in LoadStages(p) : i < stage[a] => i \in done
      /\ pc[a] = "complete_stage" /\ stage[a] \in LoadStages(p) => stage[a] \in done
      /\ pc[a] \in {"complete_batch", "complete_run"} => LoadStages(p) \subseteq done

LEMMA LoadStageNumbers ==
  ASSUME TypeOK, NEW a \in Attempt, NEW i \in LoadStages(job[a].pipeline)
  PROVE  i \in Nat \ {0} /\ i <= LastStage(a) /\ LastStage(a) \in Nat /\ i \in StageNo
<1>1. job[a].pipeline \in Pipeline
  BY WrittenRows
<1>2. PICK n \in Nat : n = Len(Plan[job[a].pipeline])
  BY <1>1, PlanStages
<1>3. i \in 1 .. n /\ i \in StageNo
  BY <1>1, <1>2, PlanStages
<1>4. QED
  BY <1>2, <1>3 DEF LastStage

\* What has been loaded grows by the stage whose body commits, and only there.
LEMMA LoadedGrows ==
  ASSUME TypeOK, NEW a \in Attempt, Step(a) \/ Crash(a)
  PROVE  \/ loaded' = loaded
         \/ /\ pc[a] = "body"
            /\ stage[a] \in LoadStages(job[a].pipeline)
            /\ loaded' = [loaded EXCEPT ![job[a].batch] = @ \cup {stage[a]}]
<1> DEFINE Goal == \/ loaded' = loaded
                   \/ /\ pc[a] = "body"
                      /\ stage[a] \in LoadStages(job[a].pipeline)
                      /\ loaded' = [loaded EXCEPT ![job[a].batch] = @ \cup {stage[a]}]
<1>1. ASSUME StartRun(a) PROVE Goal
  BY <1>1 DEF StartRun
<1>2. ASSUME BeginOrRetryBatch(a) PROVE Goal
  BY <1>2 DEF BeginOrRetryBatch
<1>3. ASSUME RejectBatch(a) PROVE Goal
  BY <1>3 DEF RejectBatch, tables
<1>4. ASSUME StartStage(a) PROVE Goal
  BY <1>4 DEF StartStage
<1>5. ASSUME StageBody(a) PROVE Goal
  BY <1>5 DEF StageBody
<1>6. ASSUME CompleteStage(a) PROVE Goal
  BY <1>6 DEF CompleteStage
<1>7. ASSUME FailStage(a) PROVE Goal
  BY <1>7 DEF FailStage
<1>8. ASSUME CheckInvalidRate(a) PROVE Goal
  BY <1>8 DEF CheckInvalidRate, tables
<1>9. ASSUME CompleteBatch(a) PROVE Goal
  BY <1>9 DEF CompleteBatch
<1>10. ASSUME CompleteRun(a) PROVE Goal
  BY <1>10 DEF CompleteRun
<1>11. ASSUME FailBatch(a) PROVE Goal
  BY <1>11 DEF FailBatch
<1>12. ASSUME FailRun(a) PROVE Goal
  BY <1>12 DEF FailRun
<1>13. ASSUME Crash(a) PROVE Goal
  BY <1>13 DEF Crash, tables
<1>14. QED
  BY <1>1, <1>2, <1>3, <1>4, <1>5, <1>6, <1>7, <1>8, <1>9, <1>10, <1>11, <1>12, <1>13 DEF Step

\* The attempt that takes the step keeps track of what is loaded.
LEMMA OwnLoadProgress ==
  ASSUME TypeOK, StageInPlan, NEW a \in Attempt, LoadProgressOf(a), Step(a) \/ Crash(a)
  PROVE  LoadProgressOf(a)'
<1>0. /\ job' = job /\ loaded[job[a].batch] \subseteq loaded'[job[a].batch]
      /\ \A i \in LoadStages(job[a].pipeline) : i \in Nat \ {0}
  BY StepFrame, LoadStageNumbers, WrittenRows DEF Frame
<1> USE <1>0, HandlerCall DEF Goto, TypeOK, LoadProgressOf, StageCall
<1>1. ASSUME StartRun(a) PROVE LoadProgressOf(a)'
  BY <1>1 DEF StartRun
<1>2. ASSUME BeginOrRetryBatch(a) PROVE LoadProgressOf(a)'
  <2>1. stage'[a] = 1 /\ pc'[a] \in {"start_stage", "fail_batch", "fail_run"}
    BY <1>2 DEF BeginOrRetryBatch, StageInPlan
  <2>2. QED
    BY <2>1
<1>3. ASSUME RejectBatch(a) PROVE LoadProgressOf(a)'
  BY <1>3 DEF RejectBatch
<1>4. ASSUME StartStage(a) PROVE LoadProgressOf(a)'
  BY <1>4 DEF StartStage
<1>5. ASSUME StageBody(a) PROVE LoadProgressOf(a)'
  <2>1. pc[a] = "body" /\ stage' = stage
    BY <1>5 DEF StageBody
  <2>2. CASE pc'[a] = "fail_stage"
    BY <2>1, <2>2
  <2>3. CASE pc'[a] = "complete_stage"
    <3>1. stage[a] \in LoadStages(job[a].pipeline) => stage[a] \in loaded'[job[a].batch]
      BY <1>5, <2>3 DEF StageBody, AfterBody
    <3>2. QED
      BY <2>1, <2>3, <3>1
  <2>4. QED
    BY <1>5, <2>2, <2>3 DEF StageBody, AfterBody
<1>6. ASSUME CompleteStage(a) PROVE LoadProgressOf(a)'
  <2>1. pc[a] = "complete_stage" /\ stage[a] <= LastStage(a) /\ loaded' = loaded
    BY <1>6 DEF CompleteStage, StageInPlan
  <2>2. ASSUME NEW j \in Following(a), stage' = [stage EXCEPT ![a] = j],
               pc' = [pc EXCEPT ![a] = AfterStage(a, j)]
        PROVE  LoadProgressOf(a)'
    <3>1. \A i \in LoadStages(job[a].pipeline) : i < j => i \in loaded[job[a].batch]
      <4> SUFFICES ASSUME NEW i \in LoadStages(job[a].pipeline), i < j
                   PROVE  i \in loaded[job[a].batch]
        OBVIOUS
      <4>1. i = stage[a] \/ i < stage[a]
        BY <2>1, FollowingStage
      <4>2. CASE i = stage[a]
        BY <2>1, <4>2
      <4>3. CASE i < stage[a]
        BY <2>1, <4>3
      <4>4. QED
        BY <4>1, <4>2, <4>3
    <3>2. j > LastStage(a) => LoadStages(job[a].pipeline) \subseteq loaded[job[a].batch]
      BY <3>1, LoadStageNumbers, FollowingStage, <2>1
    <3>3. stage'[a] = j /\ pc'[a] = AfterStage(a, j)
      BY <2>2
    <3>4. AfterStage(a, j) \in {"check_rate", "start_stage"}
            \/ (AfterStage(a, j) = "complete_batch" /\ j > LastStage(a))
      BY DEF AfterStage
    <3>5. QED
      BY <2>1, <3>1, <3>2, <3>3, <3>4
  <2>3. QED
    BY <1>6, <2>1, <2>2 DEF CompleteStage
<1>7. ASSUME FailStage(a) PROVE LoadProgressOf(a)'
  BY <1>7 DEF FailStage
<1>8. ASSUME CheckInvalidRate(a) PROVE LoadProgressOf(a)'
  BY <1>8 DEF CheckInvalidRate
<1>9. ASSUME CompleteBatch(a) PROVE LoadProgressOf(a)'
  BY <1>9 DEF CompleteBatch
<1>10. ASSUME CompleteRun(a) PROVE LoadProgressOf(a)'
  BY <1>10 DEF CompleteRun
<1>11. ASSUME FailBatch(a) PROVE LoadProgressOf(a)'
  BY <1>11 DEF FailBatch
<1>12. ASSUME FailRun(a) PROVE LoadProgressOf(a)'
  BY <1>12 DEF FailRun
<1>13. ASSUME Crash(a) PROVE LoadProgressOf(a)'
  BY <1>13 DEF Crash
<1>14. QED
  BY <1>1, <1>2, <1>3, <1>4, <1>5, <1>6, <1>7, <1>8, <1>9, <1>10, <1>11, <1>12, <1>13 DEF Step

\* The four things a step can do to the row of its batch.
RowChange(a) ==
  LET row == batches[job[a].batch]
      new == batches'[job[a].batch]
  IN  \/ new = row
      \/ /\ Claims(a)
         /\ new = [pipeline |-> job[a].pipeline, status |-> "RUNNING"]
      \/ /\ pc[a] = "complete_batch"
         /\ new.pipeline = row.pipeline /\ new.status = "SUCCESS"
      \/ /\ pc[a] = "fail_batch"
         /\ new.pipeline = row.pipeline /\ new.status = "FAILED"

LEMMA StepRowChange ==
  ASSUME TypeOK, HeldRow, NEW a \in Attempt, Step(a) \/ Crash(a)
  PROVE  RowChange(a)
<1>0. job[a].batch \in Batch /\ HeldRowOf(a)
  BY WrittenRows, HeldRowParts
<1> USE DEF RowChange, Goto
<1>1. ASSUME StartRun(a) PROVE RowChange(a)
  BY <1>1 DEF StartRun
<1>2. ASSUME BeginOrRetryBatch(a) PROVE RowChange(a)
  BY <1>0, <1>2 DEF BeginOrRetryBatch, Claims, TypeOK
<1>3. ASSUME RejectBatch(a) PROVE RowChange(a)
  BY <1>3 DEF RejectBatch, tables
<1>4. ASSUME StartStage(a) PROVE RowChange(a)
  BY <1>4 DEF StartStage
<1>5. ASSUME StageBody(a) PROVE RowChange(a)
  BY <1>5 DEF StageBody
<1>6. ASSUME CompleteStage(a) PROVE RowChange(a)
  BY <1>6 DEF CompleteStage
<1>7. ASSUME FailStage(a) PROVE RowChange(a)
  BY <1>7 DEF FailStage
<1>8. ASSUME CheckInvalidRate(a) PROVE RowChange(a)
  BY <1>8 DEF CheckInvalidRate, tables
<1>9. ASSUME CompleteBatch(a) PROVE RowChange(a)
  <2>1. batches' = batches \/ batches' = [batches EXCEPT ![job[a].batch].status = "SUCCESS"]
    BY <1>9 DEF CompleteBatch, SetBatch
  <2>2. batches[job[a].batch].status # "none"
    BY <1>0, <1>9 DEF CompleteBatch, HeldRowOf
  <2>3. QED
    BY <1>0, <1>9, <2>1, <2>2, ReportedFields DEF CompleteBatch
<1>10. ASSUME CompleteRun(a) PROVE RowChange(a)
  BY <1>10 DEF CompleteRun
<1>11. ASSUME FailBatch(a) PROVE RowChange(a)
  <2>1. batches' = batches \/ batches' = [batches EXCEPT ![job[a].batch].status = "FAILED"]
    BY <1>11 DEF FailBatch, SetBatch
  <2>2. batches[job[a].batch].status # "none"
    BY <1>0, <1>11 DEF FailBatch, HeldRowOf
  <2>3. QED
    BY <1>0, <1>11, <2>1, <2>2, ReportedFields DEF FailBatch
<1>12. ASSUME FailRun(a) PROVE RowChange(a)
  BY <1>12 DEF FailRun
<1>13. ASSUME Crash(a) PROVE RowChange(a)
  BY <1>13 DEF Crash, tables
<1>14. QED
  BY <1>1, <1>2, <1>3, <1>4, <1>5, <1>6, <1>7, <1>8, <1>9, <1>10, <1>11, <1>12, <1>13 DEF Step

LEMMA InitLoadInv == Init => LoadInv
<1> SUFFICES ASSUME Init PROVE LoadInv
  OBVIOUS
<1>1. LoadProgress /\ NothingLoadedUnclaimed /\ SuccessMeansLoaded /\ LoadsInOrder
  BY DEF Init, LoadProgress, NothingLoadedUnclaimed, SuccessMeansLoaded, LoadsInOrder, NoBatch,
         StageCall
<1>2. QED
  BY <1>1, InitClaimInv DEF LoadInv

LEMMA StepLoadInv ==
  ASSUME LoadInv, NEW a \in Attempt, Step(a) \/ Crash(a)
  PROVE  LoadProgress' /\ NothingLoadedUnclaimed' /\ SuccessMeansLoaded' /\ LoadsInOrder'
<1> DEFINE own == job[a].batch
           p == job[a].pipeline
<1>1. TypeOK /\ StageInPlan /\ HeldRow /\ HeldRowOf(a) /\ LoadProgressOf(a)
  BY HeldRowParts DEF LoadInv, ClaimInv, LoadProgress, LoadProgressOf
<1>2. Frame(a) /\ RowChange(a)
  BY <1>1, StepFrame, StepRowChange
<1>3. own \in Batch /\ p \in Pipeline
  BY <1>1, WrittenRows
<1>4. LoadProgress'
  <2>1. ASSUME NEW x \in Attempt PROVE LoadProgressOf(x)'
    <3>1. CASE x = a
      BY <1>1, <3>1, OwnLoadProgress
    <3>2. CASE x # a
      <4>1. LoadProgressOf(x) /\ loaded[job[x].batch] \subseteq loaded'[job[x].batch]
        BY <1>1, <1>2, WrittenRows DEF LoadInv, LoadProgress, LoadProgressOf, Frame
      <4>2. QED
        BY <1>2, <3>2, <4>1 DEF Frame, LoadProgressOf
    <3>3. QED
      BY <3>1, <3>2
  <2>2. QED
    BY <2>1 DEF LoadProgress, LoadProgressOf
<1>5. CASE pc[a] = "body"
  <2>1. batches'[own] = batches[own] /\ batches[own].pipeline = p /\ batches[own] # NoBatch
    BY <1>1, <1>2, <1>5 DEF RowChange, Claims, HeldRowOf, Keeping, OwnerCall, StageCall, NoBatch
  <2>2. NothingLoadedUnclaimed' /\ SuccessMeansLoaded'
    BY <1>2, <2>1 DEF LoadInv, Frame, NothingLoadedUnclaimed, SuccessMeansLoaded
  <2>3. ASSUME NEW b \in Batch, NEW i \in loaded'[b],
               NEW j \in LoadStages(batches'[b].pipeline), j < i
        PROVE  j \in loaded'[b]
    <3>1. CASE b # own \/ i \in loaded[b]
      BY <1>2, <2>1, <2>3, <3>1 DEF LoadInv, Frame, LoadsInOrder
    <3>2. CASE b = own /\ i \notin loaded[b]
      <4>1. i = stage[a]
        BY <1>1, <1>3, <2>3, <3>2, LoadedGrows DEF TypeOK
      <4>2. j \in loaded[b]
        BY <1>1, <1>5, <2>1, <2>3, <3>2, <4>1 DEF LoadProgressOf, StageCall
      <4>3. QED
        BY <1>2, <4>2 DEF Frame
    <3>3. QED
      BY <3>1, <3>2
  <2>4. QED
    BY <1>4, <2>2, <2>3 DEF LoadsInOrder
<1>6. CASE pc[a] # "body"
  <2>1. loaded' = loaded
    BY <1>1, <1>6, LoadedGrows
  <2>2. batches'[own] = NoBatch => batches[own] = NoBatch
    BY <1>2 DEF RowChange, NoBatch
  <2>3. NothingLoadedUnclaimed'
    BY <1>2, <2>1, <2>2 DEF LoadInv, Frame, NothingLoadedUnclaimed
  <2>4. batches'[own].status = "SUCCESS" =>
          LoadStages(batches'[own].pipeline) \subseteq loaded[own]
    BY <1>1, <1>2, <1>3 DEF RowChange, LoadInv, SuccessMeansLoaded, LoadProgressOf, HeldRowOf,
                            Keeping, OwnerCall
  <2>5. SuccessMeansLoaded'
    BY <1>2, <2>1, <2>4 DEF LoadInv, Frame, SuccessMeansLoaded
  <2>6. loaded[own] = {} \/ batches'[own].pipeline = batches[own].pipeline
    BY <1>2, <1>3 DEF RowChange, Claims, Claimable, LoadInv, NothingLoadedUnclaimed
  <2>7. LoadsInOrder'
    BY <1>2, <2>1, <2>6 DEF LoadInv, Frame, LoadsInOrder
  <2>8. QED
    BY <1>4, <2>3, <2>5, <2>7
<1>7. QED
  BY <1>5, <1>6

LEMMA NextLoadInv ==
  ASSUME LoadInv, [Next]_vars
  PROVE  LoadInv'
<1>1. ClaimInv'
  BY NextClaimInv DEF LoadInv
<1>2. CASE UNCHANGED vars
  BY <1>1, <1>2 DEF vars, LoadInv, LoadProgress, NothingLoadedUnclaimed, SuccessMeansLoaded,
                    LoadsInOrder
<1>3. ASSUME NEW a \in Attempt, Step(a) \/ Crash(a) PROVE LoadInv'
  BY <1>1, <1>3, StepLoadInv DEF LoadInv
<1>4. QED
  BY <1>2, <1>3 DEF Next

LEMMA LoadInvariant == Spec => []LoadInv
BY InitLoadInv, NextLoadInv, PTL DEF Spec

\* A SUCCESS batch has every Bronze and Silver load of its pipeline behind it.
THEOREM SuccessIsBacked == Spec => []SuccessMeansLoaded
<1>1. LoadInv => SuccessMeansLoaded
  BY DEF LoadInv
<1>2. QED
  BY <1>1, LoadInvariant, PTL

\* Over all the attempts at a batch, the loads commit in the order of the plan.
THEOREM LoadsFollowThePlan == Spec => []LoadsInOrder
<1>1. LoadInv => LoadsInOrder
  BY DEF LoadInv
<1>2. QED
  BY <1>1, LoadInvariant, PTL

-----------------------------------------------------------------------------
(***************************************************************************)
(* The monitoring rows as evidence.                                        *)
(***************************************************************************)
\* The parts of RowProgress and StageEvidence that speak of attempt a.
RowProgressOf(a) ==
  /\ runs[a] = "SUCCESS" => pc[a] \in Ended \cup {"fail_batch", "fail_run"}
  /\ pc[a] \in StageCall =>
       \A i \in LoadStages(job[a].pipeline) : i < stage[a] => stageRuns[a][i] = "SUCCESS"
  /\ pc[a] \in {"complete_batch", "complete_run"} =>
       \A i \in LoadStages(job[a].pipeline) : stageRuns[a][i] = "SUCCESS"
  /\ pc[a] = "returned" => runs[a] = "SUCCESS"

StageEvidenceOf(a) ==
  \A i \in LoadStages(job[a].pipeline) :
    /\ stageRuns[a][i] = "SUCCESS" => i \in loaded[job[a].batch]
    /\ runs[a] = "SUCCESS" => stageRuns[a][i] = "SUCCESS"

\* Rewriting the row of the present stage keeps the rows of the others.
LEMMA StageRowUpdate ==
  ASSUME TypeOK, NEW a \in Attempt, stage[a] \in StageNo, NEW s,
         stageRuns' = [stageRuns EXCEPT ![a][stage[a]] = s]
  PROVE  /\ stageRuns'[a][stage[a]] = s
         /\ \A i \in StageNo : i # stage[a] => stageRuns'[a][i] = stageRuns[a][i]
BY DEF TypeOK

\* The attempt that takes the step keeps its rows true.
LEMMA OwnEvidence ==
  ASSUME TypeOK, StageInPlan, NEW a \in Attempt, Step(a) \/ Crash(a),
         LoadProgressOf(a), RowProgressOf(a), StageEvidenceOf(a)
  PROVE  RowProgressOf(a)' /\ StageEvidenceOf(a)'
<1> DEFINE Goal == RowProgressOf(a)' /\ StageEvidenceOf(a)'
<1>0. /\ job' = job /\ loaded[job[a].batch] \subseteq loaded'[job[a].batch]
      /\ \A i \in LoadStages(job[a].pipeline) : i \in Nat \ {0} /\ i \in StageNo
  BY StepFrame, LoadStageNumbers, WrittenRows DEF Frame
<1> USE <1>0, HandlerCall DEF Goto, TypeOK, RowProgressOf, StageEvidenceOf, StageCall, Ended
<1>1. ASSUME StartRun(a) PROVE Goal
  <2>1. runs'[a] = runs[a] \/ runs'[a] = "RUNNING"
    BY <1>1 DEF StartRun
  <2>2. /\ stageRuns' = stageRuns /\ loaded' = loaded
        /\ pc[a] = "start_run" /\ pc'[a] \in {"begin_or_retry_batch", "raised"}
    BY <1>1 DEF StartRun
  <2>3. QED
    BY <2>1, <2>2
<1>2. ASSUME BeginOrRetryBatch(a) PROVE Goal
  <2>1. stage'[a] = 1 /\ pc'[a] \in {"start_stage", "fail_batch", "fail_run"}
    BY <1>2 DEF BeginOrRetryBatch, StageInPlan
  <2>2. QED
    BY <1>2, <2>1 DEF BeginOrRetryBatch
<1>3. ASSUME RejectBatch(a) PROVE Goal
  BY <1>3 DEF RejectBatch, tables
<1>4. ASSUME StartStage(a) PROVE Goal
  <2>1. stageRuns' = stageRuns \/ stageRuns' = [stageRuns EXCEPT ![a][stage[a]] = "RUNNING"]
    BY <1>4 DEF StartStage, SetStage
  <2>2. \A i \in LoadStages(job[a].pipeline) :
          /\ i # stage[a] => stageRuns'[a][i] = stageRuns[a][i]
          /\ stageRuns'[a][i] = stageRuns[a][i] \/ stageRuns'[a][i] = "RUNNING"
    BY <2>1
  <2>3. /\ pc[a] = "start_stage" /\ pc'[a] \in {"body", "fail_batch", "fail_run"}
        /\ runs' = runs /\ stage' = stage /\ loaded' = loaded
    BY <1>4 DEF StartStage
  <2>4. RowProgressOf(a)'
    BY <2>2, <2>3
  <2>5. QED
    BY <2>2, <2>3, <2>4
<1>5. ASSUME StageBody(a) PROVE Goal
  BY <1>5 DEF StageBody, AfterBody
<1>6. ASSUME CompleteStage(a) PROVE Goal
  <2>1. /\ pc[a] = "complete_stage" /\ stage[a] <= LastStage(a)
        /\ loaded' = loaded /\ runs' = runs
    BY <1>6 DEF CompleteStage, StageInPlan
  <2>2. stageRuns' = stageRuns \/ stageRuns' = [stageRuns EXCEPT ![a][stage[a]] = "SUCCESS"]
    BY <1>6 DEF CompleteStage, SetStage
  <2>3. \A i \in LoadStages(job[a].pipeline) :
          /\ i # stage[a] => stageRuns'[a][i] = stageRuns[a][i]
          /\ stageRuns'[a][i] = stageRuns[a][i] \/ stageRuns'[a][i] = "SUCCESS"
    BY <2>2
  <2>4. StageEvidenceOf(a)'
    BY <2>1, <2>3 DEF LoadProgressOf
  <2>5. ASSUME NEW j \in Following(a), stage' = [stage EXCEPT ![a] = j],
               pc' = [pc EXCEPT ![a] = AfterStage(a, j)],
               stageRuns' = [stageRuns EXCEPT ![a][stage[a]] = "SUCCESS"]
        PROVE  RowProgressOf(a)'
    <3>1. \A i \in LoadStages(job[a].pipeline) : i < j => stageRuns'[a][i] = "SUCCESS"
      <4> SUFFICES ASSUME NEW i \in LoadStages(job[a].pipeline), i < j
                   PROVE  stageRuns'[a][i] = "SUCCESS"
        OBVIOUS
      <4>1. i = stage[a] \/ i < stage[a]
        BY <2>1, FollowingStage
      <4>2. CASE i = stage[a]
        BY <2>5, <4>2
      <4>3. CASE i # stage[a]
        BY <2>1, <2>3, <4>1, <4>3
      <4>4. QED
        BY <4>2, <4>3
    <3>2. j > LastStage(a) => \A i \in LoadStages(job[a].pipeline) : stageRuns'[a][i] = "SUCCESS"
      BY <3>1, LoadStageNumbers, FollowingStage, <2>1
    <3>3. stage'[a] = j /\ pc'[a] = AfterStage(a, j)
      BY <2>5
    <3>4. AfterStage(a, j) \in {"check_rate", "start_stage"}
            \/ (AfterStage(a, j) = "complete_batch" /\ j > LastStage(a))
      BY DEF AfterStage
    <3>5. QED
      BY <2>1, <3>1, <3>2, <3>3, <3>4
  <2>6. pc'[a] \in {"fail_batch", "fail_run"} => RowProgressOf(a)'
    BY <2>1
  <2>7. RowProgressOf(a)'
    BY <1>6, <2>5, <2>6 DEF CompleteStage, SetStage
  <2>8. QED
    BY <2>4, <2>7
<1>7. ASSUME FailStage(a) PROVE Goal
  <2>1. stageRuns' = stageRuns \/ stageRuns' = [stageRuns EXCEPT ![a][stage[a]] = "FAILED"]
    BY <1>7 DEF FailStage, SetStage
  <2>2. \A i \in LoadStages(job[a].pipeline) :
          stageRuns'[a][i] = stageRuns[a][i] \/ stageRuns'[a][i] = "FAILED"
    BY <2>1
  <2>3. pc'[a] \in {"fail_batch", "fail_run"} /\ runs' = runs /\ pc[a] = "fail_stage"
    BY <1>7 DEF FailStage
  <2>4. QED
    BY <2>2, <2>3
<1>8. ASSUME CheckInvalidRate(a) PROVE Goal
  BY <1>8 DEF CheckInvalidRate, tables
<1>9. ASSUME CompleteBatch(a) PROVE Goal
  BY <1>9 DEF CompleteBatch
<1>10. ASSUME CompleteRun(a) PROVE Goal
  <2>1. /\ pc[a] = "complete_run" /\ stageRuns' = stageRuns /\ loaded' = loaded
        /\ \/ pc'[a] = "returned" /\ runs'[a] = "SUCCESS"
           \/ pc'[a] \in {"fail_batch", "fail_run"}
    BY <1>10 DEF CompleteRun, SetRun
  <2>2. QED
    BY <2>1
<1>11. ASSUME FailBatch(a) PROVE Goal
  BY <1>11 DEF FailBatch
<1>12. ASSUME FailRun(a) PROVE Goal
  BY <1>12 DEF FailRun, SetRun
<1>13. ASSUME Crash(a) PROVE Goal
  BY <1>13 DEF Crash, tables
<1>14. QED
  BY <1>1, <1>2, <1>3, <1>4, <1>5, <1>6, <1>7, <1>8, <1>9, <1>10, <1>11, <1>12, <1>13 DEF Step

LEMMA InitEvidenceInv == Init => EvidenceInv
<1> SUFFICES ASSUME Init PROVE EvidenceInv
  OBVIOUS
<1>1. RowProgress
  BY DEF Init, RowProgress, StageCall
<1>2. StageEvidence
  <2> SUFFICES ASSUME NEW a \in Attempt, NEW i \in LoadStages(job[a].pipeline)
               PROVE  stageRuns[a][i] # "SUCCESS" /\ runs[a] # "SUCCESS"
    BY DEF StageEvidence
  <2>1. i \in StageNo
    BY InitTypeOK, LoadStageNumbers
  <2>2. QED
    BY <2>1 DEF Init
<1>3. QED
  BY <1>1, <1>2, InitLoadInv DEF EvidenceInv

LEMMA NextEvidenceInv ==
  ASSUME EvidenceInv, [Next]_vars
  PROVE  EvidenceInv'
<1>1. LoadInv'
  BY NextLoadInv DEF EvidenceInv
<1>2. CASE UNCHANGED vars
  BY <1>1, <1>2 DEF vars, EvidenceInv, RowProgress, StageEvidence
<1>3. ASSUME NEW a \in Attempt, Step(a) \/ Crash(a) PROVE EvidenceInv'
  <2>1. ASSUME NEW x \in Attempt PROVE RowProgressOf(x)' /\ StageEvidenceOf(x)'
    <3>1. /\ TypeOK /\ StageInPlan /\ LoadProgressOf(x) /\ RowProgressOf(x)
          /\ StageEvidenceOf(x) /\ job[x].batch \in Batch
      BY WrittenRows DEF EvidenceInv, LoadInv, ClaimInv, LoadProgress, LoadProgressOf, RowProgress,
                         RowProgressOf, StageEvidence, StageEvidenceOf
    <3>2. CASE x = a
      BY <1>3, <3>1, <3>2, OwnEvidence
    <3>3. CASE x # a
      BY <1>3, <3>1, <3>3, StepFrame DEF Frame, RowProgressOf, StageEvidenceOf
    <3>4. QED
      BY <3>2, <3>3
  <2>2. RowProgress' /\ StageEvidence'
    BY <2>1 DEF RowProgress, RowProgressOf, StageEvidence, StageEvidenceOf
  <2>3. QED
    BY <1>1, <2>2 DEF EvidenceInv
<1>4. QED
  BY <1>2, <1>3 DEF Next

LEMMA EvidenceInvariant == Spec => []EvidenceInv
BY InitEvidenceInv, NextEvidenceInv, PTL DEF Spec

\* A stage or a run that is recorded SUCCESS did load what it says.
THEOREM RowsAreEvidence == Spec => []StageEvidence
<1>1. EvidenceInv => StageEvidence
  BY DEF EvidenceInv
<1>2. QED
  BY <1>1, EvidenceInvariant, PTL

\* What a caller was told by a normal return stays true.
THEOREM ReturnsAreDurable == Spec => []ReturnIsDurable
<1>1. ASSUME EvidenceInv PROVE ReturnIsDurable
  <2>1. TypeOK /\ HeldRow /\ RowProgress
    BY <1>1 DEF EvidenceInv, LoadInv, ClaimInv
  <2> SUFFICES ASSUME NEW a \in Attempt, pc[a] = "returned"
               PROVE  /\ batches[job[a].batch] = [pipeline |-> job[a].pipeline, status |-> "SUCCESS"]
                      /\ runs[a] = "SUCCESS"
    BY DEF ReturnIsDurable
  <2>2. /\ batches[job[a].batch].pipeline = job[a].pipeline
        /\ batches[job[a].batch].status = "SUCCESS"
    BY <2>1 DEF HeldRow
  <2>3. batches[job[a].batch] \in BatchRow
    BY <2>1, <2>2, WrittenRows DEF TypeOK, NoBatch
  <2>4. QED
    BY <2>1, <2>2, <2>3 DEF BatchRow, RowProgress
<1>2. QED
  BY <1>1, EvidenceInvariant, PTL

-----------------------------------------------------------------------------
(***************************************************************************)
(* Marking a failed run.                                                   *)
(***************************************************************************)
\* The calls that can keep a run from being marked FAILED do not fail: they open a
\* run before the try block, or are the handler's own.
HandlerWorks == \A call \in {"start_run", "fail_batch", "fail_run"} : Outcomes(call) = {"ok"}

LEMMA MarkedStep ==
  ASSUME TypeOK, HandlerWorks, RaisedRunIsMarkedFailed, [Next]_vars
  PROVE  RaisedRunIsMarkedFailed'
<1>1. CASE UNCHANGED vars
  BY <1>1 DEF vars, RaisedRunIsMarkedFailed
<1>2. ASSUME NEW a \in Attempt, Step(a) \/ Crash(a) PROVE RaisedRunIsMarkedFailed'
  <2>1. Frame(a)
    BY <1>2, StepFrame
  <2>2. pc[a] \notin Ended
    BY <1>2 DEF Step, Crash, StartRun, BeginOrRetryBatch, RejectBatch, StartStage, StageBody,
       CompleteStage, FailStage, CheckInvalidRate, CompleteBatch, CompleteRun, FailBatch, FailRun, Ended
  <2>3. ASSUME pc'[a] = "raised" PROVE runs'[a] = "FAILED"
    <3>1. CASE FailRun(a)
      BY <3>1 DEF FailRun, HandlerWorks, SetRun, TypeOK
    <3>2. CASE StartRun(a)
      BY <2>3, <3>2 DEF StartRun, HandlerWorks, Goto, TypeOK
    <3>3. CASE FailBatch(a)
      BY <2>3, <3>3 DEF FailBatch, HandlerWorks, Goto, TypeOK
    <3>4. CASE BeginOrRetryBatch(a) \/ RejectBatch(a) \/ StartStage(a) \/ FailStage(a)
      BY <2>3, <3>4 DEF BeginOrRetryBatch, RejectBatch, StartStage, FailStage, Handler, Goto, TypeOK
    <3>5. CASE StageBody(a) \/ CheckInvalidRate(a) \/ CompleteBatch(a) \/ CompleteRun(a) \/ Crash(a)
      BY <2>3, <3>5 DEF StageBody, AfterBody, CheckInvalidRate, CompleteBatch, CompleteRun, Crash,
         Handler, Goto, TypeOK
    <3>6. CASE CompleteStage(a)
      BY <2>3, <3>6 DEF CompleteStage, AfterStage, Handler, Goto, TypeOK
    <3>7. QED
      BY <1>2, <3>1, <3>2, <3>3, <3>4, <3>5, <3>6 DEF Step
  <2>4. QED
    BY <2>1, <2>3 DEF Frame, RaisedRunIsMarkedFailed
<1>3. QED
  BY <1>1, <1>2 DEF Next

\* As long as the calls of the handler do not fail themselves, an attempt that
\* raises has marked its run FAILED, whatever else fails.
THEOREM RaisedRunsAreMarked ==
  ASSUME HandlerWorks
  PROVE  Spec => []RaisedRunIsMarkedFailed
<1>1. Init => RaisedRunIsMarkedFailed
  BY DEF Init, RaisedRunIsMarkedFailed
<1>2. RaisedRunIsMarkedFailed /\ TypeOK /\ [Next]_vars => RaisedRunIsMarkedFailed'
  BY MarkedStep
<1>3. QED
  BY <1>1, <1>2, TypeCorrect, PTL DEF Spec

-----------------------------------------------------------------------------
(***************************************************************************)
(* An attempt comes to its end in so many calls.                           *)
(***************************************************************************)
\* The calls that are left in the try block or in its handler.
CallsLeft == [check_rate |-> 4, start_stage |-> 3, body |-> 2, complete_stage |-> 1, fail_stage |-> 1,
              complete_batch |-> 4, complete_run |-> 3, fail_batch |-> 2, fail_run |-> 1,
              returned |-> 0, raised |-> 0, crashed |-> 0]

\* A bound on the calls attempt a has still to make: at most five for each stage of
\* its plan, and four to report.
Remaining(a) ==
  IF pc[a] = "start_run" THEN 5 * LastStage(a) + 9
  ELSE IF pc[a] = "begin_or_retry_batch" THEN 5 * LastStage(a) + 8
  ELSE CallsLeft[pc[a]] +
       (IF pc[a] \in StageCall THEN 5 * (LastStage(a) - stage[a]) + 4 ELSE 0)

\* Every step is a call of one attempt that brings it nearer to its end, and that
\* neither sends it back nor keeps another one from its own: there is no loop and no
\* retry inside an attempt, however it is disturbed.
EveryCallAdvances ==
  [][\E a \in Attempt :
       /\ Remaining(a)' < Remaining(a)
       /\ \A x \in Attempt \ {a} : Remaining(x)' = Remaining(x)]_vars

LEMMA RemainingIsNat ==
  ASSUME TypeOK, StageInPlan, NEW a \in Attempt
  PROVE  /\ Remaining(a) \in Nat
         /\ LastStage(a) \in Nat \ {0}
         /\ pc[a] \in StageCall => Remaining(a) > 4
         /\ Remaining(a) = 0 <=> pc[a] \in Ended
<1>1. LastStage(a) \in Nat \ {0}
  BY WrittenRows, PlanStages DEF LastStage
<1>2. stage[a] \in Nat \ {0}
  BY DEF TypeOK
<1>3. CASE pc[a] \in StageCall
  <2>1. stage[a] <= LastStage(a) /\ CallsLeft[pc[a]] \in 1 .. 4
    BY <1>3 DEF StageInPlan, StageCall, CallsLeft
  <2>2. Remaining(a) = CallsLeft[pc[a]] + 5 * (LastStage(a) - stage[a]) + 4
    BY <1>3, <2>1, <1>1, <1>2 DEF Remaining, StageCall
  <2>3. QED
    BY <1>1, <1>2, <1>3, <2>1, <2>2 DEF StageCall, Ended
<1>4. CASE pc[a] \notin StageCall
  <2>1. pc[a] \in {"complete_batch", "complete_run", "fail_batch", "fail_run"} \cup Ended
        \/ pc[a] \in {"start_run", "begin_or_retry_batch"}
    BY <1>4 DEF TypeOK, Call, OwnerCall, StageCall
  <2>2. QED
    BY <1>1, <1>4, <2>1 DEF Remaining, CallsLeft, Ended
<1>5. QED
  BY <1>3, <1>4

LEMMA CallAdvances ==
  ASSUME ClaimInv, ClaimInv', NEW a \in Attempt, Step(a) \/ Crash(a)
  PROVE  Remaining(a)' < Remaining(a)
<1> DEFINE L == LastStage(a)
<1>1. /\ TypeOK /\ StageInPlan /\ TypeOK' /\ StageInPlan' /\ ClaimFlag
      /\ Frame(a) /\ L \in Nat \ {0} /\ LastStage(a)' = L
      /\ stage[a] \in Nat \ {0} /\ stage'[a] \in Nat \ {0}
  BY StepFrame, RemainingIsNat DEF ClaimInv, TypeOK, Frame, LastStage
<1> HIDE DEF L
<1>2. \/ pc[a] = "start_run" /\ Remaining(a) = 5 * L + 9
      \/ pc[a] = "begin_or_retry_batch" /\ Remaining(a) = 5 * L + 8
      \/ pc[a] \in StageCall /\ Remaining(a) = CallsLeft[pc[a]] + 5 * (L - stage[a]) + 4
                            /\ CallsLeft[pc[a]] \in 1 .. 4 /\ stage[a] <= L
      \/ pc[a] \in {"complete_batch", "complete_run", "fail_batch", "fail_run"}
         /\ Remaining(a) = CallsLeft[pc[a]]
      \/ pc[a] \in Ended
  BY <1>1 DEF Remaining, TypeOK, Call, OwnerCall, StageCall, CallsLeft, StageInPlan, L, Ended
<1>3. \/ pc'[a] = "begin_or_retry_batch" /\ Remaining(a)' = 5 * L + 8
      \/ pc'[a] \in StageCall /\ Remaining(a)' = CallsLeft[pc'[a]] + 5 * (L - stage'[a]) + 4
                             /\ CallsLeft[pc'[a]] \in 1 .. 4 /\ stage'[a] <= L
      \/ pc'[a] \in {"complete_batch", "complete_run", "fail_batch", "fail_run"} \cup Ended
         /\ Remaining(a)' = CallsLeft[pc'[a]]
      \/ pc'[a] = "start_run"
  BY <1>1 DEF Remaining, TypeOK, Call, OwnerCall, StageCall, CallsLeft, StageInPlan, L, Ended
<1> USE DEF CallsLeft, StageCall, Ended, Goto, TypeOK, Handler, ClaimFlag, OwnerCall
<1>4. CASE StartRun(a)
  BY <1>1, <1>2, <1>3, <1>4 DEF StartRun
<1>5. CASE BeginOrRetryBatch(a)
  <2>1. pc'[a] \in {"start_stage", "fail_run"} /\ stage'[a] = 1
    BY <1>1, <1>5 DEF BeginOrRetryBatch, StageInPlan
  <2>2. QED
    BY <1>1, <1>2, <1>3, <1>5, <2>1 DEF BeginOrRetryBatch
<1>6. CASE RejectBatch(a)
  BY <1>1, <1>2, <1>3, <1>6 DEF RejectBatch
<1>7. CASE StartStage(a)
  BY <1>1, <1>2, <1>3, <1>7 DEF StartStage
<1>8. CASE StageBody(a)
  BY <1>1, <1>2, <1>3, <1>8 DEF StageBody, AfterBody
<1>9. CASE CompleteStage(a)
  <2>1. \/ pc'[a] \in {"fail_batch", "fail_run"}
        \/ /\ pc'[a] \in {"check_rate", "start_stage", "complete_batch"}
           /\ stage[a] < stage'[a]
    <3>1. \A j \in Following(a) : stage[a] < j
      BY <1>1, <1>9, FollowingStage DEF CompleteStage, StageInPlan
    <3>2. QED
      BY <1>1, <1>9, <3>1 DEF CompleteStage, AfterStage
  <2>2. QED
    BY <1>1, <1>2, <1>3, <1>9, <2>1 DEF CompleteStage
<1>10. CASE FailStage(a)
  BY <1>1, <1>2, <1>3, <1>10 DEF FailStage
<1>11. CASE CheckInvalidRate(a)
  BY <1>1, <1>2, <1>3, <1>11 DEF CheckInvalidRate
<1>12. CASE CompleteBatch(a)
  BY <1>1, <1>2, <1>3, <1>12 DEF CompleteBatch
<1>13. CASE CompleteRun(a)
  BY <1>1, <1>2, <1>3, <1>13 DEF CompleteRun
<1>14. CASE FailBatch(a)
  BY <1>1, <1>2, <1>3, <1>14 DEF FailBatch
<1>15. CASE FailRun(a)
  BY <1>1, <1>2, <1>3, <1>15 DEF FailRun
<1>16. CASE Crash(a)
  BY <1>1, <1>2, <1>3, <1>16 DEF Crash
<1>17. QED
  BY <1>4, <1>5, <1>6, <1>7, <1>8, <1>9, <1>10, <1>11, <1>12, <1>13, <1>14, <1>15, <1>16 DEF Step

\* Remaining is a natural number that is 0 only when the attempt has ended, and every
\* call makes it smaller: an attempt makes at most 5 * LastStage(a) + 9 calls.
THEOREM CallsRunOut ==
  Spec => /\ [](\A a \in Attempt : Remaining(a) \in Nat /\ (Remaining(a) = 0 <=> pc[a] \in Ended))
          /\ EveryCallAdvances
<1> DEFINE Counted == \A a \in Attempt : Remaining(a) \in Nat /\ (Remaining(a) = 0 <=> pc[a] \in Ended)
           Advances == \E a \in Attempt : /\ Remaining(a)' < Remaining(a)
                                          /\ \A x \in Attempt \ {a} : Remaining(x)' = Remaining(x)
<1>1. ClaimInv => Counted
  BY RemainingIsNat DEF ClaimInv
<1>2. ASSUME ClaimInv, ClaimInv', [Next]_vars PROVE [Advances]_vars
  <2>1. ASSUME NEW a \in Attempt, Step(a) \/ Crash(a) PROVE Advances
    <3>1. Remaining(a)' < Remaining(a)
      BY <1>2, <2>1, CallAdvances
    <3>2. \A x \in Attempt \ {a} : Remaining(x)' = Remaining(x)
      BY <1>2, <2>1, StepFrame DEF ClaimInv, Frame, Remaining, LastStage
    <3>3. QED
      BY <3>1, <3>2
  <2>2. QED
    BY <1>2, <2>1 DEF Next
<1>3. QED
  BY <1>1, <1>2, ClaimInvariant, PTL DEF Spec, EveryCallAdvances

-----------------------------------------------------------------------------
(***************************************************************************)
(* Taking a SUCCESS back.                                                  *)
(***************************************************************************)
\* A SUCCESS row is changed by its own attempt only, in the handler, and becomes
\* FAILED although all the loads of the batch are committed; that attempt does not
\* return to its caller.
SuccessTakenBackInHandler ==
  [][\A b \in Batch : batches[b].status = "SUCCESS" /\ batches'[b] # batches[b] =>
       /\ batches'[b].status = "FAILED"
       /\ LoadStages(batches[b].pipeline) \subseteq loaded[b]
       /\ \E a \in Attempt :
            /\ job[a].batch = b /\ pc[a] = "fail_batch"
            /\ pc'[a] \in {"fail_run", "raised"}]_vars

LEMMA SuccessChange ==
  ASSUME LoadInv, NEW a \in Attempt, Step(a) \/ Crash(a), NEW b \in Batch,
         batches[b].status = "SUCCESS", batches'[b] # batches[b]
  PROVE  /\ batches'[b].status = "FAILED"
         /\ LoadStages(batches[b].pipeline) \subseteq loaded[b]
         /\ job[a].batch = b /\ pc[a] = "fail_batch"
         /\ pc'[a] \in {"fail_run", "raised"}
<1>1. TypeOK /\ HeldRow /\ SuccessMeansLoaded
  BY DEF LoadInv, ClaimInv
<1>2. job[a].batch = b
  BY <1>1, StepFrame DEF Frame
<1>3. CASE FailBatch(a)
  BY <1>1, <1>2, <1>3, ReportedFields DEF FailBatch, SetBatch, Goto, TypeOK, SuccessMeansLoaded
<1>4. CASE BeginOrRetryBatch(a)
  BY <1>2, <1>4 DEF BeginOrRetryBatch, Claimable, NoBatch
<1>5. CASE CompleteBatch(a)
  BY <1>1, <1>2, <1>5 DEF CompleteBatch, HeldRow
<1>6. CASE ~(FailBatch(a) \/ BeginOrRetryBatch(a) \/ CompleteBatch(a))
  BY <1>6 DEF Step, Crash, StartRun, RejectBatch, StartStage, StageBody, CompleteStage, FailStage,
     CheckInvalidRate, CompleteRun, FailRun, tables
<1>7. QED
  BY <1>3, <1>4, <1>5, <1>6

\* The handler that follows a completion is the only place where a SUCCESS flips, and
\* what it then calls FAILED is fully loaded.
THEOREM SuccessIsTakenBackOnlyThere == Spec => SuccessTakenBackInHandler
<1> DEFINE Change ==
      \A b \in Batch : batches[b].status = "SUCCESS" /\ batches'[b] # batches[b] =>
        /\ batches'[b].status = "FAILED"
        /\ LoadStages(batches[b].pipeline) \subseteq loaded[b]
        /\ \E a \in Attempt :
             /\ job[a].batch = b /\ pc[a] = "fail_batch"
             /\ pc'[a] \in {"fail_run", "raised"}
<1>1. ASSUME LoadInv, [Next]_vars PROVE [Change]_vars
  BY <1>1, SuccessChange DEF Next
<1>2. QED
  BY <1>1, LoadInvariant, PTL DEF Spec, SuccessTakenBackInHandler

\* What makes a SUCCESS flip: complete_batch whose answer is lost, or a failure of
\* complete_pipeline_run behind it.  Here neither occurs.
CompletionWorks ==
  /\ Outcomes("complete_run") = {"ok"}
  /\ "lost" \notin Outcomes("complete_batch")

\* Then the handler finds its batch RUNNING.
HandlerFindsRunning ==
  \A a \in Attempt : pc[a] = "fail_batch" => batches[job[a].batch].status = "RUNNING"

LEMMA HandlerStep ==
  ASSUME CompletionWorks, ClaimInv, HandlerFindsRunning, [Next]_vars
  PROVE  HandlerFindsRunning'
<1>1. CASE UNCHANGED vars
  BY <1>1 DEF vars, HandlerFindsRunning
<1>2. ASSUME NEW a \in Attempt, Step(a) \/ Crash(a), NEW x \in Attempt, pc'[x] = "fail_batch"
      PROVE  batches'[job'[x].batch].status = "RUNNING"
  <2>1. Frame(a) /\ TypeOK /\ ClaimFlag /\ HeldRowOf(a)
    BY <1>2, StepFrame, HeldRowParts DEF ClaimInv
  <2>2. CASE x # a
    <3>1. pc[x] = "fail_batch"
      BY <1>2, <2>1, <2>2 DEF Frame
    <3>2. batches'[job[x].batch] = batches[job[x].batch]
      BY <1>2, <2>2, <3>1, KeptRowStays DEF Keeping, OwnerCall
    <3>3. QED
      BY <2>1, <3>1, <3>2 DEF Frame, HandlerFindsRunning
  <2>3. CASE x = a
    <3>1. /\ job' = job /\ pc[a] \in StageCall \cup {"complete_batch"}
          /\ batches' = batches
      <4> USE DEF Goto, TypeOK, StageCall, Handler, ClaimFlag, OwnerCall
      <4>1. CASE StartRun(a) \/ RejectBatch(a) \/ FailBatch(a) \/ FailRun(a) \/ Crash(a)
        BY <1>2, <2>1, <2>3, <4>1 DEF StartRun, RejectBatch, FailBatch, FailRun, Crash
      <4>2. CASE BeginOrRetryBatch(a)
        BY <1>2, <2>1, <2>3, <4>2 DEF BeginOrRetryBatch
      <4>3. CASE StartStage(a) \/ StageBody(a) \/ FailStage(a) \/ CheckInvalidRate(a)
        BY <1>2, <2>1, <2>3, <4>3 DEF StartStage, StageBody, AfterBody, FailStage,
           CheckInvalidRate, tables
      <4>4. CASE CompleteStage(a)
        BY <1>2, <2>1, <2>3, <4>4 DEF CompleteStage, AfterStage
      <4>5. CASE CompleteBatch(a)
        <5>1. PICK o \in Outcomes("complete_batch") :
                /\ IF o = "refused" THEN UNCHANGED batches ELSE SetBatch(a, "SUCCESS")
                /\ pc' = [pc EXCEPT ![a] = IF o = "ok" THEN "complete_run" ELSE Handler(a)]
          BY <4>5 DEF CompleteBatch
        <5>2. o = "refused"
          BY <1>2, <2>1, <2>3, <5>1 DEF CompletionWorks, Outcomes
        <5>3. QED
          BY <4>5, <5>1, <5>2 DEF CompleteBatch
      <4>6. CASE CompleteRun(a)
        BY <1>2, <2>1, <2>3, <4>6 DEF CompleteRun, CompletionWorks
      <4>7. QED
        BY <1>2, <4>1, <4>2, <4>3, <4>4, <4>5, <4>6 DEF Step
    <3>2. QED
      BY <2>1, <2>3, <3>1 DEF HeldRowOf
  <2>4. QED
    BY <2>2, <2>3
<1>3. QED
  BY <1>1, <1>2 DEF Next, HandlerFindsRunning

\* Nothing else makes a SUCCESS flip: if complete_batch answers when it has committed
\* and complete_pipeline_run does not fail, an attempt records the completion of the
\* batch or its failure and never both, whatever else fails and whoever dies.
THEOREM SuccessFlipHasOneCause ==
  ASSUME CompletionWorks
  PROVE  Spec => SuccessIsFinal
<1>1. Init => HandlerFindsRunning
  BY DEF Init, HandlerFindsRunning
<1>2. ClaimInv /\ HandlerFindsRunning /\ [Next]_vars => HandlerFindsRunning'
  BY HandlerStep
<1>3. ASSUME LoadInv, HandlerFindsRunning, [Next]_vars
      PROVE  [\A b \in Batch : batches[b].status = "SUCCESS" => batches'[b] = batches[b]]_vars
  BY <1>3, SuccessChange DEF Next, HandlerFindsRunning
<1>4. QED
  BY <1>1, <1>2, <1>3, ClaimInvariant, LoadInvariant, PTL DEF Spec, SuccessIsFinal

-----------------------------------------------------------------------------
(***************************************************************************)
(* The orchestrators implement the batch lifecycle.                        *)
(***************************************************************************)
\* What a step does to the batches table, and whether its attempt holds its
\* batch before and after it.
Effect(a) ==
  LET b == job[a].batch
      before == pc[a] \in OwnerCall
      after == pc'[a] \in OwnerCall
  IN  \/ batches' = batches /\ before = after
      \/ batches' = batches /\ before /\ ~after
      \/ /\ Claims(a)
         /\ batches' = [batches EXCEPT ![b] = [pipeline |-> job[a].pipeline, status |-> "RUNNING"]]
      \/ /\ before /\ after /\ batches[b].status = "RUNNING"
         /\ batches' = [batches EXCEPT ![b].status = "SUCCESS"]
      \/ /\ before /\ ~after
         /\ batches' = [batches EXCEPT ![b].status = "FAILED"]

LEMMA StepEffect ==
  ASSUME TypeOK, ClaimFlag, HeldRow, NEW a \in Attempt, Step(a) \/ Crash(a)
  PROVE  Effect(a)
<1>0. HeldRowOf(a)
  BY HeldRowParts
<1> USE DEF Effect, Goto, TypeOK, OwnerCall, Handler, ClaimFlag
<1>1. ASSUME StartRun(a) PROVE Effect(a)
  BY <1>1 DEF StartRun
<1>2. ASSUME BeginOrRetryBatch(a) PROVE Effect(a)
  <2>1. ~batchStarted[a] /\ Claims(a) /\ pc[a] = "begin_or_retry_batch"
    BY <1>2 DEF BeginOrRetryBatch, Claims
  <2>2. \/ batches' = batches /\ pc'[a] = "fail_run"
        \/ batches' = [batches EXCEPT ![job[a].batch] =
                         [pipeline |-> job[a].pipeline, status |-> "RUNNING"]]
    BY <1>2, <2>1 DEF BeginOrRetryBatch
  <2>3. QED
    BY <2>1, <2>2
<1>3. ASSUME RejectBatch(a) PROVE Effect(a)
  BY <1>3 DEF RejectBatch, tables
<1>4. ASSUME StartStage(a) PROVE Effect(a)
  BY <1>4 DEF StartStage
<1>5. ASSUME StageBody(a) PROVE Effect(a)
  BY <1>5 DEF StageBody, AfterBody
<1>6. ASSUME CompleteStage(a) PROVE Effect(a)
  BY <1>6 DEF CompleteStage, AfterStage
<1>7. ASSUME FailStage(a) PROVE Effect(a)
  BY <1>7 DEF FailStage
<1>8. ASSUME CheckInvalidRate(a) PROVE Effect(a)
  BY <1>8 DEF CheckInvalidRate, tables
<1>9. ASSUME CompleteBatch(a) PROVE Effect(a)
  <2>1. batches[job[a].batch].status = "RUNNING"
    BY <1>0, <1>9 DEF CompleteBatch, HeldRowOf
  <2>2. QED
    BY <1>9, <2>1 DEF CompleteBatch, SetBatch
<1>10. ASSUME CompleteRun(a) PROVE Effect(a)
  BY <1>10 DEF CompleteRun
<1>11. ASSUME FailBatch(a) PROVE Effect(a)
  BY <1>11 DEF FailBatch, SetBatch
<1>12. ASSUME FailRun(a) PROVE Effect(a)
  BY <1>12 DEF FailRun
<1>13. ASSUME Crash(a) PROVE Effect(a)
  BY <1>13 DEF Crash, tables, Ended
<1>14. QED
  BY <1>1, <1>2, <1>3, <1>4, <1>5, <1>6, <1>7, <1>8, <1>9, <1>10, <1>11, <1>12, <1>13 DEF Step

\* With one keeper, the holders of a batch are nobody or the attempt that holds it.
LEMMA HoldersOf ==
  ASSUME ClaimInv, NEW a \in Attempt
  PROVE  /\ holders \in [Batch -> SUBSET Attempt]
         /\ pc[a] \in OwnerCall => holders[job[a].batch] = {a}
         /\ Claims(a) => holders[job[a].batch] = {}
<1>0. /\ TypeOK /\ ClaimFlag /\ HeldRow /\ OneKeeper
      /\ job[a].batch \in Batch /\ job[a].pipeline \in Pipeline
  BY WrittenRows DEF ClaimInv
<1>1. holders \in [Batch -> SUBSET Attempt]
  BY DEF holders
<1>2. holders[job[a].batch] = {x \in Attempt : Holds(x, job[a].batch)}
  BY <1>0 DEF holders
<1>3. ASSUME pc[a] \in OwnerCall PROVE holders[job[a].batch] = {a}
  <2>1. Holds(a, job[a].batch)
    BY <1>0, <1>3 DEF Holds, ClaimFlag
  <2>2. \A x \in Attempt : Holds(x, job[a].batch) => x = a
    BY <1>0, <2>1 DEF OneKeeper
  <2>3. QED
    BY <1>2, <2>1, <2>2
<1>4. ASSUME Claims(a), NEW x \in Attempt, Holds(x, job[a].batch) PROVE FALSE
  <2>1. Keeping(pc[x]) /\ job[x].batch = job[a].batch
    BY <1>4 DEF Holds, Keeping
  <2>2. ~Claimable(batches[job[x].batch], job[a].pipeline)
    BY <1>0, <2>1, KeptNotClaimable
  <2>3. QED
    BY <1>4, <2>1, <2>2 DEF Claims
<1>5. QED
  BY <1>1, <1>2, <1>3, <1>4

\* A step changes at most the holders of its own batch, by its own attempt.
LEMMA HoldersStep ==
  ASSUME ClaimInv, ClaimInv', NEW a \in Attempt, Step(a) \/ Crash(a)
  PROVE  /\ (pc[a] \in OwnerCall) = (pc'[a] \in OwnerCall) => holders' = holders
         /\ pc[a] \in OwnerCall /\ pc'[a] \notin OwnerCall =>
              holders' = [holders EXCEPT ![job[a].batch] = {}]
         /\ Claims(a) /\ pc'[a] \in OwnerCall =>
              holders' = [holders EXCEPT ![job[a].batch] = {a}]
<1> DEFINE own == job[a].batch
<1>1. /\ Frame(a) /\ own \in Batch /\ job' = job /\ TypeOK
      /\ \A x \in Attempt : pc[x] \in OwnerCall => batchStarted[x]
      /\ \A x \in Attempt : pc'[x] \in OwnerCall => batchStarted'[x]
  BY StepFrame, WrittenRows DEF ClaimInv, ClaimFlag, Frame
<1>2. \A x \in Attempt, b \in Batch :
        /\ Holds(x, b) <=> job[x].batch = b /\ pc[x] \in OwnerCall
        /\ Holds(x, b)' <=> job[x].batch = b /\ pc'[x] \in OwnerCall
  BY <1>1 DEF Holds
<1>3. holders = [b \in Batch |-> {x \in Attempt : job[x].batch = b /\ pc[x] \in OwnerCall}]
  BY <1>2 DEF holders
<1>4. holders' = [b \in Batch |-> {x \in Attempt : job[x].batch = b /\ pc'[x] \in OwnerCall}]
  BY <1>2 DEF holders
<1>5. \A x \in Attempt \ {a} : pc'[x] = pc[x]
  BY <1>1 DEF Frame
<1>6. \A b \in Batch \ {own} : holders'[b] = holders[b]
  BY <1>3, <1>4, <1>5
<1>7. /\ holders[own] = {x \in Attempt : job[x].batch = own /\ pc[x] \in OwnerCall}
      /\ holders'[own] = {x \in Attempt : job[x].batch = own /\ pc'[x] \in OwnerCall}
  BY <1>1, <1>3, <1>4
<1>8. ASSUME (pc[a] \in OwnerCall) = (pc'[a] \in OwnerCall) PROVE holders' = holders
  BY <1>3, <1>4, <1>5, <1>8
<1>9. ASSUME pc[a] \in OwnerCall, pc'[a] \notin OwnerCall
      PROVE  holders' = [holders EXCEPT ![own] = {}]
  <2>1. holders[own] = {a}
    BY <1>9, HoldersOf
  <2>2. \A x \in holders'[own] : x \in holders[own] /\ x # a
    BY <1>5, <1>7, <1>9
  <2>3. holders'[own] = {}
    BY <2>1, <2>2
  <2>4. QED
    BY <1>3, <1>4, <1>6, <2>3
<1>10. ASSUME Claims(a), pc'[a] \in OwnerCall
       PROVE  holders' = [holders EXCEPT ![own] = {a}]
  <2>1. holders[own] = {}
    BY <1>10, HoldersOf
  <2>2. \A x \in holders'[own] : x = a
    BY <1>5, <1>7, <2>1
  <2>3. a \in holders'[own]
    BY <1>7, <1>10
  <2>4. holders'[own] = {a}
    BY <2>2, <2>3
  <2>5. QED
    BY <1>3, <1>4, <1>6, <2>4
<1>11. QED
  BY <1>8, <1>9, <1>10

LEMMA InitLifecycle == Init => Lifecycle!LifecycleInit
BY DEF Init, Lifecycle!LifecycleInit, Lifecycle!NoBatch, NoBatch, holders, Holds, OwnerCall

\* Every step of an attempt is a step of the lifecycle, or leaves it as it is.
LEMMA StepLifecycle ==
  ASSUME ClaimInv, ClaimInv', NEW a \in Attempt, Step(a) \/ Crash(a)
  PROVE  [Lifecycle!LifecycleNext]_<<batches, holders>>
<1> DEFINE own == job[a].batch
           p == job[a].pipeline
           before == pc[a] \in OwnerCall
           after == pc'[a] \in OwnerCall
<1>1. Effect(a) /\ own \in Batch /\ p \in Pipeline
  BY StepEffect, WrittenRows DEF ClaimInv
<1>2. /\ before = after => holders' = holders
      /\ before /\ ~after => holders' = [holders EXCEPT ![own] = {}]
      /\ Claims(a) /\ after => holders' = [holders EXCEPT ![own] = {a}]
  BY HoldersStep
<1>3. /\ before => holders[own] = {a}
      /\ Claims(a) => holders[own] = {}
  BY HoldersOf
<1>4. CASE batches' = batches /\ before = after
  BY <1>2, <1>4
<1>5. CASE batches' = batches /\ before /\ ~after
  <2>1. Lifecycle!Release(a, own)
    BY <1>2, <1>3, <1>5 DEF Lifecycle!Release
  <2>2. QED
    BY <1>1, <2>1 DEF Lifecycle!LifecycleNext
<1>6. CASE /\ Claims(a)
           /\ batches' = [batches EXCEPT ![own] = [pipeline |-> p, status |-> "RUNNING"]]
  <2>1. ~before
    BY <1>6 DEF Claims, OwnerCall
  <2>2. holders' = [holders EXCEPT ![own] = {a}] \/ UNCHANGED holders
    BY <1>2, <1>6, <2>1
  <2>3. Lifecycle!Claim(a, p, own)
    BY <1>3, <1>6, <2>2 DEF Lifecycle!Claim, Lifecycle!NoBatch, Claims, Claimable, NoBatch
  <2>4. QED
    BY <1>1, <2>3 DEF Lifecycle!LifecycleNext
<1>7. CASE /\ before /\ after /\ batches[own].status = "RUNNING"
           /\ batches' = [batches EXCEPT ![own].status = "SUCCESS"]
  <2>1. Lifecycle!ReportSuccess(a, own)
    BY <1>2, <1>3, <1>7 DEF Lifecycle!ReportSuccess
  <2>2. QED
    BY <1>1, <2>1 DEF Lifecycle!LifecycleNext
<1>8. CASE before /\ ~after /\ batches' = [batches EXCEPT ![own].status = "FAILED"]
  <2>1. Lifecycle!ReportFailure(a, own)
    BY <1>2, <1>3, <1>8 DEF Lifecycle!ReportFailure
  <2>2. QED
    BY <1>1, <2>1 DEF Lifecycle!LifecycleNext
<1>9. QED
  BY <1>1, <1>4, <1>5, <1>6, <1>7, <1>8 DEF Effect

\* The batches table changes only by the lifecycle's claim, report and release,
\* whatever faults and crashes occur: rejected attempts change nothing.
THEOREM LifecycleImplemented == Spec => ImplementsLifecycle
<1>1. ASSUME ClaimInv, ClaimInv', [Next]_vars
      PROVE  [Lifecycle!LifecycleNext]_<<batches, holders>>
  <2>1. CASE UNCHANGED vars
    BY <2>1 DEF vars, holders, Holds
  <2>2. ASSUME NEW a \in Attempt, Step(a) \/ Crash(a)
        PROVE  [Lifecycle!LifecycleNext]_<<batches, holders>>
    BY <1>1, <2>2, StepLifecycle
  <2>3. QED
    BY <1>1, <2>1, <2>2 DEF Next
<1>2. Lifecycle!lifecycleVars = <<batches, holders>>
  BY DEF Lifecycle!lifecycleVars
<1>3. QED
  BY <1>1, <1>2, InitLifecycle, ClaimInvariant, PTL
     DEF Spec, ImplementsLifecycle, Lifecycle!LifecycleSpec, Lifecycle!lifecycleVars

\* The promises of the lifecycle, for its batches and holders here.
Promise == INSTANCE BatchLifecycleProofs

\* A batch that a dead attempt, or one whose claim's answer was lost, has left
\* RUNNING stays so for good: every later attempt at the BatchID is rejected.  And a
\* SUCCESS that nobody may still report on is final.
THEOREM AbandonedBatchStays == Spec => Promise!AbandonedForGood
<1>1. Lifecycle!LifecycleInit => Promise!LifecycleInit
  BY DEF Lifecycle!LifecycleInit, Promise!LifecycleInit, Lifecycle!NoBatch, Promise!NoBatch
<1>2. [Lifecycle!LifecycleNext]_<<batches, holders>> => [Promise!LifecycleNext]_<<batches, holders>>
  BY DEF Lifecycle!LifecycleNext, Promise!LifecycleNext, Lifecycle!Claim, Promise!Claim,
         Lifecycle!NoBatch, Promise!NoBatch, Lifecycle!ReportSuccess, Promise!ReportSuccess,
         Lifecycle!ReportFailure, Promise!ReportFailure, Lifecycle!Release, Promise!Release
<1>3. QED
  BY <1>1, <1>2, LifecycleImplemented, Promise!AbandonedStays, PTL
     DEF ImplementsLifecycle, Lifecycle!LifecycleSpec, Promise!LifecycleSpec,
         Lifecycle!lifecycleVars, Promise!lifecycleVars
=============================================================================
