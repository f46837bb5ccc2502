------------------------ MODULE BatchLifecycleProofs ------------------------
(***************************************************************************)
(* Theorems about BatchLifecycle: what every pipeline that follows the     *)
(* claim protocol of ops.PipelineBatches may rely on.  The modules that    *)
(* implement the lifecycle inherit them by instantiating this one.         *)
(***************************************************************************)
EXTENDS BatchLifecycle, TLAPS

(***************************************************************************)
(* The claim as begin_or_retry_batch makes it: it has read the row, and    *)
(* the row only.  Nothing tells it whether somebody is at work.            *)
(***************************************************************************)
\* The claimant knows of its claim, or has lost the answer to it.
ClaimByRow(a, p, b) ==
  /\ \/ batches[b] = NoBatch
     \/ batches[b] = [pipeline |-> p, status |-> "FAILED"]
  /\ batches' = [batches EXCEPT ![b] = [pipeline |-> p, status |-> "RUNNING"]]
  /\ \/ holders' = [holders EXCEPT ![b] = @ \cup {a}]
     \/ UNCHANGED holders

\* Any attempt claims so; who has claimed reports and lets go.
RowNext ==
  \E a \in Attempt, b \in Batch :
    \/ \E p \in Pipeline : ClaimByRow(a, p, b)
    \/ ReportSuccess(a, b)
    \/ ReportFailure(a, b)
    \/ Release(a, b)

RowSpec == LifecycleInit /\ [][RowNext]_lifecycleVars

-----------------------------------------------------------------------------
\* A row is of some pipeline, and no holder is a stranger.
LifecycleTypeOK ==
  /\ batches \in [Batch -> BatchRow \cup {NoBatch}]
  /\ holders \in [Batch -> SUBSET Attempt]

\* At most one attempt may still write the row of a batch.
OneHolder == \A b \in Batch : \A a1, a2 \in holders[b] : a1 = a2

\* While somebody may, the row says RUNNING or SUCCESS: nobody else can claim it.
HeldIsNotClaimable ==
  \A b \in Batch : holders[b] # {} => batches[b].status \in {"RUNNING", "SUCCESS"}

\* The inductive invariant.
LifecycleInv == LifecycleTypeOK /\ OneHolder /\ HeldIsNotClaimable

LEMMA InitLifecycleInv == LifecycleInit => LifecycleInv
BY DEF LifecycleInit, LifecycleInv, LifecycleTypeOK, OneHolder, HeldIsNotClaimable, BatchRow, NoBatch

\* A report keeps the rest of the row.
LEMMA ReportedLifecycleRow ==
  ASSUME LifecycleInv, NEW b \in Batch, holders[b] # {}, NEW s \in {"SUCCESS", "FAILED"}
  PROVE  /\ [batches EXCEPT ![b].status = s] \in [Batch -> BatchRow \cup {NoBatch}]
         /\ [batches EXCEPT ![b].status = s][b].status = s
<1>1. batches[b] \in BatchRow
  BY DEF LifecycleInv, LifecycleTypeOK, HeldIsNotClaimable, NoBatch
<1>2. [batches[b] EXCEPT !.status = s] \in BatchRow
  BY <1>1 DEF BatchRow
<1>3. QED
  BY <1>1, <1>2 DEF LifecycleInv, LifecycleTypeOK, BatchRow

\* Because of HeldIsNotClaimable a claim that sees the row alone finds no holder.
LEMMA RowClaimIsClaim ==
  ASSUME LifecycleInv, NEW a \in Attempt, NEW p \in Pipeline, NEW b \in Batch, ClaimByRow(a, p, b)
  PROVE  Claim(a, p, b)
<1>1. batches[b].status \in {"none", "FAILED"}
  BY DEF ClaimByRow, NoBatch
<1>2. holders[b] = {}
  BY <1>1 DEF LifecycleInv, HeldIsNotClaimable
<1>3. QED
  BY <1>2 DEF ClaimByRow, Claim

LEMMA NextLifecycleInv ==
  ASSUME LifecycleInv, [LifecycleNext]_lifecycleVars
  PROVE  LifecycleInv'
<1> USE DEF LifecycleInv, LifecycleTypeOK, OneHolder, HeldIsNotClaimable
<1>1. CASE UNCHANGED lifecycleVars
  BY <1>1 DEF lifecycleVars
<1>2. ASSUME NEW a \in Attempt, NEW b \in Batch, NEW p \in Pipeline, Claim(a, p, b)
      PROVE  LifecycleInv'
  <2>1. [pipeline |-> p, status |-> "RUNNING"] \in BatchRow
    BY DEF BatchRow
  <2>2. QED
    BY <1>2, <2>1 DEF Claim
<1>3. ASSUME NEW a \in Attempt, NEW b \in Batch, ReportSuccess(a, b) PROVE LifecycleInv'
  <2>1. /\ batches' \in [Batch -> BatchRow \cup {NoBatch}]
        /\ batches'[b].status = "SUCCESS"
    BY <1>3, ReportedLifecycleRow DEF ReportSuccess
  <2>2. QED
    BY <1>3, <2>1 DEF ReportSuccess
<1>4. ASSUME NEW a \in Attempt, NEW b \in Batch, ReportFailure(a, b) PROVE LifecycleInv'
  <2>1. batches' \in [Batch -> BatchRow \cup {NoBatch}]
    BY <1>4, ReportedLifecycleRow DEF ReportFailure
  <2>2. QED
    BY <1>4, <2>1 DEF ReportFailure
<1>5. ASSUME NEW a \in Attempt, NEW b \in Batch, Release(a, b) PROVE LifecycleInv'
  BY <1>5 DEF Release
<1>6. QED
  BY <1>1, <1>2, <1>3, <1>4, <1>5 DEF LifecycleNext

\* Of any number of attempts at a batch at most one may still write its row, and as
\* long as one may, the row lets no other in.
THEOREM LifecycleKeepsOneHolder == LifecycleSpec => []LifecycleInv
BY InitLifecycleInv, NextLifecycleInv, PTL DEF LifecycleSpec

\* The row alone is enough: attempts that look at nothing but the status and the
\* pipeline of the row, as begin_or_retry_batch does, exclude each other.
THEOREM RowDecides == RowSpec => LifecycleSpec
<1>1. ASSUME LifecycleInv, [RowNext]_lifecycleVars PROVE [LifecycleNext]_lifecycleVars
  BY <1>1, RowClaimIsClaim DEF RowNext, LifecycleNext
<1>2. QED
  BY <1>1, InitLifecycleInv, NextLifecycleInv, PTL DEF RowSpec, LifecycleSpec

-----------------------------------------------------------------------------
\* Nobody may write the row, and nobody can claim the batch.
Abandoned(b) == holders[b] = {} /\ batches[b].status \in {"RUNNING", "SUCCESS"}

\* What ends in RUNNING or SUCCESS without a holder stays as it is: done for good in
\* the one case; in the other, after a death or a lost answer, out of reach of every
\* retry of the same BatchID.
AbandonedForGood ==
  [][\A b \in Batch : Abandoned(b) =>
       batches'[b] = batches[b] /\ holders'[b] = holders[b]]_lifecycleVars

\* A SUCCESS is taken back only by the attempt that has reported it, and then it is
\* FAILED; a batch never changes hands between pipelines.
RowsChangeByTheirHolder ==
  [][\A b \in Batch :
       /\ batches[b].status = "SUCCESS" /\ batches'[b] # batches[b] =>
            /\ holders[b] # {} /\ holders'[b] = {}
            /\ batches'[b].status = "FAILED"
       /\ batches[b] # NoBatch => batches'[b].pipeline = batches[b].pipeline]_lifecycleVars

LEMMA AbandonedStep ==
  ASSUME LifecycleInv, [LifecycleNext]_lifecycleVars, NEW b \in Batch, Abandoned(b)
  PROVE  batches'[b] = batches[b] /\ holders'[b] = holders[b]
<1> USE DEF LifecycleInv, LifecycleTypeOK, Abandoned
<1>1. CASE UNCHANGED lifecycleVars
  BY <1>1 DEF lifecycleVars
<1>2. ASSUME NEW a \in Attempt, NEW c \in Batch, NEW p \in Pipeline, Claim(a, p, c)
      PROVE  batches'[b] = batches[b] /\ holders'[b] = holders[b]
  BY <1>2 DEF Claim, NoBatch
<1>3. ASSUME NEW a \in Attempt, NEW c \in Batch,
             ReportSuccess(a, c) \/ ReportFailure(a, c) \/ Release(a, c)
      PROVE  batches'[b] = batches[b] /\ holders'[b] = holders[b]
  BY <1>3 DEF ReportSuccess, ReportFailure, Release
<1>4. QED
  BY <1>1, <1>2, <1>3 DEF LifecycleNext

\* A batch that nobody may report on any more and that is not FAILED stays as it is:
\* begin_or_retry_batch has no way to take it over.
THEOREM AbandonedStays == LifecycleSpec => AbandonedForGood
<1>1. LifecycleInv /\ [LifecycleNext]_lifecycleVars =>
        [\A b \in Batch : Abandoned(b) =>
           batches'[b] = batches[b] /\ holders'[b] = holders[b]]_lifecycleVars
  BY AbandonedStep
<1>2. QED
  BY <1>1, LifecycleKeepsOneHolder, PTL DEF LifecycleSpec, AbandonedForGood

LEMMA HolderStep ==
  ASSUME LifecycleInv, [LifecycleNext]_lifecycleVars, NEW b \in Batch
  PROVE  /\ batches[b].status = "SUCCESS" /\ batches'[b] # batches[b] =>
              /\ holders[b] # {} /\ holders'[b] = {}
              /\ batches'[b].status = "FAILED"
         /\ batches[b] # NoBatch => batches'[b].pipeline = batches[b].pipeline
<1> USE DEF LifecycleInv, LifecycleTypeOK
<1> DEFINE Goal == /\ batches[b].status = "SUCCESS" /\ batches'[b] # batches[b] =>
                        /\ holders[b] # {} /\ holders'[b] = {}
                        /\ batches'[b].status = "FAILED"
                   /\ batches[b] # NoBatch => batches'[b].pipeline = batches[b].pipeline
<1>1. CASE UNCHANGED lifecycleVars
  BY <1>1 DEF lifecycleVars
<1>2. ASSUME NEW a \in Attempt, NEW c \in Batch, NEW p \in Pipeline, Claim(a, p, c) PROVE Goal
  BY <1>2 DEF Claim, NoBatch
<1>3. ASSUME NEW a \in Attempt, NEW c \in Batch, ReportSuccess(a, c) PROVE Goal
  <2>1. CASE c = b
    <3>1. batches'[b] = [batches[b] EXCEPT !.status = "SUCCESS"] /\ batches[b].status = "RUNNING"
      BY <1>3, <2>1 DEF ReportSuccess
    <3>2. batches[b] \in BatchRow
      BY <3>1 DEF NoBatch
    <3>3. QED
      BY <3>1, <3>2 DEF BatchRow
  <2>2. CASE c # b
    BY <1>3, <2>2 DEF ReportSuccess
  <2>3. QED
    BY <2>1, <2>2
<1>4. ASSUME NEW a \in Attempt, NEW c \in Batch, ReportFailure(a, c) PROVE Goal
  <2>1. CASE c = b
    <3>1. /\ batches'[b] = [batches[b] EXCEPT !.status = "FAILED"]
          /\ holders[b] # {} /\ holders'[b] = {}
      BY <1>4, <2>1 DEF ReportFailure
    <3>2. batches[b] \in BatchRow
      BY <3>1 DEF HeldIsNotClaimable, NoBatch
    <3>3. QED
      BY <3>1, <3>2 DEF BatchRow
  <2>2. CASE c # b
    BY <1>4, <2>2 DEF ReportFailure
  <2>3. QED
    BY <2>1, <2>2
<1>5. ASSUME NEW a \in Attempt, NEW c \in Batch, Release(a, c) PROVE Goal
  BY <1>5 DEF Release
<1>6. QED
  BY <1>1, <1>2, <1>3, <1>4, <1>5 DEF LifecycleNext

\* complete_batch asks for nobody, and yet no attempt ever rewrites the outcome that
\* another one has reported.
THEOREM OnlyTheHolderTakesBack == LifecycleSpec => RowsChangeByTheirHolder
<1>1. LifecycleInv /\ [LifecycleNext]_lifecycleVars =>
        [\A b \in Batch :
           /\ batches[b].status = "SUCCESS" /\ batches'[b] # batches[b] =>
                /\ holders[b] # {} /\ holders'[b] = {}
                /\ batches'[b].status = "FAILED"
           /\ batches[b] # NoBatch => batches'[b].pipeline = batches[b].pipeline]_lifecycleVars
  BY HolderStep
<1>2. QED
  BY <1>1, LifecycleKeepsOneHolder, PTL DEF LifecycleSpec, RowsChangeByTheirHolder
=============================================================================
