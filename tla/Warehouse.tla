------------------------------ MODULE Warehouse ------------------------------
(***************************************************************************)
(* What the stages load: the source tables, raw.*, silver.* and the        *)
(* quarantine tables, for batches of the commerce and customer pipelines.  *)
(*                                                                         *)
(* The batches follow BatchLifecycle, which the orchestrators implement:   *)
(* at most one attempt works on a batch, and the attempt is named here by  *)
(* its batch.  A stage's load is one transaction, so a load is one step:   *)
(* it has committed or it has left no trace, the rows of raw.*BatchStage   *)
(* included, which live inside the transaction.  A stage that raises after *)
(* its commit is its load followed by Fail.                                *)
(*                                                                         *)
(* A row's business columns are abstracted to what the procedures ask of   *)
(* them: do its fields satisfy the rules, which rows does it refer to, and *)
(* which version of the entity is it.  RecordHash tells rows apart exactly *)
(* when these differ.                                                      *)
(***************************************************************************)
EXTENDS Naturals, Sequences, FiniteSets

CONSTANTS Batch,       \* BatchIDs
          Id,          \* the positive keys an entity may have
          Version,     \* the states an entity goes through
          Pipeline,    \* PipelineNames
          Entities,    \* Entities[p]: the entities p loads, in this order
          Validating,  \* the pipelines that filter customers before Bronze
          Sources,     \* the contents the source database takes on
          MaxTries     \* bound: claims of one batch

Entity == {"customers", "products", "orders", "order_items", "payments"}

\* The Silver tables the procedures join to resolve a row's references.
Parents == [customers |-> {}, products |-> {}, orders |-> {"customers"},
            order_items |-> {"orders", "products"}, payments |-> {"orders"}]

\* fields: "valid" meets the rules; "invalid" breaks one; "null" has no first or
\* no last name, which silver.Customers does not admit.
Row == [fields : {"valid", "invalid", "null"}, refs : [Entity -> Id], version : Version]

\* A table holds at most one row of a key; Absent when it has none.
Absent == [fields |-> "none"]
Table == [Id -> Row \cup {Absent}]

\* Each entity is loaded once per pipeline, and only customers have nullable names.
ASSUME EntitiesAssumption ==
  /\ Entities \in [Pipeline -> Seq(Entity)]
  /\ \A p \in Pipeline : \A i, j \in DOMAIN Entities[p] :
       Entities[p][i] = Entities[p][j] => i = j
  /\ \A s \in Sources : s \in [Entity -> Table]
  /\ \A s \in Sources : \A e \in Entity \ {"customers"}, i \in Id : s[e][i].fields # "null"
  /\ "none" \notin Pipeline
  /\ MaxTries \in Nat

VARIABLES
  source,      \* source[e][i]: dbo.<Entity> of the source database
  raw,         \* raw[e][b][i]: the row of raw.<Entity> with BatchID b and key i
  silver,      \* silver[e][i]: the row of silver.<Entity> with key i
  quarantine,  \* quarantine[e]: the rows of ops.<Entity>Quarantine
  batches,     \* ops.PipelineBatches, by BatchID
  at,          \* at[b]: which entity the attempt at b is at; 0 when there is none
  layer,       \* layer[b]: the layer that entity is to be loaded into next
  tries        \* tries[b]: claims of b so far, which numbers its PipelineRunIDs

control == <<batches, at, layer, tries>>
vars == <<source, raw, silver, quarantine, batches, at, layer, tries>>

NoBatch == [pipeline |-> "none", status |-> "none"]
BatchRow == [pipeline : Pipeline, status : {"RUNNING", "SUCCESS", "FAILED"}]
Reason == {"field", "missing"}
QuarantineRow == [batch : Batch, id : Id, run : 1 .. MaxTries, reasons : SUBSET Reason]

Plan(b) == Entities[batches[b].pipeline]
Current(b) == Plan(b)[at[b]]

Init ==
  /\ source \in Sources
  /\ raw = [e \in Entity |-> [b \in Batch |-> [i \in Id |-> Absent]]]
  /\ silver = [e \in Entity |-> [i \in Id |-> Absent]]
  /\ quarantine = [e \in Entity |-> {}]
  /\ batches = [b \in Batch |-> NoBatch]
  /\ at = [b \in Batch |-> 0]
  /\ layer = [b \in Batch |-> "bronze"]
  /\ tries = [b \in Batch |-> 0]

-----------------------------------------------------------------------------
\* The source database is in use: rows come, change and go at any time.
UpdateSource ==
  /\ source' \in Sources \ {source}
  /\ UNCHANGED <<raw, silver, quarantine, control>>

\* Mutant of Claimable: a RUNNING batch can be claimed.
ClaimableIgnoringRunning(row, p) ==
  row = NoBatch \/ (row.pipeline = p /\ row.status # "SUCCESS")

\* The rows begin_or_retry_batch turns into RUNNING.
Claimable(row, p) == row = NoBatch \/ row = [pipeline |-> p, status |-> "FAILED"]

\* Mutant of Begin: the INSERT or UPDATE is not committed.
BeginUncommitted(b, p) ==
  /\ Claimable(batches[b], p) /\ tries[b] < MaxTries
  /\ at' = [at EXCEPT ![b] = 1]
  /\ layer' = [layer EXCEPT ![b] = "bronze"]
  /\ tries' = [tries EXCEPT ![b] = @ + 1]
  /\ UNCHANGED <<source, raw, silver, quarantine, batches>>

\* begin_or_retry_batch by an attempt of pipeline p.
Begin(b, p) ==
  /\ Claimable(batches[b], p) /\ tries[b] < MaxTries
  /\ batches' = [batches EXCEPT ![b] = [pipeline |-> p, status |-> "RUNNING"]]
  /\ at' = [at EXCEPT ![b] = 1]
  /\ layer' = [layer EXCEPT ![b] = "bronze"]
  /\ tries' = [tries EXCEPT ![b] = @ + 1]
  /\ UNCHANGED <<source, raw, silver, quarantine>>

\* The attempt at b is to load its current entity into layer l.
AtStage(b, l) == at[b] # 0 /\ at[b] <= Len(Plan(b)) /\ layer[b] = l

-----------------------------------------------------------------------------
(***************************************************************************)
(* Bronze: extract, and insert what the batch does not have yet.           *)
(***************************************************************************)
\* The keys the extractor returns.  The source may change before they are loaded;
\* only this attempt would see the difference.
Extracted(b) == {i \in Id : source[Current(b)][i] # Absent}

\* Mutant of Accepted: the customer pipeline loads what failed validation.
AcceptedUnfiltered(b) == Extracted(b)

\* Those the loader is given: all, but of customers only the valid ones where the
\* pipeline validates them.
Accepted(b) ==
  IF Current(b) = "customers" /\ batches[b].pipeline \in Validating
  THEN {i \in Extracted(b) : source["customers"][i].fields = "valid"}
  ELSE Extracted(b)

\* Mutant of BronzeRow: the load replaces the rows the batch has.
BronzeRowReplaced(e, b, i) ==
  IF i \in Accepted(b) THEN source[e][i] ELSE raw[e][b][i]

\* INSERT ... WHERE NOT EXISTS: a key the batch has keeps its row.
BronzeRow(e, b, i) ==
  IF raw[e][b][i] = Absent /\ i \in Accepted(b)
  THEN source[e][i]
  ELSE raw[e][b][i]

LoadBronze(b) ==
  LET e == Current(b)
  IN  /\ AtStage(b, "bronze")
      /\ raw' = [raw EXCEPT ![e][b] = [i \in Id |-> BronzeRow(e, b, i)]]
      /\ layer' = [layer EXCEPT ![b] = "silver"]
      /\ UNCHANGED <<source, silver, quarantine, batches, at, tries>>

-----------------------------------------------------------------------------
(***************************************************************************)
(* Silver: quarantine what the rules refuse, then update and insert the    *)
(* rest, all from the rows of the batch.                                   *)
(***************************************************************************)
InBatch(e, b) == {i \in Id : raw[e][b][i] # Absent}
FieldsPass(e, b) == {i \in InBatch(e, b) : raw[e][b][i].fields = "valid"}

\* Mutant of Resolved: the references are looked up in Bronze.
ResolvedInBronze(e, b) ==
  {i \in InBatch(e, b) : \A p \in Parents[e] : raw[p][b][raw[e][b][i].refs[p]] # Absent}

Resolved(e, b) ==
  {i \in InBatch(e, b) : \A p \in Parents[e] : silver[p][raw[e][b][i].refs[p]] # Absent}

\* Mutant of Trusted: the reference is checked, the fields are not.
TrustedByReference(e, b) == Resolved(e, b)

Trusted(e, b) == FieldsPass(e, b) \cap Resolved(e, b)

\* UPDATE the rows whose hash differs, INSERT those with a new key: of the keys S.
Upsert(e, b, S) ==
  silver' = [silver EXCEPT ![e] =
    [i \in Id |-> IF i \in S THEN raw[e][b][i] ELSE silver[e][i]]]

\* Mutants of Quarantined: the key's rows of any batch count; of this run only.
QuarantinedByAny(e, b) == {q.id : q \in quarantine[e]}
QuarantinedByRun(e, b) ==
  {q.id : q \in {x \in quarantine[e] : x.batch = b /\ x.run = tries[b]}}

\* The keys that have a quarantine row for the batch.
Quarantined(e, b) == {q.id : q \in {x \in quarantine[e] : x.batch = b}}

\* One row for each key of why, with the reasons it gives.
Quarantine(e, b, why) ==
  quarantine' = [quarantine EXCEPT ![e] = @ \cup
    {[batch |-> b, id |-> i, run |-> tries[b], reasons |-> why[i]] : i \in DOMAIN why}]

\* After an entity's Silver comes the next entity's Bronze.
AfterSilver(b) ==
  /\ at' = [at EXCEPT ![b] = @ + 1]
  /\ layer' = [layer EXCEPT ![b] = "bronze"]
  /\ UNCHANGED <<source, raw, batches, tries>>

At(b, e, l) == AtStage(b, l) /\ Current(b) = e

\* No rules: but a row without a name makes the whole transaction fail.
SilverCustomers(b) ==
  LET e == "customers"
  IN  /\ At(b, e, "silver")
      /\ \A i \in InBatch(e, b) : raw[e][b][i].fields # "null"
      /\ Upsert(e, b, InBatch(e, b))
      /\ UNCHANGED quarantine
      /\ AfterSilver(b)

SilverProducts(b) ==
  /\ At(b, "products", "silver")
  /\ Upsert("products", b, InBatch("products", b))
  /\ UNCHANGED quarantine
  /\ AfterSilver(b)

\* Two INSERTs: for the fields, unless the order has a row for this batch; for the
\* customer, unless it has one with that reason.
SilverOrders(b) ==
  LET e == "orders"
      field == InBatch(e, b) \ (FieldsPass(e, b) \cup Quarantined(e, b))
      missing == {i \in FieldsPass(e, b) \ Resolved(e, b) :
                    \A q \in quarantine[e] : ~(q.batch = b /\ q.id = i /\ q.reasons = {"missing"})}
  IN  /\ At(b, e, "silver")
      /\ Quarantine(e, b, [i \in field \cup missing |->
                             IF i \in field THEN {"field"} ELSE {"missing"}])
      /\ Upsert(e, b, Trusted(e, b))
      /\ AfterSilver(b)

\* One INSERT with every reason, for an item that has no row for this batch.
SilverOrderItems(b) ==
  LET e == "order_items"
      refused == InBatch(e, b) \ (Trusted(e, b) \cup Quarantined(e, b))
  IN  /\ At(b, e, "silver")
      /\ Quarantine(e, b, [i \in refused |->
                             {r \in Reason :
                                \/ (r = "field" /\ i \notin FieldsPass(e, b))
                                \/ (r = "missing" /\ i \notin Resolved(e, b))}])
      /\ Upsert(e, b, Trusted(e, b))
      /\ AfterSilver(b)

\* The same, but the missing order is a reason only when the fields pass.
SilverPayments(b) ==
  LET e == "payments"
      refused == InBatch(e, b) \ (Trusted(e, b) \cup Quarantined(e, b))
  IN  /\ At(b, e, "silver")
      /\ Quarantine(e, b, [i \in refused |->
                             IF i \in FieldsPass(e, b) THEN {"missing"} ELSE {"field"}])
      /\ Upsert(e, b, Trusted(e, b))
      /\ AfterSilver(b)

LoadSilver(b) ==
  \/ SilverCustomers(b)
  \/ SilverProducts(b)
  \/ SilverOrders(b)
  \/ SilverOrderItems(b)
  \/ SilverPayments(b)

-----------------------------------------------------------------------------
\* complete_batch(SUCCESS) after the last entity; the attempt then ends its run.
Complete(b) ==
  /\ at[b] # 0 /\ at[b] > Len(Plan(b)) /\ batches[b].status = "RUNNING"
  /\ batches' = [batches EXCEPT ![b].status = "SUCCESS"]
  /\ UNCHANGED <<source, raw, silver, quarantine, at, layer, tries>>

\* complete_batch(FAILED) by the handler, after any exception: that of a stage, or
\* that of complete_pipeline_run behind a batch already SUCCESS.
Fail(b) ==
  /\ at[b] # 0
  /\ batches' = [batches EXCEPT ![b].status = "FAILED"]
  /\ at' = [at EXCEPT ![b] = 0]
  /\ UNCHANGED <<source, raw, silver, quarantine, layer, tries>>

\* The attempt returns, dies, or cannot write its report.
Release(b) ==
  /\ at[b] # 0
  /\ at' = [at EXCEPT ![b] = 0]
  /\ UNCHANGED <<source, raw, silver, quarantine, batches, layer, tries>>

Next ==
  \/ UpdateSource
  \/ \E b \in Batch : \/ \E p \in Pipeline : Begin(b, p)
                      \/ LoadBronze(b)
                      \/ LoadSilver(b)
                      \/ Complete(b)
                      \/ Fail(b)
                      \/ Release(b)

Spec == Init /\ [][Next]_vars

-----------------------------------------------------------------------------
(***************************************************************************)
(* Properties                                                              *)
(***************************************************************************)
\* The rows fit their tables, and an attempt stays within its plan.
TypeOK ==
  /\ source \in Sources
  /\ raw \in [Entity -> [Batch -> Table]]
  /\ silver \in [Entity -> Table]
  /\ quarantine \in [Entity -> SUBSET QuarantineRow]
  /\ batches \in [Batch -> BatchRow \cup {NoBatch}]
  /\ at \in [Batch -> Nat]
  /\ \A b \in Batch : at[b] # 0 =>
       batches[b] # NoBatch /\ tries[b] # 0 /\ at[b] <= Len(Plan(b)) + 1
  /\ layer \in [Batch -> {"bronze", "silver"}]
  /\ tries \in [Batch -> 0 .. MaxTries]

\* The Silver tables have no foreign keys, yet every reference in them resolves,
\* whatever order, retry or mixture of batches brought the rows there.
ReferencesResolve ==
  \A e \in Entity, i \in Id :
    silver[e][i] # Absent =>
      \A p \in Parents[e] : silver[p][silver[e][i].refs[p]] # Absent

\* Silver invents nothing: each of its rows is still to be found, as it was loaded,
\* among the Bronze rows of some batch.
SilverComesFromBronze ==
  \A e \in Entity, i \in Id :
    silver[e][i] # Absent => \E b \in Batch : raw[e][b][i] = silver[e][i]

\* No order, item or payment that breaks a field rule is in Silver.
SilverFieldsValid ==
  \A e \in {"orders", "order_items", "payments"}, i \in Id :
    silver[e][i] # Absent => silver[e][i].fields = "valid"

\* A record has at most one quarantine row per batch, however often it is retried.
OneQuarantineRow ==
  \A e \in Entity : \A q1, q2 \in quarantine[e] :
    q1.batch = q2.batch /\ q1.id = q2.id => q1 = q2

\* A quarantine row is lasting evidence: the Bronze row it speaks of is there, and
\* breaks a field rule exactly if the row says so.
QuarantineIsEvidence ==
  \A e \in Entity : \A q \in quarantine[e] :
    /\ raw[e][q.batch][q.id] # Absent
    /\ q.reasons # {}
    /\ "field" \in q.reasons <=> raw[e][q.batch][q.id].fields # "valid"

\* Every Bronze row of the batch has a Silver row of its key or a quarantine row.
Accounted(e, b) ==
  \A i \in InBatch(e, b) :
    silver[e][i] # Absent \/ \E q \in quarantine[e] : q.batch = b /\ q.id = i

\* No record is dropped on the way: when a batch is SUCCESS each of its Bronze
\* rows is accounted for, retries and other batches notwithstanding.
NothingDropped ==
  \A b \in Batch : batches[b].status = "SUCCESS" =>
    \A k \in DOMAIN Plan(b) : Accounted(Plan(b)[k], b)

\* What has been loaded into Bronze for a batch is never changed or removed.
BronzeIsImmutable ==
  [][\A e \in Entity, b \in Batch, i \in Id :
       raw[e][b][i] # Absent => raw'[e][b][i] = raw[e][b][i]]_vars

\* The customers in Silver have passed validate_customers.
CustomersValidated ==
  \A i \in Id :
    silver["customers"][i] # Absent => silver["customers"][i].fields = "valid"

\* The rows of an entity in a batch are those of one state of the source.
OneSnapshot ==
  \A e \in Entity, b \in Batch : \E s \in Sources :
    \A i \in InBatch(e, b) : raw[e][b][i] = s[e][i]

\* The batches behave as BatchLifecycle says, which is what the orchestrators
\* implement; the attempt that holds a batch goes by the name of the batch.
holders == [b \in Batch |-> IF at[b] = 0 THEN {} ELSE {b}]
Lifecycle == INSTANCE BatchLifecycle WITH Attempt <- Batch
FollowsLifecycle == Lifecycle!LifecycleSpec
=============================================================================
