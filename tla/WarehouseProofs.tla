--------------------------- MODULE WarehouseProofs ---------------------------
(***************************************************************************)
(* Warehouse keeps its invariants for any batches, keys, contents of the   *)
(* source, pipelines and number of retries.                                *)
(***************************************************************************)
EXTENDS Warehouse, TLAPS

Checked == {"orders", "order_items", "payments"}

-----------------------------------------------------------------------------
(***************************************************************************)
(* Types.                                                                  *)
(***************************************************************************)
\* An attempt at a stage has a plan, an entity of it, and a run.
LEMMA StageFacts ==
  ASSUME TypeOK, NEW b \in Batch, NEW l, AtStage(b, l)
  PROVE  /\ batches[b].pipeline \in Pipeline
         /\ Plan(b) \in Seq(Entity)
         /\ at[b] \in DOMAIN Plan(b)
         /\ Current(b) \in Entity
         /\ tries[b] \in 1 .. MaxTries
<1>1. batches[b] \in BatchRow
  BY DEF AtStage, TypeOK
<1>2. batches[b].pipeline \in Pipeline
  BY <1>1 DEF BatchRow
<1>3. Plan(b) \in Seq(Entity)
  BY <1>2, EntitiesAssumption DEF Plan
<1>4. at[b] \in DOMAIN Plan(b)
  BY <1>3 DEF AtStage, TypeOK
<1>5. tries[b] \in 1 .. MaxTries
  BY EntitiesAssumption DEF AtStage, TypeOK
<1> QED
  BY <1>2, <1>3, <1>4, <1>5 DEF Current

\* What the batch has loaded are rows, whose references are keys.
LEMMA LoadedRow ==
  ASSUME TypeOK, NEW e \in Entity, NEW b \in Batch, NEW i \in InBatch(e, b)
  PROVE  /\ i \in Id
         /\ raw[e][b][i] \in Row
         /\ \A p \in Parents[e] : p \in Entity /\ raw[e][b][i].refs[p] \in Id
<1>1. i \in Id /\ raw[e][b][i] # Absent
  BY DEF InBatch
<1>2. raw[e][b][i] \in Row
  BY <1>1 DEF TypeOK, Table
<1>3. Parents[e] \subseteq Entity
  BY DEF Parents, Entity
<1> QED
  BY <1>1, <1>2, <1>3 DEF Row

\* The rows of one Quarantine, by their keys.
NewRows(b, why) ==
  {[batch |-> b, id |-> i, run |-> tries[b], reasons |-> why[i]] : i \in DOMAIN why}

LEMMA NewRowsFacts ==
  ASSUME NEW b \in Batch, tries[b] \in 1 .. MaxTries,
         NEW why, DOMAIN why \subseteq Id, \A i \in DOMAIN why : why[i] \in SUBSET Reason
  PROVE  /\ NewRows(b, why) \subseteq QuarantineRow
         /\ \A q \in NewRows(b, why) :
              q.batch = b /\ q.id \in DOMAIN why /\ q.reasons = why[q.id]
         /\ \A q1, q2 \in NewRows(b, why) : q1.id = q2.id => q1 = q2
         /\ \A i \in DOMAIN why : \E q \in NewRows(b, why) : q.id = i
<1>1. NewRows(b, why) \subseteq QuarantineRow
  BY DEF NewRows, QuarantineRow
<1>2. \A i \in DOMAIN why : \E q \in NewRows(b, why) : q.id = i
  <2> TAKE i \in DOMAIN why
  <2>1. [batch |-> b, id |-> i, run |-> tries[b], reasons |-> why[i]] \in NewRows(b, why)
    BY DEF NewRows
  <2> QED
    BY <2>1
<1> QED
  BY <1>1, <1>2 DEF NewRows

\* Absent is no row: in particular the fields of a row tell it from Absent.
LEMMA RowIsPresent == ASSUME NEW r \in Row PROVE r # Absent
BY DEF Row, Absent

-----------------------------------------------------------------------------
(***************************************************************************)
(* The five Silver procedures have one shape: they upsert a set S of keys  *)
(* whose references resolve, and quarantine, once and for a reason that    *)
(* Bronze bears out, rows N, such that no key of the batch is left out.    *)
(***************************************************************************)
QuarantineFits(e, b, q) ==
  /\ q.batch = b
  /\ q.id \in InBatch(e, b) \ Quarantined(e, b)
  /\ q.reasons # {}
  /\ "field" \in q.reasons <=> raw[e][b][q.id].fields # "valid"

SilverEffect(b, e, S, N) ==
  /\ At(b, e, "silver")
  /\ S \subseteq Resolved(e, b)
  /\ e \in Checked => S \subseteq FieldsPass(e, b)
  /\ Upsert(e, b, S)
  /\ quarantine' = [quarantine EXCEPT ![e] = @ \cup N]
  /\ N \subseteq QuarantineRow
  /\ \A q \in N : QuarantineFits(e, b, q)
  /\ \A q1, q2 \in N : q1.id = q2.id => q1 = q2
  /\ \A i \in InBatch(e, b) : i \in S \cup Quarantined(e, b) \/ \E q \in N : q.id = i
  /\ AfterSilver(b)

LEMMA UncheckedEffect ==
  ASSUME TypeOK, NEW b \in Batch, SilverCustomers(b) \/ SilverProducts(b)
  PROVE  \E e \in Entity, S \in SUBSET Id, N \in SUBSET QuarantineRow : SilverEffect(b, e, S, N)
<1>1. PICK e \in {"customers", "products"} :
        /\ At(b, e, "silver")
        /\ Upsert(e, b, InBatch(e, b))
        /\ UNCHANGED quarantine
        /\ AfterSilver(b)
  BY DEF SilverCustomers, SilverProducts
<1>2. e \in Entity /\ e \notin Checked /\ Parents[e] = {}
  BY DEF Entity, Checked, Parents
<1>3. Resolved(e, b) = InBatch(e, b) /\ InBatch(e, b) \subseteq Id
  BY <1>2 DEF Resolved, InBatch
<1>4. quarantine' = [quarantine EXCEPT ![e] = @ \cup {}]
  BY <1>1, <1>2 DEF TypeOK
<1>5. SilverEffect(b, e, InBatch(e, b), {})
  BY <1>1, <1>2, <1>3, <1>4 DEF SilverEffect
<1> QED
  BY <1>2, <1>3, <1>5

\* What Quarantine and Upsert do when the keys they cover are told apart rightly.
LEMMA CheckedEffect ==
  ASSUME TypeOK, NEW b \in Batch, NEW e \in Checked, At(b, e, "silver"),
         NEW why, DOMAIN why \subseteq InBatch(e, b) \ Quarantined(e, b),
         InBatch(e, b) \subseteq Trusted(e, b) \cup Quarantined(e, b) \cup DOMAIN why,
         \A i \in DOMAIN why : /\ why[i] \in SUBSET Reason /\ why[i] # {}
                               /\ "field" \in why[i] <=> i \notin FieldsPass(e, b),
         Quarantine(e, b, why), Upsert(e, b, Trusted(e, b)), AfterSilver(b)
  PROVE  \E d \in Entity, T \in SUBSET Id, N \in SUBSET QuarantineRow : SilverEffect(b, d, T, N)
<1>0. e \in Entity
  BY DEF Checked, Entity
<1>1. tries[b] \in 1 .. MaxTries
  BY StageFacts DEF At
<1>2. /\ NewRows(b, why) \subseteq QuarantineRow
      /\ \A q \in NewRows(b, why) :
           q.batch = b /\ q.id \in DOMAIN why /\ q.reasons = why[q.id]
      /\ \A q1, q2 \in NewRows(b, why) : q1.id = q2.id => q1 = q2
      /\ \A i \in DOMAIN why : \E q \in NewRows(b, why) : q.id = i
  <2>1. DOMAIN why \subseteq Id /\ \A i \in DOMAIN why : why[i] \in SUBSET Reason
    BY DEF InBatch
  <2> QED
    BY <1>1, <2>1, NewRowsFacts
<1>3. quarantine' = [quarantine EXCEPT ![e] = @ \cup NewRows(b, why)]
  BY DEF Quarantine, NewRows
<1>4. /\ Trusted(e, b) \subseteq Resolved(e, b) /\ Trusted(e, b) \subseteq FieldsPass(e, b)
      /\ Trusted(e, b) \in SUBSET Id
  BY DEF Trusted, Resolved, FieldsPass, InBatch
<1>5. \A q \in NewRows(b, why) : QuarantineFits(e, b, q)
  BY <1>2 DEF QuarantineFits, FieldsPass
<1>6. \A i \in InBatch(e, b) :
        i \in Trusted(e, b) \cup Quarantined(e, b) \/ \E q \in NewRows(b, why) : q.id = i
  BY <1>2
<1>7. SilverEffect(b, e, Trusted(e, b), NewRows(b, why))
  BY <1>2, <1>3, <1>4, <1>5, <1>6 DEF SilverEffect
<1> QED
  BY <1>0, <1>2, <1>4, <1>7

\* An order refused for its customer has no quarantine row for the batch yet: it
\* could only be one for the fields, which pass.
LEMMA OrdersEffect ==
  ASSUME TypeOK, QuarantineIsEvidence, NEW b \in Batch, SilverOrders(b)
  PROVE  \E d \in Entity, T \in SUBSET Id, N \in SUBSET QuarantineRow : SilverEffect(b, d, T, N)
<1> DEFINE e == "orders"
           field == InBatch(e, b) \ (FieldsPass(e, b) \cup Quarantined(e, b))
           missing == {i \in FieldsPass(e, b) \ Resolved(e, b) :
                         \A q \in quarantine[e] : ~(q.batch = b /\ q.id = i /\ q.reasons = {"missing"})}
           why == [i \in field \cup missing |-> IF i \in field THEN {"field"} ELSE {"missing"}]
<1>1. e \in Checked /\ e \in Entity
  BY DEF Checked, Entity
<1>2. /\ At(b, e, "silver") /\ Quarantine(e, b, why)
      /\ Upsert(e, b, Trusted(e, b)) /\ AfterSilver(b)
  BY DEF SilverOrders
<1>3. FieldsPass(e, b) \subseteq InBatch(e, b)
  BY DEF FieldsPass
<1>4. ASSUME NEW i \in FieldsPass(e, b), NEW q \in quarantine[e], q.batch = b, q.id = i
      PROVE  q.reasons = {"missing"}
  <2>1. raw[e][b][i].fields = "valid"
    BY DEF FieldsPass
  <2>2. q.reasons # {} /\ "field" \notin q.reasons
    BY <1>1, <1>4, <2>1 DEF QuarantineIsEvidence
  <2>3. q.reasons \subseteq {"field", "missing"}
    BY <1>1 DEF TypeOK, QuarantineRow, Reason
  <2> QED
    BY <2>2, <2>3
<1>5. DOMAIN why \subseteq InBatch(e, b) \ Quarantined(e, b)
  <2>1. missing \cap Quarantined(e, b) = {}
    BY <1>4 DEF Quarantined
  <2> QED
    BY <1>3, <2>1
<1>6. InBatch(e, b) \subseteq Trusted(e, b) \cup Quarantined(e, b) \cup DOMAIN why
  <2>1. \A i \in FieldsPass(e, b) \ Resolved(e, b) : i \in missing \cup Quarantined(e, b)
    BY DEF Quarantined
  <2> QED
    BY <1>3, <2>1 DEF Trusted
<1>7. \A i \in DOMAIN why : /\ why[i] \in SUBSET Reason /\ why[i] # {}
                            /\ "field" \in why[i] <=> i \notin FieldsPass(e, b)
  BY DEF Reason
<1> HIDE DEF e, why
<1> QED
  BY <1>1, <1>2, <1>5, <1>6, <1>7, CheckedEffect

LEMMA OrderItemsEffect ==
  ASSUME TypeOK, NEW b \in Batch, SilverOrderItems(b)
  PROVE  \E d \in Entity, T \in SUBSET Id, N \in SUBSET QuarantineRow : SilverEffect(b, d, T, N)
<1> DEFINE e == "order_items"
           refused == InBatch(e, b) \ (Trusted(e, b) \cup Quarantined(e, b))
           why == [i \in refused |-> {r \in Reason :
                                        \/ (r = "field" /\ i \notin FieldsPass(e, b))
                                        \/ (r = "missing" /\ i \notin Resolved(e, b))}]
<1>1. e \in Checked
  BY DEF Checked
<1>2. /\ At(b, e, "silver") /\ Quarantine(e, b, why)
      /\ Upsert(e, b, Trusted(e, b)) /\ AfterSilver(b)
  BY DEF SilverOrderItems
<1>3. /\ DOMAIN why \subseteq InBatch(e, b) \ Quarantined(e, b)
      /\ InBatch(e, b) \subseteq Trusted(e, b) \cup Quarantined(e, b) \cup DOMAIN why
  OBVIOUS
<1>4. \A i \in DOMAIN why : /\ why[i] \in SUBSET Reason /\ why[i] # {}
                            /\ "field" \in why[i] <=> i \notin FieldsPass(e, b)
  <2> TAKE i \in DOMAIN why
  <2>1. i \notin FieldsPass(e, b) \/ i \notin Resolved(e, b)
    BY DEF Trusted
  <2>2. why[i] = {r \in Reason : \/ (r = "field" /\ i \notin FieldsPass(e, b))
                                 \/ (r = "missing" /\ i \notin Resolved(e, b))}
    OBVIOUS
  <2> QED
    BY <2>1, <2>2 DEF Reason
<1> HIDE DEF e, why
<1> QED
  BY <1>1, <1>2, <1>3, <1>4, CheckedEffect

LEMMA PaymentsEffect ==
  ASSUME TypeOK, NEW b \in Batch, SilverPayments(b)
  PROVE  \E d \in Entity, T \in SUBSET Id, N \in SUBSET QuarantineRow : SilverEffect(b, d, T, N)
<1> DEFINE e == "payments"
           refused == InBatch(e, b) \ (Trusted(e, b) \cup Quarantined(e, b))
           why == [i \in refused |-> IF i \in FieldsPass(e, b) THEN {"missing"} ELSE {"field"}]
<1>1. e \in Checked
  BY DEF Checked
<1>2. /\ At(b, e, "silver") /\ Quarantine(e, b, why)
      /\ Upsert(e, b, Trusted(e, b)) /\ AfterSilver(b)
  BY DEF SilverPayments
<1>3. /\ DOMAIN why \subseteq InBatch(e, b) \ Quarantined(e, b)
      /\ InBatch(e, b) \subseteq Trusted(e, b) \cup Quarantined(e, b) \cup DOMAIN why
  OBVIOUS
<1>4. \A i \in DOMAIN why : /\ why[i] \in SUBSET Reason /\ why[i] # {}
                            /\ "field" \in why[i] <=> i \notin FieldsPass(e, b)
  BY DEF Reason
<1> HIDE DEF e, why
<1> QED
  BY <1>1, <1>2, <1>3, <1>4, CheckedEffect

LEMMA SilverIsOneShape ==
  ASSUME TypeOK, QuarantineIsEvidence, NEW b \in Batch, LoadSilver(b)
  PROVE  \E d \in Entity, T \in SUBSET Id, N \in SUBSET QuarantineRow : SilverEffect(b, d, T, N)
BY UncheckedEffect, OrdersEffect, OrderItemsEffect, PaymentsEffect DEF LoadSilver

-----------------------------------------------------------------------------
(***************************************************************************)
(* Steps: which tables they touch, and what the tables never lose.         *)
(***************************************************************************)
LEMMA StepKinds ==
  ASSUME [Next]_vars
  PROVE  /\ (\E b \in Batch : LoadBronze(b)) \/ UNCHANGED raw
         /\ (\E b \in Batch : LoadSilver(b)) \/ UNCHANGED <<silver, quarantine>>
         /\ (\E b \in Batch : LoadSilver(b)) => UNCHANGED raw
         /\ (\E b \in Batch : LoadBronze(b)) => UNCHANGED <<silver, quarantine>>
<1>1. CASE UNCHANGED vars
  <2>1. UNCHANGED <<raw, silver, quarantine>>
    BY <1>1 DEF vars
  <2> QED
    BY <2>1
<1>2. CASE UpdateSource
  BY <1>2 DEF UpdateSource
<1>3. ASSUME NEW b \in Batch, NEW p \in Pipeline, Begin(b, p) PROVE UNCHANGED <<raw, silver, quarantine>>
  BY <1>3 DEF Begin
<1>4. ASSUME NEW b \in Batch, LoadBronze(b) PROVE UNCHANGED <<silver, quarantine>>
  BY <1>4 DEF LoadBronze
<1>5. ASSUME NEW b \in Batch, LoadSilver(b) PROVE UNCHANGED raw
  BY <1>5 DEF LoadSilver, SilverCustomers, SilverProducts, SilverOrders, SilverOrderItems,
              SilverPayments, AfterSilver
<1>6. ASSUME NEW b \in Batch, Complete(b) \/ Fail(b) \/ Release(b)
      PROVE  UNCHANGED <<raw, silver, quarantine>>
  BY <1>6 DEF Complete, Fail, Release
<1>7. \/ UNCHANGED vars \/ UpdateSource
      \/ \E b \in Batch : \/ \E p \in Pipeline : Begin(b, p)
                          \/ LoadBronze(b)
                          \/ LoadSilver(b)
                          \/ Complete(b) \/ Fail(b) \/ Release(b)
  BY DEF Next
<1> QED
  BY <1>1, <1>2, <1>3, <1>4, <1>5, <1>6, <1>7

\* Bronze only gains rows: INSERT ... WHERE NOT EXISTS.
LEMMA BronzeKeeps ==
  ASSUME TypeOK, [Next]_vars, NEW e \in Entity, NEW b \in Batch, NEW i \in Id,
         raw[e][b][i] # Absent
  PROVE  raw'[e][b][i] = raw[e][b][i]
<1>1. CASE UNCHANGED raw
  BY <1>1
<1>2. ASSUME NEW c \in Batch, LoadBronze(c) PROVE raw'[e][b][i] = raw[e][b][i]
  <2> DEFINE d == Current(c)
  <2>1. d \in Entity
    BY <1>2, StageFacts DEF LoadBronze
  <2>2. raw' = [raw EXCEPT ![d][c] = [j \in Id |-> BronzeRow(d, c, j)]]
    BY <1>2 DEF LoadBronze
  <2>3. CASE d = e /\ c = b
    <3>1. raw'[e][b][i] = BronzeRow(e, b, i)
      BY <2>1, <2>2, <2>3 DEF TypeOK
    <3> QED
      BY <3>1 DEF BronzeRow
  <2>4. CASE ~(d = e /\ c = b)
    BY <2>1, <2>2, <2>4 DEF TypeOK
  <2> QED
    BY <2>3, <2>4
<1> QED
  BY <1>1, <1>2, StepKinds

\* What a Silver load leaves in the table.
LEMMA Upserted ==
  ASSUME TypeOK, NEW e \in Entity, NEW b \in Batch, NEW S \in SUBSET Id, Upsert(e, b, S),
         NEW d \in Entity, NEW i \in Id
  PROVE  silver'[d][i] = IF d = e /\ i \in S THEN raw[e][b][i] ELSE silver[d][i]
BY DEF Upsert, TypeOK, Table

\* A step adds rows to Silver or replaces them, from Bronze, with references that
\* resolve and, where they are checked, valid fields; it removes none.
LEMMA SilverKeeps ==
  ASSUME TypeOK, QuarantineIsEvidence, [Next]_vars, NEW e \in Entity, NEW i \in Id
  PROVE  \/ silver'[e][i] = silver[e][i]
         \/ \E b \in Batch : /\ i \in InBatch(e, b)
                             /\ i \in Resolved(e, b)
                             /\ e \in Checked => raw[e][b][i].fields = "valid"
                             /\ silver'[e][i] = raw[e][b][i]
                             /\ silver'[e][i] # Absent
                             /\ UNCHANGED raw
<1>1. CASE UNCHANGED silver
  BY <1>1
<1>2. ASSUME NEW b \in Batch, LoadSilver(b)
      PROVE  \/ silver'[e][i] = silver[e][i]
             \/ /\ i \in InBatch(e, b)
                /\ i \in Resolved(e, b)
                /\ e \in Checked => raw[e][b][i].fields = "valid"
                /\ silver'[e][i] = raw[e][b][i]
                /\ silver'[e][i] # Absent
                /\ UNCHANGED raw
  <2>1. PICK d \in Entity, S \in SUBSET Id, N \in SUBSET QuarantineRow : SilverEffect(b, d, S, N)
    BY <1>2, SilverIsOneShape
  <2>2. silver'[e][i] = IF e = d /\ i \in S THEN raw[d][b][i] ELSE silver[e][i]
    BY <2>1, Upserted DEF SilverEffect
  <2>3. CASE e = d /\ i \in S
    <3>1. i \in Resolved(e, b) /\ (e \in Checked => i \in FieldsPass(e, b))
      BY <2>1, <2>3 DEF SilverEffect
    <3>2. i \in InBatch(e, b) /\ raw[e][b][i] # Absent
      BY <3>1 DEF Resolved, InBatch
    <3>3. e \in Checked => raw[e][b][i].fields = "valid"
      BY <3>1 DEF FieldsPass
    <3>4. UNCHANGED raw
      BY <1>2, StepKinds
    <3> QED
      BY <2>2, <2>3, <3>1, <3>2, <3>3, <3>4
  <2>4. CASE ~(e = d /\ i \in S)
    BY <2>2, <2>4
  <2> QED
    BY <2>3, <2>4
<1> QED
  BY <1>1, <1>2, StepKinds

LEMMA SilverRowStays ==
  ASSUME TypeOK, QuarantineIsEvidence, [Next]_vars, NEW e \in Entity, NEW i \in Id,
         silver[e][i] # Absent
  PROVE  silver'[e][i] # Absent
BY SilverKeeps

\* A step adds to one quarantine table rows that fit, and removes none.
LEMMA QuarantineKeeps ==
  ASSUME TypeOK, QuarantineIsEvidence, [Next]_vars
  PROVE  \/ UNCHANGED quarantine
         \/ \E b \in Batch, d \in Entity, N \in SUBSET QuarantineRow :
              /\ quarantine' = [quarantine EXCEPT ![d] = @ \cup N]
              /\ \A q \in N : QuarantineFits(d, b, q)
              /\ \A q1, q2 \in N : q1.id = q2.id => q1 = q2
              /\ UNCHANGED raw
<1>1. CASE UNCHANGED quarantine
  BY <1>1
<1>2. ASSUME NEW b \in Batch, LoadSilver(b)
      PROVE  \E d \in Entity, N \in SUBSET QuarantineRow :
               /\ quarantine' = [quarantine EXCEPT ![d] = @ \cup N]
               /\ \A q \in N : QuarantineFits(d, b, q)
               /\ \A q1, q2 \in N : q1.id = q2.id => q1 = q2
               /\ UNCHANGED raw
  <2>1. UNCHANGED raw
    BY <1>2, StepKinds
  <2> QED
    BY <1>2, <2>1, SilverIsOneShape DEF SilverEffect
<1> QED
  BY <1>1, <1>2, StepKinds

-----------------------------------------------------------------------------
(***************************************************************************)
(* The type invariant.                                                     *)
(***************************************************************************)
LEMMA InitTypeOK == Init => TypeOK
<1> SUFFICES ASSUME Init PROVE TypeOK
  OBVIOUS
<1>1. tries \in [Batch -> 0 .. MaxTries] /\ at \in [Batch -> Nat]
  BY EntitiesAssumption DEF Init
<1> QED
  BY <1>1 DEF Init, TypeOK, Table

LEMMA SourceRow ==
  ASSUME TypeOK, NEW e \in Entity, NEW i \in Id
  PROVE  source[e][i] \in Row \cup {Absent}
BY EntitiesAssumption DEF TypeOK, Table

\* Entity tables keep their type when the attempts' steps write them.
LEMMA NextTables ==
  ASSUME TypeOK, QuarantineIsEvidence, [Next]_vars
  PROVE  /\ raw' \in [Entity -> [Batch -> Table]]
         /\ silver' \in [Entity -> Table]
         /\ quarantine' \in [Entity -> SUBSET QuarantineRow]
<1>1. raw' \in [Entity -> [Batch -> Table]]
  <2>1. CASE UNCHANGED raw
    BY <2>1 DEF TypeOK
  <2>2. ASSUME NEW b \in Batch, LoadBronze(b) PROVE raw' \in [Entity -> [Batch -> Table]]
    <3> DEFINE e == Current(b)
    <3>1. e \in Entity
      BY <2>2, StageFacts DEF LoadBronze
    <3>2. raw' = [raw EXCEPT ![e][b] = [i \in Id |-> BronzeRow(e, b, i)]]
      BY <2>2 DEF LoadBronze
    <3>3. \A i \in Id : BronzeRow(e, b, i) \in Row \cup {Absent}
      BY <3>1, SourceRow DEF BronzeRow, TypeOK, Table
    <3>4. [i \in Id |-> BronzeRow(e, b, i)] \in Table
      BY <3>3 DEF Table
    <3> HIDE DEF e
    <3> QED
      BY <3>1, <3>2, <3>4 DEF TypeOK
  <2> QED
    BY <2>1, <2>2, StepKinds
<1>2. silver' \in [Entity -> Table]
  <2>1. CASE UNCHANGED silver
    BY <2>1 DEF TypeOK
  <2>2. ASSUME NEW b \in Batch, LoadSilver(b) PROVE silver' \in [Entity -> Table]
    <3>1. PICK e \in Entity, S \in SUBSET Id, N \in SUBSET QuarantineRow : SilverEffect(b, e, S, N)
      BY <2>2, SilverIsOneShape
    <3>2. silver' = [silver EXCEPT ![e] = [i \in Id |-> IF i \in S THEN raw[e][b][i] ELSE silver[e][i]]]
      BY <3>1 DEF SilverEffect, Upsert
    <3>3. [i \in Id |-> IF i \in S THEN raw[e][b][i] ELSE silver[e][i]] \in Table
      BY DEF TypeOK, Table
    <3> QED
      BY <3>2, <3>3 DEF TypeOK
  <2> QED
    BY <2>1, <2>2, StepKinds
<1>3. quarantine' \in [Entity -> SUBSET QuarantineRow]
  BY QuarantineKeeps DEF TypeOK
<1> QED
  BY <1>1, <1>2, <1>3

\* A stage that is over is followed by a stage or by the end of the plan.
LEMMA AfterSilverControl ==
  ASSUME TypeOK, NEW b \in Batch, AtStage(b, "silver"), AfterSilver(b)
  PROVE  /\ at' = [at EXCEPT ![b] = @ + 1]
         /\ at[b] + 1 <= Len(Plan(b)) + 1
         /\ UNCHANGED <<batches, tries, source>>
         /\ layer' \in [Batch -> {"bronze", "silver"}]
<1>1. Len(Plan(b)) \in Nat /\ at[b] \in 1 .. Len(Plan(b))
  BY StageFacts
<1> QED
  BY <1>1 DEF AfterSilver, TypeOK

LEMMA NextTypeOK ==
  ASSUME TypeOK, QuarantineIsEvidence, [Next]_vars
  PROVE  TypeOK'
<1> DEFINE Control(c) == at'[c] # 0 =>
             batches'[c] # NoBatch /\ tries'[c] # 0 /\ at'[c] <= Len(Plan(c)') + 1
           ControlOK ==
             /\ source' \in Sources
             /\ batches' \in [Batch -> BatchRow \cup {NoBatch}]
             /\ at' \in [Batch -> Nat]
             /\ \A c \in Batch : Control(c)
             /\ layer' \in [Batch -> {"bronze", "silver"}]
             /\ tries' \in [Batch -> 0 .. MaxTries]
<1>1. ASSUME UNCHANGED vars PROVE ControlOK
  BY <1>1 DEF vars, TypeOK, Plan
<1>2. ASSUME UpdateSource PROVE ControlOK
  BY <1>2 DEF UpdateSource, control, TypeOK, Plan
<1>3. ASSUME NEW b \in Batch, NEW p \in Pipeline, Begin(b, p) PROVE ControlOK
  <2>1. [pipeline |-> p, status |-> "RUNNING"] \in BatchRow
    BY DEF BatchRow
  <2>2. [pipeline |-> p, status |-> "RUNNING"] # NoBatch
    BY DEF NoBatch
  <2>3. Len(Entities[p]) \in Nat
    BY EntitiesAssumption
  <2>4. tries[b] + 1 \in 1 .. MaxTries
    BY <1>3, EntitiesAssumption DEF Begin, TypeOK
  <2>5. Control(b)
    BY <1>3, <2>2, <2>3, <2>4 DEF Begin, TypeOK, Plan
  <2>6. \A c \in Batch \ {b} : Control(c)
    BY <1>3 DEF Begin, TypeOK, Plan
  <2> QED
    BY <1>3, <2>1, <2>4, <2>5, <2>6 DEF Begin, TypeOK
<1>4. ASSUME NEW b \in Batch, LoadBronze(b) PROVE ControlOK
  BY <1>4 DEF LoadBronze, TypeOK, Plan
<1>5. ASSUME NEW b \in Batch, LoadSilver(b) PROVE ControlOK
  <2>1. /\ AtStage(b, "silver") /\ AfterSilver(b)
    BY <1>5, SilverIsOneShape DEF SilverEffect, At
  <2>2. /\ at' = [at EXCEPT ![b] = @ + 1]
        /\ at[b] + 1 <= Len(Plan(b)) + 1
        /\ UNCHANGED <<batches, tries, source>>
        /\ layer' \in [Batch -> {"bronze", "silver"}]
    BY <2>1, AfterSilverControl
  <2>3. at[b] # 0
    BY <2>1 DEF AtStage
  <2>4. \A c \in Batch : Control(c)
    BY <2>2, <2>3 DEF TypeOK, Plan
  <2> QED
    BY <2>2, <2>4 DEF TypeOK
<1>6. ASSUME NEW b \in Batch, Complete(b) \/ Fail(b) PROVE ControlOK
  <2>1. at[b] # 0 /\ batches[b] \in BatchRow
    BY <1>6 DEF Complete, Fail, TypeOK
  <2>2. PICK s \in {"SUCCESS", "FAILED"} : batches' = [batches EXCEPT ![b].status = s]
    BY <1>6 DEF Complete, Fail
  <2>3. /\ [batches[b] EXCEPT !.status = s] \in BatchRow
        /\ [batches[b] EXCEPT !.status = s].pipeline = batches[b].pipeline
        /\ [batches[b] EXCEPT !.status = s] # NoBatch
    BY <2>1 DEF BatchRow, NoBatch
  <2>4. batches' = [batches EXCEPT ![b] = [batches[b] EXCEPT !.status = s]]
    BY <2>2
  <2>5. batches' \in [Batch -> BatchRow \cup {NoBatch}]
    BY <2>3, <2>4 DEF TypeOK
  <2>6. \A c \in Batch : Plan(c)' = Plan(c) /\ (batches[c] # NoBatch => batches'[c] # NoBatch)
    BY <2>3, <2>4 DEF TypeOK, Plan
  <2>7. \A c \in Batch : at'[c] \in {at[c], 0} /\ tries'[c] = tries[c]
    BY <1>6 DEF Complete, Fail, TypeOK
  <2>8. \A c \in Batch : Control(c)
    BY <2>6, <2>7 DEF TypeOK
  <2> QED
    BY <1>6, <2>5, <2>8 DEF Complete, Fail, TypeOK
<1>7. ASSUME NEW b \in Batch, Release(b) PROVE ControlOK
  BY <1>7 DEF Release, TypeOK, Plan
<1> HIDE DEF ControlOK
<1>8. ControlOK
  BY <1>1, <1>2, <1>3, <1>4, <1>5, <1>6, <1>7 DEF Next
<1>9. /\ raw' \in [Entity -> [Batch -> Table]]
      /\ silver' \in [Entity -> Table]
      /\ quarantine' \in [Entity -> SUBSET QuarantineRow]
  BY NextTables
<1> QED
  BY <1>8, <1>9 DEF TypeOK, ControlOK

-----------------------------------------------------------------------------
(***************************************************************************)
(* The invariant of the tables.  Each of its parts is preserved because    *)
(* rows are written from Bronze and none is lost; that a missing reference *)
(* is quarantined once rests on the evidence part.                         *)
(***************************************************************************)
TableInv ==
  /\ TypeOK
  /\ ReferencesResolve
  /\ SilverComesFromBronze
  /\ SilverFieldsValid
  /\ OneQuarantineRow
  /\ QuarantineIsEvidence

LEMMA InitTableInv == Init => TableInv
<1> SUFFICES ASSUME Init PROVE TableInv
  OBVIOUS
<1>1. /\ \A e \in Entity, i \in Id : silver[e][i] = Absent
      /\ \A e \in Entity : quarantine[e] = {}
  BY DEF Init
<1>2. ReferencesResolve /\ SilverComesFromBronze
  BY <1>1 DEF ReferencesResolve, SilverComesFromBronze
<1>3. SilverFieldsValid
  BY <1>1 DEF SilverFieldsValid, Entity
<1>4. OneQuarantineRow /\ QuarantineIsEvidence
  BY <1>1 DEF OneQuarantineRow, QuarantineIsEvidence
<1> QED
  BY <1>2, <1>3, <1>4, InitTypeOK DEF TableInv

LEMMA NextReferences ==
  ASSUME TableInv, [Next]_vars
  PROVE  ReferencesResolve'
<1> USE DEF TableInv
<1> SUFFICES ASSUME NEW e \in Entity, NEW i \in Id, silver'[e][i] # Absent, NEW p \in Parents[e]
             PROVE  silver'[p][silver'[e][i].refs[p]] # Absent
  BY DEF ReferencesResolve
<1>1. PICK k \in Id : k = silver'[e][i].refs[p] /\ silver[p][k] # Absent /\ p \in Entity
  <2>1. p \in Entity
    BY DEF Parents, Entity
  <2>2. CASE silver'[e][i] = silver[e][i]
    <3>1. silver[e][i] \in Row
      BY <2>2 DEF TypeOK, Table
    <3>2. silver[e][i].refs[p] \in Id
      BY <2>1, <3>1 DEF Row
    <3> QED
      BY <2>1, <2>2, <3>2 DEF ReferencesResolve
  <2>3. ASSUME NEW b \in Batch, i \in Resolved(e, b), silver'[e][i] = raw[e][b][i]
        PROVE  \E k \in Id : k = silver'[e][i].refs[p] /\ silver[p][k] # Absent /\ p \in Entity
    <3>1. raw[e][b][i].refs[p] \in Id
      BY <2>3, LoadedRow DEF Resolved
    <3> QED
      BY <2>1, <2>3, <3>1 DEF Resolved
  <2> QED
    BY <2>2, <2>3, SilverKeeps
<1>2. silver'[p][k] # Absent
  BY <1>1, SilverRowStays
<1> QED
  BY <1>1, <1>2

LEMMA NextComesFromBronze ==
  ASSUME TableInv, [Next]_vars
  PROVE  SilverComesFromBronze'
<1> USE DEF TableInv
<1> SUFFICES ASSUME NEW e \in Entity, NEW i \in Id, silver'[e][i] # Absent
             PROVE  \E b \in Batch : raw'[e][b][i] = silver'[e][i]
  BY DEF SilverComesFromBronze
<1>1. CASE silver'[e][i] = silver[e][i]
  <2>1. PICK b \in Batch : raw[e][b][i] = silver[e][i]
    BY <1>1 DEF SilverComesFromBronze
  <2>2. raw'[e][b][i] = raw[e][b][i]
    BY <1>1, <2>1, BronzeKeeps
  <2> QED
    BY <1>1, <2>1, <2>2
<1>2. CASE \E b \in Batch : silver'[e][i] = raw[e][b][i] /\ UNCHANGED raw
  BY <1>2
<1> QED
  BY <1>1, <1>2, SilverKeeps

LEMMA NextFieldsValid ==
  ASSUME TableInv, [Next]_vars
  PROVE  SilverFieldsValid'
<1> USE DEF TableInv
<1> SUFFICES ASSUME NEW e \in Checked, NEW i \in Id, silver'[e][i] # Absent
             PROVE  silver'[e][i].fields = "valid"
  BY DEF SilverFieldsValid, Checked
<1>1. e \in Entity
  BY DEF Checked, Entity
<1> QED
  BY <1>1, SilverKeeps DEF SilverFieldsValid, Checked

LEMMA NextOneRow ==
  ASSUME TableInv, [Next]_vars
  PROVE  OneQuarantineRow'
<1> USE DEF TableInv
<1>1. CASE UNCHANGED quarantine
  BY <1>1 DEF OneQuarantineRow
<1>2. ASSUME NEW b \in Batch, NEW d \in Entity, NEW N \in SUBSET QuarantineRow,
             quarantine' = [quarantine EXCEPT ![d] = @ \cup N],
             \A q \in N : QuarantineFits(d, b, q),
             \A q1, q2 \in N : q1.id = q2.id => q1 = q2
      PROVE  OneQuarantineRow'
  <2> SUFFICES ASSUME NEW e \in Entity, NEW q1 \in quarantine'[e], NEW q2 \in quarantine'[e],
                      q1.batch = q2.batch, q1.id = q2.id
               PROVE  q1 = q2
    BY DEF OneQuarantineRow
  <2>1. quarantine'[e] = IF e = d THEN quarantine[e] \cup N ELSE quarantine[e]
    BY <1>2 DEF TypeOK
  <2>2. \A q \in quarantine[e], n \in N : e = d /\ q.batch = n.batch => q.id # n.id
    BY <1>2 DEF QuarantineFits, Quarantined
  <2>3. CASE q1 \in quarantine[e] /\ q2 \in quarantine[e]
    BY <2>3 DEF OneQuarantineRow
  <2>4. CASE q1 \in N /\ q2 \in N
    BY <1>2, <2>4
  <2> QED
    BY <2>1, <2>2, <2>3, <2>4
<1> QED
  BY <1>1, <1>2, QuarantineKeeps

LEMMA NextEvidence ==
  ASSUME TableInv, [Next]_vars
  PROVE  QuarantineIsEvidence'
<1> USE DEF TableInv
<1> DEFINE Bears(e, q) == /\ raw'[e][q.batch][q.id] # Absent
                          /\ q.reasons # {}
                          /\ "field" \in q.reasons <=> raw'[e][q.batch][q.id].fields # "valid"
<1>1. ASSUME NEW e \in Entity, NEW q \in quarantine[e] PROVE Bears(e, q)
  <2>1. q.batch \in Batch /\ q.id \in Id
    BY DEF TypeOK, QuarantineRow
  <2>2. /\ raw[e][q.batch][q.id] # Absent
        /\ q.reasons # {}
        /\ "field" \in q.reasons <=> raw[e][q.batch][q.id].fields # "valid"
    BY DEF QuarantineIsEvidence
  <2>3. raw'[e][q.batch][q.id] = raw[e][q.batch][q.id]
    BY <2>1, <2>2, BronzeKeeps
  <2> QED
    BY <2>2, <2>3
<1>2. ASSUME NEW b \in Batch, NEW d \in Entity, NEW N \in SUBSET QuarantineRow, NEW q \in N,
             QuarantineFits(d, b, q), UNCHANGED raw
      PROVE  Bears(d, q)
  BY <1>2 DEF QuarantineFits, InBatch
<1> HIDE DEF Bears
<1>3. \A e \in Entity : \A q \in quarantine'[e] : Bears(e, q)
  <2>1. CASE UNCHANGED quarantine
    BY <1>1, <2>1
  <2>2. ASSUME NEW b \in Batch, NEW d \in Entity, NEW N \in SUBSET QuarantineRow,
               quarantine' = [quarantine EXCEPT ![d] = @ \cup N],
               \A q \in N : QuarantineFits(d, b, q), UNCHANGED raw
        PROVE  \A e \in Entity : \A q \in quarantine'[e] : Bears(e, q)
    <3>1. \A q \in N : Bears(d, q)
      BY <1>2, <2>2
    <3>2. \A e \in Entity : quarantine'[e] \subseteq quarantine[e] \cup IF e = d THEN N ELSE {}
      BY <2>2 DEF TypeOK
    <3> QED
      BY <1>1, <3>1, <3>2
  <2> QED
    BY <2>1, <2>2, QuarantineKeeps
<1> QED
  BY <1>3 DEF Bears, QuarantineIsEvidence

LEMMA NextTableInv == TableInv /\ [Next]_vars => TableInv'
<1> SUFFICES ASSUME TableInv, [Next]_vars PROVE TableInv'
  OBVIOUS
<1>1. TypeOK'
  BY NextTypeOK DEF TableInv
<1> QED
  BY <1>1, NextReferences, NextComesFromBronze, NextFieldsValid, NextOneRow, NextEvidence
  DEF TableInv

LEMMA AlwaysTableInv == Spec => []TableInv
BY InitTableInv, NextTableInv, PTL DEF Spec

-----------------------------------------------------------------------------
(***************************************************************************)
(* Nothing is dropped: an attempt leaves behind it only entities whose     *)
(* rows are accounted for, and a batch is SUCCESS behind the last one.     *)
(***************************************************************************)
Work(b) ==
  at[b] # 0 =>
    /\ batches[b].status \in {"RUNNING", "SUCCESS"}
    /\ at[b] <= Len(Plan(b)) => batches[b].status = "RUNNING"
    /\ \A k \in DOMAIN Plan(b) : k < at[b] => Accounted(Plan(b)[k], b)

Done(b) ==
  batches[b].status = "SUCCESS" => \A k \in DOMAIN Plan(b) : Accounted(Plan(b)[k], b)

WorkInv == TableInv /\ \A b \in Batch : Work(b) /\ Done(b)

LEMMA InitWorkInv == Init => WorkInv
BY InitTableInv DEF Init, WorkInv, Work, Done, NoBatch

\* Silver and the quarantine only gain keys.
LEMMA AccountedStays ==
  ASSUME TableInv, [Next]_vars, NEW e \in Entity, NEW b \in Batch,
         Accounted(e, b), raw'[e][b] = raw[e][b]
  PROVE  Accounted(e, b)'
<1> SUFFICES ASSUME NEW i \in InBatch(e, b)
             PROVE  silver'[e][i] # Absent
                      \/ \E q \in quarantine'[e] : q.batch = b /\ q.id = i
  BY DEF Accounted, InBatch
<1>1. i \in Id
  BY DEF InBatch
<1>2. CASE silver[e][i] # Absent
  BY <1>1, <1>2, SilverRowStays DEF TableInv
<1>3. CASE \E q \in quarantine[e] : q.batch = b /\ q.id = i
  <2>1. quarantine[e] \subseteq quarantine'[e]
    BY QuarantineKeeps DEF TableInv, TypeOK
  <2> QED
    BY <1>3, <2>1
<1> QED
  BY <1>2, <1>3 DEF Accounted

\* The entity whose Silver load has just been done is accounted for.
LEMMA AccountedNow ==
  ASSUME TableInv, [Next]_vars, NEW b \in Batch, NEW e \in Entity,
         LoadSilver(b), Current(b) = e
  PROVE  Accounted(e, b)'
<1>1. PICK S \in SUBSET Id, N \in SUBSET QuarantineRow : SilverEffect(b, e, S, N)
  <2>1. \E d \in Entity, S \in SUBSET Id, N \in SUBSET QuarantineRow : SilverEffect(b, d, S, N)
    BY SilverIsOneShape DEF TableInv
  <2>2. ASSUME NEW d \in Entity, NEW S \in SUBSET Id, NEW N \in SUBSET QuarantineRow,
               SilverEffect(b, d, S, N)
        PROVE  d = e
    BY <2>2 DEF SilverEffect, At
  <2> QED
    BY <2>1, <2>2
<1>2. UNCHANGED raw
  BY StepKinds
<1>3. quarantine'[e] = quarantine[e] \cup N
  BY <1>1 DEF SilverEffect, TableInv, TypeOK
<1>4. ASSUME NEW i \in InBatch(e, b)
      PROVE  silver'[e][i] # Absent \/ \E q \in quarantine'[e] : q.batch = b /\ q.id = i
  <2>1. i \in Id /\ raw[e][b][i] # Absent
    BY DEF InBatch
  <2>2. CASE i \in S
    <3>1. silver'[e][i] = raw[e][b][i]
      BY <1>1, <2>1, <2>2, Upserted DEF SilverEffect, TableInv
    <3> QED
      BY <2>1, <3>1
  <2>3. CASE i \in Quarantined(e, b)
    BY <1>3, <2>3 DEF Quarantined
  <2>4. CASE \E q \in N : q.id = i
    BY <1>1, <1>3, <2>4 DEF SilverEffect, QuarantineFits
  <2> QED
    BY <1>1, <2>2, <2>3, <2>4 DEF SilverEffect
<1>5. InBatch(e, b)' = InBatch(e, b)
  BY <1>2 DEF InBatch
<1> QED
  BY <1>4, <1>5 DEF Accounted

\* A step changes the control of one batch at most, and Bronze only of the entity
\* that batch is at.
LEMMA OtherBatch ==
  ASSUME TypeOK, NEW b \in Batch,
         \/ \E p \in Pipeline : Begin(b, p)
         \/ LoadBronze(b)
         \/ LoadSilver(b)
         \/ Complete(b) \/ Fail(b) \/ Release(b),
         NEW c \in Batch \ {b}
  PROVE  /\ batches'[c] = batches[c] /\ at'[c] = at[c]
         /\ layer'[c] = layer[c] /\ tries'[c] = tries[c]
         /\ \A e \in Entity : raw'[e][c] = raw[e][c]
<1>1. ASSUME NEW p \in Pipeline, Begin(b, p)
      PROVE  /\ batches'[c] = batches[c] /\ at'[c] = at[c] /\ UNCHANGED raw
             /\ layer'[c] = layer[c] /\ tries'[c] = tries[c]
  BY <1>1 DEF Begin, TypeOK
<1>2. CASE LoadBronze(b)
  <2>1. Current(b) \in Entity
    BY <1>2, StageFacts DEF LoadBronze
  <2> QED
    BY <1>2, <2>1 DEF LoadBronze, TypeOK
<1>3. CASE LoadSilver(b)
  <2>1. AfterSilver(b)
    BY <1>3 DEF LoadSilver, SilverCustomers, SilverProducts, SilverOrders, SilverOrderItems,
                SilverPayments
  <2> QED
    BY <2>1 DEF AfterSilver, TypeOK
<1>4. CASE Complete(b) \/ Fail(b) \/ Release(b)
  BY <1>4 DEF Complete, Fail, Release, TypeOK
<1> QED
  BY <1>1, <1>2, <1>3, <1>4

\* What was true of the work at a batch stays true in a step that leaves its
\* control and its Bronze rows alone.
LEMMA WorkStays ==
  ASSUME WorkInv, [Next]_vars, NEW c \in Batch,
         batches'[c] = batches[c], at'[c] = at[c],
         \A e \in Entity : raw'[e][c] = raw[e][c]
  PROVE  Work(c)' /\ Done(c)'
<1>1. Plan(c)' = Plan(c)
  BY DEF Plan
<1>2. ASSUME NEW k \in DOMAIN Plan(c), Accounted(Plan(c)[k], c), batches[c] # NoBatch
      PROVE  Accounted(Plan(c)[k], c)'
  <2>1. batches[c].pipeline \in Pipeline
    BY <1>2 DEF WorkInv, TableInv, TypeOK, BatchRow
  <2>2. PICK e \in Entity : e = Plan(c)[k]
    BY <2>1, EntitiesAssumption DEF Plan
  <2>3. Accounted(e, c)'
    BY <1>2, <2>2, AccountedStays DEF WorkInv
  <2> QED
    BY <1>1, <2>2, <2>3
<1>3. batches[c].status \in {"RUNNING", "SUCCESS"} => batches[c] # NoBatch
  BY DEF NoBatch
<1>4. Work(c)'
  BY <1>1, <1>2, <1>3 DEF WorkInv, Work
<1>5. Done(c)'
  BY <1>1, <1>2, <1>3 DEF WorkInv, Done
<1> QED
  BY <1>4, <1>5

\* ... and in each step of the attempt at the batch itself.
LEMMA OwnBatch ==
  ASSUME WorkInv, [Next]_vars, NEW b \in Batch,
         \/ \E p \in Pipeline : Begin(b, p)
         \/ LoadBronze(b)
         \/ LoadSilver(b)
         \/ Complete(b) \/ Fail(b) \/ Release(b)
  PROVE  Work(b)' /\ Done(b)'
<1> USE DEF WorkInv, TableInv
<1>1. ASSUME NEW p \in Pipeline, Begin(b, p) PROVE Work(b)' /\ Done(b)'
  <2>1. batches'[b].status = "RUNNING" /\ at'[b] = 1
    BY <1>1 DEF Begin, TypeOK
  <2>2. \A k \in DOMAIN Plan(b)' : ~(k < 1)
    <3>1. Plan(b)' = Entities[p]
      BY <1>1 DEF Begin, TypeOK, Plan
    <3> QED
      BY <3>1, EntitiesAssumption
  <2> QED
    BY <2>1, <2>2 DEF Work, Done
<1>2. CASE LoadBronze(b)
  <2>1. /\ AtStage(b, "bronze") /\ UNCHANGED <<batches, at>>
        /\ raw' = [raw EXCEPT ![Current(b)][b] = [i \in Id |-> BronzeRow(Current(b), b, i)]]
    BY <1>2 DEF LoadBronze
  <2>2. /\ batches[b].pipeline \in Pipeline
        /\ Plan(b) \in Seq(Entity) /\ at[b] \in DOMAIN Plan(b) /\ Current(b) \in Entity
    BY <2>1, StageFacts
  <2>3. Plan(b)' = Plan(b)
    BY <2>1 DEF Plan
  <2>4. batches[b].status = "RUNNING" /\ at[b] # 0 /\ at[b] <= Len(Plan(b))
    BY <2>1 DEF AtStage, Work
  <2>5. ASSUME NEW k \in DOMAIN Plan(b), k < at[b] PROVE Accounted(Plan(b)[k], b)'
    <3>1. PICK e \in Entity : e = Plan(b)[k]
      BY <2>2
    <3>2. e # Current(b)
      BY <2>2, <2>5, <3>1, EntitiesAssumption DEF Current, Plan
    <3>3. raw'[e][b] = raw[e][b]
      BY <2>1, <2>2, <3>2 DEF TypeOK
    <3>4. Accounted(e, b)'
      BY <2>4, <2>5, <3>1, <3>3, AccountedStays DEF Work
    <3> QED
      BY <2>3, <3>1, <3>4
  <2> QED
    BY <2>1, <2>3, <2>4, <2>5 DEF Work, Done
<1>3. CASE LoadSilver(b)
  <2>1. AtStage(b, "silver") /\ AfterSilver(b)
    BY <1>3, SilverIsOneShape DEF SilverEffect, At
  <2>2. /\ batches[b].pipeline \in Pipeline
        /\ Plan(b) \in Seq(Entity) /\ at[b] \in DOMAIN Plan(b) /\ Current(b) \in Entity
    BY <2>1, StageFacts
  <2>3. Plan(b)' = Plan(b) /\ UNCHANGED <<batches, raw>> /\ at'[b] = at[b] + 1
    BY <2>1 DEF AfterSilver, Plan, TypeOK
  <2>4. batches[b].status = "RUNNING" /\ at[b] # 0
    BY <2>1 DEF AtStage, Work
  <2>5. ASSUME NEW k \in DOMAIN Plan(b), k < at[b] + 1 PROVE Accounted(Plan(b)[k], b)'
    <3>1. PICK e \in Entity : e = Plan(b)[k]
      BY <2>2
    <3>2. CASE k < at[b]
      BY <2>3, <2>4, <3>1, <3>2, AccountedStays DEF Work
    <3>3. CASE k = at[b]
      BY <1>3, <2>3, <3>1, <3>3, AccountedNow DEF Current
    <3> QED
      BY <2>2, <2>5, <3>2, <3>3
  <2>6. at[b] + 1 <= Len(Plan(b)) => at[b] <= Len(Plan(b))
    BY <2>2
  <2> QED
    BY <2>3, <2>4, <2>5 DEF Work, Done
<1>4. CASE Complete(b)
  <2>1. /\ at[b] # 0 /\ at[b] > Len(Plan(b)) /\ UNCHANGED <<at, raw>>
        /\ batches' = [batches EXCEPT ![b].status = "SUCCESS"]
    BY <1>4 DEF Complete
  <2>2. batches[b] \in BatchRow
    BY <2>1 DEF TypeOK
  <2>3. batches'[b].status = "SUCCESS" /\ batches'[b].pipeline = batches[b].pipeline
    BY <2>1, <2>2 DEF TypeOK, BatchRow
  <2>4. Plan(b)' = Plan(b) /\ Plan(b) \in Seq(Entity)
    BY <2>2, <2>3, EntitiesAssumption DEF Plan, BatchRow
  <2>5. ~(at'[b] <= Len(Plan(b)'))
    BY <2>1, <2>4 DEF TypeOK
  <2>6. ASSUME NEW k \in DOMAIN Plan(b) PROVE Accounted(Plan(b)[k], b)'
    <3>1. PICK e \in Entity : e = Plan(b)[k]
      BY <2>4
    <3>2. k < at[b]
      BY <2>1, <2>4 DEF TypeOK
    <3>3. Accounted(e, b)
      BY <2>1, <3>1, <3>2 DEF Work
    <3>4. Accounted(e, b)'
      BY <2>1, <3>3, AccountedStays
    <3> QED
      BY <2>4, <3>1, <3>4
  <2> QED
    BY <2>3, <2>4, <2>5, <2>6 DEF Work, Done
<1>5. CASE Fail(b)
  <2>1. batches[b] \in BatchRow
    BY <1>5 DEF Fail, TypeOK
  <2>2. at'[b] = 0 /\ batches'[b].status = "FAILED"
    BY <1>5, <2>1 DEF Fail, TypeOK, BatchRow
  <2> QED
    BY <2>2 DEF Work, Done
<1>6. CASE Release(b)
  <2>1. at'[b] = 0 /\ UNCHANGED <<batches, raw>>
    BY <1>6 DEF Release, TypeOK
  <2>2. Plan(b)' = Plan(b)
    BY <2>1 DEF Plan
  <2>3. ASSUME batches[b].status = "SUCCESS", NEW k \in DOMAIN Plan(b)
        PROVE  Accounted(Plan(b)[k], b)'
    <3>1. Plan(b) \in Seq(Entity)
      BY <2>3, EntitiesAssumption DEF Plan, TypeOK, BatchRow, NoBatch
    <3>2. PICK e \in Entity : e = Plan(b)[k]
      BY <3>1
    <3>3. Accounted(e, b)'
      BY <2>1, <2>3, <3>2, AccountedStays DEF Done
    <3> QED
      BY <2>2, <3>2, <3>3
  <2> QED
    BY <2>1, <2>2, <2>3 DEF Work, Done
<1> QED
  BY <1>1, <1>2, <1>3, <1>4, <1>5, <1>6

LEMMA NextWorkInv == WorkInv /\ [Next]_vars => WorkInv'
<1> SUFFICES ASSUME WorkInv, [Next]_vars PROVE WorkInv'
  OBVIOUS
<1>1. TableInv'
  BY NextTableInv DEF WorkInv
<1>2. CASE UNCHANGED vars \/ UpdateSource
  <2>1. UNCHANGED <<batches, at, raw>>
    BY <1>2 DEF vars, UpdateSource, control
  <2> QED
    BY <1>1, <2>1, WorkStays DEF WorkInv
<1>3. ASSUME NEW b \in Batch,
             \/ \E p \in Pipeline : Begin(b, p)
             \/ LoadBronze(b)
             \/ LoadSilver(b)
             \/ Complete(b) \/ Fail(b) \/ Release(b)
      PROVE  WorkInv'
  <2>1. Work(b)' /\ Done(b)'
    BY <1>3, OwnBatch
  <2>2. ASSUME NEW c \in Batch \ {b} PROVE Work(c)' /\ Done(c)'
    <3>1. /\ batches'[c] = batches[c] /\ at'[c] = at[c]
          /\ \A e \in Entity : raw'[e][c] = raw[e][c]
      BY <1>3, OtherBatch DEF WorkInv, TableInv
    <3> QED
      BY <3>1, WorkStays
  <2> QED
    BY <1>1, <2>1, <2>2 DEF WorkInv
<1> QED
  BY <1>2, <1>3 DEF Next

LEMMA AlwaysWorkInv == Spec => []WorkInv
BY InitWorkInv, NextWorkInv, PTL DEF Spec

-----------------------------------------------------------------------------
(***************************************************************************)
(* The lifecycle: a batch has a holder exactly while an attempt is at it,  *)
(* and WorkInv knows that such a batch is RUNNING, or SUCCESS after the    *)
(* last entity, so that nobody can claim it.                               *)
(***************************************************************************)
LEMMA InitLifecycle == Init => Lifecycle!LifecycleInit
BY DEF Init, Lifecycle!LifecycleInit, Lifecycle!NoBatch, NoBatch, holders

\* How a step of the attempt at a batch shows in the set of its holders.
LEMMA HoldersStep ==
  ASSUME TypeOK, NEW b \in Batch,
         \A c \in Batch \ {b} : at'[c] = at[c]
  PROVE  /\ (at[b] = 0 <=> at'[b] = 0) => holders' = holders
         /\ at'[b] = 0 => holders' = [holders EXCEPT ![b] = {}]
         /\ at'[b] # 0 => holders' = [holders EXCEPT ![b] = {b}]
BY DEF holders

LEMMA StepLifecycle ==
  ASSUME WorkInv, NEW b \in Batch,
         \/ \E p \in Pipeline : Begin(b, p)
         \/ LoadBronze(b)
         \/ LoadSilver(b)
         \/ Complete(b) \/ Fail(b) \/ Release(b)
  PROVE  [Lifecycle!LifecycleNext]_<<batches, holders>>
<1> USE DEF WorkInv, TableInv
<1>1. /\ TypeOK /\ Work(b)
      /\ \A c \in Batch \ {b} : at'[c] = at[c]
  BY OtherBatch
<1>2. /\ (at[b] = 0 <=> at'[b] = 0) => holders' = holders
      /\ at'[b] = 0 => holders' = [holders EXCEPT ![b] = {}]
      /\ at'[b] # 0 => holders' = [holders EXCEPT ![b] = {b}]
  BY <1>1, HoldersStep
<1>3. holders[b] = IF at[b] = 0 THEN {} ELSE {b}
  BY DEF holders
<1>4. ASSUME NEW p \in Pipeline, Begin(b, p)
      PROVE  [Lifecycle!LifecycleNext]_<<batches, holders>>
  <2>1. /\ Claimable(batches[b], p) /\ at'[b] = 1
        /\ batches' = [batches EXCEPT ![b] = [pipeline |-> p, status |-> "RUNNING"]]
    BY <1>1, <1>4 DEF Begin, TypeOK
  <2>2. at[b] = 0
    BY <1>1, <2>1 DEF Claimable, Work, TypeOK
  <2>3. Lifecycle!Claim(b, p, b)
    BY <1>2, <1>3, <2>1, <2>2 DEF Lifecycle!Claim, Lifecycle!NoBatch, NoBatch, Claimable
  <2> QED
    BY <2>3 DEF Lifecycle!LifecycleNext
<1>5. CASE LoadBronze(b)
  BY <1>2, <1>5 DEF LoadBronze
<1>6. CASE LoadSilver(b)
  <2>1. at[b] # 0 /\ at'[b] = at[b] + 1 /\ UNCHANGED batches
    BY <1>1, <1>6, SilverIsOneShape DEF SilverEffect, At, AtStage, AfterSilver, TypeOK
  <2>2. at'[b] # 0
    BY <1>1, <2>1 DEF TypeOK
  <2> QED
    BY <1>2, <2>1, <2>2
<1>7. CASE Complete(b)
  <2>1. Lifecycle!ReportSuccess(b, b)
    BY <1>2, <1>3, <1>7 DEF Complete, Lifecycle!ReportSuccess
  <2> QED
    BY <2>1, EntitiesAssumption DEF Lifecycle!LifecycleNext
<1>8. CASE Fail(b)
  <2>1. at'[b] = 0
    BY <1>1, <1>8 DEF Fail, TypeOK
  <2>2. Lifecycle!ReportFailure(b, b)
    BY <1>2, <1>3, <1>8, <2>1 DEF Fail, Lifecycle!ReportFailure
  <2> QED
    BY <2>2 DEF Lifecycle!LifecycleNext
<1>9. CASE Release(b)
  <2>1. at'[b] = 0
    BY <1>1, <1>9 DEF Release, TypeOK
  <2>2. Lifecycle!Release(b, b)
    BY <1>2, <1>3, <1>9, <2>1 DEF Release, Lifecycle!Release
  <2> QED
    BY <2>2 DEF Lifecycle!LifecycleNext
<1> QED
  BY <1>4, <1>5, <1>6, <1>7, <1>8, <1>9

-----------------------------------------------------------------------------
(***************************************************************************)
(* The theorems.                                                           *)
(***************************************************************************)
\* Whatever the source holds and however often batches are retried, the tables
\* keep their types, keys and nullability, and no attempt runs past its plan.
THEOREM WarehouseTypeCorrect == Spec => []TypeOK
BY AlwaysTableInv, PTL DEF TableInv

\* Every order in Silver has its customer, every item its order and product, every
\* payment its order, for any mixture of batches, pipelines and retries: the joins
\* of the procedures do what the foreign keys silver.* lacks would.
THEOREM ReferencesAlwaysResolve == Spec => []ReferencesResolve
BY AlwaysTableInv, PTL DEF TableInv

\* A Silver row is always the Bronze row of some batch, as it was loaded.
THEOREM SilverIsFromBronze == Spec => []SilverComesFromBronze
BY AlwaysTableInv, PTL DEF TableInv

\* An order, item or payment that breaks a field rule never reaches Silver.
THEOREM SilverIsValid == Spec => []SilverFieldsValid
BY AlwaysTableInv, PTL DEF TableInv

\* Retrying a batch never quarantines a record of it a second time, although the
\* orders procedure guards its two INSERTs by two different conditions.
THEOREM QuarantinedOnce == Spec => []OneQuarantineRow
BY AlwaysTableInv, PTL DEF TableInv

\* What a quarantine row says of its Bronze row stays true.
THEOREM QuarantineIsBorneOut == Spec => []QuarantineIsEvidence
BY AlwaysTableInv, PTL DEF TableInv

\* INSERT ... WHERE NOT EXISTS makes a Bronze row of a batch final.
THEOREM BronzeNeverChanges == Spec => BronzeIsImmutable
<1>1. ASSUME TypeOK, [Next]_vars
      PROVE  [\A e \in Entity, b \in Batch, i \in Id :
                raw[e][b][i] # Absent => raw'[e][b][i] = raw[e][b][i]]_vars
  BY <1>1, BronzeKeeps
<1> QED
  BY <1>1, WarehouseTypeCorrect, PTL DEF Spec, BronzeIsImmutable

\* When a batch is SUCCESS each record it loaded into Bronze has a row in Silver or
\* in quarantine, whatever failed and was repeated on the way.
THEOREM NothingIsDropped == Spec => []NothingDropped
<1>1. WorkInv => NothingDropped
  BY DEF WorkInv, Done, NothingDropped
<1> QED
  BY <1>1, AlwaysWorkInv, PTL

\* The batches of Warehouse behave as BatchLifecycle says, the specification
\* that the orchestrators implement.
THEOREM LifecycleFollowed == Spec => FollowsLifecycle
<1>1. ASSUME WorkInv, [Next]_vars
      PROVE  [Lifecycle!LifecycleNext]_<<batches, holders>>
  <2>1. CASE UNCHANGED vars \/ UpdateSource
    BY <2>1 DEF vars, UpdateSource, control, holders
  <2>2. ASSUME NEW b \in Batch,
               \/ \E p \in Pipeline : Begin(b, p)
               \/ LoadBronze(b)
               \/ LoadSilver(b)
               \/ Complete(b) \/ Fail(b) \/ Release(b)
        PROVE  [Lifecycle!LifecycleNext]_<<batches, holders>>
    BY <1>1, <2>2, StepLifecycle
  <2> QED
    BY <1>1, <2>1, <2>2 DEF Next
<1> QED
  BY <1>1, InitLifecycle, AlwaysWorkInv, PTL
     DEF Spec, FollowsLifecycle, Lifecycle!LifecycleSpec, Lifecycle!lifecycleVars

-----------------------------------------------------------------------------
(***************************************************************************)
(* Where the rows of a batch come from.                                    *)
(***************************************************************************)
OneSource(e, b) == \E s \in Sources : \A i \in InBatch(e, b) : raw[e][b][i] = s[e][i]

\* A batch has rows of what its pipeline loads only, and of a pipeline that filters
\* customers no other than valid ones.
Origin(b) ==
  /\ \A e \in Entity : InBatch(e, b) # {} =>
       batches[b] # NoBatch /\ \E k \in DOMAIN Plan(b) : Plan(b)[k] = e
  /\ batches[b] # NoBatch /\ batches[b].pipeline \in Validating =>
       \A i \in InBatch("customers", b) : raw["customers"][b][i].fields = "valid"

\* The first attempt at a batch finds no rows of what it has still to load.
FirstTry(b) ==
  /\ tries[b] = 0 => \A e \in Entity : InBatch(e, b) = {}
  /\ tries[b] = 1 => \A e \in Entity : OneSource(e, b)
  /\ tries[b] = 1 /\ at[b] # 0 =>
       \A k \in DOMAIN Plan(b) :
         k > at[b] \/ (k = at[b] /\ layer[b] = "bronze") => InBatch(Plan(b)[k], b) = {}

OriginInv == WorkInv /\ \A b \in Batch : Origin(b) /\ FirstTry(b)

LEMMA InitOriginInv == Init => OriginInv
<1> SUFFICES ASSUME Init, NEW b \in Batch PROVE Origin(b) /\ FirstTry(b)
  BY InitWorkInv DEF OriginInv
<1>1. \A e \in Entity : InBatch(e, b) = {}
  BY DEF Init, InBatch
<1>2. tries[b] = 0 /\ batches[b] = NoBatch
  BY DEF Init
<1> QED
  BY <1>1, <1>2 DEF Origin, FirstTry

\* A step that leaves the Bronze rows, the plan and the tries of a batch alone, and
\* does not send its attempt back, leaves this alone, too.
LEMMA OriginStays ==
  ASSUME NEW b \in Batch, Origin(b), FirstTry(b), TypeOK,
         batches[b] # NoBatch => Plan(b)' = Plan(b) /\ batches'[b].pipeline = batches[b].pipeline,
         batches[b] # NoBatch <=> batches'[b] # NoBatch,
         \A e \in Entity : raw'[e][b] = raw[e][b],
         tries'[b] = tries[b],
         at'[b] # 0 => \/ at'[b] = at[b] /\ layer'[b] = layer[b]
                       \/ at'[b] = at[b] + 1 /\ at[b] # 0
  PROVE  Origin(b)' /\ FirstTry(b)'
<1>1. \A e \in Entity : InBatch(e, b)' = InBatch(e, b)
  BY DEF InBatch
<1>2. "customers" \in Entity
  BY DEF Entity
<1>3. Origin(b)'
  BY <1>1, <1>2 DEF Origin
<1>4. \A e \in Entity : OneSource(e, b) => OneSource(e, b)'
  BY <1>1 DEF OneSource
<1>5. ASSUME tries'[b] = 1, at'[b] # 0, NEW k \in DOMAIN Plan(b)',
             k > at'[b] \/ (k = at'[b] /\ layer'[b] = "bronze")
      PROVE  InBatch(Plan(b)[k], b)' = {}
  <2>1. at[b] # 0 /\ at[b] \in Nat
    BY <1>5 DEF TypeOK
  <2>2. /\ batches[b] # NoBatch /\ Plan(b)' = Plan(b)
        /\ batches[b].pipeline \in Pipeline
    BY <2>1 DEF TypeOK, BatchRow
  <2>3. k \in Nat /\ Plan(b)[k] \in Entity
    BY <1>5, <2>2, EntitiesAssumption DEF Plan
  <2>4. k > at[b] \/ (k = at[b] /\ layer[b] = "bronze")
    BY <1>5, <2>1, <2>3
  <2>5. InBatch(Plan(b)[k], b) = {}
    BY <1>5, <2>1, <2>2, <2>4 DEF FirstTry
  <2> QED
    BY <1>1, <2>2, <2>3, <2>5
<1> QED
  BY <1>1, <1>3, <1>4, <1>5 DEF FirstTry

\* The Bronze load itself: the rows it adds are those of the source as it is.
LEMMA OriginLoaded ==
  ASSUME OriginInv, NEW b \in Batch, LoadBronze(b)
  PROVE  Origin(b)' /\ FirstTry(b)'
<1>c. Current(b) \in Entity
  BY StageFacts DEF OriginInv, WorkInv, TableInv, LoadBronze
<1>d. PICK d \in Entity : d = Current(b)
  BY <1>c
<1>0. /\ TypeOK /\ Origin(b) /\ FirstTry(b)
      /\ AtStage(b, "bronze") /\ UNCHANGED <<source, batches, at, tries>>
      /\ layer' = [layer EXCEPT ![b] = "silver"]
      /\ raw' = [raw EXCEPT ![d][b] = [i \in Id |-> BronzeRow(d, b, i)]]
  BY <1>d DEF OriginInv, WorkInv, TableInv, LoadBronze
<1>1. /\ batches[b].pipeline \in Pipeline
      /\ at[b] \in DOMAIN Plan(b) /\ Plan(b) \in Seq(Entity) /\ at[b] # 0
      /\ batches[b] # NoBatch
  <2>1. at[b] # 0
    BY <1>0 DEF AtStage
  <2> QED
    BY <1>0, <2>1, StageFacts DEF TypeOK
<1>2. Plan(b)' = Plan(b)
  BY <1>0 DEF Plan
<1>3. /\ \A i \in Id : raw'[d][b][i] = BronzeRow(d, b, i)
      /\ \A e \in Entity \ {d} : raw'[e][b] = raw[e][b]
  BY <1>0, <1>1 DEF TypeOK
<1>4. \A e \in Entity \ {d} : InBatch(e, b)' = InBatch(e, b) /\ (OneSource(e, b) => OneSource(e, b)')
  BY <1>3 DEF InBatch, OneSource
<1>5. Origin(b)'
  <2>1. ASSUME NEW e \in Entity, InBatch(e, b)' # {}
        PROVE  batches'[b] # NoBatch /\ \E k \in DOMAIN Plan(b)' : Plan(b)'[k] = e
    <3>1. CASE e = d
      BY <1>0, <1>1, <1>2, <1>d, <3>1 DEF Current
    <3>2. CASE e # d
      BY <1>0, <1>2, <1>4, <2>1, <3>2 DEF Origin
    <3> QED
      BY <3>1, <3>2
  <2>2. ASSUME batches'[b].pipeline \in Validating, NEW i \in InBatch("customers", b)'
        PROVE  raw'["customers"][b][i].fields = "valid"
    <3>1. batches[b].pipeline \in Validating /\ i \in Id /\ "customers" \in Entity
      BY <1>0, <2>2 DEF InBatch, Entity
    <3>2. CASE raw'["customers"][b][i] = raw["customers"][b][i]
      BY <1>0, <1>1, <2>2, <3>1, <3>2 DEF Origin, InBatch
    <3>3. CASE raw'["customers"][b][i] # raw["customers"][b][i]
      <4>1. d = "customers" /\ i \in Accepted(b) /\ raw'["customers"][b][i] = source["customers"][i]
        BY <1>3, <3>1, <3>3 DEF BronzeRow
      <4> QED
        BY <1>d, <3>1, <4>1 DEF Accepted
    <3> QED
      BY <3>2, <3>3
  <2> QED
    BY <2>1, <2>2 DEF Origin
<1>6. FirstTry(b)'
  <2>1. ASSUME tries'[b] = 0 PROVE FALSE
    BY <1>0, <1>1, <2>1 DEF TypeOK
  <2>2. ASSUME tries[b] = 1 PROVE InBatch(d, b) = {} /\ OneSource(d, b)'
    <3>1. InBatch(d, b) = {}
      BY <1>0, <1>1, <1>d, <2>2 DEF FirstTry, AtStage, Current
    <3>2. \A i \in InBatch(d, b)' : raw'[d][b][i] = source[d][i]
      BY <1>3, <3>1 DEF InBatch, BronzeRow
    <3> QED
      BY <1>0, <3>1, <3>2 DEF OneSource, TypeOK
  <2>3. ASSUME tries'[b] = 1, NEW e \in Entity PROVE OneSource(e, b)'
    BY <1>0, <1>4, <2>2, <2>3 DEF FirstTry
  <2>4. ASSUME tries'[b] = 1, NEW k \in DOMAIN Plan(b)',
               k > at'[b] \/ (k = at'[b] /\ layer'[b] = "bronze")
        PROVE  InBatch(Plan(b)[k], b)' = {}
    <3>1. k > at[b] /\ k \in DOMAIN Plan(b) /\ k # at[b]
      BY <1>0, <1>1, <1>2, <2>4 DEF TypeOK
    <3>2. PICK e \in Entity : e = Plan(b)[k]
      BY <1>1, <3>1
    <3>3. e # d
      BY <1>1, <1>d, <3>1, <3>2, EntitiesAssumption DEF Current, Plan
    <3>4. InBatch(e, b) = {}
      BY <1>0, <1>1, <2>4, <3>1, <3>2 DEF FirstTry
    <3>5. Plan(b)[k]' = e
      BY <1>2, <3>2
    <3> QED
      BY <1>4, <3>3, <3>4, <3>5
  <2> QED
    BY <1>2, <2>1, <2>3, <2>4 DEF FirstTry
<1> QED
  BY <1>5, <1>6

\* A claim finds a batch without rows, or one of the same pipeline.
LEMMA OriginClaimed ==
  ASSUME OriginInv, NEW b \in Batch, NEW p \in Pipeline, Begin(b, p)
  PROVE  Origin(b)' /\ FirstTry(b)'
<1>1. /\ TypeOK /\ Origin(b) /\ FirstTry(b)
      /\ Claimable(batches[b], p) /\ UNCHANGED <<raw, source>>
      /\ batches'[b] = [pipeline |-> p, status |-> "RUNNING"]
      /\ at'[b] = 1 /\ layer'[b] = "bronze" /\ tries'[b] = tries[b] + 1
      /\ tries[b] \in Nat
  BY EntitiesAssumption DEF OriginInv, WorkInv, TableInv, TypeOK, Begin
<1>2. \A e \in Entity : InBatch(e, b)' = InBatch(e, b)
  BY <1>1 DEF InBatch
<1>3. "customers" \in Entity
  BY DEF Entity
<1>4. batches'[b] # NoBatch
  BY <1>1 DEF NoBatch
<1>5. ASSUME batches[b] = NoBatch PROVE Origin(b)'
  BY <1>1, <1>2, <1>3, <1>4, <1>5 DEF Origin
<1>6. ASSUME batches[b] = [pipeline |-> p, status |-> "FAILED"] PROVE Origin(b)'
  <2>1. Plan(b)' = Plan(b) /\ batches'[b].pipeline = batches[b].pipeline /\ batches[b] # NoBatch
    BY <1>1, <1>6 DEF Plan, NoBatch
  <2>2. \A i \in InBatch("customers", b)' : raw'["customers"][b][i] = raw["customers"][b][i]
    BY <1>1
  <2> QED
    BY <1>1, <1>2, <1>3, <1>4, <2>1, <2>2 DEF Origin
<1>7. Origin(b)'
  BY <1>1, <1>5, <1>6 DEF Claimable
<1>8. ASSUME tries'[b] = 1 PROVE \A e \in Entity : InBatch(e, b)' = {}
  BY <1>1, <1>2, <1>8 DEF FirstTry
<1>9. ASSUME NEW k \in DOMAIN Plan(b)' PROVE Plan(b)[k]' \in Entity
  <2>1. Plan(b)' = Entities[p]
    BY <1>1 DEF Plan
  <2> QED
    BY <1>9, <2>1, EntitiesAssumption
<1>10. ASSUME tries'[b] = 1, NEW e \in Entity PROVE OneSource(e, b)'
  BY <1>1, <1>8, <1>10 DEF OneSource, TypeOK
<1> QED
  BY <1>1, <1>7, <1>8, <1>9, <1>10 DEF FirstTry

LEMMA NextOriginInv == OriginInv /\ [Next]_vars => OriginInv'
<1> SUFFICES ASSUME OriginInv, [Next]_vars PROVE OriginInv'
  OBVIOUS
<1>1. WorkInv' /\ TypeOK
  BY NextWorkInv DEF OriginInv, WorkInv, TableInv
<1>2. CASE UNCHANGED vars \/ UpdateSource
  <2> SUFFICES ASSUME NEW b \in Batch PROVE Origin(b)' /\ FirstTry(b)'
    BY <1>1 DEF OriginInv
  <2>1. UNCHANGED <<batches, at, raw, layer, tries>>
    BY <1>2 DEF vars, UpdateSource, control
  <2>2. Plan(b)' = Plan(b)
    BY <2>1 DEF Plan
  <2> QED
    BY <1>1, <2>1, <2>2, OriginStays DEF OriginInv
<1>3. ASSUME NEW b \in Batch, LoadSilver(b) \/ Complete(b) \/ Fail(b) \/ Release(b)
      PROVE  Origin(b)' /\ FirstTry(b)'
  <2>1. Origin(b) /\ FirstTry(b)
    BY DEF OriginInv
  <2>2. CASE LoadSilver(b)
    <3>1. AtStage(b, "silver") /\ AfterSilver(b)
      BY <2>2 DEF LoadSilver, SilverCustomers, SilverProducts, SilverOrders, SilverOrderItems,
                  SilverPayments, At
    <3>2. /\ UNCHANGED <<batches, raw, tries>> /\ at'[b] = at[b] + 1 /\ at[b] # 0
      BY <1>1, <3>1 DEF AtStage, AfterSilver, TypeOK
    <3>3. Plan(b)' = Plan(b)
      BY <3>2 DEF Plan
    <3> QED
      BY <1>1, <2>1, <3>2, <3>3, OriginStays
  <2>3. CASE Complete(b) \/ Fail(b) \/ Release(b)
    <3>1. /\ at[b] # 0 /\ UNCHANGED <<raw, tries, layer>>
          /\ at'[b] # 0 => at'[b] = at[b]
          /\ \/ batches'[b] = batches[b]
             \/ \E s \in {"SUCCESS", "FAILED"} : batches'[b] = [batches[b] EXCEPT !.status = s]
      BY <1>1, <2>3 DEF Complete, Fail, Release, TypeOK
    <3>2. batches[b] \in BatchRow /\ batches[b] # NoBatch
      BY <1>1, <3>1 DEF TypeOK
    <3>3. batches'[b].pipeline = batches[b].pipeline /\ batches'[b] # NoBatch
      BY <3>1, <3>2 DEF BatchRow, NoBatch
    <3>4. Plan(b)' = Plan(b)
      BY <3>3 DEF Plan
    <3> QED
      BY <1>1, <2>1, <3>1, <3>2, <3>3, <3>4, OriginStays
  <2> QED
    BY <1>3, <2>2, <2>3
<1>4. ASSUME NEW b \in Batch,
             \/ \E p \in Pipeline : Begin(b, p)
             \/ LoadBronze(b)
             \/ LoadSilver(b)
             \/ Complete(b) \/ Fail(b) \/ Release(b)
      PROVE  OriginInv'
  <2>1. Origin(b)' /\ FirstTry(b)'
    BY <1>3, <1>4, OriginLoaded, OriginClaimed
  <2>2. ASSUME NEW c \in Batch \ {b} PROVE Origin(c)' /\ FirstTry(c)'
    <3>1. /\ batches'[c] = batches[c] /\ at'[c] = at[c]
          /\ layer'[c] = layer[c] /\ tries'[c] = tries[c]
          /\ \A e \in Entity : raw'[e][c] = raw[e][c]
      BY <1>1, <1>4, OtherBatch
    <3>2. Plan(c)' = Plan(c)
      BY <3>1 DEF Plan
    <3> QED
      BY <1>1, <3>1, <3>2, OriginStays DEF OriginInv
  <2> QED
    BY <1>1, <2>1, <2>2 DEF OriginInv
<1> QED
  BY <1>2, <1>4 DEF Next

LEMMA AlwaysOriginInv == Spec => []OriginInv
BY InitOriginInv, NextOriginInv, PTL DEF Spec

\* A customer that breaks a rule is in Silver only as the row of a batch whose
\* pipeline does not filter customers.
InvalidCustomersAreUnfiltered ==
  \A i \in Id : silver["customers"][i] # Absent /\ silver["customers"][i].fields # "valid" =>
    \E b \in Batch : /\ raw["customers"][b][i] = silver["customers"][i]
                     /\ batches[b].pipeline \in Pipeline \ Validating
                     /\ \E k \in DOMAIN Plan(b) : Plan(b)[k] = "customers"

\* No path leads around the filter of a pipeline that has it: neither retries nor
\* other batches of the same customer make it pass an invalid one.
THEOREM InvalidCustomersComeFromElsewhere == Spec => []InvalidCustomersAreUnfiltered
<1>1. ASSUME OriginInv PROVE InvalidCustomersAreUnfiltered
  <2> SUFFICES ASSUME NEW i \in Id, silver["customers"][i] # Absent,
                      silver["customers"][i].fields # "valid"
               PROVE  \E b \in Batch : /\ raw["customers"][b][i] = silver["customers"][i]
                                       /\ batches[b].pipeline \in Pipeline \ Validating
                                       /\ \E k \in DOMAIN Plan(b) : Plan(b)[k] = "customers"
    BY DEF InvalidCustomersAreUnfiltered
  <2>1. "customers" \in Entity
    BY DEF Entity
  <2>2. PICK b \in Batch : raw["customers"][b][i] = silver["customers"][i]
    BY <1>1, <2>1 DEF OriginInv, WorkInv, TableInv, SilverComesFromBronze
  <2>3. i \in InBatch("customers", b) /\ Origin(b)
    BY <1>1, <2>2 DEF InBatch, OriginInv
  <2>4. batches[b] # NoBatch /\ \E k \in DOMAIN Plan(b) : Plan(b)[k] = "customers"
    BY <2>1, <2>3 DEF Origin
  <2>5. batches[b].pipeline \in Pipeline
    BY <1>1, <2>4 DEF OriginInv, WorkInv, TableInv, TypeOK, BatchRow
  <2>6. batches[b].pipeline \notin Validating
    BY <2>2, <2>3, <2>4 DEF Origin
  <2> QED
    BY <2>2, <2>4, <2>5, <2>6
<1> QED
  BY <1>1, AlwaysOriginInv, PTL

\* Every pipeline that loads customers filters them, as run_customer_pipeline does
\* and run_commerce_pipeline does not.
EveryLoaderValidates ==
  \A p \in Pipeline : (\E k \in DOMAIN Entities[p] : Entities[p][k] = "customers") => p \in Validating

\* That the commerce pipeline does not filter is the whole reason why there are
\* customers in Silver that have not passed validate_customers.
THEOREM FilteringIsEnough ==
  ASSUME EveryLoaderValidates
  PROVE  Spec => []CustomersValidated
<1>1. InvalidCustomersAreUnfiltered => CustomersValidated
  BY DEF InvalidCustomersAreUnfiltered, CustomersValidated, EveryLoaderValidates, Plan
<1> QED
  BY <1>1, InvalidCustomersComeFromElsewhere, PTL

\* What the first attempt at a batch has loaded of an entity is one state of the
\* source, however often the source changes while it works.
FirstTryIsOneSnapshot ==
  \A e \in Entity, b \in Batch : tries[b] \in {0, 1} =>
    \E s \in Sources : \A i \in InBatch(e, b) : raw[e][b][i] = s[e][i]

\* A batch that was never retried is consistent: each entity is loaded in one go.
THEOREM FirstTriesAreSnapshots == Spec => []FirstTryIsOneSnapshot
<1>1. ASSUME OriginInv, NEW e \in Entity, NEW b \in Batch, tries[b] \in {0, 1}
      PROVE  \E s \in Sources : \A i \in InBatch(e, b) : raw[e][b][i] = s[e][i]
  <2>1. FirstTry(b) /\ source \in Sources
    BY <1>1 DEF OriginInv, WorkInv, TableInv, TypeOK, InBatch
  <2>2. CASE tries[b] = 0
    BY <2>1, <2>2 DEF FirstTry
  <2>3. CASE tries[b] = 1
    BY <2>1, <2>3 DEF FirstTry, OneSource
  <2> QED
    BY <1>1, <2>2, <2>3
<1>2. OriginInv => FirstTryIsOneSnapshot
  BY <1>1 DEF FirstTryIsOneSnapshot
<1> QED
  BY <1>2, AlwaysOriginInv, PTL

\* Only a retry mixes two states of the source in one batch.
THEOREM OnlyRetriesMix ==
  ASSUME MaxTries = 1
  PROVE  Spec => []OneSnapshot
<1>1. FirstTryIsOneSnapshot /\ TypeOK => OneSnapshot
  <2> SUFFICES ASSUME FirstTryIsOneSnapshot, TypeOK, NEW e \in Entity, NEW b \in Batch
               PROVE  \E s \in Sources : \A i \in InBatch(e, b) : raw[e][b][i] = s[e][i]
    BY DEF OneSnapshot
  <2>1. tries[b] \in 0 .. 1
    BY DEF TypeOK
  <2>2. tries[b] \in {0, 1}
    BY <2>1
  <2> QED
    BY <2>2 DEF FirstTryIsOneSnapshot
<1> QED
  BY <1>1, FirstTriesAreSnapshots, WarehouseTypeCorrect, PTL

-----------------------------------------------------------------------------
(***************************************************************************)
(* What lasts.                                                             *)
(***************************************************************************)
\* No load deletes: a key that is in Silver stays there, with whatever row, and a
\* quarantine row stays as it is.
NothingIsDeleted ==
  [][\A e \in Entity :
       /\ \A i \in Id : silver[e][i] # Absent => silver'[e][i] # Absent
       /\ quarantine[e] \subseteq quarantine'[e]]_vars

\* A batch that is done, or that its attempt has left RUNNING, is closed: nothing is
\* loaded into Bronze or quarantined for it any more.
ClosedBatchIsFrozen ==
  [][\A b \in Batch : at[b] = 0 /\ batches[b].status \in {"RUNNING", "SUCCESS"} =>
       /\ batches'[b] = batches[b] /\ at'[b] = 0
       /\ \A e \in Entity : /\ raw'[e][b] = raw[e][b]
                            /\ \A q \in quarantine'[e] \ quarantine[e] : q.batch # b]_vars

\* Why references keep resolving: no procedure ever takes a key away.
THEOREM TablesOnlyGrow == Spec => NothingIsDeleted
<1>1. ASSUME TableInv, [Next]_vars
      PROVE  [\A e \in Entity :
                /\ \A i \in Id : silver[e][i] # Absent => silver'[e][i] # Absent
                /\ quarantine[e] \subseteq quarantine'[e]]_vars
  <2>1. ASSUME NEW e \in Entity PROVE quarantine[e] \subseteq quarantine'[e]
    BY <1>1, <2>1, QuarantineKeeps DEF TableInv, TypeOK
  <2> QED
    BY <1>1, <2>1, SilverRowStays DEF TableInv
<1> QED
  BY <1>1, AlwaysTableInv, PTL DEF Spec, NothingIsDeleted

LEMMA ClosedStep ==
  ASSUME TableInv, [Next]_vars, NEW c \in Batch,
         at[c] = 0, batches[c].status \in {"RUNNING", "SUCCESS"}
  PROVE  /\ batches'[c] = batches[c] /\ at'[c] = 0
         /\ \A e \in Entity : /\ raw'[e][c] = raw[e][c]
                              /\ \A q \in quarantine'[e] \ quarantine[e] : q.batch # c
<1> USE DEF TableInv
<1>1. CASE UNCHANGED vars \/ UpdateSource
  BY <1>1 DEF vars, UpdateSource, control
<1>2. ASSUME NEW b \in Batch,
             \/ \E p \in Pipeline : Begin(b, p)
             \/ LoadBronze(b)
             \/ LoadSilver(b)
             \/ Complete(b) \/ Fail(b) \/ Release(b)
      PROVE  /\ batches'[c] = batches[c] /\ at'[c] = 0
             /\ \A e \in Entity : /\ raw'[e][c] = raw[e][c]
                                  /\ \A q \in quarantine'[e] \ quarantine[e] : q.batch # c
  <2>1. b # c
    <3>1. ASSUME NEW p \in Pipeline, Begin(b, p) PROVE b # c
      BY <3>1 DEF Begin, Claimable, NoBatch
    <3>2. LoadSilver(b) => AtStage(b, "silver")
      BY SilverIsOneShape DEF SilverEffect, At
    <3>3. LoadBronze(b) \/ LoadSilver(b) \/ Complete(b) \/ Fail(b) \/ Release(b) => at[b] # 0
      BY <3>2 DEF LoadBronze, AtStage, Complete, Fail, Release
    <3> QED
      BY <1>2, <3>1, <3>3
  <2>2. /\ batches'[c] = batches[c] /\ at'[c] = at[c]
        /\ \A e \in Entity : raw'[e][c] = raw[e][c]
    BY <1>2, <2>1, OtherBatch
  <2>3. ASSUME NEW e \in Entity, NEW q \in quarantine'[e] \ quarantine[e] PROVE q.batch # c
    <3>1. CASE LoadSilver(b)
      <4>1. PICK d \in Entity, S \in SUBSET Id, N \in SUBSET QuarantineRow : SilverEffect(b, d, S, N)
        BY <3>1, SilverIsOneShape
      <4>2. q \in N
        BY <2>3, <4>1 DEF SilverEffect, TypeOK
      <4> QED
        BY <2>1, <4>1, <4>2 DEF SilverEffect, QuarantineFits
    <3>2. CASE ~LoadSilver(b)
      <4>1. UNCHANGED quarantine
        BY <1>2, <3>2 DEF Begin, LoadBronze, Complete, Fail, Release
      <4> QED
        BY <2>3, <4>1
    <3> QED
      BY <3>1, <3>2
  <2> QED
    BY <2>2, <2>3
<1> QED
  BY <1>1, <1>2 DEF Next

\* Whoever reads a finished batch, or one whose attempt is gone, reads it as it will
\* always be.
THEOREM ClosedBatchesAreFrozen == Spec => ClosedBatchIsFrozen
<1>1. TableInv /\ [Next]_vars =>
        [\A b \in Batch : at[b] = 0 /\ batches[b].status \in {"RUNNING", "SUCCESS"} =>
           /\ batches'[b] = batches[b] /\ at'[b] = 0
           /\ \A e \in Entity : /\ raw'[e][b] = raw[e][b]
                                /\ \A q \in quarantine'[e] \ quarantine[e] : q.batch # b]_vars
  BY ClosedStep
<1> QED
  BY <1>1, AlwaysTableInv, PTL DEF Spec, ClosedBatchIsFrozen
=============================================================================
