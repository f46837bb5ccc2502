------------------------- MODULE CustomerLoadProofs -------------------------
(***************************************************************************)
(* Proofs about CustomerLoad, for any attempts, batches, source lists and   *)
(* threshold.  The Bronze half of the invariant is shown first, the one     *)
(* about the Silver transactions on top of it.                             *)
(***************************************************************************)
EXTENDS CustomerLoad, FiniteSetTheorems, TLAPS

(***************************************************************************)
(* The rules, on any list.                                                 *)
(***************************************************************************)
\* validate_customers finds what the properties call an error, and nothing else.
LEMMA ErrorsFound ==
  ASSUME NEW list \in Seq(CustomerRecord)
  PROVE  Errors(list) = ValidateCustomers(list)
<1>1. DOMAIN list = 1 .. Len(list) /\ Len(list) \in Nat
  OBVIOUS
<1>2. ASSUME NEW i \in DOMAIN list, NEW rule \in Rule
      PROVE  Error(list, i, rule) <=> Breaks(list, i, rule)
  <2>1. CASE rule = "DUPLICATE_CUSTOMER_ID"
    <3>1. ASSUME NEW j \in DOMAIN list, j < i PROVE j \in 1 .. i - 1
      BY <1>1, <3>1
    <3>2. ASSUME NEW j \in 1 .. i - 1 PROVE j \in DOMAIN list /\ j < i
      BY <1>1
    <3> QED BY <2>1, <3>1, <3>2 DEF Error, Breaks
  <2>2. CASE rule = "FIRST_NAME_REQUIRED"
    BY <2>2 DEF Error, Breaks, Falsy
  <2>3. CASE rule = "LAST_NAME_REQUIRED"
    BY <2>3 DEF Error, Breaks, Falsy
  <2>4. CASE rule = "EMAIL_FORMAT"
    BY <2>4 DEF Error, Breaks, Falsy
  <2> QED BY <2>1, <2>2, <2>3, <2>4 DEF Rule
<1>3. ASSUME NEW e \in (DOMAIN list) \X Rule
      PROVE  Error(list, e[1], e[2]) <=> Breaks(list, e[1], e[2])
  BY <1>2
<1> QED BY <1>3 DEF Errors, ValidateCustomers

LEMMA InvalidFound ==
  ASSUME NEW list \in Seq(CustomerRecord)
  PROVE  /\ InvalidIds(list) = {list[e[1]].customer_id : e \in Errors(list)}
         /\ \A e \in Errors(list) : e[1] \in DOMAIN list /\ e[2] \in Rule
BY ErrorsFound DEF InvalidIds, Errors

LEMMA InvalidFinite ==
  ASSUME NEW list \in Seq(CustomerRecord)
  PROVE  Cardinality(InvalidIds(list)) \in Nat
<1>1. IsFiniteSet(DOMAIN list)
  BY FS_Interval
<1> DEFINE T == {list[j].customer_id : j \in DOMAIN list}
           f == [j \in DOMAIN list |-> list[j].customer_id]
<1>2. InvalidIds(list) \subseteq T
  BY InvalidFound
<1>3. IsFiniteSet(T)
  <2>1. f \in Surjection(DOMAIN list, T)
    BY DEF Surjection
  <2> HIDE DEF f, T
  <2> QED BY <1>1, <2>1, FS_Surjection
<1> QED BY <1>2, <1>3, FS_Subset, FS_CardinalityType

\* A list that the gate lets through or refuses is what the properties say it is.
LEMMA GateIsExact ==
  ASSUME NEW list \in Seq(CustomerRecord)
  PROVE  /\ ExceedsThreshold(list) <=> ~WithinThreshold(list)
         /\ ExceedsThreshold(list) => list # <<>>
<1>1. ExceedsThreshold(list) <=> ~WithinThreshold(list)
  <2> DEFINE n == Cardinality(InvalidIds(list))
  <2>1. n \in Nat /\ Len(list) \in Nat
    BY InvalidFinite
  <2>2. InvalidOf \in Nat /\ InvalidMax \in Nat
    BY CustomerAssumption
  <2>3. WithinThreshold(list) <=> n * InvalidOf <= InvalidMax * Len(list)
    BY InvalidFound DEF WithinThreshold
  <2>4. ExceedsThreshold(list) <=> n * InvalidOf > InvalidMax * Len(list)
    BY DEF ExceedsThreshold
  <2> HIDE DEF n
  <2> QED BY <2>1, <2>2, <2>3, <2>4
<1>2. ASSUME list = <<>> PROVE ~ExceedsThreshold(list)
  <2>1. InvalidIds(list) = {}
    BY <1>2 DEF InvalidIds, ValidateCustomers
  <2>2. Cardinality(InvalidIds(list)) = 0 /\ Len(list) = 0
    BY <1>2, <2>1, FS_EmptySet
  <2>3. InvalidMax \in Nat /\ InvalidOf \in Nat
    BY CustomerAssumption
  <2> QED BY <2>2, <2>3 DEF ExceedsThreshold
<1> QED BY <1>1, <1>2

\* A valid customer's record is the only one of its key, and breaks no rule.
LEMMA ValidIsClean ==
  ASSUME NEW list \in Seq(CustomerRecord), NEW i \in ValidIndices(list)
  PROVE  /\ i \in DOMAIN list
         /\ list[i] \in CustomerRecord
         /\ CleanIn(list, list[i])
<1>1. i \in DOMAIN list /\ list[i].customer_id \notin InvalidIds(list)
  BY DEF ValidIndices
<1>2. DOMAIN list = 1 .. Len(list) /\ Len(list) \in Nat /\ list[i] \in CustomerRecord
  BY <1>1
<1>3. \A e \in Errors(list) : list[e[1]].customer_id # list[i].customer_id
  BY <1>1, InvalidFound
<1>4. ASSUME NEW j \in DOMAIN list, list[j].customer_id = list[i].customer_id, j # i
      PROVE  FALSE
  <2>1. CASE j < i
    <3>1. Error(list, i, "DUPLICATE_CUSTOMER_ID")
      BY <1>4, <2>1 DEF Error
    <3>2. <<i, "DUPLICATE_CUSTOMER_ID">> \in Errors(list)
      BY <1>1, <3>1 DEF Errors, Rule
    <3> QED BY <1>3, <3>2
  <2>2. CASE i < j
    <3>1. Error(list, j, "DUPLICATE_CUSTOMER_ID")
      BY <1>1, <1>4, <2>2 DEF Error
    <3>2. <<j, "DUPLICATE_CUSTOMER_ID">> \in Errors(list)
      BY <1>4, <3>1 DEF Errors, Rule
    <3> QED BY <1>3, <1>4, <3>2
  <2> QED BY <1>1, <1>2, <1>4, <2>1, <2>2
<1>5. \A e \in Errors(list) : e[1] # i
  BY <1>3
<1> QED BY <1>1, <1>2, <1>4, <1>5 DEF CleanIn

\* Equal hashes: the fields agree, but for NULL and ''.
LEMMA HashAgrees ==
  ASSUME NEW c \in CustomerRecord, NEW d \in CustomerRecord, Hash(c) = Hash(d)
  PROVE  Agree(c, d)
<1>1. ASSUME NEW x, NEW y, OrEmpty(x) = OrEmpty(y)
      PROVE  x = y \/ {x, y} = {NULL, ""}
  BY <1>1 DEF OrEmpty
<1>2. /\ OrEmpty(c.first_name) = OrEmpty(d.first_name)
      /\ OrEmpty(c.last_name) = OrEmpty(d.last_name)
      /\ OrEmpty(c.email) = OrEmpty(d.email)
      /\ OrEmpty(c.phone) = OrEmpty(d.phone)
  BY DEF Hash
<1>3. /\ c.first_name = d.first_name \/ {c.first_name, d.first_name} = {NULL, ""}
      /\ c.last_name = d.last_name \/ {c.last_name, d.last_name} = {NULL, ""}
      /\ c.email = d.email \/ {c.email, d.email} = {NULL, ""}
      /\ c.phone = d.phone \/ {c.phone, d.phone} = {NULL, ""}
  BY <1>1, <1>2
<1> QED BY <1>3 DEF Agree

\* No record is the absent one.
LEMMA RecordPresent ==
  ASSUME NEW c \in CustomerRecord
  PROVE  c # Absent /\ c.customer_id \in Id
<1>1. c.customer_id \in Id
  BY DEF CustomerRecord
<1>2. NULL \notin Id
  BY CustomerAssumption
<1>3. Absent.customer_id = NULL
  BY DEF Absent
<1> QED BY <1>1, <1>2, <1>3

LEMMA ListType ==
  ASSUME TypeOK, NEW l \in Load
  PROVE  customers[l] \in Seq(CustomerRecord)
<1>1. customers[l] \in Snapshots \cup {<<>>}
  BY DEF TypeOK
<1>2. Snapshots \subseteq Seq(CustomerRecord)
  BY CustomerAssumption
<1>3. <<>> \in Seq(CustomerRecord)
  OBVIOUS
<1> QED BY <1>1, <1>2, <1>3

(***************************************************************************)
(* The Bronze load.                                                        *)
(***************************************************************************)
RowOf(l, k) == customers[l][CHOOSE i \in ValidIndices(customers[l]) : customers[l][i].customer_id = k]

\* The row that is inserted at a key: it is there, it has that key, it is valid.
LEMMA InsertedRow ==
  ASSUME TypeOK, NEW l \in Load, NEW k \in NewRows(l)
  PROVE  /\ k \in Id
         /\ RowOf(l, k) \in CustomerRecord /\ RowOf(l, k) # Absent
         /\ \E i \in ValidIndices(customers[l]) :
              customers[l][i] = RowOf(l, k) /\ customers[l][i].customer_id = k
<1>1. customers[l] \in Seq(CustomerRecord)
  BY ListType
<1>2. \E i \in ValidIndices(customers[l]) : customers[l][i].customer_id = k
  BY DEF NewRows
<1> DEFINE i == CHOOSE i \in ValidIndices(customers[l]) : customers[l][i].customer_id = k
<1>3. i \in ValidIndices(customers[l]) /\ customers[l][i].customer_id = k
  BY <1>2
<1>4. RowOf(l, k) = customers[l][i]
  BY DEF RowOf
<1>5. customers[l][i] \in CustomerRecord
  BY <1>1, <1>3, ValidIsClean
<1> HIDE DEF i
<1> QED BY <1>3, <1>4, <1>5, RecordPresent

\* What the load leaves in the batch.
LEMMA BronzeLoaded ==
  ASSUME TypeOK, NEW l \in Load, LoadRawCustomers(l)
  PROVE  /\ raw' \in [Batch -> [Id -> CustomerRow]]
         /\ source' \in [Batch -> [Id -> Load \cup {NULL}]]
         /\ \A b \in Batch \ {batch[l]} : raw'[b] = raw[b] /\ source'[b] = source[b]
         /\ \A k \in NewRows(l) : raw'[batch[l]][k] = RowOf(l, k) /\ source'[batch[l]][k] = l
         /\ \A k \in Id \ NewRows(l) :
              raw'[batch[l]][k] = raw[batch[l]][k] /\ source'[batch[l]][k] = source[batch[l]][k]
         /\ pc'[l] = "update" => todo'[l] = {k \in Id : raw'[batch[l]][k] # Absent}
<1>1. batch[l] \in Batch
  BY DEF TypeOK
<1>2. /\ raw' = [raw EXCEPT ![batch[l]] =
                   [k \in Id |-> IF k \in NewRows(l) THEN RowOf(l, k) ELSE raw[batch[l]][k]]]
      /\ source' = [source EXCEPT ![batch[l]] =
                   [k \in Id |-> IF k \in NewRows(l) THEN l ELSE source[batch[l]][k]]]
  BY <1>1 DEF LoadRawCustomers, RowOf, TypeOK
<1>3. \A k \in NewRows(l) : k \in Id /\ RowOf(l, k) \in CustomerRow
  BY InsertedRow DEF CustomerRow
<1>4. /\ raw'[batch[l]] = [k \in Id |-> IF k \in NewRows(l) THEN RowOf(l, k) ELSE raw[batch[l]][k]]
      /\ source'[batch[l]] = [k \in Id |-> IF k \in NewRows(l) THEN l ELSE source[batch[l]][k]]
  BY <1>1, <1>2 DEF TypeOK
<1>5. pc'[l] = "update" => todo'[l] = {k \in Id : raw'[batch[l]][k] # Absent}
  <2> DEFINE table == [k \in Id |-> IF k \in NewRows(l) THEN RowOf(l, k) ELSE raw[batch[l]][k]]
  <2>2. pc'[l] = "update" => todo' = [todo EXCEPT ![l] = {k \in Id : table[k] # Absent}]
    BY DEF LoadRawCustomers, Goto, TypeOK, RowOf
  <2>3. raw'[batch[l]] = table
    BY <1>4
  <2> HIDE DEF table
  <2> QED BY <2>2, <2>3 DEF TypeOK
<1>6. /\ raw'[batch[l]] \in [Id -> CustomerRow]
      /\ source'[batch[l]] \in [Id -> Load \cup {NULL}]
  BY <1>1, <1>3, <1>4 DEF TypeOK
<1>7. \A b \in Batch \ {batch[l]} : raw'[b] = raw[b] /\ source'[b] = source[b]
  BY <1>1, <1>2 DEF TypeOK
<1>8. /\ raw' \in [Batch -> [Id -> CustomerRow]]
      /\ source' \in [Batch -> [Id -> Load \cup {NULL}]]
  BY <1>1, <1>2, <1>4, <1>6, <1>7 DEF TypeOK
<1> QED BY <1>3, <1>4, <1>5, <1>7, <1>8

(***************************************************************************)
(* Types.                                                                  *)
(***************************************************************************)
LEMMA AbsentRow == Absent \in CustomerRow /\ Nothing \in [Id -> CustomerRow]
BY DEF CustomerRow, Nothing

LEMMA InitTypeOK == Init => TypeOK
<1> SUFFICES ASSUME Init PROVE TypeOK
  OBVIOUS
<1>1. batch \in [Load -> Batch]
  BY CustomerAssumption DEF Init
<1>2. pc \in [Load -> Place]
  BY DEF Init, Place
<1>3. customers \in [Load -> Snapshots \cup {<<>>}]
  BY DEF Init
<1>4. raw \in [Batch -> [Id -> CustomerRow]] /\ silver \in [Id -> CustomerRow]
  BY AbsentRow DEF Init
<1>5. source \in [Batch -> [Id -> Load \cup {NULL}]]
  BY DEF Init
<1>6. wrote \in [Load -> [Id -> CustomerRow]]
  BY AbsentRow DEF Init
<1>7. /\ todo \in [Load -> SUBSET Id] /\ seen \in [Load -> SUBSET Id]
      /\ rival \in [Load -> SUBSET Id]
      /\ \A l \in Load : todo[l] = {}
  BY DEF Init
<1>8. quarantine = {} /\ loaded = {}
  BY DEF Init
<1> QED BY <1>1, <1>2, <1>3, <1>4, <1>5, <1>6, <1>7, <1>8 DEF TypeOK

\* The end of a transaction, and a row of it.
LEMMA TransactionTypes ==
  ASSUME TypeOK, NEW l \in Load
  PROVE  /\ EndTransaction(l) =>
              /\ wrote' \in [Load -> [Id -> CustomerRow]]
              /\ todo' \in [Load -> SUBSET Id] /\ todo'[l] = {}
              /\ \A e \in Load \ {l} : todo'[e] = todo[e]
              /\ seen' \in [Load -> SUBSET Id]
         /\ \A k \in Id : Write(l, k) => wrote' \in [Load -> [Id -> CustomerRow]]
         /\ \A k \in Id : Visited(l, k) =>
              /\ todo' \in [Load -> SUBSET Id]
              /\ \A e \in Load : todo'[e] \subseteq todo[e]
<1>1. EndTransaction(l) =>
        /\ wrote' \in [Load -> [Id -> CustomerRow]]
        /\ todo' \in [Load -> SUBSET Id] /\ todo'[l] = {}
        /\ \A e \in Load \ {l} : todo'[e] = todo[e]
        /\ seen' \in [Load -> SUBSET Id]
  BY AbsentRow DEF EndTransaction, TypeOK
<1>2. ASSUME NEW k \in Id, Write(l, k) PROVE wrote' \in [Load -> [Id -> CustomerRow]]
  <2>1. raw[batch[l]][k] \in CustomerRow
    BY DEF TypeOK
  <2>2. wrote' = [wrote EXCEPT ![l] = [wrote[l] EXCEPT ![k] = raw[batch[l]][k]]]
    BY <1>2 DEF Write
  <2>3. [wrote[l] EXCEPT ![k] = raw[batch[l]][k]] \in [Id -> CustomerRow]
    BY <2>1 DEF TypeOK
  <2> QED BY <2>2, <2>3 DEF TypeOK
<1>3. ASSUME NEW k \in Id, Visited(l, k)
      PROVE  /\ todo' \in [Load -> SUBSET Id]
             /\ \A e \in Load : todo'[e] \subseteq todo[e]
  BY <1>3 DEF Visited, TypeOK
<1> QED BY <1>1, <1>2, <1>3

LEMMA NextTypeOK == TypeOK /\ [Next]_vars => TypeOK'
<1> SUFFICES ASSUME TypeOK, [Next]_vars PROVE TypeOK'
  OBVIOUS
<1>1. CASE UNCHANGED vars
  BY <1>1 DEF vars, TypeOK
<1>2. ASSUME NEW l \in Load, Begin(l) PROVE TypeOK'
  <2>1. InBatch(batch[l]) \in SUBSET Id
    BY DEF InBatch
  <2>3. pc' \in [Load -> Place] /\ \A e \in Load \ {l} : pc'[e] = pc[e]
    BY <1>2 DEF Place, InSilver, Ended, Begin, Goto, TypeOK
  <2>4. todo' \in [Load -> SUBSET Id] /\ \A e \in Load \ {l} : todo'[e] = todo[e]
    <3>1. todo' = todo \/ todo' = [todo EXCEPT ![l] = InBatch(batch[l])]
      BY <1>2 DEF Begin
    <3> QED BY <2>1, <3>1 DEF TypeOK
  <2>5. pc'[l] \notin InSilver => todo'[l] = {}
    BY <1>2 DEF Place, InSilver, Ended, Begin, Goto, TypeOK
  <2> QED BY <1>2, <2>3, <2>4, <2>5 DEF Begin, bronzeVars, TypeOK
<1>3. ASSUME NEW l \in Load, Extract(l) PROVE TypeOK'
  <2>1. pc' \in [Load -> Place] /\ \A e \in Load \ {l} : pc'[e] = pc[e]
    BY <1>3 DEF Place, InSilver, Ended, Extract, Goto, TypeOK
  <2>2. pc[l] \notin InSilver /\ pc'[l] \notin InSilver
    BY <1>3 DEF Place, InSilver, Ended, Extract, Goto, TypeOK
  <2>3. customers' \in [Load -> Snapshots \cup {<<>>}]
    BY <1>3 DEF Extract, TypeOK
  <2> QED BY <1>3, <2>1, <2>2, <2>3 DEF Extract, silverVars, TypeOK
<1>4. ASSUME NEW l \in Load, QuarantineCustomerErrors(l) PROVE TypeOK'
  <2>1. pc' \in [Load -> Place] /\ \A e \in Load \ {l} : pc'[e] = pc[e]
    BY <1>4 DEF Place, InSilver, Ended, QuarantineCustomerErrors, Goto, TypeOK
  <2>2. pc[l] \notin InSilver /\ pc'[l] \notin InSilver
    BY <1>4 DEF Place, InSilver, Ended, QuarantineCustomerErrors, Goto, TypeOK
  <2>3. \A e \in ValidateCustomers(customers[l]) : e[1] \in Nat /\ e[2] \in Rule
    BY ListType DEF ValidateCustomers
  <2>4. \A q \in QuarantineRows(l) : q.load \in Load /\ q.error[1] \in Nat /\ q.error[2] \in Rule
    BY <2>3 DEF QuarantineRows
  <2>5. \A q \in quarantine' : q.load \in Load /\ q.error[1] \in Nat /\ q.error[2] \in Rule
    BY <1>4, <2>4 DEF QuarantineCustomerErrors, TypeOK
  <2> QED BY <1>4, <2>1, <2>2, <2>5 DEF QuarantineCustomerErrors, silverVars, TypeOK
<1>5. ASSUME NEW l \in Load, CheckInvalidRate(l) PROVE TypeOK'
  <2>1. pc' \in [Load -> Place] /\ \A e \in Load \ {l} : pc'[e] = pc[e]
    BY <1>5 DEF Place, InSilver, Ended, CheckInvalidRate, Goto, TypeOK
  <2>2. pc[l] \notin InSilver /\ pc'[l] \notin InSilver
    BY <1>5 DEF Place, InSilver, Ended, CheckInvalidRate, Goto, TypeOK
  <2> QED BY <1>5, <2>1, <2>2 DEF CheckInvalidRate, bronzeVars, silverVars, TypeOK
<1>6. ASSUME NEW l \in Load, LoadRawCustomers(l) PROVE TypeOK'
  <2>1. pc' \in [Load -> Place] /\ \A e \in Load \ {l} : pc'[e] = pc[e]
    BY <1>6 DEF Place, InSilver, Ended, LoadRawCustomers, Goto, TypeOK
  <2>2. /\ raw' \in [Batch -> [Id -> CustomerRow]]
        /\ source' \in [Batch -> [Id -> Load \cup {NULL}]]
        /\ pc'[l] = "update" => todo'[l] = {k \in Id : raw'[batch[l]][k] # Absent}
    BY <1>6, BronzeLoaded
  <2>3. pc'[l] \in {"update", "failed"} /\ (pc'[l] = "failed" => todo' = todo)
    BY <1>6 DEF LoadRawCustomers, Goto, TypeOK
  <2>4. pc[l] \notin InSilver
    BY <1>6 DEF Place, InSilver, Ended, LoadRawCustomers
  <2>5. \A e \in Load \ {l} : todo'[e] = todo[e]
    BY <1>6 DEF LoadRawCustomers, TypeOK
  <2>6. todo' \in [Load -> SUBSET Id]
    <3>1. \E new \in SUBSET Id : todo' = [todo EXCEPT ![l] = new]
      <4>1. CASE pc'[l] = "failed"
        BY <2>3, <4>1 DEF TypeOK
      <4>2. CASE pc'[l] = "update"
        <5> DEFINE new == {k \in Id : [i \in Id |-> IF i \in NewRows(l) THEN RowOf(l, i)
                                                    ELSE raw[batch[l]][i]][k] # Absent}
        <5>1. todo' = [todo EXCEPT ![l] = new]
          BY <1>6, <4>2 DEF LoadRawCustomers, RowOf, Goto, TypeOK
        <5>2. new \in SUBSET Id
          OBVIOUS
        <5> HIDE DEF new
        <5> QED BY <5>1, <5>2
      <4> QED BY <2>3, <4>1, <4>2
    <3> QED BY <3>1 DEF TypeOK
  <2>7. loaded' \subseteq Batch
    BY <1>6 DEF LoadRawCustomers, TypeOK
  <2>8. pc'[l] \notin InSilver => todo'[l] = {}
    BY <2>3, <2>4 DEF InSilver, TypeOK
  <2> QED BY <1>6, <2>1, <2>2, <2>5, <2>6, <2>7, <2>8 DEF LoadRawCustomers, TypeOK
<1>7. ASSUME NEW l \in Load, NEW k \in Id, UpdateKey(l, k) PROVE TypeOK'
  <2>1. wrote' \in [Load -> [Id -> CustomerRow]]
    BY <1>7, TransactionTypes DEF UpdateKey, TypeOK
  <2>2. todo' \in [Load -> SUBSET Id] /\ \A e \in Load : todo'[e] \subseteq todo[e]
    BY <1>7, TransactionTypes DEF UpdateKey
  <2> QED BY <1>7, <2>1, <2>2 DEF UpdateKey, bronzeVars, TypeOK
<1>8. ASSUME NEW l \in Load, NEW k \in Id, InsertKey(l, k) PROVE TypeOK'
  <2>1. /\ wrote' \in [Load -> [Id -> CustomerRow]]
        /\ todo' \in [Load -> SUBSET Id] /\ \A e \in Load : todo'[e] \subseteq todo[e]
        /\ seen' \in [Load -> SUBSET Id]
    BY <1>8, TransactionTypes DEF InsertKey, TypeOK
  <2>2. pc' \in [Load -> Place] /\ \A e \in Load : pc'[e] = pc[e] \/ (pc'[e] = "failed" /\ todo'[e] = {})
    BY <1>8, TransactionTypes DEF Place, InSilver, Ended, InsertKey, Goto, TypeOK
  <2> QED BY <1>8, <2>1, <2>2 DEF InsertKey, bronzeVars, TypeOK
<1>9. ASSUME NEW l \in Load, BeginInsert(l) PROVE TypeOK'
  <2>1. pc' \in [Load -> Place] /\ pc'[l] = "insert" /\ \A e \in Load \ {l} : pc'[e] = pc[e]
    BY <1>9 DEF Place, InSilver, Ended, BeginInsert, Goto, TypeOK
  <2>2. InBatch(batch[l]) \subseteq Id
    BY DEF InBatch
  <2>3. todo' \in [Load -> SUBSET Id] /\ \A e \in Load \ {l} : todo'[e] = todo[e]
    BY <1>9, <2>2 DEF BeginInsert, TypeOK
  <2>4. seen' \in [Load -> SUBSET Id]
    BY <1>9 DEF BeginInsert, TypeOK
  <2>5. pc'[l] \in InSilver
    BY <2>1 DEF InSilver
  <2> QED BY <1>9, <2>1, <2>3, <2>4, <2>5 DEF BeginInsert, bronzeVars, TypeOK
<1>10. ASSUME NEW l \in Load, CommitSilver(l) PROVE TypeOK'
  <2>1. pc' \in [Load -> Place] /\ \A e \in Load \ {l} : pc'[e] = pc[e]
    BY <1>10 DEF Place, InSilver, Ended, CommitSilver, Goto, TypeOK
  <2>2. /\ wrote' \in [Load -> [Id -> CustomerRow]]
        /\ todo' \in [Load -> SUBSET Id] /\ todo'[l] = {}
        /\ \A e \in Load \ {l} : todo'[e] = todo[e]
        /\ seen' \in [Load -> SUBSET Id]
    BY <1>10, TransactionTypes DEF CommitSilver
  <2>3. silver' \in [Id -> CustomerRow]
    BY <1>10 DEF CommitSilver, TypeOK
  <2>4. rival' \in [Load -> SUBSET Id]
    BY <1>10 DEF CommitSilver, TypeOK
  <2> QED BY <1>10, <2>1, <2>2, <2>3, <2>4 DEF CommitSilver, bronzeVars, TypeOK
<1>11. ASSUME NEW l \in Load, Fails(l) PROVE TypeOK'
  <2>1. pc' \in [Load -> Place] /\ \A e \in Load \ {l} : pc'[e] = pc[e]
    BY <1>11 DEF Place, InSilver, Ended, Fails, Goto, TypeOK
  <2>2. /\ wrote' \in [Load -> [Id -> CustomerRow]]
        /\ todo' \in [Load -> SUBSET Id] /\ todo'[l] = {}
        /\ \A e \in Load \ {l} : todo'[e] = todo[e]
        /\ seen' \in [Load -> SUBSET Id]
    BY <1>11, TransactionTypes DEF Fails
  <2> QED BY <1>11, <2>1, <2>2 DEF Fails, bronzeVars, TypeOK
<1> QED
  BY <1>1, <1>2, <1>3, <1>4, <1>5, <1>6, <1>7, <1>8, <1>9, <1>10, <1>11 DEF Next, Step, Victim

(***************************************************************************)
(* What one attempt's step leaves to the others.                           *)
(***************************************************************************)
Act(l) == Begin(l) \/ Step(l) \/ Fails(l)

LEMMA OthersKeep ==
  ASSUME TypeOK, NEW l \in Load, Act(l)
  PROVE  /\ batch' = batch
         /\ \A e \in Load \ {l} :
              /\ pc'[e] = pc[e] /\ customers'[e] = customers[e]
              /\ Evidence(e)' = Evidence(e)
<1>1. batch' = batch
  BY DEF Act, Begin, Step, Fails, Victim, Extract, QuarantineCustomerErrors, CheckInvalidRate,
         LoadRawCustomers, UpdateKey, InsertKey, BeginInsert, CommitSilver
<1>2. \A e \in Load \ {l} : pc'[e] = pc[e]
  BY DEF TypeOK, Goto, Act, Begin, Step, Fails, Victim, Extract, QuarantineCustomerErrors,
         CheckInvalidRate, LoadRawCustomers, UpdateKey, InsertKey, BeginInsert, CommitSilver
<1>3. Extract(l) \/ UNCHANGED customers
  BY DEF Act, Begin, Step, Fails, Victim, QuarantineCustomerErrors, CheckInvalidRate, bronzeVars,
         LoadRawCustomers, UpdateKey, InsertKey, BeginInsert, CommitSilver
<1>4. \A e \in Load \ {l} : customers'[e] = customers[e]
  BY <1>3 DEF Extract, TypeOK
<1>5. QuarantineCustomerErrors(l) \/ UNCHANGED quarantine
  BY DEF Act, Begin, Step, Fails, Victim, Extract, CheckInvalidRate, bronzeVars,
         LoadRawCustomers, UpdateKey, InsertKey, BeginInsert, CommitSilver
<1>6. \A e \in Load \ {l} : {r \in quarantine' : r.load = e} = {r \in quarantine : r.load = e}
  BY <1>5 DEF QuarantineCustomerErrors, QuarantineRows
<1> QED BY <1>1, <1>2, <1>4, <1>6 DEF Evidence

LEMMA NextIsAct ==
  ASSUME [Next]_vars
  PROVE  UNCHANGED vars \/ \E l \in Load : Act(l)
BY DEF Next, Act

LEMMA OneAttemptStep ==
  ASSUME TypeOK, OneAttemptAtATime, NEW l \in Load, Act(l)
  PROVE  OneAttemptAtATime'
<1>1. /\ batch' = batch
      /\ \A e \in Load \ {l} : pc'[e] = pc[e]
  BY OthersKeep
<1>2. CASE Begin(l)
  <2>1. \A e \in Load \ {l} : batch[e] = batch[l] => ~Keeping(e)'
    BY <1>1, <1>2 DEF Begin, Ended, Keeping
  <2> QED BY <1>1, <2>1 DEF OneAttemptAtATime, Keeping
<1>3. CASE ~Begin(l)
  <2>1. pc[l] \notin {"idle"} \cup Ended
    BY <1>3 DEF Act, Step, Fails, Victim, Extract, QuarantineCustomerErrors, CheckInvalidRate,
         LoadRawCustomers, UpdateKey, InsertKey, BeginInsert, CommitSilver, Ended
  <2>2. Keeping(l)
    BY <2>1 DEF Keeping, Ended
  <2> QED BY <1>1, <2>2 DEF OneAttemptAtATime, Keeping
<1> QED BY <1>2, <1>3

(***************************************************************************)
(* The list of an attempt, its quarantine rows and the gate.               *)
(***************************************************************************)
\* ListProgress, EvidenceIsComplete and RefusalIsJust, of one attempt.
ListOf(l) ==
  /\ pc[l] \in {"idle", "extract"} => customers[l] = <<>>
  /\ pc[l] \in {"idle", "extract", "quarantine"} => Evidence(l) = {}
  /\ pc[l] = "bronze" => ~ExceedsThreshold(customers[l])
  /\ Evidence(l) \in {{}, Errors(customers[l])}
  /\ pc[l] \in {"gate", "bronze", "refused", "update", "insert"} =>
       Evidence(l) = Errors(customers[l])
  /\ pc[l] = "refused" => ExceedsThreshold(customers[l])

LEMMA ListParts ==
  ASSUME TypeOK
  PROVE  ListProgress /\ EvidenceIsComplete /\ RefusalIsJust <=> \A l \in Load : ListOf(l)
<1>1. RefusalIsJust <=> \A l \in Load : pc[l] = "refused" => ExceedsThreshold(customers[l])
  BY ListType, GateIsExact DEF RefusalIsJust
<1>2. {"gate", "bronze", "refused"} \cup InSilver = {"gate", "bronze", "refused", "update", "insert"}
  BY DEF InSilver
<1>3. EvidenceIsComplete <=>
        \A l \in Load :
          /\ Evidence(l) \in {{}, Errors(customers[l])}
          /\ pc[l] \in {"gate", "bronze", "refused", "update", "insert"} =>
               Evidence(l) = Errors(customers[l])
  BY <1>2, Zenon DEF EvidenceIsComplete
<1> QED BY <1>1, <1>3, Zenon DEF ListProgress, ListOf

LEMMA NoErrors == Errors(<<>>) = {}
BY DEF Errors

\* The same list, judged after a step, is judged the same.
LEMMA SameList ==
  ASSUME NEW l \in Load, customers'[l] = customers[l]
  PROVE  /\ ExceedsThreshold(customers[l])' <=> ExceedsThreshold(customers[l])
         /\ Errors(customers[l])' = Errors(customers[l])
BY DEF ExceedsThreshold, Errors, Error, InvalidIds, ValidateCustomers, Breaks

LEMMA ListQuiet ==
  ASSUME TypeOK, NEW l \in Load, ListOf(l),
         customers'[l] = customers[l], Evidence(l)' = Evidence(l),
         \/ pc'[l] = pc[l]
         \/ pc'[l] \in {"failed", "succeeded"}
         \/ pc[l] \in {"bronze", "update", "insert"} /\ pc'[l] \in {"update", "insert"}
  PROVE  ListOf(l)'
<1>1. /\ ExceedsThreshold(customers[l])' <=> ExceedsThreshold(customers[l])
      /\ Errors(customers[l])' = Errors(customers[l])
  BY SameList
<1> QED BY <1>1 DEF ListOf

LEMMA ListStep ==
  ASSUME TypeOK, NEW l \in Load, Act(l), ListOf(l)
  PROVE  ListOf(l)'
<1>0. customers[l] \in Seq(CustomerRecord)
  BY ListType
<1>1. CASE Begin(l)
  <2>1. /\ customers'[l] = <<>> /\ Evidence(l)' = {}
        /\ pc'[l] \in {"extract", "update"}
    BY <1>1 DEF Begin, Goto, bronzeVars, ListOf, Evidence, TypeOK
  <2> QED BY <2>1, NoErrors DEF ListOf
<1>2. CASE Extract(l)
  <2>1. PICK list \in Snapshots :
          /\ customers' = [customers EXCEPT ![l] = list]
          /\ Goto(l, IF ValidateCustomers(list) = {} THEN "gate" ELSE "quarantine")
    BY <1>2 DEF Extract
  <2>2. Errors(list) = ValidateCustomers(list)
    BY CustomerAssumption, ErrorsFound
  <2>3. customers'[l] = list
    BY <2>1 DEF TypeOK
  <2>4. Evidence(l)' = {}
    BY <1>2 DEF Extract, ListOf, Evidence
  <2>5. pc'[l] = (IF Errors(list) = {} THEN "gate" ELSE "quarantine")
    BY <2>1, <2>2 DEF Goto, TypeOK
  <2>6. Errors(customers[l])' = Errors(list)
    BY <2>3 DEF Errors, Error
  <2> QED BY <2>3, <2>4, <2>5, <2>6 DEF ListOf
<1>3. CASE QuarantineCustomerErrors(l)
  <2>1. Evidence(l) = {} /\ pc'[l] \in {"gate", "failed"} /\ customers'[l] = customers[l]
    BY <1>3 DEF QuarantineCustomerErrors, Goto, ListOf, TypeOK
  <2>2. Evidence(l)' = ValidateCustomers(customers[l])
    <3>1. quarantine' = quarantine \cup QuarantineRows(l)
      BY <1>3 DEF QuarantineCustomerErrors
    <3>2. \A r \in quarantine : r.load # l
      BY <2>1 DEF Evidence
    <3>3. {r \in quarantine' : r.load = l} = QuarantineRows(l)
      BY <3>1, <3>2 DEF QuarantineRows
    <3> DEFINE errors == ValidateCustomers(customers[l])
    <3>4. {q.error : q \in {[load |-> l, error |-> e] : e \in errors}} = errors
      <4>1. \A e \in errors : [load |-> l, error |-> e].error = e
        OBVIOUS
      <4> HIDE DEF errors
      <4> QED BY <4>1
    <3>5. {q.error : q \in QuarantineRows(l)} = errors
      BY <3>4 DEF QuarantineRows
    <3> QED BY <3>3, <3>5 DEF Evidence
  <2>3. Errors(customers[l])' = ValidateCustomers(customers[l])
    BY <1>0, <2>1, ErrorsFound DEF Errors, Error
  <2> QED BY <2>1, <2>2, <2>3 DEF ListOf
<1>4. CASE CheckInvalidRate(l)
  <2>1. /\ customers'[l] = customers[l] /\ Evidence(l)' = Evidence(l)
        /\ Evidence(l) = Errors(customers[l])
    BY <1>4 DEF CheckInvalidRate, bronzeVars, ListOf, Evidence
  <2>2. pc'[l] = (IF ExceedsThreshold(customers[l]) THEN "refused" ELSE "bronze")
    BY <1>4 DEF CheckInvalidRate, Goto, TypeOK
  <2>3. /\ ExceedsThreshold(customers[l])' <=> ExceedsThreshold(customers[l])
        /\ Errors(customers[l])' = Errors(customers[l])
    BY <2>1, SameList
  <2> QED BY <2>1, <2>2, <2>3 DEF ListOf
<1>5. CASE /\ ~Begin(l) /\ ~Extract(l) /\ ~QuarantineCustomerErrors(l) /\ ~CheckInvalidRate(l)
  <2>1. /\ customers' = customers /\ quarantine' = quarantine
        /\ \/ pc'[l] = pc[l]
           \/ pc'[l] \in {"failed", "succeeded"}
           \/ pc[l] \in {"bronze", "update", "insert"} /\ pc'[l] \in {"update", "insert"}
    <3>1. CASE LoadRawCustomers(l)
      BY <3>1 DEF LoadRawCustomers, Goto, TypeOK
    <3>2. ASSUME NEW k \in Id, UpdateKey(l, k) \/ InsertKey(l, k)
          PROVE  /\ customers' = customers /\ quarantine' = quarantine
                 /\ pc'[l] = pc[l] \/ pc'[l] = "failed"
      BY <3>2 DEF UpdateKey, InsertKey, Goto, TypeOK, bronzeVars
    <3>3. CASE BeginInsert(l)
      BY <3>3 DEF BeginInsert, Goto, TypeOK, bronzeVars
    <3>4. CASE CommitSilver(l)
      BY <3>4 DEF CommitSilver, Goto, TypeOK, bronzeVars
    <3>5. CASE Fails(l)
      BY <3>5 DEF Fails, Goto, TypeOK, bronzeVars
    <3> QED BY <1>5, <3>1, <3>2, <3>3, <3>4, <3>5 DEF Act, Step, Victim
  <2> QED BY <2>1, ListQuiet DEF Evidence
<1> QED BY <1>1, <1>2, <1>3, <1>4, <1>5

LEMMA ListsStep ==
  ASSUME TypeOK, NEW l \in Load, Act(l), \A e \in Load : ListOf(e)
  PROVE  \A e \in Load : ListOf(e)'
<1>1. \A e \in Load \ {l} : pc'[e] = pc[e] /\ customers'[e] = customers[e] /\ Evidence(e)' = Evidence(e)
  BY OthersKeep
<1>2. \A e \in Load \ {l} : ListOf(e)'
  BY <1>1, ListQuiet
<1> QED BY <1>2, ListStep

(***************************************************************************)
(* The Bronze table.                                                       *)
(***************************************************************************)
\* BronzeIsClean and SourceHasExtracted, of one row.
CleanRow(b, k) ==
  /\ raw[b][k].customer_id = k
  /\ \E l \in Load :
       /\ l = source[b][k] /\ batch[l] = b
       /\ pc[l] \notin {"idle", "extract"}
       /\ CleanIn(customers[l], raw[b][k])
       /\ WithinThreshold(customers[l])

LEMMA CleanParts ==
  BronzeIsClean /\ SourceHasExtracted <=> \A b \in Batch : \A k \in InBatch(b) : CleanRow(b, k)
BY DEF BronzeIsClean, SourceHasExtracted, CleanRow

\* A step that is not a Bronze load leaves the tables; no step shrinks a batch.
LEMMA BatchGrows ==
  ASSUME TypeOK, NEW l \in Load, Act(l)
  PROVE  /\ LoadRawCustomers(l) \/ (raw' = raw /\ source' = source)
         /\ \A b \in Batch : InBatch(b) \subseteq InBatch(b)'
         /\ \A b \in Batch : \A k \in InBatch(b) : raw'[b][k] = raw[b][k] /\ source'[b][k] = source[b][k]
         /\ \A b \in Batch \ {batch[l]} : raw'[b] = raw[b]
<1>1. LoadRawCustomers(l) \/ (raw' = raw /\ source' = source)
  BY DEF Act, Begin, Step, Fails, Victim, Extract, QuarantineCustomerErrors, CheckInvalidRate,
         UpdateKey, InsertKey, BeginInsert, CommitSilver, bronzeVars
<1>2. CASE LoadRawCustomers(l)
  <2>1. \A k \in NewRows(l) : raw[batch[l]][k] = Absent
    BY DEF NewRows
  <2>2. \A b \in Batch : \A k \in InBatch(b) :
          k \in Id /\ raw[b][k] # Absent /\ raw'[b][k] = raw[b][k] /\ source'[b][k] = source[b][k]
    BY <1>2, <2>1, BronzeLoaded DEF InBatch
  <2> QED BY <1>2, <2>2, BronzeLoaded DEF InBatch
<1>3. CASE raw' = raw /\ source' = source
  BY <1>3 DEF InBatch
<1> QED BY <1>1, <1>2, <1>3

\* A row is as clean after a step as before it.
LEMMA CleanKept ==
  ASSUME TypeOK, NEW l \in Load, Act(l), NEW b \in Batch, NEW k \in InBatch(b), CleanRow(b, k)
  PROVE  CleanRow(b, k)'
<1>1. PICK x \in Load :
        /\ x = source[b][k] /\ batch[x] = b /\ pc[x] \notin {"idle", "extract"}
        /\ CleanIn(customers[x], raw[b][k]) /\ WithinThreshold(customers[x])
  BY DEF CleanRow
<1>2. raw'[b][k] = raw[b][k] /\ source'[b][k] = source[b][k] /\ batch' = batch
  BY BatchGrows, OthersKeep
<1>3. customers'[x] = customers[x] /\ pc'[x] \notin {"idle", "extract"}
  <2>1. CASE x # l
    BY <1>1, <2>1, OthersKeep
  <2>2. CASE x = l
    BY <1>1, <2>2 DEF Act, Begin, Step, Fails, Victim, Extract, QuarantineCustomerErrors,
       CheckInvalidRate, LoadRawCustomers, UpdateKey, InsertKey, BeginInsert, CommitSilver,
       bronzeVars, Goto, TypeOK
  <2> QED BY <2>1, <2>2
<1>4. CleanIn(customers'[x], raw'[b][k]) /\ WithinThreshold(customers'[x])
  BY <1>1, <1>2, <1>3
<1>5. raw[b][k].customer_id = k
  BY DEF CleanRow
<1> QED BY <1>1, <1>2, <1>3, <1>4, <1>5 DEF CleanRow

\* An inserted row is clean, because the gate has let its list through.
LEMMA CleanInserted ==
  ASSUME TypeOK, NEW l \in Load, LoadRawCustomers(l), ListOf(l), NEW k \in NewRows(l)
  PROVE  \A b \in Batch : b = batch[l] => CleanRow(b, k)'
<1>1. customers[l] \in Seq(CustomerRecord) /\ ~ExceedsThreshold(customers[l])
  BY ListType DEF LoadRawCustomers, ListOf
<1>2. PICK i \in ValidIndices(customers[l]) :
        customers[l][i] = RowOf(l, k) /\ customers[l][i].customer_id = k
  BY InsertedRow
<1>3. CleanIn(customers[l], RowOf(l, k)) /\ RowOf(l, k).customer_id = k
  BY <1>1, <1>2, ValidIsClean
<1>4. WithinThreshold(customers[l])
  BY <1>1, GateIsExact
<1>5. /\ raw'[batch[l]][k] = RowOf(l, k) /\ source'[batch[l]][k] = l
      /\ customers' = customers /\ batch' = batch /\ pc'[l] \in {"update", "failed"}
  <2>1. raw'[batch[l]][k] = RowOf(l, k) /\ source'[batch[l]][k] = l
    BY BronzeLoaded
  <2>2. pc'[l] \in {"update", "failed"}
    BY DEF LoadRawCustomers, Goto, TypeOK
  <2> QED BY <2>1, <2>2 DEF LoadRawCustomers
<1> QED BY <1>3, <1>4, <1>5 DEF CleanRow

LEMMA CleanStep ==
  ASSUME TypeOK, NEW l \in Load, Act(l), ListOf(l),
         \A b \in Batch : \A k \in InBatch(b) : CleanRow(b, k)
  PROVE  \A b \in Batch : \A k \in InBatch(b)' : CleanRow(b, k)'
<1> SUFFICES ASSUME NEW b \in Batch, NEW k \in InBatch(b)' PROVE CleanRow(b, k)'
  OBVIOUS
<1>1. CASE k \in InBatch(b)
  BY <1>1, CleanKept
<1>2. CASE k \notin InBatch(b)
  <2>1. LoadRawCustomers(l) /\ b = batch[l]
    BY <1>2, BatchGrows DEF InBatch
  <2>2. k \in NewRows(l)
    BY <1>2, <2>1, BronzeLoaded DEF InBatch
  <2> QED BY <2>1, <2>2, CleanInserted
<1> QED BY <1>1, <1>2

(***************************************************************************)
(* Nobody is lost.                                                         *)
(***************************************************************************)
Accounted(l) ==
  \A i \in DOMAIN customers[l] :
    \/ customers[l][i].customer_id \in InBatch(batch[l])
    \/ \E e \in Evidence(l) : customers[l][e[1]].customer_id = customers[l][i].customer_id

\* Begin with the silver task: there is no list.  After the Bronze load: a customer
\* without an error is a new row, or has one already.
LEMMA AccountedStep ==
  ASSUME TypeOK, NEW l \in Load, Act(l), \A e \in Load : ListOf(e), NobodyIsLost
  PROVE  NobodyIsLost'
<1>1. /\ batch' = batch
      /\ \A e \in Load \ {l} : pc'[e] = pc[e] /\ customers'[e] = customers[e]
                               /\ Evidence(e)' = Evidence(e)
  BY OthersKeep
<1>2. \A e \in Load : InBatch(batch[e]) \subseteq InBatch(batch[e])'
  BY <1>1, BatchGrows DEF TypeOK, InBatch
<1>3. ASSUME NEW e \in Load, Accounted(e), customers'[e] = customers[e], Evidence(e)' = Evidence(e)
      PROVE  Accounted(e)'
  BY <1>1, <1>2, <1>3 DEF Accounted
<1>4. \A e \in Load : pc[e] \in InSilver => Accounted(e)
  BY DEF NobodyIsLost, Accounted
<1>5. \A e \in Load \ {l} : pc'[e] \in InSilver => Accounted(e)'
  BY <1>1, <1>3, <1>4
<1>6. ASSUME pc'[l] \in InSilver PROVE Accounted(l)'
  <2>1. CASE Begin(l)
    <3>1. customers'[l] = <<>>
      BY <2>1 DEF Begin, bronzeVars, ListOf
    <3> QED BY <3>1 DEF Accounted
  <2>2. CASE LoadRawCustomers(l)
    <3>1. /\ customers'[l] = customers[l] /\ quarantine' = quarantine
          /\ customers[l] \in Seq(CustomerRecord)
      BY <2>2, ListType DEF LoadRawCustomers
    <3>2. Evidence(l)' = Errors(customers[l])
      BY <2>2, <3>1 DEF LoadRawCustomers, ListOf, Evidence
    <3>3. ASSUME NEW i \in DOMAIN customers[l], customers[l][i].customer_id \notin InvalidIds(customers[l])
          PROVE  customers[l][i].customer_id \in InBatch(batch[l])'
      <4> DEFINE k == customers[l][i].customer_id
      <4>1. k \in Id
        BY <3>1, RecordPresent
      <4>2. k \in NewRows(l) \/ raw[batch[l]][k] # Absent
        BY <3>3 DEF NewRows, ValidIndices
      <4>3. CASE k \in NewRows(l)
        BY <1>1, <2>2, <4>1, <4>3, BronzeLoaded, InsertedRow DEF InBatch
      <4>4. CASE raw[batch[l]][k] # Absent
        BY <1>2, <4>1, <4>4 DEF InBatch
      <4> QED BY <4>2, <4>3, <4>4
    <3>4. \A i \in DOMAIN customers[l] : customers[l][i].customer_id \in InvalidIds(customers[l]) =>
            \E e \in Errors(customers[l]) : customers[l][e[1]].customer_id = customers[l][i].customer_id
      BY <3>1, InvalidFound
    <3> QED BY <1>1, <3>1, <3>2, <3>3, <3>4 DEF Accounted
  <2>3. CASE ~Begin(l) /\ ~LoadRawCustomers(l)
    <3>1. pc[l] \in InSilver /\ customers' = customers /\ quarantine' = quarantine
      BY <1>6, <2>3 DEF Act, Step, Fails, Victim, Extract, QuarantineCustomerErrors, CheckInvalidRate,
         UpdateKey, InsertKey, BeginInsert, CommitSilver, bronzeVars, Goto, TypeOK, InSilver
    <3> QED BY <1>3, <1>4, <3>1 DEF Evidence
  <2> QED BY <2>1, <2>2, <2>3
<1> QED BY <1>5, <1>6 DEF NobodyIsLost, Accounted

(***************************************************************************)
(* The Silver transactions.                                                *)
(***************************************************************************)
\* WritesItsBatch and StatementProgress, of one attempt.
SilverOf(l) ==
  /\ \A k \in Id : wrote[l][k] # Absent => pc[l] \in InSilver /\ wrote[l][k] = raw[batch[l]][k]
  /\ todo[l] \subseteq InBatch(batch[l])
  /\ pc[l] \in InSilver =>
       \A k \in InBatch(batch[l]) :
         pc[l] = "insert" \/ k \notin todo[l] => Settled(l, k) \/ silver[k] = Absent
  /\ pc[l] = "insert" =>
       /\ \A k \in InBatch(batch[l]) : k \notin todo[l] => Settled(l, k)
       /\ \A k \in seen[l] : silver[k] # Absent

LEMMA SilverParts == WritesItsBatch /\ StatementProgress <=> \A l \in Load : SilverOf(l)
BY DEF WritesItsBatch, StatementProgress, SilverOf

\* What a step of l leaves to another attempt in Silver.
LEMMA SilverFrame ==
  ASSUME TypeOK, OneAttemptAtATime, NEW l \in Load, Act(l), NEW e \in Load \ {l}
  PROVE  /\ wrote'[e] = wrote[e] /\ todo'[e] = todo[e] /\ seen'[e] = seen[e]
         /\ batch' = batch /\ pc'[e] = pc[e]
         /\ rival[e] \subseteq rival'[e]
         /\ \A k \in Id :
              \/ silver'[k] = silver[k]
              \/ silver'[k] # Absent /\ (pc[e] \in InSilver => k \in rival'[e])
         /\ pc[e] \in InSilver => raw'[batch[e]] = raw[batch[e]]
<1>1. wrote'[e] = wrote[e] /\ todo'[e] = todo[e] /\ seen'[e] = seen[e]
  BY DEF TypeOK, Act, Begin, Step, Fails, Victim, Extract, QuarantineCustomerErrors, CheckInvalidRate,
         LoadRawCustomers, UpdateKey, InsertKey, BeginInsert, CommitSilver, bronzeVars, silverVars,
         EndTransaction, Write, Visited
<1>2. batch' = batch /\ pc'[e] = pc[e]
  BY OthersKeep
<1>3. CommitSilver(l) \/ (silver' = silver /\ rival' = rival)
  BY DEF Act, Begin, Step, Fails, Victim, Extract, QuarantineCustomerErrors, CheckInvalidRate,
         LoadRawCustomers, UpdateKey, InsertKey, BeginInsert, silverVars
<1>4. /\ rival[e] \subseteq rival'[e]
      /\ \A k \in Id :
           \/ silver'[k] = silver[k]
           \/ silver'[k] # Absent /\ (pc[e] \in InSilver => k \in rival'[e])
  <2>1. CASE silver' = silver /\ rival' = rival
    BY <2>1
  <2>2. CASE CommitSilver(l)
    <3>1. silver' = [k \in Id |-> IF wrote[l][k] # Absent THEN wrote[l][k] ELSE silver[k]]
      BY <2>2 DEF CommitSilver
    <3>2. rival'[e] = IF pc[e] \in InSilver
                      THEN rival[e] \cup {k \in Id : wrote[l][k] # Absent} ELSE rival[e]
      BY <2>2 DEF CommitSilver
    <3> QED BY <3>1, <3>2
  <2> QED BY <1>3, <2>1, <2>2
<1>5. ASSUME pc[e] \in InSilver PROVE raw'[batch[e]] = raw[batch[e]]
  <2>1. CASE LoadRawCustomers(l)
    <3>1. Keeping(l) /\ Keeping(e)
      BY <1>5, <2>1 DEF Keeping, LoadRawCustomers, InSilver
    <3>2. batch[l] # batch[e]
      BY <3>1 DEF OneAttemptAtATime
    <3> QED BY <3>2, BatchGrows DEF TypeOK
  <2> QED BY <2>1, BatchGrows
<1> QED BY <1>1, <1>2, <1>4, <1>5

LEMMA SilverOther ==
  ASSUME TypeOK, OneAttemptAtATime, NEW l \in Load, Act(l), NEW e \in Load \ {l}, SilverOf(e)
  PROVE  SilverOf(e)'
<1>0. /\ wrote'[e] = wrote[e] /\ todo'[e] = todo[e] /\ seen'[e] = seen[e]
      /\ batch' = batch /\ pc'[e] = pc[e]
      /\ rival[e] \subseteq rival'[e]
  BY SilverFrame
<1>1. CASE pc[e] \notin InSilver
  <2>1. todo'[e] = {} /\ \A k \in Id : wrote'[e][k] = Absent
    BY <1>0, <1>1 DEF SilverOf, TypeOK
  <2> QED BY <1>0, <1>1, <2>1 DEF SilverOf, InSilver
<1>2. CASE pc[e] \in InSilver
  <2>1. raw'[batch'[e]] = raw[batch[e]]
    BY <1>0, <1>2, SilverFrame
  <2>2. InBatch(batch[e])' = InBatch(batch[e]) /\ InBatch(batch[e]) \subseteq Id
    BY <2>1 DEF InBatch
  <2>3. \A k \in Id : silver'[k] = silver[k] \/ (silver'[k] # Absent /\ k \in rival'[e])
    BY <1>2, SilverFrame
  <2>4. \A k \in Id : Settled(e, k) => Settled(e, k)'
    BY <1>0, <2>1, <2>3 DEF Settled
  <2>5. \A k \in Id : silver[k] = Absent => silver'[k] = Absent \/ Settled(e, k)'
    BY <2>3 DEF Settled
  <2>6. \A k \in Id : silver[k] # Absent => silver'[k] # Absent
    BY <2>3
  <2>7. \A k \in Id : wrote'[e][k] # Absent => pc'[e] \in InSilver /\ wrote'[e][k] = raw'[batch'[e]][k]
    BY <1>0, <2>1 DEF SilverOf
  <2>8. todo'[e] \subseteq InBatch(batch[e])'
    BY <1>0, <2>2 DEF SilverOf
  <2>9. \A k \in InBatch(batch[e])' :
          pc'[e] = "insert" \/ k \notin todo'[e] => Settled(e, k)' \/ silver'[k] = Absent
    BY <1>0, <1>2, <2>2, <2>4, <2>5 DEF SilverOf
  <2>10. pc'[e] = "insert" =>
           /\ \A k \in InBatch(batch[e])' : k \notin todo'[e] => Settled(e, k)'
           /\ \A k \in seen'[e] : silver'[k] # Absent
    BY <1>0, <2>2, <2>4, <2>6 DEF SilverOf, TypeOK
  <2> QED BY <2>7, <2>8, <2>9, <2>10 DEF SilverOf
<1> QED BY <1>1, <1>2

\* An attempt that has not begun its transaction, or has ended it.
LEMMA SilverIdle ==
  ASSUME NEW l \in Load, pc'[l] \notin InSilver, todo'[l] = {}, \A k \in Id : wrote'[l][k] = Absent
  PROVE  SilverOf(l)'
BY DEF SilverOf, InSilver

LEMMA SilverBegins ==
  ASSUME NEW l \in Load, pc'[l] = "update", todo'[l] = InBatch(batch[l])',
         \A k \in Id : wrote'[l][k] = Absent
  PROVE  SilverOf(l)'
BY DEF SilverOf, InSilver

LEMMA NothingWritten ==
  ASSUME TypeOK, NEW l \in Load, EndTransaction(l)
  PROVE  todo'[l] = {} /\ \A k \in Id : wrote'[l][k] = Absent
BY DEF EndTransaction, Nothing, TypeOK

\* A row that l writes is its batch's, and is settled; the other keys are as before.
LEMMA KeyWritten ==
  ASSUME TypeOK, NEW l \in Load, NEW k \in InBatch(batch[l]), SilverOf(l),
         pc[l] \in InSilver, pc'[l] = pc[l], Visited(l, k), Write(l, k) \/ wrote' = wrote,
         Write(l, k) \/ (k \in rival[l] \/ silver[k] = Absent
                           \/ Hash(silver[k]) = Hash(raw[batch[l]][k])),
         pc[l] = "insert" => Write(l, k) \/ silver[k] # Absent,
         UNCHANGED <<batch, raw, silver, rival, seen>>
  PROVE  SilverOf(l)'
<1>1. k \in Id /\ raw[batch[l]][k] # Absent
  BY DEF InBatch
<1>2. todo'[l] = todo[l] \ {k}
  BY DEF Visited, TypeOK
<1>3. Write(l, k) => wrote'[l] = [wrote[l] EXCEPT ![k] = raw[batch[l]][k]]
  BY DEF Write, TypeOK
<1>4. /\ Write(l, k) => wrote'[l][k] = raw[batch[l]][k]
      /\ ~Write(l, k) => wrote'[l] = wrote[l]
      /\ \A x \in Id : x # k => wrote'[l][x] = wrote[l][x]
  BY <1>1, <1>3 DEF TypeOK
<1>5. \A x \in Id : Settled(l, x) => Settled(l, x)'
  BY <1>1, <1>4 DEF Settled
<1>6. Settled(l, k)' \/ silver'[k] = Absent
  BY <1>1, <1>4 DEF Settled
<1>7. pc[l] = "insert" => Settled(l, k)'
  BY <1>1, <1>4, <1>6 DEF Settled
<1>8. InBatch(batch[l])' = InBatch(batch[l]) /\ InBatch(batch[l]) \subseteq Id
  BY DEF InBatch
<1>9. \A x \in Id : wrote'[l][x] # Absent => pc'[l] \in InSilver /\ wrote'[l][x] = raw'[batch'[l]][x]
  BY <1>4 DEF SilverOf
<1>10. todo'[l] \subseteq InBatch(batch[l])'
  BY <1>2, <1>8 DEF SilverOf
<1>11. \A x \in InBatch(batch[l])' :
         pc'[l] = "insert" \/ x \notin todo'[l] => Settled(l, x)' \/ silver'[x] = Absent
  BY <1>2, <1>5, <1>6, <1>8 DEF SilverOf
<1>12. pc'[l] = "insert" =>
         /\ \A x \in InBatch(batch[l])' : x \notin todo'[l] => Settled(l, x)'
         /\ \A x \in seen'[l] : silver'[x] # Absent
  BY <1>2, <1>5, <1>7, <1>8 DEF SilverOf
<1> QED BY <1>9, <1>10, <1>11, <1>12 DEF SilverOf

LEMMA SilverOwn ==
  ASSUME TypeOK, NEW l \in Load, Act(l), SilverOf(l)
  PROVE  SilverOf(l)'
<1>0. pc[l] \notin InSilver => todo[l] = {} /\ \A k \in Id : wrote[l][k] = Absent
  BY DEF SilverOf, TypeOK
<1>1. CASE Begin(l)
  <2>1. UNCHANGED <<wrote, raw, batch>> /\ pc[l] \notin InSilver
    BY <1>1 DEF Begin, bronzeVars, InSilver
  <2>2. InBatch(batch[l])' = InBatch(batch[l])
    BY <2>1 DEF InBatch
  <2>3. \/ pc'[l] = "extract" /\ todo'[l] = {}
        \/ pc'[l] = "update" /\ todo'[l] = InBatch(batch[l])
    BY <1>0, <1>1, <2>1 DEF Begin, Goto, TypeOK
  <2> QED BY <1>0, <2>1, <2>2, <2>3, SilverIdle, SilverBegins DEF InSilver
<1>2. CASE Extract(l) \/ QuarantineCustomerErrors(l) \/ CheckInvalidRate(l)
  <2>1. UNCHANGED <<wrote, todo>> /\ pc[l] \notin InSilver /\ pc'[l] \notin InSilver
    BY <1>2 DEF Extract, QuarantineCustomerErrors, CheckInvalidRate, Goto, silverVars, InSilver, TypeOK
  <2> QED BY <1>0, <2>1, SilverIdle
<1>3. CASE LoadRawCustomers(l)
  <2>1. UNCHANGED <<wrote, batch>> /\ pc[l] \notin InSilver
    BY <1>3 DEF LoadRawCustomers, InSilver
  <2>2. pc'[l] = "update" \/ (pc'[l] = "failed" /\ todo'[l] = todo[l])
    BY <1>3 DEF LoadRawCustomers, Goto, TypeOK
  <2>3. pc'[l] = "update" => todo'[l] = InBatch(batch[l])'
    BY <1>3, <2>1, BronzeLoaded DEF InBatch
  <2> QED BY <1>0, <2>1, <2>2, <2>3, SilverIdle, SilverBegins DEF InSilver
<1>4. ASSUME NEW k \in Id, UpdateKey(l, k) PROVE SilverOf(l)'
  <2>1. /\ pc[l] = "update" /\ k \in todo[l] /\ Visited(l, k)
        /\ UNCHANGED <<batch, pc, raw, silver, seen, rival>>
    BY <1>4 DEF UpdateKey, bronzeVars
  <2>2. k \in InBatch(batch[l]) /\ pc[l] \in InSilver
    BY <2>1 DEF SilverOf, InSilver
  <2>3. \/ Write(l, k)
        \/ wrote' = wrote /\ (silver[k] = Absent \/ Hash(silver[k]) = Hash(raw[batch[l]][k]))
    BY <1>4 DEF UpdateKey
  <2> QED BY <2>1, <2>2, <2>3, KeyWritten
<1>5. ASSUME NEW k \in Id, InsertKey(l, k) PROVE SilverOf(l)'
  <2>1. /\ pc[l] = "insert" /\ k \in todo[l]
        /\ UNCHANGED <<batch, raw, silver, rival>>
    BY <1>5 DEF InsertKey, bronzeVars
  <2>2. k \in InBatch(batch[l]) /\ pc[l] \in InSilver
    BY <2>1 DEF SilverOf, InSilver
  <2>3. k \in seen[l] => silver[k] # Absent
    BY <2>1 DEF SilverOf
  <2>4. Settled(l, k) \/ silver[k] = Absent
    BY <2>1, <2>2 DEF SilverOf
  <2>5. CASE pc' = pc /\ wrote' = wrote /\ seen' = seen /\ Visited(l, k) /\ (k \in seen[l] \/ silver[k] # Absent)
    <3>1. silver[k] # Absent /\ Settled(l, k)
      BY <2>3, <2>4, <2>5
    <3>2. CASE wrote[l][k] # Absent
      <4>1. todo'[l] = todo[l] \ {k}
        BY <2>5 DEF Visited, TypeOK
      <4>2. InBatch(batch[l])' = InBatch(batch[l])
        BY <2>1 DEF InBatch
      <4>3. \A x \in Id : Settled(l, x)' <=> Settled(l, x)
        BY <2>1, <2>5 DEF Settled
      <4> QED BY <2>1, <2>5, <3>1, <4>1, <4>2, <4>3 DEF SilverOf, InBatch
    <3>3. CASE wrote[l][k] = Absent
      <4>1. k \in rival[l] \/ Hash(silver[k]) = Hash(raw[batch[l]][k])
        BY <3>1, <3>3 DEF Settled
      <4> QED BY <2>1, <2>2, <2>5, <3>1, <4>1, KeyWritten
    <3> QED BY <3>2, <3>3
  <2>6. CASE Write(l, k) /\ Visited(l, k) /\ UNCHANGED <<pc, seen>>
    BY <2>1, <2>2, <2>6, KeyWritten
  <2>7. CASE Goto(l, "failed") /\ EndTransaction(l)
    <3>1. pc'[l] \notin InSilver
      BY <2>7 DEF Goto, InSilver, TypeOK
    <3> QED BY <2>7, <3>1, NothingWritten, SilverIdle
  <2> QED BY <1>5, <2>5, <2>6, <2>7 DEF InsertKey
<1>6. CASE BeginInsert(l)
  <2>1. /\ pc[l] = "update" /\ todo[l] = {} /\ pc'[l] = "insert"
        /\ UNCHANGED <<batch, raw, silver, wrote, rival>>
        /\ todo'[l] = InBatch(batch[l])
        /\ seen'[l] = {i \in Id : silver[i] # Absent}
    BY <1>6 DEF BeginInsert, bronzeVars, Goto, TypeOK
  <2>2. InBatch(batch[l])' = InBatch(batch[l])
    BY <2>1 DEF InBatch
  <2>3. \A k \in InBatch(batch[l]) : Settled(l, k) \/ silver[k] = Absent
    BY <2>1 DEF SilverOf, InSilver
  <2>4. \A k \in InBatch(batch[l]) : Settled(l, k)' <=> Settled(l, k)
    BY <2>1 DEF Settled
  <2> QED BY <2>1, <2>2, <2>3, <2>4 DEF SilverOf, InSilver
<1>7. CASE CommitSilver(l) \/ Fails(l)
  <2>1. EndTransaction(l) /\ pc'[l] \in {"succeeded", "failed"}
    BY <1>7 DEF CommitSilver, Fails, Goto, TypeOK
  <2> QED BY <2>1, NothingWritten, SilverIdle DEF InSilver
<1> QED BY <1>1, <1>2, <1>3, <1>4, <1>5, <1>6, <1>7 DEF Act, Step, Victim

(***************************************************************************)
(* The invariant and the theorems.                                         *)
(***************************************************************************)
AllOf ==
  /\ TypeOK /\ OneAttemptAtATime /\ NobodyIsLost
  /\ \A l \in Load : ListOf(l)
  /\ \A b \in Batch : \A k \in InBatch(b) : CleanRow(b, k)
  /\ \A l \in Load : SilverOf(l)

LEMMA InvParts == CustomerInv <=> AllOf
BY ListParts, CleanParts, SilverParts DEF CustomerInv, BronzeInv, AllOf

LEMMA InitInv == Init => AllOf
<1> SUFFICES ASSUME Init PROVE AllOf
  OBVIOUS
<1>1. TypeOK
  BY InitTypeOK
<1>2. OneAttemptAtATime /\ NobodyIsLost
  BY DEF Init, OneAttemptAtATime, Keeping, NobodyIsLost, InSilver
<1>3. \A l \in Load : ListOf(l)
  BY NoErrors DEF Init, ListOf, Evidence
<1>4. \A b \in Batch : InBatch(b) = {}
  BY DEF Init, InBatch, Nothing
<1>5. \A l \in Load : SilverOf(l)
  BY DEF Init, SilverOf, InSilver, Nothing
<1> QED BY <1>1, <1>2, <1>3, <1>4, <1>5 DEF AllOf

LEMMA NextInv == AllOf /\ [Next]_vars => AllOf'
<1> SUFFICES ASSUME AllOf, [Next]_vars PROVE AllOf'
  OBVIOUS
<1>1. TypeOK'
  BY NextTypeOK DEF AllOf
<1>2. CASE UNCHANGED vars
  <2>1. OneAttemptAtATime' /\ NobodyIsLost'
    BY <1>2 DEF vars, AllOf, OneAttemptAtATime, Keeping, NobodyIsLost, InBatch, Evidence
  <2>2. \A l \in Load : ListOf(l)'
    BY <1>2 DEF vars, AllOf, ListOf, Evidence
  <2>3. \A b \in Batch : \A k \in InBatch(b)' : CleanRow(b, k)'
    BY <1>2 DEF vars, AllOf, CleanRow, InBatch
  <2>4. \A l \in Load : SilverOf(l)'
    BY <1>2 DEF vars, AllOf, SilverOf, Settled, InBatch
  <2> QED BY <1>1, <2>1, <2>2, <2>3, <2>4 DEF AllOf
<1>3. ASSUME NEW l \in Load, Act(l) PROVE AllOf'
  <2>1. OneAttemptAtATime'
    BY <1>3, OneAttemptStep DEF AllOf
  <2>2. NobodyIsLost'
    BY <1>3, AccountedStep DEF AllOf
  <2>3. \A e \in Load : ListOf(e)'
    BY <1>3, ListsStep DEF AllOf
  <2>4. \A b \in Batch : \A k \in InBatch(b)' : CleanRow(b, k)'
    BY <1>3, CleanStep DEF AllOf
  <2>5. \A e \in Load : SilverOf(e)'
    BY <1>3, SilverOwn, SilverOther DEF AllOf
  <2> QED BY <1>1, <2>1, <2>2, <2>3, <2>4, <2>5 DEF AllOf
<1> QED BY <1>2, <1>3, NextIsAct

LEMMA Invariance == Spec => []CustomerInv
<1>1. Spec => []AllOf
  BY InitInv, NextInv, PTL DEF Spec
<1> QED BY <1>1, InvParts, PTL

\* The types, of every reachable state, for any attempts, batches and lists.
THEOREM TypeCorrect == Spec => []TypeOK
<1>1. CustomerInv => TypeOK
  BY DEF CustomerInv, BronzeInv
<1> QED BY <1>1, Invariance, PTL

\* The quarantine holds all the errors of an attempt's list, or none yet.
THEOREM EvidenceIsKept == Spec => []EvidenceIsComplete
<1>1. CustomerInv => EvidenceIsComplete
  BY DEF CustomerInv, BronzeInv
<1> QED BY <1>1, Invariance, PTL

\* The gate refuses exactly what is over the threshold, whatever the rate.
THEOREM RefusalsAreJust == Spec => []RefusalIsJust
<1>1. CustomerInv => RefusalIsJust
  BY DEF CustomerInv, BronzeInv
<1> QED BY <1>1, Invariance, PTL

\* Bronze holds valid customers only, of lists the gate has let through.
THEOREM CleanBronze == Spec => []BronzeIsClean
<1>1. CustomerInv => BronzeIsClean
  BY DEF CustomerInv, BronzeInv
<1> QED BY <1>1, Invariance, PTL

\* Between the source and Silver each customer is in Bronze or in the quarantine.
THEOREM NoneLost == Spec => []NobodyIsLost
<1>1. CustomerInv => NobodyIsLost
  BY DEF CustomerInv, BronzeInv
<1> QED BY <1>1, Invariance, PTL

\* An attempt that succeeds has made Silver say what its batch says, but for rows
\* that other transactions have committed meanwhile, whatever the interleaving.
THEOREM SilverSays == Spec => SilverSaysWhatBatchSays
<1>1. ASSUME CustomerInv, [Next]_vars
      PROVE  [\A l \in Load : pc[l] = "insert" /\ pc'[l] = "succeeded" =>
                \A k \in InBatch(batch[l]) : k \in rival[l] \/ Agree(silver'[k], raw[batch[l]][k])]_vars
  <2> SUFFICES ASSUME NEW l \in Load, pc[l] = "insert", pc'[l] = "succeeded",
                      NEW k \in InBatch(batch[l]), k \notin rival[l]
               PROVE  Agree(silver'[k], raw[batch[l]][k])
    OBVIOUS
  <2>0. AllOf
    BY <1>1, InvParts
  <2>1. CommitSilver(l)
    <3>1. PICK x \in Load : Act(x)
      BY <1>1, NextIsAct DEF vars
    <3>2. x = l
      BY <2>0, <3>1, OthersKeep DEF AllOf
    <3> QED BY <2>0, <3>1, <3>2 DEF AllOf, TypeOK, Act, Begin, Step, Fails, Victim, Extract,
          QuarantineCustomerErrors, CheckInvalidRate, LoadRawCustomers, UpdateKey, InsertKey,
          BeginInsert, Goto
  <2>2. /\ silver'[k] = IF wrote[l][k] # Absent THEN wrote[l][k] ELSE silver[k]
        /\ todo[l] = {} /\ k \in Id
    BY <2>1 DEF CommitSilver, InBatch
  <2>3. SilverOf(l) /\ Settled(l, k)
    BY <2>0, <2>2 DEF AllOf, SilverOf
  <2>4. CASE wrote[l][k] # Absent
    <3>1. silver'[k] = raw[batch[l]][k]
      BY <2>2, <2>3, <2>4 DEF SilverOf
    <3> QED BY <3>1 DEF Agree
  <2>5. CASE wrote[l][k] = Absent
    <3>1. /\ silver'[k] = silver[k] /\ silver[k] # Absent
          /\ Hash(silver[k]) = Hash(raw[batch[l]][k])
      BY <2>2, <2>3, <2>5 DEF Settled
    <3>2. silver[k] \in CustomerRecord /\ raw[batch[l]][k] \in CustomerRecord
      BY <2>0, <2>2, <3>1 DEF AllOf, TypeOK, CustomerRow, InBatch
    <3> QED BY <3>1, <3>2, HashAgrees
  <2> QED BY <2>4, <2>5
<1> QED BY <1>1, Invariance, PTL DEF Spec, SilverSaysWhatBatchSays
-----------------------------------------------------------------------------
(***************************************************************************)
(* Isolation: what the row locks of two Silver loads come to.              *)
(***************************************************************************)
\* A row that is written and not committed is so by one transaction, which needed to
\* write it: Silver has no row of the key, or one with another hash.
RowLocks ==
  /\ \A l, e \in Load : l # e => \A k \in Id : wrote[l][k] = Absent \/ wrote[e][k] = Absent
  /\ \A l \in Load : \A k \in Id :
       wrote[l][k] # Absent => silver[k] = Absent \/ Hash(silver[k]) # Hash(wrote[l][k])

LEMMA RowLocksStep ==
  ASSUME TypeOK, RowLocks, NEW l \in Load, Act(l)
  PROVE  RowLocks'
<1>0. /\ wrote \in [Load -> [Id -> CustomerRow]] /\ silver \in [Id -> CustomerRow]
      /\ raw \in [Batch -> [Id -> CustomerRow]] /\ batch \in [Load -> Batch]
  BY DEF TypeOK
<1>1. CASE silver' = silver /\ wrote' = wrote
  BY <1>1 DEF RowLocks
<1>2. CASE wrote' = [wrote EXCEPT ![l] = Nothing] /\ silver' = silver
  <2>1. \A k \in Id : wrote'[l][k] = Absent
    BY <1>0, <1>2 DEF Nothing
  <2>2. \A e \in Load \ {l} : wrote'[e] = wrote[e]
    BY <1>0, <1>2
  <2>3. QED BY <1>2, <2>1, <2>2 DEF RowLocks
<1>3. CASE CommitSilver(l)
  <2>1. \A k \in Id : wrote'[l][k] = Absent
    BY <1>0, <1>3 DEF CommitSilver, EndTransaction, Nothing
  <2>2. \A e \in Load \ {l} : wrote'[e] = wrote[e]
    BY <1>0, <1>3 DEF CommitSilver, EndTransaction
  <2>3. \A k \in Id : wrote[l][k] = Absent => silver'[k] = silver[k]
    BY <1>3 DEF CommitSilver
  <2>4. \A e \in Load \ {l} : \A k \in Id : wrote[e][k] # Absent => silver'[k] = silver[k]
    BY <2>3 DEF RowLocks
  <2>5. QED BY <2>1, <2>2, <2>4 DEF RowLocks
<1>4. ASSUME NEW k \in Id, Write(l, k), Free(l, k), silver' = silver,
             silver[k] = Absent \/ Hash(silver[k]) # Hash(raw[batch[l]][k])
      PROVE  RowLocks'
  <2>1. wrote'[l] = [wrote[l] EXCEPT ![k] = raw[batch[l]][k]]
    BY <1>0, <1>4 DEF Write
  <2>2. \A e \in Load \ {l} : wrote'[e] = wrote[e]
    BY <1>0, <1>4 DEF Write
  <2>3. /\ wrote'[l][k] = raw[batch[l]][k]
        /\ \A i \in Id \ {k} : wrote'[l][i] = wrote[l][i]
    BY <1>0, <2>1
  <2>4. \A e \in Load \ {l} : wrote[e][k] = Absent
    BY <1>4 DEF Free
  <2>5. \A e, f \in Load : e # f => \A i \in Id : wrote'[e][i] = Absent \/ wrote'[f][i] = Absent
    BY <2>2, <2>3, <2>4 DEF RowLocks
  <2>6. \A i \in Id : wrote'[l][i] # Absent => silver[i] = Absent \/ Hash(silver[i]) # Hash(wrote'[l][i])
    BY <1>4, <2>3 DEF RowLocks
  <2>7. QED BY <1>4, <2>2, <2>5, <2>6 DEF RowLocks
<1>5. ASSUME NEW k \in Id, UpdateKey(l, k) PROVE RowLocks'
  BY <1>1, <1>4, <1>5 DEF UpdateKey
<1>6. ASSUME NEW k \in Id, InsertKey(l, k) PROVE RowLocks'
  BY <1>1, <1>2, <1>4, <1>6 DEF InsertKey, EndTransaction
<1>7. CASE Fails(l)
  BY <1>2, <1>7 DEF Fails, EndTransaction
<1>8. CASE Begin(l) \/ Extract(l) \/ QuarantineCustomerErrors(l) \/ CheckInvalidRate(l)
             \/ LoadRawCustomers(l) \/ BeginInsert(l)
  BY <1>1, <1>8 DEF Begin, Extract, QuarantineCustomerErrors, CheckInvalidRate, LoadRawCustomers,
                    BeginInsert, silverVars
<1>9. QED BY <1>3, <1>5, <1>6, <1>7, <1>8 DEF Act, Step, Victim

LEMMA RowLocksHold == Spec => []RowLocks
<1>1. Init => RowLocks
  BY DEF Init, RowLocks, Nothing
<1>2. CustomerInv /\ RowLocks /\ [Next]_vars => RowLocks'
  <2> SUFFICES ASSUME CustomerInv, RowLocks, [Next]_vars PROVE RowLocks'
    OBVIOUS
  <2>1. CASE UNCHANGED vars
    BY <2>1 DEF vars, RowLocks
  <2>2. CASE \E l \in Load : Act(l)
    BY <2>2, RowLocksStep DEF CustomerInv, BronzeInv
  <2>3. QED BY <2>1, <2>2, NextIsAct
<1>3. QED BY Invariance, <1>1, <1>2, PTL DEF Spec

\* What the UPDATE and the INSERT make of a key, when nothing comes in between: a row
\* that is new or has another hash is the batch's, any other stays.
Upserted(l, k) ==
  IF /\ k \in InBatch(batch[l])
     /\ silver[k] = Absent \/ Hash(silver[k]) # Hash(raw[batch[l]][k])
  THEN raw[batch[l]][k]
  ELSE silver[k]

\* The whole of silver.usp_LoadCustomers takes effect at once, with its COMMIT, on the
\* table as it is then; a key that another batch has committed since the UPDATE began
\* may be left as that batch has made it.
SilverLoadIsUpsert ==
  [][\/ silver' = silver
     \/ \E l \in Load :
          /\ pc[l] = "insert" /\ pc'[l] \in {"succeeded", "failed"}
          /\ \A k \in Id : \/ silver'[k] = Upserted(l, k)
                           \/ k \in rival[l] /\ silver'[k] = silver[k]]_vars

LEMMA CommitIsUpsert ==
  ASSUME AllOf, RowLocks, NEW l \in Load, CommitSilver(l), NEW k \in Id
  PROVE  silver'[k] = Upserted(l, k) \/ (k \in rival[l] /\ silver'[k] = silver[k])
<1>1. silver'[k] = IF wrote[l][k] # Absent THEN wrote[l][k] ELSE silver[k]
  BY DEF CommitSilver
<1>2. SilverOf(l) /\ pc[l] = "insert" /\ todo[l] = {}
  BY DEF AllOf, CommitSilver
<1>3. CASE wrote[l][k] # Absent
  <2>1. wrote[l][k] = raw[batch[l]][k]
    BY <1>2, <1>3 DEF SilverOf
  <2>2. k \in InBatch(batch[l])
    BY <1>3, <2>1 DEF InBatch
  <2>3. silver[k] = Absent \/ Hash(silver[k]) # Hash(raw[batch[l]][k])
    BY <1>3, <2>1 DEF RowLocks
  <2>4. QED BY <1>1, <1>3, <2>1, <2>2, <2>3 DEF Upserted
<1>4. CASE wrote[l][k] = Absent
  <2>1. silver'[k] = silver[k]
    BY <1>1, <1>4
  <2>2. k \in InBatch(batch[l]) => Settled(l, k)
    BY <1>2 DEF SilverOf
  <2>3. QED BY <1>4, <2>1, <2>2 DEF Settled, Upserted
<1>5. QED BY <1>3, <1>4

\* Statement by statement, beside other batches, a Silver load is still one upsert.
THEOREM SilverLoadsAreUpserts == Spec => SilverLoadIsUpsert
<1>1. ASSUME AllOf, RowLocks, [Next]_vars
      PROVE  [\/ silver' = silver
              \/ \E l \in Load :
                   /\ pc[l] = "insert" /\ pc'[l] \in {"succeeded", "failed"}
                   /\ \A k \in Id : \/ silver'[k] = Upserted(l, k)
                                    \/ k \in rival[l] /\ silver'[k] = silver[k]]_vars
  <2> SUFFICES ASSUME NEW l \in Load, Act(l)
               PROVE  \/ silver' = silver
                      \/ \E e \in Load :
                           /\ pc[e] = "insert" /\ pc'[e] \in {"succeeded", "failed"}
                           /\ \A k \in Id : \/ silver'[k] = Upserted(e, k)
                                            \/ k \in rival[e] /\ silver'[k] = silver[k]
    BY <1>1, NextIsAct
  <2>1. CASE CommitSilver(l)
    <3>1. pc[l] = "insert" /\ pc'[l] \in {"succeeded", "failed"}
      BY <1>1, <2>1 DEF CommitSilver, Goto, AllOf, TypeOK
    <3>2. QED BY <1>1, <2>1, <3>1, CommitIsUpsert
  <2>2. CASE ~CommitSilver(l)
    BY <2>2 DEF Act, Begin, Step, Fails, Victim, Extract, QuarantineCustomerErrors, CheckInvalidRate,
                LoadRawCustomers, UpdateKey, InsertKey, BeginInsert, silverVars
  <2>3. QED BY <2>1, <2>2
<1>2. Spec => []AllOf
  BY InitInv, NextInv, PTL DEF Spec
<1>3. QED BY <1>1, <1>2, RowLocksHold, PTL DEF Spec, SilverLoadIsUpsert

-----------------------------------------------------------------------------
(***************************************************************************)
(* Waiting: the safety half of EveryAttemptEnds.                           *)
(***************************************************************************)
\* While an attempt is in its Silver transaction, some attempt can go on there: it has
\* no row lock to wait for, or it is in a deadlock, which the server ends.  And only
\* attempts at different batches wait for each other.
SomebodyCanGoOn ==
  /\ (\E l \in Load : pc[l] \in InSilver) =>
       \E l \in Load : pc[l] \in InSilver /\ (Deadlocked(l) \/ \A e \in Load : ~WaitsFor(l, e))
  /\ \A l, e \in Load : WaitsFor(l, e) => batch[l] # batch[e]

\* Whatever the locks, the Silver loads are never all stuck.
THEOREM SilverIsNeverStuck == Spec => []SomebodyCanGoOn
<1>1. ASSUME AllOf PROVE SomebodyCanGoOn
  <2>1. ASSUME NEW l \in Load, NEW e \in Load, WaitsFor(l, e)
        PROVE  pc[e] \in InSilver /\ batch[l] # batch[e]
    <3>1. PICK k \in todo[l] : wrote[e][k] # Absent
      BY <2>1 DEF WaitsFor
    <3>2. k \in Id
      BY <1>1, <3>1 DEF AllOf, TypeOK
    <3>3. pc[e] \in InSilver
      BY <1>1, <3>1, <3>2 DEF AllOf, SilverOf
    <3>4. Keeping(l) /\ Keeping(e) /\ l # e
      BY <2>1, <3>3 DEF WaitsFor, InSilver, Keeping
    <3>5. QED BY <1>1, <3>3, <3>4 DEF AllOf, OneAttemptAtATime
  <2>2. ASSUME NEW l \in Load, pc[l] \in InSilver,
               \A e \in Load : pc[e] \in InSilver => \E f \in Load : WaitsFor(e, f)
        PROVE  Deadlocked(l)
    <3> DEFINE S == {e \in Load : pc[e] \in InSilver}
    <3>1. S \in SUBSET Load /\ l \in S
      BY <2>2
    <3>2. \A x \in S : \E y \in S : WaitsFor(x, y)
      BY <2>1, <2>2
    <3>3. QED BY <3>1, <3>2 DEF Deadlocked
  <2>3. QED BY <2>1, <2>2 DEF SomebodyCanGoOn
<1>2. Spec => []AllOf
  BY InitInv, NextInv, PTL DEF Spec
<1>3. QED BY <1>1, <1>2, PTL

-----------------------------------------------------------------------------
(***************************************************************************)
(* What earlier attempts have done stays.                                  *)
(***************************************************************************)
\* A Bronze row is never written again, by whatever attempt or batch; quarantine rows
\* stay, and Silver never loses a customer.
EarlierWorkStays ==
  [][/\ \A b \in Batch : \A k \in InBatch(b) : raw'[b][k] = raw[b][k]
     /\ quarantine \subseteq quarantine'
     /\ \A k \in Id : silver[k] # Absent => silver'[k] # Absent]_vars

\* Retries, failures and other batches take nothing away.
THEOREM NothingIsTakenAway == Spec => EarlierWorkStays
<1>1. ASSUME TypeOK, [Next]_vars
      PROVE  [/\ \A b \in Batch : \A k \in InBatch(b) : raw'[b][k] = raw[b][k]
              /\ quarantine \subseteq quarantine'
              /\ \A k \in Id : silver[k] # Absent => silver'[k] # Absent]_vars
  <2> SUFFICES ASSUME NEW l \in Load, Act(l)
               PROVE  /\ \A b \in Batch : \A k \in InBatch(b) : raw'[b][k] = raw[b][k]
                      /\ quarantine \subseteq quarantine'
                      /\ \A k \in Id : silver[k] # Absent => silver'[k] # Absent
    BY <1>1, NextIsAct
  <2>1. \A b \in Batch : \A k \in InBatch(b) : raw'[b][k] = raw[b][k]
    BY <1>1, BatchGrows
  <2>2. QuarantineCustomerErrors(l) \/ quarantine' = quarantine
    BY DEF Act, Begin, Step, Fails, Victim, Extract, CheckInvalidRate, bronzeVars,
           LoadRawCustomers, UpdateKey, InsertKey, BeginInsert, CommitSilver
  <2>3. quarantine \subseteq quarantine'
    BY <2>2 DEF QuarantineCustomerErrors
  <2>4. CommitSilver(l) \/ silver' = silver
    BY DEF Act, Begin, Step, Fails, Victim, Extract, QuarantineCustomerErrors, CheckInvalidRate,
           LoadRawCustomers, UpdateKey, InsertKey, BeginInsert, silverVars
  <2>5. \A k \in Id : silver[k] # Absent => silver'[k] # Absent
    BY <2>4 DEF CommitSilver
  <2>6. QED BY <2>1, <2>3, <2>5
<1>2. QED BY <1>1, TypeCorrect, PTL DEF Spec, EarlierWorkStays

-----------------------------------------------------------------------------
(***************************************************************************)
(* The other half: an attempt runs out of steps.                           *)
(***************************************************************************)
\* A bound on the steps of attempt l, of n CustomerIDs: five up to the Bronze load,
\* a key of the batch at a time in each statement, and what is between them.
StepsLeft(l) ==
  LET n == Cardinality(Id)
  IN  CASE pc[l] = "idle"       -> 2 * n + 8
        [] pc[l] = "extract"    -> 2 * n + 7
        [] pc[l] = "quarantine" -> 2 * n + 6
        [] pc[l] = "gate"       -> 2 * n + 5
        [] pc[l] = "bronze"     -> 2 * n + 4
        [] pc[l] = "update"     -> n + 2 + Cardinality(todo[l])
        [] pc[l] = "insert"     -> 1 + Cardinality(todo[l])
        [] pc[l] \in Ended      -> 0

\* Each step is one attempt's, and brings it nearer to its end, also when another
\* batch has committed under it.
EveryStepCounts ==
  [][\E l \in Load : /\ StepsLeft(l)' < StepsLeft(l)
                     /\ \A e \in Load \ {l} : StepsLeft(e)' = StepsLeft(e)]_vars

LEMMA KeysAreCounted ==
  ASSUME IsFiniteSet(Id), NEW S \in SUBSET Id
  PROVE  /\ IsFiniteSet(S)
         /\ Cardinality(Id) \in Nat /\ Cardinality(S) \in Nat
         /\ Cardinality(S) <= Cardinality(Id)
         /\ Cardinality({}) = 0
         /\ \A k \in S : Cardinality(S \ {k}) = Cardinality(S) - 1
BY FS_Subset, FS_CardinalityType, FS_EmptySet, FS_RemoveElement

LEMMA StepsAreNat ==
  ASSUME IsFiniteSet(Id), TypeOK, NEW l \in Load
  PROVE  StepsLeft(l) \in Nat /\ (StepsLeft(l) = 0 <=> pc[l] \in Ended)
<1>1. Cardinality(Id) \in Nat /\ Cardinality(todo[l]) \in Nat
  BY KeysAreCounted DEF TypeOK
<1>2. pc[l] \in Place
  BY DEF TypeOK
<1>3. QED BY <1>1, <1>2 DEF StepsLeft, Place, Ended, InSilver

LEMMA ActCounts ==
  ASSUME IsFiniteSet(Id), TypeOK, TypeOK', NEW l \in Load, Act(l)
  PROVE  StepsLeft(l)' < StepsLeft(l)
<1> DEFINE n == Cardinality(Id)
           t == Cardinality(todo[l])
           u == Cardinality(todo'[l])
<1>1. /\ n \in Nat /\ t \in Nat /\ u \in Nat /\ t <= n /\ u <= n
      /\ pc \in [Load -> Place] /\ todo \in [Load -> SUBSET Id]
      /\ Cardinality({}) = 0
      /\ \A k \in todo[l] : Cardinality(todo[l] \ {k}) = t - 1
  BY KeysAreCounted DEF TypeOK
<1>2. StepsLeft(l) = CASE pc[l] = "idle"       -> 2 * n + 8
                       [] pc[l] = "extract"    -> 2 * n + 7
                       [] pc[l] = "quarantine" -> 2 * n + 6
                       [] pc[l] = "gate"       -> 2 * n + 5
                       [] pc[l] = "bronze"     -> 2 * n + 4
                       [] pc[l] = "update"     -> n + 2 + t
                       [] pc[l] = "insert"     -> 1 + t
                       [] pc[l] \in Ended      -> 0
  BY DEF StepsLeft
<1>3. StepsLeft(l)' = CASE pc'[l] = "idle"       -> 2 * n + 8
                        [] pc'[l] = "extract"    -> 2 * n + 7
                        [] pc'[l] = "quarantine" -> 2 * n + 6
                        [] pc'[l] = "gate"       -> 2 * n + 5
                        [] pc'[l] = "bronze"     -> 2 * n + 4
                        [] pc'[l] = "update"     -> n + 2 + u
                        [] pc'[l] = "insert"     -> 1 + u
                        [] pc'[l] \in Ended      -> 0
  BY DEF StepsLeft
<1>4. todo[l] = {} => t = 0
  BY <1>1
<1>5. ASSUME NEW k \in todo[l], Visited(l, k) PROVE u = t - 1
  BY <1>1, <1>5 DEF Visited
<1> HIDE DEF n, t, u
<1> USE DEF Goto, Ended, InSilver
<1>6. ASSUME pc'[l] \in Ended, pc[l] \in Place \ Ended
      PROVE  StepsLeft(l)' < StepsLeft(l)
  <2>1. StepsLeft(l)' = 0
    BY <1>3, <1>6
  <2>2. StepsLeft(l) \in Nat /\ StepsLeft(l) # 0
    BY <1>6, StepsAreNat
  <2>3. QED BY <2>1, <2>2
<1>7. CASE Begin(l)
  <2>1. pc[l] = "idle" /\ pc'[l] \in {"extract", "update"}
    BY <1>1, <1>7 DEF Begin
  <2>2. QED BY <1>1, <1>2, <1>3, <2>1
<1>8. CASE Fails(l) \/ Victim(l)
  <2>1. pc'[l] = "failed" /\ pc[l] \in Place \ Ended
    BY <1>1, <1>8 DEF Fails, Victim
  <2>2. QED BY <1>6, <2>1
<1>9. CASE Extract(l)
  <2>1. pc[l] = "extract" /\ pc'[l] \in {"quarantine", "gate"}
    BY <1>1, <1>9 DEF Extract
  <2>2. QED BY <1>1, <1>2, <1>3, <2>1
<1>10. CASE QuarantineCustomerErrors(l)
  <2>1. pc[l] = "quarantine" /\ pc'[l] \in {"gate", "failed"}
    BY <1>1, <1>10 DEF QuarantineCustomerErrors
  <2>2. QED BY <1>1, <1>2, <1>3, <2>1
<1>11. CASE CheckInvalidRate(l)
  <2>1. pc[l] = "gate" /\ pc'[l] \in {"refused", "bronze"}
    BY <1>1, <1>11 DEF CheckInvalidRate
  <2>2. QED BY <1>1, <1>2, <1>3, <2>1
<1>12. CASE LoadRawCustomers(l)
  <2>1. pc[l] = "bronze" /\ pc'[l] \in {"update", "failed"}
    BY <1>1, <1>12 DEF LoadRawCustomers
  <2>2. QED BY <1>1, <1>2, <1>3, <2>1
<1>13. ASSUME NEW k \in Id, UpdateKey(l, k) PROVE StepsLeft(l)' < StepsLeft(l)
  <2>1. pc[l] = "update" /\ pc'[l] = "update" /\ u = t - 1
    BY <1>5, <1>13 DEF UpdateKey
  <2>2. QED BY <1>1, <1>2, <1>3, <2>1
<1>14. ASSUME NEW k \in Id, InsertKey(l, k) PROVE StepsLeft(l)' < StepsLeft(l)
  <2>1. pc[l] = "insert" /\ ((pc'[l] = "insert" /\ u = t - 1) \/ pc'[l] = "failed")
    BY <1>1, <1>5, <1>14 DEF InsertKey
  <2>2. QED BY <1>1, <1>2, <1>3, <2>1
<1>15. CASE BeginInsert(l)
  <2>1. pc[l] = "update" /\ pc'[l] = "insert" /\ t = 0
    BY <1>1, <1>4, <1>15 DEF BeginInsert
  <2>2. QED BY <1>1, <1>2, <1>3, <2>1
<1>16. CASE CommitSilver(l)
  <2>1. pc'[l] \in {"succeeded", "failed"} /\ pc[l] \in Place \ Ended
    BY <1>1, <1>16 DEF CommitSilver, Place
  <2>2. QED BY <1>6, <2>1
<1>17. QED
  BY <1>7, <1>8, <1>9, <1>10, <1>11, <1>12, <1>13, <1>14, <1>15, <1>16 DEF Act, Step

\* An attempt that has started makes at most 2 * Cardinality(Id) + 7 steps, whatever
\* other batches commit meanwhile: no statement is repeated and no key visited twice.
\* With SilverIsNeverStuck that is why EveryAttemptEnds.
THEOREM StepsRunOut ==
  ASSUME IsFiniteSet(Id)
  PROVE  Spec => /\ [](\A l \in Load : StepsLeft(l) \in Nat /\ (StepsLeft(l) = 0 <=> pc[l] \in Ended))
                 /\ EveryStepCounts
<1> DEFINE Counted == \A l \in Load : StepsLeft(l) \in Nat /\ (StepsLeft(l) = 0 <=> pc[l] \in Ended)
           Counts == \E l \in Load : /\ StepsLeft(l)' < StepsLeft(l)
                                     /\ \A e \in Load \ {l} : StepsLeft(e)' = StepsLeft(e)
<1>1. AllOf => Counted
  BY StepsAreNat DEF AllOf
<1>2. ASSUME AllOf, AllOf', [Next]_vars PROVE [Counts]_vars
  <2>1. ASSUME NEW l \in Load, Act(l) PROVE Counts
    <3>1. StepsLeft(l)' < StepsLeft(l)
      BY <1>2, <2>1, ActCounts DEF AllOf
    <3>2. \A e \in Load \ {l} : StepsLeft(e)' = StepsLeft(e)
      BY <1>2, <2>1, SilverFrame DEF AllOf, StepsLeft
    <3>3. QED BY <3>1, <3>2
  <2>2. QED BY <1>2, <2>1, NextIsAct
<1>3. Spec => []AllOf
  BY InitInv, NextInv, PTL DEF Spec
<1> HIDE DEF Counted, Counts
<1>4. Spec => []Counted /\ [][Counts]_vars
  BY <1>1, <1>2, <1>3, PTL DEF Spec
<1>5. QED BY <1>4 DEF Counted, Counts, EveryStepCounts
=============================================================================
