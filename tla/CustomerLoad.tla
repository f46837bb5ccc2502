---------------------------- MODULE CustomerLoad ----------------------------
(***************************************************************************)
(* What an attempt of the customer pipeline does with customers: extract,   *)
(* validate, quarantine, the invalid-rate gate and the Bronze load          *)
(* (run_customer_bronze), then the Silver load (run_customer_silver),       *)
(* statement by statement where transactions of two batches meet.           *)
(*                                                                         *)
(* An attempt is a run of the command-line pipeline or a try of Airflow's   *)
(* bronze or silver task.  Those at one batch follow each other here: runs  *)
(* do (OneKeeper of Orchestrator), tries do unless Airflow gives one up     *)
(* that goes on beside the next, which is left out.  Those of different     *)
(* batches run at the same time and meet in silver.Customers: under READ    *)
(* COMMITTED, with row locks held to the end of the transaction, and with   *)
(* readers that either wait for a lock or read the last committed version.  *)
(* The keys of a statement are visited in any order.  Any call may fail,    *)
(* with its effect or without, and a process may die.                       *)
(***************************************************************************)
EXTENDS Naturals, Sequences, FiniteSets

CONSTANTS Load,         \* attempts
          Batch,        \* BatchIDs
          Assignments,  \* which attempts are at which batch
          Id,           \* CustomerIDs
          Text,         \* values of the text columns, "" among them
          NULL,         \* the database's NULL, Python's None
          HasAt,        \* the texts with an "@" in them
          Snapshots,    \* what SELECT ... FROM dbo.Customers may return
          InvalidMax,   \* NORTHSTAR_CUSTOMER_INVALID_RATE_THRESHOLD is
          InvalidOf     \*   InvalidMax / InvalidOf

Column == Text \cup {NULL}
CustomerRecord == [customer_id : Id, first_name : Column, last_name : Column,
                   email : Column, phone : Column]
Absent == [customer_id |-> NULL]

ASSUME CustomerAssumption ==
  /\ Assignments \subseteq [Load -> Batch]
  /\ "" \in Text /\ NULL \notin Text /\ NULL \notin Id
  /\ HasAt \subseteq Text \ {""}
  /\ Snapshots \subseteq Seq(CustomerRecord)
  /\ InvalidMax \in Nat /\ InvalidOf \in Nat \ {0} /\ InvalidMax <= InvalidOf

VARIABLES
  batch,       \* batch[l]: the BatchID of the attempt l
  pc,          \* pc[l]: what it does next, or how it has ended
  customers,   \* customers[l]: the list extract_customers has returned
  quarantine,  \* ops.CustomerQuarantine: its rows, with the attempt that wrote them
  raw,         \* raw[b][i]: the row of raw.Customers of batch b and CustomerID i
  source,      \* source[b][i]: auxiliary: the attempt that wrote that row
  loaded,      \* the batches whose bronze task Airflow has seen succeed
  silver,      \* silver[i]: the committed row of silver.Customers
  wrote,       \* wrote[l][i]: the row l has written, and locked, but not committed
  todo,        \* todo[l]: the keys of the batch its statement has still to visit
  seen,        \* seen[l]: the keys Silver had when its INSERT began
  rival        \* rival[l]: auxiliary: those others have committed since its UPDATE began

bronzeVars == <<customers, quarantine, raw, source, loaded>>
silverVars == <<silver, wrote, todo, seen, rival>>
vars == <<batch, pc, customers, quarantine, raw, source, loaded, silver, wrote, todo, seen, rival>>

Ended == {"refused", "failed", "succeeded"}
InSilver == {"update", "insert"}
Place == {"idle", "extract", "quarantine", "gate", "bronze"} \cup InSilver \cup Ended

Nothing == [i \in Id |-> Absent]

Init ==
  /\ batch \in Assignments
  /\ pc = [l \in Load |-> "idle"]
  /\ customers = [l \in Load |-> <<>>]
  /\ quarantine = {}
  /\ raw = [b \in Batch |-> Nothing]
  /\ source = [b \in Batch |-> [i \in Id |-> NULL]]
  /\ loaded = {}
  /\ silver = Nothing
  /\ wrote = [l \in Load |-> Nothing]
  /\ todo = [l \in Load |-> {}]
  /\ seen = [l \in Load |-> {}]
  /\ rival = [l \in Load |-> {}]

Goto(l, place) == pc' = [pc EXCEPT ![l] = place]

-----------------------------------------------------------------------------
(***************************************************************************)
(* The rules.                                                              *)
(***************************************************************************)
Rule == {"DUPLICATE_CUSTOMER_ID", "FIRST_NAME_REQUIRED", "LAST_NAME_REQUIRED", "EMAIL_FORMAT"}

Falsy(value) == value \in {NULL, ""}

\* Does the record at i break the rule?  Of records with one CustomerID all but
\* the first are duplicates.
Breaks(list, i, rule) ==
  LET c == list[i]
  IN  \/ /\ rule = "DUPLICATE_CUSTOMER_ID"
         /\ \E j \in 1 .. i - 1 : list[j].customer_id = c.customer_id
      \/ rule = "FIRST_NAME_REQUIRED" /\ Falsy(c.first_name)
      \/ rule = "LAST_NAME_REQUIRED" /\ Falsy(c.last_name)
      \/ rule = "EMAIL_FORMAT" /\ ~Falsy(c.email) /\ c.email \notin HasAt

\* Mutant of ValidateCustomers: one error for a record.
ValidateCustomersOnce(list) ==
  {<<i, CHOOSE rule \in Rule : Breaks(list, i, rule)>> :
     i \in {j \in DOMAIN list : \E rule \in Rule : Breaks(list, j, rule)}}

\* The errors: a position in the list, and the rule it breaks.
ValidateCustomers(list) ==
  {e \in (DOMAIN list) \X Rule : Breaks(list, e[1], e[2])}

InvalidIds(list) == {list[e[1]].customer_id : e \in ValidateCustomers(list)}

\* Mutant of ExceedsThreshold: the rate of errors, not of customers.
ExceedsThresholdByErrors(list) ==
  Cardinality(ValidateCustomers(list)) * InvalidOf > InvalidMax * Len(list)

\* len(invalid ids) / len(customers) > threshold; no customers, no rate.
ExceedsThreshold(list) == Cardinality(InvalidIds(list)) * InvalidOf > InvalidMax * Len(list)

\* Mutant of ValidIndices: only the records in error are dropped, not their twins.
ValidIndicesByRecord(list) == {i \in DOMAIN list : \A e \in ValidateCustomers(list) : e[1] # i}

\* get_valid_customers: every record of an invalid CustomerID is dropped.
ValidIndices(list) == {i \in DOMAIN list : list[i].customer_id \notin InvalidIds(list)}

OrEmpty(value) == IF value = NULL THEN "" ELSE value

\* Mutant of Hash: the phone is forgotten.
HashWithoutPhone(c) == <<OrEmpty(c.first_name), OrEmpty(c.last_name), OrEmpty(c.email)>>

\* calculate_customer_hash, for texts without the separator "|".
Hash(c) == <<OrEmpty(c.first_name), OrEmpty(c.last_name), OrEmpty(c.email), OrEmpty(c.phone)>>

-----------------------------------------------------------------------------
(***************************************************************************)
(* Bronze.                                                                 *)
(***************************************************************************)
InBatch(b) == {i \in Id : raw[b][i] # Absent}

\* An attempt is let in when none at its batch is at work or has succeeded.  Once
\* the bronze task has succeeded, it may be another try of the silver task alone.
Begin(l) ==
  /\ pc[l] = "idle"
  /\ \A e \in Load : batch[e] = batch[l] => pc[e] \in {"idle"} \cup (Ended \ {"succeeded"})
  /\ \/ Goto(l, "extract") /\ UNCHANGED todo
     \/ /\ batch[l] \in loaded
        /\ Goto(l, "update")
        /\ todo' = [todo EXCEPT ![l] = InBatch(batch[l])]
  /\ UNCHANGED <<batch, bronzeVars, silver, wrote, seen, rival>>

\* extract_customers, and validate_customers of what it returns.
Extract(l) ==
  /\ pc[l] = "extract"
  /\ \E list \in Snapshots :
       /\ customers' = [customers EXCEPT ![l] = list]
       /\ Goto(l, IF ValidateCustomers(list) = {} THEN "gate" ELSE "quarantine")
  /\ UNCHANGED <<batch, quarantine, raw, source, loaded, silverVars>>

QuarantineRows(l) == {[load |-> l, error |-> e] : e \in ValidateCustomers(customers[l])}

\* quarantine_customer_errors: one row for each error, in a transaction of its own,
\* whose answer may be lost.
QuarantineCustomerErrors(l) ==
  /\ pc[l] = "quarantine"
  /\ quarantine' = quarantine \cup QuarantineRows(l)
  /\ Goto(l, "gate") \/ Goto(l, "failed")
  /\ UNCHANGED <<batch, customers, raw, source, loaded, silverVars>>

CheckInvalidRate(l) ==
  /\ pc[l] = "gate"
  /\ Goto(l, IF ExceedsThreshold(customers[l]) THEN "refused" ELSE "bronze")
  /\ UNCHANGED <<batch, bronzeVars, silverVars>>

\* Mutant of NewRows: NOT EXISTS does not ask for the BatchID.
NewRowsOfAnyBatch(l) ==
  {k \in {customers[l][i].customer_id : i \in ValidIndices(customers[l])} :
     \A b \in Batch : raw[b][k] = Absent}

\* The keys that usp_LoadCustomersForBatch inserts: those the batch does not have.
NewRows(l) ==
  {k \in {customers[l][i].customer_id : i \in ValidIndices(customers[l])} : raw[batch[l]][k] = Absent}

\* load_raw_customers: the stage table is filled and emptied within the transaction.
\* A command-line attempt goes on to Silver; Airflow's bronze task ends here.
LoadRawCustomers(l) ==
  LET b == batch[l]
      row(k) == customers[l][CHOOSE i \in ValidIndices(customers[l]) : customers[l][i].customer_id = k]
      table == [k \in Id |-> IF k \in NewRows(l) THEN row(k) ELSE raw[b][k]]
  IN  /\ pc[l] = "bronze"
      /\ raw' = [raw EXCEPT ![b] = table]
      /\ source' = [source EXCEPT ![b] = [k \in Id |-> IF k \in NewRows(l) THEN l ELSE @[k]]]
      /\ \/ /\ Goto(l, "update")
            /\ todo' = [todo EXCEPT ![l] = {k \in Id : table[k] # Absent}]
            /\ loaded' = loaded \cup {b}
         \/ Goto(l, "failed") /\ UNCHANGED <<todo, loaded>>
      /\ UNCHANGED <<batch, customers, quarantine, silver, wrote, seen, rival>>

-----------------------------------------------------------------------------
(***************************************************************************)
(* Silver: the transaction of silver.usp_LoadCustomers.                    *)
(***************************************************************************)
EndTransaction(l) ==
  /\ wrote' = [wrote EXCEPT ![l] = Nothing]
  /\ todo' = [todo EXCEPT ![l] = {}]
  /\ seen' = [seen EXCEPT ![l] = {}]

\* Mutant of Fails: THROW without ROLLBACK, on a connection that stays open.
FailsOpen(l) ==
  /\ pc[l] \notin {"idle"} \cup Ended
  /\ Goto(l, "failed")
  /\ todo' = [todo EXCEPT ![l] = {}]
  /\ UNCHANGED <<batch, bronzeVars, silver, wrote, seen, rival>>

\* A call raises, or never answers, or the process dies: the server rolls back what
\* its transaction has done, and earlier ones have committed.
Fails(l) ==
  /\ pc[l] \notin {"idle"} \cup Ended
  /\ Goto(l, "failed")
  /\ EndTransaction(l)
  /\ UNCHANGED <<batch, bronzeVars, silver, rival>>

\* Nobody else has an uncommitted row of the key.
Free(l, k) == \A e \in Load \ {l} : wrote[e][k] = Absent

Visited(l, k) == todo' = [todo EXCEPT ![l] = @ \ {k}]

Write(l, k) == wrote' = [wrote EXCEPT ![l][k] = raw[batch[l]][k]]

\* The UPDATE at a key: a row with another hash is overwritten, once its lock is free.
UpdateKey(l, k) ==
  LET differs == silver[k] # Absent /\ Hash(silver[k]) # Hash(raw[batch[l]][k])
  IN  /\ pc[l] = "update" /\ k \in todo[l]
      /\ IF differs THEN Free(l, k) /\ Write(l, k) ELSE UNCHANGED wrote
      /\ Visited(l, k)
      /\ UNCHANGED <<batch, pc, bronzeVars, silver, seen, rival>>

BeginInsert(l) ==
  /\ pc[l] = "update" /\ todo[l] = {}
  /\ Goto(l, "insert")
  /\ todo' = [todo EXCEPT ![l] = InBatch(batch[l])]
  /\ seen' = [seen EXCEPT ![l] = {i \in Id : silver[i] # Absent}]
  /\ UNCHANGED <<batch, bronzeVars, silver, wrote, rival>>

\* The INSERT at a key: NOT EXISTS has seen a row, or a row that was committed since
\* the statement began, or it has not.  Then the row is inserted, once the key is
\* free, and breaks the primary key if another transaction has committed one.
InsertKey(l, k) ==
  /\ pc[l] = "insert" /\ k \in todo[l]
  /\ \/ /\ k \in seen[l] \/ silver[k] # Absent
        /\ Visited(l, k)
        /\ UNCHANGED <<pc, wrote, seen>>
     \/ /\ k \notin seen[l] /\ silver[k] = Absent
        /\ Free(l, k)
        /\ Write(l, k)
        /\ Visited(l, k)
        /\ UNCHANGED <<pc, seen>>
     \/ /\ k \notin seen[l] /\ silver[k] # Absent
        /\ Goto(l, "failed")
        /\ EndTransaction(l)
  /\ UNCHANGED <<batch, bronzeVars, silver, rival>>

\* l has to wait for e; a set of transactions that wait for each other.
WaitsFor(l, e) ==
  /\ l # e /\ pc[l] \in InSilver
  /\ \E k \in todo[l] : wrote[e][k] # Absent
Deadlocked(l) ==
  \E S \in SUBSET Load : l \in S /\ \A x \in S : \E y \in S : WaitsFor(x, y)

\* The server makes one of them its victim.
Victim(l) == Deadlocked(l) /\ Fails(l)

\* connection.commit(), whose answer may be lost.
CommitSilver(l) ==
  /\ pc[l] = "insert" /\ todo[l] = {}
  /\ silver' = [k \in Id |-> IF wrote[l][k] # Absent THEN wrote[l][k] ELSE silver[k]]
  /\ rival' = [e \in Load |-> IF e # l /\ pc[e] \in InSilver
                              THEN rival[e] \cup {k \in Id : wrote[l][k] # Absent}
                              ELSE rival[e]]
  /\ EndTransaction(l)
  /\ Goto(l, "succeeded") \/ Goto(l, "failed")
  /\ UNCHANGED <<batch, bronzeVars>>

-----------------------------------------------------------------------------
Step(l) ==
  \/ Extract(l)
  \/ QuarantineCustomerErrors(l)
  \/ CheckInvalidRate(l)
  \/ LoadRawCustomers(l)
  \/ \E k \in Id : UpdateKey(l, k) \/ InsertKey(l, k)
  \/ BeginInsert(l)
  \/ CommitSilver(l)
  \/ Victim(l)

Next == \E l \in Load : Begin(l) \/ Step(l) \/ Fails(l)

Spec == Init /\ [][Next]_vars

\* Some attempt that can go on does: it is executing code, or a statement of its that
\* need not wait for a lock, or the server finds a deadlock.
FairSpec == Spec /\ WF_vars(\E l \in Load : Step(l))

-----------------------------------------------------------------------------
(***************************************************************************)
(* Properties                                                              *)
(***************************************************************************)
CustomerRow == CustomerRecord \cup {Absent}

\* The tables and the lists hold records; only an open transaction has a statement
\* under way.
TypeOK ==
  /\ batch \in [Load -> Batch]
  /\ pc \in [Load -> Place]
  /\ customers \in [Load -> Snapshots \cup {<<>>}]
  /\ \A q \in quarantine : q.load \in Load /\ q.error[1] \in Nat /\ q.error[2] \in Rule
  /\ raw \in [Batch -> [Id -> CustomerRow]]
  /\ source \in [Batch -> [Id -> Load \cup {NULL}]]
  /\ loaded \subseteq Batch
  /\ silver \in [Id -> CustomerRow]
  /\ wrote \in [Load -> [Id -> CustomerRow]]
  /\ todo \in [Load -> SUBSET Id] /\ seen \in [Load -> SUBSET Id] /\ rival \in [Load -> SUBSET Id]
  /\ \A l \in Load : pc[l] \notin InSilver => todo[l] = {}

\* What the docs call invalid, said of the list as a whole: an error is a position
\* and the rule that the record there breaks.
Error(list, i, rule) ==
  CASE rule = "DUPLICATE_CUSTOMER_ID" ->
         \E j \in DOMAIN list : j < i /\ list[j].customer_id = list[i].customer_id
    [] rule = "FIRST_NAME_REQUIRED" -> list[i].first_name \in {NULL, ""}
    [] rule = "LAST_NAME_REQUIRED" -> list[i].last_name \in {NULL, ""}
    [] rule = "EMAIL_FORMAT" -> list[i].email \notin HasAt \cup {NULL, ""}
Errors(list) == {e \in (DOMAIN list) \X Rule : Error(list, e[1], e[2])}
Evidence(l) == {q.error : q \in {r \in quarantine : r.load = l}}

\* The quarantine holds what is wrong with the list an attempt has extracted, error
\* by error, before anybody acts on it: an attempt that is refused for its rate
\* leaves its complete evidence, one that fails leaves all of it or none.
EvidenceIsComplete ==
  \A l \in Load :
    /\ Evidence(l) \in {{}, Errors(customers[l])}
    /\ pc[l] \in {"gate", "bronze", "refused"} \cup InSilver => Evidence(l) = Errors(customers[l])

\* A record the list has once, and that breaks no rule there.
CleanIn(list, row) ==
  \E i \in DOMAIN list :
    /\ list[i] = row
    /\ \A j \in DOMAIN list : list[j].customer_id = row.customer_id => j = i
    /\ \A e \in Errors(list) : e[1] # i

WithinThreshold(list) ==
  Cardinality({list[e[1]].customer_id : e \in Errors(list)}) * InvalidOf <= InvalidMax * Len(list)

\* A Bronze row is the only one of its key in the list it comes from, no rule is
\* broken there, and the list was not over the threshold: too many invalid customers
\* keep the valid ones out, too.
BronzeIsClean ==
  \A b \in Batch : \A k \in InBatch(b) :
    /\ raw[b][k].customer_id = k
    /\ \E l \in Load :
         /\ l = source[b][k] /\ batch[l] = b
         /\ CleanIn(customers[l], raw[b][k])
         /\ WithinThreshold(customers[l])

\* An attempt is refused only when the share of its customers that are invalid is
\* over the threshold: not at it, not for many errors of few, not for an empty list.
RefusalIsJust ==
  \A l \in Load : pc[l] = "refused" => customers[l] # <<>> /\ ~WithinThreshold(customers[l])

\* Nobody is lost between the source and Silver: each customer an attempt has
\* extracted is in Bronze, perhaps with the row of an earlier attempt, or has a
\* quarantine row of this one.
NobodyIsLost ==
  \A l \in Load : pc[l] \in InSilver =>
    \A i \in DOMAIN customers[l] :
      \/ customers[l][i].customer_id \in InBatch(batch[l])
      \/ \E e \in Evidence(l) : customers[l][e[1]].customer_id = customers[l][i].customer_id

\* Two records that say the same, but for NULL and ''.
Agree(c, d) ==
  \A field \in {"first_name", "last_name", "email", "phone"} :
    c[field] = d[field] \/ {c[field], d[field]} = {NULL, ""}

\* An attempt succeeds only when Silver says what its batch says, for each customer
\* of the batch, but for those that a concurrent transaction has committed meanwhile:
\* then the row may be that of the other batch.
SilverSaysWhatBatchSays ==
  [][\A l \in Load : pc[l] = "insert" /\ pc'[l] = "succeeded" =>
       \A k \in InBatch(batch[l]) : k \in rival[l] \/ Agree(silver'[k], raw[batch[l]][k])]_vars

\* Whoever fails or dies, and in whatever order two batches visit the customers they
\* share, every attempt comes to its end.
EveryAttemptEnds == <>[](\A l \in Load : pc[l] \in {"idle"} \cup Ended)

-----------------------------------------------------------------------------
(***************************************************************************)
(* The inductive invariant behind the properties.                          *)
(***************************************************************************)
\* Begin keeps the attempts at one batch apart, and ends them with the first that
\* succeeds.
Keeping(l) == pc[l] \notin {"idle", "refused", "failed"}
OneAttemptAtATime ==
  \A l, e \in Load : batch[l] = batch[e] /\ Keeping(l) /\ Keeping(e) => l = e

\* How far the attempt has come with its list.
ListProgress ==
  \A l \in Load :
    /\ pc[l] \in {"idle", "extract"} => customers[l] = <<>>
    /\ pc[l] \in {"idle", "extract", "quarantine"} => Evidence(l) = {}
    /\ pc[l] = "bronze" => ~ExceedsThreshold(customers[l])

\* The list a Bronze row comes from will not change.
SourceHasExtracted ==
  \A b \in Batch : \A k \in InBatch(b) : pc[source[b][k]] \notin {"idle", "extract"}

\* What an open transaction has written is what its batch says.
WritesItsBatch ==
  \A l \in Load : \A k \in Id :
    wrote[l][k] # Absent =>
      /\ pc[l] \in InSilver
      /\ wrote[l][k] = raw[batch[l]][k]

\* Silver needs nothing more of l at k: somebody else's row came in between, or the
\* row is written, or the one there has the same hash.
Settled(l, k) ==
  \/ k \in rival[l]
  \/ wrote[l][k] # Absent
  \/ silver[k] # Absent /\ Hash(silver[k]) = Hash(raw[batch[l]][k])

\* How far the two statements have come.
StatementProgress ==
  \A l \in Load :
    /\ todo[l] \subseteq InBatch(batch[l])
    /\ pc[l] \in InSilver =>
         \A k \in InBatch(batch[l]) :
           pc[l] = "insert" \/ k \notin todo[l] => Settled(l, k) \/ silver[k] = Absent
    /\ pc[l] = "insert" =>
         /\ \A k \in InBatch(batch[l]) : k \notin todo[l] => Settled(l, k)
         /\ \A k \in seen[l] : silver[k] # Absent

BronzeInv ==
  /\ TypeOK /\ OneAttemptAtATime
  /\ ListProgress /\ EvidenceIsComplete /\ RefusalIsJust
  /\ SourceHasExtracted /\ BronzeIsClean /\ NobodyIsLost
CustomerInv == BronzeInv /\ WritesItsBatch /\ StatementProgress
=============================================================================
