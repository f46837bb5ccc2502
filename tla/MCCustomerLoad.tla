--------------------------- MODULE MCCustomerLoad ---------------------------
(***************************************************************************)
(* Instance of CustomerLoad for TLC: two customers, and extracts with each  *)
(* rule broken, at the threshold and over it.                              *)
(***************************************************************************)
EXTENDS CustomerLoad

CONSTANTS l1, l2, l3, b1, b2

\* A retry beside another batch.
Attempts == {[l \in {l1, l2, l3} |-> IF l = l3 THEN b2 ELSE b1]}

Texts == {"", "A", "B", "a@x", "ax"}

Customer(id, first, email, phone) ==
  [customer_id |-> id, first_name |-> first, last_name |-> "A", email |-> email, phone |-> phone]

\* The first and the second differ in phone and NULL email, the first and the third
\* only in NULL email.  The rates are 0 twice, 1/3 by two errors, 1/2 by two errors,
\* and none at all.
Extracts ==
  {<<Customer(1, "A", NULL, "A"), Customer(2, "A", NULL, "A")>>,
   <<Customer(1, "A", "", "B"), Customer(2, "B", "a@x", NULL)>>,
   <<Customer(1, "A", "a@x", "A"), [Customer(1, "B", "a@x", "A") EXCEPT !.last_name = ""],
     Customer(2, "A", "", "A")>>,
   <<Customer(1, NULL, "ax", "A"), Customer(2, "B", "a@x", "B")>>,
   <<>>}
=============================================================================
