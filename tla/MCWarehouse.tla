---------------------------- MODULE MCWarehouse ----------------------------
(***************************************************************************)
(* Instances of Warehouse for TLC.  An instance has some of the entities,  *)
(* in the order of COMMERCE_PIPELINES, which keeps the states few.         *)
(***************************************************************************)
EXTENDS Warehouse, TLC

CONSTANTS b1, b2, x, y

Both == {"commerce", "customer_pipeline"}
Commerce == {"commerce"}
Customer == {"customer_pipeline"}
Nobody == {}

Loads(list) == [p \in Commerce |-> list]
CustomerOrders ==
  [p \in Both |-> IF p = "commerce" THEN <<"customers", "orders">> ELSE <<"customers">>]
AllEntities == Loads(<<"customers", "products", "orders", "order_items", "payments">>)

\* A row that refers to key k wherever it refers to one.
R(f, k, v) == [fields |-> f, refs |-> [e \in Entity |-> k], version |-> v]
None == [i \in Id |-> Absent]
Only(k, r) == [i \in Id |-> IF i = k THEN r ELSE Absent]
With(tables) == [e \in Entity |-> IF e \in DOMAIN tables THEN tables[e] ELSE None]

(***************************************************************************)
(* Customers x and y, and orders of theirs: a customer comes late, an      *)
(* order changes hands, loses its validity, is deleted.                    *)
(***************************************************************************)
OrderSources ==
  LET cx == Only(x, R("valid", x, 1))
      cxy == [i \in Id |-> R(IF i = x THEN "valid" ELSE "invalid", x, 1)]
  IN  {With([customers |-> cx, orders |-> [i \in Id |-> R("valid", i, 1)]]),
       With([customers |-> cxy, orders |-> [i \in Id |-> R("valid", y, 1)]]),
       With([customers |-> cxy, orders |-> Only(y, R("invalid", y, 1))])}

(***************************************************************************)
(* One row of each entity: all valid; those with rules invalid; the        *)
(* customer without a name; without the parents; without the order.        *)
(***************************************************************************)
CommerceSources ==
  LET rows(fields) == With([e \in DOMAIN fields |-> Only(x, R(fields[e], x, 1))])
  IN  {rows([e \in Entity |-> IF e \in {"customers", "products"} THEN "valid" ELSE "invalid"]),
       rows([e \in Entity |-> "valid"]),
       rows([e \in Entity |-> IF e = "customers" THEN "null" ELSE "valid"]),
       rows([e \in {"orders", "order_items", "payments"} |-> "valid"]),
       rows([e \in Entity \ {"orders"} |-> "valid"])}

Symmetry == Permutations(Batch)
=============================================================================
