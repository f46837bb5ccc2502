--------------------------- MODULE MCCustomerDag ---------------------------
(***************************************************************************)
(* An instance of CustomerDag for TLC.                                     *)
(***************************************************************************)
EXTENDS CustomerDag

AnyFault == (Call \ {"alert"}) \X {"refused", "lost"}
=============================================================================
