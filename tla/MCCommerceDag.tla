--------------------------- MODULE MCCommerceDag ---------------------------
(* The tries of one Commerce dag_run for TLC: a small plan, and the calls that *)
(* may fail on the server or lose their answer.                                *)
EXTENDS CommerceDag

MCAttempt == 1 .. Retries + 1
MCPlan == [p \in Pipeline |-> <<"bronze", "silver">>]

\* Every call of a try may be refused its connection; the answers of these two
\* may be lost.
MCFaulty ==
  {<<call, "refused">> : call \in OwnerCall \cup {"start_run", "begin_or_retry_batch", "fail_run"}}
    \cup {<<"begin_or_retry_batch", "lost">>, <<"complete_batch", "lost">>}
============================================================================
