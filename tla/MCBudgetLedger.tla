----------------------------- MODULE MCBudgetLedger -----------------------------
(* Instances of BudgetLedger: which disturbances may happen. *)
EXTENDS BudgetLedger

Everything ==
    {"abort", "prompt", "error", "stall", "crash", "gone", "create"}

\* One hazard at a time.
SessionLost == {"crash", "gone"}
==================================================================================
