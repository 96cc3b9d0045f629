------------------------- MODULE MCPursuitLifecycle -------------------------
(* Instances of PursuitLifecycle: which disturbances may happen. *)
EXTENDS PursuitLifecycle

\* What the code is meant to survive.
Ordinary == {"abort", "prompt", "gone", "crash"}

Everything == {"abort", "outage", "prompt", "lost_answer", "create", "read", "send",
               "crash", "gone", "impatience", "late_revocation"}

\* One hazard at a time.
LateRevocation == {"late_revocation"}
=============================================================================
