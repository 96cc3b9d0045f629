----------------------------- MODULE MCChatTurn -----------------------------
(* Instances of ChatTurn: which disturbances may happen. *)
EXTENDS ChatTurn

\* What the code is meant to survive.
Ordinary == {"fails", "hangs", "stale_busy", "lost_event", "unreachable", "refused",
             "rejected", "lost_answer", "unsent", "crash"}

\* One hazard at a time.
LateErrors == {"fails", "late"}
=============================================================================
