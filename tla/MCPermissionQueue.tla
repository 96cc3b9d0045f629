------------------------- MODULE MCPermissionQueue -------------------------
(* An instance of PermissionQueue: which disturbances may happen. *)
EXTENDS PermissionQueue

Everything == {"transient", "lost_answer", "refused", "elsewhere", "lost_event",
               "fails", "unsent", "crash"}
=============================================================================
