----------------------------- MODULE TaskStatus -----------------------------
(***************************************************************************)
(* The statuses of a task and the table of legal changes between them.     *)
(***************************************************************************)
Active == {"created", "running", "waiting_user", "waiting_tool", "paused"}

Terminal == {"completed", "failed", "cancelled", "expired", "handed_off"}

Statuses == Active \cup Terminal

\* The pairs <<from, to>> of ALLOWED_TRANSITIONS.
AllowedMoves ==
  ({"created"} \X {"running", "cancelled"})
  \cup ({"running"} \X ({"waiting_user", "waiting_tool", "paused"} \cup Terminal))
  \cup ({"waiting_user"} \X {"running", "cancelled", "expired"})
  \cup ({"waiting_tool"} \X {"running", "failed", "cancelled", "expired"})
  \cup ({"paused"} \X {"running", "cancelled", "handed_off"})
  \cup ({"completed"} \X {"handed_off"})
=============================================================================
