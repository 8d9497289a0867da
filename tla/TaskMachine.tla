----------------------------- MODULE TaskMachine -----------------------------
(***************************************************************************)
(* What the store promises of tasks, with no processes, versions or reads: *)
(* every change of a task is one legal move, a session never has two open  *)
(* tasks, and a handoff closes its source and opens its child in one step. *)
(***************************************************************************)
EXTENDS TaskStore

VARIABLES
  status,   \* the status of each task id, "absent" before it is created
  home,     \* the session of each task
  parent    \* the task a task was handed off from

vars == <<status, home, parent>>

Free(s) == \A t \in Tasks : ~(home[t] = s /\ status[t] \in Active)

Init ==
  /\ status = [t \in Tasks |-> "absent"]
  /\ home = [t \in Tasks |-> None]
  /\ parent = [t \in Tasks |-> None]

Create(t, s) ==
  /\ status[t] = "absent"
  /\ Free(s)
  /\ status' = [status EXCEPT ![t] = "created"]
  /\ home' = [home EXCEPT ![t] = s]
  /\ UNCHANGED parent

Move(t, to) ==
  /\ <<status[t], to>> \in AllowedMoves
  /\ to # "handed_off"
  /\ status' = [status EXCEPT ![t] = to]
  /\ UNCHANGED <<home, parent>>

HandOff(t, c, s) ==
  /\ <<status[t], "handed_off">> \in AllowedMoves
  /\ status[c] = "absent"
  /\ Free(s)
  /\ status' = [status EXCEPT ![t] = "handed_off", ![c] = "created"]
  /\ home' = [home EXCEPT ![c] = s]
  /\ parent' = [parent EXCEPT ![c] = t]

Next ==
  \/ \E t \in Tasks, s \in Sessions : Create(t, s)
  \/ \E t \in Tasks, to \in Statuses : Move(t, to)
  \/ \E t, c \in Tasks, s \in Sessions : HandOff(t, c, s)

Spec == Init /\ [][Next]_vars
==============================================================================
