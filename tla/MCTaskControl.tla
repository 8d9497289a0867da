---------------------------- MODULE MCTaskControl ----------------------------
(* The instances of TaskControl that TLC checks. *)
EXTENDS TaskControl

\* A bound of the run with both processes at once: after a death in the first window they
\* go on by turns, and what a death leaves of the last window is looked at, and not gone on
\* from. (TaskControlSolo goes on from deaths in any window.)
DeathsBound == deaths > 0 => Len(runs) < MaxWindows /\ \E p \in Procs : At(p, "idle")
=============================================================================
