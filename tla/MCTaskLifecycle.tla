--------------------------- MODULE MCTaskLifecycle ---------------------------
(* The instance of TaskLifecycle that TLC checks. *)
EXTENDS TaskLifecycle, TLC

\* Task and session ids are drawn at random; processes run the same program.
Symmetry == Permutations(Procs) \cup Permutations(Tasks) \cup Permutations(Sessions)
==============================================================================
