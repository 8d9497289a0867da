---------------------------- MODULE MCToolActions ----------------------------
(* The instances of ToolActions that TLC checks. *)
EXTENDS ToolActions, TLC

\* Processes run the same program, call ids are drawn by the model.
Symmetry == Permutations(Procs) \cup Permutations(Operators) \cup Permutations(Calls)

Busy(actors) == {x \in actors : local[x] # Idle}

\* A bound of the run with two processes and two operators: three of the four are at work
\* at a time, two operators and a process that completes among them, and both operators
\* only until a call has its second attempt.
AtWorkBound ==
  /\ Cardinality(Busy(Procs \cup Operators)) <= 3
  /\ (\E k \in Keys : k[2] > 1 /\ action[k].status # "absent") => Cardinality(Busy(Operators)) <= 1
==============================================================================
