------------------------------ MODULE MCPlanner ------------------------------
EXTENDS Planner

\* Every dependency relation of three nodes, one that names a node there is not, and one
\* whose cycle has four nodes.
MCGraphs ==
  [1..3 -> SUBSET (1..3)]
  \cup {[n \in 1..2 |-> {3}], [n \in 1..4 |-> {(n % 4) + 1}]}
=============================================================================
