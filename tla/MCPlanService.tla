---------------------------- MODULE MCPlanService ----------------------------
EXTENDS PlanService

CONSTANTS e1, e2

\* A node that edits two files, and one that runs a command once they are edited.
Chain ==
  [kind   |-> 1 :> "edit" @@ 2 :> "run",
   deps   |-> 1 :> {} @@ 2 :> {1},
   claims |-> 1 :> {} @@ 2 :> {},
   status |-> [n \in 1..2 |-> "pending"]]

\* A replan with the same nodes, and those with one of them.
Alone(n, kind) == [kind |-> n :> kind, deps |-> n :> {}, claims |-> n :> {}, status |-> n :> "pending"]

MCReplans == {Chain, Alone(1, "edit"), Alone(2, "run")}

MCEffectsOf == 1 :> {e1, e2} @@ 2 :> {}

EffectSymmetry == Permutations({e1, e2})
=============================================================================
