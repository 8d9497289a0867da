----------------------------- MODULE PlanMachine -----------------------------
(***************************************************************************)
(* What a plan promises, whoever executes it: nodes start in the order of  *)
(* their dependencies while nothing has gone wrong, end once they have     *)
(* started, are skipped only behind a node that failed, a revision is      *)
(* completed only when all of its nodes are, and a replan takes over what  *)
(* is completed. PlanExecution is shown to implement it, and PlanService,  *)
(* which gives a plan up though nothing of it has failed.                  *)
(***************************************************************************)
EXTENDS Naturals, Sequences

CONSTANT MayGiveUp  \* whether a plan is closed as failed for a reason that is not in it

VARIABLE plan  \* the revisions: the status of each, and its nodes' dependencies and statuses

Init == plan = <<>>

Current == plan[Len(plan)]

Active == plan # <<>> /\ Current.status = "active"

Nodes == DOMAIN Current.nodes

Moved(n, s) == plan' = [plan EXCEPT ![Len(plan)].nodes[n] = s]

Create == plan = <<>> /\ Len(plan') = 1 /\ plan'[1].status = "active"

\* Nothing has failed, is paused or waits, and what n depends on is completed.
Start(n) ==
  /\ Current.nodes[n] = "pending"
  /\ \A m \in Nodes : Current.nodes[m] \in {"pending", "running", "completed", "skipped"}
  /\ \A m \in Current.deps[n] : Current.nodes[m] = "completed"
  /\ Moved(n, "running")

\* A node ends by its run or by its user's answer, which may be to an earlier question: a
\* node that has been run again and paused since is failed by it as well.
End(n, s) ==
  /\ \/ Current.nodes[n] = "running"
     \/ Current.nodes[n] = "waiting_approval" /\ s \in {"completed", "failed"}
     \/ Current.nodes[n] = "paused" /\ s = "failed"
  /\ Moved(n, s)

\* A node that was interrupted, was paused or waits may be started again.
Again(n) ==
  /\ Current.nodes[n] \in {"running", "paused", "waiting_approval"}
  /\ Moved(n, "pending")

Skip(n) ==
  /\ Current.nodes[n] = "pending"
  /\ \E m \in Current.deps[n] : Current.nodes[m] \in {"failed", "skipped"}
  /\ Moved(n, "skipped")

Close(s) ==
  /\ s = "completed" => \A n \in Nodes : Current.nodes[n] = "completed"
  /\ s = "failed" /\ ~MayGiveUp =>
       \E n \in Nodes : Current.nodes[n] \in {"failed", "skipped", "paused"}
  /\ plan' = [plan EXCEPT ![Len(plan)].status = s]

\* The nodes of a revision that are completed.
Done(rev) == {n \in DOMAIN rev.nodes : rev.nodes[n] = "completed"}

Replan ==
  LET next == plan'[Len(plan) + 1]
  IN  /\ Len(plan') = Len(plan) + 1
      /\ plan' = Append([plan EXCEPT ![Len(plan)].status = "superseded"], next)
      /\ next.status = "active"
      /\ Done(Current) \subseteq Done(next)
      /\ \A n \in Done(Current) : next.deps[n] = Current.deps[n]

Next ==
  \/ Create
  \/ /\ Active
     /\ \/ \E n \in Nodes :
             \/ Start(n) \/ Again(n) \/ Skip(n)
             \/ \E s \in {"completed", "failed", "waiting_approval", "paused"} : End(n, s)
        \/ Close("completed") \/ Close("failed")
        \/ Replan

Spec == Init /\ [][Next]_plan
=============================================================================
