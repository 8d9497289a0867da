------------------------------ MODULE PlanStore ------------------------------
(***************************************************************************)
(* A row of plan_revisions and what the statements of PlanStore make of    *)
(* it. Every UPDATE names the version (or, for the lease, the owner or the *)
(* lease version) its caller has read, so a statement and the SELECT       *)
(* before it are one step wherever the condition of the UPDATE covers all  *)
(* that was read; where it does not, PlanExecution takes them apart.       *)
(*                                                                         *)
(* Time is whether the lease's expires_at still lies ahead: live.          *)
(***************************************************************************)
EXTENDS PlanGraph

CONSTANTS
  None,  \* no owner, no result, and the like
  Gone   \* the lease owner id of a process that has died: nobody has it again

ASSUME NoneAssumption == None \notin Nat /\ Gone # None

RevisionStatus == {"active", "completed", "failed", "superseded"}

\* _NODE_STATUS_TRANSITIONS.
NodeMoves ==
  {<<s, s>> : s \in NodeStatus}
  \cup {<<"pending", s>> : s \in {"running", "skipped"}}
  \cup {<<"running", s>> : s \in {"completed", "failed", "waiting_approval", "paused"}}
  \cup {<<"waiting_approval", s>> : s \in {"pending", "completed", "failed"}}
  \cup {<<"paused", s>> : s \in {"pending", "failed"}}

\* A new row: create_revision, and the INSERT of create_replan.
NewRevision(g, results) ==
  [status |-> "active", graph |-> g, results |-> results, version |-> 1,
   owner |-> None, lease |-> 0, live |-> FALSE]

NoResults(g) == [n \in NodesOf(g) |-> None]

\* Faulty: nobody asks whether the row has changed since it was read.
CanMoveNodeAnyVersion(row, n, s, version) ==
  row.status = "active" /\ <<row.graph.status[n], s>> \in NodeMoves

\* update_node_status, whose result is None if it has none to record.
CanMoveNode(row, n, s, version) ==
  /\ row.version = version
  /\ row.status = "active"
  /\ <<row.graph.status[n], s>> \in NodeMoves

NodeMoved(row, n, s, result) ==
  IF s = row.graph.status[n] /\ result = None THEN row
  ELSE [row EXCEPT !.graph = WithNodeStatus(@, n, s),
                   !.results[n] = IF result = None THEN @ ELSE result,
                   !.version = @ + 1]

\* Faulty: a lease is taken over while its owner lives.
LeaseFreeAny(row, me) == TRUE

\* acquire_execution_lease: what it reads, what its UPDATE asks for, what that writes.
LeaseFree(row, me) == ~row.live \/ row.owner = me

CanAcquire(row, lease) == row.status = "active" /\ row.lease = lease

Acquired(row, me) == [row EXCEPT !.owner = me, !.lease = @ + 1, !.live = TRUE]

\* Faulty: the heartbeat does not ask who owns the lease.
CanBeatAny(row, me, lease) == row.status = "active" /\ row.lease = lease

\* heartbeat_execution_lease.
CanBeat(row, me, lease) ==
  row.status = "active" /\ row.owner = me /\ row.lease = lease

Beaten(row) == [row EXCEPT !.live = TRUE]

\* release_execution_lease.
CanRelease(row, me, lease) == row.owner = me /\ row.lease = lease

Unleased(row) == [row EXCEPT !.owner = None, !.lease = @ + 1, !.live = FALSE]

\* rewind_running_node_to_pending, without its look at tool_actions.
CanRewind(row, n, version) ==
  row.status = "active" /\ row.version = version /\ row.graph.status[n] = "running"

Rewound(row, n) ==
  [Unleased(row) EXCEPT !.graph = WithNodeStatus(@, n, "pending"), !.version = @ + 1]

\* update_revision_status, and the UPDATE of create_replan.
CanClose(row, version) == row.status = "active" /\ row.version = version

ClosedAs(row, s) == [Unleased(row) EXCEPT !.status = s, !.version = @ + 1]

-----------------------------------------------------------------------------
(* create_replan: the graph g the planner has made of the active row. *)

CompletedNodes(row) == With(row.graph, "completed")

\* _preserve_completed_nodes: a completed node stays as it is.
Preserve(row, g) ==
  LET kept == CompletedNodes(row)
      Pick(old, new) == [n \in NodesOf(g) |-> IF n \in kept THEN old[n] ELSE new[n]]
  IN  [kind   |-> Pick(row.graph.kind, g.kind),
       deps   |-> Pick(row.graph.deps, g.deps),
       claims |-> Pick(row.graph.claims, g.claims),
       status |-> Pick(row.graph.status, g.status)]

\* Faulty: the results of the nodes that are kept are lost.
ForgetResults(row, g) == NoResults(g)

\* Faulty: the results of the nodes that are given up are kept.
KeepResults(row, g) == row.results

PreservedResults(row, g) ==
  [n \in NodesOf(g) |->
     IF n \in NodesOf(row.graph) /\ Preserve(row, g).status[n] = "completed"
     THEN row.results[n] ELSE None]

CanReplan(row, g) ==
  /\ row.status = "active"
  /\ CompletedNodes(row) \subseteq NodesOf(g)
  /\ ValidGraph(Preserve(row, g))

Successor(row, g) == NewRevision(Preserve(row, g), PreservedResults(row, g))
=============================================================================
