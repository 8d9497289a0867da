---------------------------- MODULE PlanExecution ----------------------------
(***************************************************************************)
(* The revisions of one task's plan and the processes that execute, resume *)
(* and replan it. PlanExecutor takes the revision's lease, runs batches of *)
(* nodes on a thread pool and writes what they come to; every other        *)
(* process works on the same row of plan_revisions with no more than the   *)
(* versions it has read.                                                   *)
(*                                                                         *)
(* What a node does is the business of ToolActions; that an operator may   *)
(* rewind or accept an interrupted node is decided in PlanService and a    *)
(* free choice here. A lease lapses when its sixty seconds are over, which *)
(* a long node alone may take: PlanExecutor renews between nodes only.     *)
(***************************************************************************)
EXTENDS PlanStore

CONSTANTS
  Procs,      \* processes; each has a lease owner id of its own
  Plans,      \* graphs a planner may return for a goal
  Replans,    \* graphs a planner may return for a replan
  Limit,      \* max_concurrency, 1 for a runner that does not support more
  MaxLooks,   \* bound on the commands given
  MaxRevisions,  \* bound on the revisions
  MaxDeaths   \* bound on the processes that die

\* Who results are recorded of besides the processes.
Others == {"history", "user"}

ASSUME ProcsAssumption ==
  None \notin Procs /\ Gone \notin Procs /\ Procs \cap Others = {}
ASSUME NothingAssumption ==
  /\ None \notin {"failed", "completed"}
  /\ None \notin [by : Procs \cup Others, status : NodeStatus]
ASSUME PlansAssumption == \A g \in Plans \cup Replans : IsPlanGraph(g)
ASSUME LimitAssumption == Limit \in Nat \ {0}
ASSUME BoundsAssumption == MaxLooks \in Nat /\ MaxRevisions \in Nat \ {0} /\ MaxDeaths \in Nat

VARIABLES
  revs,     \* table plan_revisions: the rows of the task, in the order of their numbers
  local,    \* where each process is, and what it has read
  runner,   \* history: who marked each node of each revision as running, last
  looks,    \* history: how many commands were given
  lapsed,   \* history: whether a lease has lapsed under a living owner
  deaths    \* history: how many processes died

vars == <<revs, local, runner, looks, lapsed, deaths>>

Outcome == {"completed", "failed", "waiting_approval", "paused"}

\* free is whether the lease was free when it was read; todo the nodes still to mark, to
\* record or to skip, or those an inspection found unsettled; batch those that were
\* marked, out what they came to; end the status the revision is to be closed with, or
\* the one the unsettled node had.
Idle == [pc |-> "idle", rev |-> 0, version |-> 0, lease |-> 0, free |-> FALSE,
         todo |-> {}, batch |-> {}, out |-> <<>>, end |-> None]

Init ==
  /\ revs = <<>>
  /\ local = [p \in Procs |-> Idle]
  /\ runner = <<>>
  /\ looks = 0 /\ lapsed = FALSE /\ deaths = 0

-----------------------------------------------------------------------------
At(p, pc) == local[p].pc = pc

Row(p) == revs[local[p].rev]

Goto(p, l) == local' = [local EXCEPT ![p] = l]

Step(p, pc) == Goto(p, [local[p] EXCEPT !.pc = pc])

SetRow(p, row) == revs' = [revs EXCEPT ![local[p].rev] = row]

\* An exception or a return: on to the finally of execute.
Leave(p) == Step(p, "release") /\ UNCHANGED <<revs, runner>>

ActiveRevs == {r \in DOMAIN revs : revs[r].status = "active"}

\* Nodes of a batch are marked, recorded and skipped in the order of the graph.
First(nodes) == CHOOSE n \in nodes : \A m \in nodes : n <= m

\* Nodes that stand in the way of a scheduler, and of a second recovery.
Unsettled(g) == With(g, "running") \cup With(g, "waiting_approval") \cup With(g, "paused")

Rest(p) == UNCHANGED <<looks, lapsed, deaths>>

-----------------------------------------------------------------------------
(* create_revision of a new task's plan. *)
Create(p, g) ==
  /\ At(p, "idle") /\ revs = <<>>
  /\ revs' = <<NewRevision(g, NoResults(g))>>
  /\ runner' = <<[n \in NodesOf(g) |-> None]>>
  /\ UNCHANGED <<local, looks, lapsed, deaths>>

\* The status of the unsettled nodes, if they have but one.
Halt(g) ==
  LET halts == {g.status[n] : n \in Unsettled(g)}
  IN  IF Cardinality(halts) = 1 THEN CHOOSE s \in halts : TRUE ELSE None

\* p reads the active revision: to execute it, or to see what may be done about it.
Look(p, r) ==
  /\ At(p, "idle") /\ looks < MaxLooks
  /\ Goto(p, [Idle EXCEPT !.pc = "looked", !.rev = r, !.version = revs[r].version,
                          !.lease = revs[r].lease, !.free = LeaseFree(revs[r], p),
                          !.todo = Unsettled(revs[r].graph), !.end = Halt(revs[r].graph)])
  /\ looks' = looks + 1
  /\ UNCHANGED <<revs, runner, lapsed, deaths>>

\* p does no more than look, or is refused: PlanRecoveryError, a conflict.
GiveUp(p) ==
  /\ local[p].pc \in {"looked", "resuming", "answered"}
  /\ Goto(p, Idle) /\ UNCHANGED <<revs, runner>> /\ Rest(p)

-----------------------------------------------------------------------------
(* PlanExecutor.execute *)

Acquire(p) ==
  /\ At(p, "looked") /\ local[p].free /\ CanAcquire(Row(p), local[p].lease)
  /\ SetRow(p, Acquired(Row(p), p))
  /\ Goto(p, [local[p] EXCEPT !.pc = "loop", !.lease = Row(p).lease + 1, !.todo = {},
                              !.end = None])
  /\ UNCHANGED runner /\ Rest(p)

\* The heartbeat at the head of the loop; what follows goes by the row it returns.
Beats(p) == At(p, "loop") /\ CanBeat(Row(p), p, local[p].lease)

Loop(p, l) ==
  /\ Beats(p)
  /\ SetRow(p, Beaten(Row(p)))
  /\ Goto(p, [l EXCEPT !.version = Row(p).version])
  /\ UNCHANGED runner /\ Rest(p)

LoseLease(p) ==
  /\ At(p, "loop") /\ ~Beats(p)
  /\ Leave(p) /\ Rest(p)

Stops(g) == Unsettled(g) \cup With(g, "failed") # {}

\* A node has failed, waits, is paused, or was left running by another.
StopAt(p) ==
  /\ At(p, "loop") /\ Stops(Row(p).graph)
  /\ Loop(p, [local[p] EXCEPT !.pc = "release"])

StartBatch(p) ==
  LET g == Row(p).graph
  IN  /\ At(p, "loop") /\ ~Stops(g) /\ Ready(g) # {}
      /\ \E batch \in SUBSET Ready(g) :
           /\ IsBatch(g, batch, Limit)
           /\ Loop(p, [local[p] EXCEPT !.pc = "mark", !.todo = batch, !.batch = batch])

GiveUpBlocked(p) ==
  LET g == Row(p).graph
  IN  /\ At(p, "loop") /\ ~Stops(g) /\ Ready(g) = {} /\ Blocked(g) # {}
      /\ Loop(p, [local[p] EXCEPT !.pc = "skip", !.todo = Blocked(g), !.end = "failed"])

Conclude(p) ==
  LET g == Row(p).graph
  IN  /\ At(p, "loop") /\ ~Stops(g) /\ Ready(g) = {} /\ Blocked(g) = {}
      /\ Loop(p, IF With(g, "pending") # {} THEN [local[p] EXCEPT !.pc = "release"]
                 ELSE [local[p] EXCEPT !.pc = "close",
                         !.end = IF With(g, "skipped") # {} THEN "failed" ELSE "completed"])

\* p writes the status of a node with the version it has, or gets a conflict.
MoveNode(p, n, s, result, l) ==
  IF CanMoveNode(Row(p), n, s, local[p].version)
  THEN /\ SetRow(p, NodeMoved(Row(p), n, s, result))
       /\ Goto(p, [l EXCEPT !.version = @ + 1, !.todo = @ \ {n}])
       /\ runner' = IF s = "running" THEN [runner EXCEPT ![local[p].rev][n] = p] ELSE runner
  ELSE Leave(p)

Mark(p) ==
  LET todo == local[p].todo
      n == First(todo)
  IN  /\ At(p, "mark")
      /\ MoveNode(p, n, "running", None,
                  [local[p] EXCEPT !.pc = IF todo = {n} THEN "run" ELSE "mark"])
      /\ Rest(p)

\* The runner's turns; an exception of one is a failed node.
Run(p, out) ==
  /\ At(p, "run")
  /\ Goto(p, [local[p] EXCEPT !.pc = "beat", !.todo = local[p].batch, !.out = out])
  /\ UNCHANGED <<revs, runner>> /\ Rest(p)

\* The heartbeat before a result is written has the lease version just read.
Beat(p) ==
  /\ At(p, "beat")
  /\ IF CanBeat(Row(p), p, Row(p).lease)
     THEN /\ SetRow(p, Beaten(Row(p)))
          /\ Goto(p, [local[p] EXCEPT !.pc = "write", !.version = Row(p).version])
          /\ UNCHANGED runner
     ELSE Leave(p)
  /\ Rest(p)

AfterBatch(out) ==
  CASE \E n \in DOMAIN out : out[n] = "failed" -> "skip"
    [] (\A n \in DOMAIN out : out[n] = "completed") -> "loop"
    [] OTHER -> "release"

Record(p, s) == [by |-> p, status |-> s]

Write(p) ==
  LET todo == local[p].todo
      out == local[p].out
      n == First(todo)
  IN  /\ At(p, "write")
      /\ MoveNode(p, n, out[n], Record(p, out[n]),
                  [local[p] EXCEPT !.pc = IF todo # {n} THEN "beat" ELSE AfterBatch(out)])
      /\ Rest(p)

\* _skip_dependents goes on until nothing is blocked; the blocked nodes of an executor
\* that found no ready one are a list it has made before.
ToSkip(p) == IF local[p].end = None THEN Blocked(Row(p).graph) ELSE local[p].todo

Skip(p) ==
  /\ At(p, "skip")
  /\ IF ToSkip(p) # {}
     THEN MoveNode(p, First(ToSkip(p)), "skipped", Record(p, "skipped"), local[p])
     ELSE /\ Step(p, IF local[p].end = None THEN "release" ELSE "close")
          /\ UNCHANGED <<revs, runner>>
  /\ Rest(p)

\* A revision is done, or cannot be done.
Close(p) ==
  /\ At(p, "close")
  /\ IF CanClose(Row(p), local[p].version)
     THEN /\ SetRow(p, ClosedAs(Row(p), local[p].end))
          /\ Step(p, "release") /\ UNCHANGED runner
     ELSE Leave(p)
  /\ Rest(p)

\* Faulty: an executor that fails keeps its lease.
ReleaseNever(p) == At(p, "release") /\ Goto(p, Idle) /\ UNCHANGED <<revs, runner>> /\ Rest(p)

Release(p) ==
  /\ At(p, "release")
  /\ revs' = IF CanRelease(Row(p), p, local[p].lease)
             THEN [revs EXCEPT ![local[p].rev] = Unleased(@)] ELSE revs
  /\ Goto(p, Idle) /\ UNCHANGED runner /\ Rest(p)

-----------------------------------------------------------------------------
(* What PlanTaskService does to the row besides. *)

\* resume has found one node interrupted, paused or waiting under a lease that is free, and
\* reads the active revision a second time.
Reread(p, r) ==
  /\ At(p, "looked") /\ local[p].free /\ Cardinality(local[p].todo) = 1
  /\ Goto(p, [local[p] EXCEPT !.pc = "resuming", !.rev = r, !.version = revs[r].version,
                              !.free = ~revs[r].live])
  /\ UNCHANGED <<revs, runner>> /\ Rest(p)

Resuming(p, s) == At(p, "resuming") /\ local[p].end = s

\* The node resume is about; it may be gone from the revision it has read.
Halted(p) == First(local[p].todo)

\* p writes the status of the node it resumes.
Resume(p, s, result) ==
  /\ Halted(p) \in NodesOf(Row(p).graph)
  /\ CanMoveNode(Row(p), Halted(p), s, local[p].version)
  /\ SetRow(p, NodeMoved(Row(p), Halted(p), s, result))
  /\ Goto(p, Idle) /\ UNCHANGED runner /\ Rest(p)

RewindTo(p, n) ==
  /\ SetRow(p, Rewound(Row(p), n))
  /\ runner' = [runner EXCEPT ![local[p].rev][n] = None]
  /\ Goto(p, Idle) /\ Rest(p)

\* The interrupted node may run again.
Rewind(p) ==
  /\ Resuming(p, "running") /\ local[p].free /\ Halted(p) \in NodesOf(Row(p).graph)
  /\ CanRewind(Row(p), Halted(p), local[p].version)
  /\ RewindTo(p, Halted(p))

\* The effects of the interrupted node are on record; nobody looks at the lease again.
Accept(p) == Resuming(p, "running") /\ Resume(p, "completed", Record("history", "completed"))

\* A paused node may go on.
Requeue(p) == Resuming(p, "paused") /\ Resume(p, "pending", None)

\* resume_waiting_node and resume_paused_node of the executor.
Unpark(p, n) ==
  /\ At(p, "looked") /\ Row(p).graph.status[n] \in {"waiting_approval", "paused"}
  /\ CanMoveNode(Row(p), n, "pending", local[p].version)
  /\ SetRow(p, NodeMoved(Row(p), n, "pending", None))
  /\ Goto(p, Idle) /\ UNCHANGED runner /\ Rest(p)

\* handle_approval, handle_user_message: the turn of a node that waits for its user.
Answer(p, n) ==
  /\ At(p, "looked") /\ Row(p).version = local[p].version
  /\ Row(p).graph.status[n] = "waiting_approval"
  /\ Goto(p, [local[p] EXCEPT !.pc = "answered", !.todo = {n}])
  /\ UNCHANGED <<revs, runner>> /\ Rest(p)

\* The version is read again after the turn; that a node is still waiting is not looked at.
Settle(p, s) ==
  LET n == First(local[p].todo)
  IN  /\ At(p, "answered")
      /\ CanMoveNode(Row(p), n, s, Row(p).version)
      /\ SetRow(p, NodeMoved(Row(p), n, s, Record("user", s)))
      /\ Goto(p, Idle) /\ UNCHANGED runner /\ Rest(p)

\* create_replan, of the revision the planner was shown; nobody asks for its lease.
Replan(p, g) ==
  /\ At(p, "looked") /\ local[p].rev = Len(revs) /\ Len(revs) < MaxRevisions
  /\ CanReplan(Row(p), g)
  /\ revs' = Append([revs EXCEPT ![local[p].rev] = ClosedAs(@, "superseded")],
                    Successor(Row(p), g))
  /\ runner' = Append(runner, [n \in NodesOf(g) |-> None])
  /\ Goto(p, Idle) /\ Rest(p)

\* _finalize_failed_execution: nothing is left to replan, resume or pay for.
FailRevision(p) ==
  /\ At(p, "looked")
  /\ With(Row(p).graph, "failed") \cup With(Row(p).graph, "paused") # {}
  /\ CanClose(Row(p), local[p].version)
  /\ SetRow(p, ClosedAs(Row(p), "failed"))
  /\ Goto(p, Idle) /\ UNCHANGED runner /\ Rest(p)

-----------------------------------------------------------------------------
\* The clock passes the expires_at of a lease.
Lapse(r) ==
  /\ revs[r].live
  /\ revs' = [revs EXCEPT ![r].live = FALSE]
  /\ lapsed' = (lapsed \/ revs[r].owner \in Procs)
  /\ UNCHANGED <<local, runner, looks, deaths>>

\* p dies; a process that takes its place has another owner id.
Crash(p) ==
  /\ ~At(p, "idle") /\ deaths < MaxDeaths
  /\ revs' = [r \in DOMAIN revs |->
                IF revs[r].owner = p THEN [revs[r] EXCEPT !.owner = Gone] ELSE revs[r]]
  /\ Goto(p, Idle)
  /\ deaths' = deaths + 1
  /\ UNCHANGED <<runner, looks, lapsed>>

Executing(p) ==
  \/ Acquire(p) \/ LoseLease(p) \/ StopAt(p) \/ StartBatch(p) \/ GiveUpBlocked(p)
  \/ Conclude(p) \/ Mark(p) \/ Beat(p) \/ Write(p) \/ Skip(p) \/ Close(p) \/ Release(p)
  \/ \E out \in [local[p].batch -> Outcome] : Run(p, out)

Serving(p) ==
  \/ GiveUp(p) \/ FailRevision(p)
  \/ \E s \in {"completed", "failed"} : Settle(p, s)
  \/ \E g \in Replans : Replan(p, g)
  \/ \E r \in DOMAIN revs : \E n \in NodesOf(revs[r].graph) :
       r = local[p].rev /\ (Unpark(p, n) \/ Answer(p, n))
  \/ \E r \in ActiveRevs : Reread(p, r)
  \/ Rewind(p) \/ Accept(p) \/ Requeue(p)

Work(p) == Executing(p) \/ Serving(p)

Next ==
  \/ \E r \in DOMAIN revs : Lapse(r)
  \/ \E p \in Procs :
       \/ Work(p) \/ Crash(p)
       \/ \E g \in Plans : Create(p, g)
       \/ \E r \in ActiveRevs : Look(p, r)

Spec == Init /\ [][Next]_vars

-----------------------------------------------------------------------------
(* What must hold. *)

Results(g) == [NodesOf(g) -> {None} \cup [by : Procs \cup Others, status : NodeStatus]]

\* The tables and the processes are of their types (NewRevision, Goto).
TypeOK ==
  /\ \A r \in DOMAIN revs :
       /\ revs[r].status \in RevisionStatus
       /\ revs[r].graph.status \in [NodesOf(revs[r].graph) -> NodeStatus]
       /\ revs[r].results \in Results(revs[r].graph)
       /\ revs[r].owner \in Procs \cup {None, Gone} /\ revs[r].live \in BOOLEAN
       /\ runner[r] \in [NodesOf(revs[r].graph) -> Procs \cup {None}]
  /\ Len(revs) <= MaxRevisions /\ DOMAIN runner = DOMAIN revs
  /\ \A p \in Procs : local[p].rev \in {0} \cup DOMAIN revs

\* p decides on or runs nodes of its revision.
Working(p) == local[p].pc \in {"mark", "run", "beat", "write", "skip", "close"}

\* As long as no lease has run out under a living owner, a revision has one executor at a
\* time, whatever the other processes resume, accept, answer or replan meanwhile
\* (acquire_execution_lease, rewind_running_node_to_pending).
OneExecutor ==
  lapsed \/ \A p, q \in Procs :
              Working(p) /\ Working(q) /\ local[p].rev = local[q].rev => p = q

\* An executor's lease ends with its execution (the finally of PlanExecutor.execute).
LeaseReturned ==
  \A p \in Procs : (\E r \in DOMAIN revs : revs[r].owner = p)
                     => local[p].pc \in {"loop", "mark", "run", "beat", "write", "skip",
                                         "close", "release"}

\* Where the file of a path is: the names from the root of the workspace down to it. What
\* lies outside of the workspace has no place.
Down(at, part) ==
  CASE part.name \in {"", "."} -> at
    [] part.name = ".." -> IF at = <<>> THEN <<>> ELSE Front(at)
    [] OTHER -> Append(at, part.name)

Place(path) ==
  LET at[i \in 0 .. Len(path)] == IF i = 0 THEN <<>> ELSE Down(at[i - 1], path[i])
  IN  at[Len(path)]

\* The claims are about one file, or about a directory and a file in it.
Meet(c, d) ==
  \/ {c.key.scheme, d.key.scheme} \cap {"workspace", "root"} # {}
  \/ /\ {c.key.scheme, d.key.scheme} \subseteq FileSchemes
     /\ LET a == Place(c.key.path)
            b == Place(d.key.path)
        IN  \A i \in DOMAIN a \cap DOMAIN b : a[i] = b[i]

\* The claim is not, as that of a file, one of the whole workspace or of what lies outside.
NamesBelow(c) ==
  c.key.scheme \in FileSchemes => Normpath(c.key.path)[1].name \notin {".", ".."}

\* Two nodes of a revision that run at a time never write what the other one reads or
\* writes, in whatever spelling their claims name it, as long as what the claims name as a
\* file or a path lies below the workspace (resources_conflict): the code finds no conflict
\* between file:. and file:a.
NothingShared ==
  \A r \in DOMAIN revs : \A m, n \in With(revs[r].graph, "running") :
    m # n => \A c \in ClaimsOf(revs[r].graph, m), d \in ClaimsOf(revs[r].graph, n) :
               NamesBelow(c) /\ NamesBelow(d) => {c.mode, d.mode} = {"read"} \/ ~Meet(c, d)

\* What an executor records of a node is what came of its own run of it: an executor whose
\* node was handed to another has lost its lease with it (the heartbeat before a result).
FencedResult ==
  [][\A p \in Procs, r \in DOMAIN revs : \A n \in NodesOf(revs[r].graph) :
       /\ revs'[r].results[n] # revs[r].results[n]
       /\ revs'[r].results[n].by = p
       /\ revs'[r].results[n].status # "skipped"
       => runner[r][n] = p]_vars

\* A node that is completed with evidence stays so, in its revision and in the one that
\* replaces it, and is not run again (_preserve_completed_nodes).
EvidenceKept ==
  [][\A r \in ActiveRevs : \A n \in CompletedNodes(revs[r]) :
       /\ n \in CompletedNodes(revs'[Len(revs')])
       /\ revs[r].results[n] # None => revs'[Len(revs')].results[n] # None]_vars

\* The plan as its abstract machine sees it.
Machine == INSTANCE PlanMachine WITH
  MayGiveUp <- FALSE,
  plan <- [r \in DOMAIN revs |-> [status |-> revs[r].status, deps |-> revs[r].graph.deps,
                                  nodes |-> revs[r].graph.status]]

\* PlanExecution implements PlanMachine: executors, resumes and replans that interleave in
\* any way keep the order of dependencies and what is completed.
Implements == Machine!Spec
=============================================================================
