------------------------------ MODULE PlanService ------------------------------
(***************************************************************************)
(* PlanTaskService: the commands of a user about one planned task, each    *)
(* carried out by one process with a write to the database per step, and   *)
(* PlanRecoveryService, which makes of the task, the revision, the tool    *)
(* actions and the lease what may be done next. A process may die before   *)
(* any of its writes; the next one has nothing but the tables.             *)
(*                                                                         *)
(* The planner phase is Planner's and is here its checkpoints and its      *)
(* outcome; the executor is PlanExecution's, here with a batch of one; the *)
(* turns are TaskControl's and ToolActions', here what they do to the      *)
(* task, the files and the tool actions. Stop reasons are named for what   *)
(* service.py makes of them: "window" stands for max_tool_rounds_exceeded, *)
(* "unmet" for acceptance_evidence_missing and                             *)
(* repeated_deterministic_tool_failure.                                    *)
(***************************************************************************)
EXTENDS PlanStore, TaskStatus

CONSTANTS
  Me,               \* the lease owner id of the process that serves
  Plan,             \* the graph planned for the goal
  Replans,          \* graphs a planner may return for a replan
  EffectsOf,        \* the side effects each node may have
  MaxReplans,       \* TaskBudget.max_replans
  MaxContinuations, \* TaskBudget.max_continuations
  MaxCommands,      \* bound on the commands given
  MaxDeaths         \* bound on the deaths of processes

\* PendingAction, with the node its turn was scoped to.
Questions == [kind : {"tool_approval", "ask_user"}, node : DOMAIN EffectsOf \cup {None}]

\* The state of a planner phase that is saved.
Checkpoints == [op : {"initial", "replan"}, request : {"requesting", "completed", "failed"},
                auto : BOOLEAN]

ASSUME MeAssumption == Me \notin {None, Gone}
ASSUME NothingAssumption == None \notin {"initial", "replan"} \cup Questions \cup Checkpoints
\* An effect is what one node does; two nodes that write one file do two.
ASSUME EffectsAssumption ==
  \A m, n \in DOMAIN EffectsOf : m # n => EffectsOf[m] \cap EffectsOf[n] = {}
ASSUME GraphsAssumption ==
  \A g \in {Plan} \cup Replans : IsPlanGraph(g) /\ NodesOf(g) \subseteq DOMAIN EffectsOf
ASSUME LimitsAssumption ==
  /\ MaxReplans \in Nat /\ MaxContinuations \in Nat
  /\ MaxCommands \in Nat /\ MaxDeaths \in Nat

VARIABLES
  task,      \* the row of the task
  revs,      \* table plan_revisions
  cp,        \* the task's latest checkpoint, if it is the planner's
  rows,      \* table tool_actions: its rows with a side effect
  world,     \* the side effects that are there
  me,        \* where the process is
  commands,  \* history: how many commands were given
  deaths     \* history: how many processes died

vars == <<task, revs, cp, rows, world, me, commands, deaths>>

Effects == UNION {EffectsOf[n] : n \in DOMAIN EffectsOf}

\* op and auto are of the planner phase; guard is the innermost handler of exceptions; turn
\* is whose turn runs on node, did what it has done, doing what it does; out is what the
\* node, then the execution, has come to.
Idle == [pc |-> "idle", op |-> None, auto |-> FALSE, guard |-> "none", turn |-> None,
         node |-> 0, did |-> {}, doing |-> None, out |-> None]

NoTask == [status |-> "absent", stop |-> None, pending |-> None, conts |-> 0, replans |-> 0]

Init ==
  /\ task = NoTask /\ revs = <<>> /\ cp = None
  /\ rows = {} /\ world = {}
  /\ me = Idle /\ commands = 0 /\ deaths = 0

-----------------------------------------------------------------------------
At(pc) == me.pc = pc

Goto(pc) == me' = [me EXCEPT !.pc = pc]

Counted == UNCHANGED <<commands, deaths>>

Acts == UNCHANGED <<rows, world>>   \* nothing is done outside of the database

Asked == commands < MaxCommands /\ commands' = commands + 1 /\ UNCHANGED deaths

Command == At("idle") /\ Asked

ActiveRevs == {r \in DOMAIN revs : revs[r].status = "active"}

HasActive == ActiveRevs # {}

Cur == CHOOSE r \in ActiveRevs : TRUE

Row == revs[Cur]

SetRow(row) == revs' = [revs EXCEPT ![Cur] = row]

TaskOver == task.status \in Terminal

CanMoveTask(s) == <<task.status, s>> \in AllowedMoves

FirstOf(nodes) == CHOOSE n \in nodes : \A m \in nodes : n <= m

\* What handles an exception: start fails the task, the recovery of a planner and an
\* automatic replan close the revision as well, everything else leaves it to the user.
Handler(guard) ==
  CASE guard = "none" -> "idle" [] guard = "start" -> "fail" [] OTHER -> "abandon"

Catch == IF Handler(me.guard) = "idle" THEN me' = Idle ELSE Goto(Handler(me.guard))

Throw == Catch /\ UNCHANGED <<task, revs, cp>> /\ Acts /\ Counted

-----------------------------------------------------------------------------
(* PlanRecoveryService: what the tables allow. *)

Unsettled(g) == With(g, "running") \cup With(g, "waiting_approval") \cup With(g, "paused")

\* Facts about the task and the node that wait for a user which do not fit together.
Contradictory ==
  LET waiting == With(Row.graph, "waiting_approval")
  IN  \/ TaskOver
      \/ Cardinality(Unsettled(Row.graph)) > 1
      \/ (task.status = "waiting_user") # (task.pending # None)
      \/ (waiting # {}) # (task.pending # None)
      \/ task.pending # None /\ task.pending.node \notin waiting \cup {None}

\* inspect.
Decision ==
  IF ~HasActive THEN IF TaskOver THEN "terminal" ELSE "inconsistent"
  ELSE IF Contradictory THEN "inconsistent"
  ELSE IF task.pending # None THEN "waiting"
  ELSE IF With(Row.graph, "paused") # {}
       THEN IF task.status = "paused" /\ ~Row.live THEN "paused" ELSE "inconsistent"
  ELSE IF With(Row.graph, "running") # {} THEN IF Row.live THEN "lease_active" ELSE "interrupted"
  ELSE IF task.status = "paused" THEN IF Row.owner = None THEN "paused" ELSE "inconsistent"
  ELSE IF ~Row.live /\ Ready(Row.graph) # {} THEN "ready" ELSE "inconsistent"

\* The node an interrupted revision was left with.
Interrupted == FirstOf(With(Row.graph, "running"))

Open == {"executing", "uncertain"}

\* Side effects that are recorded of a node by its own name.
Scoped(n) == {a \in rows : a.node = n}

\* actions_for_node: a node without tool actions, none that only looked either, is judged by
\* all those of the task.
ActionsForNode(n, looked) == IF looked \/ Scoped(n) # {} THEN Scoped(n) ELSE rows

RewindIsSafe(n, looked) == \A a \in ActionsForNode(n, looked) : a.status = "failed"

\* Faulty: one effect that is there stands for all.
AssessAny(n) ==
  LET status == {a.status : a \in Scoped(n)}
  IN  IF status \cap Open # {} THEN "unresolved"
      ELSE IF "succeeded" \in status THEN "complete" ELSE "retry"

\* assess_side_effects; attempts with the same tool and arguments are one effect.
Assess(n) ==
  LET Has(e) == \E a \in Scoped(n) : a.of = e /\ a.status = "succeeded"
      of == {a.of : a \in Scoped(n)}
  IN  IF \E a \in Scoped(n) : a.status \in Open THEN "unresolved"
      ELSE IF \E e \in of : Has(e) THEN IF \A e \in of : Has(e) THEN "complete" ELSE "mixed"
      ELSE "retry"

\* The look of rewind_running_node_to_pending at tool_actions.
StoreLetsRewind(n) == \A a \in rows : a.node \in {None, n} => a.status = "failed"

\* _recoverable_planner_checkpoint.
Reason(op) == IF op = "initial" THEN "planner_failed" ELSE "replanner_failed"

PlannerRecoverable ==
  /\ task.status = "paused" /\ cp # None
  /\ cp.request = "failed" /\ task.stop = Reason(cp.op)
  /\ IF cp.op = "initial" THEN revs = <<>> ELSE HasActive

-----------------------------------------------------------------------------
(* The planner phase, and what the service makes of its end. *)

Start ==
  /\ Command /\ task.status = "absent"
  /\ task' = [task EXCEPT !.status = "running"]
  /\ me' = [Idle EXCEPT !.pc = "request", !.op = "initial", !.auto = TRUE, !.guard = "start"]
  /\ UNCHANGED <<revs, cp>> /\ Acts

PlannerSays(status) == cp' = [op |-> me.op, request |-> status, auto |-> me.auto]

Request ==
  /\ At("request")
  /\ PlannerSays("requesting") /\ Goto("planning")
  /\ UNCHANGED <<task, revs>> /\ Acts /\ Counted

PlanMade ==
  /\ At("planning")
  /\ PlannerSays("completed") /\ Goto("store")
  /\ UNCHANGED <<task, revs>> /\ Acts /\ Counted

\* PlanPlanningError.
PlanRefused ==
  /\ At("planning")
  /\ PlannerSays("failed") /\ Goto("preserve")
  /\ UNCHANGED <<task, revs>> /\ Acts /\ Counted

PlanRaised ==
  /\ At("planning")
  /\ PlannerSays("failed") /\ Catch
  /\ UNCHANGED <<task, revs>> /\ Acts /\ Counted

\* _pause_for_planner_recovery; its RuntimeError passes the handlers it is raised in.
PauseForPlanner ==
  /\ At("preserve")
  /\ IF task.status \in {"running", "paused"}
     THEN /\ task' = IF task.status = "running"
                     THEN [task EXCEPT !.status = "paused", !.stop = Reason(me.op)] ELSE task
          /\ me' = Idle
     ELSE /\ IF me.guard = "auto" THEN Goto("abandon") ELSE me' = Idle
          /\ UNCHANGED task
  /\ UNCHANGED <<revs, cp>> /\ Acts /\ Counted

\* create_revision, create_replan.
Store(g) ==
  LET initial == me.op = "initial"
      next == [me EXCEPT !.pc = IF me.guard = "continue" THEN "unpause" ELSE "execute",
                         !.op = None, !.guard = IF me.guard = "start" THEN "none" ELSE me.guard]
  IN  /\ At("store")
      /\ IF initial THEN revs = <<>> ELSE CanReplan(Row, g)
      /\ revs' = IF initial THEN <<NewRevision(g, NoResults(g))>>
                 ELSE Append([revs EXCEPT ![Cur] = ClosedAs(@, "superseded")],
                             Successor(Row, g))
      /\ me' = next
      /\ UNCHANGED <<task, cp>> /\ Acts /\ Counted

StoreRefused(g) == At("store") /\ me.op = "replan" /\ ~CanReplan(Row, g) /\ Throw

\* _resume_after_planner_recovery.
Unpause ==
  /\ At("unpause")
  /\ IF task.status \in {"running", "paused"}
     THEN task' = [task EXCEPT !.status = "running"] /\ Goto("execute")
     ELSE Catch /\ UNCHANGED task
  /\ UNCHANGED <<revs, cp>> /\ Acts /\ Counted

-----------------------------------------------------------------------------
(* The executor with one node at a time. *)

Execute ==
  /\ At("execute") /\ LeaseFree(Row, Me)
  /\ SetRow(Acquired(Row, Me)) /\ Goto("loop")
  /\ UNCHANGED <<task, cp>> /\ Acts /\ Counted

LeaseTaken == At("execute") /\ ~LeaseFree(Row, Me) /\ Throw

Halting == <<"failed", "waiting_approval", "paused", "running">>

Stops == \E n \in NodesOf(Row.graph) : Row.graph.status[n] \in Range(Halting)

\* What the executor returns: the first of these that a node is.
StopAt ==
  LET g == Row.graph
      is == {i \in 1..4 : With(g, Halting[i]) # {}}
  IN  /\ At("loop") /\ Stops
      /\ me' = [me EXCEPT !.pc = "release", !.out = Halting[FirstOf(is)]]
      /\ UNCHANGED <<task, revs, cp>> /\ Acts /\ Counted

StartNode ==
  LET n == FirstOf(Ready(Row.graph))
  IN  /\ At("loop") /\ ~Stops /\ Ready(Row.graph) # {}
      /\ SetRow(NodeMoved(Row, n, "running", None))
      /\ me' = [me EXCEPT !.pc = "turn", !.turn = "node", !.node = n, !.out = None]
      /\ UNCHANGED <<task, cp>> /\ Acts /\ Counted

Close ==
  LET g == Row.graph
      s == IF With(g, "skipped") # {} THEN "failed" ELSE "completed"
  IN  /\ At("loop") /\ ~Stops /\ Ready(g) = {} /\ With(g, "pending") = {}
      /\ SetRow(ClosedAs(Row, s))
      /\ me' = [me EXCEPT !.pc = "reconcile", !.out = s]
      /\ UNCHANGED <<task, cp>> /\ Acts /\ Counted

Recorded(s) == [by |-> Me, status |-> s]

\* What the turn came to is written to the node.
Write ==
  /\ At("write")
  /\ SetRow(NodeMoved(Row, me.node, me.out, Recorded(me.out)))
  /\ me' = [me EXCEPT !.node = 0, !.turn = None, !.pc =
       CASE me.out = "completed" -> "loop" [] me.out = "failed" -> "skip" [] OTHER -> "release"]
  /\ UNCHANGED <<task, cp>> /\ Acts /\ Counted

Skip ==
  /\ At("skip")
  /\ IF Blocked(Row.graph) # {}
     THEN SetRow(NodeMoved(Row, FirstOf(Blocked(Row.graph)), "skipped", Recorded("skipped")))
          /\ UNCHANGED me
     ELSE Goto("release") /\ UNCHANGED revs
  /\ UNCHANGED <<task, cp>> /\ Acts /\ Counted

Release ==
  /\ At("release")
  /\ SetRow(Unleased(Row)) /\ Goto("reconcile")
  /\ UNCHANGED <<task, cp>> /\ Acts /\ Counted

-----------------------------------------------------------------------------
(* A turn of the agent loop: of a node, of a node's user, or of nobody's node. *)

\* run_turn on a task that is not running: its status is all there is to the result.
TurnIdle ==
  /\ At("turn") /\ task.status # "running"
  /\ me' = [me EXCEPT !.pc = "write",
              !.out = CASE task.status = "waiting_user" -> "waiting_approval"
                        [] task.status = "paused" -> "paused"
                        [] OTHER -> "failed"]
  /\ UNCHANGED <<task, revs, cp>> /\ Acts /\ Counted

\* What becomes of actions that another process was cut off in.
Classified(a, s) ==
  s \in {IF a.of \in world THEN "succeeded" ELSE "failed", "uncertain"}

TurnBegins ==
  /\ At("turn") /\ task.status = "running"
  /\ \E f \in [{a \in rows : a.status = "executing"} -> {"succeeded", "failed", "uncertain"}] :
       /\ \A a \in DOMAIN f : Classified(a, f[a])
       /\ rows' = {a \in rows : a \notin DOMAIN f}
                  \cup {[a EXCEPT !.status = f[a]] : a \in DOMAIN f}
  /\ cp' = None /\ Goto("acting")
  /\ UNCHANGED <<task, revs, world>> /\ Counted

\* turn_state: run_turn forgets the node when it continues after an approval or a rejection.
Scope ==
  IF me.turn \in {"node", "answered"} \/ (me.turn = "approved" /\ At("approved")) THEN me.node
  ELSE None

Uncertain == \E a \in rows : a.status = "uncertain"

Acting == (At("acting") /\ ~Uncertain) \/ At("approved")

Prepare(e) ==
  /\ Acting /\ me.doing = None /\ e \in EffectsOf[me.node] \ me.did
  /\ rows' = rows \cup {[node |-> Scope, of |-> e, status |-> "executing"]}
  /\ me' = [me EXCEPT !.doing = e]
  /\ UNCHANGED <<task, revs, cp, world>> /\ Counted

Happen ==
  /\ me.doing # None /\ me.doing \notin world
  /\ world' = world \cup {me.doing}
  /\ UNCHANGED <<task, revs, cp, rows, me>> /\ Counted

Complete(s) ==
  LET a == [node |-> Scope, of |-> me.doing, status |-> "executing"]
  IN  /\ me.doing # None /\ Classified(a, s)
      /\ rows' = (rows \ {a}) \cup {[a EXCEPT !.status = s]}
      /\ me' = [me EXCEPT !.doing = None, !.did = @ \cup {me.doing},
                          !.pc = IF At("approved") THEN "turn" ELSE @]
      /\ UNCHANGED <<task, revs, cp, world>> /\ Counted

\* What was approved is not done: the file has changed since, there is nothing left to look
\* at, or no tool call is left. It is no action on record; the turn goes on with the refusal.
ApprovalRefused ==
  /\ At("approved") /\ me.doing = None /\ Goto("turn")
  /\ UNCHANGED <<task, revs, cp>> /\ Acts /\ Counted

\* The turn is over: what it leaves of the task, and what it is to its node.
EndTurn(t, out) ==
  /\ At("acting") /\ me.doing = None
  /\ task' = t
  /\ IF me.turn = "plain" THEN me' = Idle
     ELSE me' = [me EXCEPT !.pc = IF me.turn = "node" THEN "write" ELSE "settle",
                           !.out = out, !.did = {}]
  /\ UNCHANGED <<revs, cp>> /\ Acts /\ Counted

\* final_text, accepted or not. A turn that is of no node ends its task.
TurnEnds(out) ==
  /\ ~Uncertain
  /\ EndTurn(IF me.turn # "plain" THEN task
             ELSE [task EXCEPT !.status = IF out = "failed" THEN "failed" ELSE "completed"], out)

\* The window of tool rounds is used up.
TurnWindow == ~Uncertain /\ EndTurn([task EXCEPT !.status = "paused", !.stop = "window"], "paused")

\* The user pauses the task, or cancels it, while the turn runs.
TurnPaused == ~Uncertain /\ EndTurn([task EXCEPT !.status = "paused"], "paused")

TurnCancelled == ~Uncertain /\ EndTurn([task EXCEPT !.status = "cancelled", !.stop = "cancelled"], "failed")

\* A budget, an exception, or an action nobody knows the outcome of.
TurnLost == EndTurn([task EXCEPT !.status = "failed", !.stop = "error"], "failed")

TurnAsks(kind) ==
  /\ At("acting") /\ ~Uncertain
  /\ (kind = "tool_approval" => EffectsOf[me.node] \ me.did # {})
  /\ EndTurn([task EXCEPT !.status = "waiting_user",
                !.pending = [kind |-> kind, node |->
                  IF me.turn \in {"node", "answered"} THEN me.node ELSE None]],
             "waiting_approval")

-----------------------------------------------------------------------------
(* _execute_and_reconcile, after the executor. *)

Reconciled(out) == At("reconcile") /\ me.out = out

\* replan raises, before it pays, where no revision is active.
MayReplan == me.auto /\ ~TaskOver /\ HasActive /\ task.replans < MaxReplans

\* Faulty: a replan of the service's own is free.
ReplanFree ==
  /\ Reconciled("failed") /\ MayReplan
  /\ me' = [me EXCEPT !.pc = "request", !.op = "replan", !.guard = "auto"]
  /\ UNCHANGED <<task, revs, cp>> /\ Acts /\ Counted

\* consume_replan.
AutoReplan ==
  /\ Reconciled("failed") /\ MayReplan
  /\ task' = [task EXCEPT !.replans = @ + 1]
  /\ me' = [me EXCEPT !.pc = "request", !.op = "replan", !.guard = "auto"]
  /\ UNCHANGED <<revs, cp>> /\ Acts /\ Counted

Finalize ==
  /\ Reconciled("failed") /\ ~MayReplan /\ me' = [me EXCEPT !.pc = "abandon", !.guard = "auto"]
  /\ UNCHANGED <<task, revs, cp>> /\ Acts /\ Counted

\* _finalize_failed_execution and the handler of _continue_planner, which leaves the
\* revision of a task that is over alone: first the revision, then the task.
Abandon ==
  /\ At("abandon")
  /\ IF me.guard = "continue" /\ TaskOver THEN me' = Idle /\ UNCHANGED revs
     ELSE /\ IF HasActive THEN SetRow(ClosedAs(Row, "failed")) ELSE UNCHANGED revs
          /\ Goto("fail")
  /\ UNCHANGED <<task, cp>> /\ Acts /\ Counted

\* TaskRuntime.fail, which first makes a task that waits or is paused run.
Fail ==
  /\ At("fail")
  /\ task' = CASE TaskOver -> task
               [] task.status = "running" -> [task EXCEPT !.status = "failed", !.stop = "error"]
               [] OTHER -> [task EXCEPT !.status = "running", !.pending = None]
  /\ IF task.status \in {"waiting_user", "paused"} THEN UNCHANGED me
     ELSE IF HasActive THEN Goto("abandon") ELSE me' = Idle
  /\ UNCHANGED <<revs, cp>> /\ Acts /\ Counted

\* Faulty: the node is paused, its task is left running.
PauseForNodeOnly ==
  /\ Reconciled("paused") /\ task.status = "running" /\ me' = Idle
  /\ UNCHANGED <<task, revs, cp>> /\ Acts /\ Counted

PauseForNode ==
  /\ Reconciled("paused") /\ task.status = "running"
  /\ task' = [task EXCEPT !.status = "paused", !.stop = "unmet"]
  /\ cp' = None /\ me' = Idle
  /\ UNCHANGED revs /\ Acts /\ Counted

\* Faulty: a plan that is done leaves its task as it is.
LeaveOpen ==
  /\ Reconciled("completed") /\ me' = Idle
  /\ UNCHANGED <<task, revs, cp>> /\ Acts /\ Counted

CompleteTask ==
  /\ Reconciled("completed")
  /\ IF CanMoveTask("completed")
     THEN task' = [task EXCEPT !.status = "completed", !.stop = "completed"] /\ me' = Idle
     ELSE UNCHANGED task /\ IF TaskOver THEN me' = Idle ELSE Catch
  /\ UNCHANGED <<revs, cp>> /\ Acts /\ Counted

Leave ==
  /\ \/ Reconciled("waiting_approval") \/ Reconciled("running")
     \/ Reconciled("paused") /\ task.status # "running"
  /\ me' = Idle
  /\ UNCHANGED <<task, revs, cp>> /\ Acts /\ Counted

-----------------------------------------------------------------------------
(* Commands about a task that has been planned. *)

ExecuteNext(auto) == [Idle EXCEPT !.pc = "execute", !.auto = auto]

\* continue_task goes on with these, and with what it does about a planner or a pause.
Continuable == Decision \in {"ready", "waiting"}

Continue ==
  /\ Command /\ HasActive /\ ~PlannerRecoverable /\ Continuable
  /\ me' = ExecuteNext(TRUE)
  /\ UNCHANGED <<task, revs, cp>> /\ Acts

\* Faulty: one continuation too many.
ContinuationLeftAtLimit == task.conts <= MaxContinuations

ContinuationLeft == task.conts < MaxContinuations

\* _continue_planner.
ContinuePlanner ==
  /\ Command /\ PlannerRecoverable
  /\ IF ContinuationLeft
     THEN /\ task' = [task EXCEPT !.conts = @ + 1]
          /\ me' = [Idle EXCEPT !.pc = "request", !.op = cp.op, !.auto = cp.auto,
                                !.guard = "continue"]
     ELSE me' = [Idle EXCEPT !.pc = "abandon"] /\ UNCHANGED task
  /\ UNCHANGED <<revs, cp>> /\ Acts

Charged == task.stop \in {"window", "unmet"}

\* resume of a paused task; both commands come to it.
ResumePaused ==
  /\ Command /\ ~PlannerRecoverable /\ Decision = "paused"
  /\ IF Charged /\ ~ContinuationLeft THEN me' = [Idle EXCEPT !.pc = "fail"] /\ UNCHANGED task
     ELSE /\ task' = [task EXCEPT !.status = "running"]
          /\ me' = [ExecuteNext(TRUE) EXCEPT !.pc = IF Charged THEN "pay" ELSE "requeue"]
  /\ UNCHANGED <<revs, cp>> /\ Acts

\* consume_continuation.
Pay ==
  /\ At("pay")
  /\ task' = [task EXCEPT !.conts = @ + 1] /\ Goto("requeue")
  /\ UNCHANGED <<revs, cp>> /\ Acts /\ Counted

Requeue ==
  LET paused == With(Row.graph, "paused")
  IN  /\ At("requeue")
      /\ IF paused = {} THEN UNCHANGED revs
         ELSE SetRow(NodeMoved(Row, FirstOf(paused), "pending", None))
      /\ Goto("execute")
      /\ UNCHANGED <<task, cp>> /\ Acts /\ Counted

\* resume of an interrupted node: all of its effects are there, or none is.
AcceptInterrupted ==
  /\ Command /\ Decision = "interrupted" /\ Assess(Interrupted) = "complete"
  /\ SetRow(NodeMoved(Row, Interrupted, "completed", [by |-> "history", status |-> "completed"]))
  /\ me' = ExecuteNext(TRUE)
  /\ UNCHANGED <<task, cp>> /\ Acts

MayRewind(n, looked) == Assess(n) = "retry" /\ RewindIsSafe(n, looked) /\ StoreLetsRewind(n)

RewindInterrupted(looked) ==
  /\ Command /\ Decision = "interrupted" /\ MayRewind(Interrupted, looked)
  /\ SetRow(Rewound(Row, Interrupted))
  /\ me' = ExecuteNext(TRUE)
  /\ UNCHANGED <<task, cp>> /\ Acts

\* resolution_candidates.
Candidates == {a \in Scoped(Interrupted) : a.status \in Open}

\* resolve_tool_action, by an operator who goes and looks.
Resolve(a) ==
  /\ Command /\ Decision = "interrupted" /\ a \in Candidates
  /\ rows' = (rows \ {a})
             \cup {[a EXCEPT !.status = IF a.of \in world THEN "succeeded" ELSE "failed"]}
  /\ UNCHANGED <<task, revs, cp, world, me>>

\* handle_approval, of the first node that waits; if none does, the agent loop runs a turn
\* that knows of no plan. Only a tool is approved or rejected.
Decide(approved) ==
  LET waiting == IF HasActive THEN With(Row.graph, "waiting_approval") ELSE {}
      asked == task.pending.node
      node == IF waiting # {} THEN FirstOf(waiting) ELSE IF asked # None THEN asked ELSE 1
  IN  /\ Command /\ task.pending # None
      /\ waiting # {} => task.pending.kind = "tool_approval"
      /\ task' = [task EXCEPT !.status = "running", !.pending = None]
      /\ me' = [ExecuteNext(TRUE) EXCEPT
                  !.node = node,
                  !.turn = IF waiting = {} THEN "plain" ELSE IF approved THEN "approved" ELSE "rejected",
                  !.pc = IF approved /\ task.pending.kind = "tool_approval" THEN "approved" ELSE "turn"]
      /\ UNCHANGED <<revs, cp>> /\ Acts

\* handle_user_message.
Answer ==
  LET waiting == With(Row.graph, "waiting_approval")
  IN  /\ Command /\ HasActive /\ task.pending # None /\ task.pending.kind = "ask_user"
      /\ waiting # {}
      /\ task' = [task EXCEPT !.status = "running", !.pending = None]
      /\ me' = [ExecuteNext(TRUE) EXCEPT !.node = FirstOf(waiting), !.turn = "answered", !.pc = "turn"]
      /\ UNCHANGED <<revs, cp>> /\ Acts

\* The turn of a user's decision is over, and decides what becomes of the node.
Settle ==
  LET out == IF me.turn = "rejected" THEN "failed" ELSE me.out
      next == ExecuteNext(TRUE)
  IN  /\ At("settle")
      /\ IF me.turn # "rejected" /\ task.status = "waiting_user" THEN me' = Idle /\ UNCHANGED revs
         ELSE IF <<"waiting_approval", out>> \in NodeMoves
         THEN SetRow(NodeMoved(Row, me.node, out, [by |-> "user", status |-> out])) /\ me' = next
         ELSE me' = Idle /\ UNCHANGED revs
      /\ UNCHANGED <<task, cp>> /\ Acts /\ Counted

\* replan, as the user asks for it.
ReplanCommand ==
  /\ Command /\ HasActive /\ ~TaskOver /\ task.replans < MaxReplans
  /\ task' = [task EXCEPT !.replans = @ + 1]
  /\ me' = [Idle EXCEPT !.pc = "request", !.op = "replan"]
  /\ UNCHANGED <<revs, cp>> /\ Acts

\* What runs no turn may be paused, and all that is not over be cancelled, from another
\* terminal also while a planner thinks. If a window is open, the pause writes its checkpoint.
PauseTask ==
  /\ At("idle") \/ At("planning")
  /\ Asked /\ task.status = "running"
  /\ task' = [task EXCEPT !.status = "paused"] /\ cp' \in {cp, None}
  /\ UNCHANGED <<revs, me>> /\ Acts

CancelTask ==
  /\ At("idle") \/ At("planning")
  /\ Asked /\ CanMoveTask("cancelled")
  /\ task' = [task EXCEPT !.status = "cancelled", !.stop = "cancelled", !.pending = None]
  /\ UNCHANGED <<revs, cp, me>> /\ Acts

-----------------------------------------------------------------------------
Die ==
  /\ ~At("idle") /\ deaths < MaxDeaths
  /\ deaths' = deaths + 1 /\ me' = Idle
  /\ revs' = [r \in DOMAIN revs |->
                IF revs[r].owner = Me THEN [revs[r] EXCEPT !.owner = Gone] ELSE revs[r]]
  /\ UNCHANGED <<task, cp, commands>> /\ Acts

\* Ctrl-C outside of a turn of run_turn's, or, while the turn of a node runs in its thread, at
\* its end: no handler of the program takes it, but the executor returns its lease.
Unwind ==
  /\ ~At("idle") /\ deaths < MaxDeaths
  /\ deaths' = deaths + 1 /\ me' = Idle
  /\ revs' = [r \in DOMAIN revs |->
                IF revs[r].owner = Me THEN Unleased(revs[r]) ELSE revs[r]]
  /\ UNCHANGED <<task, cp, commands>> /\ Acts

\* The lease of a dead process comes to its end.
Lapse(r) ==
  /\ revs[r].live /\ revs[r].owner = Gone
  /\ revs' = [revs EXCEPT ![r].live = FALSE]
  /\ UNCHANGED <<task, cp, me>> /\ Acts /\ Counted

Planning ==
  \/ Request \/ PlanMade \/ PlanRefused \/ PlanRaised \/ PauseForPlanner \/ Unpause
  \/ \E g \in {Plan} : me.op = "initial" /\ Store(g)
  \/ \E g \in Replans : me.op = "replan" /\ (Store(g) \/ StoreRefused(g))

Executing ==
  Execute \/ LeaseTaken \/ StopAt \/ StartNode \/ Close \/ Write \/ Skip \/ Release

Turn ==
  \/ TurnIdle \/ TurnBegins \/ Happen \/ ApprovalRefused
  \/ \E e \in Effects : Prepare(e)
  \/ \E s \in {"succeeded", "failed", "uncertain"} : Complete(s)
  \/ \E out \in {"completed", "paused", "failed"} : TurnEnds(out)
  \/ TurnWindow \/ TurnPaused \/ TurnCancelled \/ TurnLost
  \/ \E kind \in {"tool_approval", "ask_user"} : TurnAsks(kind)

Reconciling ==
  AutoReplan \/ Finalize \/ Abandon \/ Fail \/ PauseForNode \/ CompleteTask \/ Leave

Commands ==
  \/ Start \/ Continue \/ ContinuePlanner \/ ResumePaused \/ AcceptInterrupted
  \/ Answer \/ ReplanCommand \/ PauseTask \/ CancelTask
  \/ \E a \in rows : Resolve(a)
  \/ \E looked \in BOOLEAN : RewindInterrupted(looked)
  \/ \E approved \in BOOLEAN : Decide(approved)

Next ==
  \/ Commands \/ Planning \/ Executing \/ Turn \/ Reconciling \/ Settle \/ Pay \/ Requeue
  \/ Die \/ Unwind \/ \E r \in DOMAIN revs : Lapse(r)

Spec == Init /\ [][Next]_vars

-----------------------------------------------------------------------------
(* What must hold. *)

\* The tables and the process are of their types (TaskState, PlanRevision, ToolAction).
TypeOK ==
  /\ task.status \in Statuses \cup {"absent"}
  /\ task.pending \in {None} \cup Questions
  /\ task.conts \in 0 .. MaxContinuations /\ task.replans \in 0 .. MaxReplans
  /\ cp \in {None} \cup Checkpoints
  /\ \A r \in DOMAIN revs :
       /\ revs[r].status \in RevisionStatus
       /\ revs[r].graph.status \in [NodesOf(revs[r].graph) -> NodeStatus]
       /\ revs[r].owner \in {None, Gone, Me}
  /\ rows \subseteq [node : DOMAIN EffectsOf \cup {None}, of : Effects,
                     status : {"executing", "succeeded", "failed", "uncertain"}]
  /\ world \subseteq Effects
  /\ Cardinality(ActiveRevs) <= 1

AtRest == At("idle") /\ deaths = 0

\* A replan that is asked for while the task is paused or waits, and that leaves nothing to
\* do, ends the plan of a task that cannot be completed (see README.md).
LeftBehind ==
  /\ task.status \in {"paused", "waiting_user"}
  /\ revs # <<>> /\ revs[Len(revs)].status = "completed"

\* The first planner has failed while its user had paused the task: a resume then runs the
\* task without a plan (see README.md).
Unplanned == task.status = "paused" /\ task.stop = None /\ revs = <<>>

\* A process that has answered its user leaves a task and a plan that agree: the plan of a
\* task that is completed is completed, and a plan that has been given up has a task that
\* is over (_execute_and_reconcile, _finalize_failed_execution, _continue_planner).
SettledTogether ==
  AtRest /\ revs # <<>> =>
    /\ task.status = "completed" => revs[Len(revs)].status = "completed"
    /\ ~HasActive => TaskOver \/ LeftBehind
    /\ task.status = "failed" => ~HasActive

\* What is left to do is known: a task that is not over waits for its user, can be resumed,
\* or its planner can. What the service does not find its way out of is only that a node
\* and the question it waits for have come apart (see README.md).
NeverStuck ==
  AtRest /\ task.status \in Active /\ ~PlannerRecoverable =>
    /\ HasActive \/ LeftBehind \/ Unplanned
    /\ HasActive /\ Decision = "inconsistent" =>
         /\ With(Row.graph, "waiting_approval") # {}
         /\ task.pending # None => task.pending.node \notin With(Row.graph, "waiting_approval")

\* An interrupted node is run again only if none of its effects is there, and completed
\* without a run only if all those are that it began (resume, rewind_running_node_to_pending).
ResumedAsFound ==
  [][\A n \in DOMAIN EffectsOf :
       /\ At("idle") /\ HasActive /\ n \in With(Row.graph, "running")
       /\ n \notin With(revs'[Cur].graph, "running")
       => IF n \in With(revs'[Cur].graph, "pending")
          THEN EffectsOf[n] \cap world = {}
          ELSE {a.of : a \in Scoped(n)} \subseteq world]_vars

\* Every revision but the first has been paid for (consume_replan).
ReplansPaid == Len(revs) <= task.replans + 1

\* What it makes of revisions and nodes is what a plan promises, whoever executes it.
Promised == INSTANCE PlanMachine WITH
  MayGiveUp <- TRUE,
  plan <- [r \in DOMAIN revs |-> [status |-> revs[r].status, deps |-> revs[r].graph.deps,
                                  nodes |-> revs[r].graph.status]]

\* However the writes of commands, turns and recoveries follow each other, nodes start in the
\* order of their dependencies, ends are final, and a replan takes over what is completed
\* (PlanTaskService as a user of PlanStore).
Implements == Promised!Spec

-----------------------------------------------------------------------------
(* What the documents say, and the code does not keep to. *)

\* Once every effect of an interrupted node is known to be there, or to be absent, the task
\* can be resumed by command (docs/PLAN_AND_EXECUTE.md, the use of /resolve-action); the
\* command is continue_task.
ResolvedGoesOn ==
  At("idle") /\ HasActive /\ Decision = "interrupted" /\ Assess(Interrupted) = "complete"
    => PlannerRecoverable \/ Continuable

\* A node none of whose effects is there may be retried (docs/PLAN_AND_EXECUTE.md, recovery).
AbsentMayRetry ==
  At("idle") /\ HasActive /\ Decision = "interrupted" /\ Assess(Interrupted) = "retry"
    => MayRewind(Interrupted, FALSE)

\* A node whose turn has used up its window is paused with its task (docs/PLAN_AND_EXECUTE.md,
\* the fifth point of the checklist).
WindowPausesNode ==
  AtRest /\ HasActive /\ task.status = "paused" /\ task.stop = "window"
    => With(Row.graph, "paused") # {}
=============================================================================
