------------------------------- MODULE Planner -------------------------------
(***************************************************************************)
(* One planner phase of a task: PlanPlanner asks the model for a graph,    *)
(* repeats requests that failed, has a graph that is not valid repaired,   *)
(* and tells PlanTaskService of every attempt, which writes a checkpoint   *)
(* of it. The run and its checkpoints are all that a later process has to  *)
(* go by, so each write is a step, and the process may die before any; a   *)
(* pause of the task, by another process, writes over both.                *)
(*                                                                         *)
(* Of a graph the model writes only the dependencies are kept; whatever    *)
(* else validate_plan_graph rejects is the reply "malformed".              *)
(***************************************************************************)
EXTENDS PlanGraph

CONSTANTS
  None,
  Graphs,             \* dependencies the model may write
  MaxRequestRetries,  \* max_request_retries
  MaxFormatRepairs    \* max_format_repairs

ASSUME BoundsAssumption == MaxRequestRetries \in Nat /\ MaxFormatRepairs \in Nat

ASSUME NoneAssumption == None \notin {"completed", "failed"}

\* The nodes of a graph are numbered in the order of its array.
ASSUME GraphsAssumption == \A g \in Graphs : DOMAIN g \subseteq Nat /\ IsFiniteSet(DOMAIN g)

VARIABLES
  pc,        \* what the phase does next, or how it has ended
  reply,     \* what the model has replied
  attempts, retries, repairs,
  last,      \* last_request_status
  run,       \* execution_runs: the status of the phase's run
  checkpoint,\* the run's last checkpoint: its request_status and attempt
  pause      \* a pause by another process: "none", "found" the run open, "closed" it, "saved"

vars == <<pc, reply, attempts, retries, repairs, last, run, checkpoint, pause>>

max_attempts == MaxRequestRetries + 1 + MaxFormatRepairs

\* A reply that is not a graph.
Bare(kind) == [kind |-> kind, deps |-> <<>>]

Init ==
  /\ pc = "open" /\ reply = Bare("none")
  /\ attempts = 0 /\ retries = 0 /\ repairs = 0
  /\ last = "requesting" /\ run = None
  /\ checkpoint = [request |-> None, attempt |-> 0] /\ pause = "none"

Counted == UNCHANGED <<attempts, retries, repairs>>

Stored == UNCHANGED <<run, checkpoint>>

\* The states of the phase that are left only by another phase.
Ended == {"planned", "planning_error", "error", "cut_short", "dead"}

-----------------------------------------------------------------------------
(* What the model replies: a graph, something that is none, or an error. *)

IsGraph(r) == r.kind = "graph"

\* Replies whose error is of type invalid_plan, which the model is asked to repair.
Repairable(r) == r.kind = "malformed" \/ (IsGraph(r) /\ ~ValidDeps(r.deps))

Replies ==
  {[kind |-> "graph", deps |-> g] : g \in Graphs}
  \cup {Bare(k) : k \in {"malformed", "tool_calls", "empty", "request_error", "other_error"}}

OpenRun ==
  /\ pc = "open"
  /\ run' = "running" /\ pc' = "request"
  /\ UNCHANGED <<reply, last, checkpoint>> /\ Counted

Persist(status) == checkpoint' = [request |-> status, attempt |-> attempts]

\* The first checkpoint, written outside of the try.
Request ==
  /\ pc = "request"
  /\ Persist("requesting") /\ pc' = "generate"
  /\ UNCHANGED <<reply, last, run>> /\ Counted

\* The model is asked once: a reply, or an exception of the client.
Generate(r) ==
  /\ pc = "generate"
  /\ attempts' = attempts + 1 /\ reply' = r /\ pc' = "replied"
  /\ UNCHANGED <<retries, repairs, last>> /\ Stored

Raise ==
  /\ pc = "generate"
  /\ attempts' = attempts + 1 /\ reply' = Bare("raised") /\ pc' = "failing"
  /\ UNCHANGED <<retries, repairs, last>> /\ Stored

\* on_attempt takes note of the status before it writes the checkpoint.
Notify(status) == last' = status /\ pc' = "notify" /\ Stored /\ UNCHANGED reply

Retry ==
  /\ pc = "replied" /\ reply.kind = "request_error" /\ retries < MaxRequestRetries
  /\ retries' = retries + 1 /\ UNCHANGED <<attempts, repairs>>
  /\ Notify("retrying")

CanRepair == Repairable(reply) /\ repairs < MaxFormatRepairs

\* Faulty: a repair starts with new request retries.
RepairAfresh ==
  /\ pc = "replied" /\ CanRepair
  /\ repairs' = repairs + 1 /\ retries' = 0 /\ UNCHANGED attempts
  /\ Notify("repairing")

Repair ==
  /\ pc = "replied" /\ CanRepair
  /\ repairs' = repairs + 1 /\ UNCHANGED <<attempts, retries>>
  /\ Notify("repairing")

Accepts == IsGraph(reply) /\ ValidDeps(reply.deps)

\* No retry and no repair is left, or none is made of such a reply.
Refuse ==
  /\ pc = "replied" /\ ~Accepts /\ ~CanRepair
  /\ ~(reply.kind = "request_error" /\ retries < MaxRequestRetries)
  /\ Notify("failed") /\ Counted

Accept ==
  /\ pc = "replied" /\ Accepts
  /\ last' = "succeeded" /\ pc' = "close"
  /\ UNCHANGED reply /\ Stored /\ Counted

\* The checkpoint of an attempt; after that of a failure the error is raised.
Checkpoint ==
  /\ pc = "notify"
  /\ Persist(last) /\ pc' = (IF last = "failed" THEN "close_failed" ELSE "generate")
  /\ UNCHANGED <<reply, last, run>> /\ Counted

\* Faulty: the last failure is taken to be written already whatever it was.
CheckpointFailureNever ==
  pc = "failing" /\ pc' = "close_failed" /\ UNCHANGED <<reply, last, run, checkpoint>> /\ Counted

\* An exception that came without a notification of its own.
CheckpointFailure ==
  /\ pc = "failing"
  /\ IF last # "failed" THEN checkpoint' = [request |-> "failed", attempt |-> 1]
     ELSE UNCHANGED checkpoint
  /\ pc' = "close_failed"
  /\ UNCHANGED <<reply, last, run>> /\ Counted

\* The checkpoint of an attempt cannot be written: its exception ends the phase.
LoseCheckpoint ==
  /\ pc = "notify" /\ pc' = "failing" /\ reply' = Bare("raised")
  /\ UNCHANGED last /\ Stored /\ Counted

CloseFailed ==
  /\ pc = "close_failed"
  /\ run' = "failed" /\ pc' = (IF reply.kind = "raised" THEN "error" ELSE "planning_error")
  /\ UNCHANGED <<reply, last, checkpoint>> /\ Counted

Close ==
  /\ pc = "close"
  /\ run' = "completed" /\ pc' = "completed"
  /\ UNCHANGED <<reply, last, checkpoint>> /\ Counted

LastCheckpoint ==
  /\ pc = "completed"
  /\ Persist("completed") /\ pc' = "planned"
  /\ UNCHANGED <<reply, last, run>> /\ Counted

\* Ctrl-C, which no handler here takes, or a write that fails outside of the try or in its
\* handler: the exception leaves the phase where it is, in a process that lives on.
CutShort ==
  /\ pc \notin Ended /\ pc' = "cut_short"
  /\ UNCHANGED <<reply, last>> /\ Stored /\ Counted

Die ==
  /\ pc \notin Ended /\ pc' = "dead"
  /\ UNCHANGED <<reply, last>> /\ Stored /\ Counted

\* _persist_external_pause_checkpoint: it looks for an open window, closes it by its id, and
\* writes a checkpoint, whatever the phase has written in between.
PauseFinds ==
  /\ pause = "none" /\ run = "running" /\ pause' = "found"
  /\ UNCHANGED <<pc, reply, last>> /\ Stored /\ Counted

PauseCloses ==
  /\ pause = "found" /\ pause' = "closed"
  /\ run' = "paused_by_user" /\ UNCHANGED <<pc, reply, last, checkpoint>> /\ Counted

PauseSaves ==
  /\ pause = "closed" /\ pause' = "saved"
  /\ checkpoint' = [request |-> "paused_by_user", attempt |-> 0]
  /\ UNCHANGED <<pc, reply, last, run>> /\ Counted

Pause == PauseFinds \/ PauseCloses \/ PauseSaves

Phase ==
  \/ OpenRun \/ Request \/ Raise \/ Retry \/ Repair \/ Refuse \/ Accept \/ Checkpoint
  \/ CheckpointFailure \/ LoseCheckpoint \/ CloseFailed \/ Close \/ LastCheckpoint
  \/ CutShort
  \/ \E r \in Replies : Generate(r)

Next == ((Phase \/ Die) /\ UNCHANGED pause) \/ Pause

Spec == Init /\ [][Next]_vars

-----------------------------------------------------------------------------
(* What must hold. *)

\* However failed requests and faulty graphs alternate, the model is called at most
\* max_attempts times in a phase, and no checkpoint speaks of more (max_attempts).
CallsBounded ==
  /\ attempts <= max_attempts
  /\ checkpoint.attempt <= attempts

\* The nodes can be done one after the other, each after what it depends on.
Runnable(deps) ==
  \E rank \in [DOMAIN deps -> 1 .. Cardinality(DOMAIN deps)] :
    \A n \in DOMAIN deps : \A d \in deps[n] : d \in DOMAIN deps /\ rank[d] < rank[n]

InOrder(deps, order) ==
  /\ Len(order) = Cardinality(DOMAIN deps)
  /\ \A n \in DOMAIN deps : \E i \in DOMAIN order :
       order[i] = n /\ \A d \in deps[n] : \E j \in 1 .. i - 1 : order[j] = d

AsGraph(deps) == [deps |-> deps, status |-> [n \in DOMAIN deps |-> "pending"]]

\* A graph is accepted exactly if its nodes can be done in some order, which is then the
\* one topological_order gives (_cycle_errors, topological_order).
AcceptsWhatCanRun ==
  pc \in {"replied", "close"} /\ IsGraph(reply) =>
    /\ Accepts <=> Runnable(reply.deps)
    /\ Accepts => InOrder(reply.deps, TopologicalOrder(AsGraph(reply.deps)))

\* What the phase has said last, or a pause has written over it.
Says(status) == checkpoint.request \in {status, "paused_by_user"}

RunSays(status) == run \in {status, "paused_by_user"}

\* Wherever a failing write, Ctrl-C or a death cuts a phase short, what its run and its last
\* checkpoint say by then is true: continue_task finds no failure of a phase that had its
\* graph, no plan where there was none, and no checkpoint of a plan ahead of its run. A phase
\* that comes to its own end has said so in both, unless the user's pause was written over
\* it; else only the checkpoint of the failure that ends it may be missing, if it could not
\* be written when the attempt failed.
EndRecorded ==
  /\ run = "completed" => Accepts
  /\ run = "failed" \/ checkpoint.request = "failed" => ~Accepts
  /\ checkpoint.request = "completed" => RunSays("completed")
  /\ pc = "planned" => Says("completed")
  /\ pc = "planning_error" => RunSays("failed") /\ Says("failed")
  /\ pc = "error" => RunSays("failed") /\ (Says("failed") \/ last = "failed")
=============================================================================
