# A TLA+ development of the agent runtime

This directory specifies the core of `agent_app` (`src/src/agent_app`; paths
below are relative to it unless they start with `docs/`, `specs/`, `tests/` or
`README.md`): the durable task, the tool actions, the turns and commands that
drive them, the plans that split a task into nodes, and the shell that runs
their commands. The modules are model-checked with TLC, and nearly all of their
safety properties are also proved with TLAPS, for every value of the constants.

The program is a command-line agent. Nothing in it runs as a server: a REPL,
one-shot commands (`--pause-task`, `--approve-task` and so on) and subagents are
ordinary processes that share one SQLite file. All that is hard about it
follows from there: every SQL statement outside a transaction of its own is a
point where another process may come in, every process may end between any two
statements, and whoever comes later has nothing but the rows to go by.

## Inventory

| Component | State | Operations | With whom | Hard behaviour | What makes it correct |
|---|---|---|---|---|---|
| Task runtime and store (`runtime/task_runtime.py`, `state/session_service.py`, `state/db.py`) | `tasks`, `task_events`, `task_handoffs`, skill activations | the methods of `TaskRuntime`, `create_task`, `apply_task_event`, `handoff_task`, skill events | called by everything below | read, decide and write are separate statements; two creators or two handoffs at once; resent events; a death in between | one legal move per event; the log explains the row; no lost update; one open task in a session; limits hold; stale decisions refused |
| Tool actions (`orchestrator/loop.py`, `state/session_service.py`, `tools/`) | `tool_actions`, `tool_runs`, the files edits touch | prepare, mark, run, complete, retry, recover, resolve | the loop, a user who approves, an operator who resolves, the workspace | death at every step; a recovery that meets a live process; approval long after the look | no effect repeated blindly; what is recorded happened; uncertainty blocks; a resolution stands |
| Agent loop and task control (`orchestrator/loop.py`, `cli.py`) | the loop's fields of one process; the task row | `handle_event` (message, pause, resume, cancel, expire, approve, reject), `run_turn` | runtime, windows, actions, model, user | a second process pauses, resumes or approves while a turn is under way; about twenty exits and an exception path | every turn ends; a pause is not undone by a turn; a running task has a driver; continuations are paid for |
| Execution runs and checkpoints (same files) | `execution_runs`, `checkpoints` | open, count rounds, close, external pause | the loop, plan service | `update_execution_run` writes back a status it read before | every window is closed, its last checkpoint says how |
| Plan graph (`plan/graph.py`) | none (pure) | validate, topological order, ready and blocked nodes, normal forms of keys, conflicts | planner, executor | cycles, claims of overlapping paths in several spellings | accepted graphs can be done in an order; nodes that run together do not share a file of the workspace |
| Plan revisions, nodes and leases (`plan/store.py`, `plan/executor.py`, `plan/agent_runner.py`) | `plan_revisions`, `plan_nodes`, leases | create, replan, node moves, acquire, renew, release, rewind, close | loop, plan service | a node that outlasts its lease; two owners; a resume or replan under a running executor | one executor at a time; results only of one's own run; what is completed with evidence stays; order of dependencies |
| Plan service and recovery (`plan/service.py`, `plan/recovery.py`) | none of its own | start, continue, resume, approve, reject, answer, resolve, replan | all of the above | a death between any two of its writes over five tables | task and plan settle together; there is a way on; nothing done is done again; replans are paid for |
| Planner (`plan/planner.py`) | attempt counters, checkpoint of its phase | request, retry, repair | model, plan service | retries of two kinds, exceptions and failing writes anywhere, a pause from outside | bounded calls; exactly the graphs that can be done; what a phase leaves on record is true |
| Shell runtime (`runtime/shell_runtime.py`) | a process, its descendants, two pipes, two threads | `run` | tools, user | pipes that fill or stay open, a time limit, Ctrl-C, threads that fail, a `taskkill` that does | a command comes to an end; what is reported is so |
| Subagents, skills, MCP client, sessions and context, CLI, tools, providers, observability | see `PROJECT.json` | | | | not modelled, with the reasons below |

The hazards behind these properties, each with its line, are the `hazards` of
`PROJECT.json`; every hazard names the properties that cover it, or says why
none does.

## Modules

```
TaskStatus ── TaskStore ──┬── TaskMachine           what the store promises
    │  │                  └── TaskLifecycle         the statements of several processes
    │  │                         ├── MCTaskLifecycle
    │  │                         └── TaskLifecycle_proofs
    │  └── TaskControl                              commands and turns of one task
    │         ├── MCTaskControl
    │         └── TaskControl_proofs
    └────────────────────────────┐
PlanGraph ──┬── PlanStore ──┬── PlanService ─────┬── PlanMachine   what a plan promises
            │               │      ├── MCPlanService
            │               │      └── PlanService_proofs
            │               └── PlanExecution ───┘   executors of one plan
            │                      ├── MCPlanExecution
            │                      └── PlanExecution_proofs
            └── Planner                             one planner phase
                   ├── MCPlanner
                   └── Planner_proofs
ToolActions ──┬── MCToolActions                     actions of one session
              └── ToolActions_proofs
ShellRuntime ──── ShellRuntime_proofs               one command
```

`TableFacts` has the lemmas about rows and sets of rows that the proofs about
plans share.

### TaskStatus, TaskStore, TaskMachine, TaskLifecycle

`TaskStatus` has the statuses and `ALLOWED_TRANSITIONS`. `TaskStore` has a task
row and what one `apply_task_event` makes of it. `TaskLifecycle` runs any calls
of `TaskRuntime` in several processes:

| Code | Model |
|---|---|
| the first `require_task` of a method, and what it decides | `CallTransition`, `CallStart`, `CallDecide`, `CallFail`, `CallUpdate` (with one action per method above them) |
| `transition`'s own read and check | `ReadTask` |
| `apply_task_event`: the three SELECTs | `LoadRow` |
| `apply_task_event`: the transaction | `Commit` |
| `create_task` | `CheckSession`, `InsertTask` |
| `handoff_task` | `ReadForHandOff`, `HandOff` |
| skill events | `ReadForSkill`, `AppendSkillEvent` |
| death of a process | `Crash` |

A call's reads are kept in `local`; a commit compares versions and the unique
constraints of the tables as the SQL does. `TaskMachine` is the abstract
specification: statuses, sessions and handoffs only, and every change one step.
`Refines` says that `TaskLifecycle` implements it with the rows as refinement
mapping.

Of the columns, those that hold text (plan, working memory, observation,
reflection) are left out: a change of them is a step that moves the version.
Model calls, tool calls, tokens, seconds and repairs share one counter, because
their writers treat them alike.

### ToolActions

The rows that record, before a tool runs, that it is about to. `Prepare`,
`Mark`, `RunTool` / `CheckFile` and `ReplaceFile`, `CompleteRead`,
`CompleteWrite` and `Observe` are the statements of `_execute_tool_call`;
`List`, `Recover` and `EndRecovery` are `_recover_pending_tool_actions`;
`Ask` and `Approve` the approval through the store; `ResolveRead` and
`ResolveWrite` the operator; `EditFile` another program. Four kinds of tools
stand for all: `read`, `edit` (the effect can be seen in the file), `once` (it
cannot, and must not be repeated) and `again` (it may be). `Leave` ends a turn
at any point and stands for a death, Ctrl-C, a lost task and a spent budget
alike.

An action's key is made of session, agent, task, call id and attempt
(`session_service.py:1236`). Nothing in the code keeps two processes from coming to
one call: a provider may repeat an id, and the id of the search before the first
model call is that of its task (`loop.py:405`). `Begin` and `Ask` therefore take any
call at any time. Two processes that are both past `prepare_tool_action` find one
`prepared` row, mark it, of which the second takes no notice, and both run it;
`NoBlindRepeat` says what is left, that nobody goes on to run an action that has been
run. `ApprovedAsShown` is about the file at the last look before it is replaced, and
compares it with what the user was shown, which an approval has carried through the
store. A shell command that is approved through the store is never run: it is looked
at again with `inspect`, which `ShellTool` does not have (`loop.py:1451`), and the
approval ends in `approve_revalidation_failed`. `Approve` has this path, and that of
an edit whose file has changed.

### TaskControl

One plain task, its windows, and processes that are idle, in a command or at a
place in `run_turn`. A call of `TaskRuntime` is one step here. That is justified
by `TaskLifecycle`: a commit happens on the version the call has read, or not at
all, so a call behaves as if it had happened at its commit; the other outcome,
`TaskVersionConflict`, may come of any call while another process is at work
(`Contended`). What is not versioned keeps its statements apart: the read and
write of `update_execution_run` (`CountRead`, `CountWrite`), the look for an open
window and its closing, `resume` and `consume_continuation` (`Resume`,
`Charge`), the four parts of `_finalize_turn` (`AddTime`, `Settle`, `Close`,
`LastCheckpoint`).

The model's answers, a tool's result, an uncertain action of the session and a
trace that cannot be written are free choices. The web search that may come
before the first model call has the outcomes of `Model` (it raises, or ends the
turn with an error, or the loop goes on). One tool call stands for the calls of
a reply: the loop over them passes the same `After`. Ctrl-C is taken anywhere in a
turn, its last two writes included (`Interrupt`): `run_turn` then cancels the task,
and where the task has ended by then `cancel` raises, out of `run_turn`, and leaves
the window running or without its last checkpoint. While an exception or another
Ctrl-C is being handled it is caught nowhere and ends the process (`Die`). One thing
is coarser than the code: `fail` of a waiting or paused task is one step, which is
two in `TaskLifecycle`.

### PlanGraph

The pure part: a graph is a record of functions over its nodes (kind,
dependencies, claims, status), and nodes are numbers in the order of the array.
`ValidDeps` is what `validate_plan_graph` asks of dependencies, with the
depth-first search of `_cycle_errors` as `FindsCycle` (`visit` as `Visit`, what a
loop of visits leaves as the recursive function `Visits`); `TopologicalOrder` is
Kahn's algorithm, a step of its loop `Take`; `Ready`, `Blocked` and `IsBatch` are what the executor takes
from a graph; `NormalizedKey` and `ClaimsConflict` are `normalized_key` and
`resources_conflict`, with a path as a sequence of parts and a part as a name
and its case. Two reference definitions stand against them: `Runnable` and
`InOrder` (`Planner`) for validation and order, `Place` and `Meet`
(`PlanExecution`) for the file a claim is about.

### PlanStore, PlanExecution, PlanMachine

`PlanStore` has a row of `plan_revisions` and what each statement makes of it:
the condition of its UPDATE and the row that is left. `PlanExecution` runs them
in several processes:

| Code | Model |
|---|---|
| `create_revision`, `create_replan` | `Create`, `Replan` |
| the read before a lease, a recovery or a command | `Look`, `Reread` |
| `acquire_execution_lease`, the heartbeat at the head of the loop, `release_execution_lease` | `Acquire`, `StopAt` / `StartBatch` / `GiveUpBlocked` / `Conclude` / `LoseLease`, `Release` |
| `PlanExecutor.execute`: mark a batch, run it, record it | `Mark`, `Run`, `Beat`, `Write` |
| `_skip_dependents`, `update_revision_status` | `Skip`, `Close`, `FailRevision` |
| `resume_waiting_node`, `resume_paused_node` | `Unpark` |
| `PlanTaskService.resume`: rewind, accept, requeue | `Rewind`, `Accept`, `Requeue` |
| the node of an approval or an answer | `Answer`, `Settle` |
| `expires_at` passes; a process dies | `Lapse`, `Crash` |

A SELECT and the UPDATE after it are one step where the condition of the UPDATE
covers all that was read, and two where it does not: a heartbeat before a result
asks for the lease version just read (`Beat`), a settled node for the version
read after the turn (`Settle`). `PlanMachine` is the abstract specification, of
`PlanExecution` and of `PlanService`; the refinement mappings forget leases,
versions, results, processes and the task. `PlanService` closes plans as failed for
reasons that are not in the plan (a planner that fails, a continuation that is
refused), `PlanExecution` does not; `MayGiveUp` tells them apart.

### Planner

One phase: `OpenRun` to `LastCheckpoint` are the writes of
`_run_planner_with_checkpoint`; `Generate`, `Retry`, `Repair`, `Refuse` and
`Accept` the loop of `_create_validated_plan` and `_generate_with_retry`;
`Checkpoint` the callback between two attempts. Any write may fail: in the `try` its
exception is handled like one of the model (`LoseCheckpoint`), outside of it
(`plan/service.py:752`, `:809`, `:814`) and in its handler (`:791`, `:802`) it leaves
the phase where it is, as Ctrl-C does, which `except Exception` does not take
(`CutShort`). `Die` may come before any write as well. A pause by another process
(`PauseFinds`, `PauseCloses`, `PauseSaves`) is written over the run and the checkpoint
by three statements, with the phase going on in between.

### PlanService

`PlanTaskService` by one process with a write per step, over the task, the
revisions, the planner's checkpoint, the tool actions with side effects, and the
effects that are really there (`world`). `Decision`, `Assess` and `MayRewind`
are `PlanRecoveryService`. Commands (`Start`, `Continue`, `ContinuePlanner`,
`ResumePaused`, `AcceptInterrupted`, `RewindInterrupted`, `Resolve`, `Decide`,
`Answer`, `ReplanCommand`, `PauseTask`, `CancelTask`) lead into a planner phase
(`Request` to `Unpause`), an execution (`Execute` to `Release`), a turn
(`TurnBegins` to `TurnAsks`), and what follows it (`AutoReplan`, `Finalize`,
`Abandon`, `Fail`, `PauseForNode`, `CompleteTask`, `Leave`, `Settle`).
`me.guard` is the innermost handler of exceptions. An approved action that is refused
when it is looked at again runs nothing, and the turn goes on (`ApprovalRefused`). The inner workings of the
planner, the executor and the turns are those of the modules above, and here
what they write. Two processes at a time are `PlanExecution`'s; another terminal may
pause or cancel the task while a planner thinks.

A REPL does not live on after a Ctrl-C outside of `run_turn`'s own handler: it is
caught at the prompt alone (`cli.py:1093`), so that one in the service, in a planner
or in an executor ends the program. The turn of a node runs in a thread of a pool
(`plan/executor.py:198`), which gets no Ctrl-C; the executor waits for its end and then
ends with it. Such an end differs from a death in that the executor's `finally` returns
the lease (`Unwind`); `deaths` counts both.

### ShellRuntime

`ShellRuntime.run`, once: the shell, one descendant that stands for all, two
pipes of finite capacity, their readers, and the main thread at its place in
`run`. With an output handler two threads read, and are joined for a second each
(`Join` may come before the thread is done); without one `communicate` reads,
and its end is the end of the pipes. `Terminate` is `_terminate_process_tree`:
`kill` takes the shell alone; `taskkill` takes the tree or any part of it (`KillTree`),
since nobody looks at its exit status (`shell_runtime.py:185`), and the history variable
`spared` tells when it has left something. Lines are counted, not kept.

## What the runs check

`CHECK_DEADLOCK FALSE` everywhere: clients may stop sending, the bounds end
every behaviour, and an ended task, phase or command takes no more steps.

| Run | Instance | Result |
|---|---|---|
| `TaskLifecycle` | 2 tasks, 2 sessions, 2 processes, 1 client event id, 5 events, limits of 1 | passes: log, counters, versions, sessions, decisions, refinement |
| `ToolActions` | 1 call of every kind, which both processes may come to, 2 processes, 2 operators, 1 retry | passes: nobody goes on to repeat, success is real, edits over what was shown, audit, first resolution stays |
| `ToolActionsSolo` | 2 calls, 1 process at a time, 1 operator | passes: uncertainty blocks |
| `TaskControl` | 2 processes at once (a REPL and a CLI), 2 windows, 1 round, 1 continuation, 1 death | passes: windows, types, no turn undoes a pause |
| `TaskControlSolo` | the two by turns, 3 windows, 2 rounds, 1 continuation, 1 death | passes: checkpoints, continuations, driver, every turn ends |
| `PlanExecution` | 2 processes, a plan of 3 nodes, 2 at a time, 3 replans to choose from, 2 revisions, 3 commands, 1 death | passes: one executor, leases returned, no shared files, results of one's own runs, evidence, refinement |
| `Planner` | every dependency relation of 3 nodes, one unknown name, one cycle of 4; 2 retries, 1 repair, any write failing, Ctrl-C, a death, 1 pause from outside | passes: bounded calls, exactly the graphs that can be done, records that are true |
| `PlanService` | a chain of 2 nodes, 2 effects of the first, 3 commands, 1 death or Ctrl-C, 1 replan, 1 continuation | passes: task and plan settle together, a way on, replans paid, nothing done again |
| `ShellRuntime` | pipes of 1 line, 2 lines each, any exit, `taskkill` that works, fails or is not there | passes: `run` returns, what it reports is so |
| `PlanContinue` | the chain, 3 commands, 1 death | violated: a node known to be done cannot be accepted by command |
| `PlanRetry` | the chain, 1 command, 1 death | violated: a node without effects may not be retried |
| `PlanApprovedPause` | the chain, 2 commands | violated: a window used up after an approval leaves the node waiting |

Why the bounds are enough: every race in this code is between two parties, one
that read and one that wrote, so two processes and two tasks (a source and a
child, or two creators in one session) show each pair of statements in each
order. Five events take a task through creation, start, a wait or pause, its end
and one more step, or through a handoff and back into work. A limit of 1 for
retries, rounds, replans and continuations reaches zero, the limit and the step
past it. With two processes and two operators in `ToolActions` at most three of the
four are at work at a time, and both operators only until a call has its second
attempt (`AtWorkBound`): two operators and a completion between them is the largest
race there is over one row. In `TaskControl` two processes go on by turns once one has
died in the first window, and not at all once one has died in the last
(`DeathsBound`); `TaskControlSolo` goes on from deaths in any window.
Three windows are one that ends for want of rounds, one paid for by the
only continuation, and one refused or opened by an answer.

For plans: three nodes are a pair that may run together and one behind them, so
that a batch, a wait for a dependency and a skip all happen; the pair claims one
file below the workspace in two spellings, one of which leads through another directory. Two
revisions are the one that is replaced and its successor; three commands put a
resume and a replan beside an execution, or an answer and two executions. In
`PlanService` two nodes are one that is interrupted with both, one or none of
its effects there, and one behind it; three commands are a start, one that stops
short, and one that finds what was left, with a death in the first or the second.
A cycle of any kind over three nodes, and one of four, take the search back to
an open node from every depth. A pipe that holds one line is full with the
first; the second is one that waits.

Symmetry is used where processes, sessions, calls, tasks or effects are
interchangeable and no liveness is checked; `TaskControl` tells a REPL from a
command and has a liveness property, and uses none.

Fairness: none in `TaskLifecycle`, `ToolActions` and the modules of plans, whose
properties are about safety. In `TaskControl` a process that has work to do goes
on with it (`WF_vars(Work(p))`), unless it dies: threads run, model and shell
calls have time limits, and `sqlite3` waits for locks with a time limit.
Commands, confirmations, Ctrl-C, deaths and deadlines are never assumed to
happen, so `TurnEnds` lets a turn stop only where it waits for its user. In
`ShellRuntime` the steps of `run` (which include its time limits) and those of
each reader are fair; the command, what it leaves behind, and the user are not.
`Returns` therefore names the one wait that nothing ends: a run without a
handler whose pipes a descendant keeps open, or the shell itself, if `taskkill` has
spared it.

### "mutants"

A property that no mistake in the code could break shows nothing. For each
property of a passing run, `PROJECT.json` lists a faulty variant of one mapped
definition, such as a dropped guard, a forgotten reset or a read that goes
unchecked; with the variant in place TLC finds the property violated. The
variants stand in the modules just before the definition they vary, under a
comment that begins with "Faulty".

## Findings

Three runs end in a violation and document where the code does other than its
documents say; `PROJECT.json` has the quotations.

1. `/resume` of an interrupted plan is `continue_task`, which refuses every
   interrupted plan; the `resume` that would accept or rewind the node has no
   command (`PlanContinue`).
2. A node without tool actions of its own is judged by those of the whole task,
   so that one success of an earlier node forbids its retry (`PlanRetry`).
3. When the turn after an approval or an answer uses up its window, the node
   would go from `waiting_approval` to `paused`, a move the store refuses; task
   and node stay apart, and no command goes on (`PlanApprovedPause`).

Met while modelling. But for the line of the trace under "Shell", the models have
these behaviours, and the properties above are stated so that they allow for
them:

- Tasks: `completed` may be handed off, although terminal states are documented
  to have no way out (`specs/001-agent-task-state-machine/data-model.md:45`).
  `resume` of a waiting task keeps its pending action. A death between `resume` and `consume_continuation`
  gives a window away; a stale stop reason charges one that was paused by the
  user.
- Tool actions: recovery by a second process settles as "not started" an action
  that a live process then runs, since nobody looks whether its mark took effect
  (`loop.py:1560`); for the same reason two processes that come to one key run it
  twice. A shell command approved through the store is never run (`loop.py:1451`).
  A completion that comes late overwrites an operator's
  resolution (`session_service.py:1313`).
- Turns: a pause from another process during a turn ends in `failed`: the turn's next
  write is refused, and its end fails the task (`loop.py:2068`, `loop.py:2205`). This is
  why `PauseHolds` lets a paused task fail; that a pause lasts to the user's next
  command holds only when no turn is under way. A Ctrl-C between the last two writes
  of a turn whose task has ended leaves the window without its last checkpoint, or
  open. A turn that finds an uncertain action, or loses its traces,
  leaves its window open (`loop.py:280`); a message is taken after the deadline
  (`loop.py:946`); the REPL's in-place confirmation approves whatever the task
  waits for; a shell command decided on in another process leaves a running task
  that nobody drives.
- Plans: after an approval or a rejection `run_turn` is called without the ids of
  the node (`loop.py:1100`), so what the turn does and asks is of no node: it can
  neither be resolved by command nor let a later rewind pass, and a question it
  asks is not the node's (this is the exception that `NeverStuck` makes). A death
  between the task's write and the node's has the same effect, and `/approve`
  then runs a turn that knows of no plan and may complete the task over it
  (`SettledTogether` is for processes that have not died). A pause in another terminal
  while the first planner thinks, if the planner then fails, leaves a paused task that
  has no plan and no checkpoint to go on with: `/resume` drives it as a task without a
  plan (`Unplanned`). A planner phase cut short by a failing write or Ctrl-C leaves
  its run `running`, which nothing closes (`plan/service.py:786`). A death between the
  end of a revision and that of its task, or between `consume_replan` and
  `create_replan`, is not made good; one in the planner phase leaves the
  checkpoint `requesting`, which cannot be continued. A replan asks nobody's
  lease. A cancelled task leaves its revision active. A `/replan` of a paused or
  waiting task whose new plan has nothing left to do closes the revision as
  completed, and then `complete` raises, since a task that is not running cannot
  be completed (`plan/service.py:1133`): the task stays open without an active
  plan, and no command finds one (`LeftBehind`).
- Claims: `file:.` is the whole workspace, but its normal form `.` is no prefix of
  any other path (`plan/graph.py:417`), so that it is not in conflict with `file:a`;
  the same goes for a claim that leaves the workspace and one of a file that lies
  there. The batches of `docs/PLAN_AND_EXECUTE.md:16` are to be safe in their
  resources. Nothing comes of it now, since the runner of nodes does not allow for
  more than one at a time. `NothingShared` is about the other claims, those of what
  lies below the workspace (`NamesBelow`).
- Shell: without an output handler, as in one-shot commands, the wait for the end
  of the pipes after the time limit has no limit of its own
  (`shell_runtime.py:197`), and of a shell that has ended by itself nothing is
  killed (`shell_runtime.py:182`); whether `taskkill` has killed anything is not looked
  at (`shell_runtime.py:185`). A Ctrl-C that comes while the readers are
  joined reports a command as cancelled that had ended. A late line is traced
  under the task that is active by then (`loop.py:107`).

## What is proved

Every module `M_proofs` proves theorems about the specification of `M`, for all
values of the constants that satisfy the assumptions named in `M` and the modules
it extends: any numbers of processes, tasks, plans, rounds, deaths. All of them
go the same way: an inductive invariant that says more than the property, one
lemma for each action that it is kept, and the property from it. TLC checked the
invariants on the instances of the runs before they were proved. What is said
below of each module is what its invariant says more, and what is assumed.

| Theorem | States | Only if |
|---|---|---|
| `TaskLifecycle_proofs`: `TypeCorrect`, `OneActive`, `BudgetKept`, `ReadsTrue`, `LogComplete`, `AppliedOnce`, `NoneLost` | the invariants of the run | |
| `StaleRejected`, `DecisionsMatch`, `Refinement` | two action properties, and `Refines` | |
| `ToolActions_proofs`: `TypeCorrect`, `RunOnce`, `SuccessReal`, `InstalledAsShown`, `FirstResolution`, `Audited` | all properties of `ToolActions` | |
| `NothingRunsOnDoubt`, `RunAtMostOnce` | `UncertainBlocks`; no action is run twice | there is one process |
| `TaskControl_proofs`: `TypeCorrect`, `WindowsAreClosed`, `PausesHold` | `TypeOK`, `WindowsClosed`, `PauseHolds` | |
| `TaskStaysDriven`, `CheckpointsAgree`, `WindowsAreCharged` | the safety properties of `TaskControlSolo` | processes take turns |
| `TurnsAreShort` | the bound behind `TurnEnds`, below | |
| `PlanExecution_proofs`: `OneAtATime`, `LeasesReturned` | `OneExecutor`, `LeaseReturned`, which say themselves: while no lease has lapsed | |
| `NothingIsShared` | `NothingShared`, which says itself: claims below the workspace | no planned node runs, and claims are as they are parsed (`PlainPlans`) |
| `TypeCorrect`, `ResultsAreFenced`, `EvidenceStays`, `PlanRefines` | `TypeOK`, `FencedResult`, `EvidenceKept`, `Implements` | |
| `Planner_proofs`: `CallsAreBounded`, `EndIsRecorded`, `AcceptedIsRunnable` | `CallsBounded`, `EndRecorded`, `AcceptsWhatCanRun` | |
| `PlanService_proofs`: `TypeCorrect`, `RevisionsArePaid`, `BudgetsKept`, `NodesResumedAsFound` | `TypeOK`, `ReplansPaid`, both budgets, `ResumedAsFound` | |
| `PlanImplemented` | `Implements` of `PlanService` | |
| `TaskAndPlanAgree`, `AlwaysAWayOn` | `SettledTogether`, `NeverStuck` | planned nodes are pending (`Fresh`) |
| `ShellRuntime_proofs`: `ResultsAreTrue` | `ResultIsTrue` | |
| `RunIsShort` | the bound behind `Returns`, below | |

`StaleRejected`, `RunAtMostOnce`, `BudgetsKept`, `PlanImplemented`, `TurnsAreShort` and
`RunIsShort` are proved and are in no run; TLC found no error in `Implements` on the instance of
the run `PlanService`, which takes twice its time with it, nor in the two bounds on
those of `TaskControl` and `ShellRuntime`.

**Induction.** The theorems about induction that come with the provers take an
operator for a parameter, which none of the provers can instantiate. What the
proofs need of it is in `TableFacts`, and rests on one fact, that a set of numbers
that is not empty has a least one (`LeastNumber`): a set of numbers that holds 0 and
with each number the next holds all of them (`UpTo`); a function on `0 .. n` that is
defined by its step is there and is what its step says (`Iterated`); a set that
holds whatever it holds all smaller things of, by some measure, holds everything
(`ByMeasure`); and a function that is defined by recursion on things of smaller
measure is there and is what its definition says (`Recursed`). A property is then
proved of the set of those for which it holds.

**The task store.** `TypeInv` adds `Addressed` to `TypeOK`: a call in flight
names a task, session or version where its next step needs one. None of the other
invariants is inductive by itself: a call decides on a row that is no longer
there when it writes. `SafeInv` says what each call may still rely on (`Knows`):
versions only grow (`RowsGrow`), so a row that still has the version a call has
read is the row it has read, and what the call's arguments promised about it
(`Fits`: a legal move, counters within limits) still holds. `KnowsKept` carries
this over every step of another process; each action then needs one lemma for its
own process. The refinement follows step by step: a commit is a legal move or a
stutter, an insert a creation, a handoff both of its halves.

`LogInv` is the same argument about the log. `Recalls` says what a call was
decided on, as long as the version it expects is the row's: the task was open, a
decision that names an action was made while the task waited for it (`Decided`),
and the counters it will write are those of the row and the one step that it
counts (`Counted`). Every step of the store is one of four (`StoreStep`: nothing,
an event entered, a task opened, a task passed on), for each of which the log is
shown to grow by what the row has gained. `Lineage` says that a parent has been
handed off and that a row and its first event come together, so that what a child
inherits is final when it is counted. Assumed: limits are naturals,
`None` and `Keep` are no ids and no counters.

**Tool actions.** Nothing is assumed of who comes to which call. That a row is
`executing` when its tool starts is not enough, and is not even true: another
process's recovery may have settled the row in between, or run it. `SafeInv` rests on
two facts instead. A row leaves `absent` and `prepared` for good (`Onward`), although
`complete_tool_action` overwrites rows by id. And what has run has left `prepared`
(`SafeRow`), so that every later `prepare_tool_action` turns it away: a process gets
past it only with an action that has not run yet (`RunOnce`), though another may be
past it as well by then. A file that holds the new content holds it because the
action ran, so what recovery makes of it is true. What an edit is compared with
at the last look is what was shown (`Safe`, from the look at the approval on), and
so the look says that of the file (`InstalledAsShown`). `SafeMove` says that it is
enough to look at the process that moves. `RowsWritten` and `RowWrite` give the
two action properties about rows. Assumed: operators are not processes, `None` is no
call, process, status or result.

`UncertainBlocks` fails with two processes, where one makes an action uncertain
while the other's tool runs, and so does `AtMostOnce`, where both are past
`prepare_tool_action`; their theorems have the hypothesis that there is one process.
`SureInv` says at which places nothing is uncertain, so that the next call may
begin: from the end of recovery to the tool, and before a retry, which is for results
that are not uncertain. `OnceInv` says that what the one process is about to run has
not been run (`Unrun`).

**Task control.** `TypeInv` says where a process may be, given its window, and
that a window has one process in its turn (`OneDriver`). `Manned` is why every
window is closed: one that is open has a process that will close it, or a reason
was given for leaving it; both hold however many processes are at work. So does
`PauseHolds`, which goes over the steps that any process may take while the task is
paused (`PausedStays`): each call of the runtime either refuses a paused task or is one
of those that it names. The other
three properties fail when processes overlap, as the findings say, and are proved
under `~Overlap` (processes take turns, and may die at any place). `TurnsInv` says
what the task and the window are at each place of the one process that is at work
(`TaskAs`, `WindowAs`). `PaidFor` counts: the windows that ended for want of rounds
are at most one more than the continuations used, and no more once a process has
been charged for the next. Its proof needs that there are finitely many windows and
processes. Assumed: `Procs` is finite, `None` is no value a variable has otherwise.

`TurnsAreShort` is the part of `TurnEnds` that needs no fairness, with any number of
processes at work. `StepsLeft` counts the steps a process has before it: at most
fourteen, and nine for each round its window may still have. Whatever it does next
leaves it fewer; what another does to the task or to the window leaves it no more,
since nobody takes back a round that was counted (`RoundsRise`). A turn can thus
neither go round without counting nor start over after a failure. What TLC adds is
that a process whose steps are fair has a step to take, until its user must confirm.

**Executors of a plan.** Nothing in a process that runs a node says that no other
does; the argument is about versions. A lease has a version, which every change of
owner moves, so whoever found the lease free and takes it by that version takes it
from nobody who lives (`FreeOf`), and who works on an active revision owns its
lease (`OwnsOf`). A rewind asks for no owner and takes the lease from whoever has
it. It does no harm for another reason: it asks for the version of the row at which
it found the lease free, and from then on an executor has had to move the version
to start a node (`NoRewindOf`). `Alone` is the conjunction, `Shape` the types of
what the steps use, and `ExecInv == Shape /\ (lapsed \/ Alone)`.

The other four theorems hold with leases that lapse, executors that overlap and
owners that write after they have lost a lease. `PlanInv` says of each process what
is so of the row while its version is the one the process has read, or while it
owns the lease: the nodes it is about to mark are ready, those it skips are blocked,
what it closes has come to that end (`SureOf`), and the nodes it has begun are
run by it and by nobody else (`RunsOf`). `PlanStep` says that each action, whatever it does to
processes, does to the table one of a few things (`Moving` a node, `Rewinding`,
`Closing`, `Replanning`, `Creating`); types, results, evidence and the refinement
are then shown once for each of them, and the refinement of `PlanMachine` has one
lemma for each (`MovingMaps`, ...). Assumed: plans have the form that is parsed
(`IsPlanGraph`), processes are not the others that write results, `None` is no
process and no result.

`NothingShared` is about two things. One is which nodes are at work: `SharedInv`
says that the nodes of a batch are apart (`IsBatch` saw to it at the version at
which they were chosen), and that nothing runs beside them while that version
stands, since `StopAt` halts for what runs and every mark moves the version. The
other is what the executor's test for a conflict says of files. What `normpath`
makes of a path is its parts but those that a `..` takes back (`Kept`), and is shown
to be the place that is reached by walking the path down from the workspace
(`Down`), part by part; two claims then meet only where one of their places lies on
the way to the other, and that is what `_is_path_prefix` compares. It compares
nothing of the kind for claims of the whole workspace or of what lies outside (see the
findings), which `NothingShared` leaves out (`NamesBelow`). `PlainPlans`, the hypothesis,
says that no planned node runs before it is begun, and that a claim has a scheme and,
if it is of a file, a path.

The proof of the refinement did not go through at first, and was right not to. A
late answer fails a node which has been run again and paused since: the node may
be resumed, run and paused by others while the turn of the answer is under way, and
`Settle` compares the version it reads when that turn has ended.
`PlanMachine!End` had not allowed for the move from `paused` to `failed`. The instance of the run is one command too
short for it (TLC finds it with four looks, where the states are too many for a
run); the abstract machine now says what the code does.

**Planner.** `CallsBounded` is not inductive: `CallsInv` says that every call but
the last has been paid for with a retry or a repair (`Paid`), and in which states
the last one is paid for as well. `EndInv` says what each place on the way to an end
has on record already: a run says nothing of its end before the phase writes it,
no checkpoint says `failed` of a phase that may still have its graph, and the place
before the run is closed as failed has the failure in its checkpoint, unless writing it
was what failed. A phase that is cut short, at any place, then leaves nothing that is
untrue. Assumed: the limits are naturals, and a graph that the model may
write has finitely many nodes, which are numbered (`GraphsAssumption`).

`AcceptsWhatCanRun` compares two algorithms with what they are for, and both proofs
go over ranks: numbers for the nodes such that each ranks above what it depends on
(`Ranked`). The search for cycles is a recursion that goes down by `Measure`: a node
that is opened leaves fewer to open, one that is finished fewer to do. Where nodes
can be ranked no cycle is found, since what is open ranks above what is to do
(`NoneFound`); where none is found, the order in which visits finish the nodes is a
rank (`AllFinished`). The invariant of the loop of Kahn's algorithm is that each
node's count is that of its dependencies which are not in the order yet, and that
what is ready is what has the count 0 and is not in the order (`Waits`); of ranked
nodes that are left the lowest is ready (`OneIsReady`), so that the loop comes to
order them all, each behind what it depends on (`OrderFound`).

**Plan service.** A revision is stored several steps after it was paid for, or in
another process that continues a planner phase which failed. `PaidInv` thus counts
what is on its way: a process in a replan, and a failed checkpoint of one, have a
payment without a revision (`Paid`), and who goes to pay for a continuation has
seen that one is left (`Left`).

`TypeInv` adds that only the last revision is active (`Table`), what the task is
where a process is at work (`TaskTyped`), that a process works on an active plan and
a node of its (`Placed`), and `Recording`: an effect that is there was recorded
before, of the node whose effect it is, and what is recorded as done is there.
`ResumedAsFound` follows from `Recording`, whatever died where: a rewind looks at
the actions of the node, and an effect of its without a record is not there.

`PlanImplemented` holds over deaths, and whatever status the planner has written.
`Held` says which node a process is at: a turn of a node is of one that runs, the
turn of a user's decision of one that waits, from the write that began it to the
write that ends it, with the task paused or cancelled by others in between. Each
write is then a step of `PlanMachine` by the condition under which it is made
(`MayGo`); `Row` and `Views` are the last row and the table as the machine sees
them. It is the proof that the service may leave out the look at the node's status
where it writes an end: nothing that comes between moves that node.

`SettledTogether` and `NeverStuck` speak of a program at rest in which no process
has died; with a death they are false, as the findings say. `WayInv` is their
invariant. `Nodes` says that one node at most is on its way (running, waiting,
paused), and which, by the place of the process; it holds over deaths. `Closing`
says that a task and its plan end together: at each place between the two writes,
what is still to be written. `Ways` says that what is left open can be taken up: the
lease is returned, a paused node has a paused task, a question has a waiting node,
but for the question of a turn that has lost its node.

Its hypothesis `Fresh`, that all nodes of plans as the planner returns them are
pending, is what the prompt asks for (`status=pending`, `plan/planner.py:111`), and
what `_default_pending_node_statuses` sees to where the planner gives no status
(`plan/planner.py:366`). It is not an assumption of the module, since a model may
write another status and the parser keeps it: a plan that arrives with a node `running` is one that recovery
finds interrupted though nothing was run. The proof also found `LeftBehind`, the
replan that leaves nothing to do (see the findings), which the run's instance had
not contained; it does now. `Unplanned` is the other exception: the planner that fails
while its user has the task paused. Assumed: no two nodes share an effect (two nodes that
write one file do two things), plans have the form that is parsed, `None` is no
question and no checkpoint.

**Shell.** `Inv` says how far the command may be by how far `run` is (`Progress`),
that no line is lost between command and reader (`Pipes`), what termination leaves,
unless `taskkill` has spared it (`Terminated`), and that readers have ended where they have been joined, unless one
was late (`Joined`). `RunIsShort` is to `Returns` what `TurnsAreShort` is to
`TurnEnds`: ten steps at most, since one exception is handled and the next ends
`run`. Assumed: a pipe holds a line at least.

Only model-checked: liveness (`TurnEnds`, `Returns`), since the prover has neither
fairness nor `ENABLED` (the bounds it rests on are proved), and the three violated
properties. All other properties of
the runs are theorems.

## Plan

Done: the task store, the tool actions, task control, the plan graph, revisions and
leases, the planner, the plan service and the shell runtime, each with its proofs.

Left: an abstract machine for `ToolActions`, as `TaskMachine` and `PlanMachine`
are for theirs; two processes in `PlanService`, once the number of its states allows
for them; the MCP client, should an entry point connect it.

## Not modelled, and why

- Subagents: a delegated run is a turn of a child session with its own windows;
  nothing of the parent's state is shared but the action that delegates. Review
  and repair are reached by tests only: the program gives its runner no reviewer
  (`cli.py:615`).
- Skills: drafts and the registry are files that one command writes; their
  events on the task are in `TaskLifecycle`.
- MCP client: no entry point connects it, and `approve_tool_call` denies its tools.
- Sessions, messages, summaries, context and memory: appended text, read back to
  build a prompt.
- The routing of a message to planning (`plan/routing.py`): a choice by the text
  of the message; `PlanService` starts where it has been made.
- CLI parsing and display, read-only tools, model providers, observability and
  configuration: input and output, without state that another part depends on.
