------------------------------ MODULE TaskStore ------------------------------
(***************************************************************************)
(* The task rows of the SQLite store, and what one call of                 *)
(* SessionService.apply_task_event makes of a row. TaskLifecycle           *)
(* interleaves the statements of several processes over these rows.        *)
(***************************************************************************)
EXTENDS Naturals, Sequences, FiniteSets, TaskStatus

CONSTANTS
  Tasks,             \* task ids (uuid4): a pool of ids not yet used and used
  Sessions,          \* session ids
  Pendings,          \* ids of pending actions (questions, tool approvals)
  None,              \* Python's None
  Keep,              \* the _UNSET default: leave the column as it is
  MaxReplans,        \* TaskBudget.max_replans
  MaxContinuations   \* TaskBudget.max_continuations

ASSUME BudgetAssumption == MaxReplans \in Nat /\ MaxContinuations \in Nat
ASSUME NullAssumption ==
  /\ None \notin Tasks \cup Sessions \cup Pendings
  /\ Keep # None

\* The stop reasons written to a task. "error" stands for every reason fail is
\* given, "recovery" for every reason pause_for_recovery is given.
Reasons == {"completed", "error", "cancelled", "waiting_user_expired",
            "handed_off", "max_tool_rounds_exceeded", "recovery"}

-----------------------------------------------------------------------------
\* One counter stands for the four that are spent without a check of their own
\* limit (model calls, tool calls, tokens, seconds) and for repair attempts.
Budget == [calls : Nat, replans : Nat, continuations : Nat]

Counters == {"calls", "replans", "continuations"}

\* Neither a counter nor the number of steps is None or _UNSET.
ASSUME CountsAssumption ==
  None \notin Counters \cup {"step"} /\ Keep \notin Nat /\ Keep \notin Budget

FreshBudget == [calls |-> 0, replans |-> 0, continuations |-> 0]

Row == [status   : Statuses \cup {"absent"},
        session  : Sessions \cup {None},
        version  : Nat,
        pending  : Pendings \cup {None},
        deadline : BOOLEAN,                   \* waiting_deadline is set
        stop     : Reasons \cup {None},
        step     : Nat,
        budget   : Budget]

NoRow == [status |-> "absent", session |-> None, version |-> 0, pending |-> None,
          deadline |-> FALSE, stop |-> None, step |-> 0, budget |-> FreshBudget]

\* The row create_task and handoff_task insert.
CreatedRow(s, st, b) ==
  [NoRow EXCEPT !.status = "created", !.session = s, !.version = 1,
                !.step = st, !.budget = b]

\* The keyword arguments of apply_task_event.
Args == [status   : Statuses \cup {Keep},
         pending  : Pendings \cup {None, Keep},
         deadline : BOOLEAN \cup {Keep},
         stop     : Reasons \cup {None, Keep},
         step     : Nat \cup {Keep},
         budget   : Budget \cup {Keep}]

NoArgs == [status |-> Keep, pending |-> Keep, deadline |-> Keep,
           stop |-> Keep, step |-> Keep, budget |-> Keep]

\* Faulty (see "mutants" in README.md): the sentinel is written to the column.
LeakSentinel(arg, current) == arg

Choose(arg, current) == IF arg = Keep THEN current ELSE arg

\* Faulty: a change that is no status change keeps the version.
AppliedInPlace(cur, a) ==
  [cur EXCEPT !.status   = Choose(a.status, @),
              !.version  = IF a.status = Keep THEN @ ELSE @ + 1,
              !.budget   = Choose(a.budget, @)]

\* The row apply_task_event writes, from the row it read and its arguments.
Applied(cur, a) ==
  [cur EXCEPT !.status   = Choose(a.status, @),
              !.version  = @ + 1,
              !.pending  = Choose(a.pending, @),
              !.deadline = Choose(a.deadline, @),
              !.stop     = Choose(a.stop, @),
              !.step     = Choose(a.step, @),
              !.budget   = Choose(a.budget, @)]

\* The arguments TaskRuntime.transition passes: what its caller did not set it
\* takes from its own read of the task, not from the row apply_task_event reads.
TransitionArgs(view, to, pending, deadline, stop) ==
  [NoArgs EXCEPT !.status   = to,
                 !.pending  = Choose(pending, view.pending),
                 !.deadline = Choose(deadline, view.deadline),
                 !.stop     = Choose(stop, view.stop)]

Spent(view, counter) == [view.budget EXCEPT ![counter] = @ + 1]
==============================================================================
