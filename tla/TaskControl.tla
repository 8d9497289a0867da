----------------------------- MODULE TaskControl -----------------------------
(***************************************************************************)
(* One task, the commands users send to it, and the turns that drive it.   *)
(* AgentLoop.handle_event and run_turn change the task, open a window (a   *)
(* row of execution_runs with checkpoints), loop over model and tool calls *)
(* and wind the window up. A session's REPL and CLI commands run in        *)
(* processes of their own and meet only in the store.                      *)
(*                                                                         *)
(* One call of TaskRuntime is one step; TaskLifecycle has its statements,  *)
(* and shows that a call which meets another's commit raises               *)
(* TaskVersionConflict and changes nothing. Here any call may raise it     *)
(* while another process is at work. An event carries the version its      *)
(* sender was shown: one that is stale changes nothing and is left out.    *)
(* A plain task is modelled (keep_task_open is false); what tools do is    *)
(* in ToolActions.                                                         *)
(***************************************************************************)
EXTENDS Naturals, Sequences, FiniteSets, TaskStatus

CONSTANTS
  Procs,             \* processes: REPLs and CLI commands
  Attended,          \* those with a confirmation handler (REPLs)
  MaxRounds,         \* AgentDefinition.max_tool_rounds
  MaxContinuations,  \* TaskBudget.max_continuations
  MaxWindows,        \* bound on the windows opened
  MaxDeaths,         \* bound on the processes that die
  Overlap,           \* whether commands come while another process is at work
  None

ASSUME ProcsAssumption == IsFiniteSet(Procs) /\ Attended \subseteq Procs
ASSUME LimitsAssumption ==
  /\ MaxRounds \in Nat /\ MaxContinuations \in Nat
  /\ MaxWindows \in Nat /\ MaxDeaths \in Nat /\ Overlap \in BOOLEAN

VARIABLES
  task,     \* the task's row: what its commands look at
  runs,     \* table execution_runs, each with the status of its last checkpoint
  local,    \* where each process is
  deaths    \* history: how many processes died at work

vars == <<task, runs, local, deaths>>

WindowClosed == {"completed", "failed", "paused_by_budget", "paused_by_user",
                 "interrupted", "waiting_approval"}

\* The statuses _finalize_turn takes for ended: handed_off is not among them.
Ended == Terminal \ {"handed_off"}

AskKinds == {"question", "edit", "shell"}

\* None is none of the values a field has otherwise.
ASSUME NoneAssumption ==
  None \notin Procs \cup Statuses \cup WindowClosed \cup AskKinds
             \cup {"answer", "error", "rounds", "waiting", "pause", "interrupt", "failure", "exit", "death", "other"}

NoAsk == [kind |-> None, by |-> None]

\* stop is the stop reason, "other" for all but max_tool_rounds_exceeded.
NewTask == [status |-> "created", ask |-> NoAsk, late |-> FALSE, stop |-> None, used |-> 0]

\* left says why nobody is in a window that is still open.
NewWindow == [status |-> "running", rounds |-> 0, mark |-> None, left |-> None]

\* stop is what the turn is about to end with, seen the task status its last call
\* returned, saved the window status update_execution_run has read.
Idle == [pc |-> "idle", run |-> 0, stop |-> None, seen |-> None, saved |-> None]

Entering == [Idle EXCEPT !.pc = "entering"]

Init ==
  /\ task = NewTask
  /\ runs = <<>>
  /\ local = [p \in Procs |-> Idle]
  /\ deaths = 0

-----------------------------------------------------------------------------
At(p, pc) == local[p].pc = pc

Goto(p, l) == local' = [local EXCEPT ![p] = l]

Step(p, pc) == Goto(p, [local[p] EXCEPT !.pc = pc])

\* A call of p may find the version changed under it.
Contended(p) == \E q \in Procs \ {p} : ~At(q, "idle")

Permits(t, to) == <<t.status, to>> \in AllowedMoves

Mutable(t) == t.status \notin Terminal

\* Where an exception of TaskRuntime leaves p: run_turn fails the task and closes the
\* window, handle_event passes it on to its caller.
Thrown(p) == IF local[p].run = 0 THEN Idle ELSE [local[p] EXCEPT !.pc = "failing"]

\* p calls TaskRuntime, which makes the task new and lets p go on as l, or raises.
Call(p, allowed, new, l) ==
  \/ allowed /\ task' = new /\ Goto(p, l)
  \/ (~allowed \/ Contended(p)) /\ Goto(p, Thrown(p)) /\ UNCHANGED task

\* fail of a waiting or paused task is two events, which TaskLifecycle has.
Failed(t) ==
  IF t.status \in Terminal THEN t
  ELSE [t EXCEPT !.status = "failed", !.stop = "other", !.late = FALSE,
                 !.ask = IF t.status = "running" THEN @ ELSE NoAsk]

\* The pending action is settled and the task goes on.
Released(t) == [t EXCEPT !.status = "running", !.ask = NoAsk, !.late = FALSE]

Closed(t, st) == [t EXCEPT !.status = st, !.stop = "other"]

Window(p) == runs[local[p].run]

SetWindow(p, w) == runs' = [runs EXCEPT ![local[p].run] = w]

-----------------------------------------------------------------------------
(* The commands, sent by a process that is doing nothing else. *)

\* Room for the window of one more turn.
Room == Len(runs) + Cardinality({p \in Procs : ~At(p, "idle") /\ local[p].run = 0})
          < MaxWindows

Command(p, new, l) ==
  /\ At(p, "idle") /\ (Contended(p) => Overlap)
  /\ task' = new /\ Goto(p, l)
  /\ UNCHANGED <<runs, deaths>>

Due == task.status = "waiting_user" /\ task.late

\* The first message of a task that create_task or a handoff has made.
Start(p) ==
  /\ task.status = "created" /\ Room
  /\ Command(p, [task EXCEPT !.status = "running"], Entering)

\* Faulty (see "mutants" in README.md): a message resumes a paused task as well.
TakesAny == {"running", "waiting_user", "paused"}

TakesMessage == {"running", "waiting_user"}

\* A message answers what the task waits for, whatever it is (run_turn, the other
\* way in, takes it for a question only), or goes into a turn of its own.
Message(p) ==
  /\ task.status \in TakesMessage /\ Room
  /\ Command(p, IF task.status = "running" THEN task ELSE Released(task), Entering)

\* Every other event first lets a task expire that has waited too long.
ExpireDue(p) == Due /\ Command(p, Closed(task, "expired"), Idle)

Expire(p) ==
  /\ ~Due /\ Permits(task, "expired")
  /\ Command(p, Closed(task, "expired"), Idle)

Pause(p) ==
  /\ ~Due /\ Permits(task, "paused")
  /\ Command(p, [task EXCEPT !.status = "paused"], [Idle EXCEPT !.pc = "finding"])

\* Faulty: the reason is looked at once the task is running again.
NeverBudgetPaused(t) == FALSE

BudgetPaused(t) == t.status = "paused" /\ t.stop = "rounds"

Resume(p) ==
  /\ ~Due /\ Permits(task, "running") /\ Room
  /\ IF BudgetPaused(task)
     THEN IF task.used >= MaxContinuations
          THEN Command(p, Failed(task), Idle)
          ELSE Command(p, [task EXCEPT !.status = "running"], [Idle EXCEPT !.pc = "charging"])
     ELSE Command(p, [task EXCEPT !.status = "running"], Entering)

Cancel(p) ==
  /\ ~Due /\ Permits(task, "cancelled")
  /\ Command(p, Closed(task, "cancelled"), Idle)

\* Only the process that asked may have a shell command approved: in any other the
\* decision, whatever it is, refuses the command and ends there.
Foreign(p) == task.ask.kind = "shell" /\ task.ask.by # p

Decide(p, approved) ==
  /\ task.status = "waiting_user" /\ ~Due /\ task.ask # NoAsk /\ Room
  /\ Command(p, Released(task),
       CASE Foreign(p)                 -> Idle
         [] task.ask.kind = "question" -> Entering
         [] OTHER -> [Idle EXCEPT !.pc = IF approved THEN "calling" ELSE "refusing"])

\* Another agent takes the task over, under a task of its own.
HandOff(p) ==
  /\ Permits(task, "handed_off") /\ task.ask = NoAsk
  /\ Command(p, Closed(task, "handed_off"), Idle)

-----------------------------------------------------------------------------
(* What follows a command. *)

\* consume_continuation; out of continuations it raises what handle_event turns into
\* a failure of the task.
Charge(p) ==
  /\ At(p, "charging")
  /\ \/ Call(p, Mutable(task) /\ task.used < MaxContinuations,
             [task EXCEPT !.used = @ + 1], Entering)
     \/ /\ Mutable(task) /\ task.used >= MaxContinuations
        /\ Step(p, "failing") /\ UNCHANGED task
  /\ UNCHANGED <<runs, deaths>>

\* The window that is open is closed on behalf of whoever is, or was, in it.
FindWindow(p) ==
  /\ At(p, "finding")
  /\ LET open == {i \in DOMAIN runs : runs[i].status = "running"}
     IN \/ open = {} /\ Goto(p, Idle)
        \/ \E i \in open :
             /\ \A j \in open : j <= i
             /\ Goto(p, [local[p] EXCEPT !.pc = "closing", !.stop = "pause", !.run = i])
  /\ UNCHANGED <<task, runs, deaths>>

Enter(p) ==
  /\ At(p, "entering")
  /\ IF task.status = "running" THEN Step(p, "opening") ELSE Goto(p, Idle)
  /\ UNCHANGED <<task, runs, deaths>>

Open(p) ==
  /\ At(p, "opening")
  /\ runs' = Append(runs, NewWindow)
  /\ Goto(p, [local[p] EXCEPT !.pc = "opened", !.run = Len(runs) + 1])
  /\ UNCHANGED <<task, deaths>>

FirstCheckpoint(p) ==
  /\ At(p, "opened")
  /\ SetWindow(p, [Window(p) EXCEPT !.mark = "running"])
  /\ Step(p, "recovering")
  /\ UNCHANGED <<task, deaths>>

\* p returns from the turn without closing its window.
Walk(p, why) ==
  /\ Goto(p, Idle)
  /\ runs' = IF local[p].run = 0 THEN runs
             ELSE [runs EXCEPT ![local[p].run].left = why]

\* An uncertain action of the session fails the task, and the turn returns.
CheckBlockers(p) ==
  /\ At(p, "recovering")
  /\ \/ Step(p, "model") /\ UNCHANGED <<task, runs>>
     \/ task' = Failed(task) /\ Walk(p, "exit")
     \/ Contended(p) /\ Goto(p, Thrown(p)) /\ UNCHANGED <<task, runs>>
  /\ UNCHANGED deaths

-----------------------------------------------------------------------------
(* The loop of a turn. *)

Finalize(p, stop) == [local[p] EXCEPT !.pc = "timing", !.stop = stop]

\* Faulty: the limit is passed by one.
OneMoreRound(w) == w.rounds <= MaxRounds

MoreRounds(w) == w.rounds < MaxRounds

\* Where the answer of the model leads: it ends the turn, or it calls a tool, for
\* which there may be no round left.
Replies(p) ==
  {Finalize(p, "answer"), Finalize(p, "error")}
  \cup IF MoreRounds(Window(p)) THEN {[local[p] EXCEPT !.pc = "counting"]}
       ELSE {Finalize(p, "rounds")}

\* A budget of the task may be spent before the model is called.
Model(p) ==
  /\ At(p, "model")
  /\ \/ Goto(p, Finalize(p, "error")) /\ UNCHANGED task
     \/ \E l \in Replies(p) : Call(p, Mutable(task), task, l)
  /\ UNCHANGED <<runs, deaths>>

\* update_execution_run is told the rounds only: the status is as it has read it.
CountRead(p) ==
  /\ At(p, "counting")
  /\ Goto(p, [local[p] EXCEPT !.pc = "counted", !.saved = Window(p).status])
  /\ UNCHANGED <<task, runs, deaths>>

\* Faulty: the round that begins is not counted.
NotCounted(p) == [Window(p) EXCEPT !.status = local[p].saved]

Counted(p) == [Window(p) EXCEPT !.status = local[p].saved, !.rounds = @ + 1]

CountWrite(p) ==
  /\ At(p, "counted")
  /\ SetWindow(p, Counted(p))
  /\ Goto(p, [local[p] EXCEPT !.pc = "ready", !.saved = None])
  /\ UNCHANGED <<task, deaths>>

\* The checkpoints before a tool call. Evidence at hand may answer, or a budget be
\* spent, instead. One call stands for the calls of a reply.
Ready(p) ==
  /\ At(p, "ready")
  /\ SetWindow(p, [Window(p) EXCEPT !.mark = "running"])
  /\ \/ Goto(p, Finalize(p, "answer")) \/ Goto(p, Finalize(p, "error")) \/ Step(p, "tool")
  /\ UNCHANGED <<task, deaths>>

\* consume_tool_call comes before the tool runs, after an approval too.
CallTool(p) ==
  /\ At(p, "tool") \/ At(p, "calling")
  /\ Call(p, Mutable(task), task, [local[p] EXCEPT !.pc = "acting"])
  /\ UNCHANGED <<runs, deaths>>

\* record_observation of a call that has run, or has been denied.
Observe(p) ==
  /\ local[p].pc \in {"tool", "acting", "refusing"}
  /\ Call(p, Mutable(task), task,
          IF local[p].run = 0 THEN Entering ELSE [local[p] EXCEPT !.pc = "after"])
  /\ UNCHANGED <<runs, deaths>>

\* ask_user, or a tool that needs approval; a REPL then asks its user on the spot.
Ask(p, kind) ==
  /\ At(p, "tool")
  /\ Call(p, Permits(task, "waiting_user"),
          [task EXCEPT !.status = "waiting_user", !.late = FALSE,
                       !.ask = [kind |-> kind, by |-> p]],
          [local[p] EXCEPT !.pc = IF kind # "question" /\ p \in Attended
                                  THEN "confirming" ELSE "after"])
  /\ UNCHANGED <<runs, deaths>>

\* The user of the REPL decides. approve and reject are given the task only.
Confirm(p, approved) ==
  /\ At(p, "confirming")
  /\ Call(p, task.ask # NoAsk /\ Permits(task, "running"), Released(task),
          [local[p] EXCEPT !.pc = IF approved THEN "calling" ELSE "refusing"])
  /\ UNCHANGED <<runs, deaths>>

GiveUp(p) ==
  /\ At(p, "tool")
  /\ Call(p, TRUE, Failed(task), [local[p] EXCEPT !.pc = "after"])
  /\ UNCHANGED <<runs, deaths>>

\* The loop goes on unless the task waits or has ended, or something stops it (an
\* uncertain action, repairs or failures without end); reflect may raise.
After(p) ==
  /\ At(p, "after")
  /\ CASE task.status = "waiting_user" ->
            /\ SetWindow(p, [Window(p) EXCEPT !.mark = "waiting_approval"])
            /\ Goto(p, Finalize(p, "waiting"))
       [] task.status \in {"failed", "cancelled", "expired"} ->
            Goto(p, Finalize(p, "error")) /\ UNCHANGED runs
       [] OTHER ->
            \/ Goto(p, Finalize(p, "error")) /\ UNCHANGED runs
            \/ /\ SetWindow(p, [Window(p) EXCEPT !.mark = "running"])
               /\ \/ Step(p, "model") \/ Goto(p, Finalize(p, "answer"))
                  \/ (~Mutable(task) \/ Contended(p)) /\ Goto(p, Thrown(p))
  /\ UNCHANGED <<task, deaths>>

-----------------------------------------------------------------------------
(* The end of a turn. *)

\* add_active_time; then the traces of the turn are written, or cannot be.
AddTime(p) ==
  /\ At(p, "timing")
  /\ \/ \E pc \in {"settling", "losing"} :
          Goto(p, [local[p] EXCEPT !.pc = pc, !.seen = task.status])
     \/ Mutable(task) /\ Contended(p) /\ Goto(p, Thrown(p))
  /\ UNCHANGED <<task, runs, deaths>>

\* Without its traces the task fails, and the turn returns.
LoseTrace(p) ==
  /\ At(p, "losing")
  /\ \/ task' = Failed(task) /\ Walk(p, "exit")
     \/ Contended(p) /\ Goto(p, Thrown(p)) /\ UNCHANGED <<task, runs>>
  /\ UNCHANGED deaths

\* Faulty: only an answer or the end of the rounds settles the task.
LeftOpen(stop) ==
  CASE stop = "rounds" -> [allowed |-> Permits(task, "paused"),
                           new |-> [task EXCEPT !.status = "paused", !.stop = "rounds"]]
    [] stop = "answer" -> [allowed |-> Permits(task, "completed"), new |-> Closed(task, "completed")]
    [] OTHER -> [allowed |-> TRUE, new |-> task]

\* What the end of the turn makes of the task.
Settled(stop) ==
  CASE stop = "rounds" -> [allowed |-> Permits(task, "paused"),
                           new |-> [task EXCEPT !.status = "paused", !.stop = "rounds"]]
    [] stop = "answer" -> [allowed |-> Permits(task, "completed"), new |-> Closed(task, "completed")]
    [] OTHER -> [allowed |-> TRUE, new |-> Failed(task)]

Settle(p) ==
  /\ At(p, "settling")
  /\ IF local[p].seen \in Ended \cup {"waiting_user"} THEN Step(p, "closing") /\ UNCHANGED task
     ELSE LET s == Settled(local[p].stop)
          IN Call(p, s.allowed, s.new,
                  [local[p] EXCEPT !.pc = "closing", !.seen = s.new.status])
  /\ UNCHANGED <<runs, deaths>>

\* What a window is closed for by somebody who does not come to the end of a turn in it.
Outside == {"pause", "interrupt", "failure"}

\* The window's last status: out of a pause command, Ctrl-C, or _finish_execution_run.
LastStatus(p) ==
  CASE local[p].stop = "pause"     -> "paused_by_user"
    [] local[p].stop = "interrupt" -> "interrupted"
    [] OTHER -> IF local[p].seen = "waiting_user" THEN "waiting_approval"
                ELSE CASE local[p].stop = "rounds" -> "paused_by_budget"
                       [] local[p].stop = "answer" -> "completed"
                       [] OTHER                    -> "failed"

\* Faulty: the window is closed without its last checkpoint.
CloseOnly(p) ==
  /\ At(p, "closing")
  /\ SetWindow(p, [Window(p) EXCEPT !.status = LastStatus(p)])
  /\ Goto(p, Idle)
  /\ UNCHANGED <<task, deaths>>

Close(p) ==
  /\ At(p, "closing")
  /\ SetWindow(p, [Window(p) EXCEPT !.status = LastStatus(p)])
  /\ Step(p, "recording")
  /\ UNCHANGED <<task, deaths>>

LastCheckpoint(p) ==
  /\ At(p, "recording")
  /\ SetWindow(p, [Window(p) EXCEPT !.mark = LastStatus(p)])
  /\ Goto(p, Idle)
  /\ UNCHANGED <<task, deaths>>

\* Faulty: a failed turn leaves its window as it is.
FailOnly(p) ==
  /\ At(p, "failing")
  /\ task' = Failed(task) \/ (Contended(p) /\ UNCHANGED task)
  /\ Goto(p, Idle)
  /\ UNCHANGED <<runs, deaths>>

\* An exception fails the task, if that can be written, and closes the window unless
\* somebody has.
Fail(p) ==
  /\ At(p, "failing")
  /\ task' = Failed(task) \/ (Contended(p) /\ UNCHANGED task)
  /\ IF local[p].run = 0 \/ Window(p).status \in WindowClosed THEN Goto(p, Idle)
     ELSE Goto(p, [local[p] EXCEPT !.pc = "closing", !.stop = "failure", !.seen = task'.status])
  /\ UNCHANGED <<runs, deaths>>

\* Ctrl-C in a turn, to the last write of its end, cancels the task; cancel may raise,
\* out of run_turn, and does when the turn has ended the task. Elsewhere, and while an
\* exception or another Ctrl-C is being handled, it ends the process like any death.
Interrupt(p) ==
  /\ local[p].pc \in {"opening", "opened", "recovering", "model", "counting", "counted", "ready",
                      "tool", "calling", "acting", "refusing", "confirming", "after",
                      "timing", "losing", "settling", "closing", "recording"}
  /\ local[p].run # 0 \/ At(p, "opening")
  /\ local[p].stop \notin Outside
  /\ \/ /\ Permits(task, "cancelled")
        /\ task' = Closed(task, "cancelled")
        /\ Goto(p, IF local[p].run = 0 THEN Idle
                   ELSE [local[p] EXCEPT !.pc = "closing", !.stop = "interrupt"])
        /\ UNCHANGED runs
     \/ /\ ~Permits(task, "cancelled") \/ Contended(p)
        /\ Walk(p, "interrupt") /\ UNCHANGED task
  /\ UNCHANGED deaths

\* The process id of the one that asked is gone with it.
Orphaned(p) == [task EXCEPT !.ask.by = IF @ = p THEN None ELSE @]

Die(p) ==
  /\ ~At(p, "idle") /\ deaths < MaxDeaths
  /\ deaths' = deaths + 1
  /\ Walk(p, "death") /\ task' = Orphaned(p)

\* A process that asked ends, its work done.
Quit(p) ==
  /\ At(p, "idle") /\ task.ask.by = p
  /\ task' = Orphaned(p)
  /\ UNCHANGED <<runs, local, deaths>>

\* The deadline of what the task waits for passes.
DeadlinePasses ==
  /\ task.status = "waiting_user" /\ ~task.late
  /\ task' = [task EXCEPT !.late = TRUE]
  /\ UNCHANGED <<runs, local, deaths>>

-----------------------------------------------------------------------------
User(p) ==
  \/ Start(p) \/ Message(p) \/ ExpireDue(p) \/ Expire(p) \/ Pause(p)
  \/ Resume(p) \/ Cancel(p) \/ HandOff(p)
  \/ \E approved \in BOOLEAN : Decide(p, approved)

Work(p) ==
  \/ Charge(p) \/ FindWindow(p) \/ Enter(p) \/ Open(p) \/ FirstCheckpoint(p)
  \/ CheckBlockers(p) \/ Model(p) \/ CountRead(p) \/ CountWrite(p) \/ Ready(p)
  \/ CallTool(p) \/ Observe(p) \/ GiveUp(p)
  \/ \E kind \in AskKinds : Ask(p, kind)
  \/ After(p) \/ AddTime(p) \/ LoseTrace(p) \/ Settle(p)
  \/ Close(p) \/ LastCheckpoint(p) \/ Fail(p)

Next ==
  \/ \E p \in Procs :
       \/ User(p) \/ Work(p) \/ Interrupt(p) \/ Die(p) \/ Quit(p)
       \/ \E approved \in BOOLEAN : Confirm(p, approved)
  \/ DeadlinePasses

\* A process that has work to do goes on with it, unless it dies: its thread runs,
\* and model and tool calls return within their time limits. Users owe nothing.
Spec == Init /\ [][Next]_vars /\ \A p \in Procs : WF_vars(Work(p))

-----------------------------------------------------------------------------
Local == [pc : {"idle", "charging", "finding", "entering", "opening", "opened", "recovering",
                "model", "counting", "counted", "ready", "tool", "calling", "acting", "refusing",
                "confirming", "after", "timing", "losing", "settling", "closing", "recording",
                "failing"},
          run : 0 .. MaxWindows,
          stop : {None, "answer", "error", "rounds", "waiting"} \cup Outside,
          seen : Statuses \cup {None},
          saved : WindowClosed \cup {"running", None}]

WindowRow == [status : WindowClosed \cup {"running"}, rounds : 0 .. MaxRounds,
              mark : WindowClosed \cup {"running", None}, left : {None, "exit", "interrupt", "death"}]

\* The task, the windows and the processes have their shape; no window has more
\* rounds than it may, and the task no more continuations.
TypeOK ==
  /\ task \in [status : Statuses, late : BOOLEAN, stop : {None, "rounds", "other"},
               ask : [kind : AskKinds \cup {None}, by : Procs \cup {None}],
               used : 0 .. MaxContinuations]
  /\ Len(runs) <= MaxWindows /\ \A i \in DOMAIN runs : runs[i] \in WindowRow
  /\ local \in [Procs -> Local]
  /\ deaths \in 0 .. MaxDeaths

In(i) == \E p \in Procs : local[p].run = i

\* A window is open only while someone is in it, however many processes drive, pause
\* and fail the task at once, unless its process died or left by one of the early returns.
WindowsClosed ==
  \A i \in DOMAIN runs : runs[i].status = "running" => In(i) \/ runs[i].left # None

\* A pause is undone only by a user: who resumes or cancels the task, hands it off,
\* presses Ctrl-C, or answers what a REPL has asked before the pause. A message leaves it,
\* and a turn that was under way may fail the task, but neither goes on with it nor
\* completes it, nor asks for anything again.
PauseHolds ==
  [][task.status = "paused" /\ task'.status # "paused" =>
       \/ task'.status = "failed"
       \/ \E p \in Procs : \/ Resume(p) \/ Cancel(p) \/ HandOff(p) \/ Interrupt(p)
                          \/ \E approved \in BOOLEAN : Confirm(p, approved)]_vars

\* Every turn and command ends, or waits for its user to confirm: the rounds are
\* bounded, and no failure on the way out makes a turn start over.
TurnEnds ==
  \A p \in Procs : ~At(p, "idle") ~> (At(p, "idle") \/ At(p, "confirming"))

-----------------------------------------------------------------------------
\* With one process at work at a time (Overlap is FALSE), each of which may die:

\* Unless one dies, or Ctrl-C comes between the two writes when the task has ended, the
\* last checkpoint of a window that was closed says how it was closed: it is what the
\* next turn resumes from.
LastCheckpointAgrees ==
  deaths = 0 =>
    \A i \in DOMAIN runs :
      runs[i].status # "running" /\ ~In(i) /\ runs[i].left # "interrupt"
        => runs[i].mark = runs[i].status

\* Unless one dies, every window that ended for want of rounds, but the first, was
\* paid for with a continuation, whatever pauses, answers and approvals lie between.
BudgetWindowsCharged ==
  deaths = 0 =>
    Cardinality({i \in DOMAIN runs : runs[i].status = "paused_by_budget"}) <= task.used + 1

Driven == task.status = "running" => \E p \in Procs : ~At(p, "idle")

\* Unless one dies, a running task is left by the process that drives it only when a
\* process decides on a shell command that another one asked for.
StaysDriven ==
  [][deaths' = 0 /\ Driven /\ ~Driven' => task.ask.kind = "shell"]_vars
=============================================================================
