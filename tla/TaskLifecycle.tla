---------------------------- MODULE TaskLifecycle ----------------------------
(***************************************************************************)
(* The task store under several processes. TaskRuntime reads a task, and   *)
(* decides; SessionService.apply_task_event then reads the row again,      *)
(* compares versions and, in a transaction of its own, writes the row and  *)
(* appends the event. The three are separate SQL statements, so the steps  *)
(* of the processes (CLI sessions, a second terminal, Ctrl-C) interleave   *)
(* between them, and any of them may be the last a process takes.          *)
(*                                                                         *)
(* Who calls is left open: any process may call any method of the runtime  *)
(* on any task at any time. The SELECTs apply_task_event makes one after   *)
(* the other (event id, row, last sequence) are one step, LoadRow: the     *)
(* version guard of the UPDATE and the UNIQUE constraints of task_events   *)
(* reject whatever changes between them, as they do for what follows.      *)
(***************************************************************************)
EXTENDS TaskStore

CONSTANTS
  Procs,         \* processes (each runs one call at a time)
  EventIds,      \* event ids that clients choose, and may send again
  MaxEvents,     \* bound: calls begin while fewer events are recorded
  MaxInherited   \* bound: skill activations a handoff copies to the child

ASSUME ProcsAssumption == None \notin EventIds /\ MaxInherited \in Nat

VARIABLES
  row,      \* table tasks: the row of each id, NoRow while the id is unused
  log,      \* table task_events: the events of each task, by their sequence
  parent,   \* table task_handoffs: the source of a task made by a handoff
  local     \* what the call each process is in has read so far

vars == <<row, log, parent, local>>

\* What an event says of a change. spent is the counter that the call set out to
\* add one to ("step" for a recorded observation).
Entry == [id : EventIds \cup {None}, from : Statuses \cup {"absent"},
          to : Statuses \cup {"absent"}, spent : Counters \cup {"step", None}]

\* A call that is not a client's event has NoEvent: a fresh uuid as its id, the
\* version its own read of the task saw as the one it expects.
NoEvent == [id |-> None, expected |-> None, pending |-> None]

\* The events a client builds from the task it was shown (_run_task_control): one
\* that names the pending action names the version too.
Events(t) ==
  {e \in [id : EventIds \cup {None}, expected : (1 .. row[t].version) \cup {None},
          pending : {None, row[t].pending}] :
     e.pending # None => e.expected # None}

Idle == [pc |-> "idle", op |-> None, task |-> None, session |-> None, id |-> None,
         expected |-> None, asked |-> None, args |-> NoArgs, spent |-> None,
         seq |-> 0, base |-> NoRow]

Init ==
  /\ row = [t \in Tasks |-> NoRow]
  /\ log = [t \in Tasks |-> <<>>]
  /\ parent = [t \in Tasks |-> None]
  /\ local = [p \in Procs |-> Idle]

Goto(p, c) == local' = [local EXCEPT ![p] = c]

Return(p) == Goto(p, Idle)

-----------------------------------------------------------------------------
\* The calls that end in TaskRuntime.transition, and the status each asks for.
\* "continue" takes up a created task, "answer" is resume_with_user_message,
\* pause_for_budget stands for pause_for_recovery too (they differ in the reason),
\* "prepare" is the first of the two transitions fail makes of a waiting task.
Target ==
  [start |-> "running", continue |-> "running", answer |-> "running",
   approve |-> "running", reject |-> "running", resume |-> "running",
   prepare |-> "running", wait_for_user |-> "waiting_user", pause |-> "paused",
   pause_for_budget |-> "paused", cancel |-> "cancelled", expire |-> "expired",
   complete |-> "completed", fail |-> "failed"]

ClientOps == {"answer", "pause", "resume", "cancel", "expire"}

RuntimeOps == {"pause_for_budget", "complete"}

Decisions == {"approve", "reject"}

Ops == ClientOps \cup RuntimeOps \cup Decisions
         \cup {"start", "continue", "wait_for_user", "prepare", "fail"}

PendingArg(op, asked) ==
  CASE op \in {"answer", "approve", "reject", "prepare"} -> None
    [] op = "wait_for_user" -> asked
    [] OTHER -> Keep

DeadlineArg(op) ==
  CASE op \in {"answer", "approve", "reject", "prepare"} -> FALSE
    [] op = "wait_for_user" -> TRUE
    [] OTHER -> Keep

StopArg(op) ==
  CASE op = "pause_for_budget" -> "max_tool_rounds_exceeded"
    [] op = "cancel" -> "cancelled"
    [] op = "expire" -> "waiting_user_expired"
    [] op = "complete" -> "completed"
    [] op = "fail" -> "error"
    [] OTHER -> Keep

\* Faulty: an event is compared with the last one of each task only.
LoggedLast(id) ==
  id # None /\ \E t \in Tasks : log[t] # <<>> /\ log[t][Len(log[t])].id = id

\* An event id is the primary key of task_events, whatever the task.
Logged(id) == id # None /\ \E t \in Tasks : \E i \in DOMAIN log[t] : log[t][i].id = id

Free(s) == \A t \in Tasks : ~(row[t].session = s /\ row[t].status \in Active)

Busy == {p \in Procs : local[p].pc # "idle"}

Room == Cardinality(UNION {{t} \X DOMAIN log[t] : t \in Tasks}) + Cardinality(Busy)
          < MaxEvents

\* The version an event must find: its own, or the one the call read.
Expected(expected, view) == IF expected = None THEN view.version ELSE expected

\* Faulty: the table of legal moves is not consulted.
PermitsAnyMove(c) == ~Logged(c.id) /\ row[c.task].status \notin Terminal

\* The read of transition and its two checks; the call c goes on to the store.
Permits(c) ==
  /\ ~Logged(c.id)
  /\ <<row[c.task].status, Target[c.op]>> \in AllowedMoves

Resolved(c) ==
  LET view == row[c.task] IN
  [c EXCEPT !.pc = "applying",
            !.op = IF c.op = "prepare" THEN "fail" ELSE None,
            !.expected = Expected(@, view),
            !.asked = IF c.op \in Decisions THEN @ ELSE None,
            !.args = TransitionArgs(view, Target[c.op], PendingArg(c.op, c.asked),
                                    DeadlineArg(c.op), StopArg(c.op))]

Call(op, t, e) ==
  [Idle EXCEPT !.pc = "called", !.op = op, !.task = t, !.id = e.id,
               !.expected = e.expected, !.asked = e.pending]

\* A method whose only read that matters is the one transition makes.
CallTransition(p, op, t, e) ==
  /\ local[p] = Idle /\ Room
  /\ row[t].status # "absent"
  /\ Permits(Call(op, t, e))
  /\ Goto(p, Resolved(Call(op, t, e)))
  /\ UNCHANGED <<row, log, parent>>

\* start_for_user_message up to its first read. A refused call changes nothing.
CallStart(p, s, id) ==
  /\ local[p] = Idle /\ Room
  /\ \/ /\ Free(s)
        /\ Goto(p, [Call("start", None, NoEvent)
                      EXCEPT !.pc = "creating", !.session = s, !.id = id])
     \/ \E t \in Tasks :
          /\ row[t].session = s
          /\ \/ row[t].status = "created" /\ Goto(p, [Call("continue", t, NoEvent) EXCEPT !.id = id])
             \/ row[t].status = "waiting_user" /\ Goto(p, [Call("answer", t, NoEvent) EXCEPT !.id = id])
  /\ UNCHANGED <<row, log, parent>>

\* approve and reject check the pending action on a read of their own.
CallDecide(p, op, t, e) ==
  /\ local[p] = Idle /\ Room
  /\ row[t].pending # None
  /\ e.pending \in {None, row[t].pending}
  /\ Goto(p, Call(op, t, e))
  /\ UNCHANGED <<row, log, parent>>

CallFail(p, t) ==
  /\ local[p] = Idle /\ Room
  /\ row[t].status \in Active
  /\ LET op == IF row[t].status \in {"created", "waiting_user", "paused"}
                 THEN "prepare" ELSE "fail"
     IN Goto(p, Call(op, t, NoEvent))
  /\ UNCHANGED <<row, log, parent>>

ReadTask(p) ==
  /\ local[p].pc = "called"
  /\ IF Permits(local[p]) THEN Goto(p, Resolved(local[p])) ELSE Return(p)
  /\ UNCHANGED <<row, log, parent>>

-----------------------------------------------------------------------------
\* The methods that change a task without a transition: a read, a check that the
\* task is open, and one event that expects the version just read.
CallUpdate(p, t, e, args, spent) ==
  /\ local[p] = Idle /\ Room
  /\ row[t].status \in Active
  /\ ~Logged(e.id)
  /\ Goto(p, [Call(None, t, e) EXCEPT !.pc = "applying", !.args = args, !.spent = spent,
                                      !.expected = Expected(@, row[t])])
  /\ UNCHANGED <<row, log, parent>>

RecordUserMessage(p, t, e) ==
  row[t].status = "running" /\ CallUpdate(p, t, e, NoArgs, None)

\* update_plan and update_working_memory: their columns are not modelled.
UpdateContext(p, t) == CallUpdate(p, t, NoEvent, NoArgs, None)

RecordObservation(p, t) ==
  CallUpdate(p, t, NoEvent, [NoArgs EXCEPT !.step = row[t].step + 1], "step")

Consume(p, t, counter) ==
  CallUpdate(p, t, NoEvent, [NoArgs EXCEPT !.budget = Spent(row[t], counter)], counter)

\* consume_model_call, consume_tool_call, consume_repair_attempt, add_active_time.
ConsumeCall(p, t) == Consume(p, t, "calls")

\* Faulty: the limit is compared after it has been reached.
ConsumeOneMore(p, t) == row[t].budget.replans <= MaxReplans /\ Consume(p, t, "replans")

\* reflect leaves the task as it is at the limit, consume_replan raises.
ConsumeReplan(p, t) == row[t].budget.replans < MaxReplans /\ Consume(p, t, "replans")

ConsumeContinuation(p, t) ==
  row[t].budget.continuations < MaxContinuations /\ Consume(p, t, "continuations")

-----------------------------------------------------------------------------
NextSequence(t) == Len(log[t]) + 1

\* Faulty: nobody compares the version found with the one expected.
LoadAnyVersion(p) ==
  LET c == local[p] IN
  /\ c.pc = "applying"
  /\ IF ~Logged(c.id)
       THEN Goto(p, [c EXCEPT !.pc = "writing", !.base = row[c.task],
                              !.seq = NextSequence(c.task)])
       ELSE Return(p)
  /\ UNCHANGED <<row, log, parent>>

\* apply_task_event up to its UPDATE: an event seen before and a version other
\* than the expected one end the call.
LoadRow(p) ==
  LET c == local[p]  current == row[c.task] IN
  /\ c.pc = "applying"
  /\ IF ~Logged(c.id) /\ c.expected = current.version
       THEN Goto(p, [c EXCEPT !.pc = "writing", !.base = current,
                              !.seq = NextSequence(c.task)])
       ELSE Return(p)
  /\ UNCHANGED <<row, log, parent>>

\* Faulty: UPDATE ... WHERE id = ?
Always(t, base) == TRUE

\* UPDATE ... WHERE id = ? AND version = ?
Unmoved(t, base) == row[t].version = base.version

\* INSERT INTO task_events: PRIMARY KEY (id), UNIQUE (task_id, sequence).
Insertable(t, seq, id) == seq = NextSequence(t) /\ ~Logged(id)

\* Faulty: the index is not unique.
AnyNumber(s, closing) == TRUE

\* The unique index on the session of open tasks lets a row of s become open.
IndexAdmits(s, closing) ==
  \A t \in Tasks \ closing : ~(row[t].session = s /\ row[t].status \in Active)

Record(t, entries) == log' = [log EXCEPT ![t] = @ \o entries]

\* The transaction of apply_task_event: the row and the event, or neither.
Commit(p) ==
  LET c == local[p]  t == c.task  new == Applied(c.base, c.args) IN
  /\ c.pc = "writing"
  /\ IF Unmoved(t, c.base) /\ Insertable(t, c.seq, c.id)
       THEN /\ row' = [row EXCEPT ![t] = new]
            /\ Record(t, <<[id |-> c.id, from |-> c.base.status, to |-> new.status,
                            spent |-> c.spent]>>)
            /\ IF c.op = "fail" THEN Goto(p, Call("fail", t, NoEvent)) ELSE Return(p)
       ELSE UNCHANGED <<row, log>> /\ Return(p)
  /\ UNCHANGED parent

\* create_task looks for an open task of the session, then inserts.
CheckSession(p) ==
  /\ local[p].pc = "creating"
  /\ IF Free(local[p].session) THEN Goto(p, [local[p] EXCEPT !.pc = "inserting"])
                               ELSE Return(p)
  /\ UNCHANGED <<row, log, parent>>

Created(from) == [id |-> None, from |-> from, to |-> "created", spent |-> None]

InsertTask(p) ==
  LET c == local[p] IN
  /\ c.pc = "inserting"
  /\ IF IndexAdmits(c.session, {})
       THEN \E t \in Tasks :
              /\ row[t].status = "absent"
              /\ row' = [row EXCEPT ![t] = CreatedRow(c.session, 0, FreshBudget)]
              /\ Record(t, <<Created("absent")>>)
              /\ Goto(p, [c EXCEPT !.pc = "called", !.task = t, !.session = None])
       ELSE UNCHANGED <<row, log>> /\ Return(p)
  /\ UNCHANGED parent

-----------------------------------------------------------------------------
\* activate_skill and drop_skill: a read that wants a running task, then a
\* transaction that moves the version and appends the event.
ReadForSkill(p, t) ==
  /\ local[p] = Idle /\ Room
  /\ row[t].status = "running"
  /\ Goto(p, [Idle EXCEPT !.pc = "skill", !.task = t, !.base = row[t]])
  /\ UNCHANGED <<row, log, parent>>

AppendSkillEvent(p) ==
  LET c == local[p]  t == c.task IN
  /\ c.pc = "skill"
  /\ IF Unmoved(t, c.base)
       THEN /\ row' = [row EXCEPT ![t].version = c.base.version + 1]
            /\ Record(t, <<[id |-> None, from |-> row[t].status, to |-> row[t].status,
                            spent |-> None]>>)
       ELSE UNCHANGED <<row, log>>
  /\ Return(p)
  /\ UNCHANGED parent

\* handoff_task up to its first UPDATE.
ReadForHandOff(p, t, s) ==
  /\ local[p] = Idle /\ Room
  /\ row[t].status \in {"running", "paused", "completed"}
  /\ row[t].pending = None
  /\ Free(s)
  /\ \A c \in Tasks : parent[c] # t
  /\ Goto(p, [Idle EXCEPT !.pc = "handing", !.task = t, !.session = s,
                          !.seq = NextSequence(t), !.base = row[t]])
  /\ UNCHANGED <<row, log, parent>>

HandedOff(cur, base) ==
  [cur EXCEPT !.status = "handed_off", !.version = base.version + 1,
              !.pending = None, !.deadline = FALSE, !.stop = "handed_off"]

HandOff(p) ==
  LET c == local[p]  t == c.task IN
  /\ c.pc = "handing"
  /\ IF Unmoved(t, c.base) /\ Insertable(t, c.seq, None) /\ IndexAdmits(c.session, {t})
       THEN \E child \in Tasks, skills \in 0 .. MaxInherited :
              /\ row[child].status = "absent"
              /\ row' = [row EXCEPT
                   ![t] = HandedOff(@, c.base),
                   ![child] = [CreatedRow(c.session, c.base.step, c.base.budget)
                                 EXCEPT !.version = 1 + skills]]
              /\ log' = [log EXCEPT
                   ![t] = Append(@, [id |-> None, from |-> c.base.status,
                                     to |-> "handed_off", spent |-> None]),
                   ![child] = [i \in 1 .. 1 + skills |->
                                 Created(IF i = 1 THEN "absent" ELSE "created")]]
              /\ parent' = [parent EXCEPT ![child] = t]
       ELSE UNCHANGED <<row, log, parent>>
  /\ Return(p)

\* The process dies, is interrupted or gives up on a locked database: an open
\* transaction is rolled back, and what the call had read is gone.
Crash(p) ==
  /\ local[p] # Idle
  /\ Return(p)
  /\ UNCHANGED <<row, log, parent>>

-----------------------------------------------------------------------------
Calls(p, t) ==
  \/ \E op \in ClientOps, e \in Events(t) : CallTransition(p, op, t, [e EXCEPT !.pending = None])
  \/ \E op \in RuntimeOps : CallTransition(p, op, t, NoEvent)
  \/ \E a \in Pendings : CallTransition(p, "wait_for_user", t, [NoEvent EXCEPT !.pending = a])
  \/ \E op \in Decisions, e \in Events(t) : CallDecide(p, op, t, e)
  \/ CallFail(p, t)
  \/ \E e \in Events(t) : RecordUserMessage(p, t, [e EXCEPT !.pending = None])
  \/ UpdateContext(p, t)
  \/ RecordObservation(p, t)
  \/ ConsumeCall(p, t)
  \/ ConsumeReplan(p, t)
  \/ ConsumeContinuation(p, t)
  \/ ReadForSkill(p, t)
  \/ \E s \in Sessions : ReadForHandOff(p, t, s)

Step(p) ==
  \/ ReadTask(p)
  \/ LoadRow(p)
  \/ Commit(p)
  \/ CheckSession(p)
  \/ InsertTask(p)
  \/ AppendSkillEvent(p)
  \/ HandOff(p)
  \/ Crash(p)

Next ==
  \E p \in Procs :
    \/ Step(p)
    \/ \E s \in Sessions, id \in EventIds \cup {None} : CallStart(p, s, id)
    \/ \E t \in Tasks : Calls(p, t)

Spec == Init /\ [][Next]_vars

-----------------------------------------------------------------------------
Local == [pc : {"idle", "creating", "inserting", "called", "applying", "writing",
                "skill", "handing"},
          op : Ops \cup {None}, task : Tasks \cup {None},
          session : Sessions \cup {None}, id : EventIds \cup {None},
          expected : Nat \cup {None}, asked : Pendings \cup {None}, args : Args,
          spent : Counters \cup {"step", None}, seq : Nat, base : Row]

\* The rows, events, handoffs and calls have the shape the schema gives them.
TypeOK ==
  /\ row \in [Tasks -> Row]
  /\ log \in [Tasks -> Seq(Entry)]
  /\ parent \in [Tasks -> Tasks \cup {None}]
  /\ local \in [Procs -> Local]

\* The event log tells the whole story of a task: its version counts its events,
\* each event starts at the status the one before it ended at, and the last one
\* ends at the status of the row. A change without its event, an event without
\* its change or two of them swapped by racing processes breaks it.
EventLogComplete ==
  \A t \in Tasks :
    /\ row[t].version = Len(log[t])
    /\ log[t] # <<>> => /\ log[t][1].from = "absent"
                       /\ log[t][Len(log[t])].to = row[t].status
    /\ \A i \in 2 .. Len(log[t]) : log[t][i].from = log[t][i - 1].to

\* An event a client sends again, to the same task or another, from two
\* processes at once or after a crash, is applied at most once.
EventAppliedOnce ==
  \A t, u \in Tasks : \A i \in DOMAIN log[t], j \in DOMAIN log[u] :
    log[t][i].id # None /\ log[t][i].id = log[u][j].id => t = u /\ i = j

\* What the recorded calls have added to a counter of t.
Added(t, counter) == Cardinality({i \in DOMAIN log[t] : log[t][i].spent = counter})

Inherited(t) == IF parent[t] = None THEN CreatedRow(row[t].session, 0, FreshBudget)
                                    ELSE row[parent[t]]

\* No update is lost: the counters of a task, written back as a whole from what a
\* call had read, are those of the task it was handed off from plus everything
\* its own events added.
NothingLost ==
  \A t \in Tasks :
    row[t].status # "absent" =>
      /\ row[t].step = Inherited(t).step + Added(t, "step")
      /\ \A k \in Counters : row[t].budget[k] = Inherited(t).budget[k] + Added(t, k)

\* The two counters whose callers check before they spend never pass their limit,
\* though check and spend are apart, nor do they start afresh in a handoff.
WithinBudget ==
  \A t \in Tasks : /\ row[t].budget.replans <= MaxReplans
                   /\ row[t].budget.continuations <= MaxContinuations

\* create_task and handoff_task look first and insert later; still no session
\* ever has two open tasks.
OneActivePerSession ==
  \A t, u \in Tasks :
    /\ row[t].status \in Active /\ row[u].status \in Active
    /\ row[t].session = row[u].session
    => t = u

\* A process about to write that finds the version it read finds the whole row it
\* read: no two states of a task share a version, whoever wrote them.
ReadsStayTrue ==
  \A p \in Procs :
    LET c == local[p] IN
    c.pc \in {"writing", "skill", "handing"} =>
      /\ c.base.version <= row[c.task].version
      /\ Unmoved(c.task, c.base) => row[c.task] = c.base

Commits(p) == local[p].pc = "writing" /\ local'[p] # local[p] /\ log' # log

\* A change is applied only to the version its event expects: the one its sender
\* was shown, or the one the call decided on.
StaleEventRejected ==
  [][\A p \in Procs : Commits(p) => local[p].expected = row[local[p].task].version]_vars

\* An approval or rejection that names a pending action is applied only while
\* that action is the one the task waits for, though it was checked two reads ago.
DecisionMatchesPending ==
  [][\A p \in Procs :
       Commits(p) /\ local[p].asked # None
         => row[local[p].task].pending = local[p].asked]_vars

Machine == INSTANCE TaskMachine WITH
  status <- [t \in Tasks |-> row[t].status],
  home <- [t \in Tasks |-> row[t].session]

\* Seen through the rows alone, the processes do what TaskMachine promises: legal
\* moves only, one open task for a session, and handoffs in one step.
Refines == Machine!Spec
==============================================================================
