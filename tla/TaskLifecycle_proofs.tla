------------------------ MODULE TaskLifecycle_proofs ------------------------
(***************************************************************************)
(* Proofs about TaskLifecycle for every number of tasks, sessions and      *)
(* processes: its types, its safety invariants, its refinement of          *)
(* TaskMachine, and its log. SafeInv says what a call in flight may rely   *)
(* on: versions never go back, so a row whose version is the one it has    *)
(* read is the row it has read. LogInv adds what the call was decided on,  *)
(* and what the events of a task say of its row.                           *)
(***************************************************************************)
EXTENDS TaskLifecycle, SequenceTheorems, FiniteSetTheorems, TLAPS

\* A call past its first step names an existing task id; one that is to open a
\* task names the session.
AddressedCall(c) ==
  /\ c.pc \in {"called", "applying", "writing", "skill", "handing"} => c.task \in Tasks
  /\ c.pc \in {"creating", "inserting", "handing"} => c.session \in Sessions
  /\ c.pc \in {"applying", "writing"} => c.expected \in Nat
  /\ c.pc = "called" => c.op \in Ops
  /\ c.pc \in {"creating", "inserting"} => c.op = "start"

Addressed == \A p \in Procs : AddressedCall(local[p])

LEMMA NoRowType == NoRow \in Row
  BY DEF NoRow, Row, FreshBudget, Budget

LEMMA IdleType == Idle \in Local
  BY NoRowType DEF Idle, Local, NoArgs, Args

LEMMA AppliedType ==
  ASSUME NEW cur \in Row, NEW a \in Args
  PROVE  Applied(cur, a) \in Row
<1>1. Choose(a.status, cur.status) \in Statuses \cup {"absent"}
  BY DEF Choose, Row, Args
<1>2. Choose(a.pending, cur.pending) \in Pendings \cup {None}
  BY DEF Choose, Row, Args
<1>3. Choose(a.deadline, cur.deadline) \in BOOLEAN
  BY DEF Choose, Row, Args
<1>4. Choose(a.stop, cur.stop) \in Reasons \cup {None}
  BY DEF Choose, Row, Args
<1>5. Choose(a.step, cur.step) \in Nat /\ cur.version + 1 \in Nat
  BY DEF Choose, Row, Args
<1>6. Choose(a.budget, cur.budget) \in Budget
  BY DEF Choose, Row, Args
<1>7. QED
  BY <1>1, <1>2, <1>3, <1>4, <1>5, <1>6 DEF Applied, Row

\* A step that moves one process to a well-formed call keeps the others as they are.
LEMMA GotoTyped ==
  ASSUME TypeOK, Addressed, NEW p \in Procs, NEW c \in Local, AddressedCall(c), Goto(p, c)
  PROVE  local' \in [Procs -> Local] /\ Addressed'
<1>1. local' \in [Procs -> Local]
  BY DEF TypeOK, Goto
<1>2. ASSUME NEW q \in Procs PROVE AddressedCall(local'[q])
  BY DEF TypeOK, Goto, Addressed
<1>3. QED
  BY <1>1, <1>2 DEF Addressed

LEMMA ReturnTyped ==
  ASSUME TypeOK, Addressed, NEW p \in Procs, Return(p)
  PROVE  local' \in [Procs -> Local] /\ Addressed'
<1>1. AddressedCall(Idle)
  BY DEF AddressedCall, Idle
<1>2. QED
  BY <1>1, IdleType, GotoTyped DEF Return

LEMMA TransitionArgsType ==
  ASSUME NEW view \in Row, NEW to \in Statuses, NEW a \in Pendings \cup {None, Keep},
         NEW d \in BOOLEAN \cup {Keep}, NEW st \in Reasons \cup {Keep}
  PROVE  TransitionArgs(view, to, a, d, st) \in Args
<1>1. Choose(a, view.pending) \in Pendings \cup {None}
  BY DEF Choose, Row
<1>2. Choose(d, view.deadline) \in BOOLEAN
  BY DEF Choose, Row
<1>3. Choose(st, view.stop) \in Reasons \cup {None}
  BY DEF Choose, Row
<1>4. QED
  BY <1>1, <1>2, <1>3 DEF TransitionArgs, NoArgs, Args

\* A permitted transition leaves the runtime with well-formed arguments.
LEMMA ResolvedTyped ==
  ASSUME TypeOK, NEW c \in Local, c.op \in Ops, c.task \in Tasks, Permits(c)
  PROVE  Resolved(c) \in Local /\ AddressedCall(Resolved(c))
<1> DEFINE view == row[c.task]
           args == TransitionArgs(view, Target[c.op], PendingArg(c.op, c.asked),
                                  DeadlineArg(c.op), StopArg(c.op))
<1>1. view \in Row
  BY DEF TypeOK
<1>2. Target[c.op] \in Statuses
  BY DEF Permits, AllowedMoves, Statuses, Active, Terminal
<1>3. PendingArg(c.op, c.asked) \in Pendings \cup {None, Keep}
  BY DEF PendingArg, Local
<1>4. DeadlineArg(c.op) \in BOOLEAN \cup {Keep}
  BY DEF DeadlineArg
<1>5. StopArg(c.op) \in Reasons \cup {Keep}
  BY DEF StopArg, Reasons
<1>6. args \in Args
  BY <1>1, <1>2, <1>3, <1>4, <1>5, TransitionArgsType
<1>7. Expected(c.expected, view) \in Nat
  BY <1>1 DEF Expected, Local, Row
<1> HIDE DEF args
<1>8. Resolved(c) = [c EXCEPT !.pc = "applying",
                              !.op = IF c.op = "prepare" THEN "fail" ELSE None,
                              !.expected = Expected(c.expected, view),
                              !.asked = IF c.op \in Decisions THEN c.asked ELSE None,
                              !.args = args]
  BY DEF Resolved, args
<1>9. Resolved(c) \in Local
  BY <1>6, <1>7, <1>8 DEF Local, Ops
<1>10. AddressedCall(Resolved(c))
  BY <1>7, <1>8 DEF AddressedCall, Local
<1>11. QED
  BY <1>9, <1>10

LEMMA CallType ==
  ASSUME NEW op \in Ops \cup {None}, NEW t \in Tasks \cup {None},
         NEW i \in EventIds \cup {None}, NEW x \in Nat \cup {None},
         NEW a \in Pendings \cup {None}
  PROVE  Call(op, t, [id |-> i, expected |-> x, pending |-> a]) \in Local
<1> DEFINE c == [Idle EXCEPT !.pc = "called", !.op = op, !.task = t, !.id = i,
                             !.expected = x, !.asked = a]
<1>1. Call(op, t, [id |-> i, expected |-> x, pending |-> a]) = c
  BY DEF Call
<1>2. c \in Local
  BY IdleType DEF Local
<1>3. QED
  BY <1>1, <1>2

LEMMA NoEventCallType ==
  ASSUME NEW op \in Ops \cup {None}, NEW t \in Tasks \cup {None}
  PROVE  Call(op, t, NoEvent) \in Local
  BY CallType DEF NoEvent

LEMMA EventType ==
  ASSUME TypeOK, NEW t \in Tasks, NEW e \in Events(t)
  PROVE  /\ e.id \in EventIds \cup {None}
         /\ e.expected \in Nat \cup {None}
         /\ e.pending \in Pendings \cup {None}
         /\ e = [id |-> e.id, expected |-> e.expected, pending |-> e.pending]
<1>1. row[t].version \in Nat /\ row[t].pending \in Pendings \cup {None}
  BY DEF TypeOK, Row
<1>2. e \in [id : EventIds \cup {None}, expected : (1 .. row[t].version) \cup {None},
             pending : {None, row[t].pending}]
  BY Zenon DEF Events
<1>3. (1 .. row[t].version) \subseteq Nat
  BY <1>1
<1>4. QED
  BY <1>1, <1>2, <1>3

-----------------------------------------------------------------------------
\* One lemma per kind of step: types and addresses survive it.
TypeInv == TypeOK /\ Addressed

LEMMA CallTransitionTyped ==
  ASSUME TypeInv, NEW p \in Procs, NEW op \in Ops, NEW t \in Tasks,
         NEW i \in EventIds \cup {None}, NEW x \in Nat \cup {None},
         NEW a \in Pendings \cup {None},
         CallTransition(p, op, t, [id |-> i, expected |-> x, pending |-> a])
  PROVE  TypeInv'
<1> DEFINE c == Call(op, t, [id |-> i, expected |-> x, pending |-> a])
<1>1. c \in Local
  BY CallType
<1>2. c.op = op /\ c.task = t
  BY DEF Call, Idle
<1>3. Permits(c) /\ Goto(p, Resolved(c)) /\ UNCHANGED <<row, log, parent>>
  BY DEF CallTransition
<1> HIDE DEF c
<1>4. Resolved(c) \in Local /\ AddressedCall(Resolved(c))
  BY <1>1, <1>2, <1>3, ResolvedTyped DEF TypeInv
<1>5. local' \in [Procs -> Local] /\ Addressed'
  BY <1>3, <1>4, GotoTyped DEF TypeInv
<1>6. QED
  BY <1>3, <1>5 DEF TypeInv, TypeOK

LEMMA CallStartTyped ==
  ASSUME TypeInv, NEW p \in Procs, NEW s \in Sessions, NEW i \in EventIds \cup {None},
         CallStart(p, s, i)
  PROVE  TypeInv'
<1> DEFINE blank == Call("start", None, NoEvent)
           opening == [blank EXCEPT !.pc = "creating", !.session = s, !.id = i]
           taking(op, t) == [Call(op, t, NoEvent) EXCEPT !.id = i]
<1>1. opening \in Local /\ AddressedCall(opening)
  <2>1. blank \in Local /\ blank.op = "start"
    BY NoEventCallType DEF Call, Idle, Ops
  <2> HIDE DEF blank
  <2>2. opening \in Local
    BY <2>1 DEF Local
  <2>3. opening.pc = "creating" /\ opening.session = s /\ opening.op = "start"
    BY <2>1 DEF Local
  <2>4. QED
    BY <2>2, <2>3 DEF AddressedCall
<1>2. ASSUME NEW op \in {"continue", "answer"}, NEW t \in Tasks
      PROVE  taking(op, t) \in Local /\ AddressedCall(taking(op, t))
  <2> DEFINE c == Call(op, t, NoEvent)
  <2>1. c \in Local
    BY NoEventCallType DEF Ops, ClientOps
  <2>2. c.pc = "called" /\ c.op = op /\ c.task = t
    BY DEF Call, Idle
  <2> HIDE DEF c
  <2>3. [c EXCEPT !.id = i] \in Local
    BY <2>1 DEF Local
  <2>4. AddressedCall([c EXCEPT !.id = i])
    BY <2>1, <2>2 DEF Local, AddressedCall, Ops, ClientOps
  <2>5. QED
    BY <2>3, <2>4 DEF c
<1>3. \/ Goto(p, opening)
      \/ \E t \in Tasks : Goto(p, taking("continue", t)) \/ Goto(p, taking("answer", t))
  BY DEF CallStart
<1> HIDE DEF opening, taking
<1>4. local' \in [Procs -> Local] /\ Addressed'
  BY <1>1, <1>2, <1>3, GotoTyped DEF TypeInv
<1>5. QED
  BY <1>4 DEF CallStart, TypeInv, TypeOK

LEMMA CalledTyped ==
  ASSUME TypeInv, NEW p \in Procs, NEW op \in Ops, NEW t \in Tasks,
         NEW i \in EventIds \cup {None}, NEW x \in Nat \cup {None},
         NEW a \in Pendings \cup {None},
         Goto(p, Call(op, t, [id |-> i, expected |-> x, pending |-> a]))
  PROVE  local' \in [Procs -> Local] /\ Addressed'
<1> DEFINE c == Call(op, t, [id |-> i, expected |-> x, pending |-> a])
<1>1. c \in Local
  BY CallType
<1>2. AddressedCall(c)
  BY DEF Call, Idle, AddressedCall
<1> HIDE DEF c
<1>3. QED
  BY <1>1, <1>2, GotoTyped DEF TypeInv, c

LEMMA ReadTaskTyped ==
  ASSUME TypeInv, NEW p \in Procs, ReadTask(p)
  PROVE  TypeInv'
<1>1. local[p] \in Local /\ local[p].op \in Ops /\ local[p].task \in Tasks
  BY DEF ReadTask, TypeInv, TypeOK, Addressed, AddressedCall
<1>2. CASE Permits(local[p])
  <2>1. Resolved(local[p]) \in Local /\ AddressedCall(Resolved(local[p]))
    BY <1>1, <1>2, ResolvedTyped DEF TypeInv
  <2>2. QED
    BY <1>2, <2>1, GotoTyped DEF ReadTask, TypeInv, TypeOK
<1>3. CASE ~Permits(local[p])
  BY <1>3, ReturnTyped DEF ReadTask, TypeInv, TypeOK
<1>4. QED
  BY <1>2, <1>3

\* The calls that change a row without a transition.
LEMMA CallUpdateTyped ==
  ASSUME TypeInv, NEW p \in Procs, NEW t \in Tasks,
         NEW i \in EventIds \cup {None}, NEW x \in Nat \cup {None},
         NEW args \in Args, NEW spent \in Counters \cup {"step", None},
         CallUpdate(p, t, [id |-> i, expected |-> x, pending |-> None], args, spent)
  PROVE  TypeInv'
<1> DEFINE c == Call(None, t, [id |-> i, expected |-> x, pending |-> None])
           d == [c EXCEPT !.pc = "applying", !.args = args, !.spent = spent,
                          !.expected = Expected(x, row[t])]
<1>1. c \in Local /\ c.task = t /\ c.expected = x
  <2>1. c \in Local
    BY CallType
  <2>2. QED
    BY <2>1 DEF Call, Idle
<1>2. Expected(x, row[t]) \in Nat
  BY DEF Expected, TypeInv, TypeOK, Row
<1>3. Goto(p, [c EXCEPT !.pc = "applying", !.args = args, !.spent = spent,
                        !.expected = Expected(c.expected, row[t])])
  BY DEF CallUpdate
<1> HIDE DEF c
<1>4. d \in Local
  BY <1>1, <1>2 DEF Local
<1>5. AddressedCall(d)
  BY <1>1, <1>2 DEF Local, AddressedCall
<1>6. Goto(p, d)
  BY <1>1, <1>3
<1> HIDE DEF d
<1>7. local' \in [Procs -> Local] /\ Addressed'
  BY <1>4, <1>5, <1>6, GotoTyped DEF TypeInv
<1>8. QED
  BY <1>7 DEF CallUpdate, TypeInv, TypeOK

LEMMA NoArgsType == NoArgs \in Args
  BY DEF NoArgs, Args

LEMMA ConsumeTyped ==
  ASSUME TypeInv, NEW p \in Procs, NEW t \in Tasks, NEW k \in Counters, Consume(p, t, k)
  PROVE  TypeInv'
<1>1. Spent(row[t], k) \in Budget
  <2>1. row[t].budget \in Budget
    BY DEF TypeInv, TypeOK, Row
  <2>2. CASE k = "calls"
    BY <2>1, <2>2 DEF Spent, Budget
  <2>3. CASE k = "replans"
    BY <2>1, <2>3 DEF Spent, Budget
  <2>4. CASE k = "continuations"
    BY <2>1, <2>4 DEF Spent, Budget
  <2>5. QED
    BY <2>2, <2>3, <2>4 DEF Counters
<1>2. [NoArgs EXCEPT !.budget = Spent(row[t], k)] \in Args
  BY <1>1, NoArgsType DEF Args
<1>3. QED
  BY <1>2, CallUpdateTyped DEF Consume, NoEvent

LEMMA LoadRowTyped ==
  ASSUME TypeInv, NEW p \in Procs, LoadRow(p)
  PROVE  TypeInv'
<1> DEFINE c == local[p]
           d == [c EXCEPT !.pc = "writing", !.base = row[c.task],
                          !.seq = NextSequence(c.task)]
<1>1. c \in Local /\ c.task \in Tasks /\ AddressedCall(c) /\ c.pc = "applying"
  BY DEF LoadRow, TypeInv, TypeOK, Addressed, AddressedCall
<1>2. row[c.task] \in Row /\ NextSequence(c.task) \in Nat
  BY <1>1 DEF TypeInv, TypeOK, NextSequence
<1>3. Goto(p, d) \/ Return(p)
  BY DEF LoadRow
<1> HIDE DEF c
<1>4. d \in Local
  BY <1>1, <1>2 DEF Local
<1>5. AddressedCall(d)
  BY <1>1 DEF Local, AddressedCall
<1> HIDE DEF d
<1>6. local' \in [Procs -> Local] /\ Addressed'
  BY <1>3, <1>4, <1>5, GotoTyped, ReturnTyped DEF TypeInv
<1>7. QED
  BY <1>6 DEF LoadRow, TypeInv, TypeOK

LEMMA RecordTyped ==
  ASSUME TypeOK, NEW t \in Tasks, NEW e \in Entry, Record(t, <<e>>)
  PROVE  log' \in [Tasks -> Seq(Entry)]
<1>1. log[t] \in Seq(Entry) /\ <<e>> \in Seq(Entry)
  BY DEF TypeOK
<1>2. log[t] \o <<e>> \in Seq(Entry)
  BY <1>1
<1>3. log' = [log EXCEPT ![t] = log[t] \o <<e>>]
  BY DEF Record
<1>4. QED
  BY <1>2, <1>3 DEF TypeOK

LEMMA CommitTyped ==
  ASSUME TypeInv, NEW p \in Procs, Commit(p)
  PROVE  TypeInv'
<1> DEFINE c == local[p]
           e == [id |-> c.id, from |-> c.base.status, to |-> Applied(c.base, c.args).status,
                 spent |-> c.spent]
<1>1. c \in Local /\ c.task \in Tasks
  BY DEF Commit, TypeInv, TypeOK, Addressed, AddressedCall
<1>2. c.base \in Row /\ c.args \in Args
  BY <1>1 DEF Local
<1>3. Applied(c.base, c.args) \in Row
  BY <1>2, AppliedType
<1>4. row' \in [Tasks -> Row]
  BY <1>3 DEF Commit, TypeInv, TypeOK
<1>5. local' \in [Procs -> Local] /\ Addressed'
  <2>1. CASE Goto(p, Call("fail", c.task, NoEvent))
    BY <1>1, <2>1, CalledTyped DEF Ops, NoEvent
  <2>2. CASE Return(p)
    BY <2>2, ReturnTyped DEF TypeInv
  <2>3. QED
    BY <2>1, <2>2 DEF Commit
<1>6. e \in Entry
  BY <1>1, <1>2, <1>3 DEF Local, Row, Entry
<1>7. log' \in [Tasks -> Seq(Entry)]
  <2>1. Record(c.task, <<e>>) \/ log' = log
    BY DEF Commit
  <2> HIDE DEF e
  <2>2. QED
    BY <1>1, <1>6, <2>1, RecordTyped DEF TypeInv, TypeOK
<1>8. QED
  BY <1>4, <1>5, <1>7 DEF Commit, TypeInv, TypeOK

LEMMA CheckSessionTyped ==
  ASSUME TypeInv, NEW p \in Procs, CheckSession(p)
  PROVE  TypeInv'
<1> DEFINE c == local[p]
           d == [c EXCEPT !.pc = "inserting"]
<1>1. c \in Local /\ AddressedCall(c) /\ c.pc = "creating"
  BY DEF CheckSession, TypeInv, TypeOK, Addressed
<1>2. Goto(p, d) \/ Return(p)
  BY DEF CheckSession
<1> HIDE DEF c
<1>3. d \in Local /\ AddressedCall(d)
  BY <1>1 DEF Local, AddressedCall
<1> HIDE DEF d
<1>4. QED
  BY <1>2, <1>3, GotoTyped, ReturnTyped DEF CheckSession, TypeInv, TypeOK

LEMMA CreatedType ==
  /\ Created("absent") \in Entry
  /\ Created("created") \in Entry
  BY DEF Created, Entry, Statuses, Active

LEMMA CreatedRowType ==
  ASSUME NEW s \in Sessions, NEW st \in Nat, NEW b \in Budget, NEW v \in Nat
  PROVE  /\ CreatedRow(s, st, b) \in Row
         /\ [CreatedRow(s, st, b) EXCEPT !.version = v] \in Row
  BY NoRowType DEF CreatedRow, Row, Statuses, Active

LEMMA InsertTaskTyped ==
  ASSUME TypeInv, NEW p \in Procs, InsertTask(p)
  PROVE  TypeInv'
<1> DEFINE c == local[p]
           d(t) == [c EXCEPT !.pc = "called", !.task = t, !.session = None]
<1>1. c \in Local /\ c.pc = "inserting" /\ c.session \in Sessions /\ c.op = "start"
  BY DEF InsertTask, TypeInv, TypeOK, Addressed, AddressedCall
<1>2. CASE Return(p) /\ UNCHANGED <<row, log, parent>>
  BY <1>2, ReturnTyped DEF TypeInv, TypeOK
<1>3. CASE \E t \in Tasks :
             /\ row' = [row EXCEPT ![t] = CreatedRow(c.session, 0, FreshBudget)]
             /\ Record(t, <<Created("absent")>>)
             /\ Goto(p, d(t))
             /\ parent' = parent
  <2>1. PICK t \in Tasks :
             /\ row' = [row EXCEPT ![t] = CreatedRow(c.session, 0, FreshBudget)]
             /\ Record(t, <<Created("absent")>>)
             /\ Goto(p, d(t))
             /\ parent' = parent
    BY <1>3
  <2>2. CreatedRow(c.session, 0, FreshBudget) \in Row
    BY <1>1, CreatedRowType DEF FreshBudget, Budget
  <2>3. row' \in [Tasks -> Row]
    BY <2>1, <2>2 DEF TypeInv, TypeOK
  <2>4. log' \in [Tasks -> Seq(Entry)]
    BY <2>1, CreatedType, RecordTyped DEF TypeInv
  <2> HIDE DEF c
  <2>5. d(t) \in Local /\ AddressedCall(d(t))
    BY <1>1 DEF Local, AddressedCall, Ops
  <2> HIDE DEF d
  <2>6. local' \in [Procs -> Local] /\ Addressed'
    BY <2>1, <2>5, GotoTyped DEF TypeInv
  <2>7. QED
    BY <2>1, <2>3, <2>4, <2>6 DEF TypeInv, TypeOK
<1>4. QED
  BY <1>2, <1>3 DEF InsertTask

LEMMA ReadForSkillTyped ==
  ASSUME TypeInv, NEW p \in Procs, NEW t \in Tasks, ReadForSkill(p, t)
  PROVE  TypeInv'
<1> DEFINE d == [Idle EXCEPT !.pc = "skill", !.task = t, !.base = row[t]]
<1>1. d \in Local
  BY IdleType DEF Local, TypeInv, TypeOK
<1>2. AddressedCall(d)
  BY DEF AddressedCall, Idle
<1>3. Goto(p, d)
  BY DEF ReadForSkill
<1> HIDE DEF d
<1>4. QED
  BY <1>1, <1>2, <1>3, GotoTyped DEF ReadForSkill, TypeInv, TypeOK

LEMMA AppendSkillEventTyped ==
  ASSUME TypeInv, NEW p \in Procs, AppendSkillEvent(p)
  PROVE  TypeInv'
<1> DEFINE t == local[p].task
           e == [id |-> None, from |-> row[t].status, to |-> row[t].status, spent |-> None]
<1>1. t \in Tasks /\ local[p].base.version + 1 \in Nat
  BY DEF AppendSkillEvent, TypeInv, TypeOK, Addressed, AddressedCall, Local, Row
<1>2. row' \in [Tasks -> Row]
  <2>1. row' = row \/ row' = [row EXCEPT ![t] = [row[t] EXCEPT !.version = local[p].base.version + 1]]
    BY DEF AppendSkillEvent
  <2>2. [row[t] EXCEPT !.version = local[p].base.version + 1] \in Row
    <3>1. row[t] \in Row
      BY <1>1 DEF TypeInv, TypeOK
    <3> HIDE DEF t
    <3>2. QED
      BY <1>1, <3>1 DEF Row
  <2>3. QED
    BY <2>1, <2>2 DEF TypeInv, TypeOK
<1>3. e \in Entry
  BY <1>1 DEF TypeInv, TypeOK, Row, Entry
<1>4. Record(t, <<e>>) \/ log' = log
  BY DEF AppendSkillEvent
<1> HIDE DEF e
<1>5. log' \in [Tasks -> Seq(Entry)]
  BY <1>1, <1>3, <1>4, RecordTyped DEF TypeInv, TypeOK
<1>6. QED
  BY <1>2, <1>5, ReturnTyped DEF AppendSkillEvent, TypeInv, TypeOK

LEMMA ReadForHandOffTyped ==
  ASSUME TypeInv, NEW p \in Procs, NEW t \in Tasks, NEW s \in Sessions,
         ReadForHandOff(p, t, s)
  PROVE  TypeInv'
<1> DEFINE d == [Idle EXCEPT !.pc = "handing", !.task = t, !.session = s,
                             !.seq = NextSequence(t), !.base = row[t]]
<1>1. NextSequence(t) \in Nat /\ row[t] \in Row
  BY DEF TypeInv, TypeOK, NextSequence
<1>2. d \in Local
  BY <1>1, IdleType DEF Local
<1>3. AddressedCall(d)
  BY DEF AddressedCall, Idle
<1>4. Goto(p, d)
  BY DEF ReadForHandOff
<1> HIDE DEF d
<1>5. QED
  BY <1>2, <1>3, <1>4, GotoTyped DEF ReadForHandOff, TypeInv, TypeOK

\* The rows and events a handoff writes.
Completes(p, child, skills) ==
  LET c == local[p]  t == c.task IN
  /\ row[child].status = "absent"
  /\ row' = [row EXCEPT
       ![t] = HandedOff(@, c.base),
       ![child] = [CreatedRow(c.session, c.base.step, c.base.budget)
                     EXCEPT !.version = 1 + skills]]
  /\ log' = [log EXCEPT
       ![t] = Append(@, [id |-> None, from |-> c.base.status,
                         to |-> "handed_off", spent |-> None]),
       ![child] = [i \in 1 .. 1 + skills |-> Created(IF i = 1 THEN "absent" ELSE "created")]]
  /\ parent' = [parent EXCEPT ![child] = t]

LEMMA HandOffCases ==
  ASSUME NEW p \in Procs, HandOff(p)
  PROVE  \/ UNCHANGED <<row, log, parent>>
         \/ /\ Unmoved(local[p].task, local[p].base)
            /\ Insertable(local[p].task, local[p].seq, None)
            /\ IndexAdmits(local[p].session, {local[p].task})
            /\ \E child \in Tasks, skills \in 0 .. MaxInherited : Completes(p, child, skills)
  BY DEF HandOff, Completes

LEMMA HandedOffType ==
  ASSUME NEW cur \in Row, NEW base \in Row
  PROVE  HandedOff(cur, base) \in Row
<1>1. base.version + 1 \in Nat
  BY DEF Row
<1>2. "handed_off" \in Statuses /\ "handed_off" \in Reasons
  BY DEF Statuses, Terminal, Reasons
<1>3. QED
  BY <1>1, <1>2 DEF HandedOff, Row

LEMMA HandOffTyped ==
  ASSUME TypeInv, NEW p \in Procs, HandOff(p)
  PROVE  TypeInv'
<1> DEFINE c == local[p]
           t == c.task
           e == [id |-> None, from |-> c.base.status, to |-> "handed_off", spent |-> None]
<1>1. c \in Local /\ t \in Tasks /\ c.session \in Sessions
  BY DEF HandOff, TypeInv, TypeOK, Addressed, AddressedCall
<1>2. local' \in [Procs -> Local] /\ Addressed'
  BY ReturnTyped DEF HandOff, TypeInv
<1>3. CASE UNCHANGED <<row, log, parent>>
  BY <1>2, <1>3 DEF TypeInv, TypeOK
<1>4. ASSUME NEW child \in Tasks, NEW skills \in 0 .. MaxInherited, Completes(p, child, skills)
      PROVE  TypeInv'
  <2> DEFINE born == [CreatedRow(c.session, c.base.step, c.base.budget)
                        EXCEPT !.version = 1 + skills]
             story == [i \in 1 .. 1 + skills |-> Created(IF i = 1 THEN "absent" ELSE "created")]
  <2>1. skills \in Nat /\ 1 + skills \in Nat
    BY ProcsAssumption
  <2>2. c.base \in Row /\ c.base.step \in Nat /\ c.base.budget \in Budget
    BY <1>1 DEF Local, Row
  <2>3. born \in Row
    BY <1>1, <2>1, <2>2, CreatedRowType
  <2>4. HandedOff(row[t], c.base) \in Row
    BY <1>1, <2>2, HandedOffType DEF TypeInv, TypeOK
  <2>5. row' = [row EXCEPT ![t] = HandedOff(row[t], c.base), ![child] = born]
    BY <1>4 DEF Completes
  <2> HIDE DEF born
  <2>6. row' \in [Tasks -> Row]
    BY <2>3, <2>4, <2>5 DEF TypeInv, TypeOK
  <2>7. e \in Entry
    BY <2>2 DEF Entry, Row, Statuses, Terminal
  <2>8. story \in Seq(Entry)
    BY <2>1, CreatedType
  <2>9. Append(log[t], e) \in Seq(Entry)
    BY <1>1, <2>7 DEF TypeInv, TypeOK
  <2>10. log' = [log EXCEPT ![t] = Append(log[t], e), ![child] = story]
    BY <1>4 DEF Completes
  <2> HIDE DEF e, story
  <2>11. log' \in [Tasks -> Seq(Entry)]
    BY <2>8, <2>9, <2>10 DEF TypeInv, TypeOK
  <2>12. parent' \in [Tasks -> Tasks \cup {None}]
    BY <1>1, <1>4 DEF Completes, TypeInv, TypeOK
  <2>13. QED
    BY <1>2, <2>6, <2>11, <2>12 DEF TypeInv, TypeOK
<1>5. QED
  BY <1>3, <1>4, HandOffCases

LEMMA CrashTyped ==
  ASSUME TypeInv, NEW p \in Procs, Crash(p)
  PROVE  TypeInv'
  BY ReturnTyped DEF Crash, TypeInv, TypeOK

-----------------------------------------------------------------------------
LEMMA InitTyped == Init => TypeInv
<1> SUFFICES ASSUME Init PROVE TypeInv
  OBVIOUS
<1>1. AddressedCall(Idle)
  BY DEF AddressedCall, Idle
<1>2. QED
  BY <1>1, NoRowType, IdleType DEF Init, TypeInv, TypeOK, Addressed

LEMMA CallsTyped ==
  ASSUME TypeInv, NEW p \in Procs, NEW t \in Tasks, Calls(p, t)
  PROVE  TypeInv'
<1>1. ASSUME NEW op \in ClientOps, NEW e \in Events(t),
             CallTransition(p, op, t, [e EXCEPT !.pending = None])
      PROVE  TypeInv'
  <2>1. [e EXCEPT !.pending = None] = [id |-> e.id, expected |-> e.expected, pending |-> None]
    BY EventType DEF TypeInv
  <2>2. QED
    BY <1>1, <2>1, EventType, CallTransitionTyped DEF TypeInv, Ops
<1>2. ASSUME NEW op \in RuntimeOps, CallTransition(p, op, t, NoEvent)
      PROVE  TypeInv'
  BY <1>2, CallTransitionTyped DEF NoEvent, Ops
<1>3. ASSUME NEW a \in Pendings,
             CallTransition(p, "wait_for_user", t, [NoEvent EXCEPT !.pending = a])
      PROVE  TypeInv'
  <2>1. [NoEvent EXCEPT !.pending = a] = [id |-> None, expected |-> None, pending |-> a]
    BY DEF NoEvent
  <2>2. QED
    BY <1>3, <2>1, CallTransitionTyped DEF Ops
<1>4. ASSUME NEW op \in Decisions, NEW e \in Events(t), CallDecide(p, op, t, e)
      PROVE  TypeInv'
  BY <1>4, EventType, CalledTyped DEF CallDecide, TypeInv, TypeOK, Ops
<1>5. ASSUME CallFail(p, t)
      PROVE  TypeInv'
  BY <1>5, CalledTyped DEF CallFail, TypeInv, TypeOK, Ops, NoEvent
<1>6. ASSUME NEW e \in Events(t), RecordUserMessage(p, t, [e EXCEPT !.pending = None])
      PROVE  TypeInv'
  <2>1. [e EXCEPT !.pending = None] = [id |-> e.id, expected |-> e.expected, pending |-> None]
    BY EventType DEF TypeInv
  <2>2. QED
    BY <1>6, <2>1, EventType, NoArgsType, CallUpdateTyped DEF TypeInv, RecordUserMessage
<1>7. ASSUME UpdateContext(p, t)
      PROVE  TypeInv'
  BY <1>7, NoArgsType, CallUpdateTyped DEF UpdateContext, NoEvent
<1>8. ASSUME RecordObservation(p, t)
      PROVE  TypeInv'
  <2>1. row[t].step + 1 \in Nat
    BY DEF TypeInv, TypeOK, Row
  <2>2. [NoArgs EXCEPT !.step = row[t].step + 1] \in Args
    BY <2>1, NoArgsType DEF Args
  <2>3. QED
    BY <1>8, <2>2, CallUpdateTyped DEF RecordObservation, NoEvent
<1>9. ASSUME ConsumeCall(p, t) \/ ConsumeReplan(p, t) \/ ConsumeContinuation(p, t)
      PROVE  TypeInv'
  BY <1>9, ConsumeTyped DEF ConsumeCall, ConsumeReplan, ConsumeContinuation, Counters
<1>10. QED
  BY <1>1, <1>2, <1>3, <1>4, <1>5, <1>6, <1>7, <1>8, <1>9,
     ReadForSkillTyped, ReadForHandOffTyped DEF Calls

LEMMA NextTyped == TypeInv /\ [Next]_vars => TypeInv'
<1> SUFFICES ASSUME TypeInv, [Next]_vars PROVE TypeInv'
  OBVIOUS
<1>1. ASSUME NEW p \in Procs, Step(p)
      PROVE  TypeInv'
  BY <1>1, ReadTaskTyped, LoadRowTyped, CommitTyped, CheckSessionTyped, InsertTaskTyped,
     AppendSkillEventTyped, HandOffTyped, CrashTyped DEF Step
<1>2. CASE UNCHANGED vars
  BY <1>2 DEF vars, TypeInv, TypeOK, Addressed
<1>3. QED
  BY <1>1, <1>2, CallStartTyped, CallsTyped DEF Next

\* Every row, event, handoff and call has the shape the schema gives it, and a
\* call in flight is addressed to a task or session.
THEOREM TypeCorrect == Spec => []TypeOK
<1>1. Spec => []TypeInv
  BY InitTyped, NextTyped, PTL DEF Spec
<1>2. TypeInv => TypeOK
  BY DEF TypeInv
<1>3. QED
  BY <1>1, <1>2, PTL

-----------------------------------------------------------------------------
(* Safety. *)

Legal(from, to) == <<from, to>> \in AllowedMoves /\ to # "handed_off"

InLimits(b) == b.replans <= MaxReplans /\ b.continuations <= MaxContinuations

\* What the arguments of a call promise about the row they were made from.
Fits(r, a) ==
  /\ a.status = Keep \/ Legal(r.status, a.status)
  /\ a.budget = Keep \/ InLimits(a.budget)

\* What a call knows of the rows rs, by the place it has reached.
Knows(rs, c) ==
  LET cur == rs[c.task] IN
  /\ c.pc \in {"called", "applying", "writing", "skill", "handing"} => cur.status # "absent"
  /\ c.pc \in {"creating", "inserting"} => c.expected = None
  /\ c.pc = "called" => c.expected = None \/ c.expected <= cur.version
  /\ c.pc = "applying" => /\ c.expected <= cur.version
                          /\ c.expected = cur.version => Fits(cur, c.args)
  /\ c.pc \in {"writing", "skill", "handing"} =>
       /\ c.base.version <= cur.version
       /\ c.base.version = cur.version => cur = c.base
  /\ c.pc = "writing" => c.expected = c.base.version /\ Fits(c.base, c.args)
  /\ c.pc = "handing" =>
       /\ c.base.status \in {"running", "paused", "completed"}
       /\ ~(c.base.session = c.session /\ c.base.status \in Active)

\* A row changes only to a later version, and a task once created stays.
Grows(old, new) == new = old \/ (new.version > old.version /\ new.status # "absent")

RowsGrow == \A t \in Tasks : Grows(row[t], row'[t])

UnusedRows ==
  \A t \in Tasks : row[t].status = "absent" => row[t].version = 0 /\ row[t].pending = None

SafeInv ==
  /\ TypeInv
  /\ \A p \in Procs : Knows(row, local[p])
  /\ UnusedRows
  /\ OneActivePerSession
  /\ WithinBudget

-----------------------------------------------------------------------------
LEMMA KnowsKept ==
  ASSUME TypeInv, TypeInv', RowsGrow, NEW c \in Local, AddressedCall(c), Knows(row, c)
  PROVE  Knows(row', c)
<1>1. CASE c.pc \in {"called", "applying", "writing", "skill", "handing"}
  <2>1. c.task \in Tasks
    BY <1>1 DEF AddressedCall
  <2>2. row[c.task] \in Row /\ row'[c.task] \in Row
    BY <2>1 DEF TypeInv, TypeOK
  <2>3. row[c.task].version \in Nat /\ row'[c.task].version \in Nat /\ c.base.version \in Nat
    BY <2>2 DEF Row, Local
  <2>4. Grows(row[c.task], row'[c.task])
    BY <2>1 DEF RowsGrow
  <2>5. CASE row'[c.task] = row[c.task]
    BY <2>5 DEF Knows
  <2>6. CASE row'[c.task].version > row[c.task].version /\ row'[c.task].status # "absent"
    <3>1. c.pc = "called" => c.expected = None \/ c.expected <= row'[c.task].version
      BY <2>3, <2>6 DEF Knows, Local
    <3>2. c.pc = "applying" => c.expected <= row'[c.task].version
                               /\ c.expected # row'[c.task].version
      BY <2>3, <2>6 DEF Knows, AddressedCall
    <3>3. c.pc \in {"writing", "skill", "handing"} =>
            c.base.version <= row'[c.task].version /\ c.base.version # row'[c.task].version
      BY <2>3, <2>6 DEF Knows
    <3>4. QED
      BY <2>6, <3>1, <3>2, <3>3 DEF Knows
  <2>7. QED
    BY <2>4, <2>5, <2>6 DEF Grows
<1>2. CASE c.pc \in {"idle", "creating", "inserting"}
  BY <1>2 DEF Knows
<1>3. QED
  BY <1>1, <1>2 DEF Local

\* A step of p that lets the rows grow preserves what every process knows, once
\* it is shown for p itself.
LEMMA OthersKnow ==
  ASSUME SafeInv, TypeInv', RowsGrow, NEW p \in Procs, NEW d, Goto(p, d), Knows(row', d)
  PROVE  \A q \in Procs : Knows(row', local'[q])
<1> SUFFICES ASSUME NEW q \in Procs PROVE Knows(row', local'[q])
  OBVIOUS
<1>1. CASE q = p
  <2>1. local'[q] = d
    BY <1>1 DEF Goto, SafeInv, TypeInv, TypeOK
  <2>2. QED
    BY <2>1
<1>2. CASE q # p
  <2>1. local'[q] = local[q]
    BY <1>2 DEF Goto, SafeInv, TypeInv, TypeOK
  <2>2. local[q] \in Local /\ AddressedCall(local[q]) /\ Knows(row, local[q])
    BY DEF SafeInv, TypeInv, TypeOK, Addressed
  <2>3. QED
    BY <2>1, <2>2, KnowsKept DEF SafeInv
<1>3. QED
  BY <1>1, <1>2

\* A step that leaves the rows alone needs only what p knows after it.
LEMMA ReadStep ==
  ASSUME SafeInv, TypeInv', NEW p \in Procs, NEW d, Goto(p, d), row' = row, Knows(row, d)
  PROVE  SafeInv'
<1>1. RowsGrow
  BY DEF RowsGrow, Grows
<1>2. \A q \in Procs : Knows(row', local'[q])
  BY <1>1, OthersKnow
<1>3. UnusedRows' /\ OneActivePerSession' /\ WithinBudget'
  BY DEF SafeInv, UnusedRows, OneActivePerSession, WithinBudget
<1>4. QED
  BY <1>2, <1>3 DEF SafeInv

LEMMA IdleKnows == ASSUME NEW rs PROVE Knows(rs, Idle)
  BY DEF Knows, Idle

-----------------------------------------------------------------------------
\* The steps that only read. What a permitted transition goes on with fits the
\* row it read.
LEMMA ResolvedKnows ==
  ASSUME TypeInv, NEW c \in Local, c.op \in Ops, c.task \in Tasks, Permits(c),
         row[c.task].status # "absent",
         c.expected = None \/ c.expected <= row[c.task].version
  PROVE  Knows(row, Resolved(c))
<1> DEFINE view == row[c.task]
           args == TransitionArgs(view, Target[c.op], PendingArg(c.op, c.asked),
                                  DeadlineArg(c.op), StopArg(c.op))
<1>1. args.status = Target[c.op] /\ args.budget = Keep
  BY DEF TransitionArgs, NoArgs
<1>2. Target[c.op] # "handed_off"
  BY DEF Ops, ClientOps, RuntimeOps, Decisions, Target
<1>3. Fits(view, args)
  BY <1>1, <1>2 DEF Fits, Legal, Permits
<1>4. Expected(c.expected, view) <= view.version
  BY DEF Expected, TypeInv, TypeOK, Row
<1> HIDE DEF args
<1>5. Resolved(c) = [c EXCEPT !.pc = "applying",
                              !.op = IF c.op = "prepare" THEN "fail" ELSE None,
                              !.expected = Expected(c.expected, view),
                              !.asked = IF c.op \in Decisions THEN c.asked ELSE None,
                              !.args = args]
  BY DEF Resolved, args
<1>6. /\ Resolved(c).pc = "applying" /\ Resolved(c).task = c.task /\ Resolved(c).args = args
      /\ Resolved(c).expected = Expected(c.expected, view)
  BY <1>5 DEF Local
<1>7. QED
  BY <1>3, <1>4, <1>6 DEF Knows

LEMMA CallTransitionSafe ==
  ASSUME SafeInv, TypeInv', NEW p \in Procs, NEW op \in Ops, NEW t \in Tasks,
         NEW i \in EventIds \cup {None}, NEW x \in Nat \cup {None},
         x = None \/ x <= row[t].version, NEW a \in Pendings \cup {None},
         CallTransition(p, op, t, [id |-> i, expected |-> x, pending |-> a])
  PROVE  SafeInv'
<1> DEFINE c == Call(op, t, [id |-> i, expected |-> x, pending |-> a])
<1>1. c \in Local
  BY CallType
<1>2. c.op = op /\ c.task = t /\ c.expected = x
  BY DEF Call, Idle
<1>3. Permits(c) /\ Goto(p, Resolved(c)) /\ row' = row /\ row[t].status # "absent"
  BY DEF CallTransition
<1> HIDE DEF c
<1>4. Knows(row, Resolved(c))
  BY <1>1, <1>2, <1>3, ResolvedKnows DEF SafeInv
<1>5. QED
  BY <1>3, <1>4, ReadStep

LEMMA CallStartSafe ==
  ASSUME SafeInv, TypeInv', NEW p \in Procs, NEW s \in Sessions, NEW i \in EventIds \cup {None},
         CallStart(p, s, i)
  PROVE  SafeInv'
<1> DEFINE blank == Call("start", None, NoEvent)
           opening == [blank EXCEPT !.pc = "creating", !.session = s, !.id = i]
           taking(op, t) == [Call(op, t, NoEvent) EXCEPT !.id = i]
<1>1. Knows(row, opening)
  <2>1. blank \in Local /\ blank.expected = None
    <3>1. blank \in Local
      BY NoEventCallType DEF Ops
    <3>2. QED
      BY <3>1 DEF Call, Idle, NoEvent
  <2> HIDE DEF blank
  <2>2. opening.pc = "creating" /\ opening.expected = None
    BY <2>1 DEF Local
  <2>3. QED
    BY <2>2 DEF Knows
<1>2. ASSUME NEW op \in {"continue", "answer"}, NEW t \in Tasks, row[t].status # "absent"
      PROVE  Knows(row, taking(op, t))
  <2> DEFINE c == Call(op, t, NoEvent)
  <2>1. c \in Local
    BY NoEventCallType DEF Ops, ClientOps
  <2>2. c.pc = "called" /\ c.task = t /\ c.expected = None
    BY DEF Call, Idle, NoEvent
  <2> HIDE DEF c
  <2>3. [c EXCEPT !.id = i].pc = "called" /\ [c EXCEPT !.id = i].task = t
        /\ [c EXCEPT !.id = i].expected = None
    BY <2>1, <2>2 DEF Local
  <2>4. Knows(row, [c EXCEPT !.id = i])
    BY <1>2, <2>3 DEF Knows
  <2>5. QED
    BY <2>4 DEF c
<1>3. \/ Goto(p, opening)
      \/ \E t \in Tasks : /\ row[t].status # "absent"
                          /\ Goto(p, taking("continue", t)) \/ Goto(p, taking("answer", t))
  BY DEF CallStart
<1>4. row' = row
  BY DEF CallStart
<1> HIDE DEF opening, taking
<1>5. QED
  BY <1>1, <1>2, <1>3, <1>4, ReadStep

LEMMA CalledSafe ==
  ASSUME SafeInv, TypeInv', NEW p \in Procs, NEW op \in Ops, NEW t \in Tasks,
         NEW i \in EventIds \cup {None}, NEW x \in Nat \cup {None},
         x = None \/ x <= row[t].version, NEW a \in Pendings \cup {None},
         row[t].status # "absent", row' = row,
         Goto(p, Call(op, t, [id |-> i, expected |-> x, pending |-> a]))
  PROVE  SafeInv'
<1> DEFINE c == Call(op, t, [id |-> i, expected |-> x, pending |-> a])
<1>1. c.pc = "called" /\ c.task = t /\ c.expected = x
  BY DEF Call, Idle
<1> HIDE DEF c
<1>2. Knows(row, c)
  BY <1>1 DEF Knows
<1>3. QED
  BY <1>2, ReadStep DEF c

LEMMA ReturnSafe ==
  ASSUME SafeInv, TypeInv', NEW p \in Procs, Return(p), row' = row
  PROVE  SafeInv'
  BY IdleKnows, ReadStep DEF Return

LEMMA ReadTaskSafe ==
  ASSUME SafeInv, TypeInv', NEW p \in Procs, ReadTask(p)
  PROVE  SafeInv'
<1> DEFINE c == local[p]
<1>1. c \in Local /\ c.op \in Ops /\ c.task \in Tasks /\ c.pc = "called" /\ row' = row
  BY DEF ReadTask, SafeInv, TypeInv, TypeOK, Addressed, AddressedCall
<1>2. row[c.task].status # "absent" /\ (c.expected = None \/ c.expected <= row[c.task].version)
  BY <1>1 DEF SafeInv, Knows
<1>3. CASE Permits(c) /\ Goto(p, Resolved(c))
  <2>1. Knows(row, Resolved(c))
    BY <1>1, <1>2, <1>3, ResolvedKnows DEF SafeInv
  <2>2. QED
    BY <1>1, <1>3, <2>1, ReadStep
<1>4. CASE Return(p)
  BY <1>1, <1>4, ReturnSafe
<1>5. QED
  BY <1>3, <1>4 DEF ReadTask

LEMMA CallUpdateSafe ==
  ASSUME SafeInv, TypeInv', NEW p \in Procs, NEW t \in Tasks,
         NEW i \in EventIds \cup {None}, NEW x \in Nat \cup {None},
         x = None \/ x <= row[t].version,
         NEW args \in Args, NEW spent \in Counters \cup {"step", None},
         args.status = Keep, args.budget = Keep \/ InLimits(args.budget),
         CallUpdate(p, t, [id |-> i, expected |-> x, pending |-> None], args, spent)
  PROVE  SafeInv'
<1> DEFINE c == Call(None, t, [id |-> i, expected |-> x, pending |-> None])
           d == [c EXCEPT !.pc = "applying", !.args = args, !.spent = spent,
                          !.expected = Expected(x, row[t])]
<1>1. c \in Local
  BY CallType
<1>2. c.task = t /\ c.expected = x
  BY DEF Call, Idle
<1>3. Expected(x, row[t]) <= row[t].version
  BY DEF Expected, SafeInv, TypeInv, TypeOK, Row
<1>4. Goto(p, [c EXCEPT !.pc = "applying", !.args = args, !.spent = spent,
                        !.expected = Expected(c.expected, row[t])])
  BY DEF CallUpdate
<1>5. row' = row /\ row[t].status # "absent"
  BY DEF CallUpdate, Active
<1> HIDE DEF c
<1>6. d.pc = "applying" /\ d.task = t /\ d.args = args /\ d.expected = Expected(x, row[t])
  BY <1>1, <1>2 DEF Local
<1>7. Goto(p, d)
  BY <1>2, <1>4
<1> HIDE DEF d
<1>8. Knows(row, d)
  BY <1>3, <1>5, <1>6 DEF Knows, Fits
<1>9. QED
  BY <1>5, <1>7, <1>8, ReadStep

LEMMA LoadRowSafe ==
  ASSUME SafeInv, TypeInv', NEW p \in Procs, LoadRow(p)
  PROVE  SafeInv'
<1> DEFINE c == local[p]
           d == [c EXCEPT !.pc = "writing", !.base = row[c.task],
                          !.seq = NextSequence(c.task)]
<1>1. c \in Local /\ c.task \in Tasks /\ c.pc = "applying" /\ Knows(row, c) /\ row' = row
  BY DEF LoadRow, SafeInv, TypeInv, TypeOK, Addressed, AddressedCall
<1>2. row[c.task].version \in Nat
  BY <1>1 DEF SafeInv, TypeInv, TypeOK, Row
<1>3. \/ c.expected = row[c.task].version /\ Goto(p, d)
      \/ Return(p)
  BY DEF LoadRow
<1>4. CASE c.expected = row[c.task].version /\ Goto(p, d)
  <2> HIDE DEF c
  <2>1. /\ d.pc = "writing" /\ d.task = c.task /\ d.base = row[c.task]
        /\ d.args = c.args /\ d.expected = c.expected
    BY <1>1 DEF Local
  <2> HIDE DEF d
  <2>2. Knows(row, d)
    BY <1>1, <1>2, <1>4, <2>1 DEF Knows
  <2>3. QED
    BY <1>1, <1>4, <2>2, ReadStep
<1>5. CASE Return(p)
  BY <1>1, <1>5, ReturnSafe
<1>6. QED
  BY <1>3, <1>4, <1>5

LEMMA CheckSessionSafe ==
  ASSUME SafeInv, TypeInv', NEW p \in Procs, CheckSession(p)
  PROVE  SafeInv'
<1> DEFINE c == local[p]
           d == [c EXCEPT !.pc = "inserting"]
<1>1. /\ c \in Local /\ row' = row /\ (Goto(p, d) \/ Return(p))
      /\ c.pc = "creating" /\ Knows(row, c)
  BY DEF CheckSession, SafeInv, TypeInv, TypeOK
<1> HIDE DEF c
<1>2. Knows(row, d)
  BY <1>1 DEF Local, Knows
<1>3. QED
  BY <1>1, <1>2, ReadStep, ReturnSafe

LEMMA ReadForSkillSafe ==
  ASSUME SafeInv, TypeInv', NEW p \in Procs, NEW t \in Tasks, ReadForSkill(p, t)
  PROVE  SafeInv'
<1> DEFINE d == [Idle EXCEPT !.pc = "skill", !.task = t, !.base = row[t]]
<1>1. d.pc = "skill" /\ d.task = t /\ d.base = row[t]
  BY DEF Idle
<1>2. row[t].version \in Nat /\ row[t].status # "absent" /\ row' = row /\ Goto(p, d)
  BY DEF ReadForSkill, SafeInv, TypeInv, TypeOK, Row
<1> HIDE DEF d
<1>3. Knows(row, d)
  BY <1>1, <1>2 DEF Knows
<1>4. QED
  BY <1>2, <1>3, ReadStep

LEMMA ReadForHandOffSafe ==
  ASSUME SafeInv, TypeInv', NEW p \in Procs, NEW t \in Tasks, NEW s \in Sessions,
         ReadForHandOff(p, t, s)
  PROVE  SafeInv'
<1> DEFINE d == [Idle EXCEPT !.pc = "handing", !.task = t, !.session = s,
                             !.seq = NextSequence(t), !.base = row[t]]
<1>1. d.pc = "handing" /\ d.task = t /\ d.base = row[t] /\ d.session = s
  BY DEF Idle
<1>2. /\ row[t].version \in Nat /\ row[t].status \in {"running", "paused", "completed"}
      /\ ~(row[t].session = s /\ row[t].status \in Active)
      /\ row' = row /\ Goto(p, d)
  BY DEF ReadForHandOff, Free, SafeInv, TypeInv, TypeOK, Row
<1> HIDE DEF d
<1>3. Knows(row, d)
  BY <1>1, <1>2 DEF Knows
<1>4. QED
  BY <1>2, <1>3, ReadStep

-----------------------------------------------------------------------------
\* The steps that write. Each lets the rows grow and opens no second task.
LEMMA LegalFacts ==
  ASSUME NEW from, NEW to, Legal(from, to)
  PROVE  /\ from \in Statuses /\ to \in Statuses /\ to # "absent"
         /\ to \in Active => from \in Active
  BY DEF Legal, AllowedMoves, Statuses, Active, Terminal

\* What a successful commit does to its row, in terms of the row it finds.
LEMMA CommitCases ==
  ASSUME SafeInv, NEW p \in Procs, Commit(p)
  PROVE  LET c == local[p]  t == c.task IN
         \/ UNCHANGED <<row, log, parent>> /\ Return(p)
         \/ /\ Unmoved(t, c.base) /\ c.base = row[t] /\ t \in Tasks
            /\ Insertable(t, c.seq, c.id)
            /\ row' = [row EXCEPT ![t] = Applied(row[t], c.args)]
            /\ Record(t, <<[id |-> c.id, from |-> row[t].status,
                            to |-> Applied(row[t], c.args).status, spent |-> c.spent]>>)
            /\ parent' = parent
            /\ Fits(row[t], c.args) /\ row[t].status # "absent" /\ c.args \in Args
            /\ Goto(p, Call("fail", t, NoEvent)) \/ Return(p)
<1> DEFINE c == local[p]
           t == c.task
<1>1. c \in Local /\ t \in Tasks /\ c.pc = "writing" /\ Knows(row, c)
  BY DEF Commit, SafeInv, TypeInv, TypeOK, Addressed, AddressedCall
<1>2. /\ Unmoved(t, c.base) => c.base = row[t]
      /\ Fits(c.base, c.args) /\ row[t].status # "absent"
  BY <1>1 DEF Knows, Unmoved
<1>3. c.args \in Args
  BY <1>1 DEF Local
<1>4. CASE Unmoved(t, c.base) /\ Insertable(t, c.seq, c.id)
  <2>1. c.base = row[t]
    BY <1>2, <1>4
  <2>2. QED
    BY <1>1, <1>2, <1>3, <1>4, <2>1 DEF Commit
<1>5. CASE ~(Unmoved(t, c.base) /\ Insertable(t, c.seq, c.id))
  BY <1>5 DEF Commit
<1>6. QED
  BY <1>4, <1>5

LEMMA CommitSafe ==
  ASSUME SafeInv, TypeInv', NEW p \in Procs, Commit(p)
  PROVE  SafeInv'
<1> DEFINE c == local[p]
           t == c.task
           new == Applied(row[t], c.args)
<1>1. CASE UNCHANGED <<row, log, parent>> /\ Return(p)
  BY <1>1, ReturnSafe
<1>2. CASE /\ t \in Tasks /\ row' = [row EXCEPT ![t] = new]
           /\ Fits(row[t], c.args) /\ row[t].status # "absent" /\ c.args \in Args
           /\ Goto(p, Call("fail", t, NoEvent)) \/ Return(p)
  <2>1. row[t] \in Row
    BY <1>2 DEF SafeInv, TypeInv, TypeOK
  <2>2. /\ new.version = row[t].version + 1 /\ new.session = row[t].session
        /\ new.status = Choose(c.args.status, row[t].status)
        /\ new.budget = Choose(c.args.budget, row[t].budget)
    BY <2>1 DEF Applied, Row
  <2>3. new.status # "absent" /\ (new.status \in Active => row[t].status \in Active)
    BY <1>2, <2>2, LegalFacts DEF Fits, Choose
  <2>4. InLimits(new.budget)
    BY <1>2, <2>2 DEF Fits, Choose, SafeInv, WithinBudget, InLimits
  <2> HIDE DEF new
  <2>5. row'[t] = new /\ \A u \in Tasks \ {t} : row'[u] = row[u]
    BY <1>2 DEF SafeInv, TypeInv, TypeOK
  <2>6. RowsGrow
    BY <2>1, <2>2, <2>3, <2>5 DEF RowsGrow, Grows, Row
  <2>7. \A q \in Procs : Knows(row', local'[q])
    <3>1. Knows(row', Call("fail", t, NoEvent))
      BY <2>3, <2>5 DEF Knows, Call, Idle, NoEvent
    <3>2. Knows(row', Idle)
      BY IdleKnows
    <3>3. QED
      BY <1>2, <2>6, <3>1, <3>2, OthersKnow DEF Return
  <2>8. UnusedRows'
    BY <2>3, <2>5 DEF SafeInv, UnusedRows
  <2>9. OneActivePerSession'
    BY <2>2, <2>3, <2>5 DEF SafeInv, OneActivePerSession
  <2>10. WithinBudget'
    BY <2>4, <2>5 DEF SafeInv, WithinBudget, InLimits
  <2>11. QED
    BY <2>7, <2>8, <2>9, <2>10 DEF SafeInv
<1>3. QED
  BY <1>1, <1>2, CommitCases

LEMMA InsertTaskSafe ==
  ASSUME SafeInv, TypeInv', NEW p \in Procs, InsertTask(p)
  PROVE  SafeInv'
<1> DEFINE c == local[p]
           d(t) == [c EXCEPT !.pc = "called", !.task = t, !.session = None]
           new == CreatedRow(c.session, 0, FreshBudget)
<1>1. CASE UNCHANGED <<row, log, parent>> /\ Return(p)
  BY <1>1, ReturnSafe
<1>2. ASSUME NEW t \in Tasks, row[t].status = "absent", IndexAdmits(c.session, {}),
             row' = [row EXCEPT ![t] = new], Goto(p, d(t))
      PROVE  SafeInv'
  <2>1. c \in Local /\ c.pc = "inserting" /\ Knows(row, c)
    BY DEF InsertTask, SafeInv, TypeInv, TypeOK
  <2>2. new.version = 1 /\ new.status = "created" /\ new.session = c.session
        /\ new.budget = FreshBudget
    BY DEF CreatedRow, NoRow
  <2> HIDE DEF new
  <2>3. row'[t] = new /\ \A u \in Tasks \ {t} : row'[u] = row[u]
    BY <1>2 DEF SafeInv, TypeInv, TypeOK
  <2>4. RowsGrow
    BY <1>2, <2>2, <2>3 DEF RowsGrow, Grows, SafeInv, UnusedRows
  <2>5. d(t).pc = "called" /\ d(t).task = t /\ d(t).expected = None
    BY <2>1 DEF Local, Knows
  <2> HIDE DEF d
  <2>6. Knows(row', d(t))
    BY <2>2, <2>3, <2>5 DEF Knows
  <2>7. \A q \in Procs : Knows(row', local'[q])
    BY <1>2, <2>4, <2>6, OthersKnow
  <2>8. UnusedRows'
    BY <2>2, <2>3 DEF SafeInv, UnusedRows
  <2>9. OneActivePerSession'
    BY <1>2, <2>2, <2>3 DEF SafeInv, OneActivePerSession, IndexAdmits
  <2>10. WithinBudget'
    BY <2>2, <2>3, BudgetAssumption DEF SafeInv, WithinBudget, FreshBudget
  <2>11. QED
    BY <2>7, <2>8, <2>9, <2>10 DEF SafeInv
<1>3. QED
  BY <1>1, <1>2 DEF InsertTask

LEMMA AppendSkillEventSafe ==
  ASSUME SafeInv, TypeInv', NEW p \in Procs, AppendSkillEvent(p)
  PROVE  SafeInv'
<1> DEFINE t == local[p].task
<1>1. t \in Tasks /\ Knows(row, local[p]) /\ local[p].pc = "skill" /\ Return(p)
  BY DEF AppendSkillEvent, SafeInv, TypeInv, TypeOK, Addressed, AddressedCall
<1>2. row[t].status # "absent" /\ row[t] \in Row
  BY <1>1 DEF Knows, SafeInv, TypeInv, TypeOK
<1>3. CASE row' = row
  BY <1>1, <1>3, ReturnSafe
<1>4. CASE row' = [row EXCEPT ![t].version = local[p].base.version + 1]
           /\ local[p].base.version = row[t].version
  <2>1. /\ row'[t] = [row[t] EXCEPT !.version = row[t].version + 1]
        /\ \A u \in Tasks \ {t} : row'[u] = row[u]
    BY <1>1, <1>4 DEF SafeInv, TypeInv, TypeOK
  <2>2. /\ row'[t].version = row[t].version + 1 /\ row'[t].status = row[t].status
        /\ row'[t].session = row[t].session /\ row'[t].budget = row[t].budget
    BY <1>2, <2>1 DEF Row
  <2>3. RowsGrow
    BY <1>2, <2>1, <2>2 DEF RowsGrow, Grows, Row
  <2>4. \A q \in Procs : Knows(row', local'[q])
    BY <1>1, <2>3, IdleKnows, OthersKnow DEF Return
  <2>5. UnusedRows'
    BY <1>2, <2>1, <2>2 DEF SafeInv, UnusedRows
  <2>6. OneActivePerSession'
    <3>1. \A u \in Tasks : row'[u].status = row[u].status /\ row'[u].session = row[u].session
      BY <2>1, <2>2
    <3>2. QED
      BY <3>1 DEF SafeInv, OneActivePerSession
  <2>7. WithinBudget'
    BY <2>1, <2>2 DEF SafeInv, WithinBudget
  <2>8. QED
    BY <2>4, <2>5, <2>6, <2>7 DEF SafeInv
<1>5. QED
  BY <1>3, <1>4 DEF AppendSkillEvent, Unmoved

\* A handoff that goes through finds its source as it read it, and the session
\* of the child free, the source included.
HandsOver(p, child, skills) ==
  LET c == local[p]  t == c.task IN
  /\ t \in Tasks /\ child # t /\ row[t] \in Row /\ c.base = row[t]
  /\ row[t].status \in {"running", "paused", "completed"}
  /\ row[child].status = "absent"
  /\ Free(c.session)
  /\ row'[t] = HandedOff(row[t], row[t])
  /\ row'[child] = [CreatedRow(c.session, row[t].step, row[t].budget)
                      EXCEPT !.version = 1 + skills]
  /\ \A u \in Tasks : u # t /\ u # child => row'[u] = row[u]

LEMMA CompletesFacts ==
  ASSUME SafeInv, NEW p \in Procs, HandOff(p), Unmoved(local[p].task, local[p].base),
         IndexAdmits(local[p].session, {local[p].task}),
         NEW child \in Tasks, NEW skills \in 0 .. MaxInherited, Completes(p, child, skills)
  PROVE  HandsOver(p, child, skills)
<1> DEFINE c == local[p]
           t == c.task
<1>1. t \in Tasks /\ Knows(row, c) /\ c.pc = "handing"
  BY DEF HandOff, SafeInv, TypeInv, TypeOK, Addressed, AddressedCall
<1>2. row[t] \in Row /\ c.base = row[t]
  BY <1>1 DEF Knows, Unmoved, SafeInv, TypeInv, TypeOK
<1>3. row[t].status \in {"running", "paused", "completed"}
      /\ ~(row[t].session = c.session /\ row[t].status \in Active)
  BY <1>1, <1>2 DEF Knows
<1>4. row[child].status = "absent"
  BY DEF Completes
<1>5. child # t
  BY <1>3, <1>4
<1>6. Free(c.session)
  BY <1>3 DEF IndexAdmits, Free
<1>7. row' = [row EXCEPT
         ![t] = HandedOff(row[t], row[t]),
         ![child] = [CreatedRow(c.session, row[t].step, row[t].budget)
                       EXCEPT !.version = 1 + skills]]
  BY <1>2 DEF Completes
<1>8. QED
  BY <1>1, <1>2, <1>3, <1>4, <1>5, <1>6, <1>7 DEF HandsOver, SafeInv, TypeInv, TypeOK

LEMMA HandedOffFacts ==
  ASSUME NEW r \in Row
  PROVE  LET new == HandedOff(r, r) IN
         /\ new.status = "handed_off" /\ new.version = r.version + 1
         /\ new.session = r.session /\ new.budget = r.budget /\ new.step = r.step
  BY DEF HandedOff, Row

LEMMA BornFacts ==
  ASSUME NEW s, NEW st, NEW b, NEW v
  PROVE  LET new == [CreatedRow(s, st, b) EXCEPT !.version = v] IN
         /\ new.status = "created" /\ new.version = v
         /\ new.session = s /\ new.budget = b /\ new.step = st
  BY DEF CreatedRow, NoRow

LEMMA HandOffSafe ==
  ASSUME SafeInv, TypeInv', NEW p \in Procs, HandOff(p)
  PROVE  SafeInv'
<1> DEFINE c == local[p]
           t == c.task
<1>1. Return(p)
  BY DEF HandOff
<1>2. CASE UNCHANGED <<row, log, parent>>
  BY <1>1, <1>2, ReturnSafe
<1>3. ASSUME Unmoved(t, c.base), IndexAdmits(c.session, {t}),
             NEW child \in Tasks, NEW skills \in 0 .. MaxInherited, Completes(p, child, skills)
      PROVE  SafeInv'
  <2>1. /\ t \in Tasks /\ child # t /\ row[t] \in Row
        /\ row[t].status \in {"running", "paused", "completed"}
        /\ row[child].status = "absent"
        /\ Free(c.session)
        /\ row'[t] = HandedOff(row[t], row[t])
        /\ row'[child] = [CreatedRow(c.session, row[t].step, row[t].budget)
                            EXCEPT !.version = 1 + skills]
        /\ \A u \in Tasks : u # t /\ u # child => row'[u] = row[u]
    <3>1. HandsOver(p, child, skills)
      BY <1>3, CompletesFacts
    <3>2. QED
      BY <3>1 DEF HandsOver
  <2> HIDE DEF c, t
  <2>2. /\ row'[t].status = "handed_off" /\ row'[t].version = row[t].version + 1
        /\ row'[t].budget = row[t].budget
    BY <2>1, HandedOffFacts
  <2>3. /\ row'[child].status = "created" /\ row'[child].version = 1 + skills
        /\ row'[child].session = c.session /\ row'[child].budget = row[t].budget
    BY <2>1, BornFacts
  <2>4. skills \in Nat /\ row[t].version \in Nat /\ row[child].version = 0
    BY <2>1, ProcsAssumption DEF SafeInv, UnusedRows, Row
  <2>5. RowsGrow
    <3>1. Grows(row[t], row'[t])
      BY <2>2, <2>4 DEF Grows
    <3>2. Grows(row[child], row'[child])
      BY <2>3, <2>4 DEF Grows
    <3>3. QED
      BY <2>1, <3>1, <3>2 DEF RowsGrow, Grows
  <2>6. \A q \in Procs : Knows(row', local'[q])
    BY <1>1, <2>5, IdleKnows, OthersKnow DEF Return
  <2>7. UnusedRows'
    BY <2>1, <2>2, <2>3 DEF SafeInv, UnusedRows
  <2>8. OneActivePerSession'
    <3>1. ASSUME NEW u \in Tasks, NEW v \in Tasks,
                 row'[u].status \in Active, row'[v].status \in Active,
                 row'[u].session = row'[v].session
          PROVE  u = v
      <4>1. u # t /\ v # t
        BY <2>2, <3>1 DEF Active
      <4>2. CASE u = child \/ v = child
        <5>1. ASSUME NEW w \in Tasks, w # t, w # child,
                     row'[w].session = c.session, row'[w].status \in Active
              PROVE  FALSE
          <6>1. row'[w] = row[w]
            BY <2>1, <5>1
          <6>2. QED
            BY <2>1, <5>1, <6>1 DEF Free
        <5>2. QED
          BY <2>3, <3>1, <4>1, <4>2, <5>1
      <4>3. CASE u # child /\ v # child
        BY <2>1, <3>1, <4>1, <4>3 DEF SafeInv, OneActivePerSession
      <4>4. QED
        BY <4>2, <4>3
    <3>2. QED
      BY <3>1 DEF OneActivePerSession
  <2>9. WithinBudget'
    <3>1. InLimits(row[t].budget)
      BY <2>1 DEF SafeInv, WithinBudget, InLimits
    <3>2. \A u \in Tasks : InLimits(row'[u].budget)
      BY <2>1, <2>2, <2>3, <3>1 DEF SafeInv, WithinBudget, InLimits
    <3>3. QED
      BY <3>2 DEF WithinBudget, InLimits
  <2>10. QED
    BY <2>6, <2>7, <2>8, <2>9 DEF SafeInv
<1>4. QED
  BY <1>2, <1>3, HandOffCases

-----------------------------------------------------------------------------
LEMMA InitSafe == Init => SafeInv
<1> SUFFICES ASSUME Init PROVE SafeInv
  OBVIOUS
<1>1. TypeInv
  BY InitTyped
<1>2. \A p \in Procs : Knows(row, local[p])
  BY IdleKnows DEF Init
<1>3. UnusedRows /\ OneActivePerSession /\ WithinBudget
  BY BudgetAssumption DEF Init, NoRow, UnusedRows, OneActivePerSession, Active,
                          WithinBudget, FreshBudget
<1>4. QED
  BY <1>1, <1>2, <1>3 DEF SafeInv

LEMMA EventExpects ==
  ASSUME NEW t \in Tasks, NEW e \in Events(t), row[t].version \in Nat
  PROVE  e.expected = None \/ e.expected <= row[t].version
<1>1. e.expected \in (1 .. row[t].version) \cup {None}
  BY Zenon DEF Events
<1>2. QED
  BY <1>1

LEMMA ConsumeSafe ==
  ASSUME SafeInv, TypeInv', NEW p \in Procs, NEW t \in Tasks, NEW k \in Counters, Consume(p, t, k),
         k = "replans" => row[t].budget.replans < MaxReplans,
         k = "continuations" => row[t].budget.continuations < MaxContinuations
  PROVE  SafeInv'
<1> DEFINE b == Spent(row[t], k)
           args == [NoArgs EXCEPT !.budget = b]
<1>1. row[t].budget \in Budget /\ InLimits(row[t].budget)
  BY DEF SafeInv, TypeInv, TypeOK, Row, WithinBudget, InLimits
<1>2. b \in Budget /\ InLimits(b)
  <2>1. CASE k = "calls"
    BY <1>1, <2>1 DEF Spent, Budget, InLimits
  <2>2. CASE k = "replans"
    BY <1>1, <2>2, BudgetAssumption DEF Spent, Budget, InLimits
  <2>3. CASE k = "continuations"
    BY <1>1, <2>3, BudgetAssumption DEF Spent, Budget, InLimits
  <2>4. QED
    BY <2>1, <2>2, <2>3 DEF Counters
<1>3. CallUpdate(p, t, [id |-> None, expected |-> None, pending |-> None], args, k)
  BY DEF Consume, NoEvent
<1> HIDE DEF b
<1>4. args \in Args
  BY <1>2, NoArgsType DEF Args
<1>5. args.status = Keep /\ args.budget = b
  BY DEF NoArgs
<1> HIDE DEF args
<1>6. QED
  BY <1>2, <1>3, <1>4, <1>5, CallUpdateSafe

LEMMA CallsSafe ==
  ASSUME SafeInv, TypeInv', NEW p \in Procs, NEW t \in Tasks, Calls(p, t)
  PROVE  SafeInv'
<1>1. TypeOK /\ row[t].version \in Nat
  BY DEF SafeInv, TypeInv, TypeOK, Row
<1>2. \A e \in Events(t) : [e EXCEPT !.pending = None]
                             = [id |-> e.id, expected |-> e.expected, pending |-> None]
  BY <1>1, EventType
<1>3. ASSUME NEW op \in ClientOps, NEW e \in Events(t),
             CallTransition(p, op, t, [e EXCEPT !.pending = None])
      PROVE  SafeInv'
  BY <1>1, <1>2, <1>3, EventType, EventExpects, CallTransitionSafe DEF Ops
<1>4. ASSUME NEW op \in RuntimeOps, CallTransition(p, op, t, NoEvent)
      PROVE  SafeInv'
  BY <1>4, CallTransitionSafe DEF NoEvent, Ops
<1>5. ASSUME NEW a \in Pendings,
             CallTransition(p, "wait_for_user", t, [NoEvent EXCEPT !.pending = a])
      PROVE  SafeInv'
  <2>1. [NoEvent EXCEPT !.pending = a] = [id |-> None, expected |-> None, pending |-> a]
    BY DEF NoEvent
  <2>2. QED
    BY <1>5, <2>1, CallTransitionSafe DEF Ops
<1>6. ASSUME NEW op \in Decisions, NEW e \in Events(t), CallDecide(p, op, t, e)
      PROVE  SafeInv'
  <2>1. row[t].status # "absent"
    BY <1>6 DEF CallDecide, SafeInv, UnusedRows
  <2>2. QED
    BY <1>1, <1>6, <2>1, EventType, EventExpects, CalledSafe DEF CallDecide, Ops
<1>7. ASSUME CallFail(p, t)
      PROVE  SafeInv'
  BY <1>7, CalledSafe DEF CallFail, Ops, NoEvent, Active
<1>8. ASSUME NEW e \in Events(t), RecordUserMessage(p, t, [e EXCEPT !.pending = None])
      PROVE  SafeInv'
  <2>1. NoArgs.status = Keep /\ NoArgs.budget = Keep
    BY DEF NoArgs
  <2>2. QED
    BY <1>1, <1>2, <1>8, <2>1, EventType, EventExpects, NoArgsType, CallUpdateSafe
       DEF RecordUserMessage
<1>9. ASSUME UpdateContext(p, t)
      PROVE  SafeInv'
  <2>1. NoArgs.status = Keep /\ NoArgs.budget = Keep
    BY DEF NoArgs
  <2>2. QED
    BY <1>9, <2>1, NoArgsType, CallUpdateSafe DEF UpdateContext, NoEvent
<1>10. ASSUME RecordObservation(p, t)
       PROVE  SafeInv'
  <2> DEFINE args == [NoArgs EXCEPT !.step = row[t].step + 1]
  <2>1. row[t].step + 1 \in Nat
    BY DEF SafeInv, TypeInv, TypeOK, Row
  <2>2. args \in Args /\ args.status = Keep /\ args.budget = Keep
    BY <2>1, NoArgsType DEF Args, NoArgs
  <2>3. CallUpdate(p, t, NoEvent, args, "step")
    BY <1>10 DEF RecordObservation
  <2> HIDE DEF args
  <2>4. QED
    BY <2>2, <2>3, CallUpdateSafe DEF NoEvent
<1>11. ASSUME ConsumeCall(p, t) \/ ConsumeReplan(p, t) \/ ConsumeContinuation(p, t)
       PROVE  SafeInv'
  BY <1>11, ConsumeSafe DEF ConsumeCall, ConsumeReplan, ConsumeContinuation, Counters
<1>12. QED
  BY <1>3, <1>4, <1>5, <1>6, <1>7, <1>8, <1>9, <1>10, <1>11,
     ReadForSkillSafe, ReadForHandOffSafe DEF Calls

LEMMA NextSafe == SafeInv /\ [Next]_vars => SafeInv'
<1> SUFFICES ASSUME SafeInv, [Next]_vars PROVE SafeInv'
  OBVIOUS
<1>1. TypeInv'
  BY NextTyped DEF SafeInv
<1>2. ASSUME NEW p \in Procs, Step(p)
      PROVE  SafeInv'
  <2>1. Crash(p) => SafeInv'
    BY <1>1, ReturnSafe DEF Crash
  <2>2. QED
    BY <1>1, <1>2, <2>1, ReadTaskSafe, LoadRowSafe, CommitSafe, CheckSessionSafe,
       InsertTaskSafe, AppendSkillEventSafe, HandOffSafe DEF Step
<1>3. CASE UNCHANGED vars
  BY <1>1, <1>3 DEF vars, SafeInv, UnusedRows, OneActivePerSession, WithinBudget
<1>4. QED
  BY <1>1, <1>2, <1>3, CallStartSafe, CallsSafe DEF Next

\* The inductive invariant holds in every behaviour: versions only grow, and calls
\* in flight know what Knows says.
THEOREM SafeInvariant == Spec => []SafeInv
  BY InitSafe, NextSafe, PTL DEF Spec

\* However create_task, handoff_task and the status changes of several processes
\* interleave, a session never has two open tasks.
THEOREM OneActive == Spec => []OneActivePerSession
<1>1. SafeInv => OneActivePerSession
  BY DEF SafeInv
<1>2. QED
  BY <1>1, SafeInvariant, PTL

\* Replans and continuations stay within their limits, also across handoffs and
\* when several processes check the limit at once.
THEOREM BudgetKept == Spec => []WithinBudget
<1>1. SafeInv => WithinBudget
  BY DEF SafeInv
<1>2. QED
  BY <1>1, SafeInvariant, PTL

\* The version compared by an UPDATE stands for the whole row the call has read.
THEOREM ReadsTrue == Spec => []ReadsStayTrue
<1>1. SafeInv => ReadsStayTrue
  BY DEF SafeInv, ReadsStayTrue, Knows, Unmoved
<1>2. QED
  BY <1>1, SafeInvariant, PTL

LEMMA CommitsIsCommit ==
  ASSUME SafeInv, Next, NEW p \in Procs, Commits(p)
  PROVE  Commit(p) /\ log' # log
<1>1. local[p].pc = "writing" /\ local'[p] # local[p] /\ log' # log
  BY DEF Commits
<1>2. ASSUME NEW q \in Procs, NEW d, Goto(q, d) PROVE q = p
  BY <1>1, <1>2 DEF Goto, SafeInv, TypeInv, TypeOK
<1>3. local[p] # Idle
  BY <1>1 DEF Idle
<1>4. ASSUME NEW q \in Procs, Step(q) PROVE Commit(p)
  <2>1. q = p
    BY <1>2, <1>4 DEF Step, ReadTask, LoadRow, Commit, CheckSession, InsertTask,
                      AppendSkillEvent, HandOff, Crash, Return
  <2>2. QED
    BY <1>1, <1>4, <2>1 DEF Step, ReadTask, LoadRow, CheckSession, InsertTask,
                            AppendSkillEvent, HandOff, Crash
<1>5. ASSUME NEW q \in Procs, NEW s \in Sessions, NEW i \in EventIds \cup {None}, CallStart(q, s, i)
      PROVE  FALSE
  BY <1>1, <1>5 DEF CallStart
<1>6. ASSUME NEW q \in Procs, NEW t \in Tasks, Calls(q, t)
      PROVE  FALSE
  BY <1>1, <1>6 DEF Calls, CallTransition, CallDecide, CallFail, RecordUserMessage,
                    UpdateContext, RecordObservation, ConsumeCall, ConsumeReplan,
                    ConsumeContinuation, Consume, CallUpdate, ReadForSkill, ReadForHandOff
<1>7. QED
  BY <1>1, <1>4, <1>5, <1>6 DEF Next

\* No change is applied to a version other than the one its event expects.
THEOREM StaleRejected == Spec => StaleEventRejected
<1>1. ASSUME SafeInv, [Next]_vars
      PROVE  [\A p \in Procs : Commits(p)
                => local[p].expected = row[local[p].task].version]_vars
  <2> SUFFICES ASSUME Next, NEW p \in Procs, Commits(p)
               PROVE  local[p].expected = row[local[p].task].version
    BY <1>1
  <2>1. Commit(p) /\ log' # log
    BY <1>1, CommitsIsCommit
  <2>2. local[p].base.version = row[local[p].task].version
    BY <2>1 DEF Commit, Unmoved
  <2>3. local[p].expected = local[p].base.version
    BY <1>1, <2>1 DEF Commit, SafeInv, Knows
  <2>4. QED
    BY <2>2, <2>3
<1>2. QED
  BY <1>1, SafeInvariant, PTL DEF Spec, StaleEventRejected

-----------------------------------------------------------------------------
\* The refinement: what a step of a process does to statuses, sessions and
\* handoffs is one step of TaskMachine, or none.
LEMMA Stutters ==
  ASSUME \A t \in Tasks : row'[t].status = row[t].status /\ row'[t].session = row[t].session,
         parent' = parent
  PROVE  UNCHANGED Machine!vars
  BY DEF Machine!vars

\* TaskMachine and TaskLifecycle read the same tables of TaskStore.
LEMMA SameTables ==
  /\ Machine!Active = Active
  /\ Machine!Statuses = Statuses
  /\ Machine!AllowedMoves = AllowedMoves
<1>1. Machine!Active = Active /\ Machine!Terminal = Terminal
  BY DEF Machine!Active, Active, Machine!Terminal, Terminal
<1>2. QED
  BY <1>1 DEF Machine!Statuses, Statuses, Machine!AllowedMoves, AllowedMoves

LEMMA CommitMoves ==
  ASSUME SafeInv, NEW p \in Procs, Commit(p)
  PROVE  Machine!Next \/ UNCHANGED Machine!vars
<1> DEFINE c == local[p]
           t == c.task
           new == Applied(row[t], c.args)
<1>1. CASE UNCHANGED <<row, log, parent>>
  BY <1>1, Stutters
<1>2. CASE /\ t \in Tasks /\ row' = [row EXCEPT ![t] = new] /\ parent' = parent
           /\ Fits(row[t], c.args)
  <2>1. row[t] \in Row
    BY <1>2 DEF SafeInv, TypeInv, TypeOK
  <2>2. new.session = row[t].session /\ new.status = Choose(c.args.status, row[t].status)
    BY <2>1 DEF Applied, Row
  <2> HIDE DEF new
  <2>3. row'[t] = new /\ \A u \in Tasks : u # t => row'[u] = row[u]
    BY <1>2 DEF SafeInv, TypeInv, TypeOK
  <2>4. CASE c.args.status = Keep
    BY <1>2, <2>2, <2>3, <2>4, Stutters DEF Choose
  <2>5. CASE c.args.status # Keep
    <3>1. Legal(row[t].status, new.status)
      BY <1>2, <2>2, <2>5 DEF Fits, Choose
    <3>2. new.status \in Statuses
      BY <3>1, LegalFacts
    <3>3. PICK u \in Tasks, to \in Statuses : u = t /\ to = new.status
      BY <1>2, <3>2
    <3>4. Machine!Move(u, to)
      BY <1>2, <2>2, <2>3, <3>1, <3>3, SameTables DEF Machine!Move, Legal
    <3>5. QED
      BY <3>4, SameTables DEF Machine!Next
  <2>6. QED
    BY <2>4, <2>5
<1>3. QED
  BY <1>1, <1>2, CommitCases

LEMMA InsertTaskMoves ==
  ASSUME SafeInv, NEW p \in Procs, InsertTask(p)
  PROVE  Machine!Next \/ UNCHANGED Machine!vars
<1>1. PICK s \in Sessions : s = local[p].session
  BY DEF InsertTask, SafeInv, TypeInv, Addressed, AddressedCall
<1> DEFINE new == CreatedRow(s, 0, FreshBudget)
<1>2. CASE UNCHANGED <<row, log, parent>>
  BY <1>2, Stutters
<1>3. ASSUME NEW t \in Tasks, row[t].status = "absent", IndexAdmits(s, {}),
             row' = [row EXCEPT ![t] = new], parent' = parent
      PROVE  Machine!Next
  <2>1. new.status = "created" /\ new.session = s
    BY DEF CreatedRow, NoRow
  <2> HIDE DEF new
  <2>2. row'[t] = new /\ \A u \in Tasks : u # t => row'[u] = row[u]
    BY <1>3 DEF SafeInv, TypeInv, TypeOK
  <2>3. Machine!Free(s)
    BY <1>3, SameTables DEF IndexAdmits, Machine!Free
  <2>4. [u \in Tasks |-> row'[u].status]
          = [[u \in Tasks |-> row[u].status] EXCEPT ![t] = "created"]
    BY <2>1, <2>2
  <2>5. [u \in Tasks |-> row'[u].session]
          = [[u \in Tasks |-> row[u].session] EXCEPT ![t] = s]
    BY <2>1, <2>2
  <2>6. Machine!Create(t, s)
    BY <1>3, <2>3, <2>4, <2>5 DEF Machine!Create
  <2>7. QED
    BY <2>6 DEF Machine!Next
<1>4. QED
  BY <1>1, <1>2, <1>3 DEF InsertTask

LEMMA HandOffMoves ==
  ASSUME SafeInv, NEW p \in Procs, HandOff(p)
  PROVE  Machine!Next \/ UNCHANGED Machine!vars
<1> DEFINE c == local[p]
           t == c.task
<1>1. c.session \in Sessions
  BY DEF HandOff, SafeInv, TypeInv, Addressed, AddressedCall
<1>2. CASE UNCHANGED <<row, log, parent>>
  BY <1>2, Stutters
<1>3. ASSUME Unmoved(t, c.base), IndexAdmits(c.session, {t}),
             NEW child \in Tasks, NEW skills \in 0 .. MaxInherited, Completes(p, child, skills)
      PROVE  Machine!Next
  <2>1. HandsOver(p, child, skills)
    BY <1>3, CompletesFacts
  <2>2. /\ t \in Tasks /\ child # t /\ row[t] \in Row
        /\ row[t].status \in {"running", "paused", "completed"}
        /\ row[child].status = "absent"
        /\ Free(c.session)
        /\ row'[t] = HandedOff(row[t], row[t])
        /\ row'[child] = [CreatedRow(c.session, row[t].step, row[t].budget)
                            EXCEPT !.version = 1 + skills]
        /\ \A u \in Tasks : u # t /\ u # child => row'[u] = row[u]
    BY <2>1 DEF HandsOver
  <2>3. row'[t].status = "handed_off" /\ row'[t].session = row[t].session
    BY <2>2, HandedOffFacts
  <2>4. row'[child].status = "created" /\ row'[child].session = c.session
    BY <2>2, BornFacts
  <2>5. parent' = [parent EXCEPT ![child] = t]
    BY <1>3 DEF Completes
  <2> HIDE DEF c, t
  <2>6. <<row[t].status, "handed_off">> \in AllowedMoves
    BY <2>2 DEF AllowedMoves, Terminal
  <2>7. Machine!Free(c.session)
    BY <2>2, SameTables DEF Free, Machine!Free
  <2>8. Machine!HandOff(t, child, c.session)
    <3>1. [u \in Tasks |-> row'[u].status]
            = [[u \in Tasks |-> row[u].status] EXCEPT ![t] = "handed_off", ![child] = "created"]
      BY <2>2, <2>3, <2>4
    <3>2. [u \in Tasks |-> row'[u].session]
            = [[u \in Tasks |-> row[u].session] EXCEPT ![child] = c.session]
      BY <2>2, <2>3, <2>4
    <3>3. QED
      BY <2>2, <2>5, <2>6, <2>7, <3>1, <3>2, SameTables DEF Machine!HandOff
  <2>9. PICK u \in Tasks, s \in Sessions : u = t /\ s = c.session
    BY <1>1, <2>2
  <2>10. Machine!HandOff(u, child, s)
    BY <2>8, <2>9 DEF Machine!HandOff
  <2>11. QED
    BY <2>10 DEF Machine!Next
<1>4. QED
  BY <1>2, <1>3, HandOffCases

LEMMA SkillStutters ==
  ASSUME SafeInv, NEW p \in Procs, AppendSkillEvent(p)
  PROVE  UNCHANGED Machine!vars
<1> DEFINE t == local[p].task
<1>1. t \in Tasks /\ parent' = parent
  BY DEF AppendSkillEvent, SafeInv, TypeInv, Addressed, AddressedCall
<1>2. row[t] \in Row
  BY <1>1 DEF SafeInv, TypeInv, TypeOK
<1>3. \/ row' = row
      \/ row' = [row EXCEPT ![t] = [row[t] EXCEPT !.version = local[p].base.version + 1]]
  BY DEF AppendSkillEvent
<1> HIDE DEF t
<1>4. \A u \in Tasks : row'[u].status = row[u].status /\ row'[u].session = row[u].session
  <2>1. CASE row' = row
    BY <2>1
  <2>2. CASE row' = [row EXCEPT ![t] = [row[t] EXCEPT !.version = local[p].base.version + 1]]
    <3>1. \A u \in Tasks : u # t => row'[u] = row[u]
      BY <2>2 DEF SafeInv, TypeInv, TypeOK
    <3>2. row'[t] = [row[t] EXCEPT !.version = local[p].base.version + 1]
      BY <1>1, <2>2 DEF SafeInv, TypeInv, TypeOK
    <3>3. row'[t].status = row[t].status /\ row'[t].session = row[t].session
      BY <1>2, <3>2 DEF Row
    <3>4. QED
      BY <3>1, <3>3
  <2>3. QED
    BY <1>3, <2>1, <2>2
<1>5. QED
  BY <1>1, <1>4, Stutters

LEMMA CallsStutter ==
  ASSUME NEW p \in Procs, NEW t \in Tasks, Calls(p, t)
  PROVE  row' = row /\ parent' = parent
  BY DEF Calls, CallTransition, CallDecide, CallFail, RecordUserMessage, UpdateContext,
         RecordObservation, ConsumeCall, ConsumeReplan, ConsumeContinuation, Consume,
         CallUpdate, ReadForSkill, ReadForHandOff

LEMMA StepMoves ==
  ASSUME SafeInv, NEW p \in Procs, Step(p)
  PROVE  Machine!Next \/ UNCHANGED Machine!vars
<1>1. ReadTask(p) \/ LoadRow(p) \/ CheckSession(p) \/ Crash(p) => UNCHANGED Machine!vars
  BY Stutters DEF ReadTask, LoadRow, CheckSession, Crash
<1>2. QED
  BY <1>1, CommitMoves, InsertTaskMoves, HandOffMoves, SkillStutters DEF Step

\* The store keeps what TaskMachine promises, for any number of processes: legal
\* moves only, one open task for a session, handoffs in one step.
THEOREM Refinement == Spec => Refines
<1>1. Init => Machine!Init
  BY DEF Init, NoRow, Machine!Init
<1>2. SafeInv /\ [Next]_vars => [Machine!Next]_Machine!vars
  <2> SUFFICES ASSUME SafeInv, [Next]_vars PROVE Machine!Next \/ UNCHANGED Machine!vars
    OBVIOUS
  <2>1. CASE UNCHANGED vars
    BY <2>1, Stutters DEF vars
  <2>2. ASSUME NEW p \in Procs, Step(p) PROVE Machine!Next \/ UNCHANGED Machine!vars
    BY <2>2, StepMoves
  <2>3. ASSUME NEW p \in Procs, NEW s \in Sessions, NEW i \in EventIds \cup {None},
               CallStart(p, s, i)
        PROVE  UNCHANGED Machine!vars
    BY <2>3, Stutters DEF CallStart
  <2>4. ASSUME NEW p \in Procs, NEW t \in Tasks, Calls(p, t) PROVE UNCHANGED Machine!vars
    BY <2>4, CallsStutter, Stutters
  <2>5. QED
    BY <2>1, <2>2, <2>3, <2>4 DEF Next
<1>3. QED
  BY <1>1, <1>2, SafeInvariant, PTL DEF Spec, Refines, Machine!Spec

-----------------------------------------------------------------------------
(* The log. What a call is to add, and what it was decided on.             *)

One(b) == IF b THEN 1 ELSE 0

\* The arguments a add to r what spent says: one to one counter, or nothing.
Counted(r, a, spent) ==
  /\ Choose(a.step, r.step) = r.step + One(spent = "step")
  /\ \A k \in Counters : Choose(a.budget, r.budget)[k] = r.budget[k] + One(spent = k)

\* The call c was decided on the row r: an open task, which waits for the action that the
\* decision names.
Decided(r, c) ==
  /\ r.status \in Active
  /\ c.asked # None => r.pending = c.asked
  /\ Counted(r, c.args, c.spent)

\* What a call remembers of the rows rs that it was decided on.
Recalls(rs, c) ==
  LET cur == rs[c.task] IN
  /\ c.pc \in {"creating", "inserting", "called"} => c.spent = None
  /\ c.pc = "called" /\ c.op \in Decisions /\ c.asked # None =>
       c.expected # None /\ (c.expected = cur.version => cur.pending = c.asked)
  /\ c.pc = "applying" /\ c.expected = cur.version => Decided(cur, c)
  /\ c.pc = "writing" => Decided(c.base, c)
  /\ c.pc = "skill" => c.base.status = "running"

Recall == \A p \in Procs : Recalls(row, local[p])

\* A task is there as soon as it has an event, and what it was made from was handed off.
Lineage ==
  \A t \in Tasks :
    /\ parent[t] # None => row[parent[t]].status = "handed_off"
    /\ row[t].status = "absent" => parent[t] = None
    /\ row[t].status = "absent" <=> log[t] = <<>>

LogInv ==
  /\ SafeInv
  /\ Recall
  /\ EventLogComplete
  /\ EventAppliedOnce
  /\ Lineage
  /\ NothingLost

\* A row that moves on leaves true what a call remembers: its version is gone.
LEMMA RecallsKept ==
  ASSUME TypeInv, TypeInv', RowsGrow, NEW c \in Local, AddressedCall(c), Knows(row, c),
         Recalls(row, c)
  PROVE  Recalls(row', c)
<1>1. CASE c.pc \in {"called", "applying"}
  <2>1. c.task \in Tasks
    BY <1>1 DEF AddressedCall
  <2>2. row[c.task].version \in Nat /\ row'[c.task].version \in Nat
    BY <2>1 DEF TypeInv, TypeOK, Row
  <2>3. Grows(row[c.task], row'[c.task])
    BY <2>1 DEF RowsGrow
  <2>4. CASE row'[c.task] = row[c.task]
    BY <2>4 DEF Recalls
  <2>5. CASE row'[c.task].version > row[c.task].version
    <3>1. c.expected # None => c.expected # row'[c.task].version
      BY <1>1, <2>2, <2>5 DEF Knows, Local
    <3>2. c.pc = "applying" => c.expected # row'[c.task].version
      BY <1>1, <2>2, <2>5 DEF Knows, AddressedCall
    <3> QED
      BY <1>1, <3>1, <3>2 DEF Recalls
  <2> QED
    BY <2>3, <2>4, <2>5 DEF Grows
<1>2. CASE c.pc \notin {"called", "applying"}
  BY <1>2 DEF Recalls
<1> QED
  BY <1>1, <1>2

\* What each process remembers stays true of the rows, once it is of the one that moves.
LEMMA OthersRecall ==
  ASSUME SafeInv, TypeInv', Recall, RowsGrow, NEW p \in Procs, NEW d, Goto(p, d),
         Recalls(row', d)
  PROVE  Recall'
<1> SUFFICES ASSUME NEW q \in Procs PROVE Recalls(row', local'[q])
  BY DEF Recall
<1>1. CASE q = p
  BY <1>1 DEF Goto, SafeInv, TypeInv, TypeOK
<1>2. CASE q # p
  <2>1. local'[q] = local[q]
    BY <1>2 DEF Goto, SafeInv, TypeInv, TypeOK
  <2>2. local[q] \in Local /\ AddressedCall(local[q]) /\ Knows(row, local[q])
    BY DEF SafeInv, TypeInv, TypeOK, Addressed
  <2>3. TypeInv /\ Recalls(row, local[q])
    BY DEF SafeInv, Recall
  <2> QED
    BY <2>1, <2>2, <2>3, RecallsKept
<1> QED
  BY <1>1, <1>2

-----------------------------------------------------------------------------
\* What a step makes of the tables: nothing, a change with its event, a new task, or a
\* handoff.
Quiet == row' = row /\ log' = log /\ parent' = parent

Entered(t, new, e) ==
  /\ row' = [row EXCEPT ![t] = new] /\ log' = [log EXCEPT ![t] = Append(log[t], e)]
  /\ parent' = parent
  /\ e \in Entry /\ ~Logged(e.id) /\ e.from = row[t].status /\ e.to = new.status
  /\ row[t].status \in Active /\ new.status \in Statuses /\ new.version = row[t].version + 1
  /\ new.step = row[t].step + One(e.spent = "step")
  /\ \A k \in Counters : new.budget[k] = row[t].budget[k] + One(e.spent = k)

Opened(t, s) ==
  /\ row[t].status = "absent"
  /\ row' = [row EXCEPT ![t] = CreatedRow(s, 0, FreshBudget)]
  /\ log' = [log EXCEPT ![t] = Append(log[t], Created("absent"))]
  /\ parent' = parent

\* The events of a task that takes over a number of skills.
Births(skills) ==
  [i \in 1 .. 1 + skills |-> Created(IF i = 1 THEN "absent" ELSE "created")]

Passed(t, child, s, skills) ==
  /\ child # t /\ skills \in Nat
  /\ row[t].status \in {"running", "paused", "completed"} /\ row[child].status = "absent"
  /\ row' = [row EXCEPT ![t] = HandedOff(row[t], row[t]),
                        ![child] = [CreatedRow(s, row[t].step, row[t].budget)
                                      EXCEPT !.version = 1 + skills]]
  /\ log' = [log EXCEPT ![t] = Append(log[t], [id |-> None, from |-> row[t].status,
                                                to |-> "handed_off", spent |-> None]),
                        ![child] = Births(skills)]
  /\ parent' = [parent EXCEPT ![child] = t]

StoreStep ==
  \/ Quiet
  \/ \E t \in Tasks : \E new \in Row : \E e \in Entry : Entered(t, new, e)
  \/ \E t \in Tasks : \E s \in Sessions : Opened(t, s)
  \/ \E t \in Tasks : \E child \in Tasks : \E s \in Sessions : \E skills \in Nat :
       Passed(t, child, s, skills)

\* A version of a row is greater than the one before.
LEMMA StoreGrows ==
  ASSUME SafeInv, StoreStep
  PROVE  RowsGrow
<1>1. \A t \in Tasks : row[t] \in Row /\ row[t].version \in Nat
  BY DEF SafeInv, TypeInv, TypeOK, Row
<1>2. DOMAIN row = Tasks
  BY DEF SafeInv, TypeInv, TypeOK
<1>3. CASE Quiet
  BY <1>3 DEF Quiet, RowsGrow, Grows
<1>4. ASSUME NEW t \in Tasks, NEW new \in Row, NEW e \in Entry, Entered(t, new, e)
      PROVE  RowsGrow
  <2>1. row' = [row EXCEPT ![t] = new] /\ new.version = row[t].version + 1
    BY <1>4 DEF Entered
  <2>2. new.status # "absent"
    BY <1>4 DEF Entered, Statuses, Active, Terminal
  <2> QED
    BY <1>1, <1>2, <2>1, <2>2 DEF RowsGrow, Grows
<1>5. ASSUME NEW t \in Tasks, NEW s \in Sessions, Opened(t, s)
      PROVE  RowsGrow
  <2>1. row' = [row EXCEPT ![t] = CreatedRow(s, 0, FreshBudget)] /\ row[t].version = 0
    BY <1>5 DEF Opened, SafeInv, UnusedRows
  <2>2. CreatedRow(s, 0, FreshBudget).version = 1
        /\ CreatedRow(s, 0, FreshBudget).status = "created"
    BY DEF CreatedRow, NoRow
  <2> QED
    BY <1>1, <1>2, <2>1, <2>2 DEF RowsGrow, Grows
<1>6. ASSUME NEW t \in Tasks, NEW child \in Tasks, NEW s \in Sessions, NEW skills \in Nat,
             Passed(t, child, s, skills)
      PROVE  RowsGrow
  <2> DEFINE born == [CreatedRow(s, row[t].step, row[t].budget) EXCEPT !.version = 1 + skills]
             gone == HandedOff(row[t], row[t])
  <2>1. row' = [row EXCEPT ![t] = gone, ![child] = born] /\ row[child].version = 0 /\ child # t
    BY <1>6 DEF Passed, SafeInv, UnusedRows
  <2>2. gone.version = row[t].version + 1 /\ gone.status = "handed_off"
    BY <1>1, HandedOffFacts
  <2>3. born.version = 1 + skills /\ born.status = "created"
    BY BornFacts
  <2> HIDE DEF born, gone
  <2> QED
    BY <1>1, <1>2, <2>1, <2>2, <2>3 DEF RowsGrow, Grows
<1> QED
  BY <1>3, <1>4, <1>5, <1>6 DEF StoreStep

-----------------------------------------------------------------------------
\* The steps that only read.
LEMMA QuietRecalls ==
  ASSUME SafeInv, TypeInv', Recall, NEW p \in Procs, NEW d, Goto(p, d), Quiet, Recalls(row, d)
  PROVE  StoreStep /\ Recall'
<1>1. StoreStep
  BY DEF StoreStep
<1>2. RowsGrow /\ row' = row
  BY <1>1, StoreGrows DEF Quiet
<1> QED
  BY <1>1, <1>2, OthersRecall

LEMMA IdleRecalls == ASSUME NEW rs PROVE Recalls(rs, Idle)
  BY DEF Recalls, Idle

LEMMA ReturnRecalls ==
  ASSUME SafeInv, TypeInv', Recall, NEW p \in Procs, Return(p), Quiet
  PROVE  StoreStep /\ Recall'
  BY IdleRecalls, QuietRecalls DEF Return

\* Arguments that are not set, add nothing.
LEMMA NothingCounted ==
  ASSUME NEW r \in Row, NEW a, a.step = Keep, a.budget = Keep
  PROVE  Counted(r, a, None)
<1>1. r.step \in Nat /\ \A k \in Counters : r.budget[k] \in Nat
  BY DEF Row, Budget, Counters
<1> QED
  BY <1>1, CountsAssumption DEF Counted, Choose, One, Counters

\* A transition decides on a task that is open, and adds nothing.
LEMMA ResolvedRecalls ==
  ASSUME TypeInv, NEW c \in Local, c.op \in Ops, c.task \in Tasks, Permits(c),
         c.spent = None,
         c.op \in Decisions /\ c.asked # None =>
           c.expected # None
             /\ (c.expected = row[c.task].version => row[c.task].pending = c.asked)
  PROVE  Recalls(row, Resolved(c))
<1> DEFINE view == row[c.task]
           args == TransitionArgs(view, Target[c.op], PendingArg(c.op, c.asked),
                                  DeadlineArg(c.op), StopArg(c.op))
           d == Resolved(c)
<1>1. args.step = Keep /\ args.budget = Keep
  BY DEF TransitionArgs, NoArgs
<1>2. view \in Row
  BY DEF TypeInv, TypeOK
<1>3. Counted(view, args, None)
  <2> HIDE DEF args
  <2> QED
    BY <1>1, <1>2, NothingCounted
<1>4. view.status \in Active
  <2>1. Target[c.op] # "handed_off"
    BY DEF Ops, ClientOps, RuntimeOps, Decisions, Target
  <2>2. <<view.status, Target[c.op]>> \in AllowedMoves
    BY DEF Permits
  <2> QED
    BY <2>1, <2>2 DEF AllowedMoves, Active
<1> HIDE DEF args
<1>5. d = [c EXCEPT !.pc = "applying",
                    !.op = IF c.op = "prepare" THEN "fail" ELSE None,
                    !.expected = Expected(c.expected, view),
                    !.asked = IF c.op \in Decisions THEN c.asked ELSE None,
                    !.args = args]
  BY DEF Resolved, args
<1>6. /\ d.pc = "applying" /\ d.task = c.task /\ d.args = args /\ d.spent = c.spent
      /\ d.expected = Expected(c.expected, view)
      /\ d.asked = IF c.op \in Decisions THEN c.asked ELSE None
  BY <1>5 DEF Local
<1> HIDE DEF d
<1>7. d.expected = view.version => Decided(view, d)
  BY <1>3, <1>4, <1>6 DEF Decided, Expected
<1> QED
  BY <1>6, <1>7 DEF Recalls, d

LEMMA CallTransitionRecalls ==
  ASSUME SafeInv, TypeInv', Recall, NEW p \in Procs, NEW op \in Ops \ Decisions, NEW t \in Tasks,
         NEW i \in EventIds \cup {None}, NEW x \in Nat \cup {None}, NEW a \in Pendings \cup {None},
         CallTransition(p, op, t, [id |-> i, expected |-> x, pending |-> a])
  PROVE  StoreStep /\ Recall'
<1> DEFINE c == Call(op, t, [id |-> i, expected |-> x, pending |-> a])
<1>1. c \in Local
  BY CallType
<1>2. c.op = op /\ c.task = t /\ c.spent = None
  BY DEF Call, Idle
<1>3. Permits(c) /\ Goto(p, Resolved(c)) /\ Quiet
  BY DEF CallTransition, Quiet
<1> HIDE DEF c
<1>4. Recalls(row, Resolved(c))
  BY <1>1, <1>2, <1>3, ResolvedRecalls DEF SafeInv
<1> QED
  BY <1>3, <1>4, QuietRecalls

LEMMA CallStartRecalls ==
  ASSUME SafeInv, TypeInv', Recall, NEW p \in Procs, NEW s \in Sessions,
         NEW i \in EventIds \cup {None}, CallStart(p, s, i)
  PROVE  StoreStep /\ Recall'
<1> DEFINE opening == [Call("start", None, NoEvent) EXCEPT !.pc = "creating", !.session = s, !.id = i]
           taking(op, t) == [Call(op, t, NoEvent) EXCEPT !.id = i]
<1>1. Recalls(row, opening)
  <2>1. opening.pc = "creating" /\ opening.spent = None
    BY DEF Call, Idle, NoEvent
  <2> HIDE DEF opening
  <2> QED
    BY <2>1 DEF Recalls
<1>2. ASSUME NEW op \in {"continue", "answer"}, NEW t \in Tasks
      PROVE  Recalls(row, taking(op, t))
  <2> DEFINE d == taking(op, t)
  <2>1. d.pc = "called" /\ d.spent = None /\ d.op = op
    BY DEF Call, Idle, NoEvent
  <2>2. op \notin Decisions
    BY DEF Decisions
  <2> HIDE DEF d
  <2>3. Recalls(row, d)
    BY <2>1, <2>2 DEF Recalls
  <2> QED
    BY <2>3 DEF d
<1>3. \/ Goto(p, opening)
      \/ \E t \in Tasks : Goto(p, taking("continue", t)) \/ Goto(p, taking("answer", t))
  BY DEF CallStart
<1>4. Quiet
  BY DEF CallStart, Quiet
<1> HIDE DEF opening, taking
<1> QED
  BY <1>1, <1>2, <1>3, <1>4, QuietRecalls

LEMMA CalledRecalls ==
  ASSUME SafeInv, TypeInv', Recall, NEW p \in Procs, NEW op, NEW t \in Tasks, NEW e,
         op \in Decisions /\ e.pending # None =>
           e.expected # None /\ row[t].pending = e.pending,
         Quiet, Goto(p, Call(op, t, e))
  PROVE  StoreStep /\ Recall'
<1> DEFINE c == Call(op, t, e)
<1>1. /\ c.pc = "called" /\ c.op = op /\ c.task = t /\ c.asked = e.pending
      /\ c.expected = e.expected /\ c.spent = None
  BY DEF Call, Idle
<1> HIDE DEF c
<1>2. Recalls(row, c)
  BY <1>1 DEF Recalls
<1> QED
  BY <1>2, QuietRecalls DEF c

LEMMA ReadTaskRecalls ==
  ASSUME SafeInv, TypeInv', Recall, NEW p \in Procs, ReadTask(p)
  PROVE  StoreStep /\ Recall'
<1> DEFINE c == local[p]
<1>1. /\ c \in Local /\ c.op \in Ops /\ c.task \in Tasks /\ c.pc = "called"
      /\ Quiet /\ Recalls(row, c)
  BY DEF ReadTask, SafeInv, TypeInv, TypeOK, Addressed, AddressedCall, Recall, Quiet
<1>2. CASE Permits(c) /\ Goto(p, Resolved(c))
  <2> HIDE DEF c
  <2>1. Recalls(row, Resolved(c))
    BY <1>1, <1>2, ResolvedRecalls DEF SafeInv, Recalls
  <2> QED
    BY <1>1, <1>2, <2>1, QuietRecalls
<1>3. CASE Return(p)
  BY <1>1, <1>3, ReturnRecalls
<1> QED
  BY <1>2, <1>3 DEF ReadTask

LEMMA CallUpdateRecalls ==
  ASSUME SafeInv, TypeInv', Recall, NEW p \in Procs, NEW t \in Tasks,
         NEW i \in EventIds \cup {None}, NEW x \in Nat \cup {None},
         NEW args, NEW spent, Counted(row[t], args, spent),
         CallUpdate(p, t, [id |-> i, expected |-> x, pending |-> None], args, spent)
  PROVE  StoreStep /\ Recall'
<1> DEFINE c == Call(None, t, [id |-> i, expected |-> x, pending |-> None])
           d == [c EXCEPT !.pc = "applying", !.args = args, !.spent = spent,
                          !.expected = Expected(x, row[t])]
<1>1. c \in Local
  BY CallType
<1>2. c.task = t /\ c.expected = x /\ c.asked = None
  BY DEF Call, Idle
<1>3. Goto(p, [c EXCEPT !.pc = "applying", !.args = args, !.spent = spent,
                        !.expected = Expected(c.expected, row[t])])
  BY DEF CallUpdate
<1>4. Quiet /\ row[t].status \in Active
  BY DEF CallUpdate, Quiet
<1> HIDE DEF c
<1>5. /\ d.pc = "applying" /\ d.task = t /\ d.args = args /\ d.spent = spent /\ d.asked = None
  BY <1>1, <1>2 DEF Local
<1>6. Goto(p, d)
  BY <1>2, <1>3
<1> HIDE DEF d
<1>7. Recalls(row, d)
  BY <1>4, <1>5 DEF Recalls, Decided
<1> QED
  BY <1>4, <1>6, <1>7, QuietRecalls

LEMMA LoadRowRecalls ==
  ASSUME SafeInv, TypeInv', Recall, NEW p \in Procs, LoadRow(p)
  PROVE  StoreStep /\ Recall'
<1> DEFINE c == local[p]
           d == [c EXCEPT !.pc = "writing", !.base = row[c.task],
                          !.seq = NextSequence(c.task)]
<1>1. c \in Local /\ c.task \in Tasks /\ c.pc = "applying" /\ Recalls(row, c) /\ Quiet
  BY DEF LoadRow, SafeInv, TypeInv, TypeOK, Addressed, AddressedCall, Recall, Quiet
<1>2. \/ c.expected = row[c.task].version /\ Goto(p, d)
      \/ Return(p)
  BY DEF LoadRow
<1>3. CASE c.expected = row[c.task].version /\ Goto(p, d)
  <2> HIDE DEF c
  <2>1. /\ d.pc = "writing" /\ d.base = row[c.task] /\ d.asked = c.asked
        /\ d.args = c.args /\ d.spent = c.spent
    BY <1>1 DEF Local
  <2> HIDE DEF d
  <2>2. Decided(row[c.task], c)
    BY <1>1, <1>3 DEF Recalls
  <2>3. Recalls(row, d)
    BY <2>1, <2>2 DEF Recalls, Decided
  <2> QED
    BY <1>1, <1>3, <2>3, QuietRecalls
<1>4. CASE Return(p)
  BY <1>1, <1>4, ReturnRecalls
<1> QED
  BY <1>2, <1>3, <1>4

LEMMA CheckSessionRecalls ==
  ASSUME SafeInv, TypeInv', Recall, NEW p \in Procs, CheckSession(p)
  PROVE  StoreStep /\ Recall'
<1> DEFINE c == local[p]
           d == [c EXCEPT !.pc = "inserting"]
<1>1. /\ c \in Local /\ Quiet /\ (Goto(p, d) \/ Return(p))
      /\ c.pc = "creating" /\ Recalls(row, c)
  BY DEF CheckSession, SafeInv, TypeInv, TypeOK, Recall, Quiet
<1> HIDE DEF c
<1>2. d.pc = "inserting" /\ d.spent = c.spent
  BY <1>1 DEF Local
<1> HIDE DEF d
<1>3. Recalls(row, d)
  BY <1>1, <1>2 DEF Recalls
<1> QED
  BY <1>1, <1>3, QuietRecalls, ReturnRecalls

LEMMA ReadForSkillRecalls ==
  ASSUME SafeInv, TypeInv', Recall, NEW p \in Procs, NEW t \in Tasks, ReadForSkill(p, t)
  PROVE  StoreStep /\ Recall'
<1> DEFINE d == [Idle EXCEPT !.pc = "skill", !.task = t, !.base = row[t]]
<1>1. d.pc = "skill" /\ d.base = row[t]
  BY DEF Idle
<1>2. row[t].status = "running" /\ Quiet /\ Goto(p, d)
  BY DEF ReadForSkill, Quiet
<1> HIDE DEF d
<1>3. Recalls(row, d)
  BY <1>1, <1>2 DEF Recalls
<1> QED
  BY <1>2, <1>3, QuietRecalls

LEMMA ReadForHandOffRecalls ==
  ASSUME SafeInv, TypeInv', Recall, NEW p \in Procs, NEW t \in Tasks, NEW s \in Sessions,
         ReadForHandOff(p, t, s)
  PROVE  StoreStep /\ Recall'
<1> DEFINE d == [Idle EXCEPT !.pc = "handing", !.task = t, !.session = s,
                             !.seq = NextSequence(t), !.base = row[t]]
<1>1. d.pc = "handing"
  BY DEF Idle
<1>2. Quiet /\ Goto(p, d)
  BY DEF ReadForHandOff, Quiet
<1> HIDE DEF d
<1>3. Recalls(row, d)
  BY <1>1 DEF Recalls
<1> QED
  BY <1>2, <1>3, QuietRecalls

\* What a call adds to one counter, to none, or to the steps.
LEMMA SpentCounted ==
  ASSUME NEW r \in Row, NEW k \in Counters
  PROVE  Counted(r, [NoArgs EXCEPT !.budget = Spent(r, k)], k)
<1> DEFINE b == Spent(r, k)
           a == [NoArgs EXCEPT !.budget = b]
<1>1. r.budget \in [Counters -> Nat] /\ r.step \in Nat
  BY DEF Row, Budget, Counters
<1>2. /\ b \in Budget
      /\ \A j \in Counters : b[j] = r.budget[j] + One(k = j)
  BY <1>1 DEF Spent, One, Budget, Counters
<1>3. b # Keep /\ k # "step"
  BY <1>2, CountsAssumption DEF Counters
<1> HIDE DEF b
<1>4. a.step = Keep /\ a.budget = b
  BY DEF NoArgs
<1> HIDE DEF a
<1>5. Counted(r, a, k)
  BY <1>1, <1>2, <1>3, <1>4 DEF Counted, Choose, One
<1> QED
  BY <1>5 DEF a, b

LEMMA StepCounted ==
  ASSUME NEW r \in Row
  PROVE  Counted(r, [NoArgs EXCEPT !.step = r.step + 1], "step")
<1> DEFINE a == [NoArgs EXCEPT !.step = r.step + 1]
<1>1. r.budget \in [Counters -> Nat] /\ r.step \in Nat
  BY DEF Row, Budget, Counters
<1>2. a.step = r.step + 1 /\ a.budget = Keep
  BY DEF NoArgs
<1>3. r.step + 1 # Keep
  BY <1>1, CountsAssumption
<1> HIDE DEF a
<1>4. Counted(r, a, "step")
  BY <1>1, <1>2, <1>3 DEF Counted, Choose, One, Counters
<1> QED
  BY <1>4 DEF a

LEMMA CallsRecall ==
  ASSUME SafeInv, TypeInv', Recall, NEW p \in Procs, NEW t \in Tasks, Calls(p, t)
  PROVE  StoreStep /\ Recall'
<1>1. TypeOK /\ row[t] \in Row
  BY DEF SafeInv, TypeInv, TypeOK
<1>2. \A e \in Events(t) : [e EXCEPT !.pending = None]
                             = [id |-> e.id, expected |-> e.expected, pending |-> None]
  BY <1>1, EventType
<1>3. Counted(row[t], NoArgs, None)
  BY <1>1, NothingCounted DEF NoArgs
<1>4. ASSUME NEW op \in ClientOps, NEW e \in Events(t),
             CallTransition(p, op, t, [e EXCEPT !.pending = None])
      PROVE  StoreStep /\ Recall'
  <2>1. op \in Ops \ Decisions
    BY DEF Ops, ClientOps, Decisions
  <2> QED
    BY <1>1, <1>2, <1>4, <2>1, EventType, CallTransitionRecalls
<1>5. ASSUME NEW op \in RuntimeOps, CallTransition(p, op, t, NoEvent)
      PROVE  StoreStep /\ Recall'
  <2>1. op \in Ops \ Decisions
    BY DEF Ops, RuntimeOps, Decisions
  <2> QED
    BY <1>5, <2>1, CallTransitionRecalls DEF NoEvent
<1>6. ASSUME NEW a \in Pendings,
             CallTransition(p, "wait_for_user", t, [NoEvent EXCEPT !.pending = a])
      PROVE  StoreStep /\ Recall'
  <2>1. [NoEvent EXCEPT !.pending = a] = [id |-> None, expected |-> None, pending |-> a]
    BY DEF NoEvent
  <2>2. "wait_for_user" \in Ops \ Decisions
    BY DEF Ops, Decisions
  <2> QED
    BY <1>6, <2>1, <2>2, CallTransitionRecalls
<1>7. ASSUME NEW op \in Decisions, NEW e \in Events(t), CallDecide(p, op, t, e)
      PROVE  StoreStep /\ Recall'
  <2>1. e.pending # None => e.expected # None /\ row[t].pending = e.pending
    <3>1. e.pending # None => e.expected # None
      BY Zenon DEF Events
    <3> QED
      BY <1>7, <3>1 DEF CallDecide
  <2>2. Quiet /\ Goto(p, Call(op, t, e))
    BY <1>7 DEF CallDecide, Quiet
  <2> QED
    BY <2>1, <2>2, CalledRecalls
<1>8. ASSUME CallFail(p, t)
      PROVE  StoreStep /\ Recall'
  <2>1. PICK op \in {"prepare", "fail"} : Goto(p, Call(op, t, NoEvent))
    BY <1>8 DEF CallFail
  <2>2. Quiet /\ op \notin Decisions
    BY <1>8 DEF CallFail, Quiet, Decisions
  <2> QED
    BY <2>1, <2>2, CalledRecalls
<1>9. ASSUME NEW e \in Events(t), RecordUserMessage(p, t, [e EXCEPT !.pending = None])
      PROVE  StoreStep /\ Recall'
  BY <1>1, <1>2, <1>3, <1>9, EventType, CallUpdateRecalls DEF RecordUserMessage
<1>10. ASSUME UpdateContext(p, t)
       PROVE  StoreStep /\ Recall'
  BY <1>3, <1>10, CallUpdateRecalls DEF UpdateContext, NoEvent
<1>11. ASSUME RecordObservation(p, t)
       PROVE  StoreStep /\ Recall'
  <2> DEFINE args == [NoArgs EXCEPT !.step = row[t].step + 1]
  <2>1. Counted(row[t], args, "step")
    BY <1>1, StepCounted
  <2>2. CallUpdate(p, t, [id |-> None, expected |-> None, pending |-> None], args, "step")
    BY <1>11 DEF RecordObservation, NoEvent
  <2> HIDE DEF args
  <2> QED
    BY <2>1, <2>2, CallUpdateRecalls
<1>12. ASSUME NEW k \in Counters, Consume(p, t, k)
       PROVE  StoreStep /\ Recall'
  <2> DEFINE args == [NoArgs EXCEPT !.budget = Spent(row[t], k)]
  <2>1. Counted(row[t], args, k)
    BY <1>1, SpentCounted
  <2>2. CallUpdate(p, t, [id |-> None, expected |-> None, pending |-> None], args, k)
    BY <1>12 DEF Consume, NoEvent
  <2> HIDE DEF args
  <2> QED
    BY <2>1, <2>2, CallUpdateRecalls
<1>13. ASSUME ConsumeCall(p, t) \/ ConsumeReplan(p, t) \/ ConsumeContinuation(p, t)
       PROVE  StoreStep /\ Recall'
  BY <1>12, <1>13 DEF ConsumeCall, ConsumeReplan, ConsumeContinuation, Counters
<1> QED
  BY <1>4, <1>5, <1>6, <1>7, <1>8, <1>9, <1>10, <1>11, <1>13,
     ReadForSkillRecalls, ReadForHandOffRecalls DEF Calls

-----------------------------------------------------------------------------
\* The steps that write.
LEMMA RecordIs ==
  ASSUME TypeOK, NEW t \in Tasks, NEW e \in Entry, Record(t, <<e>>)
  PROVE  log' = [log EXCEPT ![t] = Append(log[t], e)]
<1>1. log[t] \in Seq(Entry)
  BY DEF TypeOK
<1>2. Append(log[t], e) = log[t] \o <<e>>
  BY <1>1, AppendIsConcat
<1> QED
  BY <1>2 DEF Record

LEMMA CommitRecalls ==
  ASSUME SafeInv, TypeInv', Recall, NEW p \in Procs, Commit(p)
  PROVE  StoreStep /\ Recall'
<1> DEFINE c == local[p]
           t == c.task
           new == Applied(row[t], c.args)
           e == [id |-> c.id, from |-> row[t].status, to |-> new.status, spent |-> c.spent]
<1>1. CASE UNCHANGED <<row, log, parent>> /\ Return(p)
  BY <1>1, ReturnRecalls DEF Quiet
<1>2. CASE /\ c.base = row[t] /\ t \in Tasks /\ Insertable(t, c.seq, c.id)
           /\ row' = [row EXCEPT ![t] = new] /\ Record(t, <<e>>) /\ parent' = parent
           /\ Fits(row[t], c.args) /\ row[t].status # "absent" /\ c.args \in Args
           /\ Goto(p, Call("fail", t, NoEvent)) \/ Return(p)
  <2>1. row[t] \in Row /\ c \in Local /\ c.pc = "writing" /\ Recalls(row, c)
    BY <1>2 DEF Commit, Recall, SafeInv, TypeInv, TypeOK
  <2>2. Decided(row[t], c)
    BY <1>2, <2>1 DEF Recalls
  <2>3. new \in Row
    BY <1>2, <2>1, AppliedType
  <2>4. /\ new.version = row[t].version + 1
        /\ new.status = Choose(c.args.status, row[t].status)
        /\ new.step = Choose(c.args.step, row[t].step)
        /\ new.budget = Choose(c.args.budget, row[t].budget)
    BY <2>1 DEF Applied, Row
  <2>5. new.status \in Statuses
    <3>1. row[t].status \in Statuses
      BY <2>2 DEF Decided, Statuses
    <3> QED
      BY <1>2, <2>4, <3>1, LegalFacts DEF Fits, Choose
  <2> HIDE DEF new
  <2>6. e \in Entry
    BY <2>1, <2>3, <2>5 DEF Entry, Local, Row
  <2>7. e.id = c.id /\ e.from = row[t].status /\ e.to = new.status /\ e.spent = c.spent
    OBVIOUS
  <2> HIDE DEF e
  <2>8. log' = [log EXCEPT ![t] = Append(log[t], e)]
    BY <1>2, <2>6, RecordIs DEF SafeInv, TypeInv
  <2>9. ~Logged(e.id)
    BY <1>2, <2>7 DEF Insertable
  <2>10. Entered(t, new, e)
    BY <1>2, <2>2, <2>4, <2>5, <2>6, <2>7, <2>8, <2>9 DEF Entered, Decided, Counted
  <2>11. StoreStep
    BY <1>2, <2>3, <2>6, <2>10 DEF StoreStep
  <2>12. Recalls(row', Call("fail", t, NoEvent))
    BY DEF Recalls, Call, Idle, NoEvent, Decisions
  <2>13. Recall'
    BY <1>2, <2>11, <2>12, StoreGrows, OthersRecall, IdleRecalls DEF Return
  <2> QED
    BY <2>11, <2>13
<1> QED
  BY <1>1, <1>2, CommitCases

LEMMA InsertTaskRecalls ==
  ASSUME SafeInv, TypeInv', Recall, NEW p \in Procs, InsertTask(p)
  PROVE  StoreStep /\ Recall'
<1> DEFINE c == local[p]
           d(t) == [c EXCEPT !.pc = "called", !.task = t, !.session = None]
<1>1. CASE UNCHANGED <<row, log, parent>> /\ Return(p)
  BY <1>1, ReturnRecalls DEF Quiet
<1>2. ASSUME NEW t \in Tasks, row[t].status = "absent", parent' = parent,
             row' = [row EXCEPT ![t] = CreatedRow(c.session, 0, FreshBudget)],
             Record(t, <<Created("absent")>>), Goto(p, d(t))
      PROVE  StoreStep /\ Recall'
  <2>1. /\ c \in Local /\ c.pc = "inserting" /\ Recalls(row, c) /\ c.session \in Sessions
        /\ c.op = "start" /\ TypeOK
    BY DEF InsertTask, Recall, SafeInv, TypeInv, TypeOK, Addressed, AddressedCall
  <2>2. log' = [log EXCEPT ![t] = Append(log[t], Created("absent"))]
    BY <1>2, <2>1, RecordIs, CreatedType
  <2>3. Opened(t, c.session)
    BY <1>2, <2>2 DEF Opened
  <2>4. StoreStep
    BY <2>1, <2>3 DEF StoreStep
  <2>5. d(t).pc = "called" /\ d(t).spent = None /\ d(t).op \notin Decisions
    BY <2>1 DEF Local, Recalls, Decisions
  <2> HIDE DEF d
  <2>6. Recalls(row', d(t))
    BY <2>5 DEF Recalls
  <2> QED
    BY <1>2, <2>4, <2>6, StoreGrows, OthersRecall
<1> QED
  BY <1>1, <1>2 DEF InsertTask

LEMMA AppendSkillEventRecalls ==
  ASSUME SafeInv, TypeInv', Recall, NEW p \in Procs, AppendSkillEvent(p)
  PROVE  StoreStep /\ Recall'
<1> DEFINE c == local[p]
           t == c.task
           new == [row[t] EXCEPT !.version = c.base.version + 1]
           e == [id |-> None, from |-> row[t].status, to |-> row[t].status, spent |-> None]
<1>1. /\ t \in Tasks /\ c.pc = "skill" /\ Return(p) /\ Knows(row, c) /\ Recalls(row, c)
  BY DEF AppendSkillEvent, Recall, SafeInv, TypeInv, TypeOK, Addressed, AddressedCall
<1>2. row[t] \in Row /\ TypeOK
  BY <1>1 DEF SafeInv, TypeInv, TypeOK
<1>3. CASE UNCHANGED <<row, log, parent>>
  BY <1>1, <1>3, ReturnRecalls DEF Quiet
<1>4. CASE /\ Unmoved(t, c.base) /\ row' = [row EXCEPT ![t] = new]
           /\ Record(t, <<e>>) /\ parent' = parent
  <2>1. c.base.version = row[t].version /\ row[t].status = "running"
    BY <1>1, <1>4 DEF Unmoved, Knows, Recalls
  <2>2. /\ new \in Row /\ new.version = row[t].version + 1 /\ new.status = row[t].status
        /\ new.step = row[t].step /\ new.budget = row[t].budget
    BY <1>2, <2>1 DEF Row
  <2> HIDE DEF new
  <2>3. e \in Entry
    BY <2>1 DEF Entry, Statuses, Active
  <2>4. /\ e.id = None /\ e.from = row[t].status /\ e.to = new.status /\ e.spent = None
    BY <2>2
  <2> HIDE DEF e
  <2>5. log' = [log EXCEPT ![t] = Append(log[t], e)]
    BY <1>1, <1>2, <1>4, <2>3, RecordIs
  <2>6. /\ new.step = row[t].step + One(e.spent = "step")
        /\ \A k \in Counters : new.budget[k] = row[t].budget[k] + One(e.spent = k)
    <3>1. row[t].step \in Nat /\ \A k \in Counters : row[t].budget[k] \in Nat
      BY <1>2 DEF Row, Budget, Counters
    <3>2. e.spent # "step" /\ \A k \in Counters : e.spent # k
      BY <2>4, CountsAssumption
    <3> QED
      BY <2>2, <3>1, <3>2 DEF One
  <2>7. Entered(t, new, e)
    BY <1>4, <2>1, <2>2, <2>3, <2>4, <2>5, <2>6 DEF Entered, Logged, Statuses, Active
  <2>8. StoreStep
    BY <1>1, <2>2, <2>3, <2>7 DEF StoreStep
  <2> QED
    BY <1>1, <2>8, StoreGrows, OthersRecall, IdleRecalls DEF Return
<1> QED
  BY <1>3, <1>4 DEF AppendSkillEvent

LEMMA HandOffRecalls ==
  ASSUME SafeInv, TypeInv', Recall, NEW p \in Procs, HandOff(p)
  PROVE  StoreStep /\ Recall'
<1> DEFINE c == local[p]
           t == c.task
<1>1. Return(p)
  BY DEF HandOff
<1>2. CASE UNCHANGED <<row, log, parent>>
  BY <1>1, <1>2, ReturnRecalls DEF Quiet
<1>3. ASSUME Unmoved(t, c.base), IndexAdmits(c.session, {t}),
             NEW child \in Tasks, NEW skills \in 0 .. MaxInherited, Completes(p, child, skills)
      PROVE  StoreStep /\ Recall'
  <2>1. HandsOver(p, child, skills)
    BY <1>3, CompletesFacts
  <2>2. /\ t \in Tasks /\ child # t /\ c.base = row[t]
        /\ row[t].status \in {"running", "paused", "completed"}
        /\ row[child].status = "absent"
    BY <2>1 DEF HandsOver
  <2>3. c.session \in Sessions /\ skills \in Nat
    BY ProcsAssumption DEF HandOff, SafeInv, TypeInv, Addressed, AddressedCall
  <2>4. Passed(t, child, c.session, skills)
    BY <1>3, <2>2, <2>3 DEF Completes, Passed, Births
  <2>5. StoreStep
    BY <2>2, <2>3, <2>4 DEF StoreStep
  <2> QED
    BY <1>1, <2>5, StoreGrows, OthersRecall, IdleRecalls DEF Return
<1> QED
  BY <1>2, <1>3, HandOffCases

\* Every step of a process is a step of the store, and leaves true what calls remember.
LEMMA NextRecalls == SafeInv /\ Recall /\ [Next]_vars => StoreStep /\ Recall'
<1> SUFFICES ASSUME SafeInv, Recall, [Next]_vars PROVE StoreStep /\ Recall'
  OBVIOUS
<1>1. TypeInv'
  BY NextTyped DEF SafeInv
<1>2. ASSUME NEW p \in Procs, Step(p)
      PROVE  StoreStep /\ Recall'
  <2>1. Crash(p) => StoreStep /\ Recall'
    BY <1>1, ReturnRecalls DEF Crash, Quiet
  <2> QED
    BY <1>1, <1>2, <2>1, ReadTaskRecalls, LoadRowRecalls, CommitRecalls, CheckSessionRecalls,
       InsertTaskRecalls, AppendSkillEventRecalls, HandOffRecalls DEF Step
<1>3. CASE UNCHANGED vars
  BY <1>3 DEF vars, StoreStep, Quiet, Recall
<1> QED
  BY <1>1, <1>2, <1>3, CallStartRecalls, CallsRecall DEF Next

-----------------------------------------------------------------------------
\* The log after a step. One event more, and what it adds to a counter.
LEMMA OneEvent ==
  ASSUME NEW s \in Seq(Entry), NEW e \in Entry
  PROVE  /\ Append(s, e) \in Seq(Entry) /\ Len(Append(s, e)) = Len(s) + 1
         /\ Len(s) \in Nat /\ DOMAIN s = 1 .. Len(s)
         /\ DOMAIN Append(s, e) = DOMAIN s \cup {Len(s) + 1}
         /\ \A i \in DOMAIN s : Append(s, e)[i] = s[i]
         /\ Append(s, e)[Len(s) + 1] = e
<1> DEFINE a == Append(s, e)
<1>1. /\ a \in Seq(Entry) /\ Len(a) = Len(s) + 1 /\ a[Len(s) + 1] = e
      /\ \A i \in 1 .. Len(s) : a[i] = s[i]
  BY AppendProperties
<1>2. DOMAIN s = 1 .. Len(s) /\ Len(s) \in Nat /\ DOMAIN a = 1 .. Len(a)
  BY <1>1, LenProperties
<1> HIDE DEF a
<1>3. DOMAIN a = DOMAIN s \cup {Len(s) + 1}
  BY <1>1, <1>2
<1> QED
  BY <1>1, <1>2, <1>3 DEF a

\* The events of s that add to k.
Adding(s, k) == {i \in DOMAIN s : s[i].spent = k}

LEMMA OneAdded ==
  ASSUME NEW s \in Seq(Entry), NEW e \in Entry, NEW k
  PROVE  /\ Cardinality(Adding(s, k)) \in Nat
         /\ Cardinality(Adding(Append(s, e), k)) = Cardinality(Adding(s, k)) + One(e.spent = k)
<1> DEFINE a == Append(s, e)
           n == Len(s) + 1
<1>1. /\ Len(s) \in Nat /\ DOMAIN s = 1 .. Len(s) /\ DOMAIN a = DOMAIN s \cup {n}
      /\ \A i \in DOMAIN s : a[i] = s[i] /\ a[n] = e
  BY OneEvent
<1>2. a[n] = e /\ n \notin DOMAIN s
  <2>1. a[n] = e
    BY OneEvent
  <2> QED
    BY <1>1, <2>1
<1>3. IsFiniteSet(DOMAIN s)
  BY <1>1, FS_Interval
<1>4. IsFiniteSet(Adding(s, k)) /\ Cardinality(Adding(s, k)) \in Nat
  <2>1. Adding(s, k) \subseteq DOMAIN s
    BY DEF Adding
  <2> QED
    BY <1>3, <2>1, FS_Subset, FS_CardinalityType
<1> HIDE DEF a, n
<1>5. CASE e.spent = k
  <2>1. Adding(a, k) = Adding(s, k) \cup {n} /\ n \notin Adding(s, k)
    BY <1>1, <1>2, <1>5 DEF Adding
  <2>2. Cardinality(Adding(a, k)) = Cardinality(Adding(s, k)) + 1
    BY <1>4, <2>1, FS_AddElement
  <2> QED
    BY <1>4, <1>5, <2>2 DEF One, a
<1>6. CASE e.spent # k
  <2>1. Adding(a, k) = Adding(s, k)
    BY <1>1, <1>2, <1>6 DEF Adding
  <2> QED
    BY <1>4, <1>6, <2>1 DEF One, a
<1> QED
  BY <1>5, <1>6

\* The events that a handoff gives to the child.
LEMMA BirthsAre ==
  ASSUME NEW skills \in Nat
  PROVE  /\ Births(skills) \in Seq(Entry) /\ Len(Births(skills)) = 1 + skills
         /\ DOMAIN Births(skills) = 1 .. 1 + skills
         /\ \A i \in 1 .. 1 + skills :
              /\ Births(skills)[i].id = None /\ Births(skills)[i].spent = None
              /\ Births(skills)[i].to = "created"
              /\ Births(skills)[i].from = IF i = 1 THEN "absent" ELSE "created"
<1> DEFINE b == Births(skills)
<1>1. b = [i \in 1 .. 1 + skills |-> Created(IF i = 1 THEN "absent" ELSE "created")]
  BY DEF Births
<1>2. \A i \in 1 .. 1 + skills : b[i] \in Entry
  BY <1>1 DEF Created, Entry, Statuses, Active
<1>3. 1 + skills \in Nat /\ b \in [1 .. 1 + skills -> Entry]
  BY <1>1, <1>2
<1>4. b \in Seq(Entry)
  BY <1>3, SeqDef
<1>5. DOMAIN b = 1 .. 1 + skills
  BY <1>1
<1>6. Len(b) = 1 + skills
  BY <1>3, <1>4, <1>5, LenProperties
<1>7. \A i \in 1 .. 1 + skills :
         /\ b[i].id = None /\ b[i].spent = None /\ b[i].to = "created"
         /\ b[i].from = IF i = 1 THEN "absent" ELSE "created"
  BY <1>1 DEF Created
<1> HIDE DEF b
<1>8. b = Births(skills)
  BY DEF b
<1> QED
  BY <1>4, <1>5, <1>6, <1>7, <1>8

\* The story of one task.
StoryOf(r, s) ==
  /\ r.version = Len(s)
  /\ s # <<>> => s[1].from = "absent" /\ s[Len(s)].to = r.status
  /\ \A i \in 2 .. Len(s) : s[i].from = s[i - 1].to

LEMMA StoriesAre == EventLogComplete <=> \A t \in Tasks : StoryOf(row[t], log[t])
  BY DEF EventLogComplete, StoryOf

LEMMA StoryGoesOn ==
  ASSUME NEW r, NEW s \in Seq(Entry), NEW new, NEW e \in Entry, StoryOf(r, s),
         e.from = IF s = <<>> THEN "absent" ELSE r.status,
         e.to = new.status, new.version = Len(s) + 1
  PROVE  StoryOf(new, Append(s, e))
<1> DEFINE a == Append(s, e)
<1>1. /\ Len(a) = Len(s) + 1 /\ Len(s) \in Nat /\ DOMAIN s = 1 .. Len(s)
      /\ \A i \in DOMAIN s : a[i] = s[i]
      /\ a[Len(s) + 1] = e
  BY OneEvent
<1> HIDE DEF a
<1>2. CASE s = <<>>
  <2>1. Len(s) = 0
    BY <1>2
  <2> QED
    BY <1>1, <1>2, <2>1 DEF StoryOf, a
<1>3. CASE s # <<>>
  <2>1. Len(s) >= 1
    BY <1>3, EmptySeq
  <2>2. a[1].from = "absent" /\ a[Len(a)].to = new.status /\ new.version = Len(a)
    BY <1>1, <1>3, <2>1 DEF StoryOf
  <2>3. \A i \in 2 .. Len(a) : a[i].from = a[i - 1].to
    <3> SUFFICES ASSUME NEW i \in 2 .. Len(a) PROVE a[i].from = a[i - 1].to
      OBVIOUS
    <3>1. CASE i = Len(s) + 1
      BY <1>1, <1>3, <2>1, <3>1 DEF StoryOf
    <3>2. CASE i # Len(s) + 1
      BY <1>1, <2>1, <3>2 DEF StoryOf
    <3> QED
      BY <3>1, <3>2
  <2> QED
    BY <2>2, <2>3 DEF StoryOf, a
<1> QED
  BY <1>2, <1>3

\* No step of the store leaves an event out.
LEMMA StoryKept ==
  ASSUME SafeInv, EventLogComplete, Lineage, StoreStep
  PROVE  EventLogComplete'
<1>1. \A t \in Tasks : /\ row[t] \in Row /\ log[t] \in Seq(Entry) /\ StoryOf(row[t], log[t])
                       /\ row[t].version = Len(log[t])
                       /\ row[t].status = "absent" <=> log[t] = <<>>
  BY StoriesAre DEF SafeInv, TypeInv, TypeOK, StoryOf, Lineage
<1>2. DOMAIN row = Tasks /\ DOMAIN log = Tasks
  BY DEF SafeInv, TypeInv, TypeOK
<1> SUFFICES ASSUME NEW u \in Tasks PROVE StoryOf(row'[u], log'[u])
  BY DEF EventLogComplete, StoryOf
<1>3. CASE Quiet
  BY <1>1, <1>3 DEF Quiet
<1>4. ASSUME NEW t \in Tasks, NEW new \in Row, NEW e \in Entry, Entered(t, new, e)
      PROVE  StoryOf(row'[u], log'[u])
  <2>1. /\ row' = [row EXCEPT ![t] = new] /\ log' = [log EXCEPT ![t] = Append(log[t], e)]
        /\ e.from = row[t].status /\ e.to = new.status /\ new.version = Len(log[t]) + 1
        /\ log[t] # <<>>
    BY <1>1, <1>4 DEF Entered, Active
  <2>2. StoryOf(new, Append(log[t], e))
    BY <1>1, <2>1, StoryGoesOn
  <2> QED
    BY <1>1, <1>2, <2>1, <2>2
<1>5. ASSUME NEW t \in Tasks, NEW s \in Sessions, Opened(t, s)
      PROVE  StoryOf(row'[u], log'[u])
  <2> DEFINE new == CreatedRow(s, 0, FreshBudget)
             e == Created("absent")
  <2>1. /\ row' = [row EXCEPT ![t] = new] /\ log' = [log EXCEPT ![t] = Append(log[t], e)]
        /\ log[t] = <<>>
    BY <1>1, <1>5 DEF Opened
  <2>2. new.version = 1 /\ new.status = "created"
    BY DEF CreatedRow, NoRow
  <2>3. e \in Entry /\ e.from = "absent" /\ e.to = "created"
    BY CreatedType DEF Created
  <2>4. Len(log[t]) = 0
    BY <2>1
  <2> HIDE DEF new, e
  <2>5. /\ StoryOf(row[t], log[t]) /\ log[t] \in Seq(Entry) /\ e \in Entry /\ e.to = new.status
        /\ e.from = (IF log[t] = <<>> THEN "absent" ELSE row[t].status)
        /\ new.version = Len(log[t]) + 1
    BY <1>1, <2>1, <2>2, <2>3, <2>4
  <2>6. StoryOf(new, Append(log[t], e))
    BY <2>5, StoryGoesOn
  <2> QED
    BY <1>1, <1>2, <2>1, <2>6
<1>6. ASSUME NEW t \in Tasks, NEW child \in Tasks, NEW s \in Sessions, NEW skills \in Nat,
             Passed(t, child, s, skills)
      PROVE  StoryOf(row'[u], log'[u])
  <2> DEFINE born == [CreatedRow(s, row[t].step, row[t].budget) EXCEPT !.version = 1 + skills]
             gone == HandedOff(row[t], row[t])
             e == [id |-> None, from |-> row[t].status, to |-> "handed_off", spent |-> None]
             a == Append(log[t], e)
             b == Births(skills)
  <2>1. /\ row' = [row EXCEPT ![t] = gone, ![child] = born]
        /\ log' = [log EXCEPT ![t] = a, ![child] = b]
        /\ child # t /\ row[t].status \in {"running", "paused", "completed"}
    BY <1>6 DEF Passed
  <2>2. gone.version = Len(log[t]) + 1 /\ gone.status = "handed_off"
    BY <1>1, HandedOffFacts
  <2>3. born.version = 1 + skills /\ born.status = "created"
    BY BornFacts
  <2>4. e \in Entry /\ e.from = row[t].status /\ e.to = "handed_off"
    BY <2>1 DEF Entry, Statuses, Active, Terminal
  <2>5. log[t] # <<>>
    BY <1>1, <2>1
  <2>6. StoryOf(born, b)
    <3>1. /\ Len(b) = 1 + skills
          /\ \A i \in 1 .. 1 + skills :
               b[i].to = "created" /\ b[i].from = IF i = 1 THEN "absent" ELSE "created"
      BY BirthsAre
    <3> HIDE DEF b, born
    <3> QED
      BY <2>3, <3>1 DEF StoryOf
  <2> HIDE DEF born, gone, e
  <2>7. StoryOf(gone, a)
    BY <1>1, <2>2, <2>4, <2>5, StoryGoesOn
  <2> HIDE DEF a, b
  <2>8. row'[u] = (IF u = child THEN born ELSE IF u = t THEN gone ELSE row[u])
        /\ log'[u] = (IF u = child THEN b ELSE IF u = t THEN a ELSE log[u])
    BY <1>2, <2>1
  <2> QED
    BY <1>1, <2>6, <2>7, <2>8
<1> QED
  BY <1>3, <1>4, <1>5, <1>6 DEF StoreStep

\* A task handed off stays so, and no task is without events.
LEMMA LineageKept ==
  ASSUME SafeInv, Lineage, StoreStep
  PROVE  Lineage'
<1>1. \A t \in Tasks : /\ row[t] \in Row /\ log[t] \in Seq(Entry)
                       /\ parent[t] \in Tasks \cup {None}
                       /\ parent[t] # None => row[parent[t]].status = "handed_off"
                       /\ row[t].status = "absent" => parent[t] = None
                       /\ row[t].status = "absent" <=> log[t] = <<>>
  BY DEF SafeInv, TypeInv, TypeOK, Lineage
<1>2. DOMAIN row = Tasks /\ DOMAIN log = Tasks /\ DOMAIN parent = Tasks /\ None \notin Tasks
  BY NullAssumption DEF SafeInv, TypeInv, TypeOK
<1>3. CASE Quiet
  BY <1>1, <1>3 DEF Quiet, Lineage
<1>4. ASSUME NEW t \in Tasks, NEW new \in Row, NEW e \in Entry, Entered(t, new, e)
      PROVE  Lineage'
  <2>1. /\ row' = [row EXCEPT ![t] = new] /\ log' = [log EXCEPT ![t] = Append(log[t], e)]
        /\ parent' = parent /\ row[t].status \in Active
        /\ new.status # "absent" /\ row[t].status # "handed_off" /\ row[t].status # "absent"
    BY <1>4 DEF Entered, Statuses, Active, Terminal
  <2>2. Append(log[t], e) # <<>>
    BY <1>1, AppendProperties
  <2> QED
    BY <1>1, <1>2, <2>1, <2>2 DEF Lineage
<1>5. ASSUME NEW t \in Tasks, NEW s \in Sessions, Opened(t, s)
      PROVE  Lineage'
  <2>1. /\ row' = [row EXCEPT ![t] = CreatedRow(s, 0, FreshBudget)]
        /\ log' = [log EXCEPT ![t] = Append(log[t], Created("absent"))]
        /\ parent' = parent /\ row[t].status = "absent"
    BY <1>5 DEF Opened
  <2>2. CreatedRow(s, 0, FreshBudget).status = "created"
    BY DEF CreatedRow, NoRow
  <2>3. Append(log[t], Created("absent")) # <<>>
    BY <1>1, CreatedType, AppendProperties
  <2> QED
    BY <1>1, <1>2, <2>1, <2>2, <2>3 DEF Lineage
<1>6. ASSUME NEW t \in Tasks, NEW child \in Tasks, NEW s \in Sessions, NEW skills \in Nat,
             Passed(t, child, s, skills)
      PROVE  Lineage'
  <2> DEFINE born == [CreatedRow(s, row[t].step, row[t].budget) EXCEPT !.version = 1 + skills]
             gone == HandedOff(row[t], row[t])
             e == [id |-> None, from |-> row[t].status, to |-> "handed_off", spent |-> None]
             a == Append(log[t], e)
             b == Births(skills)
  <2>1. /\ row' = [row EXCEPT ![t] = gone, ![child] = born]
        /\ log' = [log EXCEPT ![t] = a, ![child] = b]
        /\ parent' = [parent EXCEPT ![child] = t]
        /\ child # t /\ row[t].status \in {"running", "paused", "completed"}
        /\ row[child].status = "absent"
    BY <1>6 DEF Passed
  <2>2. gone.status = "handed_off" /\ born.status = "created"
    BY <1>1, HandedOffFacts, BornFacts
  <2>3. a # <<>>
    <3>1. e \in Entry
      BY <2>1 DEF Entry, Statuses, Active, Terminal
    <3> QED
      BY <1>1, <3>1, AppendProperties
  <2>4. b # <<>>
    <3>1. Len(b) = 1 + skills
      BY BirthsAre
    <3> HIDE DEF b
    <3>2. Len(<<>>) = 0
      OBVIOUS
    <3> QED
      BY <3>1, <3>2
  <2> HIDE DEF born, gone, a, b
  <2>5. \A u \in Tasks :
          /\ row'[u] = (IF u = child THEN born ELSE IF u = t THEN gone ELSE row[u])
          /\ log'[u] = (IF u = child THEN b ELSE IF u = t THEN a ELSE log[u])
          /\ parent'[u] = IF u = child THEN t ELSE parent[u]
    BY <1>2, <2>1
  <2>6. \A u \in Tasks : parent'[u] # None => row'[parent'[u]].status = "handed_off"
    <3> SUFFICES ASSUME NEW u \in Tasks, parent'[u] # None
                 PROVE  row'[parent'[u]].status = "handed_off"
      OBVIOUS
    <3>1. CASE u = child
      BY <2>1, <2>2, <2>5, <3>1
    <3>2. CASE u # child
      <4>1. parent'[u] = parent[u] /\ parent[u] \in Tasks
        BY <1>1, <2>5, <3>2
      <4>2. row[parent[u]].status = "handed_off"
        BY <1>1, <4>1
      <4> QED
        BY <2>1, <2>5, <4>1, <4>2
    <3> QED
      BY <3>1, <3>2
  <2>7. \A u \in Tasks : row'[u].status = "absent" => parent'[u] = None
    BY <1>1, <2>2, <2>5
  <2>8. \A u \in Tasks : row'[u].status = "absent" <=> log'[u] = <<>>
    BY <1>1, <2>2, <2>3, <2>4, <2>5
  <2> QED
    BY <2>6, <2>7, <2>8 DEF Lineage
<1> QED
  BY <1>3, <1>4, <1>5, <1>6 DEF StoreStep

\* An event that is recorded has an id that is not, or none.
LEMMA OnceKept ==
  ASSUME SafeInv, EventAppliedOnce, StoreStep
  PROVE  EventAppliedOnce'
<1>1. \A t \in Tasks : row[t] \in Row /\ log[t] \in Seq(Entry)
  BY DEF SafeInv, TypeInv, TypeOK
<1>2. DOMAIN row = Tasks /\ DOMAIN log = Tasks
  BY DEF SafeInv, TypeInv, TypeOK
<1>3. ASSUME NEW u \in Tasks, NEW v \in Tasks, NEW i \in DOMAIN log[u], NEW j \in DOMAIN log[v],
             log[u][i].id # None, log[u][i].id = log[v][j].id
      PROVE  u = v /\ i = j
  BY <1>3 DEF EventAppliedOnce
<1>4. ASSUME NEW t \in Tasks, NEW e \in Entry, ~Logged(e.id),
             \A u \in Tasks : \A i \in DOMAIN log'[u] :
               log'[u][i].id # None =>
                 \/ i \in DOMAIN log[u] /\ log'[u][i].id = log[u][i].id
                 \/ u = t /\ i = Len(log[t]) + 1 /\ log'[u][i].id = e.id
      PROVE  EventAppliedOnce'
  <2> SUFFICES ASSUME NEW u \in Tasks, NEW v \in Tasks, NEW i \in DOMAIN log'[u],
                      NEW j \in DOMAIN log'[v], log'[u][i].id # None,
                      log'[u][i].id = log'[v][j].id
               PROVE  u = v /\ i = j
    BY DEF EventAppliedOnce
  <2>1. CASE i \in DOMAIN log[u] /\ log'[u][i].id = log[u][i].id
    <3>1. CASE j \in DOMAIN log[v] /\ log'[v][j].id = log[v][j].id
      <4>1. log[u][i].id # None /\ log[u][i].id = log[v][j].id
        BY <2>1, <3>1
      <4> QED
        BY <1>3, <2>1, <3>1, <4>1
    <3>2. CASE log'[v][j].id = e.id
      BY <1>4, <2>1, <3>2 DEF Logged
    <3> QED
      BY <1>4, <3>1, <3>2
  <2>2. CASE u = t /\ i = Len(log[t]) + 1 /\ log'[u][i].id = e.id
    <3>1. CASE j \in DOMAIN log[v] /\ log'[v][j].id = log[v][j].id
      BY <1>4, <2>2, <3>1 DEF Logged
    <3>2. CASE v = t /\ j = Len(log[t]) + 1
      BY <2>2, <3>2
    <3> QED
      BY <1>4, <3>1, <3>2
  <2> QED
    BY <1>4, <2>1, <2>2
<1>5. CASE Quiet
  BY <1>5 DEF Quiet, EventAppliedOnce
<1>6. ASSUME NEW t \in Tasks, NEW e \in Entry, ~Logged(e.id),
             log' = [log EXCEPT ![t] = Append(log[t], e)]
      PROVE  EventAppliedOnce'
  <2>1. \A u \in Tasks : log'[u] = IF u = t THEN Append(log[t], e) ELSE log[u]
    BY <1>2, <1>6
  <2>2. /\ DOMAIN Append(log[t], e) = DOMAIN log[t] \cup {Len(log[t]) + 1}
        /\ \A i \in DOMAIN log[t] : Append(log[t], e)[i] = log[t][i]
        /\ Append(log[t], e)[Len(log[t]) + 1] = e
    BY <1>1, OneEvent
  <2>3. \A u \in Tasks : \A i \in DOMAIN log'[u] :
          log'[u][i].id # None =>
            \/ i \in DOMAIN log[u] /\ log'[u][i].id = log[u][i].id
            \/ u = t /\ i = Len(log[t]) + 1 /\ log'[u][i].id = e.id
    BY <2>1, <2>2
  <2> QED
    BY <1>4, <1>6, <2>3
<1>7. ASSUME NEW t \in Tasks, NEW new \in Row, NEW e \in Entry, Entered(t, new, e)
      PROVE  EventAppliedOnce'
  BY <1>6, <1>7 DEF Entered
<1>8. ASSUME NEW t \in Tasks, NEW s \in Sessions, Opened(t, s)
      PROVE  EventAppliedOnce'
  <2>1. Created("absent") \in Entry /\ ~Logged(Created("absent").id)
    BY CreatedType DEF Created, Logged
  <2> QED
    BY <1>6, <1>8, <2>1 DEF Opened
<1>9. ASSUME NEW t \in Tasks, NEW child \in Tasks, NEW s \in Sessions, NEW skills \in Nat,
             Passed(t, child, s, skills)
      PROVE  EventAppliedOnce'
  <2> DEFINE e == [id |-> None, from |-> row[t].status, to |-> "handed_off", spent |-> None]
             a == Append(log[t], e)
             b == Births(skills)
  <2>1. /\ log' = [log EXCEPT ![t] = a, ![child] = b] /\ child # t
        /\ row[t].status \in {"running", "paused", "completed"}
    BY <1>9 DEF Passed
  <2>2. e \in Entry /\ e.id = None
    BY <2>1 DEF Entry, Statuses, Active, Terminal
  <2>3. /\ DOMAIN a = DOMAIN log[t] \cup {Len(log[t]) + 1}
        /\ \A i \in DOMAIN log[t] : a[i] = log[t][i]
        /\ a[Len(log[t]) + 1] = e
    BY <1>1, <2>2, OneEvent
  <2>4. \A i \in DOMAIN b : b[i].id = None
    BY BirthsAre
  <2> HIDE DEF a, b, e
  <2>5. \A u \in Tasks : log'[u] = IF u = child THEN b ELSE IF u = t THEN a ELSE log[u]
    BY <1>2, <2>1
  <2>6. \A u \in Tasks : \A i \in DOMAIN log'[u] :
          log'[u][i].id # None => i \in DOMAIN log[u] /\ log'[u][i].id = log[u][i].id
    BY <2>2, <2>3, <2>4, <2>5
  <2>7. ~Logged(e.id)
    BY <2>2 DEF Logged
  <2> QED
    BY <1>4, <2>2, <2>6, <2>7
<1> QED
  BY <1>5, <1>7, <1>8, <1>9 DEF StoreStep

\* The account of a task: what it started with, and what its events added.
Balanced(r, from, s) ==
  /\ r.step = from.step + Cardinality(Adding(s, "step"))
  /\ \A k \in Counters : r.budget[k] = from.budget[k] + Cardinality(Adding(s, k))

LEMMA AccountsAre ==
  NothingLost <=> \A t \in Tasks :
                    row[t].status # "absent" => Balanced(row[t], Inherited(t), log[t])
  BY DEF NothingLost, Balanced, Added, Adding

\* An event keeps the account.
LEMMA AccountGoesOn ==
  ASSUME NEW r, NEW from, NEW s \in Seq(Entry), NEW new, NEW e \in Entry,
         Balanced(r, from, s), from.step \in Nat, \A k \in Counters : from.budget[k] \in Nat,
         new.step = r.step + One(e.spent = "step"),
         \A k \in Counters : new.budget[k] = r.budget[k] + One(e.spent = k)
  PROVE  Balanced(new, from, Append(s, e))
<1> DEFINE a == Append(s, e)
           was(k) == Cardinality(Adding(s, k))
           is(k) == Cardinality(Adding(a, k))
<1>1. ASSUME NEW k PROVE was(k) \in Nat /\ is(k) = was(k) + One(e.spent = k)
  BY OneAdded
<1>2. r.step = from.step + was("step") /\ \A k \in Counters : r.budget[k] = from.budget[k] + was(k)
  BY DEF Balanced
<1>3. ASSUME NEW k, was(k) \in Nat, is(k) = was(k) + One(e.spent = k), NEW m \in Nat, NEW n, NEW o,
             n = m + was(k), o = n + One(e.spent = k)
      PROVE  o = m + is(k)
  <2> DEFINE x == One(e.spent = k)
  <2>1. x \in Nat
    BY DEF One
  <2> HIDE DEF x, was, is
  <2>2. is(k) = was(k) + x /\ o = n + x
    BY <1>3 DEF x
  <2> QED
    BY <1>3, <2>1, <2>2
<1> HIDE DEF was, is
<1>4. new.step = from.step + is("step")
  BY <1>1, <1>2, <1>3
<1>5. \A k \in Counters : new.budget[k] = from.budget[k] + is(k)
  <2> SUFFICES ASSUME NEW k \in Counters PROVE new.budget[k] = from.budget[k] + is(k)
    OBVIOUS
  <2> QED
    BY <1>1, <1>2, <1>3
<1> QED
  BY <1>4, <1>5 DEF Balanced, is, a

\* What a task inherits has numbers.
LEMMA InheritedTyped ==
  ASSUME TypeOK, NEW t \in Tasks
  PROVE  Inherited(t).step \in Nat /\ \A k \in Counters : Inherited(t).budget[k] \in Nat
<1>1. CASE parent[t] = None
  BY <1>1 DEF Inherited, CreatedRow, NoRow, FreshBudget, Counters
<1>2. CASE parent[t] # None
  <2>1. row[parent[t]] \in Row
    BY <1>2 DEF TypeOK
  <2> QED
    BY <1>2, <2>1 DEF Inherited, Row, Budget, Counters
<1> QED
  BY <1>1, <1>2

\* No step of the store loses what events have added.
LEMMA AccountKept ==
  ASSUME SafeInv, Lineage, NothingLost, StoreStep
  PROVE  NothingLost'
<1>1. /\ TypeOK
      /\ \A t \in Tasks : /\ row[t] \in Row /\ log[t] \in Seq(Entry)
                          /\ parent[t] \in Tasks \cup {None}
  BY DEF SafeInv, TypeInv, TypeOK
<1>2. DOMAIN row = Tasks /\ DOMAIN log = Tasks /\ DOMAIN parent = Tasks /\ None \notin Tasks
  BY NullAssumption DEF SafeInv, TypeInv, TypeOK
<1>3. \A t \in Tasks : row[t].status # "absent" => Balanced(row[t], Inherited(t), log[t])
  BY AccountsAre
<1>4. \A t \in Tasks : /\ parent[t] # None => row[parent[t]].status = "handed_off"
                       /\ row[t].status = "absent" => parent[t] = None
                       /\ row[t].status = "absent" <=> log[t] = <<>>
  BY DEF Lineage
<1> SUFFICES ASSUME NEW u \in Tasks, row'[u].status # "absent"
             PROVE  Balanced(row'[u], Inherited(u)', log'[u])
  BY DEF NothingLost, Balanced, Added, Adding
<1>5. ASSUME parent'[u] = parent[u], parent[u] # None => row'[parent[u]] = row[parent[u]]
      PROVE  /\ Inherited(u)'.step = Inherited(u).step
             /\ Inherited(u)'.budget = Inherited(u).budget
  BY <1>5 DEF Inherited, CreatedRow, NoRow
<1>6. ASSUME parent'[u] = parent[u], parent[u] # None => row'[parent[u]] = row[parent[u]],
             row'[u] = row[u], log'[u] = log[u]
      PROVE  Balanced(row'[u], Inherited(u)', log'[u])
  BY <1>3, <1>5, <1>6 DEF Balanced
<1>7. ASSUME parent'[u] = parent[u], parent[u] # None => row'[parent[u]] = row[parent[u]],
             row[u].status # "absent", NEW e \in Entry, log'[u] = Append(log[u], e),
             row'[u].step = row[u].step + One(e.spent = "step"),
             \A k \in Counters : row'[u].budget[k] = row[u].budget[k] + One(e.spent = k)
      PROVE  Balanced(row'[u], Inherited(u)', log'[u])
  <2>1. Inherited(u).step \in Nat /\ \A k \in Counters : Inherited(u).budget[k] \in Nat
    BY <1>1, InheritedTyped
  <2>2. Balanced(row[u], Inherited(u), log[u]) /\ log[u] \in Seq(Entry)
    BY <1>1, <1>3, <1>7
  <2>3. Balanced(row'[u], Inherited(u), Append(log[u], e))
    BY <1>7, <2>1, <2>2, AccountGoesOn
  <2> QED
    BY <1>5, <1>7, <2>3 DEF Balanced
<1>8. ASSUME NEW r, NEW s, r.step \in Nat, \A k \in Counters : r.budget[k] \in Nat,
             \A k \in Counters \cup {"step"} : Adding(s, k) = {}
      PROVE  Balanced(r, r, s)
  BY <1>8, FS_EmptySet DEF Balanced
<1>9. One(None = "step") = 0 /\ \A k \in Counters : One(None = k) = 0
  BY CountsAssumption DEF One
<1>10. CASE Quiet
  BY <1>6, <1>10 DEF Quiet
<1>11. ASSUME NEW t \in Tasks, NEW new \in Row, NEW e \in Entry, Entered(t, new, e)
       PROVE  Balanced(row'[u], Inherited(u)', log'[u])
  <2>1. /\ row' = [row EXCEPT ![t] = new] /\ log' = [log EXCEPT ![t] = Append(log[t], e)]
        /\ parent' = parent /\ row[t].status # "handed_off" /\ row[t].status # "absent"
        /\ new.step = row[t].step + One(e.spent = "step")
        /\ \A k \in Counters : new.budget[k] = row[t].budget[k] + One(e.spent = k)
    BY <1>11 DEF Entered, Active
  <2>2. parent[u] # None => row'[parent[u]] = row[parent[u]]
    BY <1>1, <1>2, <1>4, <2>1
  <2>3. CASE u = t
    <3>1. row'[u] = new /\ log'[u] = Append(log[u], e)
      BY <1>2, <2>1, <2>3
    <3> QED
      BY <1>7, <2>1, <2>2, <2>3, <3>1
  <2>4. CASE u # t
    BY <1>2, <1>6, <2>1, <2>2, <2>4
  <2> QED
    BY <2>3, <2>4
<1>12. ASSUME NEW t \in Tasks, NEW s \in Sessions, Opened(t, s)
       PROVE  Balanced(row'[u], Inherited(u)', log'[u])
  <2> DEFINE new == CreatedRow(s, 0, FreshBudget)
             e == Created("absent")
  <2>1. /\ row' = [row EXCEPT ![t] = new] /\ log' = [log EXCEPT ![t] = Append(log[t], e)]
        /\ parent' = parent /\ row[t].status = "absent"
    BY <1>12 DEF Opened
  <2>2. parent[u] # None => row'[parent[u]] = row[parent[u]]
    BY <1>1, <1>2, <1>4, <2>1
  <2>3. CASE u = t
    <3>1. row'[u] = new /\ log'[u] = Append(log[t], e) /\ log[t] = <<>> /\ parent'[u] = None
      BY <1>2, <1>4, <2>1, <2>3
    <3>2. new.step = 0 /\ new.budget = FreshBudget
      BY DEF CreatedRow, NoRow
    <3>3. Inherited(u)'.step = 0 /\ Inherited(u)'.budget = FreshBudget
      BY <3>1 DEF Inherited, CreatedRow, NoRow
    <3>4. \A k \in Counters \cup {"step"} : Adding(log'[u], k) = {}
      <4>1. e \in Entry /\ e.spent = None
        BY CreatedType DEF Created
      <4> HIDE DEF e
      <4>2. /\ DOMAIN Append(log[t], e) = DOMAIN log[t] \cup {Len(log[t]) + 1}
            /\ Append(log[t], e)[Len(log[t]) + 1] = e
        BY <1>1, <4>1, OneEvent
      <4>3. DOMAIN log[t] = {}
        BY <3>1
      <4>4. \A i \in DOMAIN log'[u] : log'[u][i].spent = None
        BY <3>1, <4>1, <4>2, <4>3
      <4> QED
        BY <4>4, CountsAssumption DEF Adding
    <3>5. \A k \in Counters : FreshBudget[k] = 0
      BY DEF FreshBudget, Counters
    <3> HIDE DEF new
    <3>6. Balanced(new, new, log'[u])
      BY <1>8, <3>2, <3>4, <3>5
    <3> QED
      BY <3>1, <3>2, <3>3, <3>6 DEF Balanced
  <2>4. CASE u # t
    BY <1>2, <1>6, <2>1, <2>2, <2>4
  <2> QED
    BY <2>3, <2>4
<1>13. ASSUME NEW t \in Tasks, NEW child \in Tasks, NEW s \in Sessions, NEW skills \in Nat,
              Passed(t, child, s, skills)
       PROVE  Balanced(row'[u], Inherited(u)', log'[u])
  <2> DEFINE born == [CreatedRow(s, row[t].step, row[t].budget) EXCEPT !.version = 1 + skills]
             gone == HandedOff(row[t], row[t])
             e == [id |-> None, from |-> row[t].status, to |-> "handed_off", spent |-> None]
             a == Append(log[t], e)
             b == Births(skills)
  <2>1. /\ row' = [row EXCEPT ![t] = gone, ![child] = born]
        /\ log' = [log EXCEPT ![t] = a, ![child] = b]
        /\ parent' = [parent EXCEPT ![child] = t]
        /\ child # t /\ row[t].status \in {"running", "paused", "completed"}
        /\ row[child].status = "absent"
    BY <1>13 DEF Passed
  <2>2. /\ gone.step = row[t].step /\ gone.budget = row[t].budget
        /\ born.step = row[t].step /\ born.budget = row[t].budget
    BY <1>1, HandedOffFacts, BornFacts
  <2>3. e \in Entry /\ e.spent = None
    BY <2>1 DEF Entry, Statuses, Active, Terminal
  <2>4. \A k \in Counters \cup {"step"} : Adding(b, k) = {}
    <3>1. \A i \in DOMAIN b : b[i].spent = None
      BY BirthsAre
    <3> HIDE DEF b
    <3> QED
      BY <3>1, CountsAssumption DEF Adding
  <2>5. row[t].step \in Nat /\ \A k \in Counters : row[t].budget[k] \in Nat
    BY <1>1 DEF Row, Budget, Counters
  <2> HIDE DEF born, gone, b, e
  <2>6. \A v \in Tasks :
          /\ row'[v] = (IF v = child THEN born ELSE IF v = t THEN gone ELSE row[v])
          /\ log'[v] = (IF v = child THEN b ELSE IF v = t THEN a ELSE log[v])
          /\ parent'[v] = IF v = child THEN t ELSE parent[v]
    BY <1>2, <2>1
  <2>7. parent[u] # None => row'[parent[u]] = row[parent[u]]
    <3> SUFFICES ASSUME parent[u] # None PROVE row'[parent[u]] = row[parent[u]]
      OBVIOUS
    <3>1. parent[u] \in Tasks /\ row[parent[u]].status = "handed_off"
      BY <1>1, <1>4
    <3>2. parent[u] # t /\ parent[u] # child
      BY <2>1, <3>1
    <3> QED
      BY <2>6, <3>1, <3>2
  <2>8. CASE u = child
    <3>1. row'[u] = born /\ log'[u] = b /\ parent'[u] = t /\ row'[t] = gone
      BY <2>1, <2>6, <2>8
    <3>2. Inherited(u)' = gone
      BY <1>2, <3>1 DEF Inherited
    <3>3. Balanced(born, born, b)
      BY <1>8, <2>2, <2>4, <2>5
    <3> QED
      BY <2>2, <3>1, <3>2, <3>3 DEF Balanced
  <2>9. CASE u = t
    <3>1. /\ row'[u] = gone /\ log'[u] = Append(log[u], e) /\ parent'[u] = parent[u]
          /\ row[u].status # "absent"
      BY <2>1, <2>6, <2>9
    <3>2. /\ row'[u].step = row[u].step + One(e.spent = "step")
          /\ \A k \in Counters : row'[u].budget[k] = row[u].budget[k] + One(e.spent = k)
      BY <1>9, <2>2, <2>3, <2>5, <2>9, <3>1
    <3> QED
      BY <1>7, <2>3, <2>7, <3>1, <3>2
  <2>10. CASE u # child /\ u # t
    BY <1>6, <2>6, <2>7, <2>10
  <2> QED
    BY <2>8, <2>9, <2>10
<1> QED
  BY <1>10, <1>11, <1>12, <1>13 DEF StoreStep

-----------------------------------------------------------------------------
LEMMA InitLog == Init => LogInv
<1> SUFFICES ASSUME Init PROVE LogInv
  OBVIOUS
<1>1. SafeInv /\ Recall
  BY InitSafe, IdleRecalls DEF Init, Recall
<1>2. \A t \in Tasks : /\ row[t].status = "absent" /\ row[t].version = 0
                       /\ log[t] = <<>> /\ parent[t] = None
  BY DEF Init, NoRow
<1>3. EventLogComplete /\ EventAppliedOnce
  <2>1. \A t \in Tasks : Len(log[t]) = 0 /\ DOMAIN log[t] = {}
    BY <1>2
  <2> QED
    BY <1>2, <2>1 DEF EventLogComplete, EventAppliedOnce
<1>4. Lineage /\ NothingLost
  BY <1>2 DEF Lineage, NothingLost
<1> QED
  BY <1>1, <1>3, <1>4 DEF LogInv

LEMMA NextLog == LogInv /\ [Next]_vars => LogInv'
<1> SUFFICES ASSUME LogInv, [Next]_vars PROVE LogInv'
  OBVIOUS
<1>1. SafeInv /\ Recall /\ EventLogComplete /\ EventAppliedOnce /\ Lineage /\ NothingLost
  BY DEF LogInv
<1>2. SafeInv'
  BY <1>1, NextSafe
<1>3. StoreStep /\ Recall'
  BY <1>1, NextRecalls
<1> QED
  BY <1>1, <1>2, <1>3, StoryKept, OnceKept, LineageKept, AccountKept DEF LogInv

\* The log and the accounts hold in every behaviour, with what calls remember.
THEOREM LogInvariant == Spec => []LogInv
  BY InitLog, NextLog, PTL DEF Spec

\* However the reads and writes of several processes interleave, the events of a task tell
\* its whole story: as many as its version, each from where the one before it ended.
THEOREM LogComplete == Spec => []EventLogComplete
<1>1. LogInv => EventLogComplete
  BY DEF LogInv
<1> QED
  BY <1>1, LogInvariant, PTL

\* An event that is sent again is applied once, whatever the task and the process.
THEOREM AppliedOnce == Spec => []EventAppliedOnce
<1>1. LogInv => EventAppliedOnce
  BY DEF LogInv
<1> QED
  BY <1>1, LogInvariant, PTL

\* The counters of a task are those it inherited and what its events added: budgets that
\* are written back as a whole lose nothing, handoffs included.
THEOREM NoneLost == Spec => []NothingLost
<1>1. LogInv => NothingLost
  BY DEF LogInv
<1> QED
  BY <1>1, LogInvariant, PTL

\* An approval that names an action is applied while the task waits for that action.
THEOREM DecisionsMatch == Spec => DecisionMatchesPending
<1>1. ASSUME LogInv, [Next]_vars
      PROVE  [\A p \in Procs : Commits(p) /\ local[p].asked # None
                => row[local[p].task].pending = local[p].asked]_vars
  <2> SUFFICES ASSUME Next, NEW p \in Procs, Commits(p), local[p].asked # None
               PROVE  row[local[p].task].pending = local[p].asked
    BY <1>1
  <2>1. SafeInv /\ Recalls(row, local[p])
    BY <1>1 DEF LogInv, Recall
  <2>2. Commit(p) /\ log' # log
    BY <2>1, CommitsIsCommit
  <2>3. local[p].pc = "writing" /\ local[p].base = row[local[p].task]
    BY <2>1, <2>2 DEF Commit, Unmoved, SafeInv, Knows
  <2> QED
    BY <2>1, <2>3 DEF Recalls, Decided
<1> QED
  BY <1>1, LogInvariant, PTL DEF Spec, DecisionMatchesPending
=============================================================================
