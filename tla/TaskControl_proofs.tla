-------------------------- MODULE TaskControl_proofs --------------------------
(***************************************************************************)
(* Proofs about TaskControl, for any number of processes, rounds, windows, *)
(* continuations and deaths. Its types, WindowsClosed and PauseHolds hold  *)
(* however many processes are at work; the other properties where they     *)
(* take turns (Overlap is FALSE).                                          *)
(***************************************************************************)
EXTENDS TaskControl, FiniteSetTheorems, SequenceTheorems, TLAPS

\* Places of a process without a window, and of one in a turn.
Before == {"idle", "charging", "finding", "entering", "opening"}

InTurn == {"opened", "recovering", "model", "counting", "counted", "ready", "tool",
           "confirming", "after", "timing", "losing", "settling"}

WindingUp == {"closing", "recording"}

\* A process that is in the turn of its window, and one that has yet to open it.
Drives(l) == l.run # 0 /\ l.pc \notin WindingUp

Bound(l) == l.run = 0 /\ l.pc \notin {"idle", "finding"}

\* Where a process may be, given the windows there are.
Placed(l, table) ==
  /\ l \in Local
  /\ l.run \in {0} \cup DOMAIN table
  /\ l.pc \in InTurn \cup WindingUp => l.run # 0
  /\ l.pc \in Before => l.run = 0
  /\ l.pc = "counted" => l.saved # None
  /\ l.pc \in {"counting", "counted"} => table[l.run].rounds < MaxRounds
  /\ l.stop = "pause" => l.pc \in WindingUp

\* A window has one process in its turn.
OneDriver ==
  \A p, q \in Procs :
    Drives(local[p]) /\ Drives(local[q]) /\ local[p].run = local[q].run => p = q

Budgeted == Len(runs) + Cardinality({p \in Procs : Bound(local[p])}) <= MaxWindows

TypeInv ==
  /\ TypeOK
  /\ runs \in Seq(WindowRow)
  /\ \A p \in Procs : Placed(local[p], runs)
  /\ OneDriver
  /\ Budgeted

\* In the turn of its window, or about to close it.
Attends(l) == l.run # 0 /\ l.stop # "pause" /\ l.pc # "recording"

Manned ==
  \A i \in DOMAIN runs :
    runs[i].status = "running" =>
      runs[i].left # None \/ \E p \in Procs : local[p].run = i /\ Attends(local[p])

-----------------------------------------------------------------------------
(* One process at a time. *)

Alone == \A p, q \in Procs : ~At(p, "idle") /\ ~At(q, "idle") => p = q

\* About to close a window that ended for want of rounds.
ToBudgetPause(p) == At(p, "closing") /\ LastStatus(p) = "paused_by_budget"

\* What the task is while p is where it is.
TaskAs(p) ==
  /\ task.status = "paused" => local[p].pc \in {"idle", "finding"} \cup WindingUp
  /\ At(p, "finding") => task.status = "paused"
  /\ local[p].pc \in WindingUp => task.status # "running"
  /\ At(p, "charging") => task.status = "running" /\ task.used < MaxContinuations
  /\ local[p].pc \in {"timing", "losing", "settling"} /\ local[p].stop = "rounds" => Mutable(task)
  /\ At(p, "settling") => local[p].seen = task.status
  /\ ToBudgetPause(p) => BudgetPaused(task)

\* About to close its window after Ctrl-C, which may have come when it was closed already.
Interrupted(p) == At(p, "closing") /\ local[p].stop = "interrupt"

\* What the window of p is while p is in it.
WindowAs(p) ==
  local[p].run # 0 =>
    /\ \/ Interrupted(p)
       \/ Window(p).status = IF At(p, "recording") THEN LastStatus(p) ELSE "running"
    /\ At(p, "counted") => local[p].saved = "running"

BudgetPauses(table) == {i \in DOMAIN table : table[i].status = "paused_by_budget"}

\* The last window that ended for want of rounds need not be paid for yet.
Owing == task.status \in Terminal \/ BudgetPaused(task) \/ \E p \in Procs : At(p, "charging")

PaidFor ==
  /\ Cardinality(BudgetPauses(runs)) <= task.used + 1
  /\ ~Owing \/ (\E p \in Procs : ToBudgetPause(p)) => Cardinality(BudgetPauses(runs)) <= task.used

TurnsInv ==
  /\ Alone
  /\ \A p \in Procs : TaskAs(p) /\ WindowAs(p)

-----------------------------------------------------------------------------
(* Types. *)

TaskRow == [status : Statuses, late : BOOLEAN, stop : {None, "rounds", "other"},
            ask : [kind : AskKinds \cup {None}, by : Procs \cup {None}],
            used : 0 .. MaxContinuations]

\* A process that has nothing to do is in its place.
LEMMA IdlePlaced == ASSUME NEW table PROVE Placed(Idle, table)
<1>1. Idle \in Local
  BY LimitsAssumption DEF Idle, Local
<1> QED
  BY <1>1, NoneAssumption DEF Idle, Placed, InTurn, WindingUp, Before

\* So is one that a command leads away from there.
LEMMA SentPlaced ==
  ASSUME NEW table, NEW pc \in {"idle", "entering", "charging", "calling", "refusing", "finding"}
  PROVE  LET l == [Idle EXCEPT !.pc = pc]
         IN  Placed(l, table) /\ l.run = 0 /\ l.pc = pc /\ l.stop = None /\ ~Attends(l) /\ ~Drives(l)
<1> DEFINE l == [Idle EXCEPT !.pc = pc]
<1>1. Idle \in Local /\ Idle.run = 0 /\ Idle.stop = None
  BY IdlePlaced DEF Placed, Idle
<1>2. l \in Local /\ l.run = 0 /\ l.stop = None /\ l.pc = pc
  BY <1>1 DEF Local
<1>3. None # "pause"
  BY NoneAssumption
<1> QED
  BY <1>2, <1>3 DEF Placed, InTurn, WindingUp, Before, Attends, Drives

\* What the task becomes is a task.
LEMMA TaskRows ==
  ASSUME NEW t \in TaskRow
  PROVE  /\ Failed(t) \in TaskRow /\ Released(t) \in TaskRow
         /\ \A st \in Statuses : Closed(t, st) \in TaskRow /\ [t EXCEPT !.status = st] \in TaskRow
<1>1. NoAsk \in [kind : AskKinds \cup {None}, by : Procs \cup {None}]
  BY DEF NoAsk
<1>2. Terminal \subseteq Statuses /\ "running" \in Statuses /\ "failed" \in Statuses
  BY DEF Terminal, Active, Statuses
<1>3. Failed(t) \in TaskRow
  BY <1>1, <1>2 DEF Failed, TaskRow
<1>4. Released(t) \in TaskRow
  BY <1>1, <1>2 DEF Released, TaskRow
<1>5. ASSUME NEW st \in Statuses PROVE Closed(t, st) \in TaskRow /\ [t EXCEPT !.status = st] \in TaskRow
  BY <1>5 DEF Closed, TaskRow
<1> QED
  BY <1>3, <1>4, <1>5

-----------------------------------------------------------------------------
(* A step moves one process. *)

\* The windows keep their shape, and rounds are counted by the one in the turn.
RowsKept(p) ==
  /\ runs' \in Seq(WindowRow) /\ Len(runs') = Len(runs) /\ DOMAIN runs' = DOMAIN runs
  /\ \A i \in DOMAIN runs :
       runs'[i].rounds = runs[i].rounds \/ (local[p].run = i /\ Drives(local[p]))

\* A window that is open has been so, and if p was in it, p still is, or another comes in.
Watched(p, l) ==
  \A i \in DOMAIN runs :
    runs'[i].status = "running" /\ runs'[i].left = None =>
      \/ l.run = i /\ Attends(l)
      \/ /\ runs[i].status = "running" /\ runs[i].left = None
         /\ ~(local[p].run = i /\ Attends(local[p]))

\* Windows to come are counted while there is room.
LEMMA BoundCount ==
  ASSUME TypeInv, NEW p \in Procs, NEW l, Goto(p, l), Bound(l) => Bound(local[p]) \/ Room
  PROVE  Len(runs) + Cardinality({q \in Procs : Bound(local'[q])}) <= MaxWindows
<1> DEFINE S == {q \in Procs : Bound(local[q])}
           T == {q \in Procs : Bound(local'[q])}
           R == {q \in Procs : ~At(q, "idle") /\ local[q].run = 0}
<1>1. IsFiniteSet(S) /\ IsFiniteSet(T) /\ IsFiniteSet(R)
  BY ProcsAssumption, FS_Subset
<1>2. Cardinality(S) \in Nat /\ Cardinality(T) \in Nat /\ Cardinality(R) \in Nat
  BY <1>1, FS_CardinalityType
<1>3. Len(runs) + Cardinality(S) <= MaxWindows
  BY DEF TypeInv, Budgeted
<1>4. Len(runs) \in Nat /\ MaxWindows \in Nat
  BY LenProperties, LimitsAssumption DEF TypeInv
<1>5. local'[p] = l /\ \A q \in Procs : q # p => local'[q] = local[q]
  BY DEF TypeInv, TypeOK, Goto
<1>6. CASE Bound(l) => Bound(local[p])
  <2>1. T \subseteq S
    BY <1>5, <1>6
  <2> HIDE DEF S, T
  <2>2. T \in SUBSET S
    BY <2>1
  <2>3. Cardinality(T) <= Cardinality(S)
    BY <1>1, <2>2, FS_Subset
  <2>4. Len(runs) + Cardinality(T) <= MaxWindows
    BY <1>2, <1>3, <1>4, <2>3
  <2> QED
    BY <2>4 DEF T
<1>7. CASE Room
  <2>1. T \in SUBSET (S \cup {p}) /\ S \in SUBSET R
    BY <1>5 DEF Bound, At
  <2>2. Len(runs) + Cardinality(R) < MaxWindows
    BY <1>7 DEF Room
  <2> HIDE DEF S, T, R
  <2>3. IsFiniteSet(S \cup {p}) /\ Cardinality(S \cup {p}) <= Cardinality(S) + 1
    <3>1. IsFiniteSet(S)
      BY <1>1
    <3>2. /\ IsFiniteSet(S \cup {p})
          /\ Cardinality(S \cup {p}) = IF p \in S THEN Cardinality(S) ELSE Cardinality(S) + 1
      BY <3>1, FS_AddElement
    <3> QED
      BY <1>2, <3>2
  <2>4. Cardinality(T) <= Cardinality(S \cup {p}) /\ Cardinality(S) <= Cardinality(R)
    BY <1>1, <2>1, <2>3, FS_Subset
  <2>5. Cardinality(S \cup {p}) \in Nat
    BY <2>3, FS_CardinalityType
  <2> DEFINE n == Len(runs)
             ct == Cardinality(T)
             cu == Cardinality(S \cup {p})
             cs == Cardinality(S)
             cr == Cardinality(R)
  <2>6. n \in Nat /\ ct \in Nat /\ cu \in Nat /\ cs \in Nat /\ cr \in Nat /\ MaxWindows \in Nat
    BY <1>2, <1>4, <2>5
  <2>7. n + cr < MaxWindows /\ cu <= cs + 1 /\ ct <= cu /\ cs <= cr
    BY <2>2, <2>3, <2>4
  <2> HIDE DEF n, ct, cu, cs, cr
  <2>8. n + ct <= MaxWindows
    BY <2>6, <2>7
  <2> QED
    BY <2>8 DEF n, ct, T
<1> QED
  BY <1>6, <1>7

\* The step of a process keeps everything, given how it leaves the windows.
LEMMA Moves ==
  ASSUME TypeInv, Manned, NEW p \in Procs, NEW l, Goto(p, l),
         task' \in TaskRow, deaths' \in 0 .. MaxDeaths, RowsKept(p), Placed(l, runs'),
         Drives(l) => Drives(local[p]) /\ l.run = local[p].run,
         Bound(l) => Bound(local[p]) \/ Room, Watched(p, l)
  PROVE  TypeInv' /\ Manned'
<1>1. local'[p] = l /\ \A q \in Procs : q # p => local'[q] = local[q]
  BY DEF TypeInv, TypeOK, Goto
<1>2. local' \in [Procs -> Local]
  BY DEF TypeInv, TypeOK, Goto, Placed
<1>3. ASSUME NEW q \in Procs, q # p PROVE Placed(local[q], runs')
  <2>1. Placed(local[q], runs)
    BY DEF TypeInv
  <2>2. ASSUME local[q].pc \in {"counting", "counted"} PROVE runs'[local[q].run].rounds < MaxRounds
    <3>1. local[q].run # 0 /\ local[q].run \in DOMAIN runs /\ Drives(local[q])
      BY <2>1, <2>2 DEF Placed, InTurn, WindingUp, Drives
    <3>2. runs'[local[q].run].rounds = runs[local[q].run].rounds
      BY <1>3, <3>1 DEF TypeInv, OneDriver, RowsKept
    <3> QED
      BY <2>1, <2>2, <3>2 DEF Placed
  <2> QED
    BY <2>1, <2>2 DEF Placed, RowsKept
<1>4. \A q \in Procs : Placed(local'[q], runs')
  BY <1>1, <1>3
<1>5. OneDriver'
  BY <1>1 DEF TypeInv, OneDriver
<1>6. Budgeted'
  BY BoundCount DEF Budgeted, RowsKept
<1>7. \A i \in DOMAIN runs' : runs'[i] \in WindowRow
  BY ElementOfSeq, LenProperties DEF RowsKept
<1>8. TypeOK'
  BY <1>2, <1>7 DEF TypeOK, TypeInv, RowsKept, TaskRow
<1>9. Manned'
  <2> SUFFICES ASSUME NEW i \in DOMAIN runs', runs'[i].status = "running", runs'[i].left = None
               PROVE  \E q \in Procs : local'[q].run = i /\ Attends(local'[q])
    BY DEF Manned
  <2>1. i \in DOMAIN runs
    BY DEF RowsKept
  <2>2. CASE l.run = i /\ Attends(l)
    BY <1>1, <2>2
  <2>3. CASE /\ runs[i].status = "running" /\ runs[i].left = None
             /\ ~(local[p].run = i /\ Attends(local[p]))
    BY <1>1, <2>1, <2>3 DEF Manned
  <2> QED
    BY <2>1, <2>2, <2>3 DEF Watched
<1> QED
  BY <1>4, <1>5, <1>6, <1>8, <1>9 DEF TypeInv, RowsKept

\* The windows are left alone.
LEMMA GoesOn ==
  ASSUME TypeInv, Manned, NEW p \in Procs, NEW l, Goto(p, l),
         task' \in TaskRow, deaths' \in 0 .. MaxDeaths, UNCHANGED runs, Placed(l, runs),
         l.run = local[p].run, Drives(l) => Drives(local[p]),
         Bound(l) => Bound(local[p]) \/ Room, Attends(local[p]) => Attends(l)
  PROVE  TypeInv' /\ Manned'
<1>1. RowsKept(p)
  BY DEF RowsKept, TypeInv
<1>2. Watched(p, l)
  BY DEF Watched
<1> QED
  BY <1>1, <1>2, Moves

\* p writes its window.
LEMMA WritesWindow ==
  ASSUME TypeInv, NEW p \in Procs, local[p].run # 0, NEW w \in WindowRow,
         SetWindow(p, w), w.rounds = Window(p).rounds \/ Drives(local[p])
  PROVE  /\ RowsKept(p) /\ local[p].run \in DOMAIN runs
         /\ runs'[local[p].run] = w /\ \A i \in DOMAIN runs : i # local[p].run => runs'[i] = runs[i]
<1> DEFINE r == local[p].run
<1>1. r \in DOMAIN runs /\ DOMAIN runs = 1 .. Len(runs) /\ runs \in Seq(WindowRow)
  BY LenProperties DEF TypeInv, Placed
<1>2. runs' = [runs EXCEPT ![r] = w]
  BY DEF SetWindow
<1>3. runs' \in Seq(WindowRow) /\ Len(runs') = Len(runs)
  BY <1>1, <1>2, ExceptSeq
<1>4. /\ DOMAIN runs' = DOMAIN runs /\ runs'[r] = w
      /\ \A i \in DOMAIN runs : i # r => runs'[i] = runs[i]
  BY <1>1, <1>2
<1>5. \A i \in DOMAIN runs : runs'[i].rounds = runs[i].rounds \/ (r = i /\ Drives(local[p]))
  BY <1>1, <1>4 DEF Window
<1> QED
  BY <1>1, <1>3, <1>4, <1>5 DEF RowsKept

\* p writes its window, and goes where it says.
LEMMA Writes ==
  ASSUME TypeInv, Manned, NEW p \in Procs, NEW l, Goto(p, l), local[p].run # 0,
         task' \in TaskRow, deaths' \in 0 .. MaxDeaths, NEW w \in WindowRow, SetWindow(p, w),
         w.rounds = Window(p).rounds \/ Drives(local[p]),
         Placed(l, runs'), Drives(l) => Drives(local[p]) /\ l.run = local[p].run, ~Bound(l),
         w.status = "running" /\ w.left = None =>
           \/ l.run = local[p].run /\ Attends(l)
           \/ Window(p).status = "running" /\ Window(p).left = None /\ ~Attends(local[p])
  PROVE  TypeInv' /\ Manned'
<1>1. /\ RowsKept(p) /\ local[p].run \in DOMAIN runs /\ runs'[local[p].run] = w
      /\ \A i \in DOMAIN runs : i # local[p].run => runs'[i] = runs[i]
  BY WritesWindow
<1>2. Watched(p, l)
  BY <1>1 DEF Watched, Window
<1> QED
  BY <1>1, <1>2, Moves

-----------------------------------------------------------------------------
(* The ways a step goes. *)

\* What is known of the process that moves.
LEMMA Here ==
  ASSUME TypeInv, NEW p \in Procs
  PROVE  /\ local[p] \in Local /\ Placed(local[p], runs) /\ task \in TaskRow
         /\ deaths \in 0 .. MaxDeaths
         /\ local[p].run # 0 => Window(p) \in WindowRow
<1>1. local[p].run # 0 => runs[local[p].run] \in WindowRow
  BY DEF TypeInv, Placed, TypeOK
<1> QED
  BY <1>1 DEF TypeInv, TypeOK, TaskRow, Window

\* An exception leaves the window to the process that was in it.
LEMMA Raises ==
  ASSUME TypeInv, Manned, NEW p \in Procs, Goto(p, Thrown(p)), local[p].pc \notin WindingUp,
         UNCHANGED <<task, runs, deaths>>
  PROVE  TypeInv' /\ Manned'
<1>1. local[p] \in Local /\ Placed(local[p], runs) /\ task \in TaskRow /\ deaths \in 0 .. MaxDeaths
  BY Here
<1>2. CASE local[p].run = 0
  <2>1. Thrown(p) = Idle /\ Placed(Idle, runs) /\ Idle.run = 0 /\ Idle.pc = "idle"
    BY <1>2, IdlePlaced DEF Thrown, Idle
  <2> QED
    BY <1>1, <1>2, <2>1, GoesOn DEF Drives, Bound, Attends
<1>3. CASE local[p].run # 0
  <2> DEFINE l == [local[p] EXCEPT !.pc = "failing"]
  <2>1. Thrown(p) = l
    BY <1>3 DEF Thrown
  <2>2. l \in Local /\ l.run = local[p].run /\ l.pc = "failing" /\ l.stop = local[p].stop
    BY <1>1 DEF Local
  <2>3. Placed(l, runs)
    BY <1>1, <1>3, <2>2 DEF Placed, InTurn, WindingUp, Before
  <2>4. Drives(local[p]) /\ ~Bound(l) /\ (Attends(local[p]) => Attends(l))
    BY <1>3, <2>2 DEF Drives, Bound, Attends
  <2> HIDE DEF l
  <2> QED
    BY <1>1, <2>1, <2>2, <2>3, <2>4, GoesOn
<1> QED
  BY <1>2, <1>3

\* A process returns and leaves its window as it is.
LEMMA Walks ==
  ASSUME TypeInv, Manned, NEW p \in Procs, NEW why \in {"exit", "interrupt", "death"}, Walk(p, why),
         task' \in TaskRow, deaths' \in 0 .. MaxDeaths
  PROVE  TypeInv' /\ Manned'
<1>1. local[p] \in Local /\ Placed(local[p], runs) /\ (local[p].run # 0 => Window(p) \in WindowRow)
  BY Here
<1>2. /\ Goto(p, Idle) /\ Idle.run = 0 /\ Idle.pc = "idle"
      /\ \A table : Placed(Idle, table)
  BY IdlePlaced DEF Walk, Idle
<1>3. ~Drives(Idle) /\ ~Bound(Idle) /\ ~Attends(Idle)
  BY <1>2 DEF Drives, Bound, Attends
<1>4. CASE local[p].run = 0
  <2>1. UNCHANGED runs /\ ~Attends(local[p])
    BY <1>4 DEF Walk, Attends
  <2> QED
    BY <1>2, <1>3, <1>4, <2>1, GoesOn
<1>5. CASE local[p].run # 0
  <2> DEFINE w == [Window(p) EXCEPT !.left = why]
  <2>1. w \in WindowRow /\ w.rounds = Window(p).rounds /\ w.left = why
    BY <1>1, <1>5 DEF WindowRow
  <2>2. SetWindow(p, w)
    BY <1>5 DEF Walk, SetWindow, Window
  <2>3. why # None
    BY NoneAssumption
  <2> HIDE DEF w
  <2> QED
    BY <1>2, <1>3, <1>5, <2>1, <2>2, <2>3, Writes
<1> QED
  BY <1>4, <1>5

\* A command is sent by a process without a window.
LEMMA Sends ==
  ASSUME TypeInv, Manned, NEW p \in Procs, NEW new \in TaskRow,
         NEW pc \in {"idle", "entering", "charging", "calling", "refusing", "finding"},
         Command(p, new, [Idle EXCEPT !.pc = pc]), pc \notin {"idle", "finding"} => Room
  PROVE  TypeInv' /\ Manned'
<1> DEFINE l == [Idle EXCEPT !.pc = pc]
<1>1. Placed(l, runs) /\ l.run = 0 /\ l.pc = pc /\ ~Attends(l) /\ ~Drives(l)
  BY SentPlaced
<1>2. local[p].run = 0 /\ deaths \in 0 .. MaxDeaths
  BY Here DEF Command, At, Placed, Before
<1>3. Bound(l) => Room
  BY <1>1 DEF Bound
<1>4. Goto(p, l) /\ task' = new /\ UNCHANGED <<runs, deaths>>
  BY DEF Command
<1> HIDE DEF l
<1> QED
  BY <1>1, <1>2, <1>3, <1>4, GoesOn DEF Attends

\* A call of TaskRuntime.
LEMMA Calls ==
  ASSUME TypeInv, Manned, NEW p \in Procs, NEW new \in TaskRow, NEW l,
         \/ task' = new /\ Goto(p, l)
         \/ Goto(p, Thrown(p)) /\ UNCHANGED task,
         UNCHANGED <<runs, deaths>>, local[p].pc \notin WindingUp,
         Placed(l, runs), l.run = local[p].run, Drives(l) => Drives(local[p]),
         Bound(l) => Bound(local[p]), Attends(local[p]) => Attends(l)
  PROVE  TypeInv' /\ Manned'
<1>1. CASE task' = new /\ Goto(p, l)
  <2>1. deaths' \in 0 .. MaxDeaths
    BY Here
  <2> QED
    BY <1>1, <2>1, GoesOn
<1>2. CASE Goto(p, Thrown(p)) /\ UNCHANGED task
  BY <1>2, Raises
<1> QED
  BY <1>1, <1>2

\* From one place of a turn to another.
LEMMA Onward ==
  ASSUME TypeInv, NEW p \in Procs, local[p].run # 0, local[p].pc \notin WindingUp,
         NEW l \in Local, l.run = local[p].run, l.stop # "pause",
         l.pc \notin Before \cup {"counting", "counted", "recording"}
  PROVE  Placed(l, runs) /\ Drives(local[p]) /\ ~Bound(l) /\ Attends(l)
<1>1. l.run \in DOMAIN runs
  BY Here DEF Placed
<1> QED
  BY <1>1 DEF Placed, Drives, Bound, Attends

\* Only the task changes.
LEMMA TaskOnly ==
  ASSUME TypeInv, Manned, task' \in TaskRow, UNCHANGED <<runs, local, deaths>>
  PROVE  TypeInv' /\ Manned'
<1>1. TypeOK' /\ (\A p \in Procs : Placed(local[p], runs))' /\ (runs \in Seq(WindowRow))'
  BY DEF TypeInv, TypeOK, TaskRow
<1>2. OneDriver' /\ Budgeted'
  BY DEF TypeInv, OneDriver, Budgeted
<1>3. Manned'
  BY DEF Manned
<1> QED
  BY <1>1, <1>2, <1>3 DEF TypeInv

-----------------------------------------------------------------------------
(* Every action keeps the types, and every open window its process. *)

\* A command.
LEMMA UserKeeps == ASSUME TypeInv, Manned, NEW p \in Procs, User(p) PROVE TypeInv' /\ Manned'
<1>1. task \in TaskRow /\ task.status \in Statuses
  BY Here DEF TaskRow
<1>2. /\ \A st \in Statuses : Closed(task, st) \in TaskRow /\ [task EXCEPT !.status = st] \in TaskRow
      /\ Failed(task) \in TaskRow /\ Released(task) \in TaskRow
  BY <1>1, TaskRows
<1>3. Idle = [Idle EXCEPT !.pc = "idle"]
  BY DEF Idle
<1>4. {"running", "paused", "cancelled", "expired", "handed_off"} \subseteq Statuses
  BY DEF Statuses, Active, Terminal
<1>5. CASE Start(p)
  BY <1>2, <1>4, <1>5, Sends DEF Start, Entering
<1>6. CASE Message(p)
  <2>1. (IF task.status = "running" THEN task ELSE Released(task)) \in TaskRow
    BY <1>1, <1>2
  <2> QED
    BY <1>6, <2>1, Sends DEF Message, Entering
<1>7. CASE ExpireDue(p)
  BY <1>2, <1>3, <1>4, <1>7, Sends DEF ExpireDue
<1>8. CASE Expire(p)
  BY <1>2, <1>3, <1>4, <1>8, Sends DEF Expire
<1>9. CASE Pause(p)
  BY <1>2, <1>4, <1>9, Sends DEF Pause
<1>10. CASE Resume(p)
  BY <1>2, <1>3, <1>4, <1>10, Sends DEF Resume, Entering
<1>11. CASE Cancel(p)
  BY <1>2, <1>3, <1>4, <1>11, Sends DEF Cancel
<1>12. CASE HandOff(p)
  BY <1>2, <1>3, <1>4, <1>12, Sends DEF HandOff
<1>13. ASSUME NEW approved \in BOOLEAN, Decide(p, approved) PROVE TypeInv' /\ Manned'
  <2> DEFINE pc == CASE Foreign(p)                 -> "idle"
                     [] task.ask.kind = "question" -> "entering"
                     [] OTHER -> IF approved THEN "calling" ELSE "refusing"
  <2>1. pc \in {"idle", "entering", "charging", "calling", "refusing", "finding"}
    OBVIOUS
  <2>2. Command(p, Released(task), [Idle EXCEPT !.pc = pc]) /\ Room
    BY <1>3, <1>13 DEF Decide, Entering
  <2> HIDE DEF pc
  <2> QED
    BY <1>2, <2>1, <2>2, Sends
<1> QED
  BY <1>5, <1>6, <1>7, <1>8, <1>9, <1>10, <1>11, <1>12, <1>13 DEF User

\* Before a turn has its window, and as it gets it.
LEMMA EntryKeeps ==
  ASSUME TypeInv, Manned, NEW p \in Procs, Charge(p) \/ FindWindow(p) \/ Enter(p) \/ FirstCheckpoint(p)
  PROVE  TypeInv' /\ Manned'
<1>1. /\ local[p] \in Local /\ Placed(local[p], runs) /\ task \in TaskRow
      /\ deaths \in 0 .. MaxDeaths /\ (local[p].run # 0 => Window(p) \in WindowRow)
  BY Here
<1>2. Placed(Idle, runs) /\ Idle.run = 0 /\ Idle.pc = "idle"
  BY IdlePlaced DEF Idle
<1>3. Placed(Entering, runs) /\ Entering.run = 0 /\ Entering.pc = "entering"
  BY SentPlaced DEF Entering
<1>4. CASE Charge(p)
  <2>1. local[p].run = 0 /\ local[p].pc = "charging" /\ local[p].stop # "pause"
    BY <1>1, <1>4 DEF Charge, At, Placed, Before, WindingUp
  <2>2. CASE Call(p, Mutable(task) /\ task.used < MaxContinuations,
                  [task EXCEPT !.used = @ + 1], Entering)
    <3> DEFINE new == [task EXCEPT !.used = @ + 1]
    <3>1. CASE task.used < MaxContinuations /\ task' = new /\ Goto(p, Entering)
      <4>1. task.used + 1 \in 0 .. MaxContinuations
        BY <1>1, <3>1, LimitsAssumption DEF TaskRow
      <4>2. new \in TaskRow
        BY <1>1, <4>1 DEF TaskRow
      <4> HIDE DEF new
      <4> QED
        BY <1>3, <1>4, <2>1, <3>1, <4>2, Calls DEF Charge, WindingUp, Drives, Bound, Attends
    <3>2. CASE Goto(p, Thrown(p)) /\ UNCHANGED task
      BY <1>4, <2>1, <3>2, Raises DEF Charge, WindingUp
    <3> QED
      BY <2>2, <3>1, <3>2 DEF Call
  <2>3. CASE Step(p, "failing") /\ UNCHANGED task
    <3> DEFINE l == [local[p] EXCEPT !.pc = "failing"]
    <3>1. l \in Local /\ l.run = 0 /\ l.pc = "failing" /\ l.stop = local[p].stop
      BY <1>1, <2>1 DEF Local
    <3>2. Placed(l, runs)
      BY <2>1, <3>1 DEF Placed, InTurn, WindingUp, Before
    <3>3. Goto(p, l) /\ UNCHANGED <<task, runs, deaths>>
      BY <1>4, <2>3 DEF Step, Charge
    <3> HIDE DEF l
    <3> QED
      BY <1>1, <2>1, <3>1, <3>2, <3>3, GoesOn DEF Drives, Bound, Attends
  <2> QED
    BY <1>4, <2>2, <2>3 DEF Charge
<1>5. CASE FindWindow(p)
  <2>1. local[p].run = 0 /\ local[p].pc = "finding" /\ UNCHANGED <<task, runs, deaths>>
    BY <1>1, <1>5 DEF FindWindow, At, Placed, Before
  <2>2. CASE Goto(p, Idle)
    BY <1>1, <1>2, <2>1, <2>2, GoesOn DEF Drives, Bound, Attends
  <2>3. ASSUME NEW i \in DOMAIN runs,
               Goto(p, [local[p] EXCEPT !.pc = "closing", !.stop = "pause", !.run = i])
        PROVE  TypeInv' /\ Manned'
    <3> DEFINE l == [local[p] EXCEPT !.pc = "closing", !.stop = "pause", !.run = i]
    <3>1. i \in 0 .. MaxWindows /\ i # 0
      BY LenProperties, LimitsAssumption DEF TypeInv, TypeOK
    <3>2. l \in Local /\ l.run = i /\ l.pc = "closing" /\ l.stop = "pause"
      BY <1>1, <3>1 DEF Local, Outside
    <3>3. Placed(l, runs)
      BY <3>1, <3>2 DEF Placed, InTurn, WindingUp, Before
    <3>4. ~Drives(l) /\ ~Bound(l) /\ ~Attends(local[p]) /\ Goto(p, l)
      BY <2>1, <2>3, <3>1, <3>2 DEF Drives, Bound, Attends, WindingUp
    <3> HIDE DEF l
    <3>5. RowsKept(p) /\ Watched(p, l)
      BY <2>1, <3>4 DEF RowsKept, Watched, TypeInv
    <3> QED
      BY <1>1, <2>1, <3>3, <3>4, <3>5, Moves
  <2> QED
    BY <1>5, <2>2, <2>3 DEF FindWindow
<1>6. CASE Enter(p)
  <2>1. local[p].run = 0 /\ local[p].pc = "entering" /\ UNCHANGED <<task, runs, deaths>>
    BY <1>1, <1>6 DEF Enter, At, Placed, Before
  <2>2. CASE Goto(p, Idle)
    BY <1>1, <1>2, <2>1, <2>2, GoesOn DEF Drives, Bound, Attends
  <2>3. CASE Step(p, "opening")
    <3> DEFINE l == [local[p] EXCEPT !.pc = "opening"]
    <3>1. l \in Local /\ l.run = 0 /\ l.pc = "opening" /\ l.stop = local[p].stop
      BY <1>1, <2>1 DEF Local
    <3>2. Placed(l, runs) /\ Goto(p, l)
      BY <1>1, <2>1, <2>3, <3>1 DEF Placed, InTurn, WindingUp, Before, Step
    <3> HIDE DEF l
    <3> QED
      BY <1>1, <2>1, <3>1, <3>2, GoesOn DEF Drives, Bound, Attends
  <2> QED
    BY <1>6, <2>2, <2>3 DEF Enter
<1>7. CASE FirstCheckpoint(p)
  <2> DEFINE l == [local[p] EXCEPT !.pc = "recovering"]
             w == [Window(p) EXCEPT !.mark = "running"]
  <2>1. local[p].run # 0 /\ local[p].pc = "opened" /\ local[p].stop # "pause"
    BY <1>1, <1>7 DEF FirstCheckpoint, At, Placed, InTurn, WindingUp
  <2>2. w \in WindowRow /\ w.rounds = Window(p).rounds
    BY <1>1, <2>1 DEF WindowRow
  <2>3. l \in Local /\ l.run = local[p].run /\ l.pc = "recovering" /\ l.stop = local[p].stop
    BY <1>1 DEF Local
  <2>4. Goto(p, l) /\ SetWindow(p, w) /\ UNCHANGED <<task, deaths>>
    BY <1>7 DEF FirstCheckpoint, Step
  <2> HIDE DEF l, w
  <2>5. Placed(l, runs')
    BY <1>1, <2>1, <2>2, <2>3, <2>4, WritesWindow DEF Placed, InTurn, WindingUp, Before, RowsKept
  <2> QED
    BY <1>1, <2>1, <2>2, <2>3, <2>4, <2>5, Writes DEF Drives, Bound, Attends, WindingUp
<1> QED
  BY <1>4, <1>5, <1>6, <1>7

\* In a turn, while the windows stay as they are.
LEMMA TurnKeeps ==
  ASSUME TypeInv, Manned, NEW p \in Procs,
         \/ CheckBlockers(p) \/ Model(p) \/ CountRead(p) \/ CallTool(p) \/ Observe(p) \/ GiveUp(p)
         \/ \E kind \in AskKinds : Ask(p, kind)
         \/ \E approved \in BOOLEAN : Confirm(p, approved)
  PROVE  TypeInv' /\ Manned'
<1>1. /\ local[p] \in Local /\ Placed(local[p], runs) /\ task \in TaskRow
      /\ deaths \in 0 .. MaxDeaths /\ (local[p].run # 0 => Window(p) \in WindowRow)
  BY Here
<1>2. Failed(task) \in TaskRow /\ Released(task) \in TaskRow
  BY <1>1, TaskRows
<1>3. local[p].pc \notin WindingUp /\ local[p].stop # "pause"
  BY <1>1 DEF CheckBlockers, Model, CountRead, CallTool, Observe, GiveUp, Ask, Confirm, At,
              Placed, WindingUp
<1>4. CASE CheckBlockers(p)
  <2>1. local[p].run # 0 /\ UNCHANGED deaths
    BY <1>1, <1>4 DEF CheckBlockers, At, Placed, InTurn
  <2>2. CASE Step(p, "model") /\ UNCHANGED <<task, runs>>
    <3> DEFINE l == [local[p] EXCEPT !.pc = "model"]
    <3>1. l \in Local /\ l.run = local[p].run /\ l.pc = "model" /\ l.stop = local[p].stop
      BY <1>1 DEF Local
    <3>2. Goto(p, l)
      BY <2>2 DEF Step
    <3> HIDE DEF l
    <3>3. Placed(l, runs) /\ Drives(local[p]) /\ ~Bound(l) /\ Attends(l)
      BY <1>3, <2>1, <3>1, Onward DEF Before
    <3> QED
      BY <1>1, <2>1, <2>2, <3>1, <3>2, <3>3, GoesOn
  <2>3. CASE task' = Failed(task) /\ Walk(p, "exit")
    BY <1>1, <1>2, <2>1, <2>3, Walks
  <2>4. CASE Goto(p, Thrown(p)) /\ UNCHANGED <<task, runs>>
    BY <1>3, <2>1, <2>4, Raises
  <2> QED
    BY <1>4, <2>2, <2>3, <2>4 DEF CheckBlockers
<1>5. CASE Model(p)
  <2>1. local[p].run # 0 /\ UNCHANGED <<runs, deaths>>
    BY <1>1, <1>5 DEF Model, At, Placed, InTurn
  <2>2. ASSUME NEW stop \in {"answer", "error", "rounds"}
        PROVE  LET l == Finalize(p, stop)
               IN  /\ Placed(l, runs) /\ l.run = local[p].run /\ ~Bound(l) /\ Attends(l)
                   /\ Drives(local[p])
    <3> DEFINE l == Finalize(p, stop)
    <3>1. l \in Local /\ l.run = local[p].run /\ l.pc = "timing" /\ l.stop # "pause"
      BY <1>1 DEF Finalize, Local
    <3> HIDE DEF l
    <3>2. Placed(l, runs) /\ Drives(local[p]) /\ ~Bound(l) /\ Attends(l)
      BY <1>3, <2>1, <3>1, Onward DEF Before
    <3> QED
      BY <3>1, <3>2 DEF l
  <2>3. ASSUME MoreRounds(Window(p))
        PROVE  LET l == [local[p] EXCEPT !.pc = "counting"]
               IN  /\ Placed(l, runs) /\ l.run = local[p].run /\ ~Bound(l) /\ Attends(l)
                   /\ Drives(local[p])
    <3> DEFINE l == [local[p] EXCEPT !.pc = "counting"]
    <3>1. l \in Local /\ l.run = local[p].run /\ l.pc = "counting" /\ l.stop = local[p].stop
      BY <1>1 DEF Local
    <3>2. runs[l.run].rounds < MaxRounds
      BY <2>3, <3>1 DEF MoreRounds, Window
    <3> HIDE DEF l
    <3>3. Placed(l, runs)
      BY <1>1, <1>3, <2>1, <3>1, <3>2 DEF Placed, Before
    <3>4. ~Bound(l) /\ Attends(l) /\ Drives(local[p])
      BY <1>3, <2>1, <3>1 DEF Drives, Bound, Attends
    <3> QED
      BY <3>1, <3>3, <3>4 DEF l
  <2>4. CASE Goto(p, Finalize(p, "error")) /\ UNCHANGED task
    BY <1>1, <2>1, <2>2, <2>4, GoesOn
  <2>5. ASSUME NEW l \in Replies(p), Call(p, Mutable(task), task, l) PROVE TypeInv' /\ Manned'
    <3>1. \/ l \in {Finalize(p, stop) : stop \in {"answer", "error", "rounds"}}
          \/ MoreRounds(Window(p)) /\ l = [local[p] EXCEPT !.pc = "counting"]
      BY DEF Replies
    <3>2. /\ Placed(l, runs) /\ l.run = local[p].run /\ ~Bound(l) /\ Attends(l)
          /\ Drives(local[p])
      BY <2>2, <2>3, <3>1
    <3>3. (task' = task /\ Goto(p, l)) \/ (Goto(p, Thrown(p)) /\ UNCHANGED task)
      BY <2>5 DEF Call
    <3> QED
      BY <1>1, <1>3, <2>1, <3>2, <3>3, Calls
  <2> QED
    BY <1>5, <2>4, <2>5 DEF Model
<1>6. CASE CountRead(p)
  <2> DEFINE l == [local[p] EXCEPT !.pc = "counted", !.saved = Window(p).status]
  <2>1. local[p].run # 0 /\ UNCHANGED <<task, runs, deaths>> /\ Goto(p, l) /\ local[p].pc = "counting"
    BY <1>1, <1>6 DEF CountRead, At, Placed, InTurn
  <2>2. Window(p).status \in WindowClosed \cup {"running"}
    BY <1>1, <2>1 DEF WindowRow
  <2>3. Window(p).status # None
    BY <2>2, NoneAssumption DEF Statuses, Active
  <2>4. /\ l \in Local /\ l.run = local[p].run /\ l.pc = "counted" /\ l.stop = local[p].stop
        /\ l.saved # None
    BY <1>1, <2>2, <2>3 DEF Local
  <2> HIDE DEF l
  <2>5. Placed(l, runs)
    BY <1>1, <1>3, <2>1, <2>4 DEF Placed, Before
  <2> QED
    BY <1>1, <1>3, <2>1, <2>4, <2>5, GoesOn DEF Drives, Bound, Attends
<1>7. CASE CallTool(p)
  <2> DEFINE l == [local[p] EXCEPT !.pc = "acting"]
  <2>1. /\ local[p].pc \in {"tool", "calling"} /\ UNCHANGED <<runs, deaths>>
        /\ (task' = task /\ Goto(p, l)) \/ (Goto(p, Thrown(p)) /\ UNCHANGED task)
    BY <1>7 DEF CallTool, Call, At
  <2>2. l \in Local /\ l.run = local[p].run /\ l.pc = "acting" /\ l.stop = local[p].stop
    BY <1>1 DEF Local
  <2> HIDE DEF l
  <2>3. Placed(l, runs)
    BY <1>1, <1>3, <2>1, <2>2 DEF Placed, Before, InTurn, WindingUp
  <2> QED
    BY <1>1, <1>3, <2>1, <2>2, <2>3, Calls DEF Drives, Bound, Attends, WindingUp
<1>8. CASE Observe(p)
  <2> DEFINE l == [local[p] EXCEPT !.pc = "after"]
  <2>1. /\ local[p].pc \in {"tool", "acting", "refusing"} /\ UNCHANGED <<runs, deaths>>
        /\ \/ task' = task /\ Goto(p, IF local[p].run = 0 THEN Entering ELSE l)
           \/ Goto(p, Thrown(p)) /\ UNCHANGED task
    BY <1>8 DEF Observe, Call
  <2>2. CASE local[p].run = 0
    <3>1. Placed(Entering, runs) /\ Entering.run = 0
      BY SentPlaced DEF Entering
    <3> QED
      BY <1>1, <1>3, <2>1, <2>2, <3>1, Calls DEF Drives, Bound, Attends, WindingUp
  <2>3. CASE local[p].run # 0
    <3>1. l \in Local /\ l.run = local[p].run /\ l.pc = "after" /\ l.stop = local[p].stop
      BY <1>1 DEF Local
    <3>2. (task' = task /\ Goto(p, l)) \/ (Goto(p, Thrown(p)) /\ UNCHANGED task)
      BY <2>1, <2>3
    <3> HIDE DEF l
    <3>3. Placed(l, runs) /\ Drives(local[p]) /\ ~Bound(l) /\ Attends(l)
      BY <1>3, <2>3, <3>1, Onward DEF Before
    <3> QED
      BY <1>1, <1>3, <2>1, <3>1, <3>2, <3>3, Calls
  <2> QED
    BY <2>2, <2>3
<1>9. ASSUME NEW new \in TaskRow, NEW pc \in {"after", "confirming", "calling", "refusing"},
             At(p, "tool") \/ At(p, "confirming"), UNCHANGED <<runs, deaths>>,
             \/ task' = new /\ Step(p, pc)
             \/ Goto(p, Thrown(p)) /\ UNCHANGED task
      PROVE  TypeInv' /\ Manned'
  <2> DEFINE l == [local[p] EXCEPT !.pc = pc]
  <2>1. local[p].run # 0 /\ ((task' = new /\ Goto(p, l)) \/ (Goto(p, Thrown(p)) /\ UNCHANGED task))
    BY <1>1, <1>9 DEF At, Placed, InTurn, Step
  <2>2. l \in Local /\ l.run = local[p].run /\ l.pc = pc /\ l.stop = local[p].stop
    BY <1>1 DEF Local
  <2> HIDE DEF l
  <2>3. Placed(l, runs) /\ Drives(local[p]) /\ ~Bound(l) /\ Attends(l)
    BY <1>3, <2>1, <2>2, Onward DEF Before
  <2> QED
    BY <1>3, <1>9, <2>1, <2>2, <2>3, Calls
<1>10. CASE GiveUp(p)
  BY <1>2, <1>9, <1>10 DEF GiveUp, Call, Step
<1>11. ASSUME NEW kind \in AskKinds, Ask(p, kind) PROVE TypeInv' /\ Manned'
  <2> DEFINE new == [task EXCEPT !.status = "waiting_user", !.late = FALSE,
                                 !.ask = [kind |-> kind, by |-> p]]
             pc == IF kind # "question" /\ p \in Attended THEN "confirming" ELSE "after"
  <2>1. "waiting_user" \in Statuses /\ [kind |-> kind, by |-> p] \in [kind : AskKinds \cup {None}, by : Procs \cup {None}]
    BY DEF Statuses, Active
  <2>2. new \in TaskRow
    BY <1>1, <2>1 DEF TaskRow
  <2>3. /\ At(p, "tool") /\ UNCHANGED <<runs, deaths>> /\ pc \in {"after", "confirming"}
        /\ ((task' = new /\ Step(p, pc)) \/ (Goto(p, Thrown(p)) /\ UNCHANGED task))
    BY <1>11 DEF Ask, Call, Step
  <2> HIDE DEF new, pc
  <2> QED
    BY <1>9, <2>2, <2>3
<1>12. ASSUME NEW approved \in BOOLEAN, Confirm(p, approved) PROVE TypeInv' /\ Manned'
  <2> DEFINE pc == IF approved THEN "calling" ELSE "refusing"
  <2>1. /\ At(p, "confirming") /\ UNCHANGED <<runs, deaths>> /\ pc \in {"calling", "refusing"}
        /\ ((task' = Released(task) /\ Step(p, pc)) \/ (Goto(p, Thrown(p)) /\ UNCHANGED task))
    BY <1>12 DEF Confirm, Call, Step
  <2> HIDE DEF pc
  <2> QED
    BY <1>2, <1>9, <2>1
<1> QED
  BY <1>4, <1>5, <1>6, <1>7, <1>8, <1>10, <1>11, <1>12

\* A turn opens its window: one that was bound to becomes the one in it.
LEMMA OpenKeeps ==
  ASSUME TypeInv, Manned, NEW p \in Procs, Open(p)
  PROVE  TypeInv' /\ Manned'
<1> DEFINE n == Len(runs) + 1
           l == [local[p] EXCEPT !.pc = "opened", !.run = n]
           S == {q \in Procs : Bound(local[q])}
           T == {q \in Procs : Bound(local'[q])}
<1>1. /\ local[p] \in Local /\ Placed(local[p], runs) /\ task \in TaskRow
      /\ deaths \in 0 .. MaxDeaths
  BY Here
<1>2. /\ runs' = Append(runs, NewWindow) /\ Goto(p, l) /\ UNCHANGED <<task, deaths>>
      /\ local[p].pc = "opening" /\ local[p].run = 0 /\ local[p].stop # "pause"
  BY <1>1 DEF Open, At, Placed, Before, WindingUp
<1>3. NewWindow \in WindowRow /\ NewWindow.left = None
  BY LimitsAssumption DEF NewWindow, WindowRow
<1>4. runs \in Seq(WindowRow) /\ Len(runs) \in Nat /\ DOMAIN runs = 1 .. Len(runs)
  BY LenProperties DEF TypeInv
<1>5. /\ runs' \in Seq(WindowRow) /\ Len(runs') = n /\ runs'[n] = NewWindow
      /\ \A i \in 1 .. Len(runs) : runs'[i] = runs[i]
  BY <1>2, <1>3, <1>4, AppendProperties
<1>6. DOMAIN runs' = DOMAIN runs \cup {n} /\ DOMAIN runs' = 1 .. n
  BY <1>4, <1>5, LenProperties
<1>7. local'[p] = l /\ \A q \in Procs : q # p => local'[q] = local[q]
  BY <1>2 DEF TypeInv, TypeOK, Goto
<1>8. IsFiniteSet(S) /\ p \in S /\ S \ {p} = T \ {p}
  <2>1. IsFiniteSet(S)
    BY ProcsAssumption, FS_Subset
  <2> QED
    BY <1>2, <1>7, <2>1 DEF Bound
<1>9. l.run = n /\ l.pc = "opened" /\ l.stop = local[p].stop /\ ~Bound(l)
  BY <1>1, <1>4 DEF Local, Bound
<1>10. T = S \ {p}
  BY <1>7, <1>8, <1>9
<1>11. Len(runs') + Cardinality(T) <= MaxWindows
  <2> HIDE DEF S, T, l
  <2>1. Cardinality(S \ {p}) = Cardinality(S) - 1
    BY <1>8, FS_RemoveElement
  <2>2. Cardinality(S) \in Nat
    BY <1>8, FS_CardinalityType
  <2>3. Len(runs) + Cardinality(S) <= MaxWindows
    BY DEF TypeInv, Budgeted, S
  <2> QED
    BY <1>4, <1>5, <1>10, <2>1, <2>2, <2>3, LimitsAssumption
<1>12. n <= MaxWindows
  <2>1. IsFiniteSet(T)
    BY <1>8, <1>10, FS_RemoveElement
  <2> HIDE DEF S, T, l
  <2>2. Cardinality(T) \in Nat
    BY <2>1, FS_CardinalityType
  <2> QED
    BY <1>4, <1>5, <1>11, <2>2, LimitsAssumption
<1> HIDE DEF S
<1>13. l \in Local
  <2>1. n \in 0 .. MaxWindows
    BY <1>4, <1>12, LimitsAssumption
  <2> HIDE DEF n
  <2> QED
    BY <1>1, <2>1 DEF Local
<1>14. Placed(l, runs')
  BY <1>2, <1>4, <1>6, <1>9, <1>13 DEF Placed, InTurn, WindingUp, Before
<1> HIDE DEF l, n
<1>15. ASSUME NEW q \in Procs, q # p
       PROVE  Placed(local[q], runs') /\ local[q].run # l.run
  <2>1. Placed(local[q], runs)
    BY DEF TypeInv
  <2>2. local[q].run \in {0} \cup 1 .. Len(runs)
    BY <1>4, <2>1 DEF Placed
  <2>3. local[q].run # n
    BY <1>4, <2>2 DEF n
  <2>4. local[q].pc \in {"counting", "counted"} => local[q].run \in 1 .. Len(runs)
    BY <2>1, <2>2 DEF Placed, InTurn
  <2> QED
    BY <1>4, <1>5, <1>6, <1>9, <2>1, <2>2, <2>3, <2>4 DEF Placed
<1>16. \A q \in Procs : Placed(local'[q], runs')
  BY <1>7, <1>14, <1>15
<1>17. OneDriver'
  BY <1>7, <1>15 DEF TypeInv, OneDriver
<1>18. Budgeted'
  BY <1>11 DEF Budgeted, T
<1>19. TypeOK'
  <2>1. local' \in [Procs -> Local]
    BY <1>2, <1>13 DEF TypeInv, TypeOK, Goto
  <2>2. \A i \in DOMAIN runs' : runs'[i] \in WindowRow
    BY <1>5, ElementOfSeq, <1>6
  <2> QED
    BY <1>1, <1>2, <1>5, <1>12, <2>1, <2>2 DEF TypeOK, TaskRow
<1>20. Manned'
  <2> SUFFICES ASSUME NEW i \in DOMAIN runs', runs'[i].status = "running", runs'[i].left = None
               PROVE  \E q \in Procs : local'[q].run = i /\ Attends(local'[q])
    BY DEF Manned
  <2>1. CASE i = n
    <3>1. n # 0
      BY <1>4 DEF n
    <3> QED
      BY <1>2, <1>7, <1>9, <2>1, <3>1 DEF Attends
  <2>2. CASE i \in DOMAIN runs
    <3>1. \E q \in Procs : local[q].run = i /\ Attends(local[q])
      BY <1>4, <1>5, <2>2 DEF Manned
    <3> QED
      BY <1>2, <1>7, <3>1 DEF Attends
  <2> QED
    BY <1>6, <2>1, <2>2
<1> QED
  BY <1>5, <1>16, <1>17, <1>18, <1>19, <1>20 DEF TypeInv

\* p writes its window and stays in it.
LEMMA WritesOn ==
  ASSUME TypeInv, Manned, NEW p \in Procs, local[p].run # 0, local[p].pc \notin WindingUp,
         NEW l \in Local, Goto(p, l), l.run = local[p].run, l.stop # "pause",
         l.pc \notin Before \cup {"counting", "counted", "recording"},
         NEW w \in WindowRow, SetWindow(p, w), UNCHANGED <<task, deaths>>
  PROVE  TypeInv' /\ Manned'
<1>1. task \in TaskRow /\ deaths \in 0 .. MaxDeaths
  BY Here
<1>2. Placed(l, runs) /\ Drives(local[p]) /\ ~Bound(l) /\ Attends(l)
  BY Onward
<1>3. RowsKept(p)
  BY <1>2, WritesWindow
<1>4. Placed(l, runs')
  BY <1>2, <1>3 DEF Placed, RowsKept
<1> QED
  BY <1>1, <1>2, <1>4, Writes

\* In a turn, as p writes its window.
LEMMA CheckpointsKeep ==
  ASSUME TypeInv, Manned, NEW p \in Procs, CountWrite(p) \/ Ready(p) \/ After(p)
  PROVE  TypeInv' /\ Manned'
<1>1. /\ local[p] \in Local /\ Placed(local[p], runs) /\ task \in TaskRow
      /\ deaths \in 0 .. MaxDeaths /\ UNCHANGED <<task, deaths>>
  BY Here DEF CountWrite, Ready, After
<1>2. /\ local[p].run # 0 /\ local[p].pc \notin WindingUp /\ local[p].stop # "pause"
      /\ Window(p) \in WindowRow
  BY <1>1, Here DEF CountWrite, Ready, After, At, Placed, InTurn, WindingUp
<1>3. ASSUME NEW stop \in {"answer", "error", "waiting"}
      PROVE  LET l == Finalize(p, stop)
             IN  l \in Local /\ l.run = local[p].run /\ l.stop # "pause" /\ l.pc = "timing"
  BY <1>1 DEF Finalize, Local
<1>4. ASSUME NEW pc \in {"ready", "tool", "model"}
      PROVE  LET l == [local[p] EXCEPT !.pc = pc]
             IN  l \in Local /\ l.run = local[p].run /\ l.stop # "pause" /\ l.pc = pc
  BY <1>1, <1>2 DEF Local
<1>5. ASSUME NEW mark \in {"running", "waiting_approval"}
      PROVE  [Window(p) EXCEPT !.mark = mark] \in WindowRow
  BY <1>2 DEF WindowRow, WindowClosed
<1>6. CASE CountWrite(p)
  <2> DEFINE l == [local[p] EXCEPT !.pc = "ready", !.saved = None]
  <2>1. Goto(p, l) /\ SetWindow(p, Counted(p))
    BY <1>6 DEF CountWrite
  <2>2. l \in Local /\ l.run = local[p].run /\ l.stop = local[p].stop /\ l.pc = "ready"
    BY <1>1 DEF Local
  <2>3. Counted(p) \in WindowRow
    <3>1. local[p].saved \in WindowClosed \cup {"running"} /\ Window(p).rounds < MaxRounds
      BY <1>1, <1>6 DEF CountWrite, At, Placed, Local, Window
    <3>2. Window(p).rounds + 1 \in 0 .. MaxRounds
      BY <1>2, <3>1, LimitsAssumption DEF WindowRow
    <3> QED
      BY <1>2, <3>1, <3>2 DEF Counted, WindowRow
  <2> HIDE DEF l
  <2> QED
    BY <1>1, <1>2, <2>1, <2>2, <2>3, WritesOn DEF Before
<1>7. ASSUME SetWindow(p, [Window(p) EXCEPT !.mark = "running"]),
             \/ Goto(p, Finalize(p, "answer")) \/ Goto(p, Finalize(p, "error"))
             \/ Step(p, "tool") \/ Step(p, "model")
      PROVE  TypeInv' /\ Manned'
  <2>1. PICK l \in Local : /\ Goto(p, l) /\ l.run = local[p].run /\ l.stop # "pause"
                           /\ l.pc \in {"timing", "tool", "model"}
    BY <1>3, <1>4, <1>7 DEF Step
  <2> QED
    BY <1>1, <1>2, <1>5, <1>7, <2>1, WritesOn DEF Before
<1>8. CASE Ready(p)
  BY <1>7, <1>8 DEF Ready
<1>9. CASE After(p)
  <2>1. CASE /\ SetWindow(p, [Window(p) EXCEPT !.mark = "waiting_approval"])
             /\ Goto(p, Finalize(p, "waiting"))
    BY <1>1, <1>2, <1>3, <1>5, <2>1, WritesOn DEF Before
  <2>2. CASE Goto(p, Finalize(p, "error")) /\ UNCHANGED runs
    <3> DEFINE l == Finalize(p, "error")
    <3>1. Placed(l, runs) /\ Drives(local[p]) /\ ~Bound(l) /\ Attends(l) /\ l.run = local[p].run
      BY <1>2, <1>3, Onward DEF Before
    <3> HIDE DEF l
    <3> QED
      BY <1>1, <2>2, <3>1, GoesOn DEF l
  <2>3. CASE /\ SetWindow(p, [Window(p) EXCEPT !.mark = "running"])
             /\ Step(p, "model") \/ Goto(p, Finalize(p, "answer"))
    BY <1>7, <2>3
  <2>4. CASE SetWindow(p, [Window(p) EXCEPT !.mark = "running"]) /\ Goto(p, Thrown(p))
    <3>1. /\ Thrown(p) \in Local /\ Thrown(p).run = local[p].run /\ Thrown(p).stop # "pause"
          /\ Thrown(p).pc = "failing"
      BY <1>1, <1>2 DEF Thrown, Local
    <3> QED
      BY <1>1, <1>2, <1>5, <2>4, <3>1, WritesOn DEF Before
  <2>5. \/ /\ SetWindow(p, [Window(p) EXCEPT !.mark = "waiting_approval"])
           /\ Goto(p, Finalize(p, "waiting"))
        \/ Goto(p, Finalize(p, "error")) /\ UNCHANGED runs
        \/ /\ SetWindow(p, [Window(p) EXCEPT !.mark = "running"])
           /\ Step(p, "model") \/ Goto(p, Finalize(p, "answer")) \/ Goto(p, Thrown(p))
    BY <1>9 DEF After
  <2> QED
    BY <2>1, <2>2, <2>3, <2>4, <2>5
<1> QED
  BY <1>6, <1>8, <1>9

\* p moves within the end of its turn, while the windows stay as they are.
LEMMA EndsOn ==
  ASSUME TypeInv, Manned, NEW p \in Procs, local[p].run # 0, local[p].pc \notin WindingUp,
         local[p].stop # "pause", NEW l \in Local, Goto(p, l), l.run = local[p].run,
         l.stop # "pause", l.pc \in {"settling", "losing", "closing"},
         task' \in TaskRow, UNCHANGED <<runs, deaths>>
  PROVE  TypeInv' /\ Manned'
<1>1. deaths' \in 0 .. MaxDeaths
  BY Here
<1>2. Placed(l, runs) /\ Drives(local[p]) /\ ~Bound(l) /\ Attends(l)
  BY Onward DEF Before
<1> QED
  BY <1>1, <1>2, GoesOn

\* The end of a turn, up to the close of its window.
LEMMA EndKeeps ==
  ASSUME TypeInv, Manned, NEW p \in Procs, AddTime(p) \/ LoseTrace(p) \/ Settle(p)
  PROVE  TypeInv' /\ Manned'
<1>1. local[p] \in Local /\ task \in TaskRow /\ deaths \in 0 .. MaxDeaths
  BY Here
<1>2. local[p].run # 0 /\ local[p].pc \notin WindingUp /\ local[p].stop # "pause"
  BY Here DEF AddTime, LoseTrace, Settle, At, Placed, InTurn, WindingUp
<1>3. Failed(task) \in TaskRow /\ task.status \in Statuses
  BY <1>1, TaskRows DEF TaskRow
<1>4. CASE AddTime(p)
  <2>1. UNCHANGED <<task, runs, deaths>>
    BY <1>4 DEF AddTime
  <2>2. ASSUME NEW pc \in {"settling", "losing"},
               Goto(p, [local[p] EXCEPT !.pc = pc, !.seen = task.status])
        PROVE  TypeInv' /\ Manned'
    <3> DEFINE l == [local[p] EXCEPT !.pc = pc, !.seen = task.status]
    <3>1. l \in Local /\ l.run = local[p].run /\ l.pc = pc /\ l.stop = local[p].stop
      BY <1>1, <1>3 DEF Local
    <3> HIDE DEF l
    <3> QED
      BY <1>1, <1>2, <2>1, <2>2, <3>1, EndsOn DEF l
  <2>3. CASE Goto(p, Thrown(p))
    BY <1>2, <2>1, <2>3, Raises
  <2> QED
    BY <1>4, <2>2, <2>3 DEF AddTime
<1>5. CASE LoseTrace(p)
  <2>1. CASE task' = Failed(task) /\ Walk(p, "exit")
    BY <1>1, <1>3, <1>5, <2>1, Walks DEF LoseTrace
  <2>2. CASE Goto(p, Thrown(p)) /\ UNCHANGED <<task, runs>>
    BY <1>2, <1>5, <2>2, Raises DEF LoseTrace
  <2> QED
    BY <1>5, <2>1, <2>2 DEF LoseTrace
<1>6. CASE Settle(p)
  <2>1. UNCHANGED <<runs, deaths>>
    BY <1>6 DEF Settle
  <2>2. CASE Step(p, "closing") /\ UNCHANGED task
    <3> DEFINE l == [local[p] EXCEPT !.pc = "closing"]
    <3>1. l \in Local /\ l.run = local[p].run /\ l.pc = "closing" /\ l.stop = local[p].stop
      BY <1>1 DEF Local
    <3>2. Goto(p, l)
      BY <2>2 DEF Step
    <3> HIDE DEF l
    <3> QED
      BY <1>1, <1>2, <2>1, <2>2, <3>1, <3>2, EndsOn
  <2>3. CASE LET s == Settled(local[p].stop)
             IN  Call(p, s.allowed, s.new, [local[p] EXCEPT !.pc = "closing", !.seen = s.new.status])
    <3> DEFINE new == Settled(local[p].stop).new
               l == [local[p] EXCEPT !.pc = "closing", !.seen = new.status]
    <3>1. new \in TaskRow
      <4>1. Closed(task, "completed") \in TaskRow
        BY <1>1, TaskRows DEF Statuses, Terminal
      <4>2. [task EXCEPT !.status = "paused", !.stop = "rounds"] \in TaskRow
        BY <1>1 DEF TaskRow, Statuses, Active
      <4> QED
        BY <1>3, <4>1, <4>2 DEF Settled
    <3>2. new.status \in Statuses
      BY <3>1 DEF TaskRow
    <3>3. (task' = new /\ Goto(p, l)) \/ (Goto(p, Thrown(p)) /\ UNCHANGED task)
      BY <2>3 DEF Call
    <3> HIDE DEF new
    <3>4. l \in Local /\ l.run = local[p].run /\ l.pc = "closing" /\ l.stop = local[p].stop
      BY <1>1, <3>2 DEF Local
    <3> HIDE DEF l
    <3>5. CASE task' = new /\ Goto(p, l)
      BY <1>2, <2>1, <3>1, <3>4, <3>5, EndsOn
    <3>6. CASE Goto(p, Thrown(p)) /\ UNCHANGED task
      BY <1>2, <2>1, <3>6, Raises
    <3> QED
      BY <3>3, <3>5, <3>6
  <2> QED
    BY <1>6, <2>2, <2>3 DEF Settle
<1> QED
  BY <1>4, <1>5, <1>6

\* A window is closed with a status of a closed one.
LEMMA LastStatuses ==
  ASSUME NEW p PROVE LastStatus(p) \in WindowClosed
BY DEF LastStatus, WindowClosed

\* A window is closed, and its last checkpoint written.
LEMMA CloseKeeps ==
  ASSUME TypeInv, Manned, NEW p \in Procs, Close(p) \/ LastCheckpoint(p)
  PROVE  TypeInv' /\ Manned'
<1>1. /\ local[p] \in Local /\ Placed(local[p], runs) /\ task \in TaskRow
      /\ deaths \in 0 .. MaxDeaths /\ UNCHANGED <<task, deaths>>
  BY Here DEF Close, LastCheckpoint
<1>2. local[p].run # 0 /\ local[p].pc \in WindingUp /\ Window(p) \in WindowRow
  BY <1>1, Here DEF Close, LastCheckpoint, At, Placed, WindingUp
<1>3. CASE Close(p)
  <2> DEFINE l == [local[p] EXCEPT !.pc = "recording"]
             w == [Window(p) EXCEPT !.status = LastStatus(p)]
  <2>1. Goto(p, l) /\ SetWindow(p, w)
    BY <1>3 DEF Close, Step
  <2>2. l \in Local /\ l.run = local[p].run /\ l.pc = "recording" /\ l.stop = local[p].stop
    BY <1>1 DEF Local
  <2>3. w \in WindowRow /\ w.rounds = Window(p).rounds /\ w.status # "running"
    BY <1>2, LastStatuses DEF WindowRow, WindowClosed
  <2> HIDE DEF l, w
  <2>4. Placed(l, runs')
    BY <1>1, <1>2, <2>1, <2>2, <2>3, WritesWindow DEF Placed, InTurn, WindingUp, Before, RowsKept
  <2>5. ~Drives(l) /\ ~Bound(l)
    BY <1>2, <2>2 DEF Drives, Bound, WindingUp
  <2> QED
    BY <1>1, <1>2, <2>1, <2>3, <2>4, <2>5, Writes
<1>4. CASE LastCheckpoint(p)
  <2> DEFINE w == [Window(p) EXCEPT !.mark = LastStatus(p)]
  <2>1. Goto(p, Idle) /\ SetWindow(p, w)
    BY <1>4 DEF LastCheckpoint
  <2>2. Placed(Idle, runs') /\ ~Drives(Idle) /\ ~Bound(Idle)
    BY IdlePlaced DEF Drives, Bound, Idle
  <2>3. /\ w \in WindowRow /\ w.rounds = Window(p).rounds
        /\ w.status = Window(p).status /\ w.left = Window(p).left
    BY <1>2, LastStatuses DEF WindowRow
  <2>4. ~Attends(local[p])
    BY <1>4 DEF LastCheckpoint, At, Attends
  <2> HIDE DEF w
  <2> QED
    BY <1>1, <1>2, <2>1, <2>2, <2>3, <2>4, Writes
<1> QED
  BY <1>3, <1>4

\* An exception ends the turn: the window is closed already, or p goes on to close it.
LEMMA FailKeeps ==
  ASSUME TypeInv, Manned, NEW p \in Procs, Fail(p)
  PROVE  TypeInv' /\ Manned'
<1>1. local[p] \in Local /\ Placed(local[p], runs) /\ task \in TaskRow /\ deaths \in 0 .. MaxDeaths
  BY Here
<1>2. task' \in TaskRow
  BY <1>1, TaskRows DEF Fail
<1>3. UNCHANGED <<runs, deaths>> /\ local[p].pc = "failing" /\ local[p].stop # "pause"
  BY <1>1 DEF Fail, At, Placed, WindingUp
<1>4. CASE Goto(p, Idle) /\ (local[p].run = 0 \/ Window(p).status \in WindowClosed)
  <2>1. Placed(Idle, runs) /\ ~Drives(Idle) /\ ~Bound(Idle) /\ ~Attends(Idle)
    BY IdlePlaced DEF Drives, Bound, Attends, Idle
  <2>2. RowsKept(p)
    BY <1>3 DEF RowsKept, TypeInv
  <2>3. Watched(p, Idle)
    BY <1>3, <1>4 DEF Watched, Window, Attends, WindowClosed
  <2> QED
    BY <1>1, <1>2, <1>3, <1>4, <2>1, <2>2, <2>3, Moves
<1>5. CASE /\ local[p].run # 0
           /\ Goto(p, [local[p] EXCEPT !.pc = "closing", !.stop = "failure", !.seen = task'.status])
  <2> DEFINE l == [local[p] EXCEPT !.pc = "closing", !.stop = "failure", !.seen = task'.status]
  <2>1. task'.status \in Statuses
    BY <1>2 DEF TaskRow
  <2>2. l \in Local /\ l.run = local[p].run /\ l.pc = "closing" /\ l.stop # "pause"
    BY <1>1, <2>1 DEF Local, Outside
  <2> HIDE DEF l
  <2> QED
    BY <1>2, <1>3, <1>5, <2>2, EndsOn DEF l, WindingUp
<1> QED
  BY <1>4, <1>5 DEF Fail

\* Ctrl-C, and the ends of a process.
LEMMA EndsKeep ==
  ASSUME TypeInv, Manned, NEW p \in Procs, Interrupt(p) \/ Die(p) \/ Quit(p)
  PROVE  TypeInv' /\ Manned'
<1>1. local[p] \in Local /\ Placed(local[p], runs) /\ task \in TaskRow /\ deaths \in 0 .. MaxDeaths
  BY Here
<1>2. Orphaned(p) \in TaskRow
  <2>1. [task.ask EXCEPT !.by = IF @ = p THEN None ELSE @] \in [kind : AskKinds \cup {None}, by : Procs \cup {None}]
    BY <1>1 DEF TaskRow
  <2> QED
    BY <1>1, <2>1 DEF Orphaned, TaskRow
<1>3. CASE Interrupt(p)
  <2>1. UNCHANGED deaths
    BY <1>3 DEF Interrupt
  <2>2. Closed(task, "cancelled") \in TaskRow
    BY <1>1, TaskRows DEF Statuses, Terminal
  <2>3. CASE task' = Closed(task, "cancelled") /\ Goto(p, Idle) /\ UNCHANGED runs /\ local[p].run = 0
    <3>1. Placed(Idle, runs) /\ ~Drives(Idle) /\ ~Bound(Idle) /\ Idle.run = 0
      BY IdlePlaced DEF Drives, Bound, Idle
    <3> QED
      BY <1>1, <2>1, <2>2, <2>3, <3>1, GoesOn DEF Attends
  <2>4. CASE /\ task' = Closed(task, "cancelled") /\ UNCHANGED runs /\ local[p].run # 0
             /\ Goto(p, [local[p] EXCEPT !.pc = "closing", !.stop = "interrupt"])
    <3> DEFINE l == [local[p] EXCEPT !.pc = "closing", !.stop = "interrupt"]
    <3>1. l \in Local /\ l.run = local[p].run /\ l.pc = "closing" /\ l.stop = "interrupt"
      BY <1>1 DEF Local, Outside
    <3>2. Placed(l, runs)
      BY <1>1, <2>4, <3>1 DEF Placed, InTurn, WindingUp, Before
    <3>3. ~Drives(l) /\ ~Bound(l) /\ Attends(l)
      BY <2>4, <3>1 DEF Drives, Bound, Attends, WindingUp
    <3> HIDE DEF l
    <3> QED
      BY <1>1, <2>1, <2>2, <2>4, <3>1, <3>2, <3>3, GoesOn DEF l
  <2>5. CASE Walk(p, "interrupt") /\ UNCHANGED task
    BY <1>1, <2>1, <2>5, Walks
  <2> QED
    BY <1>3, <2>3, <2>4, <2>5 DEF Interrupt
<1>4. CASE Die(p)
  <2>1. deaths' \in 0 .. MaxDeaths
    BY <1>1, <1>4, LimitsAssumption DEF Die
  <2> QED
    BY <1>2, <1>4, <2>1, Walks DEF Die
<1>5. CASE Quit(p)
  BY <1>2, <1>5, TaskOnly DEF Quit
<1> QED
  BY <1>3, <1>4, <1>5

-----------------------------------------------------------------------------
(* Types, and the windows. *)

\* No step undoes them.
LEMMA TypeInvKept == ASSUME TypeInv, Manned, [Next]_vars PROVE TypeInv' /\ Manned'
<1>1. ASSUME NEW p \in Procs, User(p) PROVE TypeInv' /\ Manned'
  BY <1>1, UserKeeps
<1>2. ASSUME NEW p \in Procs, Work(p) PROVE TypeInv' /\ Manned'
  BY <1>2, EntryKeeps, OpenKeeps, TurnKeeps, CheckpointsKeep, EndKeeps, CloseKeeps, FailKeeps
     DEF Work
<1>3. ASSUME NEW p \in Procs, Interrupt(p) \/ Die(p) \/ Quit(p) PROVE TypeInv' /\ Manned'
  BY <1>3, EndsKeep
<1>4. ASSUME NEW p \in Procs, NEW approved \in BOOLEAN, Confirm(p, approved) PROVE TypeInv' /\ Manned'
  BY <1>4, TurnKeeps
<1>5. CASE DeadlinePasses
  <2>1. task' \in TaskRow
    BY <1>5 DEF TypeInv, TypeOK, TaskRow, DeadlinePasses
  <2> QED
    BY <1>5, <2>1, TaskOnly DEF DeadlinePasses
<1>6. CASE UNCHANGED vars
  <2>1. task' \in TaskRow
    BY <1>6 DEF TypeInv, TypeOK, TaskRow, vars
  <2> QED
    BY <1>6, <2>1, TaskOnly DEF vars
<1> QED
  BY <1>1, <1>2, <1>3, <1>4, <1>5, <1>6 DEF Next

\* Types, and every open window its process, hold throughout.
LEMMA TypeInvHolds == Spec => [](TypeInv /\ Manned)
<1>1. Init => TypeInv /\ Manned
  <2> SUFFICES ASSUME Init PROVE TypeInv /\ Manned
    OBVIOUS
  <2>1. \A p \in Procs : local[p] = Idle
    BY DEF Init
  <2>2. /\ runs \in Seq(WindowRow) /\ Len(runs) = 0 /\ DOMAIN runs = {}
    BY DEF Init
  <2>3. task \in TaskRow
    BY LimitsAssumption DEF Init, NewTask, NoAsk, TaskRow, Statuses, Active
  <2>4. \A p \in Procs : Placed(local[p], runs)
    BY <2>1, IdlePlaced
  <2>5. local \in [Procs -> Local]
    BY <2>4 DEF Init, Placed
  <2>6. TypeOK
    BY <2>2, <2>3, <2>5, LimitsAssumption DEF TypeOK, TaskRow, Init
  <2>7. OneDriver
    BY <2>1 DEF OneDriver, Drives, Idle
  <2>8. Budgeted
    <3>1. {p \in Procs : Bound(local[p])} = {}
      BY <2>1 DEF Bound, Idle
    <3> QED
      BY <2>2, <3>1, FS_EmptySet, LimitsAssumption DEF Budgeted
  <2>9. Manned
    BY <2>2 DEF Manned
  <2> QED
    BY <2>2, <2>4, <2>6, <2>7, <2>8, <2>9 DEF TypeInv
<1>2. TypeInv /\ Manned /\ [Next]_vars => (TypeInv /\ Manned)'
  BY TypeInvKept
<1> QED
  BY <1>1, <1>2, PTL DEF Spec

\* The rows, the windows and the processes keep their shape: no window has more rounds
\* than MaxRounds, and the task no more continuations than MaxContinuations, however many
\* processes drive it.
THEOREM TypeCorrect == Spec => []TypeOK
<1>1. TypeInv => TypeOK
  BY DEF TypeInv
<1> QED
  BY <1>1, TypeInvHolds, PTL

\* However many processes drive, pause, fail and interrupt the task at once, a window
\* that is open has a process in it, or was left by one that died or returned early.
THEOREM WindowsAreClosed == Spec => []WindowsClosed
<1>1. Manned => WindowsClosed
  BY DEF Manned, WindowsClosed, In
<1> QED
  BY <1>1, TypeInvHolds, PTL

-----------------------------------------------------------------------------
(* One process at a time: where it is says what the task and its window are. *)

\* A process at work is alone, and a command comes when nobody is.
LEMMA NotContended ==
  ASSUME ~Overlap, Alone, NEW p \in Procs,
         ~At(p, "idle") \/ \E new, l : Command(p, new, l)
  PROVE  ~Contended(p)
BY DEF Alone, Contended, Command

\* A step moves the one that is not idle, and leaves one at most.
LEMMA TurnStep ==
  ASSUME TypeInv, TurnsInv, NEW p \in Procs, ~Contended(p), NEW l, Goto(p, l),
         TaskAs(p)', WindowAs(p)'
  PROVE  TurnsInv'
<1>1. local'[p] = l /\ \A q \in Procs : q # p => local'[q] = local[q] /\ local[q].pc = "idle"
  BY DEF TypeInv, TypeOK, Goto, Contended, At
<1>2. \A q \in Procs : q # p => local[q].run = 0
  BY <1>1, Here DEF Placed, Before
<1>3. Alone'
  BY <1>1 DEF Alone, At
<1>4. ASSUME NEW q \in Procs, q # p PROVE TaskAs(q)' /\ WindowAs(q)'
  BY <1>1, <1>2, <1>4 DEF TaskAs, WindowAs, At, WindingUp, ToBudgetPause
<1> QED
  BY <1>3, <1>4 DEF TurnsInv

\* The process goes on without a window, or is done.
LEMMA TurnFree ==
  ASSUME TypeInv, TurnsInv, NEW p \in Procs, ~Contended(p), NEW l, Goto(p, l), l.run = 0,
         l.pc \notin {"recording", "closing", "timing", "losing", "settling"},
         task'.status = "paused" => l.pc \in {"idle", "finding"},
         l.pc = "finding" => task'.status = "paused",
         l.pc = "charging" => task'.status = "running" /\ task'.used < MaxContinuations
  PROVE  TurnsInv'
<1>1. local'[p] = l
  BY DEF TypeInv, TypeOK, Goto
<1>2. WindowAs(p)'
  BY <1>1 DEF WindowAs
<1>3. TaskAs(p)'
  BY <1>1 DEF TaskAs, At, WindingUp, ToBudgetPause
<1> QED
  BY <1>2, <1>3, TurnStep

\* Or in the window it was in.
LEMMA TurnGoes ==
  ASSUME TypeInv, TurnsInv, NEW p \in Procs, ~Contended(p), NEW l, Goto(p, l),
         l.run = local[p].run, l.run # 0, l.pc \notin {"recording", "counted", "charging", "finding"},
         local[p].pc \notin WindingUp, runs'[l.run].status = Window(p).status,
         task'.status = "paused" => l.pc = "closing",
         l.pc = "closing" => task'.status # "running",
         l.pc \in {"timing", "losing", "settling"} /\ l.stop = "rounds" => Mutable(task'),
         l.pc = "settling" => l.seen = task'.status,
         l.pc = "closing" /\ l.stop = "rounds" /\ l.seen # "waiting_user" => BudgetPaused(task')
  PROVE  TurnsInv'
<1>1. local'[p] = l
  BY DEF TypeInv, TypeOK, Goto
<1>2. Window(p).status = "running"
  BY DEF TurnsInv, WindowAs, Interrupted, At, WindingUp
<1>3. WindowAs(p)'
  BY <1>1, <1>2 DEF WindowAs, Window, Interrupted, At
<1>4. l.pc = "closing" /\ LastStatus(p)' = "paused_by_budget" => l.stop = "rounds" /\ l.seen # "waiting_user"
  BY <1>1 DEF LastStatus
<1>5. TaskAs(p)'
  BY <1>1, <1>4 DEF TaskAs, At, WindingUp, ToBudgetPause
<1> QED
  BY <1>3, <1>5, TurnStep

\* A command finds nobody at work, and leaves at most its sender there.
LEMMA UserTurns ==
  ASSUME ~Overlap, TypeInv, TurnsInv, NEW p \in Procs, User(p)
  PROVE  TurnsInv'
<1>1. \E new, l : Command(p, new, l)
  BY DEF User, Start, Message, ExpireDue, Expire, Pause, Resume, Cancel, HandOff, Decide
<1>2. ~Contended(p)
  BY <1>1, NotContended DEF TurnsInv
<1>3. task \in TaskRow
  BY Here
<1>4. \A pc \in {"entering", "charging", "finding", "calling", "refusing"} :
        LET l == [Idle EXCEPT !.pc = pc] IN l.run = 0 /\ l.pc = pc
  BY DEF Idle
<1>5. Idle.run = 0 /\ Idle.pc = "idle" /\ Entering.run = 0 /\ Entering.pc = "entering"
  BY DEF Idle, Entering
<1>6. ASSUME NEW new, Command(p, new, Idle) PROVE TurnsInv'
  BY <1>2, <1>5, <1>6, TurnFree DEF Command
<1>7. ASSUME NEW new, Command(p, new, Entering), new.status = "running" PROVE TurnsInv'
  BY <1>2, <1>5, <1>7, TurnFree DEF Command
<1>8. ASSUME NEW new, NEW pc \in {"calling", "refusing"}, new.status = "running",
             Command(p, new, [Idle EXCEPT !.pc = pc])
      PROVE TurnsInv'
  BY <1>2, <1>4, <1>8, TurnFree DEF Command
<1>9. [task EXCEPT !.status = "running"].status = "running" /\ Released(task).status = "running"
  BY <1>3 DEF TaskRow, Released
<1>10. CASE Start(p)
  BY <1>7, <1>9, <1>10 DEF Start
<1>11. CASE Message(p)
  BY <1>7, <1>9, <1>11 DEF Message
<1>12. CASE ExpireDue(p) \/ Expire(p) \/ Cancel(p) \/ HandOff(p)
  BY <1>6, <1>12 DEF ExpireDue, Expire, Cancel, HandOff
<1>13. CASE Pause(p)
  <2>1. Command(p, [task EXCEPT !.status = "paused"], [Idle EXCEPT !.pc = "finding"])
    BY <1>13 DEF Pause
  <2>2. [task EXCEPT !.status = "paused"].status = "paused"
    BY <1>3 DEF TaskRow
  <2> QED
    BY <1>2, <1>4, <2>1, <2>2, TurnFree DEF Command
<1>14. CASE Resume(p)
  <2>1. CASE Command(p, [task EXCEPT !.status = "running"], [Idle EXCEPT !.pc = "charging"])
             /\ task.used < MaxContinuations
    <3>1. [task EXCEPT !.status = "running"].used = task.used
      BY <1>3 DEF TaskRow
    <3> QED
      BY <1>2, <1>4, <1>9, <2>1, <3>1, TurnFree DEF Command
  <2>2. CASE Command(p, Failed(task), Idle) \/ Command(p, [task EXCEPT !.status = "running"], Entering)
    BY <1>6, <1>7, <1>9, <2>2
  <2>3. task.used \in Nat /\ MaxContinuations \in Nat
    BY <1>3, LimitsAssumption DEF TaskRow
  <2> QED
    BY <1>14, <2>1, <2>2, <2>3 DEF Resume
<1>15. ASSUME NEW approved \in BOOLEAN, Decide(p, approved) PROVE TurnsInv'
  <2>1. \/ Command(p, Released(task), Idle) \/ Command(p, Released(task), Entering)
        \/ Command(p, Released(task), [Idle EXCEPT !.pc = IF approved THEN "calling" ELSE "refusing"])
    BY <1>15 DEF Decide
  <2> QED
    BY <1>6, <1>7, <1>8, <1>9, <2>1
<1> QED
  BY <1>10, <1>11, <1>12, <1>13, <1>14, <1>15 DEF User

\* A process at work, and what is known of it.
LEMMA AtWork ==
  ASSUME ~Overlap, TypeInv, TurnsInv, NEW p \in Procs, ~At(p, "idle")
  PROVE  /\ ~Contended(p) /\ TaskAs(p) /\ WindowAs(p)
         /\ local[p] \in Local /\ Placed(local[p], runs) /\ task \in TaskRow
         /\ local[p].run # 0 => local[p].run \in DOMAIN runs /\ Window(p) \in WindowRow
<1>1. ~Contended(p)
  BY NotContended DEF TurnsInv
<1> QED
  BY <1>1, Here DEF TurnsInv, Placed

\* Failed, closed and released tasks.
LEMMA Statuses3 ==
  ASSUME NEW t \in TaskRow
  PROVE  /\ Failed(t).status \in Terminal
         /\ \A st : Closed(t, st).status = st
         /\ Released(t).status = "running"
<1>1. Failed(t).status \in Terminal
  BY DEF Failed, TaskRow, Terminal
<1>2. \A st : Closed(t, st).status = st
  BY DEF Closed, TaskRow
<1> QED
  BY <1>1, <1>2 DEF Released, TaskRow

\* An exception, of a task that may not do what it was asked.
LEMMA RaisedTurns ==
  ASSUME ~Overlap, TypeInv, TurnsInv, NEW p \in Procs, ~At(p, "idle"), ~At(p, "finding"),
         local[p].pc \notin WindingUp, Goto(p, Thrown(p)), UNCHANGED task,
         runs' = runs \/ (local[p].run # 0 /\ runs'[local[p].run].status = Window(p).status)
  PROVE  TurnsInv'
<1>1. /\ ~Contended(p) /\ local[p] \in Local /\ task.status # "paused"
      /\ local[p].pc # "recording"
  BY AtWork DEF TaskAs, At, WindingUp
<1>2. CASE local[p].run = 0
  BY <1>1, <1>2, TurnFree DEF Thrown, Idle
<1>3. CASE local[p].run # 0
  <2> DEFINE l == [local[p] EXCEPT !.pc = "failing"]
  <2>1. Goto(p, l) /\ l.run = local[p].run /\ l.pc = "failing"
    BY <1>1, <1>3 DEF Thrown, Local
  <2>2. runs'[l.run].status = Window(p).status
    BY <2>1 DEF Window
  <2> HIDE DEF l
  <2> QED
    BY <1>1, <1>3, <2>1, <2>2, TurnGoes
<1> QED
  BY <1>2, <1>3

\* Before a turn has its window, and as it gets it.
LEMMA EntryTurns ==
  ASSUME ~Overlap, TypeInv, TurnsInv, NEW p \in Procs,
         Charge(p) \/ FindWindow(p) \/ Enter(p) \/ Open(p) \/ FirstCheckpoint(p)
  PROVE  TurnsInv'
<1>1. ~At(p, "idle")
  BY DEF Charge, FindWindow, Enter, Open, FirstCheckpoint, At
<1>2. /\ ~Contended(p) /\ TaskAs(p) /\ WindowAs(p) /\ local[p] \in Local /\ Placed(local[p], runs)
      /\ task \in TaskRow /\ (local[p].run # 0 => Window(p) \in WindowRow)
  BY <1>1, AtWork
<1>3. Idle.run = 0 /\ Idle.pc = "idle" /\ Entering.run = 0 /\ Entering.pc = "entering"
  BY DEF Idle, Entering
<1>4. CASE Charge(p)
  <2>1. local[p].pc = "charging" /\ task.status = "running" /\ task.used < MaxContinuations
    BY <1>2, <1>4 DEF Charge, TaskAs, At
  <2>2. Mutable(task)
    BY <2>1 DEF Mutable, Terminal
  <2>3. task' = [task EXCEPT !.used = @ + 1] /\ Goto(p, Entering)
    <3>1. ~(task.used >= MaxContinuations)
      BY <1>2, <2>1, LimitsAssumption DEF TaskRow
    <3> QED
      BY <1>2, <1>4, <2>1, <2>2, <3>1 DEF Charge, Call
  <2>4. task'.status = "running"
    BY <1>2, <2>1, <2>3 DEF TaskRow
  <2> QED
    BY <1>2, <1>3, <2>3, <2>4, TurnFree
<1>5. CASE FindWindow(p)
  <2>1. local[p].run = 0 /\ task.status = "paused" /\ UNCHANGED <<task, runs>>
    BY <1>2, <1>5 DEF FindWindow, TaskAs, At, Placed, Before
  <2>2. CASE Goto(p, Idle)
    BY <1>2, <1>3, <2>1, <2>2, TurnFree
  <2>3. ASSUME NEW i \in DOMAIN runs, runs[i].status = "running",
               Goto(p, [local[p] EXCEPT !.pc = "closing", !.stop = "pause", !.run = i])
        PROVE  TurnsInv'
    <3> DEFINE l == [local[p] EXCEPT !.pc = "closing", !.stop = "pause", !.run = i]
    <3>1. l.pc = "closing" /\ l.stop = "pause" /\ l.run = i
      BY <1>2 DEF Local
    <3>2. local'[p] = l
      BY <2>3 DEF TypeInv, TypeOK, Goto
    <3> HIDE DEF l
    <3>3. WindowAs(p)'
      BY <2>1, <2>3, <3>1, <3>2 DEF WindowAs, Window, At
    <3>4. TaskAs(p)'
      BY <2>1, <3>1, <3>2 DEF TaskAs, At, WindingUp, ToBudgetPause, LastStatus
    <3> QED
      BY <1>2, <2>3, <3>3, <3>4, TurnStep DEF l
  <2> QED
    BY <1>5, <2>2, <2>3 DEF FindWindow
<1>6. CASE Enter(p)
  <2>1. task.status # "paused" /\ UNCHANGED <<task, runs>> /\ local[p].run = 0
    BY <1>2, <1>6 DEF Enter, TaskAs, At, WindingUp, Placed, Before
  <2>2. [local[p] EXCEPT !.pc = "opening"].run = 0 /\ [local[p] EXCEPT !.pc = "opening"].pc = "opening"
    BY <1>2, <2>1 DEF Local
  <2>3. Goto(p, Idle) \/ Goto(p, [local[p] EXCEPT !.pc = "opening"])
    BY <1>6 DEF Enter, Step
  <2>4. CASE Goto(p, Idle)
    BY <1>2, <1>3, <2>1, <2>4, TurnFree
  <2>5. CASE Goto(p, [local[p] EXCEPT !.pc = "opening"])
    BY <1>2, <2>1, <2>2, <2>5, TurnFree
  <2> QED
    BY <2>3, <2>4, <2>5
<1>7. CASE Open(p)
  <2> DEFINE l == [local[p] EXCEPT !.pc = "opened", !.run = Len(runs) + 1]
  <2>1. l.pc = "opened" /\ l.run = Len(runs) + 1 /\ Goto(p, l) /\ UNCHANGED task /\ task.status # "paused"
    BY <1>2, <1>7 DEF Open, Local, TaskAs, At, WindingUp
  <2>2. local'[p] = l
    BY <2>1 DEF TypeInv, TypeOK, Goto
  <2>3. runs'[Len(runs) + 1].status = "running"
    <3>1. NewWindow \in WindowRow /\ NewWindow.status = "running"
      BY LimitsAssumption DEF NewWindow, WindowRow
    <3> QED
      BY <1>7, <3>1, AppendProperties DEF Open, TypeInv
  <2> HIDE DEF l
  <2>4. TaskAs(p)' /\ WindowAs(p)'
    BY <2>1, <2>2, <2>3 DEF TaskAs, WindowAs, Window, At, WindingUp, ToBudgetPause
  <2> QED
    BY <1>2, <2>1, <2>4, TurnStep
<1>8. CASE FirstCheckpoint(p)
  <2> DEFINE l == [local[p] EXCEPT !.pc = "recovering"]
  <2>1. local[p].run # 0 /\ task.status # "paused" /\ UNCHANGED task /\ ~At(p, "recording")
    BY <1>2, <1>8 DEF FirstCheckpoint, TaskAs, At, WindingUp, Placed, InTurn
  <2>2. l.run = local[p].run /\ l.pc = "recovering" /\ Goto(p, l)
    BY <1>2, <1>8 DEF Local, FirstCheckpoint, Step
  <2>3. runs'[l.run].status = Window(p).status
    <3>1. [Window(p) EXCEPT !.mark = "running"] \in WindowRow
      BY <1>2, <2>1 DEF WindowRow
    <3> QED
      BY <1>2, <1>8, <2>1, <2>2, <3>1, WritesWindow DEF FirstCheckpoint, WindowRow
  <2> HIDE DEF l
  <2> QED
    BY <1>2, <1>8, <2>1, <2>2, <2>3, TurnGoes DEF FirstCheckpoint, At, WindingUp
<1> QED
  BY <1>4, <1>5, <1>6, <1>7, <1>8

\* p goes on in its turn, to no place that asks for more.
LEMMA TurnOn ==
  ASSUME ~Overlap, TypeInv, TurnsInv, NEW p \in Procs, ~At(p, "idle"), local[p].pc \notin WindingUp,
         local[p].run # 0, NEW l, Goto(p, l), l.run = local[p].run,
         l.pc \in InTurn \cup {"calling", "acting", "refusing"}, l.pc \notin {"counted", "settling"},
         task'.status # "paused", l.pc \in {"timing", "losing"} /\ l.stop = "rounds" => Mutable(task'),
         runs' = runs \/ runs'[local[p].run].status = Window(p).status
  PROVE  TurnsInv'
<1>1. ~Contended(p) /\ local[p].pc # "recording"
  BY AtWork DEF WindingUp
<1>2. runs'[l.run].status = Window(p).status
  BY DEF Window
<1>3. l.pc \notin {"recording", "counted", "charging", "finding", "closing", "settling"}
  BY DEF InTurn
<1> QED
  BY <1>1, <1>2, <1>3, TurnGoes

\* In a turn, while the windows stay as they are.
LEMMA TurnTurns ==
  ASSUME ~Overlap, TypeInv, TurnsInv, NEW p \in Procs,
         \/ CheckBlockers(p) \/ Model(p) \/ CountRead(p) \/ CallTool(p) \/ Observe(p) \/ GiveUp(p)
         \/ \E kind \in AskKinds : Ask(p, kind)
         \/ \E approved \in BOOLEAN : Confirm(p, approved)
  PROVE  TurnsInv'
<1>1. /\ ~At(p, "idle") /\ ~At(p, "finding") /\ local[p].pc \notin WindingUp
      /\ local[p].pc \notin {"timing", "losing", "settling", "charging"}
  BY DEF CheckBlockers, Model, CountRead, CallTool, Observe, GiveUp, Ask, Confirm, At, WindingUp
<1>2. /\ ~Contended(p) /\ TaskAs(p) /\ WindowAs(p) /\ local[p] \in Local /\ Placed(local[p], runs)
      /\ task \in TaskRow /\ (local[p].run # 0 => Window(p) \in WindowRow)
      /\ task.status # "paused"
  BY <1>1, AtWork DEF TaskAs, At
<1>3. Idle.run = 0 /\ Idle.pc = "idle" /\ Entering.run = 0 /\ Entering.pc = "entering"
  BY DEF Idle, Entering
<1>4. Failed(task).status \in Terminal /\ Released(task).status = "running"
  BY <1>2, Statuses3
<1>5. ASSUME NEW pc, Step(p, pc), local[p].run # 0, UNCHANGED runs, task'.status # "paused",
             pc \in {"model", "counting", "acting", "after", "confirming", "calling", "refusing"}
      PROVE  TurnsInv'
  <2> DEFINE l == [local[p] EXCEPT !.pc = pc]
  <2>1. Goto(p, l) /\ l.run = local[p].run /\ l.pc = pc
    BY <1>2, <1>5 DEF Step, Local
  <2> HIDE DEF l
  <2> QED
    BY <1>1, <1>5, <2>1, TurnOn DEF InTurn
<1>6. CASE CheckBlockers(p)
  <2>1. local[p].run # 0
    BY <1>2, <1>6 DEF CheckBlockers, At, Placed, InTurn
  <2>2. CASE Step(p, "model") /\ UNCHANGED <<task, runs>>
    BY <1>2, <1>5, <2>1, <2>2
  <2>3. CASE task' = Failed(task) /\ Walk(p, "exit")
    BY <1>2, <1>3, <1>4, <2>3, TurnFree DEF Walk, Terminal
  <2> QED
    BY <1>2, <1>6, <2>2, <2>3 DEF CheckBlockers
<1>7. CASE Model(p)
  <2>1. local[p].run # 0 /\ UNCHANGED runs
    BY <1>2, <1>7 DEF Model, At, Placed, InTurn
  <2>2. ASSUME NEW stop, Goto(p, Finalize(p, stop)), UNCHANGED task, stop = "rounds" => Mutable(task)
        PROVE  TurnsInv'
    <3> DEFINE l == Finalize(p, stop)
    <3>1. l.run = local[p].run /\ l.pc = "timing" /\ l.stop = stop /\ Goto(p, l)
      BY <1>2, <2>2 DEF Finalize, Local
    <3> HIDE DEF l
    <3> QED
      BY <1>1, <1>2, <2>1, <2>2, <3>1, TurnOn DEF InTurn
  <2>3. CASE Goto(p, Finalize(p, "error")) /\ UNCHANGED task
    BY <2>2, <2>3
  <2>4. ASSUME NEW l \in Replies(p), Call(p, Mutable(task), task, l) PROVE TurnsInv'
    <3>1. CASE Goto(p, Thrown(p)) /\ UNCHANGED task
      BY <1>1, <2>1, <3>1, RaisedTurns
    <3>2. CASE Mutable(task) /\ task' = task /\ Goto(p, l)
      <4>1. \/ l = Finalize(p, "answer") \/ l = Finalize(p, "error") \/ l = Finalize(p, "rounds")
            \/ l = [local[p] EXCEPT !.pc = "counting"]
        BY DEF Replies
      <4> QED
        BY <1>2, <1>5, <2>1, <2>2, <3>2, <4>1 DEF Step
    <3> QED
      BY <2>4, <3>1, <3>2 DEF Call
  <2> QED
    BY <1>7, <2>3, <2>4 DEF Model
<1>8. CASE CountRead(p)
  <2> DEFINE l == [local[p] EXCEPT !.pc = "counted", !.saved = Window(p).status]
  <2>1. local[p].run # 0 /\ UNCHANGED <<task, runs>> /\ Goto(p, l) /\ Window(p).status = "running"
    BY <1>2, <1>8 DEF CountRead, At, Placed, InTurn, WindowAs, Interrupted
  <2>2. l.run = local[p].run /\ l.pc = "counted" /\ l.saved = "running"
    BY <1>2, <2>1 DEF Local
  <2>3. local'[p] = l
    BY <2>1 DEF TypeInv, TypeOK, Goto
  <2> HIDE DEF l
  <2>4. TaskAs(p)' /\ WindowAs(p)'
    BY <1>2, <2>1, <2>2, <2>3 DEF TaskAs, WindowAs, Window, At, WindingUp, ToBudgetPause
  <2> QED
    BY <1>2, <2>1, <2>4, TurnStep
<1>9. CASE CallTool(p)
  <2>1. UNCHANGED runs /\ ((Mutable(task) /\ UNCHANGED task /\ Step(p, "acting")) \/ (Goto(p, Thrown(p)) /\ UNCHANGED task))
    BY <1>9 DEF CallTool, Call, Step
  <2>2. CASE Goto(p, Thrown(p)) /\ UNCHANGED task
    BY <1>1, <2>1, <2>2, RaisedTurns
  <2>3. CASE UNCHANGED task /\ Step(p, "acting") /\ local[p].run = 0
    <3> DEFINE l == [local[p] EXCEPT !.pc = "acting"]
    <3>1. Goto(p, l) /\ l.run = 0 /\ l.pc = "acting"
      BY <1>2, <2>3 DEF Step, Local
    <3> HIDE DEF l
    <3> QED
      BY <1>2, <2>3, <3>1, TurnFree
  <2> QED
    BY <1>2, <1>5, <2>1, <2>2, <2>3
<1>10. CASE Observe(p)
  <2>1. /\ UNCHANGED <<runs, task>>
        /\ \/ local[p].run = 0 /\ Goto(p, Entering)
           \/ local[p].run # 0 /\ Step(p, "after")
           \/ Goto(p, Thrown(p))
    BY <1>10 DEF Observe, Call, Step
  <2>2. CASE Goto(p, Entering)
    BY <1>2, <1>3, <2>1, <2>2, TurnFree
  <2>3. CASE Goto(p, Thrown(p))
    BY <1>1, <2>1, <2>3, RaisedTurns
  <2> QED
    BY <1>2, <1>5, <2>1, <2>2, <2>3
<1>11. CASE GiveUp(p)
  <2>1. local[p].run # 0 /\ UNCHANGED runs
    BY <1>2, <1>11 DEF GiveUp, At, Placed, InTurn
  <2>2. (task' = Failed(task) /\ Step(p, "after")) \/ (Goto(p, Thrown(p)) /\ UNCHANGED task)
    BY <1>11 DEF GiveUp, Call, Step
  <2> QED
    BY <1>1, <1>4, <1>5, <2>1, <2>2, RaisedTurns DEF Terminal
<1>12. ASSUME NEW kind \in AskKinds, Ask(p, kind) PROVE TurnsInv'
  <2> DEFINE new == [task EXCEPT !.status = "waiting_user", !.late = FALSE,
                                 !.ask = [kind |-> kind, by |-> p]]
             pc == IF kind # "question" /\ p \in Attended THEN "confirming" ELSE "after"
  <2>1. local[p].run # 0 /\ UNCHANGED runs /\ new.status = "waiting_user"
    BY <1>2, <1>12 DEF Ask, At, Placed, InTurn, TaskRow
  <2>2. (task' = new /\ Step(p, pc)) \/ (Goto(p, Thrown(p)) /\ UNCHANGED task)
    BY <1>12 DEF Ask, Call, Step
  <2>3. pc \in {"confirming", "after"}
    OBVIOUS
  <2> HIDE DEF new, pc
  <2> QED
    BY <1>1, <1>5, <2>1, <2>2, <2>3, RaisedTurns
<1>13. ASSUME NEW approved \in BOOLEAN, Confirm(p, approved) PROVE TurnsInv'
  <2> DEFINE pc == IF approved THEN "calling" ELSE "refusing"
  <2>1. local[p].run # 0 /\ UNCHANGED runs
    BY <1>2, <1>13 DEF Confirm, At, Placed, InTurn
  <2>2. (task' = Released(task) /\ Step(p, pc)) \/ (Goto(p, Thrown(p)) /\ UNCHANGED task)
    BY <1>13 DEF Confirm, Call, Step
  <2>3. pc \in {"calling", "refusing"}
    OBVIOUS
  <2> HIDE DEF pc
  <2> QED
    BY <1>1, <1>4, <1>5, <2>1, <2>2, <2>3, RaisedTurns
<1> QED
  BY <1>6, <1>7, <1>8, <1>9, <1>10, <1>11, <1>12, <1>13

\* In a turn, as p writes its window.
LEMMA CheckpointTurns ==
  ASSUME ~Overlap, TypeInv, TurnsInv, NEW p \in Procs, CountWrite(p) \/ Ready(p) \/ After(p)
  PROVE  TurnsInv'
<1>1. /\ ~At(p, "idle") /\ ~At(p, "finding") /\ local[p].pc \notin WindingUp
      /\ local[p].pc \notin {"timing", "losing", "settling", "charging"}
  BY DEF CountWrite, Ready, After, At, WindingUp
<1>2. /\ ~Contended(p) /\ TaskAs(p) /\ WindowAs(p) /\ local[p] \in Local /\ Placed(local[p], runs)
      /\ task.status # "paused" /\ UNCHANGED task
  BY <1>1, AtWork DEF TaskAs, At, CountWrite, Ready, After
<1>3. local[p].run # 0 /\ Window(p) \in WindowRow
  BY <1>1, <1>2, AtWork DEF CountWrite, Ready, After, At, Placed, InTurn
<1>4. ASSUME NEW mark \in {"running", "waiting_approval"},
             SetWindow(p, [Window(p) EXCEPT !.mark = mark])
      PROVE  runs'[local[p].run].status = Window(p).status
  <2>1. [Window(p) EXCEPT !.mark = mark] \in WindowRow
    BY <1>3 DEF WindowRow, WindowClosed
  <2> QED
    BY <1>3, <1>4, <2>1, WritesWindow DEF WindowRow
<1>5. ASSUME NEW l, Goto(p, l), l.run = local[p].run, l.pc \in {"ready", "tool", "model", "timing"},
             l.pc = "timing" => l.stop # "rounds",
             runs' = runs \/ runs'[local[p].run].status = Window(p).status
      PROVE  TurnsInv'
  BY <1>1, <1>2, <1>3, <1>5, TurnOn DEF InTurn
<1>6. \A stop : LET l == Finalize(p, stop)
                IN  l.run = local[p].run /\ l.pc = "timing" /\ l.stop = stop
  BY <1>2 DEF Finalize, Local
<1>7. \A pc : LET l == [local[p] EXCEPT !.pc = pc] IN l.run = local[p].run /\ l.pc = pc
  BY <1>2 DEF Local
<1>8. CASE CountWrite(p)
  <2> DEFINE l == [local[p] EXCEPT !.pc = "ready", !.saved = None]
  <2>1. Goto(p, l) /\ l.run = local[p].run /\ l.pc = "ready"
    BY <1>2, <1>8 DEF CountWrite, Local
  <2>2. runs'[local[p].run].status = Window(p).status
    <3>1. Counted(p).status = local[p].saved /\ local[p].run \in DOMAIN runs
      BY <1>2, <1>3 DEF Counted, WindowRow, Placed
    <3>2. local[p].saved = "running" /\ Window(p).status = "running"
      BY <1>2, <1>3, <1>8 DEF CountWrite, WindowAs, Interrupted, At
    <3> QED
      BY <1>8, <3>1, <3>2 DEF CountWrite, SetWindow
  <2> HIDE DEF l
  <2> QED
    BY <1>5, <2>1, <2>2
<1>9. CASE Ready(p)
  <2>1. runs'[local[p].run].status = Window(p).status
    BY <1>4, <1>9 DEF Ready
  <2>2. CASE Goto(p, Finalize(p, "answer")) \/ Goto(p, Finalize(p, "error"))
    BY <1>5, <1>6, <2>1, <2>2
  <2>3. CASE Step(p, "tool")
    BY <1>5, <1>7, <2>1, <2>3 DEF Step
  <2> QED
    BY <1>9, <2>2, <2>3 DEF Ready
<1>10. CASE After(p)
  <2>1. runs' = runs \/ runs'[local[p].run].status = Window(p).status
    BY <1>4, <1>10 DEF After
  <2>2. \/ \E stop \in {"waiting", "error", "answer"} : Goto(p, Finalize(p, stop))
        \/ Step(p, "model") \/ Goto(p, Thrown(p))
    BY <1>10 DEF After
  <2>3. ASSUME NEW stop \in {"waiting", "error", "answer"}, Goto(p, Finalize(p, stop)) PROVE TurnsInv'
    BY <1>5, <1>6, <2>1, <2>3
  <2>4. CASE Step(p, "model")
    BY <1>5, <1>7, <2>1, <2>4 DEF Step
  <2>5. CASE Goto(p, Thrown(p))
    BY <1>1, <1>2, <1>3, <2>1, <2>5, RaisedTurns
  <2> QED
    BY <2>2, <2>3, <2>4, <2>5
<1> QED
  BY <1>8, <1>9, <1>10

\* The end of a turn, up to the close of its window.
LEMMA EndTurns ==
  ASSUME ~Overlap, TypeInv, TurnsInv, NEW p \in Procs, AddTime(p) \/ LoseTrace(p) \/ Settle(p)
  PROVE  TurnsInv'
<1>1. ~At(p, "idle") /\ ~At(p, "finding") /\ local[p].pc \notin WindingUp
  BY DEF AddTime, LoseTrace, Settle, At, WindingUp
<1>2. /\ ~Contended(p) /\ TaskAs(p) /\ WindowAs(p) /\ local[p] \in Local /\ Placed(local[p], runs)
      /\ task \in TaskRow /\ task.status # "paused"
  BY <1>1, AtWork DEF TaskAs, At
<1>3. local[p].run # 0
  BY <1>2 DEF AddTime, LoseTrace, Settle, At, Placed, InTurn
<1>4. Failed(task).status \in Terminal /\ Closed(task, "completed").status = "completed"
  BY <1>2, Statuses3
<1>5. CASE AddTime(p)
  <2>1. UNCHANGED <<task, runs>>
    BY <1>5 DEF AddTime
  <2>2. ASSUME NEW pc \in {"settling", "losing"},
               Goto(p, [local[p] EXCEPT !.pc = pc, !.seen = task.status])
        PROVE  TurnsInv'
    <3> DEFINE l == [local[p] EXCEPT !.pc = pc, !.seen = task.status]
    <3>1. l.run = local[p].run /\ l.pc = pc /\ l.seen = task.status /\ l.stop = local[p].stop
      BY <1>2 DEF Local
    <3>2. l.stop = "rounds" => Mutable(task')
      BY <1>2, <1>5, <2>1, <3>1 DEF AddTime, TaskAs, At
    <3>3. runs'[l.run].status = Window(p).status /\ local[p].pc \notin WindingUp
      BY <1>1, <2>1, <3>1 DEF Window
    <3>4. Goto(p, l)
      BY <2>2
    <3> HIDE DEF l
    <3> QED
      BY <1>2, <1>3, <2>1, <3>1, <3>2, <3>3, <3>4, TurnGoes
  <2>3. CASE Goto(p, Thrown(p))
    BY <1>1, <2>1, <2>3, RaisedTurns
  <2> QED
    BY <1>5, <2>2, <2>3 DEF AddTime
<1>6. CASE LoseTrace(p)
  <2>1. Idle.run = 0 /\ Idle.pc = "idle"
    BY DEF Idle
  <2>2. task' = Failed(task) /\ Goto(p, Idle)
    BY <1>2, <1>6 DEF LoseTrace, Walk
  <2> QED
    BY <1>2, <1>4, <2>1, <2>2, TurnFree DEF Terminal
<1>7. CASE Settle(p)
  <2>1. UNCHANGED runs /\ local[p].seen = task.status /\ local[p].pc = "settling"
    BY <1>2, <1>7 DEF Settle, TaskAs, At
  <2>2. ASSUME NEW l, Goto(p, l), l.run = local[p].run, l.pc = "closing", l.stop = local[p].stop,
               task'.status # "running", task'.status = l.seen,
               l.stop = "rounds" /\ l.seen # "waiting_user" => BudgetPaused(task')
        PROVE  TurnsInv'
    <3>1. runs'[l.run].status = Window(p).status
      BY <2>1, <2>2 DEF Window
    <3> QED
      BY <1>1, <1>2, <1>3, <2>1, <2>2, <3>1, TurnGoes
  <2>3. CASE local[p].seen \in Ended \cup {"waiting_user"} /\ Step(p, "closing") /\ UNCHANGED task
    <3> DEFINE l == [local[p] EXCEPT !.pc = "closing"]
    <3>1. Goto(p, l) /\ l.run = local[p].run /\ l.pc = "closing" /\ l.stop = local[p].stop /\ l.seen = local[p].seen
      BY <1>2, <2>3 DEF Step, Local
    <3>2. task.status # "running"
      BY <2>1, <2>3 DEF Ended, Terminal
    <3>3. l.stop = "rounds" => l.seen = "waiting_user"
      BY <1>2, <2>1, <2>3, <3>1 DEF TaskAs, Mutable, Ended
    <3> HIDE DEF l
    <3> QED
      BY <2>1, <2>2, <2>3, <3>1, <3>2, <3>3
  <2>4. CASE LET s == Settled(local[p].stop)
             IN  Call(p, s.allowed, s.new, [local[p] EXCEPT !.pc = "closing", !.seen = s.new.status])
    <3> DEFINE new == Settled(local[p].stop).new
               l == [local[p] EXCEPT !.pc = "closing", !.seen = new.status]
    <3>1. new.status # "running" /\ (local[p].stop = "rounds" => BudgetPaused(new))
      BY <1>2, <1>4 DEF Settled, BudgetPaused, TaskRow, Terminal
    <3>2. (task' = new /\ Goto(p, l)) \/ (Goto(p, Thrown(p)) /\ UNCHANGED task)
      BY <2>4 DEF Call
    <3> HIDE DEF new
    <3>3. l.run = local[p].run /\ l.pc = "closing" /\ l.stop = local[p].stop /\ l.seen = new.status
      BY <1>2 DEF Local
    <3> HIDE DEF l
    <3>4. CASE task' = new /\ Goto(p, l)
      BY <2>2, <3>1, <3>3, <3>4
    <3> QED
      BY <1>1, <2>1, <3>2, <3>4, RaisedTurns
  <2> QED
    BY <1>7, <2>3, <2>4 DEF Settle
<1> QED
  BY <1>5, <1>6, <1>7

\* The close of a window, and its last checkpoint.
LEMMA CloseTurns ==
  ASSUME ~Overlap, TypeInv, TurnsInv, NEW p \in Procs, Close(p) \/ LastCheckpoint(p)
  PROVE  TurnsInv'
<1>1. ~At(p, "idle") /\ local[p].pc \in WindingUp /\ UNCHANGED task
  BY DEF Close, LastCheckpoint, At, WindingUp
<1>2. /\ ~Contended(p) /\ TaskAs(p) /\ WindowAs(p) /\ local[p] \in Local /\ Placed(local[p], runs)
      /\ (local[p].run # 0 => local[p].run \in DOMAIN runs /\ Window(p) \in WindowRow)
  BY <1>1, AtWork
<1>3. local[p].run \in DOMAIN runs /\ Window(p) \in WindowRow
  BY <1>1, <1>2 DEF Placed
<1>4. CASE Close(p)
  <2> DEFINE l == [local[p] EXCEPT !.pc = "recording"]
  <2>1. /\ Goto(p, l) /\ l.pc = "recording" /\ l.run = local[p].run
        /\ l.stop = local[p].stop /\ l.seen = local[p].seen
    BY <1>2, <1>4 DEF Close, Step, Local
  <2>2. local'[p] = l
    BY <2>1 DEF TypeInv, TypeOK, Goto
  <2>3. runs'[local[p].run].status = LastStatus(p)
    BY <1>3, <1>4 DEF Close, SetWindow, WindowRow
  <2> HIDE DEF l
  <2>4. LastStatus(p)' = LastStatus(p)
    BY <2>1, <2>2 DEF LastStatus
  <2>5. TaskAs(p)' /\ WindowAs(p)'
    BY <1>1, <1>2, <2>1, <2>2, <2>3, <2>4 DEF TaskAs, WindowAs, Window, At, WindingUp, ToBudgetPause
  <2> QED
    BY <1>2, <2>1, <2>5, TurnStep
<1>5. CASE LastCheckpoint(p)
  BY <1>1, <1>2, <1>5, TurnFree DEF LastCheckpoint, Idle
<1> QED
  BY <1>4, <1>5

\* An exception fails the task, and p closes the window it is in.
LEMMA FailTurns ==
  ASSUME ~Overlap, TypeInv, TurnsInv, NEW p \in Procs, Fail(p)
  PROVE  TurnsInv'
<1>1. local[p].pc = "failing" /\ ~At(p, "idle")
  BY DEF Fail, At
<1>2. ~Contended(p) /\ local[p] \in Local /\ task \in TaskRow
  BY <1>1, AtWork
<1>3. UNCHANGED runs /\ task'.status \in Terminal
  BY <1>2, Statuses3 DEF Fail
<1>4. CASE Goto(p, Idle)
  BY <1>2, <1>3, <1>4, TurnFree DEF Idle, Terminal
<1>5. CASE /\ local[p].run # 0
           /\ Goto(p, [local[p] EXCEPT !.pc = "closing", !.stop = "failure", !.seen = task'.status])
  <2> DEFINE l == [local[p] EXCEPT !.pc = "closing", !.stop = "failure", !.seen = task'.status]
  <2>1. l.run = local[p].run /\ l.pc = "closing" /\ l.stop = "failure" /\ Goto(p, l)
    BY <1>2, <1>5 DEF Local
  <2>2. runs'[l.run].status = Window(p).status /\ local[p].pc \notin WindingUp
    BY <1>1, <1>3, <2>1 DEF Window, WindingUp
  <2> HIDE DEF l
  <2> QED
    BY <1>1, <1>2, <1>3, <1>5, <2>1, <2>2, TurnGoes DEF Terminal
<1> QED
  BY <1>4, <1>5 DEF Fail

\* Ctrl-C, and the end of a process at work.
LEMMA EndsTurns ==
  ASSUME ~Overlap, TypeInv, TurnsInv, NEW p \in Procs, Interrupt(p) \/ Die(p)
  PROVE  TurnsInv'
<1>1. ~At(p, "idle")
  BY DEF Interrupt, Die, At
<1>2. ~Contended(p) /\ local[p] \in Local /\ task \in TaskRow /\ TaskAs(p)
  BY <1>1, AtWork
<1>3. Idle.run = 0 /\ Idle.pc = "idle"
  BY DEF Idle
<1>4. CASE Goto(p, Idle)
  BY <1>2, <1>3, <1>4, TurnFree
<1>5. CASE /\ Interrupt(p) /\ local[p].run # 0 /\ UNCHANGED runs
           /\ task' = Closed(task, "cancelled")
           /\ Goto(p, [local[p] EXCEPT !.pc = "closing", !.stop = "interrupt"])
  <2> DEFINE l == [local[p] EXCEPT !.pc = "closing", !.stop = "interrupt"]
  <2>1. l.run = local[p].run /\ l.pc = "closing" /\ l.stop = "interrupt" /\ Goto(p, l)
    BY <1>2, <1>5 DEF Local
  <2>2. local'[p] = l
    BY <2>1 DEF TypeInv, TypeOK, Goto
  <2>3. task'.status = "cancelled"
    BY <1>2, <1>5, Statuses3
  <2> HIDE DEF l
  <2>4. TaskAs(p)' /\ WindowAs(p)'
    BY <2>1, <2>2, <2>3 DEF TaskAs, WindowAs, Interrupted, At, WindingUp, ToBudgetPause, LastStatus
  <2> QED
    BY <1>2, <2>1, <2>4, TurnStep
<1> QED
  BY <1>4, <1>5 DEF Interrupt, Die, Walk

\* What only touches the task leaves its status.
LEMMA IdleTurns ==
  ASSUME TypeInv, TurnsInv, UNCHANGED <<runs, local>>, task'.status = task.status,
         task'.used = task.used, task'.stop = task.stop
  PROVE  TurnsInv'
<1>1. Alone'
  BY DEF TurnsInv, Alone, At
<1>2. ASSUME NEW p \in Procs PROVE TaskAs(p)' /\ WindowAs(p)'
  <2>1. TaskAs(p) /\ WindowAs(p)
    BY DEF TurnsInv
  <2>2. LastStatus(p)' = LastStatus(p)
    BY DEF LastStatus
  <2>3. TaskAs(p)'
    BY <2>1, <2>2 DEF TaskAs, At, Mutable, ToBudgetPause, BudgetPaused
  <2>4. WindowAs(p)'
    BY <2>1, <2>2 DEF WindowAs, Interrupted, At, Window
  <2> QED
    BY <2>3, <2>4
<1> QED
  BY <1>1, <1>2 DEF TurnsInv

\* Steps that leave every process where it is.
Resting ==
  \/ \E p \in Procs : Quit(p)
  \/ DeadlinePasses
  \/ UNCHANGED vars

\* They leave the windows, and what the invariant says of the task.
LEMMA RestingKeeps ==
  ASSUME TypeInv, Resting
  PROVE  /\ UNCHANGED <<runs, local, deaths>> /\ task'.status = task.status
         /\ task'.used = task.used /\ task'.stop = task.stop
<1>1. task \in TaskRow
  BY DEF TypeInv, TypeOK, TaskRow
<1> QED
  BY <1>1 DEF Resting, Quit, DeadlinePasses, Orphaned, TaskRow, vars

\* What p does: everything but the steps above.
Acts(p) ==
  \/ User(p) \/ Work(p) \/ Interrupt(p) \/ Die(p)
  \/ \E approved \in BOOLEAN : Confirm(p, approved)

\* A step is one of the two.
LEMMA ActsOrRests ==
  ASSUME [Next]_vars
  PROVE  Resting \/ \E p \in Procs : Acts(p)
BY DEF Next, Resting, Acts

\* Where they are, while processes take turns.
LEMMA TurnsInvHolds == ASSUME ~Overlap PROVE Spec => []TurnsInv
<1>1. Init => TurnsInv
  BY DEF Init, TurnsInv, Alone, TaskAs, WindowAs, At, Idle, NewTask, WindingUp, ToBudgetPause
<1>2. TypeInv /\ TurnsInv /\ [Next]_vars => TurnsInv'
  <2> SUFFICES ASSUME TypeInv, TurnsInv, [Next]_vars PROVE TurnsInv'
    OBVIOUS
  <2>1. ASSUME NEW p \in Procs, Acts(p) PROVE TurnsInv'
    BY <2>1, UserTurns, EntryTurns, TurnTurns, CheckpointTurns, EndTurns, CloseTurns, FailTurns,
       EndsTurns DEF Acts, Work
  <2>2. CASE Resting
    BY <2>2, RestingKeeps, IdleTurns
  <2> QED
    BY <2>1, <2>2, ActsOrRests
<1> QED
  BY <1>1, <1>2, TypeInvHolds, PTL DEF Spec

-----------------------------------------------------------------------------
(* What a step may not do. *)

\* What else a process does to a paused task leaves it paused, or fails it.
LEMMA PausedStays ==
  ASSUME TypeInv, NEW p \in Procs, Acts(p), task.status = "paused",
         ~(Resume(p) \/ Cancel(p) \/ HandOff(p) \/ Interrupt(p)),
         ~\E approved \in BOOLEAN : Confirm(p, approved)
  PROVE  task'.status \in {"paused", "failed"}
<1>1. task \in TaskRow
  BY Here
<1>2. Failed(task).status = "failed" /\ Orphaned(p).status = task.status
  BY <1>1 DEF Failed, Orphaned, TaskRow, Terminal
<1>3. \A to : Permits(task, to) => to \in {"running", "cancelled", "handed_off"}
  BY DEF Permits, AllowedMoves, Terminal
<1>4. CASE User(p)
  <2>1. \/ Start(p) \/ Message(p) \/ ExpireDue(p) \/ Expire(p) \/ Pause(p)
        \/ \E approved \in BOOLEAN : Decide(p, approved)
    BY <1>4 DEF User
  <2> QED
    BY <1>3, <2>1 DEF Start, Message, TakesMessage, ExpireDue, Due, Expire, Pause, Decide
<1>5. CASE Work(p)
  <2>1. CASE Settle(p)
    <3>1. CASE local[p].stop = "rounds" \/ local[p].stop = "answer"
      BY <1>3, <2>1, <3>1 DEF Settle, Settled, Call
    <3>2. CASE local[p].stop # "rounds" /\ local[p].stop # "answer"
      BY <1>2, <2>1, <3>2 DEF Settle, Settled, Call
    <3> QED
      BY <3>1, <3>2
  <2>2. ASSUME NEW kind \in AskKinds, Ask(p, kind) PROVE UNCHANGED task
    BY <1>3, <2>2 DEF Ask, Call
  <2>3. CASE Charge(p)
    <3>1. [task EXCEPT !.used = @ + 1].status = task.status
      BY <1>1 DEF TaskRow
    <3> QED
      BY <2>3, <3>1 DEF Charge, Call
  <2>4. CASE \/ FindWindow(p) \/ Enter(p) \/ Open(p) \/ FirstCheckpoint(p) \/ CheckBlockers(p)
             \/ Model(p) \/ CountRead(p) \/ CountWrite(p) \/ Ready(p) \/ CallTool(p) \/ Observe(p)
             \/ GiveUp(p) \/ After(p) \/ AddTime(p) \/ LoseTrace(p) \/ Close(p)
             \/ LastCheckpoint(p) \/ Fail(p)
    BY <1>2, <2>4 DEF FindWindow, Enter, Open, FirstCheckpoint, CheckBlockers, Model, CountRead,
       CountWrite, Ready, CallTool, Observe, GiveUp, After, AddTime, LoseTrace, Close,
       LastCheckpoint, Fail, Call
  <2> QED
    BY <1>5, <2>1, <2>2, <2>3, <2>4 DEF Work
<1>6. CASE Die(p)
  BY <1>2, <1>6 DEF Die
<1> QED
  BY <1>4, <1>5, <1>6 DEF Acts

\* However many processes drive it, a task that was paused under a turn is not completed or
\* gone on with by that turn, and no message moves it: a user resumes or cancels it, hands it
\* off, presses Ctrl-C or answers what was asked before, or the turn's end fails it.
THEOREM PausesHold == Spec => PauseHolds
<1>1. TypeInv /\ [Next]_vars =>
        [task.status = "paused" /\ task'.status # "paused" =>
           \/ task'.status = "failed"
           \/ \E p \in Procs : \/ Resume(p) \/ Cancel(p) \/ HandOff(p) \/ Interrupt(p)
                              \/ \E approved \in BOOLEAN : Confirm(p, approved)]_vars
  <2> SUFFICES ASSUME TypeInv, [Next]_vars, task.status = "paused",
                      task'.status \notin {"paused", "failed"}
               PROVE  \E p \in Procs : \/ Resume(p) \/ Cancel(p) \/ HandOff(p) \/ Interrupt(p)
                                       \/ \E approved \in BOOLEAN : Confirm(p, approved)
    OBVIOUS
  <2>1. ~Resting
    BY RestingKeeps
  <2> QED
    BY <2>1, ActsOrRests, PausedStays
<1> QED
  BY <1>1, TypeInvHolds, PTL DEF Spec, PauseHolds

\* A process that comes to rest leaves no task running, but for what StaysDriven names.
LEMMA RestsLast ==
  ASSUME ~Overlap, TypeInv, TurnsInv, NEW p \in Procs, Acts(p), ~Die(p), At(p, "idle")'
  PROVE  task'.status # "running" \/ task.ask.kind = "shell"
<1>1. task \in TaskRow
  BY Here
<1>2. /\ Failed(task).status \in Terminal /\ \A st : Closed(task, st).status = st
  BY <1>1, Statuses3
<1>3. local'[p].pc = "idle"
  BY DEF At
<1>4. CASE User(p)
  <2>1. ASSUME NEW new, NEW pc \in {"entering", "charging", "finding", "calling", "refusing"},
               Command(p, new, [Idle EXCEPT !.pc = pc])
        PROVE  FALSE
    <3>1. [Idle EXCEPT !.pc = pc].pc = pc
      BY DEF Idle
    <3>2. local'[p] = [Idle EXCEPT !.pc = pc]
      BY <2>1 DEF Command, Goto, TypeInv, TypeOK
    <3> QED
      BY <1>3, <3>1, <3>2
  <2>2. ~Start(p) /\ ~Message(p) /\ ~Pause(p)
    BY <2>1 DEF Start, Message, Pause, Entering
  <2>3. CASE ExpireDue(p) \/ Expire(p) \/ Cancel(p) \/ HandOff(p)
    BY <1>2, <2>3 DEF ExpireDue, Expire, Cancel, HandOff, Command
  <2>4. CASE Resume(p)
    <3>1. Command(p, Failed(task), Idle)
      BY <2>1, <2>4 DEF Resume, Entering
    <3> QED
      BY <1>2, <3>1 DEF Command, Terminal
  <2>5. ASSUME NEW approved \in BOOLEAN, Decide(p, approved) PROVE task.ask.kind = "shell"
    <3>1. CASE Foreign(p)
      BY <3>1 DEF Foreign
    <3>2. CASE ~Foreign(p)
      <4>1. \/ Command(p, Released(task), Entering)
            \/ Command(p, Released(task), [Idle EXCEPT !.pc = IF approved THEN "calling" ELSE "refusing"])
        BY <2>5, <3>2 DEF Decide
      <4> QED
        BY <2>1, <4>1 DEF Entering
    <3> QED
      BY <3>1, <3>2
  <2> QED
    BY <1>4, <2>2, <2>3, <2>4, <2>5 DEF User
<1>5. CASE ~User(p)
  <2>1. ~At(p, "idle")
    BY <1>5 DEF Acts, Work, Interrupt, Confirm, Charge, FindWindow, Enter, Open, FirstCheckpoint,
                CheckBlockers, Model, CountRead, CountWrite, Ready, CallTool, Observe, GiveUp, Ask,
                After, AddTime, LoseTrace, Settle, Close, LastCheckpoint, Fail, At
  <2>2. /\ ~Contended(p) /\ TaskAs(p) /\ local[p] \in Local /\ Placed(local[p], runs)
    BY <2>1, AtWork
  <2>3. \A pc : [local[p] EXCEPT !.pc = pc].pc = pc
    BY <2>2 DEF Local
  <2>4. ASSUME NEW pc, Step(p, pc), pc # "idle" PROVE FALSE
    BY <1>3, <2>3, <2>4 DEF Step, Goto, TypeInv, TypeOK
  <2>5. ASSUME NEW l, Goto(p, l), l.pc # "idle" PROVE FALSE
    BY <1>3, <2>5 DEF Goto, TypeInv, TypeOK
  <2>6. \A stop : Finalize(p, stop).pc = "timing"
    BY <2>2 DEF Finalize, Local
  <2>7. ASSUME Goto(p, Thrown(p)) PROVE local[p].run = 0
    <3>1. [local[p] EXCEPT !.pc = "failing"].pc = "failing"
      BY <2>2 DEF Local
    <3> QED
      BY <2>5, <2>7, <3>1 DEF Thrown
  <2>8. local[p].pc \in InTurn \cup WindingUp => local[p].run # 0
    BY <2>2 DEF Placed
  <2>9. CASE Charge(p)
    <3>1. task.status = "running" /\ task.used < MaxContinuations
      BY <2>2, <2>9 DEF Charge, TaskAs, At
    <3>2. Goto(p, Entering)
      BY <2>2, <2>4, <2>9, <3>1 DEF Charge, Call, Mutable, Terminal
    <3>3. Entering.pc = "entering"
      BY DEF Entering, Idle
    <3> QED
      BY <2>5, <3>2, <3>3
  <2>10. CASE FindWindow(p)
    BY <2>2, <2>10 DEF FindWindow, TaskAs, At
  <2>11. CASE Enter(p)
    BY <2>4, <2>11 DEF Enter
  <2>12. CASE Open(p) \/ FirstCheckpoint(p) \/ CountRead(p) \/ CountWrite(p)
    <3>1. \A n : [local[p] EXCEPT !.pc = "opened", !.run = n].pc = "opened"
      BY <2>2 DEF Local
    <3>2. \A st : [local[p] EXCEPT !.pc = "counted", !.saved = st].pc = "counted"
      BY <2>2 DEF Local
    <3>3. [local[p] EXCEPT !.pc = "ready", !.saved = None].pc = "ready"
      BY <2>2 DEF Local
    <3> QED
      BY <2>4, <2>5, <2>12, <3>1, <3>2, <3>3 DEF Open, FirstCheckpoint, CountRead, CountWrite
  <2>13. CASE CheckBlockers(p) \/ LoseTrace(p)
    BY <1>2, <2>2, <2>4, <2>13 DEF CheckBlockers, LoseTrace, Terminal
  <2>14. CASE Model(p)
    <3>1. \A l \in Replies(p) : l.pc # "idle"
      BY <2>2, <2>6 DEF Replies, Local
    <3> QED
      BY <2>5, <2>6, <2>7, <2>8, <2>14, <3>1 DEF Model, Call, At, InTurn
  <2>15. CASE Ready(p)
    BY <2>4, <2>5, <2>6, <2>15 DEF Ready
  <2>16. CASE CallTool(p)
    BY <2>2, <2>4, <2>16 DEF CallTool, Call, Step, Mutable, Terminal
  <2>17. CASE Observe(p)
    <3>1. Entering.pc = "entering"
      BY DEF Entering, Idle
    <3> QED
      BY <2>2, <2>4, <2>5, <2>17, <3>1 DEF Observe, Call, Step, Mutable, Terminal
  <2>18. CASE GiveUp(p)
    BY <2>4, <2>7, <2>8, <2>18 DEF GiveUp, Call, Step, At, InTurn
  <2>19. ASSUME NEW kind \in AskKinds, Ask(p, kind) PROVE FALSE
    <3>1. \/ Step(p, IF kind # "question" /\ p \in Attended THEN "confirming" ELSE "after")
          \/ Goto(p, Thrown(p))
      BY <2>19 DEF Ask, Call, Step
    <3> QED
      BY <2>4, <2>7, <2>8, <2>19, <3>1 DEF Ask, At, InTurn
  <2>20. ASSUME NEW approved \in BOOLEAN, Confirm(p, approved) PROVE FALSE
    <3>1. Step(p, IF approved THEN "calling" ELSE "refusing") \/ Goto(p, Thrown(p))
      BY <2>20 DEF Confirm, Call, Step
    <3> QED
      BY <2>4, <2>7, <2>8, <2>20, <3>1 DEF Confirm, At, InTurn
  <2>21. CASE After(p)
    <3>1. \/ \E stop \in {"waiting", "error", "answer"} : Goto(p, Finalize(p, stop))
          \/ Step(p, "model") \/ Goto(p, Thrown(p))
      BY <2>21 DEF After
    <3> QED
      BY <2>4, <2>5, <2>6, <2>7, <2>8, <2>21, <3>1 DEF After, At, InTurn
  <2>22. CASE AddTime(p)
    <3>1. \A pc \in {"settling", "losing"} : [local[p] EXCEPT !.pc = pc, !.seen = task.status].pc = pc
      BY <2>2 DEF Local
    <3> QED
      BY <2>5, <2>7, <2>8, <2>22, <3>1 DEF AddTime, At, InTurn
  <2>23. CASE Settle(p)
    <3>1. \A st : [local[p] EXCEPT !.pc = "closing", !.seen = st].pc = "closing"
      BY <2>2 DEF Local
    <3> QED
      BY <2>4, <2>5, <2>7, <2>8, <2>23, <3>1 DEF Settle, Call, At, InTurn
  <2>24. CASE Close(p)
    BY <2>4, <2>24 DEF Close
  <2>25. CASE LastCheckpoint(p)
    BY <2>2, <2>25 DEF LastCheckpoint, TaskAs, At, WindingUp
  <2>26. CASE Fail(p)
    BY <1>2, <2>2, <2>26 DEF Fail, Terminal
  <2>27. CASE Interrupt(p)
    <3>1. ~Permits(task, "cancelled") => task.status # "running"
      BY DEF Permits, AllowedMoves, Terminal
    <3> QED
      BY <1>2, <2>2, <2>27, <3>1 DEF Interrupt
  <2> QED
    BY <1>5, <2>9, <2>10, <2>11, <2>12, <2>13, <2>14, <2>15, <2>16, <2>17, <2>18, <2>19, <2>20,
       <2>21, <2>22, <2>23, <2>24, <2>25, <2>26, <2>27 DEF Acts, Work
<1> QED
  BY <1>4, <1>5

\* While processes take turns, and unless one dies, a running task is left by the one that
\* drives it only when it decides on a shell command that another one asked for.
THEOREM TaskStaysDriven == ASSUME ~Overlap PROVE Spec => StaysDriven
<1>1. TypeInv /\ TurnsInv /\ [Next]_vars =>
        [deaths' = 0 /\ Driven /\ ~Driven' => task.ask.kind = "shell"]_vars
  <2> SUFFICES ASSUME TypeInv, TurnsInv, [Next]_vars, deaths' = 0, Driven, ~Driven'
               PROVE  task.ask.kind = "shell"
    OBVIOUS
  <2>1. task'.status = "running" /\ \A p \in Procs : At(p, "idle")'
    BY DEF Driven, At
  <2>2. ~Resting
    BY <2>1, RestingKeeps DEF Driven, At
  <2>3. PICK p \in Procs : Acts(p)
    BY <2>2, ActsOrRests
  <2>4. ~Die(p)
    BY Here DEF Die
  <2> QED
    BY <2>1, <2>3, <2>4, RestsLast
<1> QED
  BY <1>1, TypeInvHolds, TurnsInvHolds, PTL DEF Spec, StaysDriven

-----------------------------------------------------------------------------
(* What a step does to the windows. *)

\* Nothing: or what p writes into its window leaves the status, and p stays in it, unless
\* Ctrl-C takes p out of one that is closed.
Untouched(p) ==
  /\ DOMAIN runs' = DOMAIN runs
  /\ \A i \in DOMAIN runs :
       runs'[i].status = runs[i].status /\ (local[p].run # i => runs'[i] = runs[i])
  /\ local[p].run # 0 /\ Window(p).status # "running" =>
       local'[p].run = local[p].run \/ runs'[local[p].run].left = "interrupt"

\* So do all steps of a process that does not die, but Open, Close and LastCheckpoint.
LEMMA TouchesLittle ==
  ASSUME ~Overlap, TypeInv, TurnsInv, NEW p \in Procs, Acts(p),
         ~Open(p), ~Close(p), ~LastCheckpoint(p), ~Die(p)
  PROVE  Untouched(p)
<1>1. local[p] \in Local /\ Placed(local[p], runs) /\ WindowAs(p)
  BY Here DEF TurnsInv
<1>2. local[p].run # 0 => local[p].run \in DOMAIN runs /\ Window(p) \in WindowRow
  BY <1>1, Here DEF Placed
<1>3. Interrupt(p) \/ (~At(p, "recording") /\ ~At(p, "closing"))
  <2>1. ASSUME ~Interrupt(p)
        PROVE  local[p].pc \notin {"recording", "closing"}
    <3>1. CASE User(p)
      BY <3>1 DEF User, Command, Start, Message, ExpireDue, Expire, Pause, Resume, Cancel, HandOff,
         Decide, At
    <3>2. CASE Work(p)
      BY <3>2 DEF Work, Charge, FindWindow, Enter, FirstCheckpoint, CheckBlockers,
         Model, CountRead, CountWrite, Ready, CallTool, Observe, GiveUp, Ask, After, AddTime,
         LoseTrace, Settle, Fail, At
    <3>3. CASE \E approved \in BOOLEAN : Confirm(p, approved)
      BY <3>3 DEF Confirm, At
    <3> QED
      BY <2>1, <3>1, <3>2, <3>3 DEF Acts
  <2> QED
    BY <2>1 DEF At
<1>4. local[p].run # 0 => Window(p).status = "running" \/ Interrupt(p)
  BY <1>1, <1>3 DEF WindowAs, Interrupted
<1>5. CASE runs' = runs /\ (local'[p].run = local[p].run \/ local[p].run = 0 \/ ~Interrupt(p))
  BY <1>4, <1>5 DEF Untouched
<1>6. ASSUME NEW w, w.status = Window(p).status, local[p].run # 0, SetWindow(p, w),
             ~Interrupt(p) \/ w.left = "interrupt"
      PROVE  Untouched(p)
  BY <1>2, <1>4, <1>6 DEF Untouched, SetWindow, Window
<1>7. ASSUME NEW why, Walk(p, why), ~Interrupt(p) \/ why = "interrupt" PROVE Untouched(p)
  <2>1. CASE local[p].run # 0
    <3> DEFINE w == [Window(p) EXCEPT !.left = why]
    <3>1. w.status = Window(p).status /\ SetWindow(p, w) /\ w.left = why
      BY <1>2, <1>7, <2>1 DEF Walk, SetWindow, Window, WindowRow
    <3> HIDE DEF w
    <3> QED
      BY <1>6, <1>7, <2>1, <3>1
  <2> QED
    BY <1>5, <1>7, <2>1 DEF Walk
<1>8. CASE /\ \E mark : SetWindow(p, [Window(p) EXCEPT !.mark = mark]) /\ local[p].run # 0
           /\ ~Interrupt(p)
  <2> PICK mark : SetWindow(p, [Window(p) EXCEPT !.mark = mark]) /\ local[p].run # 0
    BY <1>8
  <2>1. [Window(p) EXCEPT !.mark = mark].status = Window(p).status
    BY <1>2 DEF WindowRow
  <2> QED
    BY <1>6, <1>8, <2>1
<1>9. CASE CountWrite(p) /\ ~Interrupt(p)
  <2>1. local[p].run # 0 /\ local[p].saved = "running"
    BY <1>1, <1>9 DEF CountWrite, At, Placed, InTurn, WindowAs
  <2>2. Counted(p).status = Window(p).status
    BY <1>2, <1>4, <1>9, <2>1 DEF Counted, WindowRow
  <2> QED
    BY <1>6, <1>9, <2>1, <2>2 DEF CountWrite
<1>10. local[p].pc \in {"opened", "ready", "after"} => local[p].run # 0
  BY <1>1 DEF Placed, InTurn
<1>11. CASE Interrupt(p)
  <2>1. CASE Walk(p, "interrupt")
    BY <1>7, <2>1
  <2>2. CASE runs' = runs /\ Goto(p, [local[p] EXCEPT !.pc = "closing", !.stop = "interrupt"])
    <3>1. local'[p].run = local[p].run
      BY <1>1, <2>2 DEF Goto, Local, TypeInv, TypeOK
    <3> QED
      BY <1>5, <2>2, <3>1
  <2>3. CASE runs' = runs /\ local[p].run = 0
    BY <1>5, <2>3
  <2> QED
    BY <1>11, <2>1, <2>2, <2>3 DEF Interrupt
<1>12. CASE ~Interrupt(p)
  <2>1. CASE User(p)
    BY <1>5, <1>12, <2>1 DEF User, Command, Start, Message, ExpireDue, Expire, Pause, Resume, Cancel,
           HandOff, Decide
  <2>2. CASE FirstCheckpoint(p) \/ Ready(p) \/ After(p)
    BY <1>5, <1>8, <1>10, <1>12, <2>2 DEF FirstCheckpoint, Ready, After, At
  <2>3. CASE CheckBlockers(p) \/ LoseTrace(p)
    BY <1>5, <1>7, <1>12, <2>3 DEF CheckBlockers, LoseTrace
  <2>4. CASE \/ Charge(p) \/ FindWindow(p) \/ Enter(p) \/ Model(p) \/ CountRead(p) \/ CallTool(p)
             \/ Observe(p) \/ GiveUp(p) \/ AddTime(p) \/ Settle(p) \/ Fail(p)
             \/ \E kind \in AskKinds : Ask(p, kind)
             \/ \E approved \in BOOLEAN : Confirm(p, approved)
    BY <1>5, <1>12, <2>4 DEF Charge, FindWindow, Enter, Model, CountRead, CallTool, Observe, GiveUp,
           AddTime, Settle, Fail, Ask, Confirm
  <2> QED
    BY <1>9, <1>12, <2>1, <2>2, <2>3, <2>4 DEF Acts, Work
<1> QED
  BY <1>11, <1>12

\* A step of p leaves the other processes where they are.
LEMMA OneGoes ==
  ASSUME TypeInv, NEW p \in Procs, Acts(p)
  PROVE  \A q \in Procs : q # p => local'[q] = local[q]
<1>1. \E l : Goto(p, l)
  BY DEF Acts, User, Command, Start, Message, ExpireDue, Expire, Pause, Resume, Cancel, HandOff,
         Decide, Work, Interrupt, Confirm, Charge, FindWindow, Enter, Open, FirstCheckpoint,
         CheckBlockers, Model, CountRead, CountWrite, Ready, CallTool, Observe, GiveUp, Ask, After,
         AddTime, LoseTrace, Settle, Close, LastCheckpoint, Fail, Die, Walk, Step, Call
<1> QED
  BY <1>1 DEF Goto, TypeInv, TypeOK

\* The processes but p are idle, and p moves.
LEMMA OneMoves ==
  ASSUME ~Overlap, TypeInv, TurnsInv, NEW p \in Procs, Acts(p)
  PROVE  \A q \in Procs : q # p => local[q].run = 0 /\ local'[q] = local[q] /\ At(q, "idle")
<1>1. \A q \in Procs : q # p => local'[q] = local[q]
  BY OneGoes
<1>2. ~Contended(p)
  <2>1. ~At(p, "idle") \/ User(p)
    BY DEF Acts, Work, Interrupt, Die, Confirm, Charge, FindWindow, Enter, Open, FirstCheckpoint,
           CheckBlockers, Model, CountRead, CountWrite, Ready, CallTool, Observe, GiveUp, Ask, After,
           AddTime, LoseTrace, Settle, Close, LastCheckpoint, Fail, At
  <2>2. User(p) => \E new, l : Command(p, new, l)
    BY DEF User, Start, Message, ExpireDue, Expire, Pause, Resume, Cancel, HandOff, Decide
  <2> QED
    BY <2>1, <2>2, NotContended DEF TurnsInv
<1>3. \A q \in Procs : Placed(local[q], runs)
  BY DEF TypeInv
<1> QED
  BY <1>1, <1>2, <1>3 DEF Contended, At, Placed, Before

\* Nobody has died, nor does.
LEMMA NoneDied ==
  ASSUME TypeInv, NEW p \in Procs, Acts(p), deaths' = 0
  PROVE  deaths = 0 /\ ~Die(p)
<1>1. deaths \in Nat
  BY Here, LimitsAssumption
<1>2. ~Die(p)
  BY <1>1 DEF Die
<1>3. UNCHANGED deaths
  BY <1>2 DEF Acts, User, Command, Start, Message, ExpireDue, Expire, Pause, Resume, Cancel, HandOff,
         Decide, Work, Interrupt, Confirm, Charge, FindWindow, Enter, Open, FirstCheckpoint,
         CheckBlockers, Model, CountRead, CountWrite, Ready, CallTool, Observe, GiveUp, Ask, After,
         AddTime, LoseTrace, Settle, Close, LastCheckpoint, Fail
<1> QED
  BY <1>2, <1>3

\* A new window is the last, and it is open.
LEMMA OpensOne ==
  ASSUME TypeInv, NEW p \in Procs, Open(p)
  PROVE  /\ \A i \in DOMAIN runs : i \in DOMAIN runs' /\ runs'[i] = runs[i]
         /\ \A i \in DOMAIN runs' : i \in DOMAIN runs \/ runs'[i].status = "running"
         /\ local[p].run = 0
<1>1. runs \in Seq(WindowRow) /\ Len(runs) \in Nat /\ DOMAIN runs = 1 .. Len(runs)
  BY LenProperties DEF TypeInv
<1>2. NewWindow \in WindowRow /\ NewWindow.status = "running"
  BY LimitsAssumption DEF NewWindow, WindowRow
<1>3. /\ runs' \in Seq(WindowRow) /\ Len(runs') = Len(runs) + 1
      /\ runs'[Len(runs) + 1] = NewWindow /\ \A i \in 1 .. Len(runs) : runs'[i] = runs[i]
  BY <1>1, <1>2, AppendProperties DEF Open
<1>4. DOMAIN runs' = 1 .. Len(runs) + 1
  BY <1>3, LenProperties
<1>5. local[p].run = 0
  BY Here DEF Open, At, Placed, Before
<1> QED
  BY <1>1, <1>2, <1>3, <1>4, <1>5

\* A window is closed, or its last checkpoint written, by the one in it.
LEMMA ClosesOne ==
  ASSUME ~Overlap, TypeInv, TurnsInv, NEW p \in Procs, Close(p) \/ LastCheckpoint(p)
  PROVE  LET r == local[p].run IN
         /\ r \in DOMAIN runs /\ DOMAIN runs' = DOMAIN runs
         /\ \A i \in DOMAIN runs : i # r => runs'[i] = runs[i]
         /\ Close(p) => runs'[r].status = LastStatus(p) /\ local'[p].run = r
         /\ LastCheckpoint(p) => /\ runs'[r].status = Window(p).status
                                 /\ runs'[r].mark = Window(p).status
<1>1. ~At(p, "idle") /\ local[p].pc \in WindingUp
  BY DEF Close, LastCheckpoint, At, WindingUp
<1>2. local[p].run # 0 /\ local[p].run \in DOMAIN runs /\ Window(p) \in WindowRow /\ WindowAs(p)
      /\ local[p] \in Local
  BY <1>1, AtWork DEF Placed
<1>3. CASE Close(p)
  <2>1. [local[p] EXCEPT !.pc = "recording"].run = local[p].run
    BY <1>2 DEF Local
  <2>2. local'[p].run = local[p].run
    BY <1>3, <2>1 DEF Close, Step, Goto, TypeInv, TypeOK
  <2>3. [Window(p) EXCEPT !.status = LastStatus(p)].status = LastStatus(p)
    BY <1>2 DEF WindowRow
  <2> QED
    BY <1>2, <1>3, <2>2, <2>3 DEF Close, LastCheckpoint, SetWindow, At
<1>4. CASE LastCheckpoint(p)
  <2> DEFINE w == [Window(p) EXCEPT !.mark = LastStatus(p)]
  <2>1. w.status = Window(p).status /\ w.mark = LastStatus(p) /\ SetWindow(p, w)
    BY <1>2, <1>4 DEF WindowRow, LastCheckpoint
  <2>2. Window(p).status = LastStatus(p)
    BY <1>2, <1>4 DEF LastCheckpoint, WindowAs, Interrupted, At
  <2> HIDE DEF w
  <2> QED
    BY <1>2, <1>4, <2>1, <2>2 DEF Close, LastCheckpoint, SetWindow, At
<1> QED
  BY <1>3, <1>4

\* While processes take turns, and unless one dies or Ctrl-C cuts the end of a turn short,
\* the last checkpoint of a window that was closed says how: the next turn resumes from what
\* the window ended with.
THEOREM CheckpointsAgree == ASSUME ~Overlap PROVE Spec => []LastCheckpointAgrees
<1>1. Init => LastCheckpointAgrees
  BY DEF Init, LastCheckpointAgrees
<1>2. TypeInv /\ Manned /\ TurnsInv /\ LastCheckpointAgrees /\ [Next]_vars => LastCheckpointAgrees'
  <2> SUFFICES ASSUME TypeInv, Manned, TurnsInv, LastCheckpointAgrees, [Next]_vars, deaths' = 0,
                      NEW i \in DOMAIN runs', runs'[i].status # "running", ~In(i)',
                      runs'[i].left # "interrupt"
               PROVE  runs'[i].mark = runs'[i].status
    BY DEF LastCheckpointAgrees
  <2>1. CASE Resting
    BY <2>1, RestingKeeps DEF LastCheckpointAgrees, In
  <2>2. ASSUME NEW p \in Procs, Acts(p) PROVE runs'[i].mark = runs'[i].status
    <3>1. deaths = 0 /\ ~Die(p)
      BY <2>2, NoneDied
    <3>2. \A q \in Procs : q # p => local[q].run = 0
      BY <2>2, OneMoves
    <3>3. local'[p].run # i
      BY DEF In
    <3>4. i # 0
      <4>1. runs' \in Seq(WindowRow)
        BY TypeInvKept DEF TypeInv
      <4> QED
        BY <4>1, LenProperties
    <3>5. CASE i \in DOMAIN runs /\ runs'[i] = runs[i] /\ local[p].run # i
      BY <3>1, <3>2, <3>4, <3>5 DEF LastCheckpointAgrees, In
    <3>6. CASE Open(p)
      BY <3>4, <3>5, <3>6, OpensOne
    <3>7. CASE Close(p) \/ LastCheckpoint(p)
      BY <3>3, <3>5, <3>7, ClosesOne
    <3>8. CASE ~Open(p) /\ ~Close(p) /\ ~LastCheckpoint(p)
      <4>1. Untouched(p)
        BY <2>2, <3>1, <3>8, TouchesLittle
      <4>2. CASE local[p].run # i
        BY <3>5, <4>1, <4>2 DEF Untouched
      <4>3. CASE local[p].run = i
        BY <3>3, <3>4, <4>1, <4>3 DEF Untouched, Window
      <4> QED
        BY <4>2, <4>3
    <3> QED
      BY <3>6, <3>7, <3>8
  <2> QED
    BY <2>1, <2>2, ActsOrRests
<1> QED
  BY <1>1, <1>2, TypeInvHolds, TurnsInvHolds, PTL DEF Spec

-----------------------------------------------------------------------------
(* Windows that ended for want of rounds, and the continuations that pay for them. *)

\* A task that has ended stays so.
LEMMA EndedStays ==
  ASSUME TypeInv, NEW p \in Procs, Acts(p), task.status \in Terminal
  PROVE  task'.status \in Terminal
<1>1. task \in TaskRow /\ ~Mutable(task)
  BY Here DEF Mutable
<1>2. Failed(task) = task /\ (\A st : Closed(task, st).status = st) /\ Orphaned(p).status = task.status
  BY <1>1, Statuses3 DEF Failed, Orphaned, TaskRow
<1>3. \A to : Permits(task, to) => to = "handed_off"
  BY DEF Permits, AllowedMoves, Terminal
<1>4. CASE User(p)
  BY <1>2, <1>3, <1>4 DEF User, Command, Start, Message, TakesMessage, ExpireDue, Due, Expire, Pause,
     Resume, Cancel, HandOff, Decide, Terminal
<1>5. CASE Work(p)
  <2>1. CASE Settle(p)
    <3>1. CASE local[p].stop = "rounds" \/ local[p].stop = "answer"
      BY <1>3, <2>1, <3>1 DEF Settle, Settled, Call
    <3>2. CASE local[p].stop # "rounds" /\ local[p].stop # "answer"
      BY <1>2, <2>1, <3>2 DEF Settle, Settled, Call
    <3> QED
      BY <3>1, <3>2
  <2>2. CASE ~Settle(p)
    BY <1>1, <1>2, <1>3, <1>5, <2>2 DEF Work, Charge, FindWindow, Enter, Open, FirstCheckpoint,
       CheckBlockers, Model, CountRead, CountWrite, Ready, CallTool, Observe, GiveUp, Ask, After,
       AddTime, LoseTrace, Close, LastCheckpoint, Fail, Call
  <2> QED
    BY <2>1, <2>2
<1>6. CASE Interrupt(p) \/ Die(p) \/ \E approved \in BOOLEAN : Confirm(p, approved)
  BY <1>2, <1>3, <1>6 DEF Interrupt, Die, Confirm, Call
<1> QED
  BY <1>4, <1>5, <1>6 DEF Acts

\* Where the closing of a window begins.
LEMMA ToClosing ==
  ASSUME TypeInv, NEW p \in Procs, Acts(p), At(p, "closing")'
  PROVE  FindWindow(p) \/ Settle(p) \/ Fail(p) \/ Interrupt(p)
<1>1. local[p] \in Local /\ (\A l : Goto(p, l) => local'[p] = l)
  BY Here DEF Goto, TypeInv, TypeOK
<1>2. ASSUME NEW l, Goto(p, l) PROVE l.pc = "closing"
  BY <1>1, <1>2 DEF At
<1>3. \A pc : [local[p] EXCEPT !.pc = pc].pc = pc
  BY <1>1 DEF Local
<1>4. ASSUME NEW pc, Step(p, pc) PROVE pc = "closing"
  BY <1>2, <1>3, <1>4 DEF Step
<1>5. Idle.pc = "idle" /\ Entering.pc = "entering" /\ \A stop : Finalize(p, stop).pc = "timing"
  BY <1>1 DEF Idle, Entering, Finalize, Local
<1>6. Thrown(p).pc \in {"idle", "failing"}
  BY <1>3, <1>5 DEF Thrown
<1>7. ~User(p)
  <2>1. \A pc : [Idle EXCEPT !.pc = pc].pc = pc
    BY DEF Idle
  <2> DEFINE pc == [approved \in BOOLEAN |-> IF approved THEN "calling" ELSE "refusing"]
  <2>2. \A approved \in BOOLEAN :
          Decide(p, approved) => \/ Goto(p, Idle) \/ Goto(p, Entering)
                                 \/ Goto(p, [Idle EXCEPT !.pc = pc[approved]])
    BY DEF Decide, Command
  <2>3. \A approved \in BOOLEAN : pc[approved] # "closing"
    OBVIOUS
  <2> HIDE DEF pc
  <2>4. \A approved \in BOOLEAN : ~Decide(p, approved)
    BY <1>2, <1>5, <2>1, <2>2, <2>3
  <2> QED
    BY <1>2, <1>5, <2>1, <2>4 DEF User, Command, Start, Message, ExpireDue, Expire, Pause, Resume,
       Cancel, HandOff
<1>8. CASE Open(p) \/ FirstCheckpoint(p) \/ CountRead(p) \/ CountWrite(p)
  <2>1. /\ \A n : [local[p] EXCEPT !.pc = "opened", !.run = n].pc = "opened"
        /\ \A st : [local[p] EXCEPT !.pc = "counted", !.saved = st].pc = "counted"
        /\ [local[p] EXCEPT !.pc = "ready", !.saved = None].pc = "ready"
    BY <1>1 DEF Local
  <2> QED
    BY <1>2, <1>4, <1>8, <2>1 DEF Open, FirstCheckpoint, CountRead, CountWrite
<1>9. CASE Charge(p) \/ Enter(p) \/ CheckBlockers(p) \/ LoseTrace(p)
  BY <1>2, <1>4, <1>5, <1>6, <1>9 DEF Charge, Enter, CheckBlockers, LoseTrace, Walk, Call
<1>10. CASE Model(p) \/ Ready(p) \/ After(p)
  <2>1. \A l \in Replies(p) : l.pc # "closing"
    BY <1>3, <1>5 DEF Replies
  <2> QED
    BY <1>2, <1>4, <1>5, <1>6, <1>10, <2>1 DEF Model, Ready, After, Call
<1>11. CASE CallTool(p) \/ Observe(p) \/ GiveUp(p)
  BY <1>2, <1>3, <1>5, <1>6, <1>11 DEF CallTool, Observe, GiveUp, Call
<1>12. ASSUME NEW kind \in AskKinds, Ask(p, kind) PROVE FALSE
  <2>1. Step(p, IF kind # "question" /\ p \in Attended THEN "confirming" ELSE "after") \/ Goto(p, Thrown(p))
    BY <1>12 DEF Ask, Call, Step
  <2> QED
    BY <1>2, <1>4, <1>6, <2>1
<1>13. ASSUME NEW approved \in BOOLEAN, Confirm(p, approved) PROVE FALSE
  <2>1. Step(p, IF approved THEN "calling" ELSE "refusing") \/ Goto(p, Thrown(p))
    BY <1>13 DEF Confirm, Call, Step
  <2> QED
    BY <1>2, <1>4, <1>6, <2>1
<1>14. CASE AddTime(p)
  <2>1. \A pc : [local[p] EXCEPT !.pc = pc, !.seen = task.status].pc = pc
    BY <1>1 DEF Local
  <2> QED
    BY <1>2, <1>6, <1>14, <2>1 DEF AddTime
<1>15. CASE Close(p) \/ LastCheckpoint(p) \/ Die(p)
  BY <1>2, <1>4, <1>5, <1>15 DEF Close, LastCheckpoint, Die, Walk
<1> QED
  BY <1>7, <1>8, <1>9, <1>10, <1>11, <1>12, <1>13, <1>14, <1>15 DEF Acts, Work

\* A window is about to end for want of rounds when its turn settles, with the task running.
LEMMA ToPause ==
  ASSUME ~Overlap, TypeInv, TurnsInv, NEW p \in Procs, Acts(p), ToBudgetPause(p)'
  PROVE  At(p, "settling") /\ ~Owing
<1>1. local[p] \in Local /\ (\A l : Goto(p, l) => local'[p] = l) /\ At(p, "closing")'
  BY Here DEF Goto, TypeInv, TypeOK, ToBudgetPause
<1>2. ASSUME NEW l, Goto(p, l) PROVE l.pc = "closing" /\ l.stop = "rounds"
  <2>1. local'[p].stop = "rounds"
    BY DEF ToBudgetPause, LastStatus
  <2> QED
    BY <1>1, <1>2, <2>1 DEF At
<1>3. ~Goto(p, Idle)
  <2>1. Idle.pc # "closing"
    BY DEF Idle
  <2> QED
    BY <1>2, <2>1
<1>4. ~FindWindow(p)
  <2>1. \A i : [local[p] EXCEPT !.pc = "closing", !.stop = "pause", !.run = i].stop = "pause"
    BY <1>1 DEF Local
  <2> QED
    BY <1>2, <1>3, <2>1 DEF FindWindow
<1>5. ~Fail(p)
  <2>1. \A st : [local[p] EXCEPT !.pc = "closing", !.stop = "failure", !.seen = st].stop = "failure"
    BY <1>1 DEF Local
  <2> QED
    BY <1>2, <1>3, <2>1 DEF Fail
<1>6. ~Interrupt(p)
  <2>1. [local[p] EXCEPT !.pc = "closing", !.stop = "interrupt"].stop = "interrupt"
    BY <1>1 DEF Local
  <2> QED
    BY <1>2, <1>3, <2>1 DEF Interrupt, Walk
<1>7. Settle(p)
  BY <1>1, <1>4, <1>5, <1>6, ToClosing
<1>8. At(p, "settling") /\ ~At(p, "idle")
  BY <1>7 DEF Settle, At
<1>9. local[p].stop = "rounds"
  <2>1. /\ [local[p] EXCEPT !.pc = "closing"].stop = local[p].stop
        /\ \A st : [local[p] EXCEPT !.pc = "closing", !.seen = st].stop = local[p].stop
        /\ Thrown(p).pc # "closing"
    BY <1>1 DEF Local, Thrown, Idle
  <2> QED
    BY <1>2, <1>7, <2>1 DEF Settle, Call, Step
<1>10. Mutable(task) /\ task.status # "paused"
  BY <1>8, <1>9, AtWork DEF TaskAs, At, WindingUp
<1>11. \A q \in Procs : ~At(q, "charging")
  BY <1>8, OneMoves DEF At
<1> QED
  BY <1>8, <1>10, <1>11 DEF Owing, Mutable, BudgetPaused

\* What is owed stays so until a continuation is charged.
LEMMA OwingStays ==
  ASSUME ~Overlap, TypeInv, TurnsInv, NEW p \in Procs, Acts(p), ~Charge(p), ~Die(p), Owing
  PROVE  Owing'
<1>1. CASE task.status \in Terminal
  BY <1>1, EndedStays DEF Owing
<1>2. CASE BudgetPaused(task)
  <2>1. task.status = "paused" /\ task \in TaskRow /\ local[p] \in Local
    BY <1>2, Here DEF BudgetPaused
  <2>2. CASE UNCHANGED task
    BY <1>2, <2>2 DEF Owing
  <2>3. CASE At(p, "idle")
    <3>1. User(p)
      BY <2>3 DEF Acts, Work, Interrupt, Die, Confirm, Charge, FindWindow, Enter, Open, FirstCheckpoint,
         CheckBlockers, Model, CountRead, CountWrite, Ready, CallTool, Observe, GiveUp, Ask, After,
         AddTime, LoseTrace, Settle, Close, LastCheckpoint, Fail, At
    <3>2. Resume(p) \/ Cancel(p) \/ HandOff(p)
      BY <2>1, <3>1 DEF User, Start, Message, TakesMessage, ExpireDue, Due, Expire, Pause, Decide, Permits,
         AllowedMoves, Terminal
    <3>3. CASE Cancel(p) \/ HandOff(p)
      BY <2>1, <3>3, Statuses3 DEF Cancel, HandOff, Command, Owing, Terminal
    <3>4. CASE Command(p, Failed(task), Idle)
      BY <2>1, <3>4, Statuses3 DEF Command, Owing
    <3>5. CASE Goto(p, [Idle EXCEPT !.pc = "charging"])
      <4>1. local'[p].pc = "charging"
        BY <3>5 DEF Goto, TypeInv, TypeOK, Idle
      <4> QED
        BY <4>1 DEF Owing, At
    <3> QED
      BY <1>2, <3>2, <3>3, <3>4, <3>5 DEF Resume, Command
  <2>4. CASE ~At(p, "idle")
    <3>1. local[p].pc \in {"finding", "closing", "recording"}
      BY <2>1, <2>4, AtWork DEF TaskAs, At, WindingUp
    <3>2. FindWindow(p) \/ Close(p) \/ LastCheckpoint(p) \/ Interrupt(p)
      BY <2>4, <3>1 DEF Acts, User, Command, Work, Confirm, Charge, Enter, Open, FirstCheckpoint,
                CheckBlockers, Model, CountRead, CountWrite, Ready, CallTool, Observe, GiveUp, Ask,
                After, AddTime, LoseTrace, Settle, Fail, At, Start, Message, ExpireDue, Expire,
                Pause, Decide, Resume, Cancel, HandOff
    <3>3. CASE task' = Closed(task, "cancelled")
      BY <2>1, <3>3, Statuses3 DEF Owing, Terminal
    <3> QED
      BY <2>2, <3>2, <3>3 DEF FindWindow, Close, LastCheckpoint, Interrupt
  <2> QED
    BY <2>3, <2>4
<1>3. ASSUME NEW q \in Procs, At(q, "charging") PROVE FALSE
  <2>1. At(p, "charging")
    BY <1>3, OneMoves DEF At
  <2> QED
    BY <2>1 DEF Acts, User, Command, Work, Confirm, Charge, FindWindow, Enter, Open, FirstCheckpoint,
       CheckBlockers, Model, CountRead, CountWrite, Ready, CallTool, Observe, GiveUp, Ask,
       After, AddTime, LoseTrace, Settle, Close, LastCheckpoint, Fail, At, Start, Message, ExpireDue,
       Expire, Pause, Decide, Resume, Cancel, HandOff, Interrupt
<1> QED
  BY <1>1, <1>2, <1>3 DEF Owing

\* Nothing but Charge spends a continuation.
LEMMA UsedStays ==
  ASSUME TypeInv, NEW p \in Procs, Acts(p), ~Charge(p)
  PROVE  task'.used = task.used
<1>1. task \in TaskRow
  BY Here
<1>2. /\ Failed(task).used = task.used /\ Released(task).used = task.used
      /\ Orphaned(p).used = task.used
      /\ \A st : Closed(task, st).used = task.used /\ [task EXCEPT !.status = st].used = task.used
  BY <1>1 DEF Failed, Released, Orphaned, Closed, TaskRow
<1>3. CASE User(p)
  BY <1>2, <1>3 DEF User, Command, Start, Message, ExpireDue, Expire, Pause, Resume, Cancel, HandOff,
     Decide
<1>4. CASE Work(p)
  <2>1. CASE Settle(p)
    <3>1. [task EXCEPT !.status = "paused", !.stop = "rounds"].used = task.used
      BY <1>1 DEF TaskRow
    <3>2. Settled(local[p].stop).new.used = task.used
      BY <1>2, <3>1 DEF Settled
    <3> QED
      BY <2>1, <3>2 DEF Settle, Call
  <2>2. ASSUME NEW kind \in AskKinds, Ask(p, kind) PROVE task'.used = task.used
    <3>1. [task EXCEPT !.status = "waiting_user", !.late = FALSE,
                       !.ask = [kind |-> kind, by |-> p]].used = task.used
      BY <1>1 DEF TaskRow
    <3> QED
      BY <2>2, <3>1 DEF Ask, Call
  <2>3. CASE ~Settle(p) /\ ~\E kind \in AskKinds : Ask(p, kind)
    BY <1>2, <1>4, <2>3 DEF Work, FindWindow, Enter, Open, FirstCheckpoint, CheckBlockers, Model,
       CountRead, CountWrite, Ready, CallTool, Observe, GiveUp, After, AddTime, LoseTrace, Close,
       LastCheckpoint, Fail, Call
  <2> QED
    BY <2>1, <2>2, <2>3
<1>5. CASE Interrupt(p) \/ Die(p) \/ \E approved \in BOOLEAN : Confirm(p, approved)
  BY <1>2, <1>5 DEF Interrupt, Die, Confirm, Call
<1> QED
  BY <1>3, <1>4, <1>5 DEF Acts

\* What is counted, and against what.
LEMMA Counts ==
  ASSUME TypeInv
  PROVE  /\ IsFiniteSet(BudgetPauses(runs)) /\ Cardinality(BudgetPauses(runs)) \in Nat
         /\ task.used \in Nat
<1>1. DOMAIN runs = 1 .. Len(runs) /\ Len(runs) \in Nat
  BY LenProperties DEF TypeInv
<1>2. IsFiniteSet(DOMAIN runs)
  BY <1>1, FS_Interval
<1>3. BudgetPauses(runs) \in SUBSET DOMAIN runs
  BY DEF BudgetPauses
<1>4. IsFiniteSet(BudgetPauses(runs))
  BY <1>2, <1>3, FS_Subset
<1>5. task.used \in Nat
  BY Here, LimitsAssumption DEF TypeInv, TypeOK
<1> QED
  BY <1>4, <1>5, FS_CardinalityType

\* A step counts no more windows, or one that will be, or has been, paid for.
LEMMA PaidForStep ==
  ASSUME ~Overlap, TypeInv, TurnsInv, PaidFor, NEW p \in Procs, Acts(p), ~Die(p)
  PROVE  PaidFor'
<1> DEFINE n == Cardinality(BudgetPauses(runs))
           m == Cardinality(BudgetPauses(runs'))
           u == task.used
<1>1. IsFiniteSet(BudgetPauses(runs)) /\ n \in Nat /\ u \in Nat
  BY Counts
<1>2. n <= u + 1 /\ (~Owing \/ (\E q \in Procs : ToBudgetPause(q)) => n <= u)
  BY DEF PaidFor
<1>3. \A q \in Procs : q # p => ~ToBudgetPause(q) /\ ~ToBudgetPause(q)'
  BY OneMoves DEF ToBudgetPause, At
<1>4. CASE Close(p)
  <2>1. At(p, "closing") /\ UNCHANGED task /\ local[p] \in Local /\ TaskAs(p) /\ ~At(p, "idle")
    BY <1>4, Here DEF Close, At, TurnsInv
  <2>2. /\ local[p].run \in DOMAIN runs /\ DOMAIN runs' = DOMAIN runs
        /\ \A i \in DOMAIN runs : i # local[p].run => runs'[i] = runs[i]
        /\ runs'[local[p].run].status = LastStatus(p)
    BY <1>4, ClosesOne
  <2>3. At(p, "recording")'
    BY <1>4, <2>1 DEF Close, Step, Goto, At, Local, TypeInv, TypeOK
  <2>4. \A q \in Procs : ~ToBudgetPause(q)'
    BY <1>3, <2>3 DEF ToBudgetPause, At
  <2>5. CASE LastStatus(p) = "paused_by_budget"
    <3>1. BudgetPauses(runs') = BudgetPauses(runs) \cup {local[p].run}
      BY <2>2, <2>5 DEF BudgetPauses
    <3>2. m = n \/ m = n + 1
      BY <1>1, <3>1, FS_AddElement
    <3>3. n <= u
      BY <1>2, <2>1, <2>5 DEF ToBudgetPause
    <3>4. Owing'
      BY <2>1, <2>5 DEF TaskAs, ToBudgetPause, Owing
    <3>5. m <= u + 1
      BY <1>1, <3>2, <3>3
    <3> QED
      BY <2>1, <2>4, <3>4, <3>5 DEF PaidFor
  <2>6. CASE LastStatus(p) # "paused_by_budget"
    <3>1. BudgetPauses(runs') \subseteq BudgetPauses(runs)
      BY <2>2, <2>6 DEF BudgetPauses
    <3>2. Owing => Owing'
      BY <1>4, <2>1, OwingStays DEF Charge, At
    <3>3. m <= n /\ m \in Nat
      BY <1>1, <3>1, FS_Subset, FS_CardinalityType
    <3>4. m <= u + 1 /\ (~Owing => m <= u)
      BY <1>1, <1>2, <3>3
    <3> QED
      BY <2>1, <2>4, <3>2, <3>4 DEF PaidFor
  <2> QED
    BY <2>5, <2>6
<1>5. CASE ~Close(p)
  <2>1. BudgetPauses(runs') = BudgetPauses(runs)
    <3>1. CASE Open(p)
      BY <3>1, OpensOne DEF BudgetPauses
    <3>2. CASE LastCheckpoint(p)
      BY <3>2, ClosesOne DEF BudgetPauses, Window
    <3>3. CASE ~Open(p) /\ ~LastCheckpoint(p)
      BY <1>5, <3>3, TouchesLittle DEF BudgetPauses, Untouched
    <3> QED
      BY <3>1, <3>2, <3>3
  <2>2. CASE Charge(p)
    <3>1. task.status = "running" /\ task.used < MaxContinuations /\ task \in TaskRow
      BY <2>2, Here DEF Charge, TurnsInv, TaskAs, At
    <3>2. task' = [task EXCEPT !.used = @ + 1]
      <4>1. ~Contended(p) /\ Mutable(task) /\ ~(task.used >= MaxContinuations)
        BY <2>2, <3>1, AtWork, LimitsAssumption DEF Charge, At, Mutable, Terminal, TaskRow
      <4> QED
        BY <2>2, <3>1, <4>1 DEF Charge, Call
    <3>3. task'.used = u + 1
      BY <3>1, <3>2 DEF TaskRow
    <3>4. n <= u + 1 + 1
      BY <1>1, <1>2
    <3> QED
      BY <1>2, <2>1, <3>3, <3>4 DEF PaidFor
  <2>3. CASE ~Charge(p)
    <3>1. task'.used = task.used
      BY <2>3, UsedStays
    <3>2. Owing => Owing'
      BY <2>3, OwingStays
    <3>3. (\E q \in Procs : ToBudgetPause(q)') => ~Owing
      BY <1>3, ToPause
    <3> QED
      BY <1>2, <2>1, <3>1, <3>2, <3>3 DEF PaidFor
  <2> QED
    BY <2>2, <2>3
<1> QED
  BY <1>4, <1>5

\* While processes take turns, and unless one dies, every window that ended for want of
\* rounds, but the first, was paid for with a continuation, whatever lies between.
THEOREM WindowsAreCharged == ASSUME ~Overlap PROVE Spec => []BudgetWindowsCharged
<1>1. Init => (deaths = 0 => PaidFor)
  <2> SUFFICES ASSUME Init PROVE PaidFor
    OBVIOUS
  <2>1. BudgetPauses(runs) = {} /\ task.used = 0 /\ \A p \in Procs : ~ToBudgetPause(p)
    BY DEF Init, BudgetPauses, NewTask, ToBudgetPause, At, Idle
  <2> QED
    BY <2>1, FS_EmptySet DEF PaidFor
<1>2. TypeInv /\ TurnsInv /\ (deaths = 0 => PaidFor) /\ [Next]_vars => (deaths = 0 => PaidFor)'
  <2> SUFFICES ASSUME TypeInv, TurnsInv, deaths = 0 => PaidFor, [Next]_vars, deaths' = 0
               PROVE  PaidFor'
    OBVIOUS
  <2>1. CASE Resting
    <3>1. UNCHANGED <<runs, local, deaths>> /\ task'.status = task.status /\ task'.used = task.used
          /\ task'.stop = task.stop
      BY <2>1, RestingKeeps
    <3>2. Owing' <=> Owing
      BY <3>1 DEF Owing, BudgetPaused, At
    <3>3. \A p \in Procs : ToBudgetPause(p)' <=> ToBudgetPause(p)
      BY <3>1 DEF ToBudgetPause, LastStatus, At
    <3> QED
      BY <3>1, <3>2, <3>3 DEF PaidFor
  <2>2. ASSUME NEW p \in Procs, Acts(p) PROVE PaidFor'
    BY <2>2, NoneDied, PaidForStep
  <2> QED
    BY <2>1, <2>2, ActsOrRests
<1>3. (deaths = 0 => PaidFor) => BudgetWindowsCharged
  BY DEF PaidFor, BudgetPauses, BudgetWindowsCharged
<1> QED
  BY <1>1, <1>2, <1>3, TypeInvHolds, TurnsInvHolds, PTL DEF Spec

-----------------------------------------------------------------------------
(* A turn is bounded. *)

\* How many steps a process is from being idle, where no round is left to begin. A call
\* that was approved outside a turn leads into one, a call in a turn on with it.
Ahead(l) ==
  CASE l.pc = "idle"                        -> 0
    [] l.pc = "recording"                   -> IF l.stop \in Outside THEN 1 ELSE 2
    [] l.pc = "closing"                     -> IF l.stop \in Outside THEN 2 ELSE 3
    [] l.pc \in {"failing", "finding"}      -> 3
    [] l.pc \in {"losing", "settling"}      -> 4
    [] l.pc = "timing"                      -> 5
    [] l.pc = "counted"                     -> 6
    [] l.pc = "counting"                    -> 7
    [] l.pc = "model"                       -> 8
    [] l.pc \in {"after", "recovering"}     -> 9
    [] l.pc = "opened"                      -> 10
    [] l.pc \in {"acting", "refusing"}      -> IF l.run = 0 THEN 13 ELSE 10
    [] l.pc = "opening"                     -> 11
    [] l.pc = "calling"                     -> IF l.run = 0 THEN 14 ELSE 11
    [] l.pc \in {"entering", "confirming"}  -> 12
    [] l.pc \in {"charging", "tool"}        -> 13
    [] OTHER                                -> 14

\* The rounds its window may still count; a turn that has none yet may count them all.
RoundsLeft(l, table) ==
  CASE l.pc = "idle"                -> 0
    [] l.pc # "idle" /\ l.run = 0   -> MaxRounds
    [] l.pc # "idle" /\ l.run # 0   -> MaxRounds - table[l.run].rounds

\* A round takes nine steps, from the checkpoints before its call to its being counted.
StepsLeft(p) == Ahead(local[p]) + 9 * RoundsLeft(local[p], runs)

MostSteps == 14 + 9 * MaxRounds

\* No process has more steps of its own left than a turn has, and none only if it is idle.
TurnsWithinBound ==
  \A p \in Procs : StepsLeft(p) \in 0 .. MostSteps /\ (StepsLeft(p) = 0 <=> At(p, "idle"))

\* What a process does next leaves it fewer steps, and nothing leaves it more.
TurnsShorten ==
  [][\A p \in Procs :
       /\ Work(p) => StepsLeft(p)' < StepsLeft(p)
       /\ ~At(p, "idle") => StepsLeft(p)' <= StepsLeft(p)]_vars

\* The places are all there are.
LEMMA AheadType ==
  ASSUME NEW l \in Local
  PROVE  Ahead(l) \in 0 .. 14 /\ (Ahead(l) = 0 <=> l.pc = "idle")
<1>1. CASE l.pc \in {"idle", "recording", "closing", "failing", "finding", "losing", "settling", "timing"}
  BY <1>1 DEF Ahead
<1>2. CASE l.pc \in {"counted", "counting", "model", "after", "recovering", "opened"}
  BY <1>2 DEF Ahead
<1>3. CASE l.pc \in {"acting", "refusing", "opening", "calling"}
  BY <1>3 DEF Ahead
<1>4. CASE l.pc \in {"entering", "confirming", "charging", "tool", "ready"}
  BY <1>4 DEF Ahead
<1> QED
  BY <1>1, <1>2, <1>3, <1>4 DEF Local

\* A window has no more rounds than there may be.
LEMMA RoundsLeftType ==
  ASSUME NEW table, NEW l, Placed(l, table), \A i \in DOMAIN table : table[i] \in WindowRow
  PROVE  /\ RoundsLeft(l, table) \in 0 .. MaxRounds
         /\ l.run # 0 => l.run \in DOMAIN table /\ table[l.run].rounds \in 0 .. MaxRounds
<1>1. l.run # 0 => l.run \in DOMAIN table /\ table[l.run].rounds \in 0 .. MaxRounds
  BY DEF WindowRow, Placed
<1> QED
  BY <1>1, LimitsAssumption DEF RoundsLeft

\* No round is uncounted, whoever writes the window.
LEMMA RoundsRise ==
  ASSUME TypeInv, Manned, [Next]_vars
  PROVE  \A i \in DOMAIN runs : i \in DOMAIN runs' /\ runs[i].rounds <= runs'[i].rounds
<1> DEFINE Rise == \A i \in DOMAIN runs : i \in DOMAIN runs' /\ runs[i].rounds <= runs'[i].rounds
<1>1. \A i \in DOMAIN runs : runs[i] \in WindowRow /\ runs[i].rounds \in Nat
  BY LimitsAssumption DEF TypeInv, TypeOK, WindowRow
<1>2. CASE UNCHANGED runs
  BY <1>1, <1>2
<1>3. ASSUME NEW p \in Procs, Acts(p) PROVE Rise
  <2>1. ASSUME NEW w, local[p].run # 0, SetWindow(p, w),
               w.rounds = Window(p).rounds \/ w.rounds = Window(p).rounds + 1
        PROVE  Rise
    BY <1>1, <2>1, Here DEF SetWindow, Window, Placed
  <2>2. local[p].run # 0 => Window(p) \in WindowRow
    BY Here
  <2>3. local[p].pc \in InTurn \cup WindingUp => local[p].run # 0
    BY Here DEF Placed
  <2>4. ASSUME NEW why, Walk(p, why) PROVE Rise
    <3>1. CASE local[p].run # 0
      <4> DEFINE w == [Window(p) EXCEPT !.left = why]
      <4>1. w.rounds = Window(p).rounds /\ SetWindow(p, w)
        BY <2>2, <2>4, <3>1 DEF Walk, SetWindow, Window, WindowRow
      <4> HIDE DEF w
      <4> QED
        BY <2>1, <3>1, <4>1
    <3> QED
      BY <1>2, <2>4, <3>1 DEF Walk
  <2>5. ASSUME NEW mark, SetWindow(p, [Window(p) EXCEPT !.mark = mark]), local[p].run # 0 PROVE Rise
    <3>1. [Window(p) EXCEPT !.mark = mark].rounds = Window(p).rounds
      BY <2>2, <2>5 DEF WindowRow
    <3> QED
      BY <2>1, <2>5, <3>1
  <2>6. ASSUME NEW st, SetWindow(p, [Window(p) EXCEPT !.status = st]), local[p].run # 0 PROVE Rise
    <3>1. [Window(p) EXCEPT !.status = st].rounds = Window(p).rounds
      BY <2>2, <2>6 DEF WindowRow
    <3> QED
      BY <2>1, <2>6, <3>1
  <2>7. CASE CountWrite(p)
    <3>1. local[p].run # 0
      BY <2>3, <2>7 DEF CountWrite, At, InTurn
    <3>2. Counted(p).rounds = Window(p).rounds + 1
      BY <2>2, <3>1 DEF Counted, WindowRow
    <3> QED
      BY <2>1, <2>7, <3>1, <3>2 DEF CountWrite
  <2>8. CASE Open(p)
    BY <1>1, <2>8, OpensOne
  <2>9. CASE FirstCheckpoint(p) \/ Ready(p) \/ After(p) \/ LastCheckpoint(p)
    BY <1>2, <2>3, <2>5, <2>9 DEF FirstCheckpoint, Ready, After, LastCheckpoint, At, InTurn, WindingUp
  <2>10. CASE Close(p)
    BY <2>3, <2>6, <2>10 DEF Close, At, WindingUp
  <2>11. CASE CheckBlockers(p) \/ LoseTrace(p) \/ Interrupt(p) \/ Die(p)
    BY <1>2, <2>4, <2>11 DEF CheckBlockers, LoseTrace, Interrupt, Die
  <2>12. CASE User(p)
    BY <1>2, <2>12 DEF User, Command, Start, Message, ExpireDue, Expire, Pause, Resume, Cancel,
           HandOff, Decide
  <2>13. CASE \/ Charge(p) \/ FindWindow(p) \/ Enter(p) \/ Model(p) \/ CountRead(p) \/ CallTool(p)
              \/ Observe(p) \/ GiveUp(p) \/ AddTime(p) \/ Settle(p) \/ Fail(p)
              \/ \E kind \in AskKinds : Ask(p, kind)
              \/ \E approved \in BOOLEAN : Confirm(p, approved)
    BY <1>2, <2>13 DEF Charge, FindWindow, Enter, Model, CountRead, CallTool, Observe, GiveUp,
           AddTime, Settle, Fail, Ask, Confirm
  <2> QED
    BY <1>3, <2>7, <2>8, <2>9, <2>10, <2>11, <2>12, <2>13 DEF Acts, Work
<1>4. CASE Resting
  BY <1>2, <1>4, RestingKeeps
<1> QED
  BY <1>3, <1>4, ActsOrRests

\* A process that goes on in its window, or comes into one, has no more rounds left.
LEMMA Nearer ==
  ASSUME TypeInv, Manned, [Next]_vars, NEW p \in Procs,
         local'[p].pc = "idle" \/ local[p].run \in {0, local'[p].run}, ~At(p, "idle")
  PROVE  /\ RoundsLeft(local'[p], runs') <= RoundsLeft(local[p], runs)
         /\ Ahead(local'[p]) < Ahead(local[p]) => StepsLeft(p)' < StepsLeft(p)
         /\ Ahead(local'[p]) <= Ahead(local[p]) => StepsLeft(p)' <= StepsLeft(p)
<1>1. /\ local[p] \in Local /\ Placed(local[p], runs) /\ \A i \in DOMAIN runs : runs[i] \in WindowRow
      /\ local'[p] \in Local /\ Placed(local'[p], runs') /\ \A i \in DOMAIN runs' : runs'[i] \in WindowRow
  BY TypeInvKept DEF TypeInv, TypeOK
<1>2. /\ RoundsLeft(local[p], runs) \in 0 .. MaxRounds /\ RoundsLeft(local'[p], runs') \in 0 .. MaxRounds
      /\ local[p].run # 0 => local[p].run \in DOMAIN runs /\ runs[local[p].run].rounds \in 0 .. MaxRounds
      /\ local'[p].run # 0 => runs'[local'[p].run].rounds \in 0 .. MaxRounds
  BY <1>1, RoundsLeftType
<1>3. Ahead(local[p]) \in 0 .. 14 /\ Ahead(local'[p]) \in 0 .. 14
  BY <1>1, AheadType
<1>4. RoundsLeft(local'[p], runs') <= RoundsLeft(local[p], runs)
  <2>1. CASE local'[p].pc = "idle"
    BY <1>2, <2>1, LimitsAssumption DEF RoundsLeft
  <2>2. CASE local[p].run = 0
    BY <1>2, <2>2, LimitsAssumption DEF RoundsLeft, At
  <2>3. CASE local'[p].pc # "idle" /\ local[p].run # 0 /\ local[p].run = local'[p].run
    <3>1. runs[local[p].run].rounds <= runs'[local[p].run].rounds
      BY <1>2, <2>3, RoundsRise
    <3> QED
      BY <1>2, <2>3, <3>1, LimitsAssumption DEF RoundsLeft, At
  <2> QED
    BY <2>1, <2>2, <2>3
<1> QED
  BY <1>2, <1>3, <1>4, LimitsAssumption DEF StepsLeft

\* Where p is nearer to being idle, though no round was counted.
Closer(p, l) ==
  /\ l.pc = "idle" \/ local[p].run \in {0, l.run}
  /\ Ahead(l) < Ahead(local[p])

\* How far the places are that a process is sent to.
LEMMA PlacesTo ==
  ASSUME NEW l \in Local, NEW pc
  PROVE  /\ [l EXCEPT !.pc = pc].pc = pc /\ [l EXCEPT !.pc = pc].run = l.run
         /\ \A stop : /\ [l EXCEPT !.pc = pc, !.stop = stop].pc = pc
                      /\ [l EXCEPT !.pc = pc, !.stop = stop].run = l.run
         /\ \A seen : /\ [l EXCEPT !.pc = pc, !.seen = seen].pc = pc
                      /\ [l EXCEPT !.pc = pc, !.seen = seen].run = l.run
         /\ \A saved : /\ [l EXCEPT !.pc = pc, !.saved = saved].pc = pc
                       /\ [l EXCEPT !.pc = pc, !.saved = saved].run = l.run
         /\ \A run : [l EXCEPT !.pc = pc, !.run = run].pc = pc
         /\ \A stop, seen : /\ [l EXCEPT !.pc = pc, !.stop = stop, !.seen = seen].pc = pc
                            /\ [l EXCEPT !.pc = pc, !.stop = stop, !.seen = seen].run = l.run
         /\ \A stop, run : [l EXCEPT !.pc = pc, !.stop = stop, !.run = run].pc = pc
         /\ [l EXCEPT !.pc = pc].stop = l.stop
         /\ \A stop : [l EXCEPT !.pc = pc, !.stop = stop].stop = stop
         /\ \A stop, seen : [l EXCEPT !.pc = pc, !.stop = stop, !.seen = seen].stop = stop
         /\ \A stop, run : [l EXCEPT !.pc = pc, !.stop = stop, !.run = run].stop = stop
BY DEF Local

\* To leave is nearest, and where an exception leads is nearer than any place of a turn.
LEMMA OutIsCloser ==
  ASSUME TypeInv, NEW p \in Procs
  PROVE  /\ ~At(p, "idle") => Closer(p, Idle)
         /\ Ahead(local[p]) > 3 => Closer(p, Thrown(p))
<1>1. local[p] \in Local
  BY Here
<1>2. Ahead(local[p]) \in 0 .. 14 /\ (Ahead(local[p]) = 0 <=> At(p, "idle"))
  BY <1>1, AheadType DEF At
<1>3. Idle.pc = "idle" /\ Ahead(Idle) = 0
  BY DEF Idle, Ahead
<1>4. CASE local[p].run = 0
  BY <1>2, <1>3, <1>4 DEF Closer, Thrown
<1>5. CASE local[p].run # 0
  <2> DEFINE l == [local[p] EXCEPT !.pc = "failing"]
  <2>1. l.pc = "failing" /\ l.run = local[p].run
    BY <1>1 DEF Local
  <2>2. Ahead(l) = 3
    BY <2>1 DEF Ahead
  <2>3. Thrown(p) = l
    BY <1>5 DEF Thrown
  <2> HIDE DEF l
  <2> QED
    BY <1>2, <1>3, <2>1, <2>2, <2>3 DEF Closer
<1> QED
  BY <1>4, <1>5

\* A process that is closer has fewer steps left.
LEMMA CloserIsLess ==
  ASSUME TypeInv, Manned, [Next]_vars, NEW p \in Procs, NEW l, Goto(p, l), Closer(p, l)
  PROVE  StepsLeft(p)' < StepsLeft(p)
<1>1. local'[p] = l
  BY DEF TypeInv, TypeOK, Goto
<1>2. l \in Local /\ local[p] \in Local
  BY <1>1, TypeInvKept DEF TypeInv, TypeOK
<1>3. Ahead(l) \in Nat
  BY <1>2, AheadType
<1>4. ~At(p, "idle")
  BY <1>2, <1>3, AheadType DEF Closer, At
<1> QED
  BY <1>1, <1>4, Nearer DEF Closer

\* The steps of a process on its way to a window.
LEMMA EntryIsCloser ==
  ASSUME TypeInv, NEW p \in Procs,
         Charge(p) \/ FindWindow(p) \/ Enter(p) \/ Open(p) \/ FirstCheckpoint(p) \/ CheckBlockers(p)
  PROVE  \E l : Goto(p, l) /\ Closer(p, l)
<1>1. local[p] \in Local /\ Placed(local[p], runs)
  BY Here
<1>2. Entering.pc = "entering" /\ Entering.run = 0 /\ Ahead(Entering) = 12
  BY DEF Entering, Idle, Ahead
<1>3. CASE Charge(p)
  <2>1. local[p].run = 0 /\ Ahead(local[p]) = 13 /\ ~At(p, "idle")
    BY <1>1, <1>3 DEF Charge, At, Placed, Before, Ahead
  <2>2. Closer(p, Entering) /\ Closer(p, Thrown(p))
    BY <1>2, <2>1, OutIsCloser DEF Closer
  <2>3. Closer(p, [local[p] EXCEPT !.pc = "failing"])
    <3> DEFINE l == [local[p] EXCEPT !.pc = "failing"]
    <3>1. l.pc = "failing" /\ l.run = local[p].run
      BY <1>1, PlacesTo
    <3> HIDE DEF l
    <3>2. Ahead(l) = 3
      BY <3>1 DEF Ahead
    <3>3. Closer(p, l)
      BY <2>1, <3>1, <3>2 DEF Closer
    <3> QED
      BY <3>3 DEF l
  <2> QED
    BY <1>3, <2>2, <2>3 DEF Charge, Call, Step
<1>4. CASE FindWindow(p)
  <2>1. local[p].run = 0 /\ Ahead(local[p]) = 3 /\ ~At(p, "idle")
    BY <1>1, <1>4 DEF FindWindow, At, Placed, Before, Ahead
  <2>2. Closer(p, Idle)
    BY <2>1, OutIsCloser
  <2>3. \A i : Closer(p, [local[p] EXCEPT !.pc = "closing", !.stop = "pause", !.run = i])
    <3>1. ASSUME NEW i PROVE Closer(p, [local[p] EXCEPT !.pc = "closing", !.stop = "pause", !.run = i])
      <4> DEFINE l == [local[p] EXCEPT !.pc = "closing", !.stop = "pause", !.run = i]
      <4>1. l.pc = "closing" /\ l.stop = "pause"
        BY <1>1, PlacesTo
      <4> HIDE DEF l
      <4>2. Ahead(l) = 2
        BY <3>1, <4>1 DEF Ahead, Outside
      <4>3. Closer(p, l)
        BY <2>1, <4>1, <4>2 DEF Closer
      <4> QED
        BY <4>3 DEF l
    <3> QED
      BY <3>1
  <2> QED
    BY <1>4, <2>2, <2>3 DEF FindWindow
<1>5. CASE Enter(p)
  <2>1. local[p].run = 0 /\ Ahead(local[p]) = 12 /\ ~At(p, "idle")
    BY <1>1, <1>5 DEF Enter, At, Placed, Before, Ahead
  <2>2. Closer(p, Idle)
    BY <2>1, OutIsCloser
  <2>3. Closer(p, [local[p] EXCEPT !.pc = "opening"])
    <3> DEFINE l == [local[p] EXCEPT !.pc = "opening"]
    <3>1. l.pc = "opening" /\ l.run = local[p].run
      BY <1>1, PlacesTo
    <3> HIDE DEF l
    <3>2. Ahead(l) = 11
      BY <3>1 DEF Ahead
    <3>3. Closer(p, l)
      BY <2>1, <3>1, <3>2 DEF Closer
    <3> QED
      BY <3>3 DEF l
  <2> QED
    BY <1>5, <2>2, <2>3 DEF Enter, Step
<1>6. CASE Open(p)
  <2>1. local[p].run = 0 /\ Ahead(local[p]) = 11
    BY <1>1, <1>6 DEF Open, At, Placed, Before, Ahead
  <2>2. Closer(p, [local[p] EXCEPT !.pc = "opened", !.run = Len(runs) + 1])
    <3> DEFINE l == [local[p] EXCEPT !.pc = "opened", !.run = Len(runs) + 1]
    <3>1. l.pc = "opened"
      BY <1>1, PlacesTo
    <3> HIDE DEF l
    <3>2. Ahead(l) = 10
      BY <3>1 DEF Ahead
    <3>3. Closer(p, l)
      BY <2>1, <3>2 DEF Closer
    <3> QED
      BY <3>3 DEF l
  <2> QED
    BY <1>6, <2>2 DEF Open
<1>7. CASE FirstCheckpoint(p)
  <2>1. Ahead(local[p]) = 10
    BY <1>7 DEF FirstCheckpoint, At, Ahead
  <2>2. Closer(p, [local[p] EXCEPT !.pc = "recovering"])
    <3> DEFINE l == [local[p] EXCEPT !.pc = "recovering"]
    <3>1. l.pc = "recovering" /\ l.run = local[p].run
      BY <1>1, PlacesTo
    <3> HIDE DEF l
    <3>2. Ahead(l) = 9
      BY <3>1 DEF Ahead
    <3>3. Closer(p, l)
      BY <2>1, <3>1, <3>2 DEF Closer
    <3> QED
      BY <3>3 DEF l
  <2> QED
    BY <1>7, <2>2 DEF FirstCheckpoint, Step
<1>8. CASE CheckBlockers(p)
  <2>1. Ahead(local[p]) = 9 /\ ~At(p, "idle")
    BY <1>8 DEF CheckBlockers, At, Ahead
  <2>2. Closer(p, Idle) /\ Closer(p, Thrown(p))
    BY <2>1, OutIsCloser
  <2>3. Closer(p, [local[p] EXCEPT !.pc = "model"])
    <3> DEFINE l == [local[p] EXCEPT !.pc = "model"]
    <3>1. l.pc = "model" /\ l.run = local[p].run
      BY <1>1, PlacesTo
    <3> HIDE DEF l
    <3>2. Ahead(l) = 8
      BY <3>1 DEF Ahead
    <3>3. Closer(p, l)
      BY <2>1, <3>1, <3>2 DEF Closer
    <3> QED
      BY <3>3 DEF l
  <2> QED
    BY <1>8, <2>2, <2>3 DEF CheckBlockers, Walk, Step
<1> QED
  BY <1>3, <1>4, <1>5, <1>6, <1>7, <1>8

\* The steps of the loop, but the one that counts the round.
LEMMA LoopIsCloser ==
  ASSUME TypeInv, NEW p \in Procs,
         \/ Model(p) \/ CountRead(p) \/ Ready(p) \/ CallTool(p) \/ Observe(p) \/ GiveUp(p) \/ After(p)
         \/ \E kind \in AskKinds : Ask(p, kind)
  PROVE  \E l : Goto(p, l) /\ Closer(p, l)
<1>1. local[p] \in Local /\ Placed(local[p], runs)
  BY Here
<1>2. \A stop : Finalize(p, stop).pc = "timing" /\ Finalize(p, stop).run = local[p].run
  BY <1>1, PlacesTo DEF Finalize
<1>3. \A stop : Ahead(Finalize(p, stop)) = 5
  BY <1>2 DEF Ahead
<1>4. Ahead(local[p]) > 5 => \A stop : Closer(p, Finalize(p, stop))
  BY <1>2, <1>3 DEF Closer
<1>5. CASE Model(p)
  <2>1. Ahead(local[p]) = 8
    BY <1>5 DEF Model, At, Ahead
  <2>2. Closer(p, [local[p] EXCEPT !.pc = "counting"])
    <3> DEFINE l == [local[p] EXCEPT !.pc = "counting"]
    <3>1. l.pc = "counting" /\ l.run = local[p].run
      BY <1>1, PlacesTo
    <3> HIDE DEF l
    <3>2. Ahead(l) = 7
      BY <3>1 DEF Ahead
    <3>3. Closer(p, l)
      BY <2>1, <3>1, <3>2 DEF Closer
    <3> QED
      BY <3>3 DEF l
  <2>3. \A l \in Replies(p) : Closer(p, l)
    BY <1>4, <2>1, <2>2 DEF Replies
  <2> QED
    BY <1>4, <1>5, <2>1, <2>3, OutIsCloser DEF Model, Call
<1>6. CASE CountRead(p)
  <2>1. Ahead(local[p]) = 7
    BY <1>6 DEF CountRead, At, Ahead
  <2>2. Closer(p, [local[p] EXCEPT !.pc = "counted", !.saved = Window(p).status])
    <3> DEFINE l == [local[p] EXCEPT !.pc = "counted", !.saved = Window(p).status]
    <3>1. l.pc = "counted" /\ l.run = local[p].run
      BY <1>1, PlacesTo
    <3> HIDE DEF l
    <3>2. Ahead(l) = 6
      BY <3>1 DEF Ahead
    <3>3. Closer(p, l)
      BY <2>1, <3>1, <3>2 DEF Closer
    <3> QED
      BY <3>3 DEF l
  <2> QED
    BY <1>6, <2>2 DEF CountRead
<1>7. CASE Ready(p)
  <2>1. Ahead(local[p]) = 14
    BY <1>7 DEF Ready, At, Ahead
  <2>2. Closer(p, [local[p] EXCEPT !.pc = "tool"])
    <3> DEFINE l == [local[p] EXCEPT !.pc = "tool"]
    <3>1. l.pc = "tool" /\ l.run = local[p].run
      BY <1>1, PlacesTo
    <3> HIDE DEF l
    <3>2. Ahead(l) = 13
      BY <3>1 DEF Ahead
    <3>3. Closer(p, l)
      BY <2>1, <3>1, <3>2 DEF Closer
    <3> QED
      BY <3>3 DEF l
  <2> QED
    BY <1>4, <1>7, <2>1, <2>2 DEF Ready, Step
<1>8. CASE CallTool(p)
  <2> DEFINE l == [local[p] EXCEPT !.pc = "acting"]
  <2>1. local[p].pc = "tool" => local[p].run # 0
    BY <1>1 DEF Placed, InTurn
  <2>2. Ahead(local[p]) = IF At(p, "tool") THEN 13 ELSE IF local[p].run = 0 THEN 14 ELSE 11
    BY <1>8 DEF CallTool, At, Ahead
  <2>3. l.pc = "acting" /\ l.run = local[p].run
    BY <1>1, PlacesTo
  <2>4. Ahead(l) = IF local[p].run = 0 THEN 13 ELSE 10
    BY <2>3 DEF Ahead
  <2> HIDE DEF l
  <2>5. Closer(p, l) /\ Closer(p, Thrown(p))
    BY <2>1, <2>2, <2>3, <2>4, OutIsCloser DEF Closer, At
  <2> QED
    BY <1>8, <2>5 DEF CallTool, Call, l
<1>9. CASE Observe(p)
  <2> DEFINE l == IF local[p].run = 0 THEN Entering ELSE [local[p] EXCEPT !.pc = "after"]
  <2>1. /\ local[p].run = 0 => Ahead(local[p]) = 13
        /\ local[p].run # 0 => Ahead(local[p]) \in {10, 13}
    BY <1>1, <1>9 DEF Observe, Ahead, Placed, InTurn
  <2>2. /\ local[p].run = 0 => l.pc = "entering" /\ l.run = 0
        /\ local[p].run # 0 => l.pc = "after" /\ l.run = local[p].run
    BY <1>1, PlacesTo DEF Entering, Idle
  <2>3. Ahead(l) = IF local[p].run = 0 THEN 12 ELSE 9
    BY <2>2 DEF Ahead
  <2> HIDE DEF l
  <2>4. Closer(p, l) /\ Closer(p, Thrown(p))
    BY <2>1, <2>2, <2>3, OutIsCloser DEF Closer
  <2> QED
    BY <1>9, <2>4 DEF Observe, Call, l
<1>10. CASE GiveUp(p) \/ \E kind \in AskKinds : Ask(p, kind)
  <2>1. Ahead(local[p]) = 13
    BY <1>10 DEF GiveUp, Ask, At, Ahead
  <2>2. \A pc \in {"confirming", "after"} : Closer(p, [local[p] EXCEPT !.pc = pc])
    <3>1. ASSUME NEW pc \in {"confirming", "after"} PROVE Closer(p, [local[p] EXCEPT !.pc = pc])
      <4> DEFINE l == [local[p] EXCEPT !.pc = pc]
      <4>1. l.pc = pc /\ l.run = local[p].run
        BY <1>1, PlacesTo
      <4> HIDE DEF l
      <4>2. Ahead(l) \in {9, 12}
        BY <3>1, <4>1 DEF Ahead
      <4>3. Closer(p, l)
        BY <2>1, <4>1, <4>2 DEF Closer
      <4> QED
        BY <4>3 DEF l
    <3> QED
      BY <3>1
  <2>3. Closer(p, Thrown(p))
    BY <2>1, OutIsCloser
  <2>4. ASSUME NEW kind \in AskKinds, Ask(p, kind) PROVE \E l : Goto(p, l) /\ Closer(p, l)
    <3> DEFINE pc == IF kind # "question" /\ p \in Attended THEN "confirming" ELSE "after"
    <3>1. Closer(p, [local[p] EXCEPT !.pc = pc])
      BY <2>2
    <3> QED
      BY <2>3, <2>4, <3>1 DEF Ask, Call
  <2> QED
    BY <1>10, <2>2, <2>3, <2>4 DEF GiveUp, Call
<1>11. CASE After(p)
  <2>1. Ahead(local[p]) = 9
    BY <1>11 DEF After, At, Ahead
  <2>2. Closer(p, [local[p] EXCEPT !.pc = "model"])
    <3> DEFINE l == [local[p] EXCEPT !.pc = "model"]
    <3>1. l.pc = "model" /\ l.run = local[p].run
      BY <1>1, PlacesTo
    <3> HIDE DEF l
    <3>2. Ahead(l) = 8
      BY <3>1 DEF Ahead
    <3>3. Closer(p, l)
      BY <2>1, <3>1, <3>2 DEF Closer
    <3> QED
      BY <3>3 DEF l
  <2>3. Closer(p, Thrown(p)) /\ \A stop : Closer(p, Finalize(p, stop))
    BY <1>4, <2>1, OutIsCloser
  <2>4. \/ Goto(p, [local[p] EXCEPT !.pc = "model"]) \/ Goto(p, Thrown(p))
        \/ \E stop : Goto(p, Finalize(p, stop))
    BY <1>11 DEF After, Step
  <2> QED
    BY <2>2, <2>3, <2>4
<1> QED
  BY <1>5, <1>6, <1>7, <1>8, <1>9, <1>10, <1>11

\* The steps that wind a turn up.
LEMMA EndIsCloser ==
  ASSUME TypeInv, NEW p \in Procs,
         AddTime(p) \/ LoseTrace(p) \/ Settle(p) \/ Close(p) \/ LastCheckpoint(p) \/ Fail(p)
  PROVE  \E l : Goto(p, l) /\ Closer(p, l)
<1>1. local[p] \in Local
  BY Here
<1>2. CASE AddTime(p)
  <2>1. Ahead(local[p]) = 5
    BY <1>2 DEF AddTime, At, Ahead
  <2>2. \A pc \in {"settling", "losing"} :
          Closer(p, [local[p] EXCEPT !.pc = pc, !.seen = task.status])
    <3>1. ASSUME NEW pc \in {"settling", "losing"}
          PROVE  Closer(p, [local[p] EXCEPT !.pc = pc, !.seen = task.status])
      <4> DEFINE l == [local[p] EXCEPT !.pc = pc, !.seen = task.status]
      <4>1. l.pc = pc /\ l.run = local[p].run
        BY <1>1, PlacesTo
      <4> HIDE DEF l
      <4>2. Ahead(l) = 4
        BY <3>1, <4>1 DEF Ahead
      <4>3. Closer(p, l)
        BY <2>1, <4>1, <4>2 DEF Closer
      <4> QED
        BY <4>3 DEF l
    <3> QED
      BY <3>1
  <2> QED
    BY <1>2, <2>1, <2>2, OutIsCloser DEF AddTime
<1>3. CASE LoseTrace(p)
  <2>1. Ahead(local[p]) = 4 /\ ~At(p, "idle")
    BY <1>3 DEF LoseTrace, At, Ahead
  <2> QED
    BY <1>3, <2>1, OutIsCloser DEF LoseTrace, Walk
<1>4. CASE Settle(p)
  <2>1. Ahead(local[p]) = 4
    BY <1>4 DEF Settle, At, Ahead
  <2>2. /\ Closer(p, [local[p] EXCEPT !.pc = "closing"])
        /\ \A seen : Closer(p, [local[p] EXCEPT !.pc = "closing", !.seen = seen])
    <3>1. ASSUME NEW l, l.pc = "closing", l.run = local[p].run PROVE Closer(p, l)
      <4>1. Ahead(l) \in {2, 3}
        BY <3>1 DEF Ahead
      <4> QED
        BY <2>1, <3>1, <4>1 DEF Closer
    <3>2. /\ [local[p] EXCEPT !.pc = "closing"].pc = "closing"
          /\ [local[p] EXCEPT !.pc = "closing"].run = local[p].run
      BY <1>1, PlacesTo
    <3>3. \A seen : /\ [local[p] EXCEPT !.pc = "closing", !.seen = seen].pc = "closing"
                    /\ [local[p] EXCEPT !.pc = "closing", !.seen = seen].run = local[p].run
      BY <1>1, PlacesTo
    <3> QED
      BY <3>1, <3>2, <3>3
  <2>3. Closer(p, Thrown(p))
    BY <2>1, OutIsCloser
  <2>4. \/ Goto(p, [local[p] EXCEPT !.pc = "closing"]) \/ Goto(p, Thrown(p))
        \/ \E seen : Goto(p, [local[p] EXCEPT !.pc = "closing", !.seen = seen])
    BY <1>4 DEF Settle, Call, Step
  <2> QED
    BY <2>2, <2>3, <2>4
<1>5. CASE Close(p)
  <2>1. local[p].pc = "closing" /\ Ahead(local[p]) = IF local[p].stop \in Outside THEN 2 ELSE 3
    BY <1>5 DEF Close, At, Ahead
  <2>2. Closer(p, [local[p] EXCEPT !.pc = "recording"])
    <3> DEFINE l == [local[p] EXCEPT !.pc = "recording"]
    <3>1. l.pc = "recording" /\ l.run = local[p].run /\ l.stop = local[p].stop
      BY <1>1, PlacesTo
    <3> HIDE DEF l
    <3>2. Ahead(l) = IF l.stop \in Outside THEN 1 ELSE 2
      BY <3>1 DEF Ahead
    <3>3. Closer(p, l)
      BY <2>1, <3>1, <3>2 DEF Closer
    <3> QED
      BY <3>3 DEF l
  <2> QED
    BY <1>5, <2>2 DEF Close, Step
<1>6. CASE LastCheckpoint(p)
  BY <1>6, OutIsCloser DEF LastCheckpoint, At
<1>7. CASE Fail(p)
  <2>1. Ahead(local[p]) = 3 /\ ~At(p, "idle")
    BY <1>7 DEF Fail, At, Ahead
  <2>2. \A seen : Closer(p, [local[p] EXCEPT !.pc = "closing", !.stop = "failure", !.seen = seen])
    <3>1. ASSUME NEW seen
          PROVE  Closer(p, [local[p] EXCEPT !.pc = "closing", !.stop = "failure", !.seen = seen])
      <4> DEFINE l == [local[p] EXCEPT !.pc = "closing", !.stop = "failure", !.seen = seen]
      <4>1. l.pc = "closing" /\ l.stop = "failure" /\ l.run = local[p].run
        BY <1>1, PlacesTo
      <4> HIDE DEF l
      <4>2. Ahead(l) = 2
        BY <3>1, <4>1 DEF Ahead, Outside
      <4>3. Closer(p, l)
        BY <2>1, <4>1, <4>2 DEF Closer
      <4> QED
        BY <4>3 DEF l
    <3> QED
      BY <3>1
  <2> QED
    BY <1>7, <2>1, <2>2, OutIsCloser DEF Fail
<1> QED
  BY <1>2, <1>3, <1>4, <1>5, <1>6, <1>7

\* The one that counts the round has all of the next one before it.
LEMMA CountingIsLess ==
  ASSUME TypeInv, Manned, [Next]_vars, NEW p \in Procs, CountWrite(p)
  PROVE  StepsLeft(p)' < StepsLeft(p)
<1> DEFINE r == local[p].run
           l == [local[p] EXCEPT !.pc = "ready", !.saved = None]
<1>1. /\ local[p] \in Local /\ Placed(local[p], runs) /\ Window(p) \in WindowRow
      /\ r # 0 /\ r \in DOMAIN runs /\ local[p].pc = "counted"
  BY Here DEF CountWrite, At, Placed, InTurn
<1>2. l.pc = "ready" /\ l.run = r
  BY <1>1, PlacesTo
<1>3. local'[p] = l
  BY DEF CountWrite, Goto, TypeInv, TypeOK
<1>4. Ahead(local[p]) = 6 /\ Ahead(local'[p]) = 14
  BY <1>1, <1>2, <1>3 DEF Ahead
<1>5. runs'[r].rounds = runs[r].rounds + 1
  BY <1>1 DEF CountWrite, SetWindow, Counted, WindowRow, Window
<1>6. runs[r].rounds \in Nat
  BY <1>1, LimitsAssumption DEF WindowRow, Window
<1> HIDE DEF l
<1>7. /\ RoundsLeft(local[p], runs) = MaxRounds - runs[r].rounds
      /\ RoundsLeft(local'[p], runs') = MaxRounds - runs'[r].rounds
  BY <1>1, <1>2, <1>3 DEF RoundsLeft
<1> QED
  BY <1>4, <1>5, <1>6, <1>7, LimitsAssumption DEF StepsLeft

\* Ctrl-C leads out, or to the close of the window once more.
LEMMA InterruptIsNear ==
  ASSUME TypeInv, Manned, [Next]_vars, NEW p \in Procs, Interrupt(p)
  PROVE  StepsLeft(p)' <= StepsLeft(p)
<1>1. local[p] \in Local /\ ~At(p, "idle") /\ Ahead(local[p]) \in 0 .. 14
  BY Here, AheadType DEF Interrupt, At
<1>2. Ahead(local[p]) >= 2
  BY DEF Interrupt, Ahead
<1>3. \/ Goto(p, Idle)
      \/ Goto(p, [local[p] EXCEPT !.pc = "closing", !.stop = "interrupt"])
  BY DEF Interrupt, Walk
<1>4. CASE Goto(p, Idle)
  <2>1. local'[p] = Idle
    BY <1>4 DEF Goto, TypeInv, TypeOK
  <2>2. Idle.pc = "idle" /\ Ahead(Idle) = 0
    BY DEF Idle, Ahead
  <2> QED
    BY <1>1, <1>2, <2>1, <2>2, Nearer
<1>5. CASE Goto(p, [local[p] EXCEPT !.pc = "closing", !.stop = "interrupt"])
  <2> DEFINE l == [local[p] EXCEPT !.pc = "closing", !.stop = "interrupt"]
  <2>1. local'[p] = l
    BY <1>5 DEF Goto, TypeInv, TypeOK
  <2>2. l.pc = "closing" /\ l.run = local[p].run /\ l.stop = "interrupt"
    BY <1>1, PlacesTo
  <2> HIDE DEF l
  <2>3. Ahead(l) = 2
    BY <2>2 DEF Ahead, Outside
  <2> QED
    BY <1>1, <1>2, <2>1, <2>2, <2>3, Nearer
<1> QED
  BY <1>3, <1>4, <1>5

\* The other steps a process does not take by itself lead it on too: a death leads out, and a
\* decision goes on with the call.
LEMMA OthersAreCloser ==
  ASSUME TypeInv, NEW p \in Procs, ~At(p, "idle"),
         Die(p) \/ \E approved \in BOOLEAN : Confirm(p, approved)
  PROVE  \E l : Goto(p, l) /\ Closer(p, l)
<1>1. local[p] \in Local /\ Placed(local[p], runs)
  BY Here
<1>2. Closer(p, Idle)
  BY OutIsCloser
<1>3. CASE Die(p)
  BY <1>2, <1>3 DEF Die, Walk
<1>4. ASSUME NEW approved \in BOOLEAN, Confirm(p, approved) PROVE \E l : Goto(p, l) /\ Closer(p, l)
  <2> DEFINE pc == IF approved THEN "calling" ELSE "refusing"
             l == [local[p] EXCEPT !.pc = pc]
  <2>1. Ahead(local[p]) = 12 /\ local[p].run # 0
    BY <1>1, <1>4 DEF Confirm, At, Ahead, Placed, InTurn
  <2>2. l.pc = pc /\ l.run = local[p].run
    BY <1>1, PlacesTo
  <2>3. Ahead(l) \in {10, 11}
    BY <2>1, <2>2 DEF Ahead
  <2>4. Closer(p, l) /\ Closer(p, Thrown(p))
    <3> HIDE DEF l
    <3> QED
      BY <2>1, <2>2, <2>3, OutIsCloser DEF Closer
  <2> QED
    BY <1>4, <2>4 DEF Confirm, Call
<1> QED
  BY <1>3, <1>4

\* Nobody has more steps left than a turn has, and only who is idle has none.
LEMMA StepsAreBounded == TypeInv => TurnsWithinBound
<1> SUFFICES ASSUME TypeInv, NEW p \in Procs
             PROVE  StepsLeft(p) \in 0 .. MostSteps /\ (StepsLeft(p) = 0 <=> At(p, "idle"))
  BY DEF TurnsWithinBound
<1>1. /\ local[p] \in Local /\ Placed(local[p], runs) /\ \A i \in DOMAIN runs : runs[i] \in WindowRow
  BY DEF TypeInv, TypeOK
<1>2. RoundsLeft(local[p], runs) \in 0 .. MaxRounds
  BY <1>1, RoundsLeftType
<1>3. Ahead(local[p]) \in 0 .. 14 /\ (Ahead(local[p]) = 0 <=> local[p].pc = "idle")
  BY <1>1, AheadType
<1>4. local[p].pc = "idle" => RoundsLeft(local[p], runs) = 0
  BY DEF RoundsLeft
<1> QED
  BY <1>2, <1>3, <1>4, LimitsAssumption DEF StepsLeft, MostSteps, At

\* A turn that goes on comes to its end, whatever others do to its task and its window
\* meanwhile: what run_turn and handle_event do next always leaves them fewer steps to take,
\* of fourteen and nine for each round, and no command, death or Ctrl-C adds one.
THEOREM TurnsAreShort == Spec => []TurnsWithinBound /\ TurnsShorten
<1>1. TypeInv /\ Manned /\ [Next]_vars =>
        [\A p \in Procs :
           /\ Work(p) => StepsLeft(p)' < StepsLeft(p)
           /\ ~At(p, "idle") => StepsLeft(p)' <= StepsLeft(p)]_vars
  <2> SUFFICES ASSUME TypeInv, Manned, [Next]_vars, NEW p \in Procs
               PROVE  /\ Work(p) => StepsLeft(p)' < StepsLeft(p)
                      /\ ~At(p, "idle") => StepsLeft(p)' <= StepsLeft(p)
    OBVIOUS
  <2>1. StepsLeft(p) \in Int /\ StepsLeft(p)' \in Int
    <3>1. TurnsWithinBound
      BY StepsAreBounded
    <3>2. /\ local'[p] \in Local /\ Placed(local'[p], runs')
          /\ \A i \in DOMAIN runs' : runs'[i] \in WindowRow
      BY TypeInvKept DEF TypeInv, TypeOK
    <3>3. RoundsLeft(local'[p], runs') \in 0 .. MaxRounds /\ Ahead(local'[p]) \in 0 .. 14
      BY <3>2, RoundsLeftType, AheadType
    <3> QED
      BY <3>1, <3>3, LimitsAssumption DEF TurnsWithinBound, MostSteps, StepsLeft
  <2>2. ASSUME NEW l, Goto(p, l), Closer(p, l) PROVE StepsLeft(p)' < StepsLeft(p)
    BY <2>2, CloserIsLess
  <2>3. CASE Work(p)
    <3>1. StepsLeft(p)' < StepsLeft(p)
      BY <2>2, <2>3, EntryIsCloser, LoopIsCloser, EndIsCloser, CountingIsLess DEF Work
    <3> QED
      BY <2>1, <3>1
  <2>4. CASE ~Work(p) /\ ~At(p, "idle")
    <3>1. CASE local'[p] = local[p]
      <4>1. local[p] \in Local
        BY Here
      <4>2. local[p].run \in {0, local'[p].run} /\ Ahead(local'[p]) <= Ahead(local[p])
        BY <3>1, <4>1, AheadType
      <4> QED
        BY <2>4, <4>2, Nearer
    <3>2. CASE Acts(p)
      <4>1. ~User(p)
        BY <2>4 DEF User, Command, Start, Message, ExpireDue, Expire, Pause, Resume, Cancel, HandOff,
           Decide
      <4>2. CASE Interrupt(p)
        BY <2>4, <4>2, InterruptIsNear
      <4>3. CASE ~Interrupt(p)
        <5>1. StepsLeft(p)' < StepsLeft(p)
          BY <2>2, <2>4, <3>2, <4>1, <4>3, OthersAreCloser DEF Acts
        <5> QED
          BY <2>1, <5>1
      <4> QED
        BY <4>2, <4>3
    <3>3. CASE Resting
      BY <3>1, <3>3, RestingKeeps
    <3> QED
      BY <3>1, <3>2, <3>3, ActsOrRests, OneGoes
  <2> QED
    BY <2>3, <2>4
<1> QED
  BY <1>1, TypeInvHolds, StepsAreBounded, PTL DEF Spec, TurnsShorten
==============================================================================
