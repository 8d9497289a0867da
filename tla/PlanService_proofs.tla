------------------------- MODULE PlanService_proofs -------------------------
(***************************************************************************)
(* For any plans, replans, effects and limits, whatever the user commands  *)
(* and whenever the process dies: a task never has more revisions than it  *)
(* has paid for, nor more continuations than its budget; its tables keep   *)
(* their types, with one active revision at most; an interrupted node is   *)
(* resumed only as its effects are found; and what the writes make of the  *)
(* plan, whatever the planner has written, is what PlanMachine allows.     *)
(*                                                                         *)
(* Where no process has died, and the planner writes no status of its own  *)
(* (Fresh), the task and its plan agree whenever no process is at work,    *)
(* and there is always a command that goes on.                             *)
(*                                                                         *)
(* TypeInv is what holds in any case, WayInv what needs Fresh: Nodes where *)
(* the one node that is on its way is, Closing that a plan and its task    *)
(* end together, Ways that what is left open can be taken up. Held is of   *)
(* Nodes what the refinement needs, and holds in any case.                 *)
(***************************************************************************)
EXTENDS PlanService, TableFacts, FiniteSetTheorems

TaskFields == {"status", "stop", "pending", "conts", "replans"}

MeFields == {"pc", "op", "auto", "guard", "turn", "node", "did", "doing", "out"}

\* The records have their fields, and the counters are numbers.
Shape ==
  /\ Fields(task, TaskFields) /\ task.replans \in Nat /\ task.conts \in Nat
  /\ Fields(me, MeFields)
  /\ IsSeq(revs)

\* A replan that is under way, or that may be gone on with, has been paid for and has not
\* made its revision.
Paid ==
  /\ Len(revs) <= task.replans + 1
  /\ me.op = "replan" => Len(revs) <= task.replans
  /\ me.pc = "store" => cp.request = "completed"
  /\ cp # None /\ cp.op = "replan" /\ cp.request = "failed" => Len(revs) <= task.replans

\* A continuation is counted only while one is left.
Left ==
  /\ task.conts <= MaxContinuations
  /\ me.pc = "pay" => task.conts < MaxContinuations
  /\ task.replans <= MaxReplans

PaidInv == Shape /\ Paid /\ Left

-----------------------------------------------------------------------------
\* A row that is written leaves the table as long as it was.
LEMMA RowWritten ==
  ASSUME IsSeq(revs), NEW row, SetRow(row)
  PROVE  IsSeq(revs') /\ Len(revs') = Len(revs)
  BY SameLength DEF SetRow

\* Nothing has been planned yet.
LEMMA PaidInit == Init => PaidInv
<1> SUFFICES ASSUME Init PROVE PaidInv
  OBVIOUS
<1>1. Fields(task, TaskFields) /\ task.replans \in Nat /\ task.conts \in Nat
  BY DEF Init, NoTask, Fields, TaskFields
<1>2. Fields(me, MeFields)
  BY DEF Init, Idle, Fields, MeFields
<1>3. IsSeq(revs)
  BY EmptySeq DEF Init, IsSeq
<1>4. Paid /\ Left
  BY LimitsAssumption DEF Init, Paid, Left, NoTask, Idle
<1> QED
  BY <1>1, <1>2, <1>3, <1>4 DEF PaidInv, Shape

-----------------------------------------------------------------------------
(* Steps that neither pay nor plan. *)

TaskKept ==
  /\ Fields(task', TaskFields)
  /\ task'.replans = task.replans /\ task'.conts = task.conts

RevsKept == IsSeq(revs') /\ Len(revs') = Len(revs)

MeMoved ==
  /\ Fields(me', MeFields)
  /\ me'.op \in {me.op, None, "initial"}
  /\ me'.pc \notin {"store", "pay"}

MeStays ==
  /\ Fields(me', MeFields) /\ me'.op = me.op /\ me'.pc = me.pc

CpKept == cp' = cp

\* Such steps keep what has been paid for.
LEMMA QuietStep ==
  ASSUME PaidInv, TaskKept, RevsKept,
         (MeMoved /\ (CpKept \/ cp' = None)) \/ (MeStays /\ CpKept)
  PROVE  PaidInv'
<1>1. Shape'
  BY DEF PaidInv, Shape, TaskKept, RevsKept, MeMoved, MeStays
<1>2. (me.op = "replan")' => me.op = "replan"
  BY NothingAssumption DEF MeMoved, MeStays
<1>3. Paid'
  BY <1>2 DEF PaidInv, Paid, TaskKept, RevsKept, MeMoved, MeStays, CpKept
<1>4. Left'
  BY DEF PaidInv, Left, TaskKept, MeMoved, MeStays
<1> QED
  BY <1>1, <1>3, <1>4 DEF PaidInv

\* Tables that are left alone.
LEMMA Untouched ==
  ASSUME PaidInv
  PROVE  /\ UNCHANGED task => TaskKept
         /\ UNCHANGED revs => RevsKept
         /\ UNCHANGED me => MeStays
  BY DEF PaidInv, Shape, TaskKept, RevsKept, MeStays

\* A row of the active revision.
LEMMA RowKept ==
  ASSUME PaidInv, NEW row, SetRow(row) PROVE RevsKept
  BY RowWritten DEF PaidInv, Shape, RevsKept

\* The process goes on, or is done.
LEMMA Moves ==
  ASSUME PaidInv
  PROVE  /\ \A pc : pc \notin {"store", "pay"} /\ Goto(pc) => MeMoved
         /\ me' = Idle => MeMoved
         /\ me' = ExecuteNext(TRUE) => MeMoved
         /\ Catch => MeMoved
<1>1. \A pc : pc \notin {"store", "pay"} /\ Goto(pc) => MeMoved
  BY FieldWritten DEF PaidInv, Shape, Goto, MeMoved, Fields, MeFields
<1>2. ASSUME me' = Idle PROVE MeMoved
  <2>1. Fields(me', MeFields)
    BY <1>2 DEF Idle, Fields, MeFields
  <2>2. me'.op = None /\ me'.pc = "idle"
    BY <1>2 DEF Idle
  <2> QED
    BY <2>1, <2>2 DEF MeMoved
<1>3. ASSUME me' = ExecuteNext(TRUE) PROVE MeMoved
  <2>1. Fields(me', MeFields)
    BY <1>3 DEF ExecuteNext, Idle, Fields, MeFields
  <2>2. me'.op = None /\ me'.pc = "execute"
    BY <1>3 DEF ExecuteNext, Idle
  <2> QED
    BY <2>1, <2>2 DEF MeMoved
<1>4. Catch => MeMoved
  BY <1>1, <1>2 DEF Catch, Handler
<1> QED
  BY <1>1, <1>2, <1>3, <1>4

-----------------------------------------------------------------------------
\* The executor moves the row and itself.
LEMMA ExecutingStep == PaidInv /\ Executing => PaidInv'
<1> SUFFICES ASSUME PaidInv, Executing
             PROVE (TaskKept /\ RevsKept /\ MeMoved /\ CpKept) \/ PaidInv'
  BY QuietStep
<1> USE Untouched, RowKept, Moves DEF CpKept, Counted
<1>1. CASE Execute
  BY <1>1 DEF Execute
<1>2. CASE LeaseTaken
  BY <1>2 DEF LeaseTaken, Throw
<1>3. CASE StopAt
  <2>1. MeMoved
    BY <1>3 DEF StopAt, MeMoved, PaidInv, Shape, Fields, MeFields
  <2> QED
    BY <1>3, <2>1 DEF StopAt
<1>4. CASE StartNode
  <2>1. MeMoved
    BY <1>4 DEF StartNode, MeMoved, PaidInv, Shape, Fields, MeFields
  <2> QED
    BY <1>4, <2>1 DEF StartNode
<1>5. CASE Close
  <2>1. MeMoved
    BY <1>5 DEF Close, MeMoved, PaidInv, Shape, Fields, MeFields
  <2> QED
    BY <1>5, <2>1 DEF Close
<1>6. CASE Write
  <2>1. MeMoved
    BY <1>6 DEF Write, MeMoved, PaidInv, Shape, Fields, MeFields
  <2> QED
    BY <1>6, <2>1 DEF Write
<1>7. CASE Skip
  <2>1. CASE UNCHANGED me
    <3>1. TaskKept /\ RevsKept /\ MeStays /\ CpKept
      BY <1>7, <2>1 DEF Skip, Goto
    <3> QED
      BY <3>1, QuietStep
  <2>2. CASE Goto("release") /\ UNCHANGED revs
    BY <1>7, <2>2 DEF Skip
  <2> QED
    BY <1>7, <2>1, <2>2 DEF Skip
<1>8. CASE Release
  BY <1>8 DEF Release
<1> QED
  BY <1>1, <1>2, <1>3, <1>4, <1>5, <1>6, <1>7, <1>8 DEF Executing

\* A turn may leave another task behind, but counts nothing.
LEMMA TurnStep == PaidInv /\ Turn => PaidInv'
<1> SUFFICES ASSUME PaidInv, Turn PROVE PaidInv'
  OBVIOUS
<1> USE Untouched DEF CpKept, Counted
<1>0. ASSUME NEW t, NEW out, EndTurn(t, out), Fields(t, TaskFields),
             t.replans = task.replans, t.conts = task.conts
      PROVE  PaidInv'
  <2>1. MeMoved
    BY <1>0, Moves DEF EndTurn, MeMoved, PaidInv, Shape, Fields, MeFields
  <2>2. TaskKept
    BY <1>0 DEF EndTurn, TaskKept
  <2> QED
    BY <1>0, <2>1, <2>2, QuietStep DEF EndTurn
<1>f. Fields(task, TaskFields)
  BY DEF PaidInv, Shape
<1>1. CASE TurnIdle
  <2>1. MeMoved
    BY <1>1 DEF TurnIdle, MeMoved, PaidInv, Shape, Fields, MeFields
  <2> QED
    BY <1>1, <2>1, QuietStep DEF TurnIdle
<1>2. CASE TurnBegins
  <2>1. MeMoved /\ cp' = None
    BY <1>2, Moves DEF TurnBegins
  <2> QED
    BY <1>2, <2>1, QuietStep DEF TurnBegins
<1>3. CASE Happen
  BY <1>3, QuietStep DEF Happen
<1>4. ASSUME NEW e \in Effects, Prepare(e) PROVE PaidInv'
  <2>1. MeStays
    BY <1>4 DEF Prepare, MeStays, PaidInv, Shape, Fields, MeFields
  <2> QED
    BY <1>4, <2>1, QuietStep DEF Prepare
<1>5. ASSUME NEW s, Complete(s) PROVE PaidInv'
  <2>1. MeStays \/ MeMoved
    BY <1>5 DEF Complete, At, MeStays, MeMoved, PaidInv, Shape, Fields, MeFields
  <2> QED
    BY <1>5, <2>1, QuietStep DEF Complete
<1>6. ASSUME NEW out, TurnEnds(out) PROVE PaidInv'
  <2>1. CASE me.turn # "plain"
    BY <1>0, <1>f, <1>6, <2>1 DEF TurnEnds
  <2>2. CASE me.turn = "plain"
    <3> DEFINE t == [task EXCEPT !.status = IF out = "failed" THEN "failed" ELSE "completed"]
    <3>1. Fields(t, TaskFields) /\ t.replans = task.replans /\ t.conts = task.conts
      BY <1>f DEF Fields, TaskFields
    <3>2. EndTurn(t, out)
      BY <1>6, <2>2 DEF TurnEnds
    <3> QED
      BY <1>0, <3>1, <3>2
  <2> QED
    BY <2>1, <2>2
<1>7. CASE TurnWindow
  <2> DEFINE t == [task EXCEPT !.status = "paused", !.stop = "window"]
  <2>1. Fields(t, TaskFields) /\ t.replans = task.replans /\ t.conts = task.conts
    BY <1>f DEF Fields, TaskFields
  <2>2. EndTurn(t, "paused")
    BY <1>7 DEF TurnWindow
  <2> QED
    BY <1>0, <2>1, <2>2
<1>8. CASE TurnPaused
  <2> DEFINE t == [task EXCEPT !.status = "paused"]
  <2>1. Fields(t, TaskFields) /\ t.replans = task.replans /\ t.conts = task.conts
    BY <1>f DEF Fields, TaskFields
  <2>2. EndTurn(t, "paused")
    BY <1>8 DEF TurnPaused
  <2> QED
    BY <1>0, <2>1, <2>2
<1>9. CASE TurnCancelled
  <2> DEFINE t == [task EXCEPT !.status = "cancelled", !.stop = "cancelled"]
  <2>1. Fields(t, TaskFields) /\ t.replans = task.replans /\ t.conts = task.conts
    BY <1>f DEF Fields, TaskFields
  <2>2. EndTurn(t, "failed")
    BY <1>9 DEF TurnCancelled
  <2> QED
    BY <1>0, <2>1, <2>2
<1>10. CASE TurnLost
  <2> DEFINE t == [task EXCEPT !.status = "failed", !.stop = "error"]
  <2>1. Fields(t, TaskFields) /\ t.replans = task.replans /\ t.conts = task.conts
    BY <1>f DEF Fields, TaskFields
  <2>2. EndTurn(t, "failed")
    BY <1>10 DEF TurnLost
  <2> QED
    BY <1>0, <2>1, <2>2
<1>11. ASSUME NEW kind, TurnAsks(kind) PROVE PaidInv'
  <2> DEFINE pending == [kind |-> kind, node |->
               IF me.turn \in {"node", "answered"} THEN me.node ELSE None]
             t == [task EXCEPT !.status = "waiting_user", !.pending = pending]
  <2>1. Fields(t, TaskFields) /\ t.replans = task.replans /\ t.conts = task.conts
    <3> HIDE DEF pending
    <3> QED
      BY <1>f DEF Fields, TaskFields
  <2>2. EndTurn(t, "waiting_approval")
    BY <1>11 DEF TurnAsks
  <2> QED
    BY <1>0, <2>1, <2>2
<1>12. CASE ApprovalRefused
  <2>1. MeMoved
    BY <1>12, Moves DEF ApprovalRefused
  <2> QED
    BY <1>12, <2>1, QuietStep DEF ApprovalRefused
<1> QED
  BY <1>1, <1>2, <1>3, <1>4, <1>5, <1>6, <1>7, <1>8, <1>9, <1>10, <1>11, <1>12 DEF Turn

-----------------------------------------------------------------------------
(* Steps that pay, or make what was paid for. *)

\* A replan of the service's own is paid for first.
LEMMA ReconcilingStep == PaidInv /\ Reconciling => PaidInv'
<1> SUFFICES ASSUME PaidInv, Reconciling PROVE PaidInv'
  OBVIOUS
<1> USE Untouched, RowKept, Moves DEF CpKept, Counted
<1>f. Fields(task, TaskFields) /\ Fields(me, MeFields)
  BY DEF PaidInv, Shape
<1>1. CASE AutoReplan
  <2>1. /\ Fields(task', TaskFields)
        /\ task'.replans = task.replans + 1 /\ task'.conts = task.conts
    BY <1>1, <1>f DEF AutoReplan, Fields, TaskFields
  <2>2. Fields(me', MeFields) /\ me'.op = "replan" /\ me'.pc = "request"
    BY <1>1, <1>f DEF AutoReplan, Fields, MeFields
  <2>3. Len(revs') = Len(revs) /\ IsSeq(revs') /\ cp' = cp
    BY <1>1 DEF AutoReplan, RevsKept
  <2>4. Shape'
    BY <2>1, <2>2, <2>3 DEF PaidInv, Shape
  <2>5. Len(revs) \in Nat
    BY LenProperties DEF PaidInv, Shape, IsSeq
  <2>6. Paid'
    BY <2>1, <2>2, <2>3, <2>5 DEF PaidInv, Paid, Shape
  <2>7. task.replans < MaxReplans
    BY <1>1 DEF AutoReplan, MayReplan
  <2>8. Left'
    BY <2>1, <2>2, <2>7, LimitsAssumption DEF PaidInv, Left, Shape
  <2> QED
    BY <2>4, <2>6, <2>8 DEF PaidInv
<1>2. CASE Finalize
  <2>1. MeMoved
    BY <1>2, <1>f DEF Finalize, MeMoved, Fields, MeFields
  <2> QED
    BY <1>2, <2>1, QuietStep DEF Finalize
<1>3. CASE Abandon
  BY <1>3, QuietStep DEF Abandon
<1>4. CASE Fail
  <2>1. TaskKept
    <3>1. CASE TaskOver
      <4>1. task' = task
        BY <1>4, <3>1 DEF Fail, TaskOver, Terminal
      <4> QED
        BY <4>1
    <3>2. CASE ~TaskOver /\ task.status = "running"
      <4>1. task' = [task EXCEPT !.status = "failed", !.stop = "error"]
        BY <1>4, <3>2 DEF Fail
      <4> QED
        BY <4>1, <1>f DEF TaskKept, Fields, TaskFields
    <3>3. CASE ~TaskOver /\ task.status # "running"
      <4>1. task' = [task EXCEPT !.status = "running", !.pending = None]
        BY <1>4, <3>3 DEF Fail
      <4> QED
        BY <4>1, <1>f DEF TaskKept, Fields, TaskFields
    <3> QED
      BY <3>1, <3>2, <3>3
  <2>2. MeMoved \/ MeStays
    BY <1>4 DEF Fail
  <2> QED
    BY <1>4, <2>1, <2>2, QuietStep DEF Fail
<1>5. CASE PauseForNode
  <2>1. TaskKept
    BY <1>5, <1>f DEF PauseForNode, TaskKept, Fields, TaskFields
  <2> QED
    BY <1>5, <2>1, QuietStep DEF PauseForNode
<1>6. CASE CompleteTask
  <2>1. TaskKept
    <3>1. CASE CanMoveTask("completed")
      BY <1>6, <1>f, <3>1 DEF CompleteTask, TaskKept, Fields, TaskFields
    <3>2. CASE ~CanMoveTask("completed")
      BY <1>6, <3>2 DEF CompleteTask
    <3> QED
      BY <3>1, <3>2
  <2> QED
    BY <1>6, <2>1, QuietStep DEF CompleteTask
<1>7. CASE Leave
  BY <1>7, QuietStep DEF Leave
<1> QED
  BY <1>1, <1>2, <1>3, <1>4, <1>5, <1>6, <1>7 DEF Reconciling

\* A resumed task pays for its window, if one is left.
LEMMA ResumingStep ==
  PaidInv /\ (Settle \/ Pay \/ Requeue \/ Die \/ Unwind \/ \E r \in DOMAIN revs : Lapse(r))
    => PaidInv'
<1> SUFFICES ASSUME PaidInv,
                    Settle \/ Pay \/ Requeue \/ Die \/ Unwind \/ \E r \in DOMAIN revs : Lapse(r)
             PROVE  PaidInv'
  OBVIOUS
<1> USE Untouched, RowKept, Moves DEF CpKept, Counted
<1>f. Fields(task, TaskFields) /\ Fields(me, MeFields)
  BY DEF PaidInv, Shape
<1>1. CASE Settle
  BY <1>1, QuietStep DEF Settle
<1>2. CASE Pay
  <2>1. /\ Fields(task', TaskFields)
        /\ task'.replans = task.replans /\ task'.conts = task.conts + 1
    BY <1>2, <1>f DEF Pay, Fields, TaskFields
  <2>2. MeMoved
    BY <1>2 DEF Pay
  <2>3. Len(revs') = Len(revs) /\ IsSeq(revs') /\ cp' = cp
    BY <1>2 DEF Pay, RevsKept
  <2>4. Shape'
    BY <2>1, <2>2, <2>3 DEF PaidInv, Shape, MeMoved
  <2>5. Paid'
    BY <2>1, <2>2, <2>3, NothingAssumption DEF PaidInv, Paid, MeMoved
  <2>6. Left'
    BY <1>2, <2>1, <2>2, LimitsAssumption DEF PaidInv, Left, Shape, MeMoved, Pay, At
  <2> QED
    BY <2>4, <2>5, <2>6 DEF PaidInv
<1>3. CASE Requeue
  BY <1>3, QuietStep DEF Requeue
<1>4. CASE Die
  <2>1. RevsKept
    BY <1>4, SameLength DEF Die, RevsKept, PaidInv, Shape
  <2> QED
    BY <1>4, <2>1, QuietStep DEF Die
<1>5. ASSUME NEW r \in DOMAIN revs, Lapse(r) PROVE PaidInv'
  <2>1. RevsKept
    <3>1. revs' = [i \in DOMAIN revs |-> revs'[i]]
      BY <1>5 DEF Lapse
    <3> QED
      BY <3>1, SameLength DEF RevsKept, PaidInv, Shape
  <2> QED
    BY <1>5, <2>1, QuietStep DEF Lapse
<1>6. CASE Unwind
  <2>1. RevsKept
    BY <1>6, SameLength DEF Unwind, RevsKept, PaidInv, Shape
  <2> QED
    BY <1>6, <2>1, QuietStep DEF Unwind
<1> QED
  BY <1>1, <1>2, <1>3, <1>4, <1>5, <1>6

\* A planner's checkpoint tells what became of the request, and only a plan that was made
\* becomes a revision.
LEMMA PlanningStep == PaidInv /\ Planning => PaidInv'
<1> SUFFICES ASSUME PaidInv, Planning PROVE PaidInv'
  OBVIOUS
<1> USE Untouched, Moves DEF Counted
<1>f. Fields(task, TaskFields) /\ Fields(me, MeFields)
  BY DEF PaidInv, Shape
<1>g. ASSUME NEW status, NEW pc, PlannerSays(status), Goto(pc), UNCHANGED <<task, revs>>,
             pc # "pay", pc = "store" => status = "completed"
      PROVE  PaidInv'
  <2>1. Fields(me', MeFields) /\ me'.op = me.op /\ me'.pc = pc
    BY <1>f, <1>g DEF Goto, Fields, MeFields
  <2>2. cp'.op = me.op /\ cp'.request = status
    BY <1>g DEF PlannerSays
  <2>3. Shape'
    BY <1>g, <2>1 DEF PaidInv, Shape
  <2>4. Paid' /\ Left'
    BY <1>g, <2>1, <2>2 DEF PaidInv, Paid, Left
  <2> QED
    BY <2>3, <2>4 DEF PaidInv
<1>1. CASE Request
  BY <1>1, <1>g DEF Request
<1>2. CASE PlanMade
  BY <1>2, <1>g DEF PlanMade
<1>3. CASE PlanRefused
  BY <1>3, <1>g DEF PlanRefused
<1>4. CASE PlanRaised
  <2>1. cp'.op = me.op /\ MeMoved
    BY <1>4 DEF PlanRaised, PlannerSays
  <2>2. Shape'
    BY <1>4, <2>1 DEF PlanRaised, PaidInv, Shape, MeMoved
  <2>3. Paid' /\ Left'
    BY <1>4, <2>1, NothingAssumption DEF PlanRaised, PaidInv, Paid, Left, MeMoved
  <2> QED
    BY <2>2, <2>3 DEF PaidInv
<1>5. CASE PauseForPlanner
  <2>1. TaskKept
    <3>1. ASSUME task' = [task EXCEPT !.status = "paused", !.stop = Reason(me.op)]
          PROVE  TaskKept
      BY <3>1, <1>f DEF TaskKept, Fields, TaskFields
    <3> QED
      BY <1>5, <3>1 DEF PauseForPlanner
  <2> QED
    BY <1>5, <2>1, QuietStep DEF PauseForPlanner, CpKept
<1>6. CASE Unpause
  <2>1. TaskKept
    BY <1>6, <1>f DEF Unpause, TaskKept, Fields, TaskFields
  <2> QED
    BY <1>6, <2>1, QuietStep DEF Unpause, CpKept
<1>7. ASSUME NEW g, Store(g), me.op \in {"initial", "replan"} PROVE PaidInv'
  <2> DEFINE closed == [revs EXCEPT ![Cur] = ClosedAs(@, "superseded")]
  <2>1. /\ Fields(me', MeFields) /\ me'.op = None
        /\ me'.pc \in {"unpause", "execute"} /\ cp' = cp
    BY <1>7, <1>f DEF Store, Fields, MeFields
  <2>2. cp.request = "completed"
    BY <1>7 DEF Store, At, PaidInv, Paid
  <2>3. CASE me.op = "initial"
    <3> DEFINE row == NewRevision(g, NoResults(g))
    <3>1. revs = <<>> /\ revs' = Append(<<>>, row)
      BY <1>7, <2>3 DEF Store
    <3>2. IsSeq(revs') /\ Len(revs') = Len(revs) + 1
      BY <3>1, OneMore DEF PaidInv, Shape
    <3>3. Len(revs') = 1
      BY <3>1, <3>2, EmptySeq
    <3>4. Paid'
      BY <1>7, <2>1, <2>2, <3>3, NothingAssumption DEF PaidInv, Shape, Paid, Store
    <3> QED
      BY <1>7, <2>1, <3>2, <3>4 DEF PaidInv, Shape, Left, Store
  <2>4. CASE me.op = "replan"
    <3>1. revs' = Append(closed, Successor(Row, g))
      BY <1>7, <2>4 DEF Store
    <3>2. IsSeq(closed) /\ Len(closed) = Len(revs)
      BY SameLength DEF PaidInv, Shape
    <3>3. IsSeq(revs') /\ Len(revs') = Len(revs) + 1
      <4> HIDE DEF closed
      <4> QED
        BY <3>1, <3>2, OneMore
    <3>4. Len(revs) \in Nat
      BY LenProperties DEF PaidInv, Shape, IsSeq
    <3>5. Paid'
      BY <1>7, <2>1, <2>2, <2>4, <3>3, <3>4, NothingAssumption
         DEF PaidInv, Shape, Paid, Store
    <3> QED
      BY <1>7, <2>1, <3>3, <3>5 DEF PaidInv, Shape, Left, Store
  <2> QED
    BY <1>7, <2>3, <2>4
<1>8. ASSUME NEW g, StoreRefused(g) PROVE PaidInv'
  BY <1>8, QuietStep DEF StoreRefused, Throw, CpKept
<1> QED
  BY <1>1, <1>2, <1>3, <1>4, <1>5, <1>6, <1>7, <1>8 DEF Planning

\* What the user asks for is paid for, if it is to be paid for.
LEMMA CommandStep == PaidInv /\ Commands => PaidInv'
<1> SUFFICES ASSUME PaidInv, Commands PROVE PaidInv'
  OBVIOUS
<1> USE Untouched, RowKept, Moves DEF CpKept
<1>f. Fields(task, TaskFields) /\ Fields(me, MeFields)
  BY DEF PaidInv, Shape
<1>t. ASSUME NEW s, task' = [task EXCEPT !.status = s] PROVE TaskKept
  BY <1>f, <1>t DEF TaskKept, Fields, TaskFields
<1>u. ASSUME NEW s, NEW x, task' = [task EXCEPT !.status = s, !.pending = x] PROVE TaskKept
  BY <1>f, <1>u DEF TaskKept, Fields, TaskFields
<1>1. CASE Start
  <2>1. MeMoved
    <3>1. Fields(me', MeFields)
      BY <1>1 DEF Start, Idle, Fields, MeFields
    <3>2. me'.op = "initial" /\ me'.pc = "request"
      BY <1>1 DEF Start, Idle
    <3> QED
      BY <3>1, <3>2 DEF MeMoved
  <2> QED
    BY <1>1, <1>t, <2>1, QuietStep DEF Start
<1>2. CASE Continue
  BY <1>2, QuietStep DEF Continue
<1>3. CASE ContinuePlanner
  <2>1. CASE ContinuationLeft
    <3>1. /\ Fields(task', TaskFields)
          /\ task'.replans = task.replans /\ task'.conts = task.conts + 1
      BY <1>3, <1>f, <2>1 DEF ContinuePlanner, Fields, TaskFields
    <3>2. Fields(me', MeFields) /\ me'.op = cp.op /\ me'.pc = "request"
      BY <1>3, <2>1 DEF ContinuePlanner, Idle, Fields, MeFields
    <3>3. Len(revs') = Len(revs) /\ IsSeq(revs') /\ cp' = cp
      BY <1>3 DEF ContinuePlanner, RevsKept
    <3>4. cp # None /\ cp.request = "failed"
      BY <1>3 DEF ContinuePlanner, PlannerRecoverable
    <3>5. Shape'
      BY <3>1, <3>2, <3>3 DEF PaidInv, Shape
    <3>6. Paid'
      BY <3>1, <3>2, <3>3, <3>4 DEF PaidInv, Paid
    <3>7. Left'
      BY <2>1, <3>1, <3>2, LimitsAssumption DEF PaidInv, Shape, Left, ContinuationLeft
    <3> QED
      BY <3>5, <3>6, <3>7 DEF PaidInv
  <2>2. CASE ~ContinuationLeft
    <3>1. MeMoved
      <4>1. me' = [Idle EXCEPT !.pc = "abandon"]
        BY <1>3, <2>2 DEF ContinuePlanner
      <4>2. Fields(me', MeFields)
        BY <4>1 DEF Idle, Fields, MeFields
      <4>3. me'.op = None /\ me'.pc = "abandon"
        BY <4>1 DEF Idle
      <4> QED
        BY <4>2, <4>3 DEF MeMoved
    <3> QED
      BY <1>3, <2>2, <3>1, QuietStep DEF ContinuePlanner
  <2> QED
    BY <2>1, <2>2
<1>4. CASE ResumePaused
  <2>1. CASE Charged /\ ~ContinuationLeft
    <3>1. me' = [Idle EXCEPT !.pc = "fail"] /\ UNCHANGED task
      BY <1>4, <2>1 DEF ResumePaused
    <3>2. Fields(me', MeFields)
      BY <3>1 DEF Idle, Fields, MeFields
    <3>3. me'.op = None /\ me'.pc = "fail"
      BY <3>1 DEF Idle
    <3>4. MeMoved
      BY <3>2, <3>3 DEF MeMoved
    <3> QED
      BY <1>4, <3>1, <3>4, QuietStep DEF ResumePaused
  <2>2. CASE ~(Charged /\ ~ContinuationLeft)
    <3>1. /\ task' = [task EXCEPT !.status = "running"]
          /\ me' = [ExecuteNext(TRUE) EXCEPT !.pc = IF Charged THEN "pay" ELSE "requeue"]
      BY <1>4, <2>2 DEF ResumePaused
    <3>2. Fields(me', MeFields)
      BY <3>1 DEF ExecuteNext, Idle, Fields, MeFields
    <3>3. me'.op = None /\ me'.pc = IF Charged THEN "pay" ELSE "requeue"
      BY <3>1 DEF ExecuteNext, Idle
    <3>4. TaskKept /\ RevsKept /\ CpKept
      BY <1>4, <1>t, <3>1 DEF ResumePaused
    <3>5. Shape'
      BY <3>2, <3>4 DEF PaidInv, Shape, TaskKept, RevsKept
    <3>6. Paid'
      BY <3>3, <3>4, NothingAssumption DEF PaidInv, Paid, TaskKept, RevsKept, CpKept
    <3>7. Left'
      BY <2>2, <3>3, <3>4 DEF PaidInv, Left, TaskKept, ContinuationLeft
    <3> QED
      BY <3>5, <3>6, <3>7 DEF PaidInv
  <2> QED
    BY <2>1, <2>2
<1>5. CASE AcceptInterrupted
  BY <1>5, QuietStep DEF AcceptInterrupted
<1>6. CASE Answer
  <2>1. me' = [ExecuteNext(TRUE) EXCEPT !.node = FirstOf(With(Row.graph, "waiting_approval")),
                                        !.turn = "answered", !.pc = "turn"]
    BY <1>6 DEF Answer
  <2>2. Fields(me', MeFields)
    BY <2>1 DEF ExecuteNext, Idle, Fields, MeFields
  <2>3. me'.op = None /\ me'.pc = "turn"
    BY <2>1 DEF ExecuteNext, Idle
  <2>4. MeMoved
    BY <2>2, <2>3 DEF MeMoved
  <2> QED
    BY <1>6, <1>u, <2>4, QuietStep DEF Answer
<1>7. CASE ReplanCommand
  <2>1. /\ Fields(task', TaskFields)
        /\ task'.replans = task.replans + 1 /\ task'.conts = task.conts
    BY <1>7, <1>f DEF ReplanCommand, Fields, TaskFields
  <2>2. Fields(me', MeFields) /\ me'.op = "replan" /\ me'.pc = "request"
    BY <1>7 DEF ReplanCommand, Idle, Fields, MeFields
  <2>3. Len(revs') = Len(revs) /\ IsSeq(revs') /\ cp' = cp
    BY <1>7 DEF ReplanCommand, RevsKept
  <2>4. Shape'
    BY <2>1, <2>2, <2>3 DEF PaidInv, Shape
  <2>5. Len(revs) \in Nat
    BY LenProperties DEF PaidInv, Shape, IsSeq
  <2>6. Paid'
    BY <2>1, <2>2, <2>3, <2>5 DEF PaidInv, Paid, Shape
  <2>7. task.replans < MaxReplans
    BY <1>7 DEF ReplanCommand
  <2>8. Left'
    BY <2>1, <2>2, <2>7, LimitsAssumption DEF PaidInv, Left, Shape
  <2> QED
    BY <2>4, <2>6, <2>8 DEF PaidInv
<1>8. CASE PauseTask
  <2>1. MeMoved
    BY <1>8, <1>f DEF PauseTask, At, MeMoved
  <2> QED
    BY <1>8, <1>t, <2>1, QuietStep DEF PauseTask
<1>9. CASE CancelTask
  <2>1. TaskKept
    BY <1>9, <1>f DEF CancelTask, TaskKept, Fields, TaskFields
  <2> QED
    BY <1>9, <2>1, QuietStep DEF CancelTask
<1>10. ASSUME NEW a \in rows, Resolve(a) PROVE PaidInv'
  <2>1. UNCHANGED <<task, revs, cp, me>>
    BY <1>10 DEF Resolve
  <2> QED
    BY <2>1, QuietStep
<1>11. ASSUME NEW looked \in BOOLEAN, RewindInterrupted(looked) PROVE PaidInv'
  BY <1>11, QuietStep DEF RewindInterrupted
<1>12. ASSUME NEW approved \in BOOLEAN, Decide(approved) PROVE PaidInv'
  <2>1. PICK n, t : me' = [ExecuteNext(TRUE) EXCEPT !.node = n, !.turn = t, !.pc =
                  IF approved /\ task.pending.kind = "tool_approval" THEN "approved" ELSE "turn"]
    BY <1>12 DEF Decide
  <2>2. Fields(me', MeFields)
    BY <2>1 DEF ExecuteNext, Idle, Fields, MeFields
  <2>3. me'.op = None /\ me'.pc \in {"approved", "turn"}
    BY <2>1 DEF ExecuteNext, Idle
  <2>4. MeMoved
    BY <2>2, <2>3 DEF MeMoved
  <2> QED
    BY <1>12, <1>u, <2>4, QuietStep DEF Decide
<1> QED
  BY <1>1, <1>2, <1>3, <1>4, <1>5, <1>6, <1>7, <1>8, <1>9, <1>10, <1>11, <1>12 DEF Commands

\* Every step keeps what has been paid for.
LEMMA PaidStep == PaidInv /\ [Next]_vars => PaidInv'
<1> SUFFICES ASSUME PaidInv, [Next]_vars PROVE PaidInv'
  OBVIOUS
<1>1. CASE UNCHANGED vars
  <2>1. UNCHANGED <<task, revs, cp, me>>
    BY <1>1 DEF vars
  <2> QED
    BY <2>1, Untouched, QuietStep DEF CpKept
<1> QED
  BY <1>1, CommandStep, PlanningStep, ExecutingStep, TurnStep, ReconcilingStep, ResumingStep
     DEF Next

\* A task has no more revisions than it has paid replans for, besides its first plan: a
\* replan that fails, is gone on with, or is cut off by a death makes none for free.
THEOREM RevisionsArePaid == Spec => []ReplansPaid
<1>1. PaidInv => ReplansPaid
  BY DEF PaidInv, Paid, ReplansPaid
<1> QED
  BY PaidInit, PaidStep, <1>1, PTL DEF Spec

\* Replans and continuations stay within their budgets, though a continuation is compared
\* with its limit in one step and counted in a later one (resume, consume_continuation).
THEOREM BudgetsKept ==
  Spec => [](task.conts <= MaxContinuations /\ task.replans <= MaxReplans)
<1>1. PaidInv => task.conts <= MaxContinuations /\ task.replans <= MaxReplans
  BY DEF PaidInv, Left
<1> QED
  BY PaidInit, PaidStep, <1>1, PTL DEF Spec

-----------------------------------------------------------------------------
(* The task, its plan, and the process between them. *)

\* The fields of a row of plan_revisions.
RowFields == {"status", "graph", "results", "version", "owner", "lease", "live"}

\* A row of the task's plan, and the last of them, if it is the active one.
RowOk(row) ==
  /\ Fields(row, RowFields)
  /\ row.status \in RevisionStatus /\ row.owner \in {None, Gone, Me}
  /\ IsPlanGraph(row.graph) /\ NodesOf(row.graph) \subseteq DOMAIN EffectsOf

Table ==
  \A r \in DOMAIN revs : RowOk(revs[r]) /\ (revs[r].status = "active" => r = Len(revs))

Latest == revs[Len(revs)]

Planned == revs # <<>> /\ Latest.status = "active"

\* Where the process is in the planner phase, in the executor, in a turn.
Phase == {"request", "planning", "preserve", "store"}

AtWork == {"unpause", "execute", "loop", "skip", "release", "requeue", "pay"}

Turning == {"turn", "acting", "approved"}

UserTurn == {"approved", "rejected", "answered"}

TaskTyped ==
  /\ task.status \in {"absent", "running", "waiting_user", "paused"} \cup Terminal
  /\ task.pending \in {None} \cup Questions
  /\ task.status = "waiting_user" <=> task.pending # None
  /\ task.status = "absent" => me.pc = "idle" /\ revs = <<>>

\* A process works on a plan that is active, on a node of its; one that plans anew has not
\* yet replaced it.
Placed ==
  /\ me.op \in {None, "initial", "replan"} /\ me.auto \in BOOLEAN
  /\ cp \in {None} \cup Checkpoints
  /\ me.pc \in AtWork => Planned
  /\ me.pc \in Phase => \/ me.op = "replan" /\ Planned
                        \/ me.op = "initial" /\ revs = <<>>
  /\ me.pc \in Turning =>
       /\ me.turn \in UserTurn \cup {"node", "plain"}
       /\ me.turn # "plain" => Planned /\ me.node \in NodesOf(Latest.graph)
       /\ me.turn # "node" \/ me.pc = "acting" => task.status = "running"
       /\ me.pc = "approved" => me.turn \in {"approved", "plain"}
  /\ me.pc \in {"write", "settle"} =>
       /\ Planned /\ me.node \in NodesOf(Latest.graph)
       /\ IF me.pc = "write" THEN me.turn = "node" ELSE me.turn \in UserTurn
       /\ me.out \in {"completed", "failed", "waiting_approval", "paused"}
  /\ me.pc \in {"pay", "requeue"} => task.status = "running"
  /\ me.pc = "unpause" => me.guard = "continue"
  /\ me.pc = "skip" => me.out = "failed"
  /\ me.pc = "release" => me.out # "completed"
  /\ me.pc = "reconcile" => revs # <<>>
  /\ me.pc = "reconcile" /\ me.out = "completed" => Latest.status = "completed"

Effected == [node |-> Scope, of |-> me.doing, status |-> "executing"]

\* What is there was recorded before, of the node whose effect it is if of any; what is
\* recorded as done is there.
Recording ==
  /\ rows \subseteq [node : DOMAIN EffectsOf \cup {None}, of : Effects,
                     status : {"executing", "succeeded", "failed", "uncertain"}]
  /\ \A a \in rows : a.status = "succeeded" => a.of \in world
  /\ \A e \in world : \E a \in rows :
       a.of = e /\ a.status # "failed" /\ (a.node # None => e \in EffectsOf[a.node])
  /\ me.doing # None =>
       /\ me.pc \in {"acting", "approved"}
       /\ Effected \in rows /\ me.doing \in EffectsOf[me.node]

-----------------------------------------------------------------------------
\* The nodes of the last plan that are not as a plan begins or ends with them: one at most,
\* and where the process is tells which.
NodesOk ==
  LET g == Latest.graph
      running == With(g, "running")
      waiting == With(g, "waiting_approval")
      paused == With(g, "paused")
  IN  /\ \A m, n \in running \cup waiting \cup paused : m = n
      /\ me.pc \in {"execute", "loop"} => running \cup paused = {}
      /\ me.pc = "unpause" => running \cup waiting \cup paused = {}
      /\ me.pc \in {"pay", "requeue"} => running \cup waiting = {}
      /\ me.pc \in Turning \cup {"write"} /\ me.turn = "node" => me.node \in running
      /\ me.pc \in Turning \cup {"settle"} /\ me.turn \in UserTurn => me.node \in waiting
      /\ me.pc \in {"release", "reconcile"} =>
           me.out \in {"failed", "paused"} \/ (me.out = "waiting_approval" /\ waiting # {})

\* What the turn came to goes with what it left of the task.
OutOk ==
  /\ me.pc = "write" /\ me.out = "paused" => task.status \in {"running", "paused"}
  /\ me.pc = "write" /\ task.pending # None => me.out = "waiting_approval"
  /\ me.pc \in {"release", "reconcile"} /\ task.pending # None /\ Planned => me.out # "paused"
  /\ me.pc = "settle" /\ me.out = "waiting_approval" => task.status = "waiting_user"

Nodes == (Planned => NodesOk) /\ OutOk

\* While no process dies.
Closing ==
  /\ task.status = "completed" => revs # <<>> /\ Latest.status = "completed"
  /\ me.pc = "idle" /\ revs # <<>> /\ ~Planned => TaskOver \/ LeftBehind
  /\ task.status = "failed" /\ Planned =>
        \/ me.pc \in {"execute", "loop"} /\ With(Latest.graph, "failed") # {}
        \/ me.pc \in {"write", "skip", "release", "reconcile", "settle"} /\ me.out = "failed"
        \/ me.pc \in {"abandon", "fail"} /\ me.guard # "continue"
  /\ me.pc = "fail" /\ me.guard = "continue" => ~Planned
  /\ me.pc \in Turning /\ me.turn = "plain" => revs # <<>> /\ Latest.status = "completed"
  /\ me.pc = "reconcile" /\ ~Planned => me.out \in {"failed", "completed"}

InLease ==
  me.pc \in {"loop", "write", "skip", "release"} \/ (me.pc \in Turning /\ me.turn = "node")

Ways ==
  /\ Planned =>
       LET waiting == With(Latest.graph, "waiting_approval")
       IN  /\ task.pending # None /\ (me.pc = "idle" \/ (me.pc \in Phase /\ me.guard # "auto"))
                => waiting # {}
           /\ task.status = "running" /\ (me.pc = "idle" \/ (me.pc \in Phase /\ me.guard = "none"))
                => waiting # {}
           /\ ~InLease => Latest.owner = None /\ ~Latest.live
           /\ With(Latest.graph, "paused") # {} =>
                \/ TaskOver \/ task.status = "paused"
                \/ me.pc \in {"pay", "requeue", "abandon", "fail"}
                \/ me.pc \in {"release", "reconcile"} /\ me.out = "paused" /\ task.status = "running"
  /\ revs = <<>> =>
       /\ me.pc = "idle" /\ task.status \in Active =>
            PlannerRecoverable \/ (task.status = "paused" /\ task.stop = None)
       /\ task.status = "absent" => task.stop = None
       /\ me.pc \in Phase =>
            \/ me.guard = "start"
                 /\ \/ task.status = "cancelled"
                    \/ task.status \in {"running", "paused"} /\ task.stop = None
            \/ me.guard = "continue"
                 /\ \/ task.status = "cancelled"
                    \/ task.status = "paused" /\ task.stop = Reason("initial")
       /\ me.pc = "preserve" => cp # None /\ cp.op = "initial" /\ cp.request = "failed"

-----------------------------------------------------------------------------
(* The table, as its last row. *)

\* The rows are numbered, the last one is there unless none is, and it alone can be active.
LEMMA LastRow ==
  ASSUME IsSeq(revs), Table
  PROVE  /\ DOMAIN revs = 1 .. Len(revs) /\ Len(revs) \in Nat
         /\ revs # <<>> <=> Len(revs) \in DOMAIN revs
         /\ revs # <<>> => RowOk(Latest)
         /\ Planned <=> HasActive
         /\ Planned => /\ Cur = Len(revs) /\ Row = Latest /\ Len(revs) \in DOMAIN revs
                       /\ RowOk(Latest)
<1>1. DOMAIN revs = 1 .. Len(revs) /\ Len(revs) \in Nat
  BY Numbered
<1>2. revs # <<>> <=> Len(revs) # 0
  BY EmptySeq DEF IsSeq
<1>3. revs # <<>> <=> Len(revs) \in DOMAIN revs
  BY <1>1, <1>2
<1>4. \A r \in ActiveRevs : r = Len(revs) /\ Planned
  BY <1>1, <1>3 DEF ActiveRevs, Table, Planned, Latest
<1>5. Planned => Len(revs) \in ActiveRevs
  BY <1>3 DEF ActiveRevs, Planned, Latest
<1>6. Planned <=> HasActive
  BY <1>4, <1>5 DEF HasActive
<1>7. Planned => Cur = Len(revs)
  BY <1>4, <1>5 DEF Cur
<1> QED
  BY <1>1, <1>3, <1>6, <1>7 DEF Table, Row, Latest, Planned

\* The fields of a row are there.
LEMMA RowDomain == ASSUME NEW row, Fields(row, RowFields) PROVE DOMAIN row = RowFields
  BY DEF Fields

\* The first of some nodes is one of them, and none of them comes before it.
LEMMA FirstOfIsIn ==
  ASSUME NEW S \in SUBSET Nat, S # {}
  PROVE  FirstOf(S) \in S /\ \A m \in S : FirstOf(S) <= m
<1>1. \E n \in S : \A m \in S : n <= m
  BY LeastNumber
<1> QED
  BY <1>1 DEF FirstOf

\* The table a step leaves, if it writes no more than the last row.
TableSet(new) ==
  /\ RevsKept /\ Table' /\ revs # <<>> /\ revs' # <<>> /\ Planned
  /\ Latest' = new /\ (Planned' <=> new.status = "active")

\* What is written is the last row, and the others stay.
LEMMA LastRowSet ==
  ASSUME IsSeq(revs), Table, HasActive, NEW new, RowOk(new), SetRow(new)
  PROVE  TableSet(new)
<1>1. /\ Planned /\ Cur = Len(revs) /\ Len(revs) \in DOMAIN revs /\ revs # <<>>
      /\ DOMAIN revs = 1 .. Len(revs) /\ Len(revs) \in Nat
  BY LastRow
<1>2. revs' = [revs EXCEPT ![Len(revs)] = new]
  BY <1>1 DEF SetRow
<1>3. IsSeq(revs') /\ Len(revs') = Len(revs)
  BY RowWritten
<1>4. DOMAIN revs' = DOMAIN revs /\ Latest' = new
  BY <1>1, <1>2, <1>3 DEF Latest
<1>5. revs' # <<>>
  BY <1>1, <1>3, <1>4, EmptySeq
<1>6. Table'
  BY <1>1, <1>2, <1>3 DEF Table
<1> QED
  BY <1>1, <1>3, <1>4, <1>5, <1>6 DEF TableSet, RevsKept, Planned

-----------------------------------------------------------------------------
(* What a step makes of the plan. *)

\* The plan stays as it is.
PlanStays ==
  /\ RevsKept /\ Table' /\ (revs' = <<>> <=> revs = <<>>) /\ (Planned' <=> Planned)
  /\ revs # <<>> => Latest'.status = Latest.status /\ Latest'.graph = Latest.graph

\* So does its lease.
LeaseStays == Latest'.owner = Latest.owner /\ Latest'.live = Latest.live

\* h is g with the status s of node n.
GraphGoes(g, h, n, s) ==
  /\ NodesOf(h) = NodesOf(g)
  /\ \A t : With(h, t) = IF t = s THEN With(g, t) \cup {n} ELSE With(g, t) \ {n}

\* A node of the plan is moved.
NodeGoes(n, s) ==
  /\ RevsKept /\ Table' /\ revs # <<>> /\ revs' # <<>> /\ Planned /\ Planned'
  /\ Latest'.status = "active" /\ GraphGoes(Latest.graph, Latest'.graph, n, s)

\* The plan is closed.
PlanCloses(s) ==
  /\ RevsKept /\ Table' /\ revs # <<>> /\ revs' # <<>> /\ Planned /\ ~Planned'
  /\ Latest'.status = s

\* A plan is made.
PlanOpens ==
  /\ IsSeq(revs') /\ Table' /\ revs' # <<>> /\ Planned' /\ Latest'.status = "active"
  /\ Latest'.owner = None /\ Latest'.live = FALSE

\* Nothing is written.
LEMMA PlanUntouched ==
  ASSUME IsSeq(revs), Table, UNCHANGED revs
  PROVE  PlanStays /\ LeaseStays
<1>1. Latest' = Latest /\ Len(revs') = Len(revs)
  BY DEF Latest
<1>2. Table' /\ (Planned' <=> Planned)
  BY <1>1 DEF Table, Planned
<1> QED
  BY <1>1, <1>2 DEF PlanStays, LeaseStays, RevsKept

\* What is written of a node is of a plan.
LEMMA GraphMoved ==
  ASSUME NEW g, IsPlanGraph(g), NEW n \in NodesOf(g), NEW s \in NodeStatus
  PROVE  LET h == WithNodeStatus(g, n, s)
         IN  IsPlanGraph(h) /\ GraphGoes(g, h, n, s)
<1> DEFINE h == WithNodeStatus(g, n, s)
<1>1. h.status = [g.status EXCEPT ![n] = s] /\ DOMAIN h = DOMAIN g
  BY DEF WithNodeStatus, IsPlanGraph
<1>2. NodesOf(h) = NodesOf(g)
  BY <1>1 DEF NodesOf
<1> HIDE DEF h
<1>3. IsPlanGraph(h)
  BY <1>1, <1>2 DEF IsPlanGraph
<1>4. \A m \in NodesOf(g) : h.status[m] = IF m = n THEN s ELSE g.status[m]
  BY <1>1 DEF IsPlanGraph
<1>5. ASSUME NEW t
      PROVE  With(h, t) = IF t = s THEN With(g, t) \cup {n} ELSE With(g, t) \ {n}
  BY <1>2, <1>4 DEF With
<1> QED
  BY <1>2, <1>3, <1>5 DEF h, GraphGoes

RowGoes(row, new, n, s) ==
  /\ RowOk(new) /\ GraphGoes(row.graph, new.graph, n, s)
  /\ new.status = row.status /\ new.owner = row.owner /\ new.live = row.live

\* A statement about a node.
LEMMA MovedRow ==
  ASSUME NEW row, RowOk(row), NEW n \in NodesOf(row.graph), NEW s \in NodeStatus, NEW result
  PROVE  RowGoes(row, NodeMoved(row, n, s, result), n, s)
<1> DEFINE new == NodeMoved(row, n, s, result)
<1> SUFFICES RowGoes(row, new, n, s)
  OBVIOUS
<1>1. CASE s = row.graph.status[n] /\ result = None
  <2>1. new = row
    BY <1>1 DEF NodeMoved
  <2>2. GraphGoes(row.graph, row.graph, n, s)
    BY <1>1 DEF With, GraphGoes
  <2> QED
    BY <2>1, <2>2 DEF RowGoes
<1>2. CASE ~(s = row.graph.status[n] /\ result = None)
  <2> DEFINE g == WithNodeStatus(row.graph, n, s)
             x == [row.results EXCEPT ![n] = IF result = None THEN @ ELSE result]
  <2>1. new = [row EXCEPT !.graph = g, !.results = x, !.version = @ + 1]
    BY <1>2 DEF NodeMoved
  <2>2. IsPlanGraph(g) /\ GraphGoes(row.graph, g, n, s)
    <3>1. IsPlanGraph(row.graph)
      BY DEF RowOk
    <3> QED
      BY <3>1, GraphMoved, Zenon
  <2> HIDE DEF g, x, new
  <2>3. /\ new.graph = g /\ new.status = row.status /\ new.owner = row.owner
        /\ new.live = row.live /\ Fields(new, RowFields)
    BY <2>1, RowDomain DEF RowOk, RowFields, Fields
  <2> QED
    BY <2>2, <2>3 DEF RowGoes, RowOk, GraphGoes
<1> QED
  BY <1>1, <1>2

\* It moves a node of the plan.
LEMMA NodeIsMoved ==
  ASSUME IsSeq(revs), Table, HasActive, NEW n \in NodesOf(Row.graph), NEW s \in NodeStatus,
         NEW result, SetRow(NodeMoved(Row, n, s, result))
  PROVE  NodeGoes(n, s) /\ LeaseStays
<1> DEFINE new == NodeMoved(Row, n, s, result)
<1>1. Planned /\ Row = Latest /\ RowOk(Row) /\ Row.status = "active"
  BY LastRow DEF Planned
<1>2. RowGoes(Row, new, n, s)
  BY <1>1, MovedRow, Zenon
<1>3. SetRow(new)
  OBVIOUS
<1> HIDE DEF new
<1>4. TableSet(new)
  BY <1>2, <1>3, LastRowSet DEF RowGoes
<1> QED
  BY <1>1, <1>2, <1>4 DEF TableSet, NodeGoes, LeaseStays, RowGoes

\* A statement about the lease.
LEMMA LeaseIsSet ==
  ASSUME IsSeq(revs), Table, HasActive
  PROVE  /\ SetRow(Acquired(Row, Me)) => PlanStays
         /\ SetRow(Unleased(Row)) => PlanStays /\ Latest'.owner = None /\ Latest'.live = FALSE
<1>1. Planned /\ Row = Latest /\ RowOk(Row) /\ Latest.status = "active"
  BY LastRow DEF Planned
<1>2. ASSUME NEW new, RowOk(new), new.graph = Row.graph, new.status = Row.status, SetRow(new)
      PROVE  PlanStays /\ Latest' = new
  <2>1. TableSet(new)
    BY <1>2, LastRowSet, Zenon
  <2> QED
    BY <1>1, <1>2, <2>1 DEF TableSet, PlanStays
<1>3. LET new == Acquired(Row, Me)
      IN  RowOk(new) /\ new.graph = Row.graph /\ new.status = Row.status
  BY <1>1 DEF Acquired, RowOk, Fields, RowFields
<1>4. LET new == Unleased(Row)
      IN  /\ RowOk(new) /\ new.graph = Row.graph /\ new.status = Row.status
          /\ new.owner = None /\ new.live = FALSE
  BY <1>1 DEF Unleased, RowOk, Fields, RowFields
<1>5. ASSUME SetRow(Acquired(Row, Me)) PROVE PlanStays
  BY <1>2, <1>3, <1>5
<1>6. ASSUME SetRow(Unleased(Row)) PROVE PlanStays /\ Latest'.owner = None /\ Latest'.live = FALSE
  BY <1>2, <1>4, <1>6
<1> QED
  BY <1>5, <1>6

\* A statement that closes the revision.
LEMMA ClosedRow ==
  ASSUME NEW row, RowOk(row), NEW s \in RevisionStatus
  PROVE  LET new == ClosedAs(row, s)
         IN  RowOk(new) /\ new.graph = row.graph /\ new.status = s
<1> DEFINE old == Unleased(row)
<1>1. RowOk(old) /\ old.graph = row.graph
  BY DEF Unleased, RowOk, Fields, RowFields
<1> HIDE DEF old
<1>2. ClosedAs(row, s) = [old EXCEPT !.status = s, !.version = @ + 1]
  BY DEF ClosedAs, old
<1> QED
  BY <1>1, <1>2 DEF RowOk, Fields, RowFields

\* It closes the plan.
LEMMA PlanIsClosed ==
  ASSUME IsSeq(revs), Table, HasActive, NEW s \in {"completed", "failed"}, SetRow(ClosedAs(Row, s))
  PROVE  PlanCloses(s)
<1> DEFINE new == ClosedAs(Row, s)
<1>1. Planned /\ Row = Latest /\ RowOk(Row)
  BY LastRow
<1>2. RowOk(new) /\ new.status = s
  BY <1>1, ClosedRow DEF RevisionStatus
<1>3. SetRow(new)
  OBVIOUS
<1> HIDE DEF new
<1>4. TableSet(new)
  BY <1>2, <1>3, LastRowSet
<1> QED
  BY <1>1, <1>2, <1>4 DEF TableSet, PlanCloses

\* A node is handed back, and the lease with it.
LEMMA NodeIsRewound ==
  ASSUME IsSeq(revs), Table, HasActive, NEW n \in NodesOf(Row.graph), SetRow(Rewound(Row, n))
  PROVE  NodeGoes(n, "pending") /\ Latest'.owner = None /\ Latest'.live = FALSE
<1> DEFINE old == Unleased(Row)
           g == WithNodeStatus(Row.graph, n, "pending")
           new == Rewound(Row, n)
<1>1. Planned /\ Row = Latest /\ RowOk(Row) /\ Row.status = "active"
  BY LastRow DEF Planned
<1>2. /\ RowOk(old) /\ old.graph = Row.graph /\ old.status = Row.status
      /\ old.owner = None /\ old.live = FALSE
  BY <1>1 DEF Unleased, RowOk, Fields, RowFields
<1>3. new = [old EXCEPT !.graph = WithNodeStatus(@, n, "pending"), !.version = @ + 1]
  BY DEF Rewound
<1>4. IsPlanGraph(g) /\ GraphGoes(Row.graph, g, n, "pending")
  <2>1. IsPlanGraph(Row.graph) /\ "pending" \in NodeStatus
    BY <1>1 DEF RowOk, NodeStatus
  <2> QED
    BY <2>1, GraphMoved, Zenon
<1>5. SetRow(new)
  OBVIOUS
<1> HIDE DEF old
<1>6. new = [old EXCEPT !.graph = g, !.version = @ + 1]
  BY <1>2, <1>3, RowDomain DEF RowOk, RowFields
<1> HIDE DEF g, new
<1>7. /\ new.graph = g /\ new.status = old.status /\ new.owner = old.owner
      /\ new.live = old.live /\ Fields(new, RowFields)
  BY <1>2, <1>6, RowDomain DEF RowOk, RowFields, Fields
<1>8. RowOk(new)
  BY <1>1, <1>2, <1>4, <1>7 DEF RowOk, GraphGoes
<1>9. TableSet(new)
  BY <1>5, <1>8, LastRowSet
<1> QED
  BY <1>1, <1>2, <1>4, <1>7, <1>9 DEF TableSet, NodeGoes

\* What is planned has not been begun.
Fresh == \A g \in {Plan} \cup Replans : \A n \in NodesOf(g) : g.status[n] = "pending"

\* No node of a plan is on its way.
Unbegun(g) ==
  With(g, "running") = {} /\ With(g, "waiting_approval") = {} /\ With(g, "paused") = {}

\* A new row is a row.
LEMMA NewRowOk ==
  ASSUME NEW g, IsPlanGraph(g), NodesOf(g) \subseteq DOMAIN EffectsOf, NEW results
  PROVE  LET new == NewRevision(g, results)
         IN  /\ RowOk(new) /\ new.graph = g /\ new.status = "active"
             /\ new.owner = None /\ new.live = FALSE
  BY DEF NewRevision, RowOk, Fields, RowFields, RevisionStatus

\* What is kept of a plan that is replaced are its completed nodes.
LEMMA Preserved ==
  ASSUME NEW row, RowOk(row), NEW g, IsPlanGraph(g)
  PROVE  LET h == Preserve(row, g)
         IN  /\ IsPlanGraph(h) /\ NodesOf(h) = NodesOf(g)
             /\ (\A n \in NodesOf(g) : g.status[n] = "pending") => Unbegun(h)
<1> DEFINE kept == CompletedNodes(row)
           h == Preserve(row, g)
<1>1. /\ h.status = [n \in NodesOf(g) |-> IF n \in kept THEN row.graph.status[n] ELSE g.status[n]]
      /\ DOMAIN h = {"kind", "deps", "claims", "status"}
  BY DEF Preserve
<1>2. \A n \in kept : row.graph.status[n] = "completed"
  BY DEF CompletedNodes, With
<1>3. g.status \in [NodesOf(g) -> NodeStatus] /\ NodesOf(g) \subseteq Nat
  BY DEF IsPlanGraph
<1> HIDE DEF h, kept
<1>4. NodesOf(h) = NodesOf(g)
  BY <1>1 DEF NodesOf
<1>5. \A n \in NodesOf(g) : h.status[n] = IF n \in kept THEN "completed" ELSE g.status[n]
  BY <1>1, <1>2
<1>6. IsPlanGraph(h)
  BY <1>1, <1>3, <1>4, <1>5 DEF IsPlanGraph, NodeStatus
<1>7. (\A n \in NodesOf(g) : g.status[n] = "pending") => Unbegun(h)
  BY <1>4, <1>5 DEF Unbegun, With
<1> QED
  BY <1>4, <1>6, <1>7 DEF h

\* What create_revision and create_replan leave.
LEMMA PlanIsMade ==
  ASSUME IsSeq(revs), Table, NEW g \in {Plan} \cup Replans,
         \/ revs = <<>> /\ revs' = <<NewRevision(g, NoResults(g))>>
         \/ HasActive /\ revs' = Append([revs EXCEPT ![Cur] = ClosedAs(@, "superseded")],
                                        Successor(Row, g))
  PROVE  PlanOpens /\ (Fresh => Unbegun(Latest'.graph))
<1>g. IsPlanGraph(g) /\ NodesOf(g) \subseteq DOMAIN EffectsOf
  BY GraphsAssumption
<1>f. Fresh => \A n \in NodesOf(g) : g.status[n] = "pending"
  BY DEF Fresh
<1>0. ASSUME NEW table, IsSeq(table),
             \A r \in DOMAIN table : RowOk(table[r]) /\ table[r].status # "active",
             NEW new, RowOk(new), new.status = "active", new.owner = None, new.live = FALSE,
             revs' = Append(table, new)
      PROVE  PlanOpens /\ Latest' = new
  <2>1. /\ IsSeq(revs') /\ Len(revs') = Len(table) + 1
        /\ DOMAIN revs' = DOMAIN table \cup {Len(table) + 1}
        /\ \A i \in DOMAIN table : revs'[i] = table[i]
        /\ revs'[Len(table) + 1] = new
    BY <1>0, OneMore
  <2>2. Latest' = new
    BY <2>1 DEF Latest
  <2>3. Table'
    BY <1>0, <2>1 DEF Table
  <2>4. revs' # <<>>
    BY <1>0, <2>1, EmptySeq, Numbered
  <2> QED
    BY <1>0, <2>1, <2>2, <2>3, <2>4 DEF PlanOpens, Planned
<1>1. CASE revs = <<>> /\ revs' = <<NewRevision(g, NoResults(g))>>
  <2> DEFINE new == NewRevision(g, NoResults(g))
  <2>1. /\ RowOk(new) /\ new.graph = g /\ new.status = "active"
        /\ new.owner = None /\ new.live = FALSE
    BY <1>g, NewRowOk
  <2>2. revs' = Append(revs, new)
    BY <1>1
  <2>3. \A r \in DOMAIN revs : RowOk(revs[r]) /\ revs[r].status # "active"
    BY <1>1, EmptySeq
  <2> HIDE DEF new
  <2>4. PlanOpens /\ Latest' = new
    BY <1>0, <2>1, <2>2, <2>3
  <2>5. Fresh => Unbegun(g)
    BY <1>f DEF Unbegun, With
  <2> QED
    BY <2>1, <2>4, <2>5
<1>2. CASE HasActive /\ revs' = Append([revs EXCEPT ![Cur] = ClosedAs(@, "superseded")],
                                       Successor(Row, g))
  <2> DEFINE closed == ClosedAs(Row, "superseded")
             table == [revs EXCEPT ![Cur] = closed]
             new == Successor(Row, g)
             h == Preserve(Row, g)
  <2>1. /\ Cur = Len(revs) /\ Row = Latest /\ Cur \in DOMAIN revs /\ RowOk(Row)
    BY <1>2, LastRow
  <2>2. IsPlanGraph(h) /\ NodesOf(h) = NodesOf(g) /\ (Fresh => Unbegun(h))
    BY <1>g, <1>f, <2>1, Preserved
  <2>3. /\ RowOk(new) /\ new.graph = h /\ new.status = "active"
        /\ new.owner = None /\ new.live = FALSE
    <3> DEFINE results == PreservedResults(Row, g)
               row == NewRevision(h, results)
    <3>1. new = row
      BY DEF Successor
    <3>2. IsPlanGraph(h) /\ NodesOf(h) \subseteq DOMAIN EffectsOf
      BY <1>g, <2>2
    <3> HIDE DEF h, results
    <3>3. /\ RowOk(row) /\ row.graph = h /\ row.status = "active"
          /\ row.owner = None /\ row.live = FALSE
      BY <3>2, NewRowOk
    <3> HIDE DEF row, new
    <3> QED
      BY <3>1, <3>3
  <2>4. RowOk(closed) /\ closed.status = "superseded"
    BY <2>1, ClosedRow DEF RevisionStatus
  <2>5. revs' = Append(table, new)
    BY <1>2 DEF Row
  <2> HIDE DEF closed, new, h
  <2>6. DOMAIN table = DOMAIN revs
    OBVIOUS
  <2>7. IsSeq(table)
    BY <2>6, SameLength
  <2>8. \A r \in DOMAIN table : RowOk(table[r]) /\ table[r].status # "active"
    BY <2>1, <2>4 DEF Table
  <2> HIDE DEF table
  <2>9. PlanOpens /\ Latest' = new
    BY <1>0, <2>3, <2>5, <2>7, <2>8
  <2> QED
    BY <2>2, <2>3, <2>9
<1> QED
  BY <1>1, <1>2

\* A lease that ends, by death, by Ctrl-C or by time, ends nothing else.
LEMMA LeaseEnds ==
  ASSUME IsSeq(revs), Table, Die \/ Unwind \/ \E r \in DOMAIN revs : Lapse(r)
  PROVE  PlanStays
<1>0. ASSUME revs' = [r \in DOMAIN revs |-> revs'[r]],
             \A r \in DOMAIN revs : /\ RowOk(revs'[r])
                                    /\ revs'[r].status = revs[r].status
                                    /\ revs'[r].graph = revs[r].graph
      PROVE  PlanStays
  <2>1. IsSeq(revs') /\ Len(revs') = Len(revs) /\ DOMAIN revs' = DOMAIN revs
    BY <1>0, SameLength
  <2>2. revs = <<>> <=> revs' = <<>>
    BY <2>1, EmptySeq DEF IsSeq
  <2>3. revs # <<>> => Latest'.status = Latest.status /\ Latest'.graph = Latest.graph
    BY <1>0, <2>1, LastRow DEF Latest
  <2>4. Table'
    BY <1>0, <2>1 DEF Table
  <2> QED
    BY <2>1, <2>2, <2>3, <2>4 DEF PlanStays, RevsKept, Planned
<1>1. CASE Die
  <2>1. ASSUME NEW r \in DOMAIN revs
        PROVE  LET new == [revs[r] EXCEPT !.owner = Gone]
               IN  /\ RowOk(new) /\ RowOk(revs[r])
                   /\ new.status = revs[r].status /\ new.graph = revs[r].graph
    BY DEF Table, RowOk, Fields, RowFields
  <2>2. revs' = [r \in DOMAIN revs |->
                   IF revs[r].owner = Me THEN [revs[r] EXCEPT !.owner = Gone] ELSE revs[r]]
    BY <1>1 DEF Die
  <2> QED
    BY <1>0, <2>1, <2>2
<1>2. ASSUME NEW r \in DOMAIN revs, Lapse(r) PROVE PlanStays
  <2> DEFINE new == [revs[r] EXCEPT !.live = FALSE]
  <2>1. RowOk(new) /\ new.status = revs[r].status /\ new.graph = revs[r].graph
    BY DEF Table, RowOk, Fields, RowFields
  <2>2. revs' = [revs EXCEPT ![r] = new]
    BY <1>2 DEF Lapse
  <2> HIDE DEF new
  <2>3. \A i \in DOMAIN revs : RowOk(revs[i])
    BY DEF Table
  <2> QED
    BY <1>0, <2>1, <2>2, <2>3
<1>3. CASE Unwind
  <2>1. ASSUME NEW r \in DOMAIN revs
        PROVE  LET new == Unleased(revs[r])
               IN  /\ RowOk(new) /\ RowOk(revs[r])
                   /\ new.status = revs[r].status /\ new.graph = revs[r].graph
    BY DEF Unleased, Table, RowOk, Fields, RowFields
  <2>2. revs' = [r \in DOMAIN revs |-> IF revs[r].owner = Me THEN Unleased(revs[r]) ELSE revs[r]]
    BY <1>3 DEF Unwind
  <2> QED
    BY <1>0, <2>1, <2>2
<1> QED
  BY <1>1, <1>2, <1>3

-----------------------------------------------------------------------------
(* What a step makes of the process and of the task. *)

MeIs(pc, op, auto, guard, turn, node, doing, out) ==
  /\ me'.pc = pc /\ me'.op = op /\ me'.auto = auto /\ me'.guard = guard
  /\ me'.turn = turn /\ me'.node = node /\ me'.doing = doing /\ me'.out = out

Going(pc) == MeIs(pc, me.op, me.auto, me.guard, me.turn, me.node, me.doing, me.out)

Resting == MeIs("idle", None, FALSE, "none", None, 0, None, None)

Serving(pc, turn, node) == MeIs(pc, None, TRUE, "none", turn, node, None, None)

TaskIs(status, stop, pending) ==
  task'.status = status /\ task'.stop = stop /\ task'.pending = pending

TaskStays == TaskIs(task.status, task.stop, task.pending)

TypeInv == PaidInv /\ Table /\ TaskTyped /\ Placed /\ Recording /\ deaths \in Nat

WayInv == Fresh => Nodes /\ (deaths = 0 => Closing /\ Ways)

\* The last two need no step of their own where nothing is written but the process.
Typed == TaskTyped /\ Placed /\ Recording

\* The records have their fields.
LEMMA RecordDomains ==
  ASSUME PaidInv PROVE DOMAIN me = MeFields /\ DOMAIN task = TaskFields
  BY DEF PaidInv, Shape, Fields

\* Where the process goes.
LEMMA Goes ==
  ASSUME PaidInv
  PROVE  /\ \A pc : Goto(pc) => Going(pc)
         /\ me' = Idle => Resting
         /\ me' = ExecuteNext(TRUE) => Serving("execute", None, 0)
         /\ UNCHANGED me => Going(me.pc)
         /\ UNCHANGED task => TaskStays
<1>1. \A pc : Goto(pc) => Going(pc)
  BY RecordDomains DEF Goto, Going, MeIs, MeFields
<1>2. me' = Idle => Resting
  BY DEF Idle, Resting, MeIs
<1>3. me' = ExecuteNext(TRUE) => Serving("execute", None, 0)
  BY DEF Idle, ExecuteNext, Serving, MeIs
<1> QED
  BY <1>1, <1>2, <1>3 DEF Going, MeIs, TaskStays, TaskIs

\* An exception goes to its handler.
Caught ==
  IF me.guard = "none" THEN Resting ELSE Going(IF me.guard = "start" THEN "fail" ELSE "abandon")

\* Catch goes there.
LEMMA Catches == ASSUME PaidInv, Catch PROVE Caught
  BY Goes DEF Catch, Handler, Caught

\* What has been recorded stays so while nothing is done.
LEMMA NothingDone ==
  ASSUME Recording, Acts, me'.doing = None PROVE Recording'
  BY DEF Recording, Acts

\* Outside of a turn nothing is being done.
LEMMA NothingDoing ==
  ASSUME Recording, me.pc \notin {"acting", "approved"} PROVE me.doing = None
  BY DEF Recording

\* A node has one status.
LEMMA OneStatus ==
  ASSUME NEW g, NEW s, NEW t, s # t
  PROVE  With(g, s) \cap With(g, t) = {}
  BY DEF With

-----------------------------------------------------------------------------
\* The first of some nodes of the plan is one of its nodes.
LEMMA FirstNode ==
  ASSUME NEW g, IsPlanGraph(g), NEW S, S \subseteq NodesOf(g), S # {}
  PROVE  FirstOf(S) \in S /\ FirstOf(S) \in NodesOf(g)
  BY FirstOfIsIn DEF IsPlanGraph

\* What the executor halts for is the first of the statuses it looks for.
LEMMA Halted ==
  ASSUME NEW g, NEW is, is = {i \in 1 .. 4 : With(g, Halting[i]) # {}}, is # {}
  PROVE  LET out == Halting[FirstOf(is)]
         IN  /\ out \in {"failed", "waiting_approval", "paused", "running"}
             /\ With(g, out) # {}
             /\ With(g, "failed") # {} => out = "failed"
<1>1. FirstOf(is) \in is /\ \A m \in is : FirstOf(is) <= m
  <2>1. is \in SUBSET Nat
    OBVIOUS
  <2> QED
    BY <2>1, FirstOfIsIn, Zenon
<1>2. FirstOf(is) \in 1 .. 4 /\ With(g, Halting[FirstOf(is)]) # {}
  BY <1>1
<1>3. Halting[FirstOf(is)] \in {"failed", "waiting_approval", "paused", "running"}
  BY <1>2 DEF Halting
<1>4. ASSUME With(g, "failed") # {} PROVE FirstOf(is) = 1
  <2>1. 1 \in is
    BY <1>4 DEF Halting
  <2> QED
    BY <1>1, <1>2, <2>1
<1>5. Halting[1] = "failed"
  BY DEF Halting
<1> QED
  BY <1>2, <1>3, <1>4, <1>5

\* The executor: it works on the plan that is active, and holds its lease.
LEMMA ExecutingKeeps ==
  ASSUME TypeInv, WayInv, Executing
  PROVE  Typed' /\ Table' /\ WayInv'
<1> USE DEF MeIs, Going, Resting, TaskIs, TaskStays
<1>p. PaidInv /\ Table /\ TaskTyped /\ Placed /\ Recording /\ IsSeq(revs)
  BY DEF TypeInv, PaidInv, Shape
<1>r. Planned => HasActive /\ Row = Latest /\ RowOk(Latest) /\ revs # <<>>
  BY <1>p, LastRow DEF Planned
<1>w. Fresh /\ deaths = 0 => Nodes /\ Closing /\ Ways
  BY DEF WayInv
<1>n. Fresh => Nodes
  BY DEF WayInv
<1>u. UNCHANGED revs => PlanStays /\ LeaseStays
  BY <1>p, PlanUntouched
<1>g. ASSUME Planned, NEW S, S \subseteq NodesOf(Latest.graph), S # {}
      PROVE  FirstOf(S) \in S /\ FirstOf(S) \in NodesOf(Latest.graph)
  BY <1>g, <1>r, FirstNode DEF RowOk
<1>1. CASE Execute
  <2>1. Planned /\ me.pc = "execute"
    BY <1>1, <1>p DEF Execute, At, Placed, AtWork
  <2>2. Going("loop") /\ TaskStays /\ UNCHANGED <<cp, task>> /\ Acts /\ deaths' = deaths
    BY <1>1, <1>p, Goes DEF Execute, Counted
  <2>3. PlanStays
    BY <1>1, <1>p, <1>r, <2>1, LeaseIsSet DEF Execute
  <2>4. Recording'
    BY <1>p, <2>1, <2>2, NothingDone, NothingDoing
  <2>5. TaskTyped' /\ Placed'
    BY <1>p, <2>1, <2>2, <2>3 DEF TaskTyped, Placed, PlanStays, AtWork, Phase, Turning
  <2>6. Nodes => Nodes'
    BY <1>r, <2>1, <2>2, <2>3 DEF Nodes, NodesOk, OutOk, PlanStays, Turning
  <2>7. Closing /\ Ways => Closing' /\ Ways'
    BY <2>1, <2>2, <2>3 DEF Closing, Ways, PlanStays, Turning, InLease, Phase, TaskOver, LeftBehind, Latest
  <2> QED
    BY <1>n, <1>w, <2>2, <2>3, <2>4, <2>5, <2>6, <2>7 DEF WayInv, Typed, PlanStays
<1>2. CASE LeaseTaken
  <2>1. Planned /\ me.pc = "execute"
    BY <1>2, <1>p DEF LeaseTaken, At, Placed, AtWork
  <2>2. /\ Caught /\ TaskStays /\ UNCHANGED <<cp, task, revs>> /\ Acts /\ deaths' = deaths
    BY <1>2, <1>p, Goes, Catches DEF LeaseTaken, Throw, Counted
  <2>3. PlanStays
    BY <1>u, <2>2
  <2>4. Recording'
    BY <1>p, <2>1, <2>2, NothingDone, NothingDoing DEF Caught
  <2>5. TaskTyped' /\ Placed'
    BY <1>p, <2>1, <2>2, <2>3 DEF Caught, TaskTyped, Placed, PlanStays, AtWork, Phase, Turning
  <2>6. Nodes => Nodes'
    BY <1>r, <2>1, <2>2, <2>3 DEF Caught, Nodes, NodesOk, OutOk, PlanStays, Turning
  <2>7. ~Ways
    BY <1>2, <1>r, <2>1 DEF LeaseTaken, LeaseFree, Ways, InLease, Turning
  <2> QED
    BY <1>n, <1>w, <2>2, <2>3, <2>4, <2>5, <2>6, <2>7 DEF WayInv, Typed, PlanStays
<1>3. CASE StopAt
  <2>1. Planned /\ me.pc = "loop"
    BY <1>3, <1>p DEF StopAt, At, Placed, AtWork
  <2> DEFINE is == {i \in 1 .. 4 : With(Row.graph, Halting[i]) # {}}
             out == Halting[FirstOf(is)]
  <2>2. MeIs("release", me.op, me.auto, me.guard, me.turn, me.node, me.doing, out)
    BY <1>3, <1>p, RecordDomains DEF StopAt, MeFields
  <2>3. /\ out \in {"failed", "waiting_approval", "paused", "running"}
        /\ With(Latest.graph, out) # {}
        /\ With(Latest.graph, "failed") # {} => out = "failed"
    <3>1. is # {}
      <4>1. PICK n \in NodesOf(Row.graph) : Row.graph.status[n] \in Range(Halting)
        BY <1>3 DEF StopAt, Stops
      <4>2. PICK i \in 1 .. 4 : Row.graph.status[n] = Halting[i]
        BY <4>1 DEF Range, Halting
      <4> QED
        BY <4>1, <4>2 DEF With
    <3>2. is = {i \in 1 .. 4 : With(Latest.graph, Halting[i]) # {}}
      BY <1>r, <2>1
    <3> HIDE DEF is
    <3> QED
      BY <3>1, <3>2, Halted
  <2> HIDE DEF out
  <2>4. TaskStays /\ UNCHANGED <<cp, task, revs>> /\ Acts /\ deaths' = deaths
    BY <1>3, <1>p, Goes DEF StopAt, Counted
  <2>5. PlanStays /\ LeaseStays
    BY <1>u, <2>4
  <2>6. Recording'
    BY <1>p, <2>1, <2>2, <2>4, NothingDone, NothingDoing
  <2>7. TaskTyped' /\ Placed'
    BY <1>p, <2>1, <2>2, <2>3, <2>4, <2>5 DEF TaskTyped, Placed, PlanStays, AtWork, Phase, Turning
  <2>8. Nodes => Nodes'
    BY <1>r, <2>1, <2>2, <2>3, <2>4, <2>5 DEF Nodes, NodesOk, OutOk, PlanStays, Turning
  <2>9. Nodes /\ Closing /\ Ways => Closing' /\ Ways'
    BY <1>r, <2>1, <2>2, <2>3, <2>4, <2>5
       DEF Nodes, NodesOk, Closing, Ways, PlanStays, LeaseStays, Turning, InLease, Phase, TaskOver,
           LeftBehind, Latest
  <2> QED
    BY <1>n, <1>w, <2>4, <2>5, <2>6, <2>7, <2>8, <2>9 DEF WayInv, Typed, PlanStays
<1>4. CASE StartNode
  <2> DEFINE n == FirstOf(Ready(Row.graph))
  <2>1. Planned /\ me.pc = "loop"
    BY <1>4, <1>p DEF StartNode, At, Placed, AtWork
  <2>2. MeIs("turn", me.op, me.auto, me.guard, "node", n, me.doing, None)
    BY <1>4, <1>p, RecordDomains DEF StartNode, MeFields
  <2>3. n \in NodesOf(Latest.graph) /\ n \in With(Latest.graph, "pending")
    <3>1. Ready(Latest.graph) \subseteq With(Latest.graph, "pending")
      BY DEF Ready
    <3>2. Ready(Latest.graph) \subseteq NodesOf(Latest.graph)
      BY DEF Ready, With
    <3>3. Ready(Latest.graph) # {}
      BY <1>4, <1>r, <2>1 DEF StartNode
    <3> QED
      BY <1>g, <1>r, <2>1, <3>1, <3>2, <3>3
  <2>4. TaskStays /\ UNCHANGED <<cp, task>> /\ Acts /\ deaths' = deaths
    BY <1>4, <1>p, Goes DEF StartNode, Counted
  <2>5. NodeGoes(n, "running") /\ LeaseStays
    <3> HIDE DEF n
    <3>1. SetRow(NodeMoved(Row, n, "running", None))
      BY <1>4 DEF StartNode, n
    <3>2. n \in NodesOf(Row.graph) /\ "running" \in NodeStatus
      BY <1>r, <2>1, <2>3 DEF NodeStatus
    <3> QED
      BY <1>p, <1>r, <2>1, <3>1, <3>2, NodeIsMoved
  <2>s. \A s \in {"failed", "waiting_approval", "paused", "running"} : With(Latest.graph, s) = {}
    BY <1>4, <1>r, <2>1 DEF StartNode, Stops, Range, Halting, With
  <2> HIDE DEF n
  <2>6. Recording'
    BY <1>p, <2>1, <2>2, <2>4, NothingDone, NothingDoing
  <2>7. TaskTyped' /\ Placed'
    BY <1>p, <2>1, <2>2, <2>3, <2>4, <2>5
       DEF TaskTyped, Placed, NodeGoes, GraphGoes, AtWork, Phase, Turning
  <2>8. Nodes => Nodes'
    <3> DEFINE h == Latest'.graph
    <3>1. /\ With(h, "running") = {n}
          /\ With(h, "waiting_approval") = {} /\ With(h, "paused") = {}
      BY <2>s, <2>5 DEF NodeGoes, GraphGoes
    <3> QED
      BY <2>1, <2>2, <2>4, <3>1 DEF Nodes, NodesOk, OutOk, Turning, UserTurn
  <2>9. Closing /\ Ways => Closing' /\ Ways'
    BY <2>1, <2>2, <2>s, <2>4, <2>5
       DEF Closing, Ways, NodeGoes, GraphGoes, LeaseStays, Turning, InLease, Phase, TaskOver,
           LeftBehind, Latest, Planned, Terminal
  <2> QED
    BY <1>n, <1>w, <2>4, <2>5, <2>6, <2>7, <2>8, <2>9 DEF WayInv, Typed, NodeGoes
<1>5. CASE Close
  <2> DEFINE s == IF With(Row.graph, "skipped") # {} THEN "failed" ELSE "completed"
  <2>1. Planned /\ me.pc = "loop"
    BY <1>5, <1>p DEF Close, At, Placed, AtWork
  <2>2. MeIs("reconcile", me.op, me.auto, me.guard, me.turn, me.node, me.doing, s)
    BY <1>5, <1>p, RecordDomains DEF Close, MeFields
  <2>3. SetRow(ClosedAs(Row, s)) /\ s \in {"completed", "failed"}
    BY <1>5 DEF Close
  <2> HIDE DEF s
  <2>4. TaskStays /\ UNCHANGED <<cp, task>> /\ Acts /\ deaths' = deaths
    BY <1>5, <1>p, Goes DEF Close, Counted
  <2>5. PlanCloses(s)
    BY <1>p, <1>r, <2>1, <2>3, PlanIsClosed
  <2>6. Recording'
    BY <1>p, <2>1, <2>2, <2>4, NothingDone, NothingDoing
  <2>7. TaskTyped' /\ Placed'
    BY <1>p, <2>1, <2>2, <2>3, <2>4, <2>5
       DEF TaskTyped, Placed, PlanCloses, AtWork, Phase, Turning
  <2>8. Nodes => Nodes'
    BY <2>1, <2>2, <2>3, <2>4, <2>5 DEF Nodes, NodesOk, OutOk, PlanCloses, Turning, UserTurn
  <2>9. Closing /\ Ways => Closing' /\ Ways'
    BY <2>1, <2>2, <2>3, <2>4, <2>5
       DEF Closing, Ways, PlanCloses, Turning, InLease, Phase, Planned
  <2> QED
    BY <1>n, <1>w, <2>4, <2>5, <2>6, <2>7, <2>8, <2>9 DEF WayInv, Typed, PlanCloses
<1>6. CASE Write
  <2>1. /\ Planned /\ me.pc = "write" /\ me.turn = "node" /\ me.node \in NodesOf(Latest.graph)
        /\ me.out \in {"completed", "failed", "waiting_approval", "paused"}
    BY <1>6, <1>p DEF Write, At, Placed
  <2>2. \E pc \in {"loop", "skip", "release"} :
          /\ MeIs(pc, me.op, me.auto, me.guard, None, 0, me.doing, me.out)
          /\ pc = CASE me.out = "completed" -> "loop" [] me.out = "failed" -> "skip"
                     [] OTHER -> "release"
    BY <1>6, <1>p, RecordDomains DEF Write, MeFields
  <2>3. SetRow(NodeMoved(Row, me.node, me.out, Recorded(me.out)))
    BY <1>6 DEF Write
  <2>4. TaskStays /\ UNCHANGED <<cp, task>> /\ Acts /\ deaths' = deaths
    BY <1>6, <1>p, Goes DEF Write, Counted
  <2>5. NodeGoes(me.node, me.out) /\ LeaseStays
    <3>1. me.node \in NodesOf(Row.graph) /\ me.out \in NodeStatus
      BY <1>r, <2>1 DEF NodeStatus
    <3> QED
      BY <1>p, <1>r, <2>1, <2>3, <3>1, NodeIsMoved
  <2>6. Recording'
    BY <1>p, <2>1, <2>2, <2>4, NothingDone, NothingDoing
  <2>7. TaskTyped' /\ Placed'
    BY <1>p, <2>1, <2>2, <2>4, <2>5
       DEF TaskTyped, Placed, NodeGoes, GraphGoes, AtWork, Phase, Turning
  <2>8. Nodes => Nodes'
    <3> DEFINE h == Latest'.graph
               n == me.node
    <3>1. SUFFICES ASSUME Nodes PROVE Nodes'
      OBVIOUS
    <3>2. n \in With(Latest.graph, "running")
      BY <2>1, <3>1 DEF Nodes, NodesOk, Turning
    <3>3. \A s \in {"running", "waiting_approval", "paused"} :
            With(h, s) = IF me.out = s THEN {n} ELSE {}
      <4>1. With(Latest.graph, "running") \cup With(Latest.graph, "waiting_approval")
              \cup With(Latest.graph, "paused") = {n}
        BY <2>1, <3>1, <3>2 DEF Nodes, NodesOk
      <4> QED
        BY <2>1, <2>5, <4>1 DEF NodeGoes, GraphGoes
    <3>4. /\ With(h, "running") = {}
          /\ With(h, "waiting_approval") = IF me.out = "waiting_approval" THEN {n} ELSE {}
          /\ With(h, "paused") = IF me.out = "paused" THEN {n} ELSE {}
      BY <2>1, <3>3
    <3>5. NodesOk'
      BY <2>1, <2>2, <2>4, <3>4 DEF NodesOk, Turning, UserTurn
    <3>6. OutOk'
      BY <1>p, <2>1, <2>2, <2>4, <3>1 DEF Nodes, OutOk, TaskTyped
    <3> QED
      BY <3>5, <3>6 DEF Nodes
  <2>9. Nodes /\ Closing /\ Ways => Closing' /\ Ways'
    BY <1>p, <2>1, <2>2, <2>4, <2>5
       DEF Nodes, NodesOk, OutOk, Closing, Ways, NodeGoes, GraphGoes, LeaseStays, Turning, InLease,
           Phase, TaskOver, Terminal, Planned
  <2> QED
    BY <1>n, <1>w, <2>4, <2>5, <2>6, <2>7, <2>8, <2>9 DEF WayInv, Typed, NodeGoes
<1>7. CASE Skip
  <2>1. Planned /\ me.pc = "skip"
    BY <1>7, <1>p DEF Skip, At, Placed, AtWork
  <2>2. TaskStays /\ UNCHANGED <<cp, task>> /\ Acts /\ deaths' = deaths
    BY <1>7, <1>p, Goes DEF Skip, Counted
  <2>3. CASE Blocked(Row.graph) # {}
    <3> DEFINE n == FirstOf(Blocked(Row.graph))
    <3>1. Going("skip")
      BY <1>7, <1>p, <2>1, <2>3, Goes DEF Skip
    <3>2. SetRow(NodeMoved(Row, n, "skipped", Recorded("skipped")))
      BY <1>7, <2>3 DEF Skip
    <3>3. n \in NodesOf(Row.graph) /\ "skipped" \in NodeStatus
      BY <1>g, <1>r, <2>1, <2>3 DEF Blocked, With, NodeStatus
    <3> HIDE DEF n
    <3>4. NodeGoes(n, "skipped") /\ LeaseStays
      BY <1>p, <1>r, <2>1, <3>2, <3>3, NodeIsMoved
    <3>5. Recording'
      BY <1>p, <2>1, <2>2, <3>1, NothingDone, NothingDoing
    <3>6. TaskTyped' /\ Placed'
      BY <1>p, <2>1, <2>2, <3>1, <3>4
         DEF TaskTyped, Placed, NodeGoes, GraphGoes, AtWork, Phase, Turning
    <3>7. Nodes => Nodes'
      <4>1. SUFFICES ASSUME Nodes PROVE Nodes'
        OBVIOUS
      <4>2. me'.pc = "skip" /\ me'.out = me.out /\ task' = task
        BY <2>1, <2>2, <3>1
      <4>3. \A s \in {"running", "waiting_approval", "paused"} :
              With(Latest'.graph, s) \subseteq With(Latest.graph, s)
        BY <3>4 DEF NodeGoes, GraphGoes
      <4>4. NodesOk'
        BY <2>1, <4>1, <4>2, <4>3 DEF Nodes, NodesOk, Turning
      <4>5. OutOk'
        BY <4>2 DEF OutOk
      <4> QED
        BY <4>4, <4>5 DEF Nodes
    <3>8. Closing /\ Ways => Closing' /\ Ways'
      BY <2>1, <2>2, <3>1, <3>4
         DEF Closing, Ways, NodeGoes, GraphGoes, LeaseStays, Turning, InLease,
             Phase, TaskOver, Terminal, Planned
    <3> QED
      BY <1>n, <1>w, <2>2, <3>4, <3>5, <3>6, <3>7, <3>8 DEF WayInv, Typed, NodeGoes
  <2>4. CASE Blocked(Row.graph) = {}
    <3>1. Going("release") /\ PlanStays /\ LeaseStays
      BY <1>7, <1>p, <1>u, <2>4, Goes DEF Skip
    <3>2. Recording'
      BY <1>p, <2>1, <2>2, <3>1, NothingDone, NothingDoing
    <3>3. TaskTyped' /\ Placed'
      BY <1>p, <2>1, <2>2, <3>1 DEF TaskTyped, Placed, PlanStays, AtWork, Phase, Turning
    <3>4. Nodes => Nodes'
      BY <1>p, <1>r, <2>1, <2>2, <3>1
         DEF Nodes, NodesOk, OutOk, PlanStays, Turning, UserTurn, Placed
    <3>5. Closing /\ Ways => Closing' /\ Ways'
      BY <1>p, <1>r, <2>1, <2>2, <3>1
         DEF Closing, Ways, PlanStays, LeaseStays, Turning, InLease, Phase, TaskOver, Placed
    <3> QED
      BY <1>n, <1>w, <2>2, <3>1, <3>2, <3>3, <3>4, <3>5 DEF WayInv, Typed, PlanStays
  <2> QED
    BY <2>3, <2>4
<1>8. CASE Release
  <2>1. Planned /\ me.pc = "release"
    BY <1>8, <1>p DEF Release, At, Placed, AtWork
  <2>2. Going("reconcile") /\ TaskStays /\ UNCHANGED <<cp, task>> /\ Acts /\ deaths' = deaths
    BY <1>8, <1>p, Goes DEF Release, Counted
  <2>3. PlanStays /\ Latest'.owner = None /\ Latest'.live = FALSE
    BY <1>8, <1>p, <1>r, <2>1, LeaseIsSet DEF Release
  <2>4. Recording'
    BY <1>p, <2>1, <2>2, NothingDone, NothingDoing
  <2>5. TaskTyped' /\ Placed'
    BY <1>p, <1>r, <2>1, <2>2, <2>3 DEF TaskTyped, Placed, PlanStays, AtWork, Phase, Turning
  <2>6. Nodes => Nodes'
    BY <1>r, <2>1, <2>2, <2>3 DEF Nodes, NodesOk, OutOk, PlanStays, Turning
  <2>7. Nodes /\ Closing /\ Ways => Closing' /\ Ways'
    BY <1>r, <2>1, <2>2, <2>3 DEF Nodes, NodesOk, Closing, Ways, PlanStays, Turning, InLease, Phase, TaskOver
  <2> QED
    BY <1>n, <1>w, <2>2, <2>3, <2>4, <2>5, <2>6, <2>7 DEF WayInv, Typed, PlanStays
<1> QED
  BY <1>1, <1>2, <1>3, <1>4, <1>5, <1>6, <1>7, <1>8 DEF Executing

-----------------------------------------------------------------------------
(* A turn. *)

\* A row of tool_actions that is looked at again keeps its effect, and is done if and only if
\* that is there.
Redone(a, b) ==
  /\ b.node = a.node /\ b.of = a.of
  /\ b.status \in {"executing", "succeeded", "failed", "uncertain"}
  /\ b.status = a.status \/ Classified(a, b.status)

ActionFields == {"node", "of", "status"}

\* What has been recorded stays true to what is there.
LEMMA RowsRedone ==
  ASSUME Recording, UNCHANGED world, me'.doing = None,
         \A b \in rows' : Fields(b, ActionFields) /\ \E a \in rows : Redone(a, b),
         \A a \in rows : \E b \in rows' : Redone(a, b)
  PROVE  Recording'
<1>1. ASSUME NEW b \in rows'
      PROVE  /\ b \in [node : DOMAIN EffectsOf \cup {None}, of : Effects,
                       status : {"executing", "succeeded", "failed", "uncertain"}]
             /\ b.status = "succeeded" => b.of \in world
  <2>1. PICK a \in rows : Redone(a, b)
    OBVIOUS
  <2>2. /\ a.node \in DOMAIN EffectsOf \cup {None} /\ a.of \in Effects
        /\ a.status = "succeeded" => a.of \in world
    BY DEF Recording
  <2>3. b = [node |-> b.node, of |-> b.of, status |-> b.status]
    BY DEF Fields, ActionFields
  <2>4. b.status = "succeeded" => b.of \in world
    BY <2>1, <2>2 DEF Redone, Classified
  <2> QED
    BY <2>1, <2>2, <2>3, <2>4 DEF Redone
<1>2. ASSUME NEW e \in world
      PROVE  \E b \in rows' :
               b.of = e /\ b.status # "failed" /\ (b.node # None => e \in EffectsOf[b.node])
  <2>1. PICK a \in rows :
          a.of = e /\ a.status # "failed" /\ (a.node # None => e \in EffectsOf[a.node])
    BY DEF Recording
  <2>2. PICK b \in rows' : Redone(a, b)
    OBVIOUS
  <2>3. b.status # "failed"
    BY <2>1, <2>2 DEF Redone, Classified
  <2> QED
    BY <2>1, <2>2, <2>3 DEF Redone
<1> QED
  BY <1>1, <1>2 DEF Recording

\* One row of them.
LEMMA RowRedone ==
  ASSUME Recording, UNCHANGED world, me'.doing = None, NEW a \in rows,
         NEW s \in {"succeeded", "failed", "uncertain"}, Classified(a, s),
         rows' = (rows \ {a}) \cup {[a EXCEPT !.status = s]}
  PROVE  Recording'
<1> DEFINE b == [a EXCEPT !.status = s]
<1>1. \A c \in rows : /\ Fields(c, ActionFields)
                      /\ c.status \in {"executing", "succeeded", "failed", "uncertain"}
  BY DEF Recording, Fields, ActionFields
<1>2. Fields(b, ActionFields) /\ b.node = a.node /\ b.of = a.of /\ b.status = s
  BY <1>1 DEF Fields, ActionFields
<1>3. rows' = (rows \ {a}) \cup {b}
  OBVIOUS
<1> HIDE DEF b
<1>4. Redone(a, b) /\ \A c \in rows : Redone(c, c)
  BY <1>1, <1>2 DEF Redone
<1>5. ASSUME NEW c \in rows' PROVE Fields(c, ActionFields) /\ \E d \in rows : Redone(d, c)
  BY <1>1, <1>2, <1>3, <1>4
<1>6. ASSUME NEW c \in rows PROVE \E d \in rows' : Redone(c, d)
  BY <1>3, <1>4
<1> QED
  BY <1>5, <1>6, RowsRedone

\* What a turn may leave of its task.
EndOk(t, out) ==
  /\ t.status \in {"running", "waiting_user", "paused", "completed", "failed", "cancelled"}
  /\ t.pending \in {None} \cup Questions
  /\ t.status = "waiting_user" <=> t.pending # None
  /\ out \in {"completed", "failed", "waiting_approval", "paused"}
  /\ t.status = "waiting_user" <=> out = "waiting_approval"
  /\ me.turn # "plain" /\ out = "paused" => t.status \in {"running", "paused"}
  /\ t.status = "failed" => out = "failed"
  /\ IF me.turn = "plain" THEN t.status # "running" ELSE t.status # "completed"

\* A turn that is over leaves its process with its node, or with nothing.
LEMMA EndKeeps ==
  ASSUME TypeInv, WayInv, NEW t, NEW out, EndTurn(t, out), EndOk(t, out)
  PROVE  Typed' /\ Table' /\ WayInv'
<1> USE DEF MeIs, Resting, TaskIs, EndOk
<1>p. PaidInv /\ Table /\ TaskTyped /\ Placed /\ Recording /\ IsSeq(revs)
  BY DEF TypeInv, PaidInv, Shape
<1>r. Planned => HasActive /\ Row = Latest /\ RowOk(Latest) /\ revs # <<>>
  BY <1>p, LastRow DEF Planned
<1>1. /\ me.pc = "acting" /\ me.doing = None /\ task.status = "running"
      /\ me.turn \in UserTurn \cup {"node", "plain"}
      /\ me.turn # "plain" => Planned /\ me.node \in NodesOf(Latest.graph)
  BY <1>p DEF EndTurn, At, Placed, Turning
<1>2. IF me.turn = "plain" THEN Resting
      ELSE MeIs(IF me.turn = "node" THEN "write" ELSE "settle", me.op, me.auto, me.guard, me.turn,
                me.node, me.doing, out)
  BY <1>p, Goes, RecordDomains DEF EndTurn, MeFields
<1>3. /\ TaskIs(t.status, t.stop, t.pending) /\ UNCHANGED <<cp, revs>> /\ Acts
      /\ deaths' = deaths
  BY DEF EndTurn, Counted
<1>4. PlanStays /\ LeaseStays
  BY <1>p, <1>3, PlanUntouched
<1>5. Recording'
  BY <1>p, <1>1, <1>2, <1>3, NothingDone
<1>6. TaskTyped' /\ Placed'
  BY <1>p, <1>1, <1>2, <1>3, <1>4
     DEF TaskTyped, Placed, PlanStays, AtWork, Phase, Turning, UserTurn, Terminal, Planned
<1>7. Nodes => Nodes'
  BY <1>r, <1>1, <1>2, <1>3, <1>4 DEF Nodes, NodesOk, OutOk, PlanStays, Turning, UserTurn
<1>8. Nodes /\ Closing /\ Ways => Closing' /\ Ways'
  <2> SUFFICES ASSUME Nodes, Closing, Ways PROVE Closing' /\ Ways'
    OBVIOUS
  <2>1. Planned => With(Latest.graph, "paused") = {} /\ me.turn # "plain"
    <3>1. /\ With(Latest.graph, "paused") \cap With(Latest.graph, "running") = {}
          /\ With(Latest.graph, "paused") \cap With(Latest.graph, "waiting_approval") = {}
      BY OneStatus
    <3>2. Planned => me.turn # "plain"
      BY <1>1 DEF Closing, Turning, Planned
    <3> QED
      BY <1>1, <3>1, <3>2 DEF Nodes, NodesOk, Turning
  <2>2. me.turn = "plain" => revs # <<>> /\ Latest.status = "completed" /\ ~Planned
    BY <1>1 DEF Closing, Turning, Planned
  <2>3. Closing'
    BY <1>r, <1>1, <1>2, <1>3, <1>4, <2>1, <2>2
       DEF Closing, PlanStays, Turning, TaskOver, Terminal, LeftBehind, Latest
  <2>4. Ways'
    BY <1>r, <1>1, <1>2, <1>3, <1>4, <2>1, <2>2
       DEF Ways, PlanStays, LeaseStays, Turning, Phase, InLease, TaskOver
  <2> QED
    BY <2>3, <2>4
<1> QED
  BY <1>3, <1>4, <1>5, <1>6, <1>7, <1>8 DEF WayInv, Typed, PlanStays

\* A turn writes nothing but tool actions until it is over, and then says what became of it.
LEMMA TurnKeeps ==
  ASSUME TypeInv, WayInv, Turn
  PROVE  Typed' /\ Table' /\ WayInv'
<1> USE DEF MeIs, Going, Resting, TaskIs, TaskStays
<1>p. PaidInv /\ Table /\ TaskTyped /\ Placed /\ Recording /\ IsSeq(revs)
  BY DEF TypeInv, PaidInv, Shape
<1>r. Planned => HasActive /\ Row = Latest /\ RowOk(Latest) /\ revs # <<>>
  BY <1>p, LastRow DEF Planned
<1>w. Fresh /\ deaths = 0 => Nodes /\ Closing /\ Ways
  BY DEF WayInv
<1>n. Fresh => Nodes
  BY DEF WayInv
<1>u. UNCHANGED revs => PlanStays /\ LeaseStays
  BY <1>p, PlanUntouched
<1>a. me.pc = "acting" =>
        /\ task.status = "running" /\ task.pending = None
        /\ me.turn \in {"node", "answered"} => me.node \in DOMAIN EffectsOf
  BY <1>p, <1>r DEF Placed, TaskTyped, Turning, RowOk
\* The process stays in its turn.
<1>0. ASSUME NEW pc \in Turning, NEW doing, me.pc \in Turning, pc = "turn" => me.pc # "acting",
             MeIs(pc, me.op, me.auto, me.guard, me.turn, me.node, doing, me.out),
             pc = "acting" => task.status = "running", pc = "approved" => me.pc = "approved",
             UNCHANGED <<task, revs>>, cp' = cp \/ cp' = None, deaths' = deaths, Recording'
      PROVE  Typed' /\ Table' /\ WayInv'
  <2>1. PlanStays /\ LeaseStays
    BY <1>0, <1>u
  <2>2. TaskTyped' /\ Placed'
    BY <1>p, <1>0, <2>1 DEF TaskTyped, Placed, PlanStays, AtWork, Phase, Turning, Planned
  <2>3. Nodes => Nodes'
    BY <1>r, <1>0, <2>1 DEF Nodes, NodesOk, OutOk, PlanStays, Turning, UserTurn
  <2>4. Closing /\ Ways => Closing'
    BY <1>r, <1>0, <2>1 DEF Closing, PlanStays, Turning, TaskOver
  <2>5. Closing /\ Ways => Ways'
    BY <1>r, <1>p, <1>0, <2>1
       DEF Closing, Ways, PlanStays, LeaseStays, Turning, Phase, InLease, TaskOver, Placed
  <2> QED
    BY <1>n, <1>w, <1>0, <2>1, <2>2, <2>3, <2>4, <2>5 DEF WayInv, Typed, PlanStays
<1>1. CASE TurnIdle
  <2> DEFINE out == CASE task.status = "waiting_user" -> "waiting_approval"
                      [] task.status = "paused" -> "paused"
                      [] OTHER -> "failed"
  <2>1. /\ me.pc = "turn" /\ me.turn = "node" /\ task.status # "running"
        /\ Planned /\ me.node \in NodesOf(Latest.graph) /\ task.status # "absent"
    BY <1>1, <1>p DEF TurnIdle, At, Placed, TaskTyped, Turning
  <2>2. MeIs("write", me.op, me.auto, me.guard, me.turn, me.node, me.doing, out)
    BY <1>1, <1>p, RecordDomains DEF TurnIdle, MeFields
  <2>3. /\ out \in {"failed", "waiting_approval", "paused"}
        /\ task.status = "waiting_user" <=> out = "waiting_approval"
        /\ task.status = "paused" <=> out = "paused"
    OBVIOUS
  <2> HIDE DEF out
  <2>4. TaskStays /\ UNCHANGED <<cp, task, revs>> /\ Acts /\ deaths' = deaths
    BY <1>1, <1>p, Goes DEF TurnIdle, Counted
  <2>5. PlanStays /\ LeaseStays
    BY <1>u, <2>4
  <2>6. Recording'
    BY <1>p, <2>1, <2>2, <2>4, NothingDone, NothingDoing
  <2>7. TaskTyped' /\ Placed'
    BY <1>p, <1>r, <2>1, <2>2, <2>3, <2>4, <2>5
       DEF TaskTyped, Placed, PlanStays, AtWork, Phase, Turning
  <2>8. Nodes => Nodes'
    BY <1>p, <1>r, <2>1, <2>2, <2>3, <2>4, <2>5
       DEF Nodes, NodesOk, OutOk, PlanStays, Turning, UserTurn, TaskTyped
  <2>9. Closing /\ Ways => Closing' /\ Ways'
    BY <1>r, <2>1, <2>2, <2>3, <2>4, <2>5
       DEF Closing, Ways, PlanStays, LeaseStays, Turning, Phase, InLease, TaskOver
  <2> QED
    BY <1>n, <1>w, <2>4, <2>5, <2>6, <2>7, <2>8, <2>9 DEF WayInv, Typed, PlanStays
<1>2. CASE TurnBegins
  <2>1. me.pc = "turn" /\ task.status = "running" /\ Going("acting") /\ me.doing = None
    BY <1>2, <1>p, Goes, NothingDoing DEF TurnBegins, At
  <2>2. UNCHANGED <<task, revs, world>> /\ cp' = None /\ deaths' = deaths
    BY <1>2 DEF TurnBegins, Counted
  <2>3. Recording'
    <3>1. PICK f \in [{a \in rows : a.status = "executing"}
                        -> {"succeeded", "failed", "uncertain"}] :
            /\ \A a \in DOMAIN f : Classified(a, f[a])
            /\ rows' = {a \in rows : a \notin DOMAIN f}
                       \cup {[a EXCEPT !.status = f[a]] : a \in DOMAIN f}
      BY <1>2 DEF TurnBegins
    <3>2. \A c \in rows : /\ Fields(c, ActionFields)
                          /\ c.status \in {"executing", "succeeded", "failed", "uncertain"}
      BY <1>p DEF Recording, Fields, ActionFields
    <3>3. ASSUME NEW a \in DOMAIN f
          PROVE  LET b == [a EXCEPT !.status = f[a]]
                 IN  Fields(b, ActionFields) /\ Redone(a, b)
      BY <3>1, <3>2 DEF Redone, Fields, ActionFields
    <3>4. \A a \in rows : Redone(a, a)
      BY <3>2 DEF Redone
    <3>5. ASSUME NEW b \in rows' PROVE Fields(b, ActionFields) /\ \E a \in rows : Redone(a, b)
      BY <3>1, <3>2, <3>3, <3>4
    <3>6. ASSUME NEW a \in rows PROVE \E b \in rows' : Redone(a, b)
      BY <3>1, <3>3, <3>4
    <3> QED
      BY <1>p, <2>1, <2>2, <3>5, <3>6, RowsRedone
  <2> QED
    BY <1>0, <2>1, <2>2, <2>3 DEF Turning
<1>3. CASE Happen
  <2>1. /\ me.doing # None /\ me.pc \in {"acting", "approved"} /\ Effected \in rows
        /\ me.doing \in EffectsOf[me.node]
    BY <1>3, <1>p DEF Happen, Recording
  <2>2. world' = world \cup {me.doing} /\ UNCHANGED <<task, revs, cp, rows, me, deaths>>
    BY <1>3 DEF Happen, Counted
  <2>3. Recording'
    <3>1. Effected' = Effected
      BY <2>2 DEF Effected, Scope, At
    <3>2. /\ Effected.of = me.doing /\ Effected.status = "executing"
          /\ Effected.node = Scope /\ Scope \in {me.node, None}
      BY DEF Effected, Scope
    <3> QED
      BY <1>p, <2>1, <2>2, <3>1, <3>2 DEF Recording
  <2>4. Going(me.pc)
    BY <2>2
  <2>5. me.pc = "acting" => task.status = "running"
    BY <1>a
  <2> QED
    BY <1>0, <2>1, <2>2, <2>3, <2>4, <2>5 DEF Turning
<1>4. ASSUME NEW e \in Effects, Prepare(e) PROVE Typed' /\ Table' /\ WayInv'
  <2>1. me.pc \in {"acting", "approved"} /\ e \in EffectsOf[me.node] /\ me.doing = None
    BY <1>4 DEF Prepare, Acting, At
  <2>2. /\ MeIs(me.pc, me.op, me.auto, me.guard, me.turn, me.node, e, me.out)
        /\ me'.did = me.did
    BY <1>4, <1>p, RecordDomains DEF Prepare, MeFields
  <2>3. UNCHANGED <<task, revs, cp, world, deaths>>
    BY <1>4 DEF Prepare, Counted
  <2>4. Recording'
    <3> DEFINE a == [node |-> Scope, of |-> e, status |-> "executing"]
    <3>1. Effected' = a
      BY <2>2 DEF Effected, Scope, At
    <3>2. rows' = rows \cup {a}
      BY <1>4 DEF Prepare
    <3>3. Scope \in DOMAIN EffectsOf \cup {None}
      BY <1>p, <1>r, <2>1 DEF Scope, Placed, Turning, RowOk
    <3>4. /\ a \in [node : DOMAIN EffectsOf \cup {None}, of : Effects,
                    status : {"executing", "succeeded", "failed", "uncertain"}]
          /\ a.status # "succeeded"
      BY <3>3
    <3> HIDE DEF a
    <3> QED
      BY <1>p, <2>1, <2>2, <2>3, <3>1, <3>2, <3>4 DEF Recording
  <2>5. me.pc = "acting" => task.status = "running"
    BY <1>a
  <2> QED
    BY <1>0, <2>1, <2>2, <2>3, <2>4, <2>5 DEF Turning
<1>5. ASSUME NEW s \in {"succeeded", "failed", "uncertain"}, Complete(s)
      PROVE  Typed' /\ Table' /\ WayInv'
  <2>1. me.pc \in {"acting", "approved"} /\ Effected \in rows /\ Classified(Effected, s)
    BY <1>5, <1>p DEF Complete, Recording, Effected
  <2>2. MeIs(IF me.pc = "approved" THEN "turn" ELSE me.pc, me.op, me.auto, me.guard, me.turn,
             me.node, None, me.out)
    BY <1>5, <1>p, RecordDomains DEF Complete, MeFields, At
  <2>3. UNCHANGED <<task, revs, cp, world, deaths>>
    BY <1>5 DEF Complete, Counted
  <2>4. Recording'
    <3>1. rows' = (rows \ {Effected}) \cup {[Effected EXCEPT !.status = s]}
      BY <1>5 DEF Complete, Effected
    <3> QED
      BY <1>p, <2>1, <2>2, <2>3, <3>1, RowRedone
  <2>5. me.pc = "acting" => task.status = "running"
    BY <1>a
  <2> QED
    BY <1>0, <2>1, <2>2, <2>3, <2>4, <2>5 DEF Turning
\* It is over.
<1>e. ASSUME NEW t, NEW out, EndTurn(t, out), me.pc = "acting" => EndOk(t, out)
      PROVE  Typed' /\ Table' /\ WayInv'
  BY <1>e, EndKeeps DEF EndTurn, At
<1>d. DOMAIN task = TaskFields
  BY <1>p, RecordDomains
<1>6. ASSUME NEW out \in {"completed", "paused", "failed"}, TurnEnds(out)
      PROVE  Typed' /\ Table' /\ WayInv'
  <2>1. CASE me.turn # "plain"
    <3>1. EndTurn(task, out)
      BY <1>6, <2>1 DEF TurnEnds
    <3>2. me.pc = "acting" => EndOk(task, out)
      BY <1>a, <2>1 DEF EndOk
    <3> QED
      BY <1>e, <3>1, <3>2
  <2>2. CASE me.turn = "plain"
    <3> DEFINE status == IF out = "failed" THEN "failed" ELSE "completed"
               t == [task EXCEPT !.status = status]
    <3>1. EndTurn(t, out)
      BY <1>6, <2>2 DEF TurnEnds
    <3>2. me.pc = "acting" => EndOk(t, out)
      <4>1. t.status = status /\ t.pending = task.pending
        BY <1>d DEF TaskFields
      <4> HIDE DEF t
      <4> QED
        BY <1>a, <2>2, <4>1 DEF EndOk
    <3> QED
      BY <1>e, <3>1, <3>2
  <2> QED
    BY <2>1, <2>2
<1>7. CASE TurnWindow
  <2> DEFINE t == [task EXCEPT !.status = "paused", !.stop = "window"]
  <2>1. EndTurn(t, "paused")
    BY <1>7 DEF TurnWindow
  <2>2. me.pc = "acting" => EndOk(t, "paused")
    BY <1>a, <1>d DEF EndOk, TaskFields
  <2> QED
    BY <1>e, <2>1, <2>2
<1>8. CASE TurnPaused
  <2> DEFINE t == [task EXCEPT !.status = "paused"]
  <2>1. EndTurn(t, "paused")
    BY <1>8 DEF TurnPaused
  <2>2. me.pc = "acting" => EndOk(t, "paused")
    BY <1>a, <1>d DEF EndOk, TaskFields
  <2> QED
    BY <1>e, <2>1, <2>2
<1>9. CASE TurnCancelled
  <2> DEFINE t == [task EXCEPT !.status = "cancelled", !.stop = "cancelled"]
  <2>1. EndTurn(t, "failed")
    BY <1>9 DEF TurnCancelled
  <2>2. me.pc = "acting" => EndOk(t, "failed")
    BY <1>a, <1>d DEF EndOk, TaskFields
  <2> QED
    BY <1>e, <2>1, <2>2
<1>10. CASE TurnLost
  <2> DEFINE t == [task EXCEPT !.status = "failed", !.stop = "error"]
  <2>1. EndTurn(t, "failed")
    BY <1>10 DEF TurnLost
  <2>2. me.pc = "acting" => EndOk(t, "failed")
    BY <1>a, <1>d DEF EndOk, TaskFields
  <2> QED
    BY <1>e, <2>1, <2>2
<1>11. ASSUME NEW kind \in {"tool_approval", "ask_user"}, TurnAsks(kind)
       PROVE  Typed' /\ Table' /\ WayInv'
  <2> DEFINE pending == [kind |-> kind, node |->
               IF me.turn \in {"node", "answered"} THEN me.node ELSE None]
             t == [task EXCEPT !.status = "waiting_user", !.pending = pending]
  <2>1. EndTurn(t, "waiting_approval")
    BY <1>11 DEF TurnAsks
  <2>2. me.pc = "acting" => pending \in Questions /\ pending # None
    BY <1>a, NothingAssumption DEF Questions
  <2> HIDE DEF pending
  <2>3. me.pc = "acting" => EndOk(t, "waiting_approval")
    BY <1>a, <1>d, <2>2 DEF EndOk, TaskFields
  <2> QED
    BY <1>e, <2>1, <2>3
\* What was approved is not done.
<1>12. CASE ApprovalRefused
  <2>1. me.pc = "approved" /\ Going("turn") /\ me.doing = None
    BY <1>12, <1>p, Goes DEF ApprovalRefused, At
  <2>2. UNCHANGED <<task, revs, cp>> /\ Acts /\ deaths' = deaths
    BY <1>12 DEF ApprovalRefused, Counted
  <2>3. Recording'
    BY <1>p, <2>1, <2>2, NothingDone
  <2> QED
    BY <1>0, <2>1, <2>2, <2>3 DEF Turning
<1> QED
  BY <1>1, <1>2, <1>3, <1>4, <1>5, <1>6, <1>7, <1>8, <1>9, <1>10, <1>11, <1>12 DEF Turn

-----------------------------------------------------------------------------
\* After the executor: the task is made to agree with the plan, or the plan with the task.
LEMMA ReconcilingKeeps ==
  ASSUME TypeInv, WayInv, Reconciling
  PROVE  Typed' /\ Table' /\ WayInv'
<1> USE DEF MeIs, Going, Resting, TaskIs, TaskStays
<1>p. PaidInv /\ Table /\ TaskTyped /\ Placed /\ Recording /\ IsSeq(revs)
  BY DEF TypeInv, PaidInv, Shape
<1>r. /\ Planned => HasActive /\ Row = Latest /\ RowOk(Latest) /\ revs # <<>>
      /\ HasActive => Planned
  BY <1>p, LastRow DEF Planned
<1>w. Fresh /\ deaths = 0 => Nodes /\ Closing /\ Ways
  BY DEF WayInv
<1>n. Fresh => Nodes
  BY DEF WayInv
<1>u. UNCHANGED revs => PlanStays /\ LeaseStays
  BY <1>p, PlanUntouched
<1>d. DOMAIN task = TaskFields
  BY <1>p, RecordDomains
\* Nothing is being done at any of these steps, and nothing is written of the plan at most.
<1>0. ASSUME me.pc \notin {"acting", "approved"}, me'.doing = me.doing \/ me'.doing = None, Acts,
             deaths' = deaths, UNCHANGED revs,
             TaskTyped' /\ Placed', Nodes => Nodes',
             Nodes /\ Closing /\ Ways => Closing', Nodes /\ Closing /\ Ways => Ways'
      PROVE  Typed' /\ Table' /\ WayInv'
  <2>1. Recording'
    BY <1>p, <1>0, NothingDone, NothingDoing
  <2> QED
    BY <1>n, <1>w, <1>u, <1>0, <2>1 DEF WayInv, Typed, PlanStays
<1>1. CASE AutoReplan
  <2>1. /\ me.pc = "reconcile" /\ me.out = "failed" /\ ~TaskOver /\ Planned
    BY <1>1, <1>r DEF AutoReplan, Reconciled, At, MayReplan
  <2>2. MeIs("request", "replan", me.auto, "auto", me.turn, me.node, me.doing, me.out)
    BY <1>1, <1>p, RecordDomains DEF AutoReplan, MeFields
  <2>3. TaskStays
    BY <1>1, <1>d DEF AutoReplan, TaskFields
  <2>4. UNCHANGED <<cp, revs>> /\ Acts /\ deaths' = deaths
    BY <1>1 DEF AutoReplan, Counted
  <2>5. PlanStays /\ LeaseStays
    BY <1>u, <2>4
  <2>6. TaskTyped' /\ Placed'
    BY <1>p, <2>1, <2>2, <2>3, <2>4, <2>5 DEF TaskTyped, Placed, PlanStays, AtWork, Phase, Turning
  <2>7. Nodes => Nodes'
    BY <1>r, <2>1, <2>2, <2>3, <2>5 DEF Nodes, NodesOk, OutOk, PlanStays, Turning
  <2>8. Nodes /\ Closing /\ Ways => Closing'
    BY <1>r, <2>1, <2>2, <2>3, <2>5 DEF Closing, PlanStays, Turning, TaskOver, Terminal
  <2>9. Nodes /\ Closing /\ Ways => Ways'
    BY <1>r, <2>1, <2>2, <2>3, <2>5 DEF Ways, PlanStays, LeaseStays, Turning, Phase, InLease, TaskOver
  <2> QED
    BY <1>0, <2>1, <2>2, <2>4, <2>6, <2>7, <2>8, <2>9
<1>2. CASE Finalize
  <2>1. me.pc = "reconcile" /\ me.out = "failed"
    BY <1>2 DEF Finalize, Reconciled, At
  <2>2. MeIs("abandon", me.op, me.auto, "auto", me.turn, me.node, me.doing, me.out)
    BY <1>2, <1>p, RecordDomains DEF Finalize, MeFields
  <2>3. TaskStays /\ UNCHANGED <<cp, revs>> /\ Acts /\ deaths' = deaths
    BY <1>2 DEF Finalize, Counted
  <2>5. PlanStays /\ LeaseStays
    BY <1>u, <2>3
  <2>6. TaskTyped' /\ Placed'
    BY <1>p, <2>1, <2>2, <2>3, <2>5 DEF TaskTyped, Placed, PlanStays, AtWork, Phase, Turning
  <2>7. Nodes => Nodes'
    BY <1>r, <2>1, <2>2, <2>3, <2>5 DEF Nodes, NodesOk, OutOk, PlanStays, Turning
  <2>8. Nodes /\ Closing /\ Ways => Closing'
    BY <1>r, <2>1, <2>2, <2>3, <2>5 DEF Closing, PlanStays, Turning, TaskOver, Terminal
  <2>9. Nodes /\ Closing /\ Ways => Ways'
    BY <1>r, <2>1, <2>2, <2>3, <2>5 DEF Ways, PlanStays, LeaseStays, Turning, Phase, InLease, TaskOver
  <2> QED
    BY <1>0, <2>1, <2>2, <2>3, <2>6, <2>7, <2>8, <2>9
<1>3. CASE Abandon
  <2>1. me.pc = "abandon" /\ TaskStays /\ UNCHANGED <<task, cp>> /\ Acts /\ deaths' = deaths
    BY <1>3 DEF Abandon, At, Counted
  <2>2. CASE me.guard = "continue" /\ TaskOver
    <3>1. Resting /\ UNCHANGED revs
      BY <1>3, <1>p, <2>2, Goes DEF Abandon
    <3>2. PlanStays /\ LeaseStays
      BY <1>u, <3>1
    <3>3. TaskTyped' /\ Placed'
      BY <1>p, <2>1, <2>2, <3>1, <3>2 DEF TaskTyped, Placed, PlanStays, AtWork, Phase, Turning
    <3>4. Nodes => Nodes'
      BY <1>r, <2>1, <3>1, <3>2 DEF Nodes, NodesOk, OutOk, PlanStays, Turning
    <3>5. Nodes /\ Closing /\ Ways => Closing'
      BY <1>r, <2>1, <2>2, <3>1, <3>2 DEF Closing, PlanStays, Turning, TaskOver, Terminal
    <3>6. Nodes /\ Closing /\ Ways => Ways'
      BY <1>p, <1>r, <2>1, <2>2, <3>1, <3>2
         DEF Ways, PlanStays, LeaseStays, Turning, Phase, InLease, TaskOver, Terminal, TaskTyped,
             Active
    <3> QED
      BY <1>0, <2>1, <3>1, <3>3, <3>4, <3>5, <3>6
  <2>3. CASE ~(me.guard = "continue" /\ TaskOver) /\ ~HasActive
    <3>1. Going("fail") /\ UNCHANGED revs
      BY <1>3, <1>p, <2>3, Goes DEF Abandon
    <3>2. PlanStays /\ LeaseStays /\ ~Planned
      BY <1>r, <1>u, <2>3, <3>1
    <3>3. TaskTyped' /\ Placed'
      BY <1>p, <2>1, <3>1, <3>2 DEF TaskTyped, Placed, PlanStays, AtWork, Phase, Turning
    <3>4. Nodes => Nodes'
      BY <1>r, <2>1, <3>1, <3>2 DEF Nodes, NodesOk, OutOk, PlanStays, Turning
    <3>5. Nodes /\ Closing /\ Ways => Closing'
      BY <2>1, <3>1, <3>2 DEF Closing, PlanStays, Turning
    <3>6. Nodes /\ Closing /\ Ways => Ways'
      BY <2>1, <3>1, <3>2 DEF Ways, PlanStays, Phase
    <3> QED
      BY <1>0, <2>1, <3>1, <3>3, <3>4, <3>5, <3>6
  <2>4. CASE ~(me.guard = "continue" /\ TaskOver) /\ HasActive
    <3>1. Going("fail") /\ PlanCloses("failed")
      BY <1>3, <1>p, <2>4, Goes, PlanIsClosed DEF Abandon
    <3>2. Recording'
      BY <1>p, <2>1, <3>1, NothingDone, NothingDoing
    <3>3. TaskTyped' /\ Placed'
      BY <1>p, <2>1, <3>1 DEF TaskTyped, Placed, PlanCloses, AtWork, Phase, Turning
    <3>4. Nodes => Nodes'
      BY <2>1, <3>1 DEF Nodes, NodesOk, OutOk, PlanCloses, Turning
    <3>5. Nodes /\ Closing /\ Ways => Closing' /\ Ways'
      BY <2>1, <3>1 DEF Closing, Ways, PlanCloses, Turning, Phase, Planned
    <3> QED
      BY <1>n, <1>w, <2>1, <3>1, <3>2, <3>3, <3>4, <3>5 DEF WayInv, Typed, PlanCloses
  <2> QED
    BY <2>2, <2>3, <2>4
<1>4. CASE Fail
  <2>1. me.pc = "fail" /\ UNCHANGED <<cp, revs>> /\ Acts /\ deaths' = deaths
    BY <1>4 DEF Fail, At, Counted
  <2>2. PlanStays /\ LeaseStays
    BY <1>u, <2>1
  <2>3. task.status \in {"running", "waiting_user", "paused"} \cup Terminal
    BY <1>p, <2>1 DEF TaskTyped
  <2>4. CASE task.status \in {"waiting_user", "paused"}
    <3>1. Going("fail") /\ TaskIs("running", task.stop, None)
      BY <1>4, <1>d, <2>1, <2>4 DEF Fail, TaskOver, Terminal, TaskFields
    <3>3. TaskTyped' /\ Placed'
      BY <1>p, <2>1, <2>2, <3>1 DEF TaskTyped, Placed, PlanStays, AtWork, Phase, Turning
    <3>4. Nodes => Nodes'
      BY <1>r, <2>1, <2>2, <3>1 DEF Nodes, NodesOk, OutOk, PlanStays, Turning
    <3>5. Nodes /\ Closing /\ Ways => Closing'
      BY <2>1, <2>2, <3>1 DEF Closing, PlanStays, Turning
    <3>6. Nodes /\ Closing /\ Ways => Ways'
      BY <1>r, <2>1, <2>2, <3>1 DEF Ways, PlanStays, LeaseStays, InLease, Turning, Phase
    <3> QED
      BY <1>0, <2>1, <3>1, <3>3, <3>4, <3>5, <3>6
  <2>5. CASE task.status \notin {"waiting_user", "paused"}
    <3>1. \E s \in Terminal : \E stop :
            TaskIs(s, stop, task.pending) /\ (s = "completed" => task.status = "completed")
      <4>1. CASE TaskOver
        <5>1. task' = task
          BY <1>4, <4>1 DEF Fail, TaskOver, Terminal
        <5> QED
          BY <4>1, <5>1 DEF TaskOver
      <4>2. CASE ~TaskOver
        BY <1>4, <1>d, <2>3, <2>5, <4>2 DEF Fail, TaskOver, Terminal, TaskFields
      <4> QED
        BY <4>1, <4>2
    <3>2. IF Planned THEN Going("abandon") ELSE Resting
      BY <1>4, <1>p, <1>r, <2>5, Goes DEF Fail
    <3>p. task.pending = None
      BY <1>p, <2>5 DEF TaskTyped
    <3>3. TaskTyped' /\ Placed'
      BY <1>p, <2>1, <2>2, <2>5, <3>1, <3>2, <3>p
         DEF TaskTyped, Placed, PlanStays, AtWork, Phase, Turning, Terminal
    <3>4. Nodes => Nodes'
      BY <1>r, <2>1, <2>2, <3>1, <3>2 DEF Nodes, NodesOk, OutOk, PlanStays, Turning
    <3>5. Nodes /\ Closing /\ Ways => Closing'
      BY <2>1, <2>2, <3>1, <3>2 DEF Closing, PlanStays, Turning, TaskOver, Terminal
    <3>6. Nodes /\ Closing /\ Ways => Ways'
      BY <1>r, <2>1, <2>2, <3>1, <3>2, <3>p
         DEF Ways, PlanStays, LeaseStays, InLease, Turning, Phase, TaskOver, Terminal, Active
    <3> QED
      BY <1>0, <2>1, <3>2, <3>3, <3>4, <3>5, <3>6
  <2> QED
    BY <2>4, <2>5
<1>5. CASE PauseForNode
  <2>1. /\ me.pc = "reconcile" /\ me.out = "paused" /\ task.status = "running"
        /\ task.pending = None /\ revs # <<>>
    BY <1>5, <1>p DEF PauseForNode, Reconciled, At, TaskTyped, Placed
  <2>2. Resting /\ TaskIs("paused", "unmet", None)
    BY <1>5, <1>p, <1>d, <2>1, Goes DEF PauseForNode, TaskFields
  <2>3. cp' = None /\ UNCHANGED revs /\ Acts /\ deaths' = deaths
    BY <1>5 DEF PauseForNode, Counted
  <2>4. PlanStays /\ LeaseStays
    BY <1>u, <2>3
  <2>6. TaskTyped' /\ Placed'
    BY <1>p, <2>1, <2>2, <2>3, <2>4 DEF TaskTyped, Placed, PlanStays, AtWork, Phase, Turning, Terminal
  <2>7. Nodes => Nodes'
    BY <1>r, <2>1, <2>2, <2>4 DEF Nodes, NodesOk, OutOk, PlanStays, Turning
  <2>8. Nodes /\ Closing /\ Ways => Closing'
    BY <2>1, <2>2, <2>4 DEF Closing, PlanStays, Turning
  <2>9. Nodes /\ Closing /\ Ways => Ways'
    BY <1>r, <2>1, <2>2, <2>4 DEF Ways, PlanStays, LeaseStays, InLease, Turning, Phase
  <2> QED
    BY <1>0, <2>1, <2>2, <2>3, <2>6, <2>7, <2>8, <2>9
<1>6. CASE CompleteTask
  <2>1. /\ me.pc = "reconcile" /\ me.out = "completed" /\ revs # <<>>
        /\ Latest.status = "completed" /\ ~Planned
        /\ task.status \in {"running", "waiting_user", "paused"} \cup Terminal
    BY <1>6, <1>p DEF CompleteTask, Reconciled, At, Placed, Planned, TaskTyped
  <2>2. UNCHANGED <<cp, revs>> /\ Acts /\ deaths' = deaths
    BY <1>6 DEF CompleteTask, Counted
  <2>3. PlanStays /\ LeaseStays
    BY <1>u, <2>2
  <2>4. \/ /\ Resting /\ TaskIs("completed", "completed", task.pending)
           /\ task.status = "running"
        \/ Resting /\ TaskStays /\ TaskOver
        \/ Caught /\ TaskStays /\ task.status \in {"waiting_user", "paused"}
    <3>1. CASE CanMoveTask("completed")
      <4>1. /\ task' = [task EXCEPT !.status = "completed", !.stop = "completed"]
            /\ me' = Idle /\ task.status = "running"
        BY <1>6, <3>1 DEF CompleteTask, CanMoveTask, AllowedMoves
      <4> QED
        BY <1>p, <1>d, <4>1, Goes DEF TaskFields
    <3>2. CASE ~CanMoveTask("completed") /\ TaskOver
      BY <1>6, <1>p, <3>2, Goes DEF CompleteTask
    <3>3. CASE ~CanMoveTask("completed") /\ ~TaskOver
      <4>1. task.status # "running"
        <5>1. <<"running", "completed">> \in AllowedMoves
          BY DEF AllowedMoves, Terminal
        <5> QED
          BY <3>3, <5>1 DEF CanMoveTask
      <4> QED
        BY <1>6, <1>p, <2>1, <3>3, <4>1, Catches DEF CompleteTask, TaskOver, Terminal
    <3> QED
      BY <3>1, <3>2, <3>3
  <2>6. TaskTyped' /\ Placed'
    BY <1>p, <2>1, <2>2, <2>3, <2>4
       DEF TaskTyped, Placed, PlanStays, AtWork, Phase, Turning, Terminal, Caught
  <2>7. Nodes => Nodes'
    BY <2>1, <2>3, <2>4 DEF Nodes, OutOk, PlanStays, Caught
  <2>8. Nodes /\ Closing /\ Ways => Closing'
    BY <2>1, <2>3, <2>4 DEF Closing, PlanStays, Turning, Caught, TaskOver, Terminal, LeftBehind, Latest
  <2>9. Nodes /\ Closing /\ Ways => Ways'
    BY <2>1, <2>3 DEF Ways, PlanStays
  <2>d. me'.doing = me.doing \/ me'.doing = None
    BY <2>4 DEF Caught
  <2> QED
    BY <1>0, <2>1, <2>2, <2>6, <2>7, <2>8, <2>9, <2>d
<1>7. CASE Leave
  <2>1. /\ me.pc = "reconcile" /\ me.out \in {"waiting_approval", "running", "paused"}
        /\ me.out = "paused" => task.status # "running"
        /\ revs # <<>>
    BY <1>7, <1>p DEF Leave, Reconciled, At, Placed
  <2>2. Resting /\ TaskStays /\ UNCHANGED <<cp, revs>> /\ Acts /\ deaths' = deaths
    BY <1>7, <1>p, Goes DEF Leave, Counted
  <2>3. PlanStays /\ LeaseStays
    BY <1>u, <2>2
  <2>6. TaskTyped' /\ Placed'
    BY <1>p, <2>1, <2>2, <2>3 DEF TaskTyped, Placed, PlanStays, AtWork, Phase, Turning
  <2>7. Nodes => Nodes'
    BY <1>r, <2>1, <2>2, <2>3 DEF Nodes, NodesOk, OutOk, PlanStays, Turning
  <2>8. Nodes /\ Closing /\ Ways => Closing'
    BY <2>1, <2>2, <2>3 DEF Closing, PlanStays, Turning
  <2>9. Nodes /\ Closing /\ Ways => Ways'
    <3> SUFFICES ASSUME Nodes, Closing, Ways PROVE Ways'
      OBVIOUS
    <3>1. Planned /\ me.out \in {"waiting_approval", "paused"}
      BY <2>1 DEF Closing, Nodes, NodesOk
    <3>2. /\ me.out = "waiting_approval" => With(Latest.graph, "waiting_approval") # {}
          /\ me.out = "paused" => task.pending = None
      BY <2>1, <3>1 DEF Nodes, NodesOk, OutOk
    <3>3. With(Latest.graph, "paused") # {} => TaskOver \/ task.status = "paused"
      <4>1. With(Latest.graph, "waiting_approval") \cap With(Latest.graph, "paused") = {}
        BY OneStatus
      <4>2. me.out = "waiting_approval" => With(Latest.graph, "paused") = {}
        BY <3>1, <3>2, <4>1 DEF Nodes, NodesOk
      <4> QED
        BY <2>1, <3>1, <4>2 DEF Ways
    <3>4. Latest.owner = None /\ ~Latest.live
      BY <2>1, <3>1 DEF Ways, InLease, Turning
    <3>5. /\ task.pending # None => With(Latest.graph, "waiting_approval") # {}
          /\ task.status = "running" => With(Latest.graph, "waiting_approval") # {}
      BY <2>1, <3>1, <3>2
    <3> QED
      BY <2>1, <2>2, <2>3, <3>3, <3>4, <3>5
         DEF Ways, PlanStays, LeaseStays, InLease, Turning, Phase, TaskOver
  <2> QED
    BY <1>0, <2>1, <2>2, <2>6, <2>7, <2>8, <2>9
<1> QED
  BY <1>1, <1>2, <1>3, <1>4, <1>5, <1>6, <1>7 DEF Reconciling

-----------------------------------------------------------------------------
\* What a user's turn came to is written to the node that waited for it.
LEMMA SettleKeeps ==
  ASSUME TypeInv, WayInv, Settle
  PROVE  Typed' /\ Table' /\ WayInv'
<1> USE DEF MeIs, Going, Resting, Serving, TaskIs, TaskStays
<1>p. PaidInv /\ Table /\ TaskTyped /\ Placed /\ Recording /\ IsSeq(revs)
  BY DEF TypeInv, PaidInv, Shape
<1>r. /\ Planned => HasActive /\ Row = Latest /\ RowOk(Latest) /\ revs # <<>>
      /\ HasActive => Planned
  BY <1>p, LastRow DEF Planned
<1>w. Fresh /\ deaths = 0 => Nodes /\ Closing /\ Ways
  BY DEF WayInv
<1>n. Fresh => Nodes
  BY DEF WayInv
<1>u. UNCHANGED revs => PlanStays /\ LeaseStays
  BY <1>p, PlanUntouched
<1>d. DOMAIN task = TaskFields
  BY <1>p, RecordDomains
\* Nothing is being done at any of these steps, and nothing is written of the plan at most.
<1>0. ASSUME me.pc \notin {"acting", "approved"}, me'.doing = me.doing \/ me'.doing = None, Acts,
             deaths' = deaths, UNCHANGED revs,
             TaskTyped' /\ Placed', Nodes => Nodes',
             Nodes /\ Closing /\ Ways => Closing', Nodes /\ Closing /\ Ways => Ways'
      PROVE  Typed' /\ Table' /\ WayInv'
  <2>1. Recording'
    BY <1>p, <1>0, NothingDone, NothingDoing
  <2> QED
    BY <1>n, <1>w, <1>u, <1>0, <2>1 DEF WayInv, Typed, PlanStays
<1> DEFINE out == IF me.turn = "rejected" THEN "failed" ELSE me.out
<1>1. /\ me.pc = "settle" /\ Planned /\ me.node \in NodesOf(Latest.graph)
      /\ me.turn \in UserTurn
      /\ out \in {"completed", "failed", "waiting_approval", "paused"}
  BY <1>p DEF Settle, At, Placed
<1>2. TaskStays /\ UNCHANGED <<cp, task>> /\ Acts /\ deaths' = deaths
  BY DEF Settle, Counted
<1>3. me.out = "failed" => out = "failed"
  OBVIOUS
<1>4. Nodes => /\ me.node \in With(Latest.graph, "waiting_approval")
               /\ With(Latest.graph, "paused") = {} /\ With(Latest.graph, "running") = {}
  <2>1. /\ With(Latest.graph, "waiting_approval") \cap With(Latest.graph, "paused") = {}
        /\ With(Latest.graph, "waiting_approval") \cap With(Latest.graph, "running") = {}
    BY OneStatus
  <2> QED
    BY <1>1, <2>1 DEF Nodes, NodesOk
<1>5. CASE \/ me.turn # "rejected" /\ task.status = "waiting_user"
           \/ <<"waiting_approval", out>> \notin NodeMoves
  <2>1. Resting /\ UNCHANGED revs
    BY <1>5, <1>p, Goes DEF Settle
  <2>2. PlanStays /\ LeaseStays
    BY <1>u, <2>1
  <2>3. \/ task.status = "waiting_user"
        \/ out = "paused" /\ me.out = "paused"
    <3>1. \A s \in {"completed", "failed", "waiting_approval"} :
            <<"waiting_approval", s>> \in NodeMoves
      BY DEF NodeMoves, NodeStatus
    <3> QED
      BY <1>1, <1>5, <3>1
  <2>6. TaskTyped' /\ Placed'
    BY <1>p, <1>1, <1>2, <2>1, <2>2 DEF TaskTyped, Placed, PlanStays, AtWork, Phase, Turning
  <2>7. Nodes => Nodes'
    BY <1>r, <1>1, <1>2, <2>1, <2>2 DEF Nodes, NodesOk, OutOk, PlanStays, Turning
  <2>8. Nodes /\ Closing /\ Ways => Closing'
    BY <1>1, <1>2, <2>1, <2>2, <2>3 DEF Closing, PlanStays, Turning
  <2>9. Nodes /\ Closing /\ Ways => Ways'
    BY <1>r, <1>1, <1>2, <1>4, <2>1, <2>2
       DEF Ways, PlanStays, LeaseStays, InLease, Turning, Phase
  <2> QED
    BY <1>0, <1>1, <1>2, <2>1, <2>6, <2>7, <2>8, <2>9
<1>6. CASE /\ me.turn = "rejected" \/ task.status # "waiting_user"
           /\ <<"waiting_approval", out>> \in NodeMoves
  <2>1. Serving("execute", None, 0)
    BY <1>6, <1>p, Goes DEF Settle
  <2>2. out \in {"completed", "failed", "waiting_approval"}
    BY <1>1, <1>6 DEF NodeMoves, NodeStatus
  <2>3. SetRow(NodeMoved(Row, me.node, out, [by |-> "user", status |-> out]))
    BY <1>6 DEF Settle
  <2> HIDE DEF out
  <2>4. NodeGoes(me.node, out) /\ LeaseStays
    <3>1. me.node \in NodesOf(Row.graph) /\ out \in NodeStatus
      BY <1>r, <1>1, <2>2 DEF NodeStatus
    <3> QED
      BY <1>p, <1>r, <1>1, <2>3, <3>1, NodeIsMoved
  <2>5. Recording'
    BY <1>p, <1>1, <1>2, <2>1, NothingDone
  <2>6. TaskTyped' /\ Placed'
    BY <1>p, <1>1, <1>2, <2>1, <2>4
       DEF TaskTyped, Placed, NodeGoes, GraphGoes, AtWork, Phase, Turning
  <2>7. Nodes => Nodes'
    <3> SUFFICES ASSUME Nodes PROVE Nodes'
      OBVIOUS
    <3>1. /\ With(Latest'.graph, "running") = {} /\ With(Latest'.graph, "paused") = {}
          /\ With(Latest'.graph, "waiting_approval") \subseteq With(Latest.graph, "waiting_approval")
      BY <1>4, <2>2, <2>4 DEF NodeGoes, GraphGoes
    <3> QED
      BY <1>1, <1>2, <2>1, <3>1 DEF Nodes, NodesOk, OutOk, Turning
  <2>8. Nodes /\ Closing /\ Ways => Closing'
    BY <1>1, <1>2, <1>3, <2>1, <2>4 DEF Closing, NodeGoes, GraphGoes, Turning, Planned
  <2>9. Nodes /\ Closing /\ Ways => Ways'
    BY <1>1, <1>2, <1>4, <2>1, <2>2, <2>4
       DEF Ways, NodeGoes, GraphGoes, LeaseStays, InLease, Turning, Phase
  <2> QED
    BY <1>n, <1>w, <1>2, <2>4, <2>5, <2>6, <2>7, <2>8, <2>9 DEF WayInv, Typed, NodeGoes
<1> QED
  BY <1>5, <1>6

\* A task that is resumed is charged, and its node handed back.
LEMMA ResumingKeeps ==
  ASSUME TypeInv, WayInv, Pay \/ Requeue
  PROVE  Typed' /\ Table' /\ WayInv'
<1> USE DEF MeIs, Going, Resting, Serving, TaskIs, TaskStays
<1>p. PaidInv /\ Table /\ TaskTyped /\ Placed /\ Recording /\ IsSeq(revs)
  BY DEF TypeInv, PaidInv, Shape
<1>r. /\ Planned => HasActive /\ Row = Latest /\ RowOk(Latest) /\ revs # <<>>
      /\ HasActive => Planned
  BY <1>p, LastRow DEF Planned
<1>w. Fresh /\ deaths = 0 => Nodes /\ Closing /\ Ways
  BY DEF WayInv
<1>n. Fresh => Nodes
  BY DEF WayInv
<1>u. UNCHANGED revs => PlanStays /\ LeaseStays
  BY <1>p, PlanUntouched
<1>d. DOMAIN task = TaskFields
  BY <1>p, RecordDomains
\* Nothing is being done at any of these steps, and nothing is written of the plan at most.
<1>0. ASSUME me.pc \notin {"acting", "approved"}, me'.doing = me.doing \/ me'.doing = None, Acts,
             deaths' = deaths, UNCHANGED revs,
             TaskTyped' /\ Placed', Nodes => Nodes',
             Nodes /\ Closing /\ Ways => Closing', Nodes /\ Closing /\ Ways => Ways'
      PROVE  Typed' /\ Table' /\ WayInv'
  <2>1. Recording'
    BY <1>p, <1>0, NothingDone, NothingDoing
  <2> QED
    BY <1>n, <1>w, <1>u, <1>0, <2>1 DEF WayInv, Typed, PlanStays
<1>a. me.pc \in {"pay", "requeue"} /\ Planned /\ task.status = "running"
  BY <1>p DEF Pay, Requeue, At, Placed, AtWork
<1>1. CASE Pay
  <2>1. me.pc = "pay" /\ Going("requeue")
    BY <1>1, <1>p, Goes DEF Pay, At
  <2>2. TaskStays /\ UNCHANGED <<cp, revs>> /\ Acts /\ deaths' = deaths
    BY <1>1, <1>d DEF Pay, Counted, TaskFields
  <2>3. PlanStays /\ LeaseStays
    BY <1>u, <2>2
  <2>6. TaskTyped' /\ Placed'
    BY <1>p, <1>a, <2>1, <2>2, <2>3 DEF TaskTyped, Placed, PlanStays, AtWork, Phase, Turning
  <2>7. Nodes => Nodes'
    BY <1>r, <2>1, <2>2, <2>3 DEF Nodes, NodesOk, OutOk, PlanStays, Turning
  <2>8. Nodes /\ Closing /\ Ways => Closing'
    BY <1>a, <2>1, <2>2, <2>3 DEF Closing, PlanStays, Turning
  <2>9. Nodes /\ Closing /\ Ways => Ways'
    BY <1>r, <1>a, <2>1, <2>2, <2>3 DEF Ways, PlanStays, LeaseStays, InLease, Turning, Phase
  <2> QED
    BY <1>0, <2>1, <2>2, <2>6, <2>7, <2>8, <2>9
<1>2. CASE Requeue
  <2>1. me.pc = "requeue" /\ Going("execute")
    BY <1>2, <1>p, Goes DEF Requeue, At
  <2>2. TaskStays /\ UNCHANGED <<cp, task>> /\ Acts /\ deaths' = deaths
    BY <1>2 DEF Requeue, Counted
  <2>3. CASE With(Latest.graph, "paused") = {}
    <3>1. UNCHANGED revs
      BY <1>2, <1>r, <1>a, <2>3 DEF Requeue
    <3>2. PlanStays /\ LeaseStays
      BY <1>u, <3>1
    <3>6. TaskTyped' /\ Placed'
      BY <1>p, <1>a, <2>1, <2>2, <3>2 DEF TaskTyped, Placed, PlanStays, AtWork, Phase, Turning
    <3>7. Nodes => Nodes'
      BY <1>r, <1>a, <2>1, <2>2, <2>3, <3>2 DEF Nodes, NodesOk, OutOk, PlanStays, Turning
    <3>8. Nodes /\ Closing /\ Ways => Closing'
      BY <1>a, <2>1, <2>2, <3>2 DEF Closing, PlanStays, Turning
    <3>9. Nodes /\ Closing /\ Ways => Ways'
      BY <1>r, <1>a, <2>1, <2>2, <2>3, <3>2
         DEF Ways, PlanStays, LeaseStays, InLease, Turning, Phase
    <3> QED
      BY <1>0, <2>1, <2>2, <3>1, <3>6, <3>7, <3>8, <3>9
  <2>4. CASE With(Latest.graph, "paused") # {}
    <3> DEFINE n == FirstOf(With(Latest.graph, "paused"))
    <3>1. SetRow(NodeMoved(Row, n, "pending", None))
      BY <1>2, <1>r, <1>a, <2>4 DEF Requeue
    <3>2. n \in With(Latest.graph, "paused") /\ n \in NodesOf(Row.graph)
      BY <1>r, <1>a, <2>4, FirstNode DEF With, RowOk
    <3> HIDE DEF n
    <3>3. NodeGoes(n, "pending") /\ LeaseStays
      BY <1>p, <1>r, <1>a, <3>1, <3>2, NodeIsMoved DEF NodeStatus
    <3>4. Nodes => /\ With(Latest'.graph, "running") = {} /\ With(Latest'.graph, "paused") = {}
                   /\ With(Latest'.graph, "waiting_approval") = {}
      <4>1. Nodes => /\ With(Latest.graph, "running") = {}
                     /\ With(Latest.graph, "waiting_approval") = {}
                     /\ With(Latest.graph, "paused") = {n}
        BY <1>a, <2>1, <3>2 DEF Nodes, NodesOk
      <4> QED
        BY <3>3, <4>1 DEF NodeGoes, GraphGoes
    <3>5. Recording'
      BY <1>p, <2>1, <2>2, NothingDone, NothingDoing
    <3>6. TaskTyped' /\ Placed'
      BY <1>p, <1>a, <2>1, <2>2, <3>3
         DEF TaskTyped, Placed, NodeGoes, GraphGoes, AtWork, Phase, Turning
    <3>7. Nodes => Nodes'
      BY <2>1, <2>2, <3>4 DEF Nodes, NodesOk, OutOk, Turning
    <3>8. Nodes /\ Closing /\ Ways => Closing'
      BY <1>a, <2>1, <2>2, <3>3 DEF Closing, NodeGoes, Turning
    <3>9. Nodes /\ Closing /\ Ways => Ways'
      BY <1>a, <2>1, <2>2, <3>3, <3>4 DEF Ways, NodeGoes, LeaseStays, InLease, Turning, Phase
    <3> QED
      BY <1>n, <1>w, <2>2, <3>3, <3>5, <3>6, <3>7, <3>8, <3>9 DEF WayInv, Typed, NodeGoes
  <2> QED
    BY <2>3, <2>4
<1> QED
  BY <1>1, <1>2

-----------------------------------------------------------------------------
\* The planner phase: its plan replaces the one it was asked for, or its failure is kept.
LEMMA PlanningKeeps ==
  ASSUME TypeInv, WayInv, Planning
  PROVE  Typed' /\ Table' /\ WayInv'
<1> USE DEF MeIs, Going, Resting, Serving, TaskIs, TaskStays
<1>p. PaidInv /\ Table /\ TaskTyped /\ Placed /\ Recording /\ IsSeq(revs)
  BY DEF TypeInv, PaidInv, Shape
<1>r. /\ Planned => HasActive /\ Row = Latest /\ RowOk(Latest) /\ revs # <<>>
      /\ HasActive => Planned
  BY <1>p, LastRow DEF Planned
<1>w. Fresh /\ deaths = 0 => Nodes /\ Closing /\ Ways
  BY DEF WayInv
<1>n. Fresh => Nodes
  BY DEF WayInv
<1>u. UNCHANGED revs => PlanStays /\ LeaseStays
  BY <1>p, PlanUntouched
<1>d. DOMAIN task = TaskFields
  BY <1>p, RecordDomains
\* Nothing is being done at any of these steps, and nothing is written of the plan at most.
<1>0. ASSUME me.pc \notin {"acting", "approved"}, me'.doing = me.doing \/ me'.doing = None, Acts,
             deaths' = deaths, UNCHANGED revs,
             TaskTyped' /\ Placed', Nodes => Nodes',
             Nodes /\ Closing /\ Ways => Closing', Nodes /\ Closing /\ Ways => Ways'
      PROVE  Typed' /\ Table' /\ WayInv'
  <2>1. Recording'
    BY <1>p, <1>0, NothingDone, NothingDoing
  <2> QED
    BY <1>n, <1>w, <1>u, <1>0, <2>1 DEF WayInv, Typed, PlanStays
<1>a. me.pc \in Phase =>
        /\ me.op \in {"initial", "replan"} /\ me.auto \in BOOLEAN
        /\ me.op = "initial" => revs = <<>>
        /\ me.op = "replan" => Planned
        /\ Closing => ~(task.status = "failed" /\ Planned)
  BY <1>p DEF Placed, Phase, Closing, Turning
<1>c. ASSUME NEW status \in {"requesting", "completed", "failed"}, PlannerSays(status),
             me.pc \in Phase
      PROVE  /\ cp' \in Checkpoints /\ cp' # None
             /\ cp'.request = status /\ cp'.op = me.op
  <2>1. cp' \in Checkpoints
    BY <1>a, <1>c DEF PlannerSays, Checkpoints
  <2> QED
    BY <1>c, <2>1, NothingAssumption DEF PlannerSays
\* The phase goes on.
<1>1. ASSUME NEW pc \in {"planning", "store", "preserve"}, me.pc \in Phase, Going(pc),
             cp' \in Checkpoints,
             pc = "preserve" => cp' # None /\ cp'.op = me.op /\ cp'.request = "failed",
             UNCHANGED <<task, revs>>, Acts, deaths' = deaths
      PROVE  Typed' /\ Table' /\ WayInv'
  <2>1. PlanStays /\ LeaseStays
    BY <1>u, <1>1
  <2>2. TaskStays
    BY <1>1
  <2>3. TaskTyped' /\ Placed'
    BY <1>p, <1>1, <2>1, <2>2 DEF TaskTyped, Placed, PlanStays, AtWork, Phase, Turning
  <2>4. Nodes => Nodes'
    BY <1>r, <1>1, <2>1, <2>2 DEF Nodes, NodesOk, OutOk, PlanStays, Turning
  <2>5. Nodes /\ Closing /\ Ways => Closing'
    BY <1>a, <1>1, <2>1, <2>2 DEF Closing, PlanStays, Turning
  <2>6. Nodes /\ Closing /\ Ways => Ways'
    BY <1>r, <1>a, <1>1, <2>1, <2>2
       DEF Ways, PlanStays, LeaseStays, InLease, Turning, Phase, TaskOver
  <2> QED
    BY <1>0, <1>1, <2>3, <2>4, <2>5, <2>6 DEF Phase
\* It raises.
<1>2. ASSUME me.pc \in Phase, Caught, cp' \in Checkpoints \cup {None},
             UNCHANGED <<task, revs>>, Acts, deaths' = deaths
      PROVE  Typed' /\ Table' /\ WayInv'
  <2>1. PlanStays /\ LeaseStays
    BY <1>u, <1>2
  <2>2. TaskStays
    BY <1>2
  <2>3. TaskTyped' /\ Placed'
    BY <1>p, <1>2, <2>1, <2>2 DEF TaskTyped, Placed, PlanStays, AtWork, Phase, Turning, Caught
  <2>4. Nodes => Nodes'
    BY <1>r, <1>2, <2>1, <2>2 DEF Nodes, NodesOk, OutOk, PlanStays, Turning, Caught
  <2>5. Nodes /\ Closing /\ Ways => Closing'
    BY <1>a, <1>2, <2>1, <2>2 DEF Closing, PlanStays, Turning, Caught
  <2>6. Nodes /\ Closing /\ Ways => Ways'
    <3> SUFFICES ASSUME Nodes, Closing, Ways PROVE Ways'
      OBVIOUS
    <3>1. revs = <<>> => me.guard \in {"start", "continue"}
      BY <1>2 DEF Ways
    <3>2. Planned =>
            /\ Latest.owner = None /\ ~Latest.live
            /\ With(Latest.graph, "paused") # {} => TaskOver \/ task.status = "paused"
      BY <1>2 DEF Ways, InLease, Turning, Phase
    <3>3. Planned /\ me.guard = "none" =>
            /\ task.pending # None => With(Latest.graph, "waiting_approval") # {}
            /\ task.status = "running" => With(Latest.graph, "waiting_approval") # {}
      BY <1>2 DEF Ways
    <3> QED
      BY <1>r, <1>2, <2>1, <2>2, <3>1, <3>2, <3>3
         DEF Ways, PlanStays, LeaseStays, InLease, Turning, Phase, TaskOver, Caught
  <2>7. me'.doing = me.doing \/ me'.doing = None
    BY <1>2 DEF Caught
  <2> QED
    BY <1>0, <1>2, <2>3, <2>4, <2>5, <2>6, <2>7 DEF Phase
<1>3. CASE Request
  <2>1. /\ me.pc = "request" /\ PlannerSays("requesting") /\ Going("planning")
        /\ UNCHANGED <<task, revs>> /\ Acts /\ deaths' = deaths
    BY <1>3, <1>p, Goes DEF Request, At, Counted
  <2> QED
    BY <1>1, <1>c, <2>1 DEF Phase
<1>4. CASE PlanMade
  <2>1. /\ me.pc = "planning" /\ PlannerSays("completed") /\ Going("store")
        /\ UNCHANGED <<task, revs>> /\ Acts /\ deaths' = deaths
    BY <1>4, <1>p, Goes DEF PlanMade, At, Counted
  <2> QED
    BY <1>1, <1>c, <2>1 DEF Phase
<1>5. CASE PlanRefused
  <2>1. /\ me.pc = "planning" /\ PlannerSays("failed") /\ Going("preserve")
        /\ UNCHANGED <<task, revs>> /\ Acts /\ deaths' = deaths
    BY <1>5, <1>p, Goes DEF PlanRefused, At, Counted
  <2> QED
    BY <1>1, <1>c, <2>1 DEF Phase
<1>6. CASE PlanRaised
  <2>1. /\ me.pc = "planning" /\ PlannerSays("failed") /\ Caught
        /\ UNCHANGED <<task, revs>> /\ Acts /\ deaths' = deaths
    BY <1>6, <1>p, Catches DEF PlanRaised, At, Counted
  <2> QED
    BY <1>2, <1>c, <2>1 DEF Phase
<1>7. ASSUME NEW g \in Replans, StoreRefused(g) PROVE Typed' /\ Table' /\ WayInv'
  <2>1. /\ me.pc = "store" /\ Caught /\ UNCHANGED <<task, revs, cp>> /\ Acts /\ deaths' = deaths
    BY <1>7, <1>p, Catches DEF StoreRefused, Throw, At, Counted
  <2> QED
    BY <1>2, <1>p, <2>1 DEF Phase, Placed
<1>8. CASE PauseForPlanner
  <2>1. me.pc = "preserve" /\ UNCHANGED <<revs, cp>> /\ Acts /\ deaths' = deaths
    BY <1>8 DEF PauseForPlanner, At, Counted
  <2>2. PlanStays /\ LeaseStays
    BY <1>u, <2>1
  <2>3. \/ task.status = "running" /\ Resting /\ TaskIs("paused", Reason(me.op), task.pending)
        \/ /\ task.status # "running" /\ Resting /\ TaskStays
           /\ task.status = "paused" \/ me.guard # "auto"
        \/ task.status # "running" /\ me.guard = "auto" /\ Going("abandon") /\ TaskStays
    BY <1>8, <1>p, <1>d, Goes DEF PauseForPlanner, TaskFields
  <2>4. TaskTyped' /\ Placed'
    BY <1>p, <2>1, <2>2, <2>3 DEF TaskTyped, Placed, PlanStays, AtWork, Phase, Turning, Terminal
  <2>5. Nodes => Nodes'
    BY <1>r, <2>1, <2>2, <2>3 DEF Nodes, NodesOk, OutOk, PlanStays, Turning
  <2>6. Nodes /\ Closing /\ Ways => Closing'
    BY <1>a, <2>1, <2>2, <2>3 DEF Closing, PlanStays, Turning, Phase
  <2>7. Nodes /\ Closing /\ Ways => Ways'
    <3> SUFFICES ASSUME Nodes, Closing, Ways PROVE Ways'
      OBVIOUS
    <3>1. CASE Planned
      <4>1. /\ Latest.owner = None /\ ~Latest.live
            /\ With(Latest.graph, "paused") # {} => TaskOver \/ task.status = "paused"
            /\ me.guard # "auto" /\ task.pending # None
                 => With(Latest.graph, "waiting_approval") # {}
        BY <2>1, <3>1 DEF Ways, InLease, Turning, Phase
      <4>2. task.status \in {"running", "paused"} => task.pending = None
        BY <1>p DEF TaskTyped
      <4>3. me'.pc \in {"idle", "abandon"} /\ (me'.pc = "idle" => me'.guard = "none")
        BY <2>3
      <4>4. task'.status # "running" /\ task'.pending = task.pending
        BY <2>3
      <4>5. task.status # "running" => task'.status = task.status
        BY <2>3
      <4>6. task.pending # None /\ me'.pc = "idle" => With(Latest.graph, "waiting_approval") # {}
        BY <2>3, <4>1, <4>2
      <4> QED
        BY <1>r, <2>2, <2>3, <3>1, <4>1, <4>3, <4>4, <4>5, <4>6
           DEF Ways, PlanStays, LeaseStays, InLease, Turning, Phase, TaskOver
    <3>2. CASE ~Planned
      <4>1. revs = <<>> /\ me.op = "initial"
        BY <1>a, <2>1, <3>2 DEF Phase
      <4>2. /\ cp # None /\ cp.op = "initial" /\ cp.request = "failed"
            /\ me.guard \in {"start", "continue"}
            /\ task.status \in {"cancelled", "running", "paused"}
            /\ task.status = "paused" => task.stop \in {Reason("initial"), None}
        BY <2>1, <4>1 DEF Ways, Phase
      <4>3. Resting /\ task'.status \in {"cancelled", "paused"}
            /\ (task'.status = "paused" => task'.stop \in {Reason("initial"), None})
        BY <2>3, <4>1, <4>2
      <4>4. task'.status = "paused" => PlannerRecoverable' \/ task'.stop = None
        BY <2>1, <4>1, <4>2, <4>3 DEF PlannerRecoverable
      <4> QED
        BY <2>2, <3>2, <4>1, <4>3, <4>4 DEF Ways, PlanStays, Active, Phase
    <3> QED
      BY <3>1, <3>2
  <2>8. me'.doing = me.doing \/ me'.doing = None
    BY <2>3
  <2> QED
    BY <1>0, <2>1, <2>4, <2>5, <2>6, <2>7, <2>8
<1>9. CASE Unpause
  <2>1. /\ me.pc = "unpause" /\ me.guard = "continue" /\ Planned
        /\ UNCHANGED <<revs, cp>> /\ Acts /\ deaths' = deaths
    BY <1>9, <1>p DEF Unpause, At, Counted, Placed, AtWork
  <2>2. PlanStays /\ LeaseStays
    BY <1>u, <2>1
  <2>3. \/ /\ task.status \in {"running", "paused"} /\ Going("execute")
           /\ TaskIs("running", task.stop, task.pending)
        \/ Going("abandon") /\ TaskStays
    <3>1. CASE task.status \in {"running", "paused"}
      BY <1>9, <1>p, <1>d, <3>1, Goes DEF Unpause, TaskFields
    <3>2. CASE task.status \notin {"running", "paused"}
      BY <1>9, <1>p, <2>1, <3>2, Catches DEF Unpause, Caught
    <3> QED
      BY <3>1, <3>2
  <2>4. TaskTyped' /\ Placed'
    BY <1>p, <2>1, <2>2, <2>3 DEF TaskTyped, Placed, PlanStays, AtWork, Phase, Turning, Terminal
  <2>5. Nodes => Nodes'
    BY <1>r, <2>1, <2>2, <2>3 DEF Nodes, NodesOk, OutOk, PlanStays, Turning
  <2>6. Nodes /\ Closing /\ Ways => Closing'
    BY <2>1, <2>2, <2>3 DEF Closing, PlanStays, Turning
  <2>7. Nodes /\ Closing /\ Ways => Ways'
    BY <1>r, <2>1, <2>2, <2>3
       DEF Nodes, NodesOk, Ways, PlanStays, LeaseStays, InLease, Turning, Phase
  <2> QED
    BY <1>0, <2>1, <2>3, <2>4, <2>5, <2>6, <2>7
<1>10. ASSUME NEW g \in {Plan} \cup Replans, Store(g),
              (g = Plan /\ me.op = "initial") \/ me.op = "replan"
       PROVE  Typed' /\ Table' /\ WayInv'
  <2>1. me.pc = "store" /\ UNCHANGED <<task, cp>> /\ Acts /\ deaths' = deaths
    BY <1>10 DEF Store, At, Counted
  <2>2. PlanOpens /\ (Fresh => Unbegun(Latest'.graph))
    <3>1. CASE me.op = "initial"
      <4>1. revs = <<>> /\ revs' = <<NewRevision(g, NoResults(g))>>
        BY <1>10, <3>1 DEF Store
      <4> QED
        BY <1>p, <4>1, PlanIsMade
    <3>2. CASE me.op = "replan"
      <4>1. HasActive /\ revs' = Append([revs EXCEPT ![Cur] = ClosedAs(@, "superseded")],
                                        Successor(Row, g))
        BY <1>10, <1>a, <1>r, <2>1, <3>2 DEF Store, Phase
      <4> QED
        BY <1>p, <4>1, PlanIsMade
    <3> QED
      BY <1>10, <3>1, <3>2
  <2>3. MeIs(IF me.guard = "continue" THEN "unpause" ELSE "execute", None, me.auto,
             IF me.guard = "start" THEN "none" ELSE me.guard, me.turn, me.node, me.doing, me.out)
    BY <1>10, <1>p, RecordDomains DEF Store, MeFields
  <2>4. Recording'
    BY <1>p, <2>1, <2>3, NothingDone, NothingDoing
  <2>5. TaskTyped' /\ Placed'
    BY <1>p, <2>1, <2>2, <2>3 DEF TaskTyped, Placed, PlanOpens, AtWork, Phase, Turning
  <2>6. Fresh /\ Nodes => Nodes'
    BY <2>1, <2>2, <2>3 DEF Nodes, NodesOk, OutOk, Unbegun, Turning
  <2>7. Closing /\ Ways => Closing'
    <3>1. Closing => task.status # "completed"
      BY <1>a, <2>1 DEF Closing, Phase, Planned
    <3>2. Closing /\ Ways => task.status # "failed"
      BY <1>a, <2>1 DEF Ways, Phase
    <3> QED
      BY <2>1, <2>2, <2>3, <3>1, <3>2 DEF Closing, PlanOpens, Turning
  <2>8. Fresh /\ Closing /\ Ways => Ways'
    BY <2>1, <2>2, <2>3 DEF Ways, PlanOpens, Unbegun, InLease, Turning, Phase
  <2> QED
    BY <1>n, <1>w, <2>1, <2>2, <2>4, <2>5, <2>6, <2>7, <2>8 DEF WayInv, Typed, PlanOpens
<1>11. ASSUME NEW g \in {Plan}, me.op = "initial", Store(g) PROVE Typed' /\ Table' /\ WayInv'
  BY <1>10, <1>11
<1>12. ASSUME NEW g \in Replans, me.op = "replan", Store(g) PROVE Typed' /\ Table' /\ WayInv'
  BY <1>10, <1>12
<1> QED
  BY <1>3, <1>4, <1>5, <1>6, <1>7, <1>8, <1>9, <1>11, <1>12 DEF Planning

-----------------------------------------------------------------------------
\* What a decision of the recovery service tells of the nodes.
Inspects ==
  LET waiting == With(Row.graph, "waiting_approval")
      paused == With(Row.graph, "paused")
      running == With(Row.graph, "running")
  IN  /\ Decision \in {"ready", "waiting", "paused", "interrupted"} =>
           /\ HasActive /\ ~TaskOver
           /\ (waiting # {}) <=> (task.pending # None)
           /\ (task.status = "waiting_user") <=> (task.pending # None)
      /\ Decision = "ready" => task.pending = None /\ paused = {} /\ running = {}
      /\ Decision = "waiting" => task.pending # None
      /\ Decision = "paused" =>
           task.pending = None /\ task.status = "paused" /\ (paused # {} \/ running = {})
      /\ Decision = "interrupted" => task.pending = None /\ paused = {} /\ running # {}

\* inspect decides by just these.
LEMMA DecisionInspects == Inspects
<1>1. ~HasActive => Decision \in {"terminal", "inconsistent"}
  BY DEF Decision
<1>2. HasActive /\ Contradictory => Decision = "inconsistent"
  BY DEF Decision
<1>3. HasActive /\ ~Contradictory =>
        Decision = IF task.pending # None THEN "waiting"
                   ELSE IF With(Row.graph, "paused") # {}
                        THEN IF task.status = "paused" /\ ~Row.live THEN "paused" ELSE "inconsistent"
                   ELSE IF With(Row.graph, "running") # {}
                        THEN IF Row.live THEN "lease_active" ELSE "interrupted"
                   ELSE IF task.status = "paused"
                        THEN IF Row.owner = None THEN "paused" ELSE "inconsistent"
                   ELSE IF ~Row.live /\ Ready(Row.graph) # {} THEN "ready" ELSE "inconsistent"
  BY DEF Decision
<1>4. ~Contradictory =>
        /\ ~TaskOver
        /\ (With(Row.graph, "waiting_approval") # {}) <=> (task.pending # None)
        /\ (task.status = "waiting_user") <=> (task.pending # None)
  BY DEF Contradictory
<1> QED
  BY <1>1, <1>2, <1>3, <1>4 DEF Inspects

\* The commands: each begins where no process is at work.
LEMMA CommandsKeeps ==
  ASSUME TypeInv, WayInv, Commands
  PROVE  Typed' /\ Table' /\ WayInv'
<1> USE DEF MeIs, Going, Resting, Serving, TaskIs, TaskStays
<1>p. PaidInv /\ Table /\ TaskTyped /\ Placed /\ Recording /\ IsSeq(revs)
  BY DEF TypeInv, PaidInv, Shape
<1>r. /\ Planned => HasActive /\ Row = Latest /\ RowOk(Latest) /\ revs # <<>>
      /\ HasActive => Planned
  BY <1>p, LastRow DEF Planned
<1>w. Fresh /\ deaths = 0 => Nodes /\ Closing /\ Ways
  BY DEF WayInv
<1>n. Fresh => Nodes
  BY DEF WayInv
<1>u. UNCHANGED revs => PlanStays /\ LeaseStays
  BY <1>p, PlanUntouched
<1>d. DOMAIN task = TaskFields
  BY <1>p, RecordDomains
\* Nothing is being done at any of these steps, and nothing is written of the plan at most.
<1>0. ASSUME me.pc \notin {"acting", "approved"}, me'.doing = me.doing \/ me'.doing = None, Acts,
             deaths' = deaths, UNCHANGED revs,
             TaskTyped' /\ Placed', Nodes => Nodes',
             Nodes /\ Closing /\ Ways => Closing', Nodes /\ Closing /\ Ways => Ways'
      PROVE  Typed' /\ Table' /\ WayInv'
  <2>1. Recording'
    BY <1>p, <1>0, NothingDone, NothingDoing
  <2> QED
    BY <1>n, <1>w, <1>u, <1>0, <2>1 DEF WayInv, Typed, PlanStays
<1>i. Inspects
  BY DecisionInspects
<1>o. /\ With(Latest.graph, "waiting_approval") \cap With(Latest.graph, "running") = {}
      /\ With(Latest.graph, "waiting_approval") \cap With(Latest.graph, "paused") = {}
      /\ With(Latest.graph, "running") \cap With(Latest.graph, "paused") = {}
  BY OneStatus
\* One node at most is on its way.
<1>s. ASSUME Nodes, Planned
      PROVE  /\ With(Latest.graph, "waiting_approval") # {} =>
                  With(Latest.graph, "running") = {} /\ With(Latest.graph, "paused") = {}
             /\ With(Latest.graph, "paused") # {} => With(Latest.graph, "running") = {}
  BY <1>o, <1>s DEF Nodes, NodesOk
<1>1. CASE Start
  <2>1. /\ me.pc = "idle" /\ task.status = "absent" /\ UNCHANGED <<revs, cp>> /\ Acts
        /\ deaths' = deaths
    BY <1>1 DEF Start, Command, Asked, At
  <2>2. MeIs("request", "initial", TRUE, "start", None, 0, None, None)
    BY <1>1 DEF Start, Idle
  <2>3. TaskIs("running", task.stop, None) /\ revs = <<>>
    BY <1>1, <1>p, <1>d, <2>1 DEF Start, TaskFields, TaskTyped
  <2>4. PlanStays
    BY <1>u, <2>1
  <2>5. TaskTyped' /\ Placed'
    BY <1>p, <2>1, <2>2, <2>3, <2>4 DEF TaskTyped, Placed, PlanStays, AtWork, Phase, Turning, Terminal
  <2>6. Nodes => Nodes'
    BY <2>2, <2>3, <2>4 DEF Nodes, OutOk, PlanStays, Planned
  <2>7. Nodes /\ Closing /\ Ways => Closing'
    BY <2>2, <2>3, <2>4 DEF Closing, PlanStays, Turning
  <2>8. Nodes /\ Closing /\ Ways => Ways'
    BY <2>1, <2>2, <2>3, <2>4 DEF Ways, PlanStays, Phase, Planned
  <2> QED
    BY <1>0, <2>1, <2>2, <2>5, <2>6, <2>7, <2>8
<1>2. CASE Continue
  <2>1. /\ me.pc = "idle" /\ UNCHANGED <<task, revs, cp>> /\ Acts /\ deaths' = deaths
        /\ Planned /\ Decision \in {"ready", "waiting"}
    BY <1>2, <1>r DEF Continue, Command, Asked, At, Continuable
  <2>2. Serving("execute", None, 0) /\ TaskStays
    BY <1>2, <1>p, Goes DEF Continue
  <2>3. PlanStays /\ LeaseStays
    BY <1>u, <2>1
  <2>4. Nodes => With(Latest.graph, "running") = {} /\ With(Latest.graph, "paused") = {}
    BY <1>i, <1>r, <1>s, <2>1 DEF Inspects
  <2>5. TaskTyped' /\ Placed'
    BY <1>p, <2>1, <2>2, <2>3 DEF TaskTyped, Placed, PlanStays, AtWork, Phase, Turning, Planned
  <2>6. Nodes => Nodes'
    BY <1>r, <2>1, <2>2, <2>3, <2>4 DEF Nodes, NodesOk, OutOk, PlanStays, Turning
  <2>7. Nodes /\ Closing /\ Ways => Closing'
    BY <2>1, <2>2, <2>3 DEF Closing, PlanStays, Turning
  <2>8. Nodes /\ Closing /\ Ways => Ways'
    BY <1>r, <2>1, <2>2, <2>3, <2>4 DEF Ways, PlanStays, LeaseStays, InLease, Phase, Turning
  <2> QED
    BY <1>0, <2>1, <2>2, <2>5, <2>6, <2>7, <2>8
<1>3. CASE ContinuePlanner
  <2>1. /\ me.pc = "idle" /\ UNCHANGED <<revs, cp>> /\ Acts /\ deaths' = deaths
        /\ task.status = "paused" /\ task.stop = Reason(cp.op) /\ cp \in Checkpoints
        /\ IF cp.op = "initial" THEN revs = <<>> ELSE Planned
    BY <1>3, <1>p, <1>r
       DEF ContinuePlanner, Command, Asked, At, PlannerRecoverable, Placed
  <2>2. cp.op \in {"initial", "replan"} /\ cp.auto \in BOOLEAN
    BY <2>1 DEF Checkpoints
  <2>3. TaskStays
    BY <1>3, <1>d DEF ContinuePlanner, TaskFields
  <2>4. \/ MeIs("request", cp.op, cp.auto, "continue", None, 0, None, None)
        \/ MeIs("abandon", None, FALSE, "none", None, 0, None, None)
    BY <1>3 DEF ContinuePlanner, Idle
  <2>5. PlanStays /\ LeaseStays
    BY <1>u, <2>1
  <2>6. TaskTyped' /\ Placed'
    <3>1. me'.pc \in {"request", "abandon"} /\ me'.op \in {None, "initial", "replan"}
          /\ me'.auto \in BOOLEAN /\ (me'.pc = "request" => me'.op = cp.op)
      BY <2>2, <2>4
    <3>2. TaskTyped'
      BY <1>p, <2>1, <2>3, <2>5 DEF TaskTyped, PlanStays
    <3>3. Placed'
      BY <1>p, <2>1, <2>2, <2>5, <3>1 DEF Placed, PlanStays, AtWork, Phase, Turning, Planned
    <3> QED
      BY <3>2, <3>3
  <2>7. Nodes => Nodes'
    BY <1>r, <2>1, <2>3, <2>4, <2>5 DEF Nodes, NodesOk, OutOk, PlanStays, Turning
  <2>8. Nodes /\ Closing /\ Ways => Closing'
    BY <2>1, <2>3, <2>4, <2>5 DEF Closing, PlanStays, Turning
  <2>9. Nodes /\ Closing /\ Ways => Ways'
    <3>1. task.pending = None
      BY <1>p, <2>1 DEF TaskTyped
    <3> QED
      BY <1>r, <2>1, <2>2, <2>3, <2>4, <2>5, <3>1
         DEF Ways, PlanStays, LeaseStays, InLease, Phase, Turning
  <2>d. me'.doing = None
    BY <2>4
  <2> QED
    BY <1>0, <2>1, <2>6, <2>7, <2>8, <2>9, <2>d
<1>4. CASE ResumePaused
  <2>1. /\ me.pc = "idle" /\ UNCHANGED <<revs, cp>> /\ Acts /\ deaths' = deaths
        /\ Decision = "paused"
    BY <1>4 DEF ResumePaused, Command, Asked, At
  <2>2. Planned /\ task.status = "paused" /\ task.pending = None
    BY <1>i, <1>r, <2>1 DEF Inspects
  <2>3. \/ MeIs("fail", None, FALSE, "none", None, 0, None, None) /\ TaskStays
        \/ \E pc \in {"pay", "requeue"} :
             Serving(pc, None, 0) /\ TaskIs("running", task.stop, task.pending)
    BY <1>4, <1>d DEF ResumePaused, ExecuteNext, Idle, TaskFields
  <2>4. PlanStays /\ LeaseStays
    BY <1>u, <2>1
  <2>5. Nodes => With(Latest.graph, "running") = {} /\ With(Latest.graph, "waiting_approval") = {}
    BY <1>i, <1>r, <1>s, <2>1, <2>2 DEF Inspects
  <2>6. TaskTyped' /\ Placed'
    BY <1>p, <2>1, <2>2, <2>3, <2>4 DEF TaskTyped, Placed, PlanStays, AtWork, Phase, Turning
  <2>7. Nodes => Nodes'
    BY <1>r, <2>1, <2>3, <2>4, <2>5 DEF Nodes, NodesOk, OutOk, PlanStays, Turning
  <2>8. Nodes /\ Closing /\ Ways => Closing'
    BY <2>1, <2>2, <2>3, <2>4 DEF Closing, PlanStays, Turning
  <2>9. Nodes /\ Closing /\ Ways => Ways'
    BY <1>r, <2>1, <2>2, <2>3, <2>4 DEF Ways, PlanStays, LeaseStays, InLease, Phase, Turning
  <2>d. me'.doing = None
    BY <2>3
  <2> QED
    BY <1>0, <2>1, <2>6, <2>7, <2>8, <2>9, <2>d
\* An interrupted node is accepted, or handed back.
<1>5. ASSUME me.pc = "idle", Decision = "interrupted", NEW s \in {"completed", "pending"},
             NodeGoes(Interrupted, s), LeaseStays \/ (Latest'.owner = None /\ ~Latest'.live),
             Serving("execute", None, 0), UNCHANGED <<task, cp>>, Acts, deaths' = deaths
      PROVE  Typed' /\ Table' /\ WayInv'
  <2> DEFINE n == Interrupted
  <2>1. Planned /\ task.pending = None /\ ~TaskOver
    BY <1>i, <1>r, <1>5 DEF Inspects
  <2>2. /\ n \in With(Latest.graph, "running") /\ With(Latest.graph, "paused") = {}
        /\ With(Latest.graph, "waiting_approval") = {}
    <3>1. With(Latest.graph, "running") # {} /\ n = FirstOf(With(Latest.graph, "running"))
      BY <1>i, <1>r, <1>5, <2>1 DEF Inspects, Interrupted
    <3>2. With(Latest.graph, "running") \subseteq NodesOf(Latest.graph) /\ IsPlanGraph(Latest.graph)
      BY <1>r, <2>1 DEF With, RowOk
    <3>3. n \in With(Latest.graph, "running")
      BY <3>1, <3>2, FirstNode
    <3> QED
      BY <1>i, <1>r, <1>5, <2>1, <3>3 DEF Inspects
  <2>3. TaskStays
    BY <1>5
  <2>n. NodeGoes(n, s)
    BY <1>5
  <2> HIDE DEF n
  <2>4. Recording'
    BY <1>p, <1>5, NothingDone
  <2>5. TaskTyped' /\ Placed'
    BY <1>p, <1>5, <2>1, <2>3, <2>n DEF TaskTyped, Placed, NodeGoes, AtWork, Phase, Turning
  <2>6. With(Latest'.graph, "waiting_approval") = {} /\ With(Latest'.graph, "paused") = {}
    BY <1>5, <2>2, <2>n DEF NodeGoes, GraphGoes
  <2>7. Nodes => Nodes'
    <3>1. Nodes => With(Latest.graph, "running") = {n}
      BY <2>1, <2>2 DEF Nodes, NodesOk
    <3>2. Nodes => With(Latest'.graph, "running") = {}
      BY <1>5, <2>n, <3>1 DEF NodeGoes, GraphGoes
    <3> QED
      BY <1>5, <2>3, <2>6, <3>2 DEF Nodes, NodesOk, OutOk, Turning
  <2>8. Nodes /\ Closing /\ Ways => Closing'
    BY <1>5, <2>1, <2>3, <2>n DEF Closing, NodeGoes, Turning, TaskOver, Terminal
  <2>9. Nodes /\ Closing /\ Ways => Ways'
    BY <1>5, <2>1, <2>3, <2>n, <2>6 DEF Ways, NodeGoes, LeaseStays, InLease, Phase, Turning
  <2> QED
    BY <1>n, <1>w, <1>5, <2>4, <2>5, <2>7, <2>8, <2>9, <2>n DEF WayInv, Typed, NodeGoes
<1>f. Decision = "interrupted" => HasActive /\ Interrupted \in NodesOf(Row.graph)
  <2>1. Decision = "interrupted" => HasActive /\ With(Row.graph, "running") # {}
    BY <1>i DEF Inspects
  <2>2. HasActive => IsPlanGraph(Row.graph)
    BY <1>r DEF RowOk
  <2>3. With(Row.graph, "running") \subseteq NodesOf(Row.graph)
    BY DEF With
  <2> QED
    BY <2>1, <2>2, <2>3, FirstNode DEF Interrupted
<1>6. CASE AcceptInterrupted
  <2>1. /\ me.pc = "idle" /\ Decision = "interrupted" /\ UNCHANGED <<task, cp>> /\ Acts
        /\ deaths' = deaths
        /\ SetRow(NodeMoved(Row, Interrupted, "completed",
                            [by |-> "history", status |-> "completed"]))
    BY <1>6 DEF AcceptInterrupted, Command, Asked, At
  <2>2. Serving("execute", None, 0)
    BY <1>6, <1>p, Goes DEF AcceptInterrupted
  <2>3. NodeGoes(Interrupted, "completed") /\ LeaseStays
    BY <1>p, <1>f, <2>1, NodeIsMoved DEF NodeStatus
  <2> QED
    BY <1>5, <2>1, <2>2, <2>3
<1>7. ASSUME NEW looked \in BOOLEAN, RewindInterrupted(looked)
      PROVE  Typed' /\ Table' /\ WayInv'
  <2>1. /\ me.pc = "idle" /\ Decision = "interrupted" /\ UNCHANGED <<task, cp>> /\ Acts
        /\ deaths' = deaths /\ SetRow(Rewound(Row, Interrupted))
    BY <1>7 DEF RewindInterrupted, Command, Asked, At
  <2>2. Serving("execute", None, 0)
    BY <1>7, <1>p, Goes DEF RewindInterrupted
  <2>3. NodeGoes(Interrupted, "pending") /\ Latest'.owner = None /\ Latest'.live = FALSE
    BY <1>p, <1>f, <2>1, NodeIsRewound
  <2> QED
    BY <1>5, <2>1, <2>2, <2>3
<1>8. ASSUME NEW a \in rows, Resolve(a) PROVE Typed' /\ Table' /\ WayInv'
  <2> DEFINE s == IF a.of \in world THEN "succeeded" ELSE "failed"
  <2>1. /\ me.pc = "idle" /\ UNCHANGED <<task, revs, cp, world, me>> /\ deaths' = deaths
        /\ rows' = (rows \ {a}) \cup {[a EXCEPT !.status = s]}
    BY <1>8 DEF Resolve, Command, Asked, At
  <2>2. Classified(a, s) /\ s \in {"succeeded", "failed", "uncertain"}
    BY DEF Classified
  <2>3. me'.doing = None
    BY <1>p, <2>1, NothingDoing
  <2> HIDE DEF s
  <2>4. Recording'
    BY <1>p, <2>1, <2>2, <2>3, RowRedone
  <2>5. PlanStays /\ LeaseStays /\ Going("idle") /\ TaskStays
    BY <1>u, <2>1
  <2>6. TaskTyped' /\ Placed'
    BY <1>p, <2>1, <2>5 DEF TaskTyped, Placed, PlanStays, AtWork, Phase, Turning
  <2>7. Nodes => Nodes'
    BY <1>r, <2>1, <2>5 DEF Nodes, NodesOk, OutOk, PlanStays, Turning
  <2>8. Closing => Closing'
    BY <1>r, <2>1, <2>5 DEF Closing, PlanStays, Turning, TaskOver, LeftBehind
  <2>9. Ways => Ways'
    <3>1. PlannerRecoverable' <=> PlannerRecoverable
      BY <2>1 DEF PlannerRecoverable, HasActive, ActiveRevs
    <3> QED
      BY <1>r, <2>1, <2>5, <3>1 DEF Ways, PlanStays, LeaseStays, InLease, Turning, Phase, TaskOver
  <2> QED
    BY <1>n, <1>w, <2>1, <2>4, <2>5, <2>6, <2>7, <2>8, <2>9 DEF WayInv, Typed, PlanStays
\* The turn of a user's decision begins.
<1>9. ASSUME me.pc = "idle", task.pending # None, UNCHANGED <<revs, cp>>, Acts, deaths' = deaths,
             TaskIs("running", task.stop, None),
             NEW pc \in {"turn", "approved"}, NEW turn \in UserTurn \cup {"plain"}, NEW node,
             Serving(pc, turn, node), pc = "approved" => turn \in {"approved", "plain"},
             turn # "plain" => Planned /\ node \in With(Latest.graph, "waiting_approval"),
             turn = "plain" => ~Planned \/ With(Latest.graph, "waiting_approval") = {}
      PROVE  Typed' /\ Table' /\ WayInv'
  <2>1. PlanStays /\ LeaseStays
    BY <1>u, <1>9
  <2>2. turn # "plain" => node \in NodesOf(Latest.graph)
    BY <1>9 DEF With
  <2>3. task.status = "waiting_user"
    BY <1>p, <1>9 DEF TaskTyped
  <2>4. TaskTyped' /\ Placed'
    BY <1>p, <1>9, <2>1, <2>2
       DEF TaskTyped, Placed, PlanStays, AtWork, Phase, Turning, Terminal, UserTurn, Planned
  <2>5. Nodes => Nodes'
    BY <1>r, <1>9, <2>1 DEF Nodes, NodesOk, OutOk, PlanStays, Turning, UserTurn
  <2>6. Closing /\ Ways /\ turn = "plain" => revs # <<>> /\ ~Planned /\ Latest.status = "completed"
    <3>1. Ways => revs # <<>> /\ (turn = "plain" => ~Planned)
      BY <1>9, <2>3 DEF Ways, Active, PlannerRecoverable
    <3> QED
      BY <1>9, <2>3, <3>1 DEF Closing, TaskOver, Terminal, LeftBehind, Latest
  <2>7. Nodes /\ Closing /\ Ways => Closing'
    BY <1>9, <2>1, <2>6 DEF Closing, PlanStays, Turning
  <2>8. Nodes /\ Closing /\ Ways => Ways'
    <3> SUFFICES ASSUME Nodes, Closing, Ways PROVE Ways'
      OBVIOUS
    <3>1. Planned => With(Latest.graph, "paused") = {} /\ turn \in UserTurn
      BY <1>9, <1>s, <2>6
    <3>2. Planned => Latest.owner = None /\ ~Latest.live
      BY <1>9 DEF Ways, InLease, Turning
    <3>3. revs # <<>>
      BY <1>9, <2>3 DEF Ways, Active, PlannerRecoverable
    <3> QED
      BY <1>9, <2>1, <3>1, <3>2, <3>3
         DEF PlanStays, LeaseStays, Ways, InLease, Phase, Turning, UserTurn
  <2> QED
    BY <1>0, <1>9, <2>4, <2>5, <2>7, <2>8
<1>10. ASSUME NEW approved \in BOOLEAN, Decide(approved) PROVE Typed' /\ Table' /\ WayInv'
  <2> DEFINE waiting == IF HasActive THEN With(Row.graph, "waiting_approval") ELSE {}
             asked == task.pending.node
             node == IF waiting # {} THEN FirstOf(waiting) ELSE IF asked # None THEN asked ELSE 1
             turn == IF waiting = {} THEN "plain" ELSE IF approved THEN "approved" ELSE "rejected"
             pc == IF approved /\ task.pending.kind = "tool_approval" THEN "approved" ELSE "turn"
  <2>1. /\ me.pc = "idle" /\ task.pending # None /\ UNCHANGED <<revs, cp>> /\ Acts
        /\ deaths' = deaths
    BY <1>10 DEF Decide, Command, Asked, At
  <2>2. TaskIs("running", task.stop, None)
    BY <1>10, <1>d DEF Decide, TaskFields
  <2>3. Serving(pc, turn, node)
    BY <1>10 DEF Decide, ExecuteNext, Idle
  <2> HIDE DEF waiting
  <2>4. /\ pc \in {"turn", "approved"} /\ (pc = "approved" => approved)
        /\ waiting = {} => turn = "plain"
        /\ waiting # {} => turn = (IF approved THEN "approved" ELSE "rejected")
                           /\ node = FirstOf(waiting)
    <3>1. pc \in {"turn", "approved"} /\ (pc = "approved" => approved)
      BY Zenon
    <3>2. waiting = {} => turn = "plain"
      BY Zenon
    <3>3. waiting # {} /\ approved => turn = "approved"
      BY Zenon
    <3>4. waiting # {} /\ ~approved => turn = "rejected"
      BY Zenon
    <3>5. waiting # {} => node = FirstOf(waiting)
      OBVIOUS
    <3> HIDE DEF node, turn, pc
    <3> QED
      BY <3>1, <3>2, <3>3, <3>4, <3>5
  <2>5. /\ waiting # {} => Planned /\ waiting = With(Latest.graph, "waiting_approval")
        /\ waiting = {} => ~Planned \/ With(Latest.graph, "waiting_approval") = {}
    BY <1>r DEF waiting
  <2>6. waiting # {} => FirstOf(waiting) \in waiting
    BY <1>r, <2>5, FirstNode DEF With, RowOk
  <2> HIDE DEF node, turn, pc
  <2> QED
    BY <1>9, <2>1, <2>2, <2>3, <2>4, <2>5, <2>6 DEF UserTurn
<1>11. CASE Answer
  <2> DEFINE node == FirstOf(With(Row.graph, "waiting_approval"))
  <2>1. /\ me.pc = "idle" /\ task.pending # None /\ UNCHANGED <<revs, cp>> /\ Acts
        /\ deaths' = deaths /\ Planned
    BY <1>11, <1>r DEF Answer, Command, Asked, At
  <2>2. TaskIs("running", task.stop, None)
    BY <1>11, <1>d DEF Answer, TaskFields
  <2>3. Serving("turn", "answered", node)
    BY <1>11 DEF Answer, ExecuteNext, Idle
  <2>4. node \in With(Latest.graph, "waiting_approval")
    <3>1. With(Latest.graph, "waiting_approval") # {} /\ IsPlanGraph(Latest.graph)
      BY <1>11, <1>r, <2>1 DEF Answer, RowOk
    <3>2. With(Latest.graph, "waiting_approval") \subseteq NodesOf(Latest.graph)
      BY DEF With
    <3> QED
      BY <1>r, <2>1, <3>1, <3>2, FirstNode
  <2> HIDE DEF node
  <2> QED
    BY <1>9, <2>1, <2>2, <2>3, <2>4 DEF UserTurn
<1>12. CASE ReplanCommand
  <2>1. /\ me.pc = "idle" /\ ~TaskOver /\ UNCHANGED <<revs, cp>> /\ Acts
        /\ deaths' = deaths /\ Planned
    BY <1>12, <1>r DEF ReplanCommand, Command, Asked, At
  <2>2. TaskStays
    BY <1>12, <1>d DEF ReplanCommand, TaskFields
  <2>3. MeIs("request", "replan", FALSE, "none", None, 0, None, None)
    BY <1>12 DEF ReplanCommand, Idle
  <2>4. PlanStays /\ LeaseStays
    BY <1>u, <2>1
  <2>5. TaskTyped' /\ Placed'
    BY <1>p, <2>1, <2>2, <2>3, <2>4 DEF TaskTyped, Placed, PlanStays, AtWork, Phase, Turning, Planned
  <2>6. Nodes => Nodes'
    BY <1>r, <2>1, <2>2, <2>3, <2>4 DEF Nodes, NodesOk, OutOk, PlanStays, Turning
  <2>7. Nodes /\ Closing /\ Ways => Closing'
    BY <2>1, <2>2, <2>3, <2>4 DEF Closing, PlanStays, Turning
  <2>8. Nodes /\ Closing /\ Ways => Ways'
    BY <1>r, <2>1, <2>2, <2>3, <2>4
       DEF Ways, PlanStays, LeaseStays, InLease, Phase, Turning, TaskOver
  <2> QED
    BY <1>0, <2>1, <2>3, <2>5, <2>6, <2>7, <2>8
<1>13. CASE PauseTask
  <2>1. /\ me.pc \in {"idle", "planning"} /\ task.status = "running" /\ UNCHANGED <<revs, me>>
        /\ Acts /\ deaths' = deaths /\ (cp' = cp \/ cp' = None)
    BY <1>13 DEF PauseTask, Asked, At
  <2>2. TaskIs("paused", task.stop, None)
    BY <1>13, <1>p, <1>d, <2>1 DEF PauseTask, TaskFields, TaskTyped
  <2>3. Going(me.pc)
    BY <2>1
  <2>4. PlanStays /\ LeaseStays
    BY <1>u, <2>1
  <2>5. TaskTyped' /\ Placed'
    <3>1. TaskTyped'
      BY <1>p, <2>1, <2>2, <2>4 DEF TaskTyped, Terminal, PlanStays
    <3>2. Placed'
      BY <1>p, <2>1, <2>3, <2>4 DEF Placed, PlanStays, AtWork, Phase, Turning
    <3> QED
      BY <3>1, <3>2
  <2>6. Nodes => Nodes'
    BY <1>r, <2>1, <2>2, <2>3, <2>4 DEF Nodes, NodesOk, OutOk, PlanStays, Turning
  <2>7. Closing /\ Ways /\ me.pc = "idle" => Planned
    <3>1. Ways /\ me.pc = "idle" => revs # <<>>
      BY <2>1 DEF Ways, Active, PlannerRecoverable
    <3> QED
      BY <2>1, <3>1 DEF Closing, TaskOver, Terminal, LeftBehind
  <2>8. Nodes /\ Closing /\ Ways => Closing'
    BY <2>1, <2>2, <2>3, <2>4, <2>7 DEF Closing, PlanStays, Turning
  <2>9. Nodes /\ Closing /\ Ways => Ways'
    <3>1. me.pc = "planning" => (me.op = "replan" /\ Planned) \/ revs = <<>>
      BY <1>p DEF Placed, Phase
    <3>2. Ways /\ revs = <<>> /\ me.pc = "planning" => me.guard = "start" /\ task.stop = None
      BY <2>1 DEF Ways, Phase
    <3> QED
      BY <1>r, <2>1, <2>2, <2>3, <2>4, <2>7, <3>1, <3>2
         DEF Ways, PlanStays, LeaseStays, InLease, Phase, Turning
  <2>d. me'.doing = me.doing
    BY <2>1
  <2> QED
    BY <1>0, <2>1, <2>5, <2>6, <2>8, <2>9, <2>d
<1>14. CASE CancelTask
  <2>1. /\ me.pc \in {"idle", "planning"} /\ UNCHANGED <<revs, cp, me>> /\ Acts /\ deaths' = deaths
    BY <1>14 DEF CancelTask, Asked, At
  <2>2. TaskIs("cancelled", "cancelled", None)
    BY <1>14, <1>d DEF CancelTask, TaskFields
  <2>3. Going(me.pc)
    BY <2>1
  <2>4. PlanStays /\ LeaseStays
    BY <1>u, <2>1
  <2>5. TaskTyped' /\ Placed'
    BY <1>p, <2>1, <2>2, <2>3, <2>4
       DEF TaskTyped, Placed, PlanStays, AtWork, Phase, Turning, Terminal
  <2>6. Nodes => Nodes'
    BY <1>r, <2>1, <2>2, <2>3, <2>4 DEF Nodes, NodesOk, OutOk, PlanStays, Turning
  <2>o. TaskOver'
    BY <2>2 DEF TaskOver, Terminal
  <2>7. Nodes /\ Closing /\ Ways => Closing'
    BY <2>1, <2>2, <2>3, <2>4, <2>o DEF Closing, PlanStays, Turning
  <2>8. Nodes /\ Closing /\ Ways => Ways'
    BY <1>r, <2>1, <2>2, <2>3, <2>4, <2>o
       DEF Ways, PlanStays, LeaseStays, InLease, Phase, Turning, Active
  <2>d. me'.doing = me.doing
    BY <2>1
  <2> QED
    BY <1>0, <2>1, <2>5, <2>6, <2>7, <2>8, <2>d
<1> QED
  BY <1>1, <1>2, <1>3, <1>4, <1>6, <1>7, <1>8, <1>10, <1>11, <1>12, <1>13, <1>14 DEF Commands

-----------------------------------------------------------------------------
(* Death, and the end of a dead process's lease. *)

\* A process dies, or is left with Ctrl-C, wherever it is: the plan and the task are left as
\* they are.
LEMMA DieKeeps ==
  ASSUME TypeInv, WayInv, Die \/ Unwind
  PROVE  Typed' /\ Table' /\ WayInv'
<1> USE DEF MeIs, Resting, TaskIs, TaskStays
<1>p. PaidInv /\ Table /\ TaskTyped /\ Placed /\ Recording /\ IsSeq(revs) /\ deaths \in Nat
  BY DEF TypeInv, PaidInv, Shape
<1>1. Resting /\ TaskStays /\ UNCHANGED <<task, cp>> /\ Acts /\ deaths' = deaths + 1
  BY <1>p, Goes DEF Die, Unwind
<1>2. PlanStays
  BY <1>p, LeaseEnds
<1>3. Recording'
  BY <1>p, <1>1, NothingDone
<1>4. TaskTyped' /\ Placed'
  BY <1>p, <1>1, <1>2 DEF TaskTyped, Placed, PlanStays, AtWork, Phase, Turning
<1>5. Nodes => Nodes'
  <2>1. Planned => revs # <<>>
    BY DEF Planned
  <2> QED
    BY <1>1, <1>2, <2>1 DEF Nodes, NodesOk, OutOk, PlanStays, Turning
<1>6. deaths' # 0
  BY <1>p, <1>1
<1> QED
  BY <1>2, <1>3, <1>4, <1>5, <1>6 DEF WayInv, Typed, PlanStays

\* A lease runs out.
LEMMA LapseKeeps ==
  ASSUME TypeInv, WayInv, NEW r \in DOMAIN revs, Lapse(r)
  PROVE  Typed' /\ Table' /\ WayInv'
<1> USE DEF MeIs, Going, TaskIs, TaskStays
<1>p. PaidInv /\ Table /\ TaskTyped /\ Placed /\ Recording /\ IsSeq(revs) /\ deaths \in Nat
  BY DEF TypeInv, PaidInv, Shape
<1>1. Going(me.pc) /\ TaskStays /\ UNCHANGED <<task, cp, me>> /\ Acts /\ deaths' = deaths
  BY DEF Lapse, Counted
<1>2. PlanStays
  BY <1>p, LeaseEnds
<1>3. Planned => Latest'.owner = Latest.owner /\ (Latest'.live = Latest.live \/ ~Latest'.live)
  <2>1. revs' = [revs EXCEPT ![r].live = FALSE] /\ Len(revs') = Len(revs)
    BY <1>2 DEF Lapse, PlanStays, RevsKept
  <2>2. RowOk(revs[r])
    BY <1>p DEF Table
  <2>3. Planned => Len(revs) \in DOMAIN revs
    BY <1>p, LastRow
  <2> QED
    BY <2>1, <2>2, <2>3, RowDomain DEF Latest, RowOk, RowFields
<1>4. revs # <<>>
  BY <1>p, EmptySeq
<1>5. Recording'
  BY <1>p, <1>1 DEF Recording, Effected, Scope, At, Acts
<1>6. TaskTyped' /\ Placed'
  BY <1>p, <1>1, <1>2 DEF TaskTyped, Placed, PlanStays, AtWork, Phase, Turning, Planned
<1>7. Nodes => Nodes'
  BY <1>1, <1>2, <1>4 DEF Nodes, NodesOk, OutOk, PlanStays, Turning
<1>8. Closing => Closing'
  <2>1. LeftBehind' <=> LeftBehind
    BY <1>1, <1>2, <1>4 DEF LeftBehind, PlanStays, Latest
  <2> QED
    BY <1>1, <1>2, <1>4, <2>1 DEF Closing, PlanStays, Turning, TaskOver
<1>9. Ways => Ways'
  BY <1>1, <1>2, <1>3, <1>4 DEF Ways, PlanStays, InLease, Turning, Phase, TaskOver
<1> QED
  BY <1>1, <1>2, <1>5, <1>6, <1>7, <1>8, <1>9 DEF WayInv, Typed, PlanStays

\* Nothing happens.
LEMMA NothingKeeps ==
  ASSUME TypeInv, WayInv, UNCHANGED vars
  PROVE  Typed' /\ Table' /\ WayInv'
<1> USE DEF MeIs, Going, TaskIs, TaskStays
<1>p. PaidInv /\ Table /\ TaskTyped /\ Placed /\ Recording /\ IsSeq(revs)
  BY DEF TypeInv, PaidInv, Shape
<1>1. /\ Going(me.pc) /\ TaskStays /\ UNCHANGED <<task, revs, cp, rows, world, me, deaths>>
  BY DEF vars
<1>2. PlanStays /\ LeaseStays
  BY <1>p, <1>1, PlanUntouched
<1>4. Planned => revs # <<>>
  BY DEF Planned
<1>5. Recording'
  BY <1>p, <1>1 DEF Recording, Effected, Scope, At
<1>6. TaskTyped' /\ Placed'
  BY <1>p, <1>1, <1>2 DEF TaskTyped, Placed, PlanStays, AtWork, Phase, Turning, Planned
<1>7. Nodes => Nodes'
  BY <1>1, <1>2, <1>4 DEF Nodes, NodesOk, OutOk, PlanStays, Turning
<1>8. Closing => Closing'
  BY <1>1, <1>2, <1>4 DEF Closing, PlanStays, Turning, TaskOver, LeftBehind
<1>9. Ways => Ways'
  <2>1. PlannerRecoverable' <=> PlannerRecoverable
    BY <1>1 DEF PlannerRecoverable, HasActive, ActiveRevs
  <2> QED
    BY <1>1, <1>2, <1>4, <2>1 DEF Ways, PlanStays, LeaseStays, InLease, Turning, Phase, TaskOver
<1> QED
  BY <1>1, <1>2, <1>5, <1>6, <1>7, <1>8, <1>9 DEF WayInv, Typed, PlanStays

-----------------------------------------------------------------------------
\* The invariants hold at first.
LEMMA WaysInit == Init => TypeInv /\ WayInv
<1> SUFFICES ASSUME Init PROVE TypeInv /\ WayInv
  OBVIOUS
<1>1. /\ task.status = "absent" /\ task.stop = None /\ task.pending = None
      /\ revs = <<>> /\ cp = None
      /\ rows = {} /\ world = {} /\ deaths = 0
      /\ me.pc = "idle" /\ me.op = None /\ me.auto = FALSE /\ me.doing = None
  BY DEF Init, NoTask, Idle
<1>2. ~Planned /\ DOMAIN revs = {}
  BY <1>1 DEF Planned
<1>3. Table
  BY <1>2 DEF Table
<1>4. TaskTyped /\ Placed /\ Recording
  BY <1>1 DEF TaskTyped, Placed, Recording, AtWork, Phase, Turning
<1>5. Nodes /\ Closing /\ Ways
  BY <1>1, <1>2 DEF Nodes, OutOk, Closing, Ways, Active, Phase, Turning
<1> QED
  BY <1>1, <1>3, <1>4, <1>5, PaidInit DEF TypeInv, WayInv

\* Deaths are counted.
LEMMA DeathsCounted == [Next]_vars => deaths' = deaths \/ deaths' = deaths + 1
<1>1. Commands => deaths' = deaths
  BY DEF Commands, Start, Continue, ContinuePlanner, ResumePaused, AcceptInterrupted, Answer,
         ReplanCommand, PauseTask, CancelTask, Resolve, RewindInterrupted, Decide, Command, Asked
<1>2. Planning => deaths' = deaths
  BY DEF Planning, Request, PlanMade, PlanRefused, PlanRaised, PauseForPlanner, Unpause, Store,
         StoreRefused, Throw, Counted
<1>3. Executing => deaths' = deaths
  BY DEF Executing, Execute, LeaseTaken, StopAt, StartNode, Close, Write, Skip, Release, Throw,
         Counted
<1>4. Turn => deaths' = deaths
  BY DEF Turn, TurnIdle, TurnBegins, Happen, ApprovalRefused, Prepare, Complete, TurnEnds,
         TurnWindow, TurnPaused, TurnCancelled, TurnLost, TurnAsks, EndTurn, Counted
<1>5. Reconciling => deaths' = deaths
  BY DEF Reconciling, AutoReplan, Finalize, Abandon, Fail, PauseForNode, CompleteTask, Leave,
         Counted
<1>6. Settle \/ Pay \/ Requeue \/ (\E r \in DOMAIN revs : Lapse(r)) => deaths' = deaths
  BY DEF Settle, Pay, Requeue, Lapse, Counted
<1>7. Die \/ Unwind => deaths' = deaths + 1
  BY DEF Die, Unwind
<1> QED
  BY <1>1, <1>2, <1>3, <1>4, <1>5, <1>6, <1>7 DEF Next, vars

\* And every step keeps them.
LEMMA WaysStep == TypeInv /\ WayInv /\ [Next]_vars => TypeInv' /\ WayInv'
<1> SUFFICES ASSUME TypeInv, WayInv, [Next]_vars PROVE TypeInv' /\ WayInv'
  OBVIOUS
<1>1. Typed' /\ Table' /\ WayInv'
  BY CommandsKeeps, PlanningKeeps, ExecutingKeeps, TurnKeeps, ReconcilingKeeps, SettleKeeps,
     ResumingKeeps, DieKeeps, LapseKeeps, NothingKeeps DEF Next
<1>2. PaidInv'
  BY PaidStep DEF TypeInv
<1>3. deaths' \in Nat
  BY DeathsCounted DEF TypeInv
<1> QED
  BY <1>1, <1>2, <1>3 DEF TypeInv, Typed

-----------------------------------------------------------------------------
\* The tables and the process keep their types, and a task has one active revision at most
\* (uq_active_plan_per_task), whatever is commanded and whenever a process dies.
THEOREM TypeCorrect == Spec => []TypeOK
<1>1. TypeInv => TypeOK
  <2> SUFFICES ASSUME TypeInv PROVE TypeOK
    OBVIOUS
  <2>1. PaidInv /\ Table /\ TaskTyped /\ Placed /\ Recording /\ IsSeq(revs)
    BY DEF TypeInv, PaidInv, Shape
  <2>2. task.status \in Statuses \cup {"absent"} /\ task.pending \in {None} \cup Questions
    BY <2>1 DEF TaskTyped, Statuses, Active
  <2>3. task.conts \in 0 .. MaxContinuations /\ task.replans \in 0 .. MaxReplans
    BY <2>1, LimitsAssumption DEF PaidInv, Shape, Left
  <2>4. cp \in {None} \cup Checkpoints
    BY <2>1 DEF Placed
  <2>5. \A r \in DOMAIN revs :
          /\ revs[r].status \in RevisionStatus
          /\ revs[r].graph.status \in [NodesOf(revs[r].graph) -> NodeStatus]
          /\ revs[r].owner \in {None, Gone, Me}
    BY <2>1 DEF Table, RowOk, IsPlanGraph
  <2>6. /\ rows \subseteq [node : DOMAIN EffectsOf \cup {None}, of : Effects,
                           status : {"executing", "succeeded", "failed", "uncertain"}]
        /\ world \subseteq Effects
    BY <2>1 DEF Recording
  <2>7. Cardinality(ActiveRevs) <= 1
    <3>1. ActiveRevs = {} \/ ActiveRevs = {Len(revs)}
      BY <2>1 DEF Table, ActiveRevs
    <3>2. Cardinality({}) = 0 /\ Cardinality({Len(revs)}) = 1
      BY FS_EmptySet, FS_Singleton
    <3>3. Cardinality(ActiveRevs) = 0 \/ Cardinality(ActiveRevs) = 1
      BY <3>1, <3>2, Zenon
    <3> QED
      BY <3>3
  <2> QED
    BY <2>2, <2>3, <2>4, <2>5, <2>6, <2>7 DEF TypeOK
<1> QED
  BY WaysInit, WaysStep, <1>1, PTL DEF Spec

-----------------------------------------------------------------------------
(* What an interrupted node is resumed as. *)

\* Where no process is at work, a node leaves the running ones only by what the user has
\* made of it, or with the lease of a dead process not at all.
LEMMA InterruptedResumed ==
  ASSUME TypeInv, NEW n \in DOMAIN EffectsOf, Next, At("idle"), HasActive,
         n \in With(Row.graph, "running"), n \notin With(revs'[Cur].graph, "running")
  PROVE  IF n \in With(revs'[Cur].graph, "pending")
         THEN EffectsOf[n] \cap world = {}
         ELSE {a.of : a \in Scoped(n)} \subseteq world
<1>p. PaidInv /\ Table /\ TaskTyped /\ Placed /\ Recording /\ IsSeq(revs)
  BY DEF TypeInv, PaidInv, Shape
<1>r. /\ Planned /\ Row = Latest /\ RowOk(Row) /\ Cur = Len(revs) /\ Cur \in DOMAIN revs
      /\ Row.status = "active"
  BY <1>p, LastRow DEF Planned
<1>u. ~UNCHANGED revs
  BY DEF Row
\* Only some commands write the plan.
<1>1. \/ AcceptInterrupted
      \/ \E looked \in BOOLEAN : RewindInterrupted(looked)
      \/ \E r \in DOMAIN revs : Lapse(r)
  <2>1. Commands => \/ AcceptInterrupted
                    \/ \E looked \in BOOLEAN : RewindInterrupted(looked)
    BY <1>u DEF Commands, Start, Continue, ContinuePlanner, ResumePaused, Answer,
                ReplanCommand, PauseTask, CancelTask, Resolve, Decide
  <2>2. ~Planning
    BY DEF Planning, Request, PlanMade, PlanRefused, PlanRaised, PauseForPlanner, Unpause, Store,
           StoreRefused, At
  <2>3. ~Executing
    BY DEF Executing, Execute, LeaseTaken, StopAt, StartNode, Close, Write, Skip, Release, At
  <2>4. ~Turn
    <3>1. me.doing = None
      BY <1>p, NothingDoing DEF At
    <3> QED
      BY <3>1 DEF Turn, TurnIdle, TurnBegins, Happen, ApprovalRefused, Prepare, Acting,
                  Complete, TurnEnds, TurnWindow, TurnPaused, TurnCancelled, TurnLost, TurnAsks,
                  EndTurn, At
  <2>5. ~Reconciling
    BY DEF Reconciling, AutoReplan, Finalize, Abandon, Fail, PauseForNode, CompleteTask, Leave,
           Reconciled, At
  <2>6. ~Settle /\ ~Pay /\ ~Requeue /\ ~Die /\ ~Unwind
    BY DEF Settle, Pay, Requeue, Die, Unwind, At
  <2> QED
    BY <2>1, <2>2, <2>3, <2>4, <2>5, <2>6 DEF Next
<1>i. With(Row.graph, "running") # {} => Interrupted \in NodesOf(Row.graph)
  <2>1. With(Row.graph, "running") \subseteq NodesOf(Row.graph)
    BY DEF With
  <2> QED
    BY <1>r, <2>1, FirstNode DEF Interrupted, RowOk
<1>2. CASE AcceptInterrupted
  <2> DEFINE new == NodeMoved(Row, Interrupted, "completed",
                              [by |-> "history", status |-> "completed"])
  <2>1. revs' = [revs EXCEPT ![Cur] = new] /\ Assess(Interrupted) = "complete"
    BY <1>2 DEF AcceptInterrupted, SetRow
  <2>2. RowGoes(Row, new, Interrupted, "completed")
    BY <1>r, <1>i, MovedRow, Zenon DEF NodeStatus
  <2> HIDE DEF new
  <2>3. revs'[Cur] = new
    BY <1>r, <2>1
  <2>4. n = Interrupted /\ n \notin With(new.graph, "pending")
    BY <2>2, <2>3 DEF RowGoes, GraphGoes
  <2>5. \A e \in {a.of : a \in Scoped(n)} : \E a \in Scoped(n) : a.of = e /\ a.status = "succeeded"
    BY <2>1, <2>4 DEF Assess
  <2>6. {a.of : a \in Scoped(n)} \subseteq world
    BY <1>p, <2>5 DEF Scoped, Recording
  <2> QED
    BY <2>3, <2>4, <2>6
<1>3. ASSUME NEW looked \in BOOLEAN, RewindInterrupted(looked)
      PROVE  IF n \in With(revs'[Cur].graph, "pending")
             THEN EffectsOf[n] \cap world = {}
             ELSE {a.of : a \in Scoped(n)} \subseteq world
  <2>1. SetRow(Rewound(Row, Interrupted)) /\ StoreLetsRewind(Interrupted)
    BY <1>3 DEF RewindInterrupted, MayRewind
  <2>2. NodeGoes(Interrupted, "pending")
    BY <1>p, <1>i, <2>1, NodeIsRewound
  <2>3. Latest'.graph = revs'[Cur].graph
    BY <1>r, <2>2 DEF NodeGoes, RevsKept, Latest
  <2>4. n = Interrupted /\ n \in With(revs'[Cur].graph, "pending")
    BY <1>r, <2>2, <2>3 DEF NodeGoes, GraphGoes
  <2>5. ASSUME NEW e \in EffectsOf[n], e \in world PROVE FALSE
    <3>1. PICK a \in rows :
            a.of = e /\ a.status # "failed" /\ (a.node # None => e \in EffectsOf[a.node])
      BY <1>p, <2>5 DEF Recording
    <3>2. a.node \in DOMAIN EffectsOf \cup {None}
      BY <1>p DEF Recording
    <3>3. a.node \notin {None, n}
      BY <2>1, <2>4, <3>1 DEF StoreLetsRewind
    <3> QED
      BY <2>5, <3>1, <3>2, <3>3, EffectsAssumption
  <2> QED
    BY <2>4, <2>5
<1>4. ASSUME NEW r \in DOMAIN revs, Lapse(r) PROVE FALSE
  <2>1. PlanStays
    BY <1>4, <1>p, LeaseEnds
  <2>2. Latest'.graph = revs'[Cur].graph /\ Latest'.graph = Row.graph
    BY <1>r, <2>1 DEF PlanStays, RevsKept, Latest, Planned
  <2> QED
    BY <2>2
<1> QED
  BY <1>1, <1>2, <1>3, <1>4

\* An interrupted node runs again only if nothing that it does is there, and is completed
\* without a run only if all that it has begun is: whatever was recorded under no node's name
\* (a turn that went on after an approval), looked at late, or settled by an operator.
THEOREM NodesResumedAsFound == Spec => ResumedAsFound
<1> DEFINE Found(n) ==
      /\ At("idle") /\ HasActive /\ n \in With(Row.graph, "running")
      /\ n \notin With(revs'[Cur].graph, "running")
      => IF n \in With(revs'[Cur].graph, "pending")
         THEN EffectsOf[n] \cap world = {}
         ELSE {a.of : a \in Scoped(n)} \subseteq world
<1>1. TypeInv /\ [Next]_vars => [\A n \in DOMAIN EffectsOf : Found(n)]_vars
  <2> SUFFICES ASSUME TypeInv, Next, NEW n \in DOMAIN EffectsOf PROVE Found(n)
    BY DEF vars
  <2> QED
    BY InterruptedResumed
<1>2. Spec => [][\A n \in DOMAIN EffectsOf : Found(n)]_vars
  BY WaysInit, WaysStep, <1>1, PTL DEF Spec
<1> QED
  BY <1>2 DEF ResumedAsFound

-----------------------------------------------------------------------------
\* The task and its plan agree, where no process has died and the planner writes no status
\* of its own: the plan of a completed task is completed, and a task whose plan is over is
\* over with it, or has been left behind by a replan.
THEOREM TaskAndPlanAgree == ASSUME Fresh PROVE Spec => []SettledTogether
<1>1. TypeInv /\ WayInv => SettledTogether
  <2> SUFFICES ASSUME TypeInv, WayInv, AtRest, revs # <<>>
               PROVE  /\ task.status = "completed" => revs[Len(revs)].status = "completed"
                      /\ ~HasActive => TaskOver \/ LeftBehind
                      /\ task.status = "failed" => ~HasActive
    BY DEF SettledTogether
  <2>1. Closing /\ me.pc = "idle"
    BY DEF WayInv, AtRest, At
  <2>2. Planned <=> HasActive
    BY LastRow DEF TypeInv, PaidInv, Shape
  <2> QED
    BY <2>1, <2>2 DEF Closing, Latest
<1> QED
  BY WaysInit, WaysStep, <1>1, PTL DEF Spec

\* A task that is not over always has a command that goes on with it, with a plan unless the
\* planner failed while its user had it paused, but for a node and a question that have come
\* apart; where no process has died and the planner writes no status of its own.
THEOREM AlwaysAWayOn == ASSUME Fresh PROVE Spec => []NeverStuck
<1>1. TypeInv /\ WayInv => NeverStuck
  <2> SUFFICES ASSUME TypeInv, WayInv, AtRest, task.status \in Active, ~PlannerRecoverable
               PROVE  /\ HasActive \/ LeftBehind \/ Unplanned
                      /\ HasActive /\ Decision = "inconsistent" =>
                           /\ With(Row.graph, "waiting_approval") # {}
                           /\ task.pending # None =>
                                task.pending.node \notin With(Row.graph, "waiting_approval")
    BY DEF NeverStuck
  <2>1. /\ Nodes /\ Closing /\ Ways /\ me.pc = "idle"
        /\ PaidInv /\ Table /\ TaskTyped /\ IsSeq(revs)
    BY DEF WayInv, AtRest, At, TypeInv, PaidInv, Shape
  <2>2. /\ Planned <=> HasActive
        /\ Planned => Row = Latest
    BY <2>1, LastRow
  <2>3. ~TaskOver /\ task.status \in {"running", "waiting_user", "paused"}
    BY <2>1 DEF TaskTyped, TaskOver, Terminal, Active
  <2>4. HasActive \/ LeftBehind \/ Unplanned
    <3>1. revs # <<>> \/ Unplanned
      BY <2>1 DEF Ways, Unplanned
    <3> QED
      BY <2>1, <2>2, <2>3, <3>1 DEF Closing
  <2>5. ASSUME HasActive, Decision = "inconsistent"
        PROVE  /\ With(Row.graph, "waiting_approval") # {}
               /\ task.pending # None =>
                    task.pending.node \notin With(Row.graph, "waiting_approval")
    <3> DEFINE waiting == With(Row.graph, "waiting_approval")
               paused == With(Row.graph, "paused")
               running == With(Row.graph, "running")
    <3>1. /\ \A m, n \in running \cup waiting \cup paused : m = n
          /\ task.pending # None => waiting # {}
          /\ task.status = "running" => waiting # {}
          /\ Row.owner = None /\ ~Row.live
          /\ paused # {} => task.status = "paused"
      BY <2>1, <2>2, <2>3, <2>5 DEF Nodes, NodesOk, Ways, InLease, Turning, Phase
    <3>2. ~(Cardinality(Unsettled(Row.graph)) > 1)
      <4>1. Unsettled(Row.graph) = {} \/ \E x : Unsettled(Row.graph) = {x}
        <5>1. Unsettled(Row.graph) = running \cup waiting \cup paused
          BY DEF Unsettled
        <5>2. \A m, n \in Unsettled(Row.graph) : m = n
          BY <3>1, <5>1
        <5>3. ASSUME NEW x \in Unsettled(Row.graph) PROVE Unsettled(Row.graph) = {x}
          BY <5>2
        <5> QED
          BY <5>3
      <4>2. Cardinality(Unsettled(Row.graph)) = 0 \/ Cardinality(Unsettled(Row.graph)) = 1
        BY <4>1, FS_EmptySet, FS_Singleton, Zenon
      <4> QED
        BY <4>2
    <3>3. (task.status = "waiting_user") <=> (task.pending # None)
      BY <2>1 DEF TaskTyped
    <3> HIDE DEF waiting, paused, running
    <3>4. CASE Contradictory
      <4>1. \/ (waiting # {}) # (task.pending # None)
            \/ task.pending # None /\ task.pending.node \notin waiting \cup {None}
        <5>1. ~((task.status = "waiting_user") # (task.pending # None))
          BY <3>3
        <5> QED
          BY <2>3, <3>2, <3>4, <5>1, Zenon DEF Contradictory, waiting
      <4> QED
        BY <3>1, <4>1 DEF waiting
    <3>5. CASE ~Contradictory
      <4>1. (waiting # {}) <=> (task.pending # None)
        BY <3>5 DEF Contradictory, waiting
      <4>2. Decision = IF task.pending # None THEN "waiting"
                       ELSE IF paused # {}
                            THEN IF task.status = "paused" /\ ~Row.live THEN "paused"
                                 ELSE "inconsistent"
                       ELSE IF running # {} THEN IF Row.live THEN "lease_active" ELSE "interrupted"
                       ELSE IF task.status = "paused"
                            THEN IF Row.owner = None THEN "paused" ELSE "inconsistent"
                       ELSE IF ~Row.live /\ Ready(Row.graph) # {} THEN "ready" ELSE "inconsistent"
        BY <2>5, <3>5 DEF Decision, paused, running
      <4> QED
        BY <2>3, <2>5, <3>1, <3>3, <4>1, <4>2
    <3> QED
      BY <3>4, <3>5
  <2> QED
    BY <2>4, <2>5
<1> QED
  BY WaysInit, WaysStep, <1>1, PTL DEF Spec

-----------------------------------------------------------------------------
(* The plan as its abstract machine sees it. *)

\* A row, and the table of them.
View(row) == [status |-> row.status, deps |-> row.graph.deps, nodes |-> row.graph.status]

Views == [r \in DOMAIN revs |-> View(revs[r])]

\* It has as many revisions, and the active one is its last.
LEMMA CurrentIs ==
  ASSUME IsSeq(revs), Table
  PROVE  /\ IsSeq(Views) /\ Len(Views) = Len(revs) /\ DOMAIN Views = DOMAIN revs
         /\ Planned => /\ Cur = Len(Views) /\ Cur \in DOMAIN revs /\ RowOk(Row)
                       /\ Row = revs[Cur] /\ Row.status = "active" /\ HasActive
                       /\ Promised!Current = View(Row) /\ Promised!Active
                       /\ Promised!Nodes = NodesOf(Row.graph)
<1>1. IsSeq(Views) /\ Len(Views) = Len(revs) /\ DOMAIN Views = DOMAIN revs
  BY SameLength DEF Views
<1>2. ASSUME Planned
      PROVE  /\ Cur = Len(Views) /\ Cur \in DOMAIN revs /\ RowOk(Row)
             /\ Row = revs[Cur] /\ Row.status = "active" /\ HasActive
             /\ Promised!Current = View(Row) /\ Promised!Active
             /\ Promised!Nodes = NodesOf(Row.graph)
  <2>1. /\ HasActive /\ Cur = Len(revs) /\ Cur \in DOMAIN revs /\ RowOk(Row)
        /\ Row = revs[Cur] /\ Row.status = "active"
    BY <1>2, LastRow DEF Row, Planned
  <2>2. Promised!Current = View(Row)
    BY <1>1, <2>1 DEF Promised!Current, Views, View
  <2>3. DOMAIN Views # {}
    BY <1>1, <2>1
  <2>4. Views # <<>>
    BY <2>3
  <2> QED
    BY <1>1, <2>1, <2>2, <2>4 DEF Promised!Active, Promised!Nodes, Views, View, NodesOf
<1> QED
  BY <1>1, <1>2

\* A statement that neither moves a node nor closes the plan is none of the machine's.
LEMMA QuietMaps ==
  ASSUME DOMAIN revs' = DOMAIN revs,
         \A r \in DOMAIN revs : revs'[r].status = revs[r].status /\ revs'[r].graph = revs[r].graph
  PROVE  UNCHANGED Views
  BY DEF Views, View

\* The row that is written is the last that the machine sees.
LEMMA RowMaps ==
  ASSUME IsSeq(revs), Table, Planned, NEW new, SetRow(new)
  PROVE  Views' = [Views EXCEPT ![Len(Views)] = View(new)]
<1>1. Cur = Len(Views) /\ Cur \in DOMAIN revs
  BY CurrentIs
<1>2. revs' = [revs EXCEPT ![Cur] = new]
  BY DEF SetRow
<1> QED
  BY <1>1, <1>2 DEF Views

\* What a statement about a node of the plan may make of it.
MayGo(n, s) ==
  LET a == Row.graph.status[n]
  IN  \/ a = "pending" /\ s = "running" /\ n \in Ready(Row.graph) /\ ~Stops
      \/ a = "pending" /\ s = "skipped" /\ n \in Blocked(Row.graph)
      \/ a \in {"running", "paused", "waiting_approval"} /\ s = "pending"
      \/ a = "running" /\ s \in {"completed", "failed", "waiting_approval", "paused"}
      \/ a = "waiting_approval" /\ s \in {"completed", "failed"}
      \/ a = s

\* The step of a node is the machine's step of it.
LEMMA MovingMaps ==
  ASSUME IsSeq(revs), Table, Planned, NEW n \in NodesOf(Row.graph), NEW s, MayGo(n, s),
         NEW new, SetRow(new), new.status = Row.status,
         new.graph.deps = Row.graph.deps,
         new.graph.status = [Row.graph.status EXCEPT ![n] = s]
  PROVE  Promised!Next \/ UNCHANGED Views
<1> DEFINE g == Row.graph
           a == g.status[n]
<1>1. /\ Promised!Active /\ Promised!Nodes = NodesOf(g) /\ Promised!Current = View(Row)
      /\ Len(Views) \in DOMAIN Views /\ Views[Len(Views)] = View(Row)
  BY CurrentIs DEF Views
<1>2. Promised!Current.nodes = g.status /\ Promised!Current.deps = g.deps
  BY <1>1 DEF View
<1>3. View(new) = [View(Row) EXCEPT !.nodes[n] = s]
  BY DEF View
<1>4. Views' = [Views EXCEPT ![Len(Views)] = View(new)]
  BY RowMaps
<1>5. Promised!Moved(n, s)
  BY <1>1, <1>3, <1>4 DEF Promised!Moved, Views, View
<1>t. g.status \in [NodesOf(g) -> NodeStatus]
  BY CurrentIs DEF RowOk, IsPlanGraph
<1>6. CASE a = "pending" /\ s = "running" /\ n \in Ready(g) /\ ~Stops
  <2>1. \A m \in g.deps[n] : g.status[m] = "completed"
    BY <1>6 DEF Ready, With
  <2>2. \A m \in NodesOf(g) : g.status[m] \in {"pending", "running", "completed", "skipped"}
    <3>1. {"failed", "waiting_approval", "paused"} \subseteq Range(Halting)
      <4>1. /\ Halting[1] = "failed" /\ Halting[2] = "waiting_approval" /\ Halting[3] = "paused"
            /\ DOMAIN Halting = 1 .. 4
        BY DEF Halting
      <4> QED
        BY <4>1 DEF Range
    <3> QED
      BY <1>6, <1>t, <3>1 DEF Stops, NodeStatus
  <2>3. Promised!Start(n)
    BY <1>1, <1>2, <1>5, <1>6, <2>1, <2>2 DEF Promised!Start
  <2> QED
    BY <1>1, <2>3 DEF Promised!Next
<1>7. CASE a = "pending" /\ s = "skipped" /\ n \in Blocked(g)
  <2>1. \E m \in g.deps[n] : g.status[m] \in {"failed", "skipped"}
    BY <1>7 DEF Blocked, With
  <2>2. Promised!Skip(n)
    BY <1>2, <1>5, <1>7, <2>1 DEF Promised!Skip
  <2> QED
    BY <1>1, <2>2 DEF Promised!Next
<1>8. CASE a \in {"running", "paused", "waiting_approval"} /\ s = "pending"
  <2>1. Promised!Again(n)
    BY <1>2, <1>5, <1>8 DEF Promised!Again
  <2> QED
    BY <1>1, <2>1 DEF Promised!Next
<1>9. CASE \/ a = "running" /\ s \in {"completed", "failed", "waiting_approval", "paused"}
           \/ a = "waiting_approval" /\ s \in {"completed", "failed"}
  <2>1. Promised!End(n, s)
    BY <1>2, <1>5, <1>9 DEF Promised!End
  <2> QED
    BY <1>1, <1>9, <2>1 DEF Promised!Next
<1>10. CASE a = s
  <2>1. View(new) = View(Row)
    BY <1>10, <1>t DEF View
  <2>2. Views = [r \in DOMAIN Views |-> Views[r]]
    BY DEF Views
  <2> QED
    BY <1>1, <1>4, <2>1, <2>2
<1> QED
  BY <1>6, <1>7, <1>8, <1>9, <1>10 DEF MayGo

\* So is a statement about it.
LEMMA WrittenMaps ==
  ASSUME IsSeq(revs), Table, Planned, NEW n \in NodesOf(Row.graph), NEW s, MayGo(n, s),
         NEW result, SetRow(NodeMoved(Row, n, s, result))
  PROVE  Promised!Next \/ UNCHANGED Views
<1> DEFINE new == NodeMoved(Row, n, s, result)
           g == WithNodeStatus(Row.graph, n, s)
<1>0. RowOk(Row)
  BY CurrentIs
<1>1. g.status = [Row.graph.status EXCEPT ![n] = s] /\ g.deps = Row.graph.deps
  BY <1>0 DEF WithNodeStatus, RowOk, IsPlanGraph
<1>2. /\ new.status = Row.status /\ new.graph.deps = Row.graph.deps
      /\ new.graph.status = [Row.graph.status EXCEPT ![n] = s]
  <2>1. CASE s = Row.graph.status[n] /\ result = None
    <3>1. new = Row
      BY <2>1 DEF NodeMoved
    <3>2. [Row.graph.status EXCEPT ![n] = s] = Row.graph.status
      BY <1>0, <2>1 DEF RowOk, IsPlanGraph
    <3> QED
      BY <3>1, <3>2
  <2>2. CASE ~(s = Row.graph.status[n] /\ result = None)
    <3> DEFINE x == [Row.results EXCEPT ![n] = IF result = None THEN @ ELSE result]
    <3>1. new = [Row EXCEPT !.graph = g, !.results = x, !.version = @ + 1]
      BY <2>2 DEF NodeMoved
    <3> HIDE DEF new, g, x
    <3>2. new.status = Row.status /\ new.graph = g
      BY <1>0, <3>1, RowDomain DEF RowOk, RowFields
    <3> QED
      BY <1>1, <3>2
  <2> QED
    BY <2>1, <2>2
<1>3. SetRow(new)
  OBVIOUS
<1> HIDE DEF new
<1> QED
  BY <1>2, <1>3, MovingMaps

\* A node that is handed back starts again.
LEMMA RewindMaps ==
  ASSUME IsSeq(revs), Table, Planned, NEW n \in NodesOf(Row.graph),
         Row.graph.status[n] = "running", SetRow(Rewound(Row, n))
  PROVE  Promised!Next \/ UNCHANGED Views
<1> DEFINE old == Unleased(Row)
           g == WithNodeStatus(Row.graph, n, "pending")
           new == Rewound(Row, n)
<1>0. RowOk(Row)
  BY CurrentIs
<1>1. g.status = [Row.graph.status EXCEPT ![n] = "pending"] /\ g.deps = Row.graph.deps
  BY <1>0 DEF WithNodeStatus, RowOk, IsPlanGraph
<1>2. Fields(old, RowFields) /\ old.graph = Row.graph /\ old.status = Row.status
  BY <1>0 DEF Unleased, RowOk, Fields, RowFields
<1>3. new = [old EXCEPT !.graph = WithNodeStatus(@, n, "pending"), !.version = @ + 1]
  BY DEF Rewound
<1>4. SetRow(new)
  OBVIOUS
<1> HIDE DEF old, new
<1>5. new = [old EXCEPT !.graph = g, !.version = @ + 1]
  BY <1>2, <1>3, RowDomain DEF RowFields
<1> HIDE DEF g
<1>6. new.graph = g /\ new.status = old.status
  BY <1>2, <1>5, RowDomain DEF RowFields
<1>7. MayGo(n, "pending")
  BY DEF MayGo
<1> QED
  BY <1>1, <1>2, <1>4, <1>6, <1>7, MovingMaps

\* The end of a revision is its end.
LEMMA ClosingMaps ==
  ASSUME IsSeq(revs), Table, Planned, NEW s \in {"completed", "failed"},
         SetRow(ClosedAs(Row, s)),
         s = "completed" => \A n \in NodesOf(Row.graph) : Row.graph.status[n] = "completed"
  PROVE  Promised!Next
<1> DEFINE new == ClosedAs(Row, s)
<1>1. /\ Promised!Active /\ Promised!Nodes = NodesOf(Row.graph) /\ Promised!Current = View(Row)
      /\ Len(Views) \in DOMAIN Views /\ Views[Len(Views)] = View(Row) /\ RowOk(Row)
  BY CurrentIs DEF Views
<1>2. new.graph = Row.graph /\ new.status = s
  BY <1>1, ClosedRow DEF RevisionStatus
<1>3. Views' = [Views EXCEPT ![Len(Views)] = View(new)]
  BY RowMaps
<1> HIDE DEF new
<1>4. View(new) = [View(Row) EXCEPT !.status = s]
  BY <1>2 DEF View
<1>5. Views' = [Views EXCEPT ![Len(Views)].status = s]
  BY <1>1, <1>3, <1>4
<1>6. Promised!Close(s)
  BY <1>1, <1>5 DEF Promised!Close, Views, View
<1> QED
  BY <1>1, <1>6 DEF Promised!Next

\* The first plan is the first.
LEMMA CreatingMaps ==
  ASSUME NEW g, revs = <<>>, revs' = <<NewRevision(g, NoResults(g))>>
  PROVE  Promised!Next
<1>1. Views = <<>>
  BY DEF Views
<1>2. revs'[1].status = "active" /\ DOMAIN revs' = {1}
  BY DEF NewRevision
<1>3. IsSeq(revs') /\ Len(revs') = 1
  BY DEF IsSeq
<1>4. Len(Views') = 1 /\ Views'[1].status = "active"
  BY <1>2, <1>3, SameLength DEF Views, View
<1>5. Promised!Create
  BY <1>1, <1>4 DEF Promised!Create, Views, View
<1> QED
  BY <1>5 DEF Promised!Next

\* A replan is a replan.
LEMMA ReplanningMaps ==
  ASSUME IsSeq(revs), Table, Planned, NEW g, CanReplan(Row, g),
         revs' = Append([revs EXCEPT ![Cur] = ClosedAs(@, "superseded")], Successor(Row, g))
  PROVE  Promised!Next
<1> DEFINE closed == ClosedAs(Row, "superseded")
           new == Successor(Row, g)
           table == [revs EXCEPT ![Cur] = closed]
           next == View(new)
           ended == [Views EXCEPT ![Len(Views)].status = "superseded"]
           app == Append(ended, next)
<1>1. /\ Promised!Active /\ Promised!Current = View(Row) /\ RowOk(Row) /\ Row = revs[Cur]
      /\ Cur = Len(Views) /\ Len(Views) = Len(revs) /\ Cur \in DOMAIN revs
      /\ IsSeq(Views) /\ DOMAIN Views = DOMAIN revs
  BY CurrentIs
<1>2. closed.graph = Row.graph /\ closed.status = "superseded"
  BY <1>1, ClosedRow DEF RevisionStatus
<1>3. new.status = "active" /\ new.graph = Preserve(Row, g)
  BY DEF Successor, NewRevision
<1>4. \A n \in CompletedNodes(Row) :
        n \in CompletedNodes(new) /\ new.graph.deps[n] = Row.graph.deps[n]
  <2>1. CompletedNodes(Row) \subseteq NodesOf(g)
    BY DEF CanReplan
  <2>2. /\ NodesOf(Preserve(Row, g)) = NodesOf(g)
        /\ \A n \in CompletedNodes(Row) :
             /\ Preserve(Row, g).status[n] = Row.graph.status[n]
             /\ Preserve(Row, g).deps[n] = Row.graph.deps[n]
    BY <2>1 DEF Preserve, NodesOf
  <2> QED
    BY <1>3, <2>1, <2>2 DEF CompletedNodes, With
<1>5. revs' = Append(table, new)
  BY <1>1
<1>6. DOMAIN table = DOMAIN revs /\ table[Cur] = closed /\ \A r \in DOMAIN revs : r # Cur => table[r] = revs[r]
  BY <1>1
<1> HIDE DEF closed, new
<1>7. IsSeq(table) /\ Len(table) = Len(revs)
  BY SameLength
<1> HIDE DEF table
<1>8. /\ IsSeq(revs') /\ Len(revs') = Len(revs) + 1 /\ DOMAIN revs' = DOMAIN revs \cup {Len(revs) + 1}
      /\ \A r \in DOMAIN revs : revs'[r] = table[r]
      /\ revs'[Len(revs) + 1] = new
  <2> DEFINE more == Append(table, new)
  <2>1. /\ IsSeq(more) /\ Len(more) = Len(table) + 1
        /\ DOMAIN more = DOMAIN table \cup {Len(table) + 1}
        /\ \A r \in DOMAIN table : more[r] = table[r]
        /\ more[Len(table) + 1] = new
    BY <1>7, OneMore
  <2>2. revs' = more
    BY <1>5
  <2> HIDE DEF more
  <2> QED
    BY <1>6, <1>7, <2>1, <2>2
<1>9. /\ DOMAIN ended = DOMAIN revs
      /\ \A r \in DOMAIN revs : ended[r] = View(table[r])
  <2>1. View(closed) = [View(Row) EXCEPT !.status = "superseded"]
    BY <1>2 DEF View
  <2> QED
    BY <1>1, <1>6, <2>1 DEF Views
<1>10. IsSeq(ended) /\ Len(ended) = Len(revs)
  <2>1. ended = [t \in DOMAIN revs |-> ended[t]]
    BY <1>9
  <2> HIDE DEF ended
  <2> QED
    BY <2>1, SameLength
<1>11. ended = [Views EXCEPT ![Len(Views)].status = "superseded"]
  OBVIOUS
<1> HIDE DEF ended
<1>12. /\ IsSeq(app) /\ DOMAIN app = DOMAIN ended \cup {Len(ended) + 1}
       /\ \A r \in DOMAIN ended : app[r] = ended[r]
       /\ app[Len(ended) + 1] = next
  BY <1>10, OneMore
<1>13. IsSeq(Views') /\ Len(Views') = Len(revs') /\ DOMAIN Views' = DOMAIN revs'
  <2>1. Views' = [r \in DOMAIN revs' |-> Views'[r]] /\ DOMAIN Views' = DOMAIN revs'
    BY DEF Views
  <2>2. IsSeq(revs')
    BY <1>8
  <2> QED
    BY <2>1, <2>2, SameLength
<1>14. \A r \in DOMAIN revs' : Views'[r] = View(revs'[r])
  BY DEF Views
<1>15. Views' = app
  <2>1. DOMAIN Views' = DOMAIN app
    BY <1>8, <1>9, <1>10, <1>12, <1>13
  <2>2. \A r \in DOMAIN revs : Views'[r] = app[r]
    BY <1>8, <1>9, <1>12, <1>14
  <2>3. Views'[Len(revs) + 1] = app[Len(revs) + 1]
    BY <1>8, <1>10, <1>12, <1>14
  <2>4. \A r \in DOMAIN Views' : Views'[r] = app[r]
    BY <1>8, <1>13, <2>2, <2>3
  <2>5. IsSeq(app)
    BY <1>12
  <2> HIDE DEF app, next
  <2> QED
    BY <1>13, <2>1, <2>4, <2>5, SameRows
<1>16. /\ Len(Views') = Len(Views) + 1 /\ Views'[Len(Views) + 1] = next
  BY <1>1, <1>8, <1>13, <1>14
<1>17. next.status = "active"
  BY <1>3 DEF View
<1>18. \A n \in Promised!Done(View(Row)) :
         n \in Promised!Done(next) /\ next.deps[n] = View(Row).deps[n]
  BY <1>4 DEF Promised!Done, View, CompletedNodes, With, NodesOf
<1> HIDE DEF next
<1>19. Promised!Replan
  <2>1. Views' = Append([Views EXCEPT ![Len(Views)].status = "superseded"], Views'[Len(Views) + 1])
    BY <1>11, <1>15, <1>16
  <2>2. Len(Views') = Len(Views) + 1 /\ Views'[Len(Views) + 1].status = "active"
    BY <1>16, <1>17
  <2>3. /\ Promised!Done(Promised!Current) \subseteq Promised!Done(Views'[Len(Views) + 1])
        /\ \A n \in Promised!Done(Promised!Current) :
             Views'[Len(Views) + 1].deps[n] = Promised!Current.deps[n]
    BY <1>1, <1>16, <1>18
  <2> QED
    BY <2>1, <2>2, <2>3, Zenon DEF Promised!Replan, Views, View
<1> QED
  BY <1>1, <1>19 DEF Promised!Next

-----------------------------------------------------------------------------
(* The node a process is at. *)

\* A turn of a node is of one that runs, that of a user's decision of one that waits.
Held ==
  /\ me.pc \in Turning \cup {"write"} /\ me.turn = "node"
       => me.node \in With(Latest.graph, "running")
  /\ me.pc \in Turning \cup {"settle"} /\ me.turn \in UserTurn
       => me.node \in With(Latest.graph, "waiting_approval")

\* The process is not at a node.
Off == me'.pc \notin Turning \cup {"write", "settle"}

\* It is at the node it was at.
On ==
  /\ Latest'.graph = Latest.graph /\ me'.turn = me.turn /\ me'.node = me.node
  /\ \/ me'.pc = me.pc
     \/ me.pc \in Turning /\ me'.pc \in Turning \cup {IF me.turn = "node" THEN "write" ELSE "settle"}

\* Either keeps it.
LEMMA HeldOn == ASSUME Held, Off \/ On PROVE Held'
  BY DEF Held, Off, On, Turning, UserTurn

\* Where a process goes.
LEMMA GoesOff ==
  ASSUME PaidInv
  PROVE  /\ \A pc : pc \notin Turning \cup {"write", "settle"} /\ Goto(pc) => Off
         /\ me' = Idle => Off
         /\ me' = ExecuteNext(TRUE) => Off
         /\ Catch => Off
<1>1. \A pc : pc \notin Turning \cup {"write", "settle"} /\ Goto(pc) => Off
  BY Goes DEF Going, MeIs, Off
<1>2. me' = Idle => Off
  BY DEF Idle, Off, Turning
<1>3. me' = ExecuteNext(TRUE) => Off
  BY DEF Idle, ExecuteNext, Off, Turning
<1>4. Catch => Off
  BY <1>1, <1>2 DEF Catch, Handler, Turning
<1> QED
  BY <1>1, <1>2, <1>3, <1>4

\* Executors leave the node, or begin its turn.
LEMMA ExecutingHolds == ASSUME TypeInv, Held, Executing PROVE Held'
<1>p. PaidInv /\ Table /\ Placed /\ IsSeq(revs) /\ DOMAIN me = MeFields
  BY RecordDomains DEF TypeInv, PaidInv, Shape
<1>1. CASE StartNode
  <2> DEFINE n == FirstOf(Ready(Row.graph))
  <2>1. Planned /\ HasActive /\ Row = Latest /\ RowOk(Row)
    BY <1>1, <1>p, LastRow DEF StartNode, At, Placed, AtWork
  <2>2. n \in NodesOf(Row.graph)
    <3>1. Ready(Row.graph) \subseteq NodesOf(Row.graph)
      BY DEF Ready, With
    <3> QED
      BY <1>1, <2>1, <3>1, FirstNode DEF StartNode, RowOk
  <2>3. NodeGoes(n, "running")
    BY <1>1, <1>p, <2>1, <2>2, NodeIsMoved DEF StartNode, NodeStatus
  <2>4. n \in With(Latest'.graph, "running")
    BY <2>3 DEF NodeGoes, GraphGoes
  <2>5. me'.turn = "node" /\ me'.node = n /\ me'.pc = "turn"
    BY <1>1, <1>p DEF StartNode, MeFields
  <2> HIDE DEF n
  <2> QED
    BY <2>4, <2>5 DEF Held, UserTurn
<1>2. CASE StopAt
  BY <1>2, <1>p, HeldOn DEF StopAt, Off, MeFields, Turning
<1>3. CASE Close
  BY <1>3, <1>p, HeldOn DEF Close, Off, MeFields, Turning
<1>4. CASE Write
  BY <1>4, <1>p, HeldOn DEF Write, Off, MeFields, Turning
<1>5. CASE Execute \/ LeaseTaken \/ Release
  BY <1>5, <1>p, GoesOff, HeldOn DEF Execute, LeaseTaken, Release, Throw, Turning
<1>6. CASE Skip
  <2>1. CASE UNCHANGED me
    BY <1>6, <2>1, HeldOn DEF Skip, At, Off, Turning
  <2>2. CASE Goto("release")
    BY <1>p, <2>2, GoesOff, HeldOn DEF Turning
  <2> QED
    BY <1>6, <2>1, <2>2 DEF Skip
<1> QED
  BY <1>1, <1>2, <1>3, <1>4, <1>5, <1>6 DEF Executing

\* A turn stays with its node.
LEMMA TurnHolds == ASSUME TypeInv, Held, Turn PROVE Held'
<1>p. PaidInv /\ Placed /\ Recording /\ DOMAIN me = MeFields
  BY RecordDomains DEF TypeInv
<1>1. UNCHANGED revs
  BY DEF Turn, TurnIdle, TurnBegins, Happen, ApprovalRefused, Prepare, Complete, TurnEnds,
         TurnWindow, TurnPaused, TurnCancelled, TurnLost, TurnAsks, EndTurn
<1>2. Latest'.graph = Latest.graph
  BY <1>1 DEF Latest
<1>3. CASE TurnIdle
  <2>1. me'.pc = "write" /\ me'.turn = me.turn /\ me'.node = me.node /\ me.pc = "turn"
    BY <1>3, <1>p DEF TurnIdle, At, MeFields
  <2>2. me.turn = "node"
    BY <1>3, <1>p, <2>1 DEF TurnIdle, Placed, Turning
  <2> QED
    BY <1>2, <2>1, <2>2, HeldOn DEF On, Turning
<1>4. CASE TurnBegins
  BY <1>2, <1>4, <1>p, HeldOn DEF TurnBegins, At, Goto, On, Turning, MeFields
<1>5. CASE Happen
  BY <1>2, <1>5, HeldOn DEF Happen, On
<1>6. ASSUME NEW e \in Effects, Prepare(e) PROVE Held'
  BY <1>2, <1>6, <1>p, HeldOn DEF Prepare, On, MeFields
<1>7. ASSUME NEW s \in {"succeeded", "failed", "uncertain"}, Complete(s) PROVE Held'
  <2>1. me.pc \in {"acting", "approved"}
    BY <1>7, <1>p DEF Complete, Recording
  <2> QED
    BY <1>2, <1>7, <1>p, <2>1, HeldOn DEF Complete, At, On, Turning, MeFields
<1>8. ASSUME NEW t, NEW out, EndTurn(t, out) PROVE Held'
  <2>1. CASE me.turn = "plain"
    BY <1>8, <1>p, <2>1, GoesOff, HeldOn DEF EndTurn
  <2>2. CASE me.turn # "plain"
    BY <1>2, <1>8, <1>p, <2>2, HeldOn DEF EndTurn, At, On, Turning, MeFields
  <2> QED
    BY <2>1, <2>2
<1>9. CASE ApprovalRefused
  BY <1>2, <1>9, <1>p, HeldOn DEF ApprovalRefused, At, Goto, On, Turning, MeFields
<1> QED
  BY <1>3, <1>4, <1>5, <1>6, <1>7, <1>8, <1>9
     DEF Turn, TurnEnds, TurnWindow, TurnPaused, TurnCancelled, TurnLost, TurnAsks

\* A command is given to a process that is at no node, and takes up one that waits.
LEMMA CommandsHolds == ASSUME TypeInv, Held, Commands PROVE Held'
<1>p. PaidInv /\ Table /\ Placed /\ IsSeq(revs) /\ DOMAIN me = MeFields
  BY RecordDomains DEF TypeInv, PaidInv, Shape
<1>1. CASE UNCHANGED <<revs, me>>
  BY <1>1, HeldOn DEF On, Latest
<1>2. CASE \/ Start \/ Continue \/ ContinuePlanner \/ ResumePaused \/ AcceptInterrupted
           \/ ReplanCommand \/ \E looked \in BOOLEAN : RewindInterrupted(looked)
  <2>1. Off
    BY <1>2 DEF Start, Continue, ContinuePlanner, ResumePaused, AcceptInterrupted,
                ReplanCommand, RewindInterrupted, ExecuteNext, Idle, Off, Turning
  <2> QED
    BY <2>1, HeldOn
<1>3. ASSUME HasActive, With(Row.graph, "waiting_approval") # {}, UNCHANGED revs,
             me'.node = FirstOf(With(Row.graph, "waiting_approval")), me'.turn \in UserTurn
      PROVE  Held'
  <2>1. Planned /\ Row = Latest /\ RowOk(Row) /\ Latest' = Latest
    BY <1>3, <1>p, LastRow DEF Latest
  <2>2. With(Row.graph, "waiting_approval") \subseteq NodesOf(Row.graph)
    BY DEF With
  <2>3. me'.node \in With(Row.graph, "waiting_approval")
    BY <1>3, <2>1, <2>2, FirstNode DEF RowOk
  <2> QED
    BY <1>3, <2>1, <2>3 DEF Held, UserTurn
<1>4. CASE Answer
  <2>1. /\ HasActive /\ With(Row.graph, "waiting_approval") # {} /\ UNCHANGED revs
        /\ me'.node = FirstOf(With(Row.graph, "waiting_approval")) /\ me'.turn = "answered"
    BY <1>4 DEF Answer, ExecuteNext, Idle
  <2> QED
    BY <1>3, <2>1 DEF UserTurn
<1>5. ASSUME NEW approved \in BOOLEAN, Decide(approved) PROVE Held'
  <2> DEFINE waiting == IF HasActive THEN With(Row.graph, "waiting_approval") ELSE {}
  <2>1. CASE waiting = {}
    <3>1. me'.turn = "plain"
      BY <1>5, <2>1 DEF Decide, ExecuteNext, Idle
    <3> QED
      BY <3>1 DEF Held, UserTurn
  <2>2. CASE waiting # {}
    <3>1. /\ me'.node = FirstOf(waiting) /\ me'.turn \in {"approved", "rejected"}
          /\ UNCHANGED revs
      BY <1>5, <2>2 DEF Decide, ExecuteNext, Idle
    <3>2. HasActive /\ waiting = With(Row.graph, "waiting_approval")
      BY <2>2
    <3> QED
      BY <1>3, <2>2, <3>1, <3>2 DEF UserTurn
  <2> QED
    BY <2>1, <2>2
<1>6. CASE PauseTask \/ CancelTask \/ \E a \in rows : Resolve(a)
  BY <1>1, <1>6 DEF PauseTask, CancelTask, Resolve
<1> QED
  BY <1>2, <1>4, <1>5, <1>6 DEF Commands

\* Everything else is done by a process that is at no node, or leaves it.
LEMMA OthersHold ==
  ASSUME TypeInv, Held,
         \/ Planning \/ Reconciling \/ Settle \/ Pay \/ Requeue \/ Die \/ Unwind
         \/ \E r \in DOMAIN revs : Lapse(r)
  PROVE  Held'
<1>p. PaidInv /\ Table /\ Placed /\ IsSeq(revs) /\ DOMAIN me = MeFields
  BY RecordDomains DEF TypeInv, PaidInv, Shape
<1>1. CASE Planning
  <2>1. CASE Request \/ PlanMade \/ PlanRefused \/ PlanRaised \/ PauseForPlanner \/ Unpause
    <3>1. Off
      BY <1>p, <2>1, GoesOff
         DEF Request, PlanMade, PlanRefused, PlanRaised, PauseForPlanner, Unpause, Turning
    <3> QED
      BY <3>1, HeldOn
  <2>2. ASSUME NEW g, Store(g) PROVE Held'
    <3>1. Off
      BY <1>p, <2>2 DEF Store, Off, MeFields, Turning
    <3> QED
      BY <3>1, HeldOn
  <2>3. ASSUME NEW g, StoreRefused(g) PROVE Held'
    BY <1>p, <2>3, GoesOff, HeldOn DEF StoreRefused, Throw
  <2> QED
    BY <1>1, <2>1, <2>2, <2>3 DEF Planning
<1>2. CASE Reconciling
  <2>1. Off
    <3>1. CASE AutoReplan \/ Finalize
      BY <1>p, <3>1 DEF AutoReplan, Finalize, Off, MeFields, Turning
    <3>2. CASE Abandon \/ PauseForNode \/ Leave
      BY <1>p, <3>2, GoesOff DEF Abandon, PauseForNode, Leave, Turning
    <3>3. CASE CompleteTask
      BY <1>p, <3>3, GoesOff DEF CompleteTask
    <3>4. CASE Fail
      <4>1. CASE UNCHANGED me
        BY <3>4, <4>1 DEF Fail, At, Off, Turning
      <4>2. CASE Goto("abandon") \/ me' = Idle
        BY <1>p, <4>2, GoesOff DEF Turning
      <4> QED
        BY <3>4, <4>1, <4>2 DEF Fail
    <3> QED
      BY <1>2, <3>1, <3>2, <3>3, <3>4 DEF Reconciling
  <2> QED
    BY <2>1, HeldOn
<1>3. CASE Settle \/ Pay \/ Requeue \/ Die \/ Unwind
  <2>1. Off
    BY <1>3, <1>p, GoesOff DEF Settle, Pay, Requeue, Die, Unwind, Turning
  <2> QED
    BY <2>1, HeldOn
<1>4. ASSUME NEW r \in DOMAIN revs, Lapse(r) PROVE Held'
  <2>1. PlanStays
    BY <1>4, <1>p, LeaseEnds
  <2>2. revs # <<>>
    BY <1>4, EmptySeq
  <2>3. Latest'.graph = Latest.graph
    BY <2>1, <2>2 DEF PlanStays
  <2> QED
    BY <1>4, <2>3, HeldOn DEF Lapse, On
<1> QED
  BY <1>1, <1>2, <1>3, <1>4

\* Each step keeps it.
LEMMA HeldStep == ASSUME TypeInv, Held, [Next]_vars PROVE Held'
<1>1. CASE UNCHANGED vars
  BY <1>1, HeldOn DEF vars, On, Latest
<1> QED
  BY <1>1, ExecutingHolds, TurnHolds, CommandsHolds, OthersHold DEF Next

-----------------------------------------------------------------------------
(* What each step is to the machine. *)

\* It is a step of the machine, or none.
Mapped == Promised!Next \/ UNCHANGED Views

\* What leaves the table alone is none.
LEMMA UntouchedMaps == UNCHANGED revs => Mapped
  BY DEF Mapped, Views

\* Nor what writes the lease.
LEMMA LeaseMaps ==
  ASSUME IsSeq(revs), Table, Planned,
         SetRow(Acquired(Row, Me)) \/ SetRow(Unleased(Row))
  PROVE  Mapped
<1>1. Cur \in DOMAIN revs /\ RowOk(Row) /\ Row = revs[Cur]
  BY CurrentIs
<1>2. ASSUME NEW new, new.graph = Row.graph, new.status = Row.status, SetRow(new)
      PROVE  Mapped
  <2>1. revs' = [revs EXCEPT ![Cur] = new]
    BY <1>2 DEF SetRow
  <2> QED
    BY <1>1, <1>2, <2>1, QuietMaps DEF Mapped
<1>3. LET new == Acquired(Row, Me) IN new.graph = Row.graph /\ new.status = Row.status
  BY <1>1 DEF Acquired, RowOk, Fields, RowFields
<1>4. LET new == Unleased(Row) IN new.graph = Row.graph /\ new.status = Row.status
  BY <1>1 DEF Unleased, RowOk, Fields, RowFields
<1> QED
  BY <1>2, <1>3, <1>4

\* Executors start, end and skip nodes, and close the plan when all of it is done.
LEMMA ExecutingMaps == ASSUME TypeInv, Held, Executing PROVE Mapped
<1>p. PaidInv /\ Table /\ Placed /\ IsSeq(revs)
  BY DEF TypeInv, PaidInv, Shape
<1>r. Planned => /\ HasActive /\ Row = Latest /\ RowOk(Row)
                 /\ Row.graph.status \in [NodesOf(Row.graph) -> NodeStatus]
  BY <1>p, LastRow DEF RowOk, IsPlanGraph
<1>m. ASSUME Planned, NEW n \in NodesOf(Row.graph), NEW s, MayGo(n, s), NEW result,
             SetRow(NodeMoved(Row, n, s, result))
      PROVE  Mapped
  BY <1>m, <1>p, WrittenMaps DEF Mapped
<1>1. CASE Execute \/ Release
  <2>1. Planned
    BY <1>1, <1>p DEF Execute, Release, At, Placed, AtWork
  <2> QED
    BY <1>1, <1>p, <2>1, LeaseMaps DEF Execute, Release
<1>2. CASE LeaseTaken \/ StopAt
  BY <1>2, UntouchedMaps DEF LeaseTaken, StopAt, Throw
<1>3. CASE StartNode
  <2> DEFINE n == FirstOf(Ready(Row.graph))
  <2>1. Planned /\ ~Stops /\ Ready(Row.graph) # {} /\ SetRow(NodeMoved(Row, n, "running", None))
    BY <1>3, <1>p DEF StartNode, At, Placed, AtWork
  <2>2. n \in Ready(Row.graph) /\ n \in NodesOf(Row.graph)
    <3>1. Ready(Row.graph) \subseteq NodesOf(Row.graph)
      BY DEF Ready, With
    <3> QED
      BY <1>r, <2>1, <3>1, FirstNode DEF RowOk
  <2>3. Row.graph.status[n] = "pending"
    BY <2>2 DEF Ready, With
  <2> HIDE DEF n
  <2>4. MayGo(n, "running")
    BY <2>1, <2>2, <2>3 DEF MayGo
  <2> QED
    BY <1>m, <2>1, <2>2, <2>4
<1>4. CASE Close
  <2> DEFINE s == IF With(Row.graph, "skipped") # {} THEN "failed" ELSE "completed"
  <2>1. /\ Planned /\ ~Stops /\ With(Row.graph, "pending") = {} /\ SetRow(ClosedAs(Row, s))
    BY <1>4, <1>p DEF Close, At, Placed, AtWork
  <2>2. ASSUME s = "completed", NEW n \in NodesOf(Row.graph)
        PROVE  Row.graph.status[n] = "completed"
    <3>1. Row.graph.status[n] \notin {"pending", "skipped"}
      BY <2>1, <2>2 DEF With
    <3>2. {"failed", "waiting_approval", "paused", "running"} \subseteq Range(Halting)
      <4>1. /\ Halting[1] = "failed" /\ Halting[2] = "waiting_approval" /\ Halting[3] = "paused"
            /\ Halting[4] = "running" /\ DOMAIN Halting = 1 .. 4
        BY DEF Halting
      <4> QED
        BY <4>1 DEF Range
    <3> QED
      BY <1>r, <2>1, <3>1, <3>2 DEF Stops, NodeStatus
  <2>3. s \in {"completed", "failed"}
    OBVIOUS
  <2> HIDE DEF s
  <2> QED
    BY <1>p, <2>1, <2>2, <2>3, ClosingMaps DEF Mapped
<1>5. CASE Write
  <2>1. /\ Planned /\ me.node \in NodesOf(Latest.graph) /\ me.turn = "node" /\ me.pc = "write"
        /\ me.out \in {"completed", "failed", "waiting_approval", "paused"}
        /\ SetRow(NodeMoved(Row, me.node, me.out, Recorded(me.out)))
    BY <1>5, <1>p DEF Write, At, Placed
  <2>2. me.node \in With(Row.graph, "running")
    BY <1>r, <2>1 DEF Held
  <2>3. MayGo(me.node, me.out)
    BY <2>1, <2>2 DEF MayGo, With
  <2> QED
    BY <1>m, <1>r, <2>1, <2>3
<1>6. CASE Skip
  <2> DEFINE n == FirstOf(Blocked(Row.graph))
  <2>1. CASE Blocked(Row.graph) # {}
    <3>1. Planned /\ SetRow(NodeMoved(Row, n, "skipped", Recorded("skipped")))
      BY <1>6, <1>p, <2>1 DEF Skip, At, Placed, AtWork
    <3>2. n \in Blocked(Row.graph) /\ n \in NodesOf(Row.graph)
      <4>1. Blocked(Row.graph) \subseteq NodesOf(Row.graph)
        BY DEF Blocked, With
      <4> QED
        BY <1>r, <2>1, <3>1, <4>1, FirstNode DEF RowOk
    <3>3. Row.graph.status[n] = "pending"
      BY <3>2 DEF Blocked, With
    <3> HIDE DEF n
    <3>4. MayGo(n, "skipped")
      BY <3>2, <3>3 DEF MayGo
    <3> QED
      BY <1>m, <3>1, <3>2, <3>4
  <2>2. CASE Blocked(Row.graph) = {}
    BY <1>6, <2>2, UntouchedMaps DEF Skip
  <2> QED
    BY <2>1, <2>2
<1> QED
  BY <1>1, <1>2, <1>3, <1>4, <1>5, <1>6 DEF Executing

\* A turn writes nothing of the plan.
LEMMA TurnMaps == Turn => Mapped
  BY UntouchedMaps
     DEF Turn, TurnIdle, TurnBegins, Happen, ApprovalRefused, Prepare, Complete, TurnEnds,
         TurnWindow, TurnPaused, TurnCancelled, TurnLost, TurnAsks, EndTurn

\* A planner makes the plan, or one that takes its place.
LEMMA PlanningMaps == ASSUME TypeInv, Planning PROVE Mapped
<1>p. Table /\ Placed /\ IsSeq(revs)
  BY DEF TypeInv, PaidInv, Shape
<1>1. ASSUME NEW g, Store(g) PROVE Mapped
  <2>1. CASE me.op = "initial"
    <3>1. revs = <<>> /\ revs' = <<NewRevision(g, NoResults(g))>>
      BY <1>1, <2>1 DEF Store
    <3> QED
      BY <3>1, CreatingMaps DEF Mapped
  <2>2. CASE me.op # "initial"
    <3>1. /\ Planned /\ CanReplan(Row, g)
          /\ revs' = Append([revs EXCEPT ![Cur] = ClosedAs(@, "superseded")], Successor(Row, g))
      BY <1>1, <1>p, <2>2 DEF Store, At, Placed, Phase
    <3> QED
      BY <1>p, <3>1, ReplanningMaps DEF Mapped
  <2> QED
    BY <2>1, <2>2
<1>2. CASE \/ Request \/ PlanMade \/ PlanRefused \/ PlanRaised \/ PauseForPlanner \/ Unpause
           \/ \E g \in Replans : StoreRefused(g)
  BY <1>2, UntouchedMaps
     DEF Request, PlanMade, PlanRefused, PlanRaised, PauseForPlanner, Unpause, StoreRefused, Throw
<1> QED
  BY <1>1, <1>2 DEF Planning

\* What is reconciled is left as it is, or given up.
LEMMA ReconcilingMaps == ASSUME TypeInv, Reconciling PROVE Mapped
<1>p. Table /\ IsSeq(revs)
  BY DEF TypeInv, PaidInv, Shape
<1>1. CASE Abandon
  <2>1. CASE UNCHANGED revs
    BY <2>1, UntouchedMaps
  <2>2. CASE HasActive /\ SetRow(ClosedAs(Row, "failed"))
    <3>1. Planned
      BY <1>p, <2>2, LastRow
    <3> QED
      BY <1>p, <2>2, <3>1, ClosingMaps DEF Mapped
  <2> QED
    BY <1>1, <2>1, <2>2 DEF Abandon
<1>2. CASE AutoReplan \/ Finalize \/ Fail \/ PauseForNode \/ CompleteTask \/ Leave
  BY <1>2, UntouchedMaps DEF AutoReplan, Finalize, Fail, PauseForNode, CompleteTask, Leave
<1> QED
  BY <1>1, <1>2 DEF Reconciling

\* A user ends the node that waits, or starts the one that is paused again.
LEMMA ResumingMaps == ASSUME TypeInv, Held, Settle \/ Pay \/ Requeue PROVE Mapped
<1>p. Table /\ Placed /\ IsSeq(revs)
  BY DEF TypeInv, PaidInv, Shape
<1>r. Planned => HasActive /\ Row = Latest /\ RowOk(Row)
  BY <1>p, LastRow
<1>1. CASE Settle
  <2> DEFINE out == IF me.turn = "rejected" THEN "failed" ELSE me.out
  <2>1. CASE UNCHANGED revs
    BY <2>1, UntouchedMaps
  <2>2. CASE /\ <<"waiting_approval", out>> \in NodeMoves
             /\ SetRow(NodeMoved(Row, me.node, out, [by |-> "user", status |-> out]))
    <3>1. /\ Planned /\ me.node \in NodesOf(Latest.graph) /\ me.turn \in UserTurn
          /\ me.pc = "settle"
          /\ me.out \in {"completed", "failed", "waiting_approval", "paused"}
      BY <1>1, <1>p DEF Settle, At, Placed
    <3>2. me.node \in With(Row.graph, "waiting_approval")
      BY <1>r, <3>1 DEF Held
    <3>3. out \in {"completed", "failed", "waiting_approval"}
      BY <2>2, <3>1 DEF NodeMoves
    <3> HIDE DEF out
    <3>4. MayGo(me.node, out)
      BY <3>2, <3>3 DEF MayGo, With
    <3> QED
      BY <1>p, <1>r, <2>2, <3>1, <3>4, WrittenMaps DEF Mapped
  <2> QED
    BY <1>1, <2>1, <2>2 DEF Settle
<1>2. CASE Pay
  BY <1>2, UntouchedMaps DEF Pay
<1>3. CASE Requeue
  <2> DEFINE paused == With(Row.graph, "paused")
             n == FirstOf(paused)
  <2>1. CASE paused = {}
    BY <1>3, <2>1, UntouchedMaps DEF Requeue
  <2>2. CASE paused # {}
    <3>1. Planned /\ SetRow(NodeMoved(Row, n, "pending", None))
      BY <1>3, <1>p, <2>2 DEF Requeue, At, Placed, AtWork
    <3>2. paused \subseteq NodesOf(Row.graph)
      BY DEF With
    <3>3. n \in paused /\ n \in NodesOf(Row.graph)
      BY <1>r, <2>2, <3>1, <3>2, FirstNode DEF RowOk
    <3>4. MayGo(n, "pending")
      BY <3>3 DEF MayGo, With
    <3> HIDE DEF n
    <3> QED
      BY <1>p, <3>1, <3>3, <3>4, WrittenMaps DEF Mapped
  <2> QED
    BY <2>1, <2>2
<1> QED
  BY <1>1, <1>2, <1>3

\* Of the commands two write the plan: an interrupted node is completed, or starts again.
LEMMA CommandsMaps == ASSUME TypeInv, Commands PROVE Mapped
<1>p. Table /\ IsSeq(revs)
  BY DEF TypeInv, PaidInv, Shape
<1>i. ASSUME Decision = "interrupted"
      PROVE  /\ Planned /\ Interrupted \in NodesOf(Row.graph)
             /\ Row.graph.status[Interrupted] = "running"
  <2>1. HasActive /\ With(Row.graph, "running") # {}
    BY <1>i DEF Decision
  <2>2. Planned /\ RowOk(Row) /\ With(Row.graph, "running") \subseteq NodesOf(Row.graph)
    BY <1>p, <2>1, LastRow DEF With
  <2>3. Interrupted \in With(Row.graph, "running")
    BY <2>1, <2>2, FirstNode DEF Interrupted, RowOk
  <2> QED
    BY <2>2, <2>3 DEF With
<1>1. CASE AcceptInterrupted
  <2>1. /\ Decision = "interrupted"
        /\ SetRow(NodeMoved(Row, Interrupted, "completed",
                            [by |-> "history", status |-> "completed"]))
    BY <1>1 DEF AcceptInterrupted
  <2>2. MayGo(Interrupted, "completed")
    BY <1>i, <2>1 DEF MayGo
  <2> QED
    BY <1>i, <1>p, <2>1, <2>2, WrittenMaps DEF Mapped
<1>2. ASSUME NEW looked \in BOOLEAN, RewindInterrupted(looked) PROVE Mapped
  <2>1. Decision = "interrupted" /\ SetRow(Rewound(Row, Interrupted))
    BY <1>2 DEF RewindInterrupted
  <2> QED
    BY <1>i, <1>p, <2>1, RewindMaps DEF Mapped
<1>3. CASE \/ Start \/ Continue \/ ContinuePlanner \/ ResumePaused \/ Answer \/ ReplanCommand
           \/ PauseTask \/ CancelTask
           \/ (\E a \in rows : Resolve(a)) \/ (\E approved \in BOOLEAN : Decide(approved))
  BY <1>3, UntouchedMaps DEF Start, Continue, ContinuePlanner, ResumePaused, Answer,
                             ReplanCommand, PauseTask, CancelTask, Resolve, Decide
<1> QED
  BY <1>1, <1>2, <1>3 DEF Commands

\* Death, Ctrl-C and time end a lease, and nothing that the machine sees.
LEMMA EndingMaps ==
  ASSUME Die \/ Unwind \/ \E r \in DOMAIN revs : Lapse(r), Table PROVE Mapped
<1>1. CASE Die
  <2>1. revs' = [r \in DOMAIN revs |->
                   IF revs[r].owner = Me THEN [revs[r] EXCEPT !.owner = Gone] ELSE revs[r]]
    BY <1>1 DEF Die
  <2>2. ASSUME NEW r \in DOMAIN revs
        PROVE  LET new == [revs[r] EXCEPT !.owner = Gone]
               IN  new.status = revs[r].status /\ new.graph = revs[r].graph
    BY DEF Table, RowOk, Fields, RowFields
  <2> QED
    BY <2>1, <2>2, QuietMaps DEF Mapped
<1>2. ASSUME NEW r \in DOMAIN revs, Lapse(r) PROVE Mapped
  <2> DEFINE new == [revs[r] EXCEPT !.live = FALSE]
  <2>1. new.status = revs[r].status /\ new.graph = revs[r].graph
    BY DEF Table, RowOk, Fields, RowFields
  <2>2. revs' = [revs EXCEPT ![r] = new]
    BY <1>2 DEF Lapse
  <2> HIDE DEF new
  <2> QED
    BY <2>1, <2>2, QuietMaps DEF Mapped
<1>3. CASE Unwind
  <2>1. revs' = [r \in DOMAIN revs |-> IF revs[r].owner = Me THEN Unleased(revs[r]) ELSE revs[r]]
    BY <1>3 DEF Unwind
  <2>2. ASSUME NEW r \in DOMAIN revs
        PROVE  LET new == Unleased(revs[r])
               IN  new.status = revs[r].status /\ new.graph = revs[r].graph
    BY DEF Unleased, Table, RowOk, Fields, RowFields
  <2> QED
    BY <2>1, <2>2, QuietMaps DEF Mapped
<1> QED
  BY <1>1, <1>2, <1>3

\* However the writes of commands, turns, executors, planners and recoveries follow each other,
\* and whenever a process dies between two of them: nodes start in the order of their
\* dependencies while nothing has gone wrong, a node ends only once it has started, and a
\* replan takes over what is completed, whatever the planner has written. PlanService
\* implements PlanMachine, with plans that are given up for what is not in them.
THEOREM PlanImplemented == Spec => Implements
<1>1. Init => Promised!Init
  <2> SUFFICES ASSUME Init PROVE Views = <<>>
    BY DEF Promised!Init, Views, View
  <2> QED
    BY DEF Init, Views
<1>2. Init => Held
  BY DEF Init, Idle, Held, Turning
<1>3. TypeInv /\ Held /\ [Next]_vars => Held'
  BY HeldStep
<1>4. TypeInv /\ Held /\ [Next]_vars => [Promised!Next]_Views
  <2>1. UNCHANGED vars => UNCHANGED Views
    BY DEF vars, Views
  <2>2. TypeInv => Table
    BY DEF TypeInv
  <2> QED
    BY <2>1, <2>2, ExecutingMaps, TurnMaps, PlanningMaps, ReconcilingMaps, ResumingMaps,
       CommandsMaps, EndingMaps DEF Next, Mapped
<1> QED
  BY <1>1, <1>2, <1>3, <1>4, WaysInit, WaysStep, PTL
     DEF Spec, Implements, Promised!Spec, Views, View
=============================================================================
